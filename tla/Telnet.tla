------------------------------- MODULE Telnet -------------------------------
(***************************************************************************)
(* The Telnet service: the directories and commands other services          *)
(* register, and the line editor of one session.  The service is a          *)
(* single-threaded listener, so each handler is one action.  The user's     *)
(* terminal is modelled by what the vt100 sequences the service writes do    *)
(* to the row the cursor is on: the editor is right when that row shows the  *)
(* line the service would execute.                                           *)
(*                                                                         *)
(* A byte is a string.  A prompt takes one cell, `quit', `ls', `cd' and `..' *)
(* are one-letter words, and lines stay shorter than the terminal is wide.   *)
(***************************************************************************)
EXTENDS Integers, Sequences, FiniteSets, FiniteSetsExt

CONSTANTS Keys,          \* the byte sequences the user's terminal sends
          MaxKeys,       \* bound: keys typed
          MaxUneven,     \* bound: keys cut, or typed before the last one is handled
          CommandList,   \* the commands services register: a sequence of
                         \* [re, lines] in the order of std::map, the regular
                         \* expression as text and the lines it matches whole
          Registrations  \* the [dir, cmd, dst] services may register

ASSUME KeyBytes == Keys \subseteq Seq(STRING)
ASSUME CommandTexts ==
    \A c \in Registrations :
        /\ c.dir \in Seq(STRING) /\ CommandList[c.cmd].re \in Seq(STRING)
        /\ CommandList[c.cmd].lines \subseteq Seq(STRING)

VARIABLES cmdEntries,    \* [dirs, commands]: directories, and [dir, cmd, dst]
          W,             \* the session: {} before Accepted and after Disaccepted
          scr,           \* the terminal's row: [row, col, ins]
          net, inBuffer, \* bytes sent and not received; received and not read
          reads,         \* StreamRead events queued at the service
          asked,         \* the CommandEntered events the last step passed to a service
          replies,       \* the services' answers not yet handled
          conn,          \* "new", "accepted" or "gone"
          fault,         \* "none", or what stopped the process
          latest,        \* history: who registered a command of a directory last
          typed, uneven, \* keys typed; keys cut or run together
          seen           \* history: [base, ok], what precedes the line on the
                         \* row, and whether the editor still tracks the row

tvars == <<cmdEntries, W, scr, net, inBuffer, reads, asked, replies, conn, fault,
           latest, typed, uneven, seen>>

Printable == {"x", "y", "d", "q", "h", "u", "c", " "}

----------------------------------------------------------------------------
(* The terminal. *)

Clear == [row |-> <<>>, col |-> 0, ins |-> TRUE]

\* Cells printed at the cursor, inserted or written over in the terminal's mode.
Text(s, cells) ==
    LET before == SubSeq(s.row, 1, s.col)
        after  == SubSeq(s.row, s.col + 1 + (IF s.ins THEN 0 ELSE Len(cells)), Len(s.row))
    IN  [s EXCEPT !.row = before \o cells \o after, !.col = @ + Len(cells)]

cursor_back(s) == [s EXCEPT !.col = IF @ = 0 THEN 0 ELSE @ - 1]

cursor_forward(s) == [s EXCEPT !.col = IF @ < Len(s.row) THEN @ + 1 ELSE @]

RemovedAt(line, i) == SubSeq(line, 1, i) \o SubSeq(line, i + 2, Len(line))

\* ESC [ P deletes the cell under the cursor.
erase(s) == [s EXCEPT !.row = IF s.col < Len(@) THEN RemovedAt(@, s.col) ELSE @]

\* The row erased and the cursor moved back further than any row is long.
erase_line(s) == [s EXCEPT !.row = <<>>, !.col = 0]

NewRow(s) == erase_line(s)

----------------------------------------------------------------------------
(* Directories and commands. *)

Starts(s, t) == Len(t) <= Len(s) /\ SubSeq(s, 1, Len(t)) = t

Sub(dirs, d) == {e \in dirs : Len(e) = Len(d) + 1 /\ Starts(e, d)}

commands(d) == {c \in cmdEntries.commands : c.dir = d}

\* The path shown in the prompt and sent with a command: leaf first.
path(d) == [i \in 1..Len(d) |-> d[Len(d) + 1 - i]]

promptString(d) == <<path(d)>>

\* Every directory on the way is created when it is missing.
registerDirectory(dirs, d) == dirs \cup {SubSeq(d, 1, i) : i \in 1..Len(d)}

\* As addCommand, but std::map::insert alone, which keeps what is there.
KeptFirst(cs, c) == IF \E o \in cs : o.dir = c.dir /\ o.cmd = c.cmd THEN cs ELSE cs \cup {c}

addCommand(cs, c) == {o \in cs : o.dir # c.dir \/ o.cmd # c.cmd} \cup {c}

\* The directory is there first; then the command is added to it, in place of one
\* registered before under the same text.
on_RegisterCommand ==
    /\ fault = "none"
    /\ \E c \in Registrations :
        /\ c \notin cmdEntries.commands
        /\ cmdEntries' = [dirs     |-> registerDirectory(cmdEntries.dirs, c.dir),
                          commands |-> addCommand(cmdEntries.commands, c)]
        /\ latest' = [k \in DOMAIN latest \cup {<<c.dir, c.cmd>>} |->
                         IF k = <<c.dir, c.cmd>> THEN c.dst ELSE latest[k]]
    /\ asked' = {} /\ UNCHANGED <<W, scr, net, inBuffer, reads, replies, conn, fault, typed, uneven, seen>>

----------------------------------------------------------------------------
(* Telnet negotiation at the head of what was read. *)

Drop(c, n) == SubSeq(c, n + 1, Len(c))

Value == [b \in {"NUL", "P"} |-> IF b = "P" THEN 80 ELSE 0]

ByteAt(c, i) == IF i <= Len(c) /\ c[i] \in DOMAIN Value THEN Value[c[i]] ELSE 0

\* The triplets of LM_SLC that start at i, up to IAC SE: where the next item starts.
\* at[k] is where the next triplet starts behind those that start in the first k bytes.
Slc(c, i) ==
    LET Ends(k) == k < Len(c) /\ c[k] = "IAC" /\ c[k + 1] = "SE"
        at[k \in 0..Len(c)] ==
            IF k = 0 THEN i
            ELSE LET p == at[k - 1]
                 IN  IF p # k \/ Ends(k) THEN p ELSE k + (IF c[k] = "SLC_EC" THEN 3 ELSE 1)
    IN  at[Len(c)] + 2

\* IAC SB, up to i: where the next item starts.
Subnegotiation(c, i) ==
    IF i > Len(c) THEN i
    ELSE IF c[i] = "NAWS" THEN i + 5
    ELSE IF c[i] = "LINEMODE" /\ i < Len(c)
         THEN IF c[i + 1] = "SLC" THEN Slc(c, i + 2) ELSE i + 2
    ELSE i + 1

\* Behind the item that starts with the IAC at i.
NextItem(c, i) ==
    IF i = Len(c) THEN i + 1
    ELSE IF c[i + 1] \in {"WILL", "WONT", "DO", "DONT"} THEN i + 3
    ELSE IF c[i + 1] = "SB" THEN Subnegotiation(c, i + 2)
    ELSE i + 2

\* at[k] is where the next item starts behind those that start in the first k bytes.
Items(c) ==
    LET at[k \in 0..Len(c)] ==
            IF k = 0 THEN 1
            ELSE LET p == at[k - 1]
                 IN  IF p = k /\ c[k] = "IAC" THEN NextItem(c, k) ELSE p
    IN  at

\* The window size is stored, with zero for a byte that is missing.
Width(c, width) ==
    LET naws  == {k \in 1..Len(c) - 2 : c[k] = "IAC" /\ c[k + 1] = "SB" /\ c[k + 2] = "NAWS"}
        sizes == {k \in naws : Items(c)[k - 1] = k}
    IN  IF sizes = {} THEN width
        ELSE 256 * ByteAt(c, Max(sizes) + 3) + ByteAt(c, Max(sizes) + 4)

Negotiate(c, width) == [chars |-> SubSeq(c, Items(c)[Len(c)], Len(c)), width |-> Width(c, width)]

----------------------------------------------------------------------------
(* Keys.  Each takes the session w and gives the effect of the key: the session, *)
(* the terminal, and what is seen.                                             *)

Effect(w, s, o) == [w |-> w, scr |-> s, seen |-> o, close |-> FALSE, ask |-> {}]

Nothing(w) == Effect(w, scr, seen)

Insert(w) == Effect([w EXCEPT !.insertMode = ~@], [scr EXCEPT !.ins = ~w.insertMode], seen)

\* Whatever is under the new position goes; the position moves even when it lies
\* behind the end of the line, as it does after a command was entered.
on_TKEY_BS(w) ==
    IF w.curpos = 0 THEN Nothing(w)
    ELSE IF w.curpos - 1 < Len(w.line)
    THEN Effect([w EXCEPT !.curpos = @ - 1, !.line = RemovedAt(@, w.curpos - 1)],
                erase(cursor_back(scr)), seen)
    ELSE Effect([w EXCEPT !.curpos = @ - 1], scr, seen)

Delete(w) ==
    IF w.curpos < Len(w.line)
    THEN Effect([w EXCEPT !.line = RemovedAt(@, w.curpos)], erase(scr), seen)
    ELSE Nothing(w)

\* The cursor moves back also when the position lies behind the end of the line.
Left(w) ==
    IF w.curpos = 0 THEN Nothing(w)
    ELSE Effect([w EXCEPT !.curpos = @ - 1], cursor_back(scr),
                [seen EXCEPT !.ok = @ /\ w.curpos <= Len(w.line)])

Right(w) ==
    IF w.curpos < Len(w.line)
    THEN Effect([w EXCEPT !.curpos = @ + 1], cursor_forward(scr), seen)
    ELSE Nothing(w)

\* LEFT and RIGHT divide by the width when they move.
DividesByWidth(w, out) ==
    \/ out = <<"ESC", "[", "D">> /\ w.curpos > 0
    \/ out = <<"ESC", "[", "C">> /\ w.curpos < Len(w.line)

Prompted(w) == Text(erase_line(scr), promptString(w.node))

\* Past either end of the history the row and the position are reset, but neither
\* the line nor the place in the history.
History(w, next) ==
    LET idx == Len(w.history) + w.pos + next
        cmd == w.history[idx + 1]
        o   == [base |-> promptString(w.node), ok |-> TRUE]
    IN  IF w.history = <<>> THEN Nothing(w)
        ELSE IF idx >= 0 /\ idx < Len(w.history)
        THEN Effect([w EXCEPT !.line = cmd, !.curpos = Len(cmd), !.pos = @ + next],
                    Text(Prompted(w), cmd), o)
        ELSE Effect([w EXCEPT !.curpos = 0], Prompted(w), [o EXCEPT !.ok = w.line = <<>>])

\* The row is reset and the line is not.
Escape(w) == Effect(w, Prompted(w), [base |-> promptString(w.node), ok |-> w.line = <<>>])

\* What every name that starts with templ has in common behind it.
getAutoAppendString(v, templ) ==
    LET vm    == {n \in v : Starts(n, templ)}
        first == CHOOSE n \in vm : TRUE
        max   == Max({i \in 0..Len(first) : \A n \in vm : Starts(n, SubSeq(first, 1, i))})
    IN  IF vm = {} THEN <<>> ELSE SubSeq(first, Len(templ) + 1, max)

\* The completion is added to the end of the line and written at the cursor.
Tab(w) ==
    LET names  == {CommandList[c.cmd].re : c \in commands(w.node)}
                      \cup {<<d[Len(d)]>> : d \in Sub(cmdEntries.dirs, w.node)}
        append == getAutoAppendString(names, w.line)
    IN  Effect([w EXCEPT !.line = @ \o append, !.curpos = @ + Len(append)],
               Text(scr, append),
               [seen EXCEPT !.ok = @ /\ (append = <<>> \/ w.curpos >= Len(w.line))])

\* As Character, but the editor ignores that the terminal may write over.
AlwaysInserted(w, c) ==
    LET p == Min({w.curpos, Len(w.line)})
    IN  Effect([w EXCEPT !.line = SubSeq(@, 1, p) \o <<c>> \o SubSeq(@, p + 1, Len(@)),
                         !.curpos = p + 1], Text(scr, <<c>>), seen)

\* Any other byte goes into the line, the position first brought back into it.
Character(w, c) ==
    LET p == Min({w.curpos, Len(w.line)})
        l == SubSeq(w.line, 1, p) \o <<c>>
                 \o SubSeq(w.line, p + (IF w.insertMode THEN 1 ELSE 2), Len(w.line))
    IN  Effect([w EXCEPT !.line = l, !.curpos = p + 1], Text(scr, <<c>>),
               [seen EXCEPT !.ok = @ /\ c \in Printable])

----------------------------------------------------------------------------
(* ENTER. *)

Blank == " "

\* tokens[0] of splitStringDQ(" \t", cmd); <<>> when there is none.
FirstWord(l) ==
    LET solid == {i \in 1..Len(l) : l[i] # Blank}
        ends  == {i \in 1..Len(l) : l[i] = Blank /\ i > Min(solid)}
    IN  IF solid = {} THEN <<>>
        ELSE SubSeq(l, Min(solid), IF ends = {} THEN Len(l) ELSE Min(ends) - 1)

\* The first command, in the order of the map, whose expression matches the line.
Matching(d, cmd) ==
    LET m == {c \in commands(d) : cmd \in CommandList[c.cmd].lines}
    IN  {c \in m : \A o \in m : c.cmd <= o.cmd}

\* The line is kept in the history and emptied; the position stays where it was.
\* A command goes to its service without a prompt: the answer brings it.
processCommand(w) ==
    LET cmd   == w.line
        w1    == [w EXCEPT !.line = <<>>, !.history = Append(@, cmd), !.pos = 0]
        word  == FirstWord(cmd)
        At(d) == Effect([w1 EXCEPT !.node = d], Text(NewRow(scr), promptString(d)),
                        [base |-> promptString(d), ok |-> TRUE])
        m     == Matching(w.node, cmd)
        Send  == [Effect(w1, NewRow(scr), [base |-> <<>>, ok |-> TRUE]) EXCEPT
                     !.ask = {[path |-> path(w.node), cmd |-> cmd, dst |-> c.dst,
                               dir |-> w.node, re |-> c.cmd] : c \in m}]
    IN  IF word = <<"q">> THEN [Effect(w1, NewRow(scr), seen) EXCEPT !.close = TRUE]
        ELSE IF word = <<"h">> THEN At(w.node)
        ELSE IF word = <<"u">> THEN At(IF w.node = <<>> THEN <<>> ELSE SubSeq(w.node, 1, Len(w.node) - 1))
        ELSE IF word # <<"c">> /\ w.node \o word \in Sub(cmdEntries.dirs, w.node)
             THEN At(w.node \o word)
        ELSE IF m # {} THEN Send
        ELSE At(w.node)

----------------------------------------------------------------------------
(* The session. *)

Session == [node |-> <<>>, line |-> <<>>, curpos |-> 0, history |-> <<>>, pos |-> 0,
            insertMode |-> TRUE, width |-> 80, closing |-> FALSE]

ControlC(w) == [Nothing(w) EXCEPT !.close = TRUE]

\* What is left of the read is compared as a whole with the keys; when it is none of
\* them only its first byte counts.
Key(w, out) ==
    CASE out \in {<<>>, <<"ESC", "O", "P">>} -> Nothing(w)
      [] out = <<"ESC", "[", "2", "~">> -> Insert(w)
      [] out = <<"BS">> -> on_TKEY_BS(w)
      [] out = <<"ESC", "[", "3", "~">> -> Delete(w)
      [] out = <<"ESC", "[", "D">> -> Left(w)
      [] out = <<"ESC", "[", "C">> -> Right(w)
      [] out = <<"ESC", "[", "A">> -> History(w, -1)
      [] out = <<"ESC", "[", "B">> -> History(w, 1)
      [] out = <<"ESC">> -> Escape(w)
      [] out = <<"TAB">> -> Tab(w)
      [] OTHER -> CASE out[1] = "^C" -> ControlC(w)
                    [] out[1] = "TAB" -> Nothing(w)
                    [] out[1] = "CR" -> processCommand(w)
                    [] OTHER -> Character(w, out[1])

on_Accepted ==
    /\ fault = "none" /\ conn = "new"
    /\ conn' = "accepted" /\ W' = {Session}
    /\ scr' = Text(Clear, promptString(<<>>))
    /\ seen' = [base |-> promptString(<<>>), ok |-> TRUE]
    /\ asked' = {} /\ UNCHANGED <<cmdEntries, net, inBuffer, reads, replies, fault, latest, typed, uneven>>

\* A read of a session that is not there yet leaves its bytes for the next one.
on_StreamRead ==
    /\ fault = "none" /\ reads > 0
    /\ reads' = reads - 1
    /\ IF W = {} THEN asked' = {} /\ UNCHANGED <<W, scr, inBuffer, replies, fault, seen>>
       ELSE LET n == Negotiate(inBuffer, (CHOOSE w \in W : TRUE).width)
                w == [(CHOOSE w \in W : TRUE) EXCEPT !.width = n.width]
                k == Key(w, n.chars)
            IN  /\ inBuffer' = <<>>
                /\ IF w.width = 0 /\ DividesByWidth(w, n.chars)
                   THEN fault' = "width" /\ W' = {w} /\ asked' = {} /\ UNCHANGED <<scr, seen, replies>>
                   ELSE /\ W' = {[k.w EXCEPT !.closing = @ \/ k.close]}
                        /\ scr' = k.scr /\ seen' = k.seen
                        /\ asked' = k.ask
                        /\ replies' = replies + Cardinality(k.ask)
                        /\ UNCHANGED fault
    /\ UNCHANGED <<cmdEntries, net, conn, latest, typed, uneven>>

\* The session's socket is read from the session before the session is tested.
on_Reply ==
    /\ fault = "none" /\ replies > 0
    /\ replies' = replies - 1
    /\ IF W = {} THEN fault' = "reply" /\ UNCHANGED <<scr, seen>>
       ELSE LET w == CHOOSE w \in W : TRUE
            IN  /\ scr' = Text(NewRow(scr), promptString(w.node))
                /\ seen' = [base |-> promptString(w.node), ok |-> w.line = <<>>]
                /\ UNCHANGED fault
    /\ asked' = {} /\ UNCHANGED <<cmdEntries, W, net, inBuffer, reads, conn, latest, typed, uneven>>

on_Disaccepted ==
    /\ fault = "none" /\ conn = "accepted"
    /\ conn' = "gone" /\ W' = {} /\ scr' = Clear /\ net' = <<>> /\ inBuffer' = <<>>
    /\ asked' = {} /\ UNCHANGED <<cmdEntries, reads, replies, fault, latest, typed, uneven, seen>>

----------------------------------------------------------------------------
(* The user and the network. *)

\* A key is typed.  Its bytes arrive at once or cut at any place; the socket service
\* queues a StreamRead for each piece.
Type ==
    /\ fault = "none" /\ typed < MaxKeys /\ conn # "gone" /\ net = <<>>
    /\ \E k \in Keys : \E n \in 1..Len(k) :
        LET u == uneven + (IF n = Len(k) /\ reads = 0 /\ conn = "accepted" THEN 0 ELSE 1)
        IN  /\ u <= MaxUneven /\ uneven' = u
            /\ inBuffer' = inBuffer \o SubSeq(k, 1, n) /\ net' = Drop(k, n)
    /\ reads' = reads + 1 /\ typed' = typed + 1
    /\ asked' = {} /\ UNCHANGED <<cmdEntries, W, scr, replies, conn, fault, latest, seen>>

Arrive ==
    /\ fault = "none" /\ net # <<>>
    /\ inBuffer' = inBuffer \o net /\ net' = <<>> /\ reads' = reads + 1
    /\ asked' = {} /\ UNCHANGED <<cmdEntries, W, scr, replies, conn, fault, latest, typed, uneven, seen>>

TInit ==
    /\ cmdEntries = [dirs |-> {<<>>}, commands |-> {}]
    /\ W = {} /\ scr = Clear /\ net = <<>> /\ inBuffer = <<>> /\ reads = 0
    /\ asked = {} /\ replies = 0 /\ conn = "new" /\ fault = "none"
    /\ latest = <<>> /\ typed = 0 /\ uneven = 0 /\ seen = [base |-> <<>>, ok |-> TRUE]

TNext == \/ on_RegisterCommand \/ on_Accepted \/ on_StreamRead \/ on_Reply
         \/ on_Disaccepted \/ Type \/ Arrive

TSpec == TInit /\ [][TNext]_tvars

----------------------------------------------------------------------------
(* Properties. *)

\* The user sees the line that ENTER would execute: the row shows the prompt (none
\* between a command and its answer) and the line, with the cursor where the next
\* character goes.  Keys that leave the row out of step (the ends of the history,
\* ESC, TAB in the middle of the line, LEFT with the position ENTER left behind) and
\* an answer that arrives while a line is being typed are excluded, until the row is
\* written anew.
ScreenShowsLine ==
    \A w \in W : seen.ok /\ ~w.closing =>
        /\ scr.row = seen.base \o w.line
        /\ scr.col = Len(seen.base) + Min({w.curpos, Len(w.line)})
        /\ scr.ins = w.insertMode

\* A command entered goes to the service that registered it last, in the directory
\* the session was in, for an expression that matches the whole line.
LastRegistrantAnswers ==
    [][\A a \in asked' : /\ a.dst = latest[<<a.dir, a.re>>]
                         /\ a.cmd \in CommandList[a.re].lines]_tvars

=============================================================================
