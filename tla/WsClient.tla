------------------------------ MODULE WsClient ------------------------------
(***************************************************************************)
(* The WebSocket client service (modules/webSocketClient) for one socket: it *)
(* connects, asks for the upgrade, waits for the answer and then exchanges    *)
(* text frames.  Its socket's bytes come from out, one piece after another;   *)
(* what it writes goes to wire.                                             *)
(***************************************************************************)
EXTENDS Naturals, Sequences

CONSTANTS Handshake,      \* the request that Connected writes
          TextFrame(_)    \* a final text frame without a mask

VARIABLES wire, out,
          taken,   \* how much of out has reached the client's inBuffer_
          cl       \* its state: the socket, inBuffer_, the StreamReads in its queue, awaiting_handshake,
                   \* the events passed on, and how many texts were sent

NewClient == [sock |-> "none", inBuffer |-> <<>>, queued |-> 0, awaiting_handshake |-> FALSE,
              passed |-> <<>>, sent |-> 0]
pass(c, e) == [c EXCEPT !.passed = Append(@, e)]

\* A state for the socket, and the request to connect it.
Connect ==
    /\ cl.sock = "none"
    /\ cl' = [cl EXCEPT !.sock = "connecting"]
    /\ UNCHANGED <<wire, out, taken>>

ConnectFailed ==
    /\ cl.sock = "connecting"
    /\ cl' = [pass(cl, <<"ConnectFailed", 0>>) EXCEPT !.sock = "closed"]
    /\ UNCHANGED <<wire, out, taken>>

Connected ==
    /\ cl.sock = "connecting"
    /\ wire' = wire \o Handshake
    /\ cl' = [cl EXCEPT !.sock = "open", !.awaiting_handshake = TRUE]
    /\ UNCHANGED <<out, taken>>

\* Where an empty line ends: behind the heads of answers, and in the last chunk of one.
Ends(b) == {i \in 1..Len(b) : b[i][1] \in {"blank line", "head"} \/ b[i] = <<"chunk", 0>>}

\* The first head, once it is whole, is cut off, whatever it says; what follows waits for the
\* next StreamRead.
ReadHandshake(c) ==
    IF Ends(c.inBuffer) = {} THEN c
    ELSE LET i    == CHOOSE i \in Ends(c.inBuffer) : \A j \in Ends(c.inBuffer) : i <= j
             rest == [c EXCEPT !.inBuffer = SubSeq(@, i + 1, Len(@))]
         IN  IF \E j \in 1..i : c.inBuffer[j][1] = "101"
             THEN [pass(rest, <<"Connected", 0>>) EXCEPT !.awaiting_handshake = FALSE]
             ELSE rest

\* Mutant: what follows the frame is dropped.
DropRest(c) ==
    IF c.inBuffer = <<>> \/ c.inBuffer[1][1] # "FH" THEN pass(c, <<"Received", 0>>)
    ELSE IF Len(c.inBuffer) < 2 THEN c
    ELSE [pass(c, c.inBuffer[2]) EXCEPT !.inBuffer = <<>>]

\* One frame is taken.  A part of a frame makes substr throw, and stays where it is;
\* what is no text frame stays too, and is told as an empty text, as is an empty buffer.
ReadFrame(c) ==
    IF c.inBuffer = <<>> \/ c.inBuffer[1][1] # "FH" THEN pass(c, <<"Received", 0>>)
    ELSE IF Len(c.inBuffer) < 2 THEN c
    ELSE [pass(c, c.inBuffer[2]) EXCEPT !.inBuffer = SubSeq(@, 3, Len(@))]

\* The socket's thread reads, and puts a StreamRead in the client's queue.
Recv(n) ==
    /\ cl.sock = "open" /\ taken + n <= Len(out)
    /\ taken' = taken + n
    /\ cl' = [cl EXCEPT !.inBuffer = @ \o SubSeq(out, taken + 1, taken + n), !.queued = @ + 1]
    /\ UNCHANGED <<wire, out>>

\* The client's thread handles one, with whatever inBuffer_ holds by then.
StreamRead ==
    LET c == [cl EXCEPT !.queued = @ - 1]
    IN  /\ cl.queued > 0
        /\ cl' = IF c.awaiting_handshake THEN ReadHandshake(c) ELSE ReadFrame(c)
        /\ UNCHANGED <<wire, out, taken>>

\* The user sends once it was told that the socket is a WebSocket.
Send(k) ==
    /\ cl.sock = "open" /\ ~cl.awaiting_handshake
    /\ wire' = wire \o TextFrame(k)
    /\ cl' = [cl EXCEPT !.sent = @ + 1]
    /\ UNCHANGED <<out, taken>>

\* The socket is closed; Disconnected is behind the StreamReads in the queue.
Shut ==
    /\ cl.sock = "open"
    /\ cl' = [cl EXCEPT !.sock = "shut"]
    /\ UNCHANGED <<wire, out, taken>>

Disconnected ==
    /\ cl.sock = "shut" /\ cl.queued = 0
    /\ cl' = [pass(cl, <<"Disconnected", 0>>) EXCEPT !.sock = "closed"]
    /\ UNCHANGED <<wire, out, taken>>
=============================================================================
