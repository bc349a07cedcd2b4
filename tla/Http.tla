-------------------------------- MODULE Http --------------------------------
(***************************************************************************)
(* The HTTP service (modules/http) on one socket: the parser of Llhttp with *)
(* the service's callbacks, the events it passes to the application, and     *)
(* what the application's Response objects write back.                      *)
(*                                                                         *)
(* The socket's thread calls on_StreamRead with whatever arrived, from one   *)
(* byte to several requests; Accepted comes from the thread that accepted    *)
(* the socket, before or after the first read.  Bytes are the classes of     *)
(* Llhttp; a WebSocket frame on the wire is its head <<"FH", ...>> (opcode,    *)
(* final, masked, length), its mask <<"FM", k>> of four bytes if it has one,   *)
(* and its text <<"FP", k>>, which is <<"FX", k>> while the mask is on it.     *)
(***************************************************************************)
EXTENDS Naturals, Sequences, FiniteSets, SequencesExt

CONSTANTS MaxU64,      \* the largest content_length
          ReadSizes,   \* how many bytes a read may bring (0: all there are)
          TextSizes,   \* the sizes of what the application answers
          MaxChunks    \* how many chunks a chunked answer has

VARIABLES wire,     \* bytes the peer wrote and the service has not read
          told,     \* Accepted was handled
          req,      \* the socket's HTTP::Request in additions_: its parser, whose d holds the context
          given,    \* events passed to the application
          out,      \* what was written to the socket
          closing,  \* the socket is to be closed once out is flushed
          gone,     \* the socket was closed and Disaccepted handled
          resp      \* the application's answers: how many are whole, and the Response in progress

httpVars == <<wire, told, req, given, out, closing, gone, resp>>
-----------------------------------------------------------------------------
NewContext ==
    [method |-> "GET", url |-> <<>>, field |-> <<>>, value |-> <<>>, headers |-> {},
     keepalive |-> TRUE, upgrade |-> FALSE, hasBody |-> FALSE, body |-> <<>>, chunk_size |-> 0,
     is_chunked |-> FALSE, chunkId |-> 0, isWebSocket |-> FALSE, websocket_buffer |-> <<>>]

NewData == [ctx |-> NewContext, events |-> <<>>, writes |-> <<>>, mismatch |-> FALSE]

Put(h, k, v) == {p \in h : p[1] # k} \cup {<<k, v>>}
Get(h, k)    == IF \E p \in h : p[1] = k THEN (CHOOSE p \in h : p[1] = k)[2] ELSE <<>>

\* What the application finds in the context of an event.
View(c)       == [method |-> c.method, url |-> c.url, headers |-> c.headers, keepalive |-> c.keepalive,
                  body |-> c.body]
Pass(d, e)    == [d EXCEPT !.events = Append(@, e)]
Word(w)       == << <<w, 1>>, <<w, 2>>, <<w, 3>> >>

on_url(d, at) == [d EXCEPT !.ctx.url = @ \o at]

\* A new name saves the header before it, if that one had a value.
on_header_field(d, at) ==
    LET c == d.ctx
        s == IF c.value = <<>> THEN c
             ELSE [c EXCEPT !.headers = Put(@, c.field, c.value), !.field = <<>>, !.value = <<>>]
    IN  [d EXCEPT !.ctx = [s EXCEPT !.field = @ \o at]]

on_header_value(d, at) == [d EXCEPT !.ctx.value = @ \o at]

\* The headers are there: a chunked request is announced, a WebSocket is answered.
\* Looking a header up in the map leaves an entry for it.
on_headers_complete(s, keepalive) ==
    LET c  == s.d.ctx
        h  == IF c.field = <<>> THEN c.headers ELSE Put(c.headers, c.field, c.value)
        c1 == [c EXCEPT !.keepalive = keepalive, !.upgrade = s.upgrade, !.headers = h, !.method = s.method]
        c2 == [c1 EXCEPT !.is_chunked = TRUE]
        up == Get(h, Word("Upgrade"))
        look(m, k) == Put(m, k, Get(m, k))
        c3 == [c1 EXCEPT !.headers = look(@, Word("Upgrade"))]
        c4 == [c3 EXCEPT !.isWebSocket = TRUE,
                         !.headers = look(look(@, Word("Sec-WebSocket-Version")), Word("Sec-WebSocket-Key"))]
    IN  IF "CHUNKED" \in s.flags
        THEN [d |-> Pass([s.d EXCEPT !.ctx = c2], [ev |-> "RequestIncoming", rq |-> View(c2)]), ret |-> 0]
        ELSE IF ~s.upgrade THEN [d |-> [s.d EXCEPT !.ctx = c1], ret |-> 0]
        ELSE IF up # Word("websocket") THEN [d |-> [s.d EXCEPT !.ctx = c3], ret |-> 1]
        ELSE [d |-> [s.d EXCEPT !.ctx = c4, !.writes = @ \o << <<"101", 0>>, <<"blank line", 0>> >>], ret |-> 1]

on_body(d, at) == [d EXCEPT !.ctx.body = @ \o at, !.ctx.hasBody = TRUE]

\* The message is whole: it is passed on, and the next one gets a context of its own.
on_message_complete(s) ==
    LET c == s.d.ctx
        e == IF c.is_chunked THEN [ev |-> "RequestChunkingCompleted", id |-> c.chunkId]
             ELSE [ev |-> "RequestIncoming", rq |-> View(c)]
    IN  IF c.is_chunked \/ c.method \in {"GET", "POST"}
        THEN [Pass(s.d, e) EXCEPT !.ctx = NewContext]
        ELSE s.d

on_chunk_header(s) ==
    [s.d EXCEPT !.ctx.hasBody = FALSE, !.ctx.body = <<>>, !.ctx.chunk_size = s.len]

on_chunk_complete(s) ==
    LET c == s.d.ctx
    IN  IF ~c.hasBody THEN s.d
        ELSE IF Len(c.body) # c.chunk_size THEN [s.d EXCEPT !.mismatch = TRUE]
        ELSE [Pass(s.d, [ev |-> "RequestChunkReceived", id |-> c.chunkId, body |-> c.body])
                EXCEPT !.ctx.chunkId = @ + 1, !.ctx.hasBody = FALSE, !.ctx.body = <<>>, !.ctx.chunk_size = 0]

P == INSTANCE Llhttp WITH
        OnUrl <- on_url, OnHeaderField <- on_header_field, OnHeaderValue <- on_header_value,
        OnBody <- on_body, OnHeadersComplete <- on_headers_complete,
        OnMessageComplete <- on_message_complete, OnChunkHeader <- on_chunk_header,
        OnChunkComplete <- on_chunk_complete

\* HTTP::Request::Request
NewRequest == P!llhttp_init(NewData)
NoRequest  == [NewRequest EXCEPT !.cur = "none"]

\* getData: the socket's request, created here when nobody did before.
getData == IF req = NoRequest THEN NewRequest ELSE req
-----------------------------------------------------------------------------
FrameHead(k, op, fin, masked) == <<"FH", [text |-> k, op |-> op, fin |-> fin, masked |-> masked]>>
TextFrame(k) == <<FrameHead(k, "text", TRUE, FALSE), <<"FP", k>> >>

FrameType(h) ==
    CASE h.op \in {"continuation", "text"} -> IF h.fin THEN "TEXT_FRAME" ELSE "INCOMPLETE_TEXT_FRAME"
      [] h.op = "binary" -> IF h.fin THEN "BINARY_FRAME" ELSE "INCOMPLETE_BINARY_FRAME"
      [] h.op = "ping"   -> "PING_FRAME"
      [] h.op = "pong"   -> "PONG_FRAME"
      [] OTHER           -> "ERROR_FRAME"

Outcome(type, text, b) == [type |-> type, text |-> text, buffer |-> b]
Garbage == <<"garbage", 0>>

\* Bytes that are no head of a frame, taken for one.
Misread(b) ==
    {Outcome("INCOMPLETE_FRAME", <<>>, b)}
        \cup {Outcome(t, <<Garbage>>, b) : t \in {"ERROR_FRAME", "TEXT_FRAME", "BINARY_FRAME"}}

Unmasked(t) == <<IF t[1] = "FX" THEN "FP" ELSE "FX", t[2]>>

\* The frame at the head of the buffer: what it is, its text and the buffer, where the
\* mask is taken off in place, or put on again.  The test of the length does not count the
\* mask: the text may be read from behind the end.
WebSocket_getFrame(b) ==
    IF b[1][1] # "FH" THEN Misread(b)
    ELSE IF Len(b) < 2 THEN {Outcome("INCOMPLETE_FRAME", <<>>, b)}
    ELSE LET h == b[1][2]
         IN  IF ~h.masked THEN {Outcome(FrameType(h), <<b[2]>>, b)}
             ELSE IF Len(b) < 3 THEN {Outcome(FrameType(h), <<Garbage>>, b)}
             ELSE {Outcome(FrameType(h), <<Unmasked(b[3])>>, [b EXCEPT ![3] = Unmasked(@)])}

\* on_StreamRead of a socket that became a WebSocket: one frame per read.  A text frame
\* takes with it whatever else the buffer holds; any other stays there, and is told as a
\* text all the same, unless it is an error.
ReadFrames(r, data) ==
    LET after(f) == IF f.type = "ERROR_FRAME" THEN r.d
                    ELSE Pass(r.d, [ev |-> "WSTextMessage", text |-> f.text])
    IN  {[after(f) EXCEPT !.ctx.websocket_buffer = IF f.type = "TEXT_FRAME" THEN <<>> ELSE f.buffer] :
            f \in WebSocket_getFrame(r.d.ctx.websocket_buffer \o data)}

\* What the calls below pass on and write is moved to the history.
Deliver(r) ==
    /\ req' = [r EXCEPT !.d.events = <<>>, !.d.writes = <<>>]
    /\ given' = given \o r.d.events
    /\ out' = out \o r.d.writes

\* An error of the parser is thrown, logged by the listener and forgotten; the parser keeps it.
on_StreamRead(data) ==
    IF getData.d.ctx.isWebSocket
    THEN \E d \in ReadFrames(getData, data) : Deliver([getData EXCEPT !.d = d])
    ELSE Deliver(P!llhttp_execute(getData, data))

StreamRead(n) ==
    LET m == IF n = 0 THEN Len(wire) ELSE n
    IN  /\ ~gone /\ m \in 1..Len(wire)
        /\ on_StreamRead(SubSeq(wire, 1, m))
        /\ wire' = SubSeq(wire, m + 1, Len(wire))
        /\ UNCHANGED <<told, closing, gone, resp>>

\* Mutant: Accepted replaces the request.
AcceptedAnew ==
    /\ ~told
    /\ told' = TRUE
    /\ req' = NewRequest
    /\ UNCHANGED <<wire, given, out, closing, gone, resp>>

\* insert leaves a request that a read has already made.
on_Accepted ==
    /\ ~told
    /\ told' = TRUE
    /\ req' = IF req = NoRequest THEN NewRequest ELSE req
    /\ UNCHANGED <<wire, given, out, closing, gone, resp>>

\* The socket was closed: by us once flushed, or by the peer.
on_Disaccepted ==
    /\ told /\ ~gone
    /\ closing \/ wire = <<>>
    /\ gone' = TRUE
    /\ req' = getData
    /\ given' = IF getData.d.ctx.isWebSocket THEN Append(given, [ev |-> "WSDisaccepted"]) ELSE given
    /\ UNCHANGED <<wire, told, out, closing, resp>>
-----------------------------------------------------------------------------
(***************************************************************************)
(* The application answers the requests it was given, in their order, each   *)
(* through a Response of its own: whole, or in chunks.                       *)
(***************************************************************************)
Incoming   == SelectSeq(given, LAMBDA e : e.ev = "RequestIncoming")
NoResponse == [done |-> 0, sent |-> FALSE, chunks |-> <<>>, bodies |-> <<>>]
Current    == Incoming[resp.done + 1].rq
HasCurrent == resp.done < Len(Incoming) /\ ~closing /\ ~gone

\* Mutant: a whole answer on a kept connection has no length.
NoLength(rq, chunked, size) ==
    <<"head", [length  |-> IF ~chunked /\ ~rq.keepalive THEN size ELSE 0,
               chunked |-> chunked,
               conn    |-> IF rq.keepalive /\ ~chunked THEN "Keep-Alive" ELSE "close"]>>

\* The head says how the content ends: by its length, by the last chunk, or with the connection.
build_html_response(rq, chunked, size) ==
    <<"head", [length  |-> IF ~chunked /\ size > 0 THEN size ELSE 0,
               chunked |-> chunked,
               conn    |-> IF rq.keepalive /\ ~chunked THEN "Keep-Alive" ELSE "close"]>>

Content(n) == [i \in 1..n |-> <<"byte", 0>>]

write(rq, w) ==
    /\ out' = out \o w
    /\ closing' = ~rq.keepalive

make_response(n) ==
    /\ HasCurrent /\ ~resp.sent
    /\ write(Current, <<build_html_response(Current, FALSE, n)>> \o Content(n))
    /\ resp' = [resp EXCEPT !.done = @ + 1, !.bodies = Append(@, <<n>>)]
    /\ UNCHANGED <<wire, told, req, given, gone>>

\* The head goes before the first chunk.
send_chunked(n) ==
    /\ HasCurrent /\ Len(resp.chunks) < MaxChunks
    /\ out' = out \o (IF resp.sent THEN <<>> ELSE <<build_html_response(Current, TRUE, 0)>>)
                  \o << <<"chunk", n>> >> \o Content(n)
    /\ resp' = [resp EXCEPT !.sent = TRUE, !.chunks = Append(@, n)]
    /\ UNCHANGED <<wire, told, req, given, closing, gone>>

end_chunked ==
    /\ HasCurrent /\ resp.sent
    /\ write(Current, << <<"chunk", 0>> >>)
    /\ resp' = [done |-> resp.done + 1, sent |-> FALSE, chunks |-> <<>>, bodies |-> Append(resp.bodies, resp.chunks)]
    /\ UNCHANGED <<wire, told, req, given, gone>>

Respond == end_chunked \/ \E n \in TextSizes : make_response(n) \/ send_chunked(n)

\* The application writes a text to a WebSocket.
on_WSWrite(k) == out' = out \o TextFrame(k)

HttpInit ==
    /\ told = FALSE /\ req = NoRequest /\ given = <<>> /\ out = <<>>
    /\ closing = FALSE /\ gone = FALSE /\ resp = NoResponse

HttpNext == on_Accepted \/ on_Disaccepted \/ Respond \/ \E n \in ReadSizes : StreamRead(n)
=============================================================================
