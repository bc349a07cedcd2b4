----------------------------- MODULE HttpPeers ------------------------------
(***************************************************************************)
(* The HTTP service with what is at the other end of the socket: a browser   *)
(* that has written one request after another, or the WebSocket client of     *)
(* this program.                                                           *)
(***************************************************************************)
EXTENDS Http

CONSTANTS Shapes,     \* the requests a browser may write
          MaxShapes,  \* how many in a row
          Peers,      \* "browser", "client"
          MaxSent,     \* how many texts the client's user sends
          MaxFrames    \* how many texts the server's application writes

VARIABLES peer, shapes, taken, cl, frames

vars == <<httpVars, peer, shapes, taken, cl, frames>>

One(c)  == << <<c, 0>> >>
Name(n) == CASE n \in {"x", "folded"}           -> One("a")
             [] n \in {"close", "keep-alive"} -> Word("Connection")
             [] n = "upgrade"                 -> Word("Connection")
             [] n = "websocket"               -> Word("Upgrade")
             [] n \in {"chunked", "gzip", "gzip, chunked"} -> Word("transfer-encoding")
             [] OTHER                         -> Word("content-length")
Value(n) == CASE n = "x"    -> One("b")
              [] n = "folded" -> One("b") \o One(" ") \o One("b")
              [] n = "gzip" -> Word("gzip")
              [] n = "gzip, chunked" -> Word("gzip") \o << <<",", 0>>, <<" ", 0>> >> \o Word("chunked")
              [] n = "1"    -> << <<"digit", 1>> >>
              [] n = "2"    -> << <<"digit", 2>> >>
              [] n = "99"   -> << <<"digit", 9>>, <<"digit", 9>> >>
              [] OTHER      -> Word(n)

Newline    == One("CR") \o One("LF")
Bytes(n)   == [i \in 1..n |-> <<"c", 0>>]
Line(n)    == IF n = "folded" THEN One("b") \o Newline \o One(" ") \o One("b") ELSE Value(n)
Header(n)  == Name(n) \o One(":") \o One(" ") \o Line(n) \o Newline
Chunk(n)   == << <<"digit", n>> >> \o Newline \o (IF n = 0 THEN <<>> ELSE Bytes(n) \o Newline)
IsChunked(s) == \E i \in DOMAIN s.h : s.h[i] \in {"chunked", "gzip, chunked"}

Url(s) == FlattenSeq([i \in DOMAIN s.u |-> One(s.u[i])])

Framed(k, f) ==
    <<FrameHead(k, f.op, f.fin, f.masked)>>
        \o (IF f.masked THEN << <<"FM", k>>, <<"FX", k>> >> ELSE << <<"FP", k>> >>)

\* A request as it is on the wire: method, URL, version, headers, content, trailers, and the
\* frames that follow an upgrade.
Render(s) ==
    Word(s.m) \o One(" ") \o Url(s) \o One(" ") \o Word("HTTP/")
    \o << <<"digit", 1>>, <<".", 0>>, <<"digit", s.v>> >> \o Newline
    \o FlattenSeq([i \in DOMAIN s.h |-> Header(s.h[i])]) \o Newline
    \o (IF IsChunked(s) THEN FlattenSeq([i \in DOMAIN s.b |-> Chunk(s.b[i])]) \o Chunk(0)
                            \o FlattenSeq([i \in 1..s.t |-> Header("x")]) \o Newline
        ELSE FlattenSeq([i \in DOMAIN s.b |-> Bytes(s.b[i])]))
    \o FlattenSeq([i \in DOMAIN s.f |-> Framed(i, s.f[i])])

HandshakeShape == [m |-> "GET", u |-> <<"/">>, v |-> 1, h |-> <<"websocket", "upgrade">>, b |-> <<>>,
                   t |-> 0, f |-> <<>>]

C == INSTANCE WsClient WITH Handshake <- Render(HandshakeShape)

Init ==
    /\ HttpInit
    /\ peer \in Peers
    /\ shapes \in IF peer = "client" THEN {<<>>} ELSE SeqOf(Shapes, MaxShapes) \ {<<>>}
    /\ \A i \in DOMAIN shapes : shapes[i].f # <<>> => i = Len(shapes)
    /\ wire = FlattenSeq([i \in DOMAIN shapes |-> Render(shapes[i])])
    /\ taken = 0 /\ cl = C!NewClient /\ frames = 0

\* The application may write to the socket of an upgraded request it was given.
WSWrite ==
    /\ peer = "client" /\ ~gone /\ frames < MaxFrames /\ Len(Incoming) > 0
    /\ frames' = frames + 1
    /\ on_WSWrite(frames + 1)
    /\ UNCHANGED <<wire, told, req, given, closing, gone, resp, peer, shapes, taken, cl>>

ServerStep == HttpNext /\ UNCHANGED <<peer, shapes, taken, cl, frames>>

ClientStep ==
    /\ peer = "client"
    /\ \/ C!Connect \/ C!ConnectFailed \/ C!Connected \/ C!StreamRead \/ C!Shut \/ C!Disconnected
       \/ \E n \in 1..Len(out) : C!Recv(n)
       \/ cl.sent < MaxSent /\ C!Send(cl.sent + 1)
    /\ UNCHANGED <<told, req, given, closing, gone, resp, peer, shapes, frames>>

Next == ServerStep \/ ClientStep \/ WSWrite

Spec == Init /\ [][Next]_vars
-----------------------------------------------------------------------------
Has(s, n) == \E i \in DOMAIN s.h : s.h[i] = n
Lengths(s) == {i \in DOMAIN s.h : s.h[i] \in {"1", "2", "99"}}

\* What HTTP makes of a request: whether it is refused, kept alive, and its content.
Refused(s)  == \/ Cardinality(Lengths(s)) > 1
               \/ Lengths(s) # {} /\ (IsChunked(s) \/ Has(s, "gzip"))
               \/ Has(s, "gzip") \/ Has(s, "99")
Persists(s) == IF s.v = 1 THEN ~Has(s, "close") ELSE Has(s, "keep-alive")
Upgrades(s) == Has(s, "websocket") /\ Has(s, "upgrade") /\ ~IsChunked(s)
Served(s)   == ~Refused(s) /\ (IsChunked(s) \/ s.m \in {"GET", "POST"})

\* What the application is to be given for a request.
Sent(s) ==
    LET rq == [m |-> s.m, url |-> Url(s), keepalive |-> Persists(s),
               headers |-> {<<Name(s.h[i]), Value(s.h[i])>> : i \in DOMAIN s.h},
               body |-> IF IsChunked(s) THEN 0 ELSE FoldLeft(+, 0, s.b)]
        chunk(i) == <<"RequestChunkReceived", i - 1, s.b[i]>>
    IN  << <<"RequestIncoming", rq>> >>
        \o (IF IsChunked(s) THEN [i \in DOMAIN s.b |-> chunk(i)] \o << <<"RequestChunkingCompleted", Len(s.b)>> >>
            ELSE <<>>)

\* Only the headers that were sent: the lookups of on_headers_complete add empty ones.
Seen(e) ==
    CASE e.ev = "RequestIncoming" ->
            <<e.ev, [m |-> e.rq.method, url |-> e.rq.url, keepalive |-> e.rq.keepalive,
                     headers |-> {p \in e.rq.headers : p[2] # <<>>}, body |-> Len(e.rq.body)]>>
      [] e.ev = "RequestChunkReceived" -> <<e.ev, e.id, Len(e.body)>>
      [] e.ev = "RequestChunkingCompleted" -> <<e.ev, e.id>>

\* The requests the connection carries: up to the first that is refused, not served, or the last.
RECURSIVE Carried(_)
Carried(q) ==
    IF q = <<>> \/ ~Served(q[1]) THEN <<>>
    ELSE Sent(q[1]) \o (IF Persists(q[1]) /\ ~Upgrades(q[1]) THEN Carried(Tail(q)) ELSE <<>>)

Requests == SelectSeq(given, LAMBDA e : e.ev \notin {"WSTextMessage", "WSDisaccepted"})
Supported(q) == \A i \in DOMAIN q : Refused(q[i]) \/ Served(q[i]) \/ i = Len(q)

\* The application is given exactly the requests of the connection, in their order, with the
\* headers, content and chunks they were sent with, and never more, however the bytes are cut
\* into reads and whether Accepted is handled before or after them: on_StreamRead, the callbacks
\* of httpService.cpp and llhttp.  The sizes of chunks that the callbacks count agree with the
\* sizes the parser announces.  A request that is neither GET, POST nor chunked leaves its
\* context to the next one, so the sequence ends with the first of those.
RequestsAsSent ==
    peer = "browser" /\ Supported(shapes) =>
        LET seen == [i \in DOMAIN Requests |-> Seen(Requests[i])]
        IN  /\ IsPrefix(seen, Carried(shapes))
            /\ wire = <<>> => seen = Carried(shapes)
            /\ ~req.d.mismatch

\* What the client at the other end reads from the bytes of the answers, with the rules of HTTP.
RECURSIVE Answers(_)
Answers(o) ==
    IF o = <<>> \/ o[1][1] # "head" THEN <<>>
    ELSE LET h == o[1][2] IN
         IF h.chunked
         THEN LET last == {i \in DOMAIN o : o[i] = <<"chunk", 0>>}
              IN  IF last = {} THEN <<>>
                  ELSE LET e == CHOOSE i \in last : \A j \in last : i <= j
                           cs == SelectSeq(SubSeq(o, 2, e - 1), LAMBDA u : u[1] = "chunk")
                       IN  <<[i \in DOMAIN cs |-> cs[i][2]]>> \o Answers(SubSeq(o, e + 1, Len(o)))
         ELSE IF h.length > 0 /\ Len(o) > h.length
         THEN <<<<h.length>>>> \o Answers(SubSeq(o, h.length + 2, Len(o)))
         ELSE IF h.conn = "close" /\ closing THEN <<<<Len(o) - 1>>>> ELSE <<>>

\* How many answers come before the first with an empty content.
Plain == LET empty == {i \in DOMAIN resp.bodies : \E j \in DOMAIN resp.bodies[i] : resp.bodies[i][j] = 0}
         IN  IF empty = {} THEN Len(resp.bodies) ELSE Min(empty) - 1

\* The answers can be told apart: whoever reads the connection finds the contents the application
\* gave to make_response and send_chunked, whole and in order.  An empty content ends that: the head
\* of make_response("") on a kept connection has no length, and the chunk of send_chunked("") is
\* the one that ends an answer.  What was answered before it is still found.
AnswersDelimited ==
    peer = "browser" /\ (\A i \in DOMAIN shapes : ~Upgrades(shapes[i])) =>
        LET found == Answers(out)
        IN  /\ Len(found) >= Plain /\ SubSeq(found, 1, Plain) = SubSeq(resp.bodies, 1, Plain)
            /\ Plain = Len(resp.bodies) /\ (\A i \in DOMAIN resp.chunks : resp.chunks[i] # 0) =>
                  Len(found) = Plain

\* A frame that clears the server's buffer.
FinalText(k) == peer = "client" \/ LET f == Last(shapes).f[k] IN f.op \in {"continuation", "text"} /\ f.fin

\* The texts of a WebSocket are given in order.  The client's user loses none, wherever the reads
\* cut the answer to the handshake and the frames, and however many bytes come in before the client
\* handles a read: those given, those in inBuffer_ and those still in the socket are the texts the
\* server wrote.  The server (on_StreamRead of a socket whose context says isWebSocket) may lose
\* some, and may take a part of one for a frame; but of those it gives its application none comes
\* before one sent earlier, and none comes twice unless it is that of a frame which stays in the
\* buffer: one that is no text, or is not final.
TextsInOrder ==
    LET texts(q) == SelectSeq(q, LAMBDA e : e[1] = "FP")
        toServer == texts(FlattenSeq([i \in DOMAIN given |->
                            IF given[i].ev = "WSTextMessage" THEN given[i].text ELSE <<>>]))
    IN  /\ \A i, j \in DOMAIN toServer : i < j =>
              \/ toServer[i][2] < toServer[j][2]
              \/ toServer[i] = toServer[j] /\ ~FinalText(toServer[i][2])
        /\ texts(cl.passed) \o texts(cl.inBuffer) \o texts(SubSeq(out, taken + 1, Len(out)))
              = [i \in 1..frames |-> <<"FP", i>>]

\* The service that has answered the handshake with 101 gives the client's texts to its application
\* as WSTextMessage, which the application of the test answers with WSWrite.
TextsAreGiven ==
    cl.sent > 0 /\ wire = <<>> => \E i \in DOMAIN given : given[i].ev = "WSTextMessage"
=============================================================================
