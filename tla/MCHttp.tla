------------------------------- MODULE MCHttp -------------------------------
(***************************************************************************)
(* Small instances of HttpPeers.                                            *)
(***************************************************************************)
EXTENDS HttpPeers

Shape(m, v, h, b) == [m |-> m, u |-> <<"/", "a">>, v |-> v, h |-> h, b |-> b, t |-> 0, f |-> <<>>]

Absolute == <<"a", ":", "/", "/", "a", "@", "a", "?", "a", "#", "a">>

Upgraded(f) == [HandshakeShape EXCEPT !.m = "OPTIONS", !.f = f]
Fr(op, fin, masked) == [op |-> op, fin |-> fin, masked |-> masked]
Text == Fr("text", TRUE, FALSE)

MCShapes ==
    {[Shape("GET", 1, <<"folded">>, <<>>) EXCEPT !.u = Absolute],
     Shape("GET", 0, <<"keep-alive", "x">>, <<>>),
     Shape("POST", 1, <<"x", "2">>, <<2>>),
     Shape("POST", 1, <<"close", "1">>, <<1>>),
     [Shape("PUT", 1, <<"gzip, chunked", "x">>, <<1, 2>>) EXCEPT !.t = 2],
     Shape("POST", 1, <<"chunked", "1">>, <<1>>),
     Shape("POST", 1, <<"1", "2">>, <<1>>),
     Shape("POST", 1, <<"99">>, <<1>>),
     Shape("POST", 1, <<"gzip">>, <<1>>),
     [Shape("CONNECT", 1, <<>>, <<>>) EXCEPT !.u = <<"a", ":", "a">>],
     HandshakeShape,
     Upgraded(<<Text, Text, Text>>),
     Upgraded(<<Fr("continuation", TRUE, TRUE), Fr("ping", TRUE, TRUE), Text>>),
     Upgraded(<<Fr("text", FALSE, FALSE), Text>>)}
=============================================================================
