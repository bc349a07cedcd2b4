------------------------------- MODULE MCSocket -------------------------------
(* An instance of Socket for TLC: the write of u1 may be cut by a send.      *)
EXTENDS Socket

CONSTANTS u1, u2

MCSize == [w \in Writers |-> IF w = u1 THEN 2 ELSE 1]
=============================================================================
