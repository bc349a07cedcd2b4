------------------------------- MODULE MCOscar --------------------------------
(* An empty payload, one that looks like frames and whose size needs two     *)
(* digits, and one above maxPacketSize.                                      *)
EXTENDS Oscar

MCPayloads == {<<>>, <<1, 0, 1, 1, 5>>, <<1, 1, 1, 1, 1, 1>>}
=============================================================================
