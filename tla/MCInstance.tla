------------------------------ MODULE MCInstance ------------------------------
(* Instances of Instance for TLC.                                            *)
EXTENDS Instance

CONSTANTS svc1, svc2, svc3

\* svc3 is behind the name that is not known.
MCStart == <<svc1, svc2, BadName, svc3>>
\* The startService handlers of svc1 and svc2 send events to each other's service.
MCStartSends == [s \in Services |-> IF s = svc1 THEN svc2 ELSE svc1]
=============================================================================
