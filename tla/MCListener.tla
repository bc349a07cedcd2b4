----------------------------- MODULE MCListener -----------------------------
(* Instances of Listener for TLC: one worker (ListenerBuffered1Thread) or    *)
(* two (ListenerBufferedNThread), see the cfg files.                         *)
EXTENDS Listener
=============================================================================
