------------------------------ MODULE PacketPipe ------------------------------
(***************************************************************************)
(* What one direction of an Oscar connection promises the services above   *)
(* it: whole packets, in the order in which they were sent, none twice and *)
(* none invented, wherever it is broken off.  Closing the receiving end    *)
(* does not stop the turn the receiver is in, but no other turn begins.  A *)
(* packet the receiver does not admit stays in the pipe for ever, with all *)
(* that follow it.                                                         *)
(***************************************************************************)
EXTENDS Naturals, Sequences

CONSTANTS Packets,      \* packets that can be sent
          Admitted      \* those the receiver takes out of the pipe

VARIABLES queue,        \* packets sent and not yet received
          received,     \* packets handed to the service above
          turn,         \* the receiver is handing over what it has read
          sending,      \* the sender's end is open
          open          \* the receiver's end is open

vars == <<queue, received, turn, sending, open>>

Init == queue = <<>> /\ received = <<>> /\ turn = FALSE /\ sending = TRUE /\ open = TRUE

Send(p) == sending /\ queue' = Append(queue, p) /\ UNCHANGED <<received, turn, sending, open>>

Begin == open /\ turn' = TRUE /\ UNCHANGED <<queue, received, sending, open>>

\* The service above may fail to take the packet it is handed; that closes the pipe.
Receive ==
    /\ open \/ turn
    /\ queue # <<>> /\ Head(queue) \in Admitted
    /\ received' = Append(received, Head(queue))
    /\ queue' = Tail(queue)
    /\ turn' \in {turn, FALSE} /\ open' \in {open, FALSE}
    /\ UNCHANGED sending

End == turn' = FALSE /\ open' \in {open, FALSE} /\ UNCHANGED <<queue, received, sending>>

Close == open' = FALSE /\ UNCHANGED <<queue, received, turn, sending>>

CloseSender == sending' = FALSE /\ UNCHANGED <<queue, received, turn, open>>

Next == (\E p \in Packets : Send(p)) \/ Begin \/ Receive \/ End \/ Close \/ CloseSender

Safe == Init /\ [][Next]_vars
Spec == Safe /\ WF_vars(sending /\ open /\ Receive)
=============================================================================
