------------------------------ MODULE Mailbox ------------------------------
(***************************************************************************)
(* What a buffered listener promises its callers: events are delivered to  *)
(* handleEvent one at a time, in the order in which they were posted, each *)
(* exactly once, until the listener is closed.  Closing may discard what   *)
(* has not been delivered yet.                                             *)
(***************************************************************************)
EXTENDS Naturals, Sequences

CONSTANT Event

VARIABLES inbox,      \* posted and not yet delivered
          delivered,  \* delivered, in order
          open        \* FALSE once the owner has begun to close the mailbox

mailboxVars == <<inbox, delivered, open>>

Init ==
    /\ inbox = <<>>
    /\ delivered = <<>>
    /\ open = TRUE

Post(e) ==
    /\ inbox' = Append(inbox, e)
    /\ UNCHANGED <<delivered, open>>

Deliver ==
    /\ inbox # <<>>
    /\ delivered' = Append(delivered, Head(inbox))
    /\ inbox' = Tail(inbox)
    /\ UNCHANGED open

Close ==
    /\ open
    /\ open' = FALSE
    /\ UNCHANGED <<inbox, delivered>>

\* Closing discards the events posted last.
Discard ==
    /\ ~open
    /\ \E n \in 0 .. Len(inbox) : inbox' = SubSeq(inbox, 1, n)
    /\ UNCHANGED <<delivered, open>>

Next ==
    \/ \E e \in Event : Post(e)
    \/ Deliver
    \/ Close
    \/ Discard

Safe == Init /\ [][Next]_mailboxVars

\* An open mailbox does not sit on its events.
Spec == Safe /\ WF_mailboxVars(open /\ Deliver)
=============================================================================
