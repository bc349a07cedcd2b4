------------------------------ MODULE Listener ------------------------------
(***************************************************************************)
(* ListenerBuffered1Thread and ListenerBufferedNThread: a pool of worker   *)
(* threads that drain one EventDeque, producers that call listenToEvent,   *)
(* and the thread that calls deinit().                                     *)
(*                                                                         *)
(* A step is one access to shared memory that another thread can observe.  *)
(* The deque's mutex is held across steps only in the window of pop()      *)
(* between finding the container empty and going to sleep: everything else *)
(* pop() does under the mutex reads the container, which only the holder   *)
(* can change, and m_isTerminating, whose later reads in the same section  *)
(* give no outcome that an earlier or a later read does not give.          *)
(***************************************************************************)
EXTENDS Naturals, Sequences, Functions

CONSTANTS Workers,    \* m_pt / m_pt[]: the listener's own threads
          Producers,  \* the threads that call listenToEvent
          MaxSend,    \* bound: calls of listenToEvent per producer
          NULL        \* the null event that deinit() pushes

ASSUME WorkersNonEmpty == Workers # {}
ASSUME MaxSendNat == MaxSend \in Nat
ASSUME PlacesAssumption == {"deque", "handled"} \cap Workers = {}
ASSUME NullIsNoEvent == NULL \notin Producers \X (1 .. MaxSend)

Event == Producers \X (1 .. MaxSend)

VARIABLES
    container,      \* EventDeque::container
    dqTerminating,  \* EventDeque::m_isTerminating
    waiting,        \* threads asleep in EventDeque::m_cond
    m_container,    \* the listener's REF_getter<EventDeque> is not NULL
    m_isTerminating,\* the listener's own flag
    wpc,            \* where each worker is
    batch,          \* what is left of the deque returned by the worker's last pop()
    ppc,            \* where each producer is
    sent,           \* calls of listenToEvent each producer has begun
    dpc,            \* where deinit() is; "run" before it is called
    freed,          \* the EventDeque has been destroyed
    pushed,         \* history: events appended to the container, in order
    handled         \* history: events given to handleEvent, in order

dequeVars  == <<container, dqTerminating, waiting, freed>>
memberVars == <<m_container, m_isTerminating>>
vars == <<container, dqTerminating, waiting, freed, m_container, m_isTerminating,
          wpc, batch, ppc, sent, dpc, pushed, handled>>

WorkerPC   == {"top", "getdq", "lock", "window", "wait", "proc", "handle", "exit"}
ProducerPC == {"idle", "deref", "push", "signal", "fault"}
DeinitPC   == {"run", "clear", "pushNull", "signalNull", "setListener", "setDeque",
               "broadcast", "broadcast2", "join", "done"}

Init ==
    /\ container = <<>>
    /\ dqTerminating = FALSE
    /\ waiting = {}
    /\ m_container = TRUE
    /\ m_isTerminating = FALSE
    /\ wpc = [w \in Workers |-> "top"]
    /\ batch = [w \in Workers |-> <<>>]
    /\ ppc = [p \in Producers |-> "idle"]
    /\ sent = [p \in Producers |-> 0]
    /\ dpc = "run"
    /\ freed = FALSE
    /\ pushed = <<>>
    /\ handled = <<>>

MutexFree == \A w \in Workers : wpc[w] # "window"

\* pthread_cond_signal: one sleeping thread is woken, if there is one.
Signal ==
    \/ waiting = {} /\ waiting' = {}
    \/ \E w \in waiting : waiting' = waiting \ {w}

Broadcast == waiting' = {}
-----------------------------------------------------------------------------
(* The worker threads: worker(), EventDeque::pop(), processEvent().        *)

GoWorker(w, from, to) == wpc[w] = from /\ wpc' = [wpc EXCEPT ![w] = to]

CheckTerminating(w) ==
    /\ GoWorker(w, "top", IF m_isTerminating THEN "exit" ELSE "getdq")
    /\ UNCHANGED <<dequeVars, memberVars, batch, ppc, sent, dpc, pushed, handled>>

GetContainer(w) ==
    /\ GoWorker(w, "getdq", IF m_container THEN "lock" ELSE "exit")
    /\ UNCHANGED <<dequeVars, memberVars, batch, ppc, sent, dpc, pushed, handled>>

\* Mutant: pop() returns a copy and leaves the container as it is.
PopKeepsContainer(w) ==
    \/ /\ dqTerminating
       /\ wpc' = [wpc EXCEPT ![w] = "top"]
       /\ UNCHANGED <<batch, container>>
    \/ /\ ~dqTerminating /\ container # <<>>
       /\ wpc' = [wpc EXCEPT ![w] = "proc"]
       /\ batch' = [batch EXCEPT ![w] = container]
       /\ UNCHANGED container
    \/ /\ ~dqTerminating /\ container = <<>>
       /\ wpc' = [wpc EXCEPT ![w] = "window"]
       /\ UNCHANGED <<batch, container>>

\* What pop() does with the mutex held and the flag read: return nothing, take
\* the whole container, or go on to sleep (keeping the mutex).
PopLocked(w) ==
    \/ /\ dqTerminating
       /\ wpc' = [wpc EXCEPT ![w] = "top"]
       /\ UNCHANGED <<batch, container>>
    \/ /\ ~dqTerminating /\ container # <<>>
       /\ wpc' = [wpc EXCEPT ![w] = "proc"]
       /\ batch' = [batch EXCEPT ![w] = container]
       /\ container' = <<>>
    \/ /\ ~dqTerminating /\ container = <<>>
       /\ wpc' = [wpc EXCEPT ![w] = "window"]
       /\ UNCHANGED <<batch, container>>

Pop(w) ==
    /\ wpc[w] = "lock" /\ MutexFree
    /\ PopLocked(w)
    /\ UNCHANGED <<dqTerminating, waiting, freed, memberVars, ppc, sent, dpc, pushed, handled>>

\* m_cond.wait(): release the mutex and sleep.
Sleep(w) ==
    /\ GoWorker(w, "window", "wait")
    /\ waiting' = waiting \cup {w}
    /\ UNCHANGED <<container, dqTerminating, freed, memberVars, batch, ppc, sent, dpc,
                   pushed, handled>>

\* Woken, with the mutex back: pop() goes round its loop.
Wake(w) ==
    /\ wpc[w] = "wait" /\ w \notin waiting /\ MutexFree
    /\ PopLocked(w)
    /\ UNCHANGED <<dqTerminating, waiting, freed, memberVars, ppc, sent, dpc, pushed, handled>>

\* pthread_cond_wait may return without a signal.
SpuriousWakeup(w) ==
    /\ w \in waiting
    /\ waiting' = waiting \ {w}
    /\ UNCHANGED <<container, dqTerminating, freed, memberVars, wpc, batch, ppc, sent, dpc,
                   pushed, handled>>

NextEvent(w) ==
    \/ /\ batch[w] = <<>>
       /\ GoWorker(w, "proc", "top")
       /\ UNCHANGED <<batch, handled>>
    \/ /\ batch[w] # <<>> /\ Head(batch[w]) = NULL
       /\ GoWorker(w, "proc", "exit")
       /\ batch' = [batch EXCEPT ![w] = <<>>]
       /\ UNCHANGED handled
    \/ /\ batch[w] # <<>> /\ Head(batch[w]) # NULL
       /\ GoWorker(w, "proc", "handle")
       /\ batch' = [batch EXCEPT ![w] = Tail(@)]
       /\ handled' = Append(handled, Head(batch[w]))

ProcessEvent(w) ==
    /\ NextEvent(w)
    /\ UNCHANGED <<dequeVars, memberVars, ppc, sent, dpc, pushed>>

\* handleEvent returns, or throws and processEvent catches.
EndHandle(w) ==
    /\ GoWorker(w, "handle", "proc")
    /\ UNCHANGED <<dequeVars, memberVars, batch, ppc, sent, dpc, pushed, handled>>

Worker(w) ==
    \/ CheckTerminating(w) \/ GetContainer(w) \/ Pop(w) \/ Sleep(w) \/ Wake(w)
    \/ ProcessEvent(w) \/ EndHandle(w)
-----------------------------------------------------------------------------
(* listenToEvent() and EventDeque::push() on a producer's thread.  A read   *)
(* through a NULL m_container or of a destroyed deque is a fault.           *)

GoProducer(p, from, to) == ppc[p] = from /\ ppc' = [ppc EXCEPT ![p] = to]

ListenToEvent(p) ==
    /\ sent[p] < MaxSend
    /\ sent' = [sent EXCEPT ![p] = @ + 1]
    /\ GoProducer(p, "idle", IF m_container THEN "deref" ELSE "idle")
    /\ UNCHANGED <<dequeVars, memberVars, wpc, batch, dpc, pushed, handled>>

Deref(p) ==
    /\ GoProducer(p, "deref", IF m_container THEN "push" ELSE "fault")
    /\ UNCHANGED <<dequeVars, memberVars, wpc, batch, sent, dpc, pushed, handled>>

Push(p) ==
    /\ \/ freed /\ GoProducer(p, "push", "fault") /\ UNCHANGED <<container, pushed>>
       \/ /\ ~freed /\ MutexFree /\ GoProducer(p, "push", "signal")
          /\ container' = Append(container, <<p, sent[p]>>)
          /\ pushed' = Append(pushed, <<p, sent[p]>>)
    /\ UNCHANGED <<dqTerminating, waiting, freed, memberVars, wpc, batch, sent, dpc, handled>>

\* Mutant: push() does not signal.
PushWithoutSignal(p) ==
    /\ \/ freed /\ GoProducer(p, "signal", "fault")
       \/ ~freed /\ GoProducer(p, "signal", "idle")
    /\ UNCHANGED <<dequeVars, memberVars, wpc, batch, sent, dpc, pushed, handled>>

SignalPushed(p) ==
    /\ \/ freed /\ GoProducer(p, "signal", "fault") /\ UNCHANGED waiting
       \/ ~freed /\ GoProducer(p, "signal", "idle") /\ Signal
    /\ UNCHANGED <<container, dqTerminating, freed, memberVars, wpc, batch, sent, dpc,
                   pushed, handled>>

Producer(p) == ListenToEvent(p) \/ Deref(p) \/ Push(p) \/ SignalPushed(p)
-----------------------------------------------------------------------------
(* deinit(), statement by statement.                                       *)

GoDeinit(from, to) == dpc = from /\ dpc' = to

DropContainer ==
    /\ GoDeinit("run", "clear")
    /\ m_container' = FALSE
    /\ UNCHANGED <<dequeVars, m_isTerminating, wpc, batch, ppc, sent, pushed, handled>>

ClearDeque ==
    /\ GoDeinit("clear", "pushNull") /\ MutexFree
    /\ container' = <<>>
    /\ Broadcast
    /\ UNCHANGED <<dqTerminating, freed, memberVars, wpc, batch, ppc, sent, pushed, handled>>

\* Mutant: deinit() relies on the flags alone.
NoNullPushed ==
    /\ GoDeinit("pushNull", "signalNull") /\ MutexFree
    /\ UNCHANGED <<dequeVars, memberVars, wpc, batch, ppc, sent, pushed, handled>>

PushNull ==
    /\ GoDeinit("pushNull", "signalNull") /\ MutexFree
    /\ container' = Append(container, NULL)
    /\ UNCHANGED <<dqTerminating, waiting, freed, memberVars, wpc, batch, ppc, sent,
                   pushed, handled>>

SignalNull ==
    /\ GoDeinit("signalNull", "setListener")
    /\ Signal
    /\ UNCHANGED <<container, dqTerminating, freed, memberVars, wpc, batch, ppc, sent,
                   pushed, handled>>

SetTerminating ==
    /\ GoDeinit("setListener", "setDeque")
    /\ m_isTerminating' = TRUE
    /\ UNCHANGED <<dequeVars, m_container, wpc, batch, ppc, sent, pushed, handled>>

\* EventDeque::deinit() does not take the mutex.
SetDequeTerminating ==
    /\ GoDeinit("setDeque", "broadcast")
    /\ dqTerminating' = TRUE
    /\ UNCHANGED <<container, waiting, freed, memberVars, wpc, batch, ppc, sent, pushed, handled>>

\* Mutant: deinit() sets the flag and wakes nobody.
NoBroadcast ==
    /\ GoDeinit("broadcast", "broadcast2") \/ GoDeinit("broadcast2", "join")
    /\ UNCHANGED <<dequeVars, memberVars, wpc, batch, ppc, sent, pushed, handled>>

BroadcastDeque ==
    /\ GoDeinit("broadcast", "broadcast2") \/ GoDeinit("broadcast2", "join")
    /\ Broadcast
    /\ UNCHANGED <<container, dqTerminating, freed, memberVars, wpc, batch, ppc, sent,
                   pushed, handled>>

\* pthread_join of every worker; the last reference to the deque goes with `cont`.
Join ==
    /\ GoDeinit("join", "done")
    /\ \A w \in Workers : wpc[w] = "exit"
    /\ freed' = TRUE
    /\ UNCHANGED <<container, dqTerminating, waiting, memberVars, wpc, batch, ppc, sent,
                   pushed, handled>>

Deinit ==
    \/ DropContainer \/ ClearDeque \/ PushNull \/ SignalNull \/ SetTerminating
    \/ SetDequeTerminating \/ BroadcastDeque \/ Join
-----------------------------------------------------------------------------
\* A fault ends the process: no thread takes a step after it.
Alive == \A p \in Producers : ppc[p] # "fault"

Next ==
    /\ Alive
    /\ \/ \E w \in Workers : Worker(w) \/ SpuriousWakeup(w)
       \/ \E p \in Producers : Producer(p)
       \/ Deinit

\* The operating system runs every thread that can run; nothing obliges a
\* producer to call listenToEvent, the owner to call deinit(), or the condition
\* variable to wake a thread spuriously.  The mutex is granted fairly.
Fairness ==
    /\ \A w \in Workers : SF_vars(Alive /\ Worker(w))
    /\ \A p \in Producers : SF_vars(Alive /\ (Deref(p) \/ Push(p) \/ SignalPushed(p)))
    /\ SF_vars(Alive /\ dpc # "run" /\ Deinit)

Spec == Init /\ [][Next]_vars
FairSpec == Spec /\ Fairness
-----------------------------------------------------------------------------
(* Properties.                                                             *)

TypeOK ==
    /\ container \in Seq(Event \cup {NULL})
    /\ dqTerminating \in BOOLEAN
    /\ waiting \subseteq Workers
    /\ m_container \in BOOLEAN
    /\ m_isTerminating \in BOOLEAN
    /\ wpc \in [Workers -> WorkerPC]
    /\ batch \in [Workers -> Seq(Event \cup {NULL})]
    /\ ppc \in [Producers -> ProducerPC]
    /\ sent \in [Producers -> 0 .. MaxSend]
    /\ dpc \in DeinitPC
    /\ freed \in BOOLEAN
    /\ pushed \in Seq(Event)
    /\ handled \in Seq(Event)

\* push() signals after it has released the mutex: until deinit() is called, an
\* event never lies in the deque with every worker asleep and no signal on its way.
NoLostWakeup ==
    (dpc = "run" /\ container # <<>>) =>
        \/ \E w \in Workers : w \notin waiting
        \/ \E p \in Producers : ppc[p] = "signal"

\* Where an event can be: the deque, the batch of a worker, the history of handled ones.
Places == Workers \cup {"deque", "handled"}
Held   == [x \in Places |-> IF x = "deque" THEN container
                           ELSE IF x = "handled" THEN handled ELSE batch[x]]

\* No event is ever in two places, or handled twice; and until deinit() is called every
\* event that push() appended is in one of them.
EachEventOnce ==
    /\ \A x, y \in Places : \A i \in DOMAIN Held[x], j \in DOMAIN Held[y] :
          Held[x][i] = Held[y][j] => x = y /\ i = j
    /\ dpc = "run" => Range(pushed) = UNION {Range(Held[x]) : x \in Places}

\* Of a listener with one thread: once deinit() has signalled, its worker is not
\* asleep, although EventDeque::deinit() sets its flag without the mutex.  The
\* null event left in the deque keeps pop() from waiting again.
NoStrandedWorker ==
    dpc \in {"setListener", "setDeque", "broadcast", "broadcast2", "join"} => waiting = {}

\* Of a listener with several threads: a worker that sleeps through deinit() (so
\* that pthread_join never returns) missed the only null event to another worker.
StrandedOnlyWithoutNull ==
    (dpc = "join" /\ waiting # {}) => NULL \notin Range(container)

\* listenToEvent() reads m_container twice, and push() a deque that deinit() may
\* destroy: that can fault, but never before deinit() has been called.
FaultOnlyInDeinit == dpc = "run" => Alive

\* An event in the deque of a listener that is not being deinitialised reaches
\* handleEvent.
EventuallyHandled ==
    \A e \in Event :
        e \in Range(pushed) ~> (e \in Range(handled) \/ dpc # "run")

TheWorker == CHOOSE w \in Workers : TRUE

\* The events ahead of the null event, at which a worker ends.
IsAhead(s, n) ==
    /\ n \in 0 .. Len(s)
    /\ \A i \in 1 .. n : s[i] # NULL
    /\ n = Len(s) \/ s[n + 1] = NULL
Ahead(s) == SubSeq(s, 1, CHOOSE n \in 0 .. Len(s) : IsAhead(s, n))

\* The listener with one thread is a mailbox: what its worker took with pop() and
\* what is still in the deque form one queue, as long as the worker runs.
M == INSTANCE Mailbox WITH
        inbox <- IF wpc[TheWorker] = "exit" THEN <<>> ELSE Ahead(batch[TheWorker] \o container),
        delivered <- handled,
        open <- (dpc = "run")

\* ListenerBuffered1Thread keeps the promise of Mailbox: one at a time, in order,
\* exactly once until deinit(), and without delay.
IsMailbox == M!Spec
=============================================================================
