--------------------------- MODULE ListenerProofs ---------------------------
(***************************************************************************)
(* Proofs about the buffered listeners, for any number of producers and    *)
(* events, and (except where one thread is assumed) of workers.            *)
(***************************************************************************)
EXTENDS Listener, DataLemmas

\* A producer inside listenToEvent has counted the call.
SentInv == \A p \in Producers : ppc[p] # "idle" => sent[p] \in 1 .. MaxSend

TypeInv == TypeOK /\ SentInv

\* Who sleeps, what the mutex protects, and what deinit() has not touched yet.
SleepInv ==
    /\ \A w \in waiting : wpc[w] = "wait"
    /\ \A w \in Workers : wpc[w] = "window" => container = <<>>
    /\ dpc = "run" => m_container /\ ~freed

\* A worker holds a batch only while it processes one.
BatchInv == \A w \in Workers : wpc[w] \notin {"proc", "handle"} => batch[w] = <<>>

AfterNull == {"signalNull", "setListener", "setDeque", "broadcast", "broadcast2", "join"}

\* From the moment deinit() has pushed the null event, each worker of a listener with
\* one thread has it ahead or has ended.
NullInv ==
    dpc \in AfterNull =>
        \A w \in Workers : \/ wpc[w] = "exit"
                           \/ NULL \in Range(container)
                           \/ NULL \in Range(batch[w])

LEMMA RangeAppend ==
    ASSUME NEW S, NEW s \in Seq(S), NEW e \in S
    PROVE  Range(Append(s, e)) = Range(s) \cup {e}
<1>1. Append(s, e) \in Seq(S) /\ Len(Append(s, e)) = Len(s) + 1
  OBVIOUS
<1>2. \A i \in 1 .. Len(s) : Append(s, e)[i] = s[i]
  OBVIOUS
<1>3. Append(s, e)[Len(s) + 1] = e
  OBVIOUS
<1>4. DOMAIN Append(s, e) = 1 .. (Len(s) + 1) /\ DOMAIN s = 1 .. Len(s) /\ Len(s) \in Nat
  BY <1>1
<1>5. QED
  BY <1>2, <1>3, <1>4 DEF Range

LEMMA RangeTail ==
    ASSUME NEW S, NEW s \in Seq(S), s # <<>>, NEW e \in Range(s), Head(s) # e
    PROVE  e \in Range(Tail(s))
<1>1. PICK i \in 1 .. Len(s) : s[i] = e
  BY DEF Range
<1>2. i # 1
  BY <1>1
<1>3. i - 1 \in 1 .. Len(Tail(s)) /\ Tail(s)[i - 1] = e
  BY <1>1, <1>2
<1>4. Tail(s) \in Seq(S) /\ DOMAIN Tail(s) = 1 .. Len(Tail(s))
  OBVIOUS
<1>5. QED
  BY <1>3, <1>4, ZenonT(60) DEF Range

LEMMA RangeEmpty == \A e : e \notin Range(<<>>)
BY DEF Range
-----------------------------------------------------------------------------
LEMMA EmptySeq == <<>> \in Seq(Event) /\ <<>> \in Seq(Event \cup {NULL})
OBVIOUS

LEMMA TypeInit == Init => TypeInv
<1> SUFFICES ASSUME Init PROVE TypeInv
  BY Zenon
<1> USE DEF Init
<1>1. /\ container \in Seq(Event \cup {NULL}) /\ pushed \in Seq(Event) /\ handled \in Seq(Event)
      /\ batch \in [Workers -> Seq(Event \cup {NULL})]
  BY EmptySeq, Zenon
<1>2. /\ wpc \in [Workers -> WorkerPC] /\ ppc \in [Producers -> ProducerPC] /\ dpc \in DeinitPC
      /\ waiting \subseteq Workers
  BY Zenon DEF WorkerPC, ProducerPC, DeinitPC
<1>3. /\ dqTerminating \in BOOLEAN /\ m_container \in BOOLEAN /\ m_isTerminating \in BOOLEAN
      /\ freed \in BOOLEAN
  BY ZenonT(60)
<1>4. sent \in [Producers -> 0 .. MaxSend] /\ SentInv
  BY MaxSendNat DEF SentInv
<1>5. QED
  BY <1>1, <1>2, <1>3, <1>4, Zenon DEF TypeInv, TypeOK

LEMMA TypeWorker ==
    ASSUME TypeInv, NEW w \in Workers, Worker(w) \/ SpuriousWakeup(w)
    PROVE  TypeInv'
<1> USE EmptySeq DEF TypeInv, TypeOK, SentInv, WorkerPC, GoWorker, dequeVars, memberVars
<1>1. CASE CheckTerminating(w)
  BY <1>1, Zenon DEF CheckTerminating
<1>2. CASE GetContainer(w)
  BY <1>2, Zenon DEF GetContainer
<1>3. CASE Pop(w)
  BY <1>3, ZenonT(60) DEF Pop, PopLocked
<1>4. CASE Sleep(w)
  BY <1>4, Zenon DEF Sleep
<1>5. CASE Wake(w)
  BY <1>5, ZenonT(60) DEF Wake, PopLocked
<1>6. CASE ProcessEvent(w)
  <2>1. CASE batch[w] = <<>>
    BY <1>6, <2>1, ZenonT(60) DEF ProcessEvent, NextEvent
  <2>2. CASE batch[w] # <<>>
    <3>1. /\ Tail(batch[w]) \in Seq(Event \cup {NULL})
          /\ Head(batch[w]) \in Event \cup {NULL}
          /\ Head(batch[w]) # NULL => Append(handled, Head(batch[w])) \in Seq(Event)
      BY <2>2
    <3>2. QED
      BY <1>6, <2>2, <3>1, ZenonT(60) DEF ProcessEvent, NextEvent
  <2>3. QED
    BY <2>1, <2>2, Zenon
<1>7. CASE EndHandle(w)
  BY <1>7, Zenon DEF EndHandle
<1>8. CASE SpuriousWakeup(w)
  BY <1>8, Zenon DEF SpuriousWakeup
<1>9. QED
  BY <1>1, <1>2, <1>3, <1>4, <1>5, <1>6, <1>7, <1>8, Zenon DEF Worker

LEMMA TypeProducer ==
    ASSUME TypeInv, NEW p \in Producers, Producer(p)
    PROVE  TypeInv'
<1> USE MaxSendNat DEF TypeInv, TypeOK, SentInv, ProducerPC, GoProducer, dequeVars, memberVars
<1>1. CASE ListenToEvent(p)
  BY <1>1 DEF ListenToEvent
<1>2. CASE Deref(p)
  BY <1>2, Zenon DEF Deref
<1>3. CASE Push(p)
  <2>1. ppc[p] = "push"
    BY <1>3, Zenon DEF Push
  <2>2. <<p, sent[p]>> \in Event
    BY <2>1, Zenon DEF Event
  <2>3. /\ Append(container, <<p, sent[p]>>) \in Seq(Event \cup {NULL})
        /\ Append(pushed, <<p, sent[p]>>) \in Seq(Event)
    BY <2>2
  <2>4. QED
    BY <1>3, <2>3, ZenonT(60) DEF Push
<1>4. CASE SignalPushed(p)
  BY <1>4, Zenon DEF SignalPushed, Signal
<1>5. QED
  BY <1>1, <1>2, <1>3, <1>4, Zenon DEF Producer

LEMMA TypeDeinit ==
    ASSUME TypeInv, Deinit
    PROVE  TypeInv'
<1> USE DEF TypeInv, TypeOK, SentInv, DeinitPC, GoDeinit, dequeVars, memberVars, Broadcast, Signal
<1>1. Append(container, NULL) \in Seq(Event \cup {NULL})
  OBVIOUS
<1>2. QED
  BY <1>1, EmptySeq, ZenonT(60) DEF Deinit, DropContainer, ClearDeque, PushNull, SignalNull,
     SetTerminating,
              SetDequeTerminating, BroadcastDeque, Join

LEMMA TypeStep == TypeInv /\ [Next]_vars => TypeInv'
<1> SUFFICES ASSUME TypeInv, [Next]_vars PROVE TypeInv'
  BY Zenon
<1>1. CASE UNCHANGED vars
  BY <1>1, Zenon DEF vars, TypeInv, TypeOK, SentInv
<1>2. CASE Next
  BY <1>2, TypeWorker, TypeProducer, TypeDeinit, Zenon DEF Next
<1>3. QED
  BY <1>1, <1>2, Zenon

\* Every variable of the listener keeps its type; events reach handleEvent and
\* never the null event that worker() treats as the order to exit.
THEOREM TypeCorrect == Spec => []TypeOK
<1>1. TypeInv => TypeOK
  BY Zenon DEF TypeInv
<1>2. QED
  BY TypeInit, TypeStep, <1>1, PTL DEF Spec

LEMMA TypeInvariant == Spec => []TypeInv
BY TypeInit, TypeStep, PTL DEF Spec
-----------------------------------------------------------------------------
(* No lost wakeup, with any number of workers.                             *)

WakeInv == SleepInv /\ NoLostWakeup /\ FaultOnlyInDeinit

LEMMA WakeInit == Init => WakeInv
BY Zenon DEF Init, WakeInv, SleepInv, NoLostWakeup, FaultOnlyInDeinit, Alive

LEMMA WakeWorker ==
    ASSUME TypeInv, WakeInv, NEW w \in Workers, Worker(w) \/ SpuriousWakeup(w)
    PROVE  WakeInv'
<1> USE DEF TypeInv, TypeOK, WakeInv, SleepInv, NoLostWakeup, FaultOnlyInDeinit, Alive,
            GoWorker, dequeVars, memberVars
<1>1. CASE CheckTerminating(w)
  BY <1>1, Zenon DEF CheckTerminating
<1>2. CASE GetContainer(w)
  BY <1>2, Zenon DEF GetContainer
<1>3. CASE Pop(w)
  BY <1>3, Zenon DEF Pop, PopLocked, MutexFree
<1>4. CASE Sleep(w)
  BY <1>4, Zenon DEF Sleep
<1>5. CASE Wake(w)
  BY <1>5, Zenon DEF Wake, PopLocked, MutexFree
<1>6. CASE ProcessEvent(w)
  BY <1>6, Zenon DEF ProcessEvent, NextEvent
<1>7. CASE EndHandle(w)
  BY <1>7, Zenon DEF EndHandle
<1>8. CASE SpuriousWakeup(w)
  BY <1>8, Zenon DEF SpuriousWakeup
<1>9. QED
  BY <1>1, <1>2, <1>3, <1>4, <1>5, <1>6, <1>7, <1>8, Zenon DEF Worker

LEMMA WakeProducer ==
    ASSUME TypeInv, WakeInv, NEW p \in Producers, Producer(p)
    PROVE  WakeInv'
<1> USE DEF TypeInv, TypeOK, WakeInv, SleepInv, NoLostWakeup, FaultOnlyInDeinit, Alive,
            GoProducer, dequeVars, memberVars
<1>1. CASE ListenToEvent(p)
  BY <1>1, Zenon DEF ListenToEvent
<1>2. CASE Deref(p)
  BY <1>2, Zenon DEF Deref
<1>3. CASE Push(p)
  BY <1>3, Zenon DEF Push, MutexFree
<1>4. CASE SignalPushed(p)
  BY <1>4, WorkersNonEmpty, Zenon DEF SignalPushed, Signal
<1>5. QED
  BY <1>1, <1>2, <1>3, <1>4, Zenon DEF Producer

LEMMA WakeDeinit ==
    ASSUME TypeInv, WakeInv, Deinit
    PROVE  WakeInv'
BY Zenon DEF TypeInv, TypeOK, WakeInv, SleepInv, NoLostWakeup, FaultOnlyInDeinit, Alive, GoDeinit,
       dequeVars, memberVars, Signal, Broadcast, MutexFree, Deinit, DropContainer, ClearDeque,
       PushNull, SignalNull, SetTerminating, SetDequeTerminating, BroadcastDeque, Join

LEMMA WakeStep == TypeInv /\ WakeInv /\ [Next]_vars => WakeInv'
<1> SUFFICES ASSUME TypeInv, WakeInv, [Next]_vars PROVE WakeInv'
  BY Zenon
<1>1. CASE UNCHANGED vars
  BY <1>1, Zenon DEF vars, WakeInv, SleepInv, NoLostWakeup, FaultOnlyInDeinit, Alive
<1>2. CASE Next
  BY <1>2, WakeWorker, WakeProducer, WakeDeinit, Zenon DEF Next
<1>3. QED
  BY <1>1, <1>2, Zenon

LEMMA WakeInvariant == Spec => []WakeInv
BY TypeInvariant, WakeInit, WakeStep, PTL DEF Spec

\* push() signals the condition after it has released the mutex; even so, until
\* deinit() is called no event lies in the deque with every worker asleep.
THEOREM LostWakeupFree == Spec => []NoLostWakeup
<1>1. WakeInv => NoLostWakeup
  BY Zenon DEF WakeInv
<1>2. QED
  BY WakeInvariant, <1>1, PTL

\* listenToEvent() can touch a NULL or destroyed deque only after deinit() began.
THEOREM FaultFreeBeforeDeinit == Spec => []FaultOnlyInDeinit
<1>1. WakeInv => FaultOnlyInDeinit
  BY Zenon DEF WakeInv
<1>2. QED
  BY WakeInvariant, <1>1, PTL
-----------------------------------------------------------------------------
(* A listener with one thread: its worker does not sleep through deinit(). *)

OneWorker == \A v, w \in Workers : v = w

StrandInv == BatchInv /\ NullInv /\ NoStrandedWorker

LEMMA StrandInit == Init => StrandInv
BY Zenon DEF Init, StrandInv, BatchInv, NullInv, AfterNull, NoStrandedWorker

LEMMA BatchWorker ==
    ASSUME TypeInv, BatchInv, NEW w \in Workers, Worker(w) \/ SpuriousWakeup(w)
    PROVE  BatchInv'
BY ZenonT(60) DEF TypeInv, TypeOK, BatchInv, GoWorker, dequeVars, memberVars, Worker,
   CheckTerminating,
       GetContainer, Pop, PopLocked, Sleep, Wake, ProcessEvent, NextEvent, EndHandle, SpuriousWakeup

LEMMA NullWorker ==
    ASSUME OneWorker, TypeInv, BatchInv, NullInv, NEW w \in Workers, Worker(w) \/ SpuriousWakeup(w)
    PROVE  NullInv'
<1> USE DEF TypeInv, TypeOK, NullInv, GoWorker, dequeVars, memberVars
<1>1. CASE Pop(w) \/ Wake(w)
  <2>1. CASE container' = container /\ batch' = batch
    BY <1>1, <2>1, Zenon DEF Pop, Wake, PopLocked
  <2>2. CASE container # <<>> /\ batch' = [batch EXCEPT ![w] = container]
    <3>1. batch'[w] = container /\ wpc[w] # "exit" /\ dpc' = dpc
      BY <1>1, <2>2, Zenon DEF Pop, Wake
    <3>2. CASE NULL \in Range(container)
      BY <3>1, <3>2, Zenon DEF OneWorker
    <3>3. CASE NULL \notin Range(container)
      <4>1. dpc \in AfterNull => NULL \in Range(batch[w])
        BY <3>1, <3>3, Zenon
      <4>2. batch[w] = <<>>
        BY <1>1, ZenonT(60) DEF Pop, Wake, BatchInv
      <4>3. QED
        BY <3>1, <4>1, <4>2, RangeEmpty, Zenon
    <3>4. QED
      BY <3>2, <3>3, Zenon
  <2>3. QED
    BY <1>1, <2>1, <2>2, Zenon DEF Pop, Wake, PopLocked
<1>2. CASE ProcessEvent(w)
  <2>1. CASE batch[w] = <<>>
    BY <1>2, <2>1, Zenon DEF ProcessEvent, NextEvent
  <2>2. CASE batch[w] # <<>> /\ Head(batch[w]) = NULL
    BY <1>2, <2>2, Zenon DEF ProcessEvent, NextEvent, OneWorker
  <2>3. CASE batch[w] # <<>> /\ Head(batch[w]) # NULL
    <3>1. NULL \in Range(batch[w]) => NULL \in Range(Tail(batch[w]))
      BY <2>3, RangeTail, Zenon
    <3>2. batch'[w] = Tail(batch[w]) /\ wpc'[w] = "handle" /\ wpc[w] = "proc"
      BY <1>2, <2>3, Zenon DEF ProcessEvent, NextEvent
    <3>3. UNCHANGED <<container, dpc>>
      BY <1>2, Zenon DEF ProcessEvent
    <3>4. QED
      BY <3>1, <3>2, <3>3, ZenonT(60) DEF OneWorker
  <2>4. QED
    BY <2>1, <2>2, <2>3, Zenon
<1>3. CASE CheckTerminating(w) \/ GetContainer(w) \/ Sleep(w) \/ EndHandle(w) \/ SpuriousWakeup(w)
  BY <1>3, Zenon DEF CheckTerminating, GetContainer, Sleep, EndHandle, SpuriousWakeup
<1>4. QED
  BY <1>1, <1>2, <1>3, Zenon DEF Worker

LEMMA StrandWorker ==
    ASSUME OneWorker, TypeInv, SleepInv, StrandInv,
           NEW w \in Workers, Worker(w) \/ SpuriousWakeup(w)
    PROVE  StrandInv'
<1>1. BatchInv' /\ NullInv'
  BY BatchWorker, NullWorker, Zenon DEF StrandInv
<1>2. CASE Sleep(w)
  <2>1. wpc[w] = "window" /\ batch[w] = <<>> /\ container = <<>> /\ dpc' = dpc
    BY <1>2, Zenon DEF Sleep, GoWorker, SleepInv, StrandInv, BatchInv
  <2>2. dpc \notin AfterNull
    BY <2>1, RangeEmpty, Zenon DEF StrandInv, NullInv
  <2>3. QED
    BY <1>1, <2>1, <2>2, Zenon DEF StrandInv, NoStrandedWorker, AfterNull
<1>3. CASE ~Sleep(w)
  BY <1>1, <1>3, Zenon DEF StrandInv, NoStrandedWorker, Worker, CheckTerminating, GetContainer,
     Pop, Wake,
                    ProcessEvent, EndHandle, SpuriousWakeup, dequeVars
<1>4. QED
  BY <1>2, <1>3, Zenon

LEMMA StrandProducer ==
    ASSUME TypeInv, StrandInv, NEW p \in Producers, Producer(p)
    PROVE  StrandInv'
<1>1. UNCHANGED <<wpc, batch, dpc>>
  BY Zenon DEF Producer, ListenToEvent, Deref, Push, SignalPushed, dequeVars, memberVars
<1>2. waiting' \subseteq waiting
  BY Zenon DEF Producer, ListenToEvent, Deref, Push, SignalPushed, Signal, dequeVars
<1>3. Range(container) \subseteq Range(container')
  <2>1. CASE Push(p) /\ ~freed
    <3>1. <<p, sent[p]>> \in Event
      BY <2>1, Zenon DEF Push, GoProducer, TypeInv, TypeOK, SentInv, Event
    <3>2. QED
      <4>1. container' = Append(container, <<p, sent[p]>>)
        BY <2>1, Zenon DEF Push
      <4>2. container \in Seq(Event \cup {NULL}) /\ <<p, sent[p]>> \in Event \cup {NULL}
        BY <3>1, Zenon DEF TypeInv, TypeOK
      <4>3. Range(Append(container, <<p, sent[p]>>)) = Range(container) \cup {<<p, sent[p]>>}
        BY <4>2, RangeAppend
      <4>4. QED
        BY <4>1, <4>3, Zenon
  <2>2. CASE ~(Push(p) /\ ~freed)
    BY <2>2, Zenon DEF Producer, ListenToEvent, Deref, Push, SignalPushed, dequeVars
  <2>3. QED
    BY <2>1, <2>2, Zenon
<1>4. QED
  BY <1>1, <1>2, <1>3, Zenon DEF StrandInv, BatchInv, NullInv, NoStrandedWorker

LEMMA StrandDeinit ==
    ASSUME OneWorker, TypeInv, SleepInv, StrandInv, Deinit
    PROVE  StrandInv'
<1> USE DEF TypeInv, TypeOK, StrandInv, BatchInv, NullInv, AfterNull, NoStrandedWorker, GoDeinit,
            dequeVars, memberVars
<1>1. CASE PushNull
  <2>1. NULL \in Range(container')
    <3>1. container \in Seq(Event \cup {NULL}) /\ container' = Append(container, NULL)
      BY <1>1, Zenon DEF PushNull
    <3>2. Range(Append(container, NULL)) = Range(container) \cup {NULL}
      <4>1. NULL \in Event \cup {NULL}
        BY Zenon
      <4>2. QED
        BY ONLY <3>1, <4>1, RangeAppend
    <3>3. QED
      BY <3>1, <3>2, Zenon
  <2>2. QED
    BY <1>1, <2>1, Zenon DEF PushNull
<1>2. CASE SignalNull
  <2>1. waiting' = {}
    BY <1>2, Zenon DEF SignalNull, Signal, OneWorker
  <2>2. QED
    BY <1>2, <2>1, Zenon DEF SignalNull
<1>3. CASE DropContainer \/ ClearDeque
  BY <1>3, Zenon DEF DropContainer, ClearDeque
<1>4. CASE SetTerminating \/ SetDequeTerminating
  BY <1>4, Zenon DEF SetTerminating, SetDequeTerminating
<1>5. CASE BroadcastDeque \/ Join
  BY <1>5, Zenon DEF BroadcastDeque, Broadcast, Join
<1>6. QED
  BY <1>1, <1>2, <1>3, <1>4, <1>5, Zenon DEF Deinit

LEMMA StrandStep ==
    ASSUME OneWorker
    PROVE  TypeInv /\ WakeInv /\ StrandInv /\ [Next]_vars => StrandInv'
<1> SUFFICES ASSUME TypeInv, WakeInv, StrandInv, [Next]_vars PROVE StrandInv'
  BY Zenon
<1>1. CASE UNCHANGED vars
  BY <1>1, Zenon DEF vars, StrandInv, BatchInv, NullInv, NoStrandedWorker
<1>2. CASE Next
  BY <1>2, StrandWorker, StrandProducer, StrandDeinit, Zenon DEF Next, WakeInv
<1>3. QED
  BY <1>1, <1>2, Zenon

\* Of a listener with one thread: after deinit() has pushed and signalled the null
\* event its worker is not asleep, so pthread_join does not wait for a sleeping thread.
THEOREM OneThreadNotStranded ==
    ASSUME OneWorker
    PROVE  Spec => []NoStrandedWorker
<1>1. StrandInv => NoStrandedWorker
  BY Zenon DEF StrandInv
<1>2. QED
  BY StrandInit, StrandStep, TypeInvariant, WakeInvariant, <1>1, PTL DEF Spec
-----------------------------------------------------------------------------
(* Any number of threads: who sleeps through deinit() missed the null event. *)

MissedInv == dpc \in {"join", "done"} => waiting = {} \/ NULL \notin Range(container)

LEMMA MissedStep == TypeInv /\ WakeInv /\ MissedInv /\ [Next]_vars => MissedInv'
<1> SUFFICES ASSUME TypeInv, WakeInv, MissedInv, [Next]_vars PROVE MissedInv'
  BY Zenon
<1>1. ASSUME UNCHANGED <<dpc, container>>, waiting' \subseteq waiting PROVE MissedInv'
  BY <1>1, Zenon DEF MissedInv
<1>2. ASSUME UNCHANGED dpc, container' = <<>> PROVE MissedInv'
  BY <1>2, RangeEmpty, Zenon DEF MissedInv
<1>3. CASE UNCHANGED vars
  BY <1>1, <1>3, Zenon DEF vars
<1>4. ASSUME NEW w \in Workers, Worker(w) \/ SpuriousWakeup(w) PROVE MissedInv'
  <2>1. CASE Sleep(w)
    BY <1>2, <2>1, Zenon DEF Sleep, GoWorker, WakeInv, SleepInv
  <2>2. CASE Pop(w) \/ Wake(w)
    BY <1>1, <1>2, <2>2, Zenon DEF Pop, Wake, PopLocked
  <2>3. CASE ~Sleep(w) /\ ~Pop(w) /\ ~Wake(w)
    BY <1>1, <1>4, <2>3, Zenon DEF Worker, CheckTerminating, GetContainer, ProcessEvent, EndHandle,
                                   SpuriousWakeup, dequeVars
  <2>4. QED
    BY <2>1, <2>2, <2>3, Zenon
<1>5. ASSUME NEW p \in Producers, Producer(p) PROVE MissedInv'
  <2>1. CASE Push(p) /\ ~freed
    <3>1. <<p, sent[p]>> \in Event
      BY <2>1, Zenon DEF Push, GoProducer, TypeInv, TypeOK, SentInv, Event
    <3>2. container \in Seq(Event \cup {NULL}) /\ <<p, sent[p]>> \in Event \cup {NULL}
      BY <3>1, Zenon DEF TypeInv, TypeOK
    <3>3. Range(Append(container, <<p, sent[p]>>)) = Range(container) \cup {<<p, sent[p]>>}
      BY <3>2, RangeAppend
    <3>4. NULL # <<p, sent[p]>>
      BY <3>1, NullIsNoEvent, Zenon DEF Event
    <3>5. container' = Append(container, <<p, sent[p]>>) /\ UNCHANGED <<dpc, waiting>>
      BY <2>1, Zenon DEF Push
    <3>6. QED
      BY <3>3, <3>4, <3>5, Zenon DEF MissedInv
  <2>2. CASE ~(Push(p) /\ ~freed)
    BY <1>1, <1>5, <2>2, Zenon DEF Producer, ListenToEvent, Deref, Push, SignalPushed, Signal,
       dequeVars
  <2>3. QED
    BY <2>1, <2>2, Zenon
<1>6. CASE Deinit
  <2>1. dpc' \in {"join", "done"} => waiting' = {} \/ (dpc = "join" /\ UNCHANGED <<container, waiting>>)
    BY <1>6, Zenon DEF Deinit, DropContainer, ClearDeque, PushNull, SignalNull, SetTerminating,
                       SetDequeTerminating, BroadcastDeque, Join, GoDeinit, Broadcast
  <2>2. QED
    BY <2>1, Zenon DEF MissedInv
<1>7. QED
  BY <1>3, <1>4, <1>5, <1>6, Zenon DEF Next

\* Of a listener with several threads: a worker that sleeps through deinit() left no null
\* event in the deque, so that it was another worker of the pool that took the only one.
THEOREM StrandedMissedNull == Spec => []StrandedOnlyWithoutNull
<1>1. Init => MissedInv
  BY Zenon DEF Init, MissedInv
<1>2. MissedInv => StrandedOnlyWithoutNull
  BY Zenon DEF MissedInv, StrandedOnlyWithoutNull
<1>3. QED
  BY TypeInvariant, WakeInvariant, MissedStep, <1>1, <1>2, PTL DEF Spec
-----------------------------------------------------------------------------
(* Each event is in one place: the deque, a worker's batch, or handled.     *)

\* A call of listenToEvent puts an event that is in no place yet.
FreshInv ==
    \A p \in Producers, n \in 1 .. MaxSend :
        In(Held, Places, <<p, n>>) => /\ n <= sent[p]
                                      /\ ppc[p] \in {"deref", "push"} => n # sent[p]

\* What push() appended is what is held, until deinit() is called.
PushedInv == dpc = "run" => \A e : e \in Range(pushed) <=> In(Held, Places, e)

OnceInv ==
    /\ Single(Held, Places)
    /\ FreshInv
    /\ PushedInv
    /\ dpc \in {"run", "clear", "pushNull"} => ~In(Held, Places, NULL)

LEMMA PlaceNames ==
    /\ "deque" \in Places /\ "handled" \in Places /\ "deque" # "handled" /\ Workers \subseteq Places
    /\ \A w \in Workers : w # "deque" /\ w # "handled"
    /\ \A x \in Places : x \in Workers \/ x = "deque" \/ x = "handled"
BY PlacesAssumption, Zenon DEF Places

LEMMA HeldNow ==
    ASSUME TypeInv
    PROVE  /\ Held \in [Places -> Seq(Event \cup {NULL})]
           /\ Held["deque"] = container /\ Held["handled"] = handled
           /\ \A w \in Workers : Held[w] = batch[w]
<1>1. /\ container \in Seq(Event \cup {NULL}) /\ handled \in Seq(Event)
      /\ batch \in [Workers -> Seq(Event \cup {NULL})]
  BY Zenon DEF TypeInv, TypeOK
<1>2. handled \in Seq(Event \cup {NULL})
  BY <1>1
<1>3. QED
  BY <1>1, <1>2, PlaceNames, Zenon DEF Held

LEMMA HeldNext ==
    ASSUME TypeInv'
    PROVE  /\ Held' \in [Places -> Seq(Event \cup {NULL})]
           /\ Held'["deque"] = container' /\ Held'["handled"] = handled'
           /\ \A w \in Workers : Held'[w] = batch'[w]
<1>1. /\ container' \in Seq(Event \cup {NULL}) /\ handled' \in Seq(Event)
      /\ batch' \in [Workers -> Seq(Event \cup {NULL})]
  BY Zenon DEF TypeInv, TypeOK
<1>2. handled' \in Seq(Event \cup {NULL})
  BY <1>1
<1>3. QED
  BY <1>1, <1>2, PlaceNames, Zenon DEF Held

\* Nothing is put anywhere, and a place that changes loses events only after deinit() began.
LEMMA OnceKept ==
    ASSUME TypeInv, TypeInv', OnceInv,
           Single(Held, Places) => Single(Held', Places),
           \A e : In(Held', Places, e) => In(Held, Places, e),
           dpc' = "run" => \A e : In(Held, Places, e) => In(Held', Places, e),
           UNCHANGED pushed, dpc' = "run" => dpc = "run",
           dpc' \in {"run", "clear", "pushNull"} => dpc \in {"run", "clear", "pushNull"},
           \A p \in Producers : sent'[p] = sent[p] \/ sent'[p] = sent[p] + 1,
           \A p \in Producers : ppc'[p] \in {"deref", "push"} =>
               sent'[p] = sent[p] + 1 \/ (sent'[p] = sent[p] /\ ppc[p] \in {"deref", "push"})
    PROVE  OnceInv'
<1>1. Single(Held', Places) /\ PushedInv'
  BY Zenon DEF OnceInv, PushedInv
<1>2. dpc' \in {"run", "clear", "pushNull"} => ~In(Held', Places, NULL)
  BY Zenon DEF OnceInv
<1>3. ASSUME NEW p \in Producers, NEW n \in 1 .. MaxSend, In(Held', Places, <<p, n>>)
      PROVE  n <= sent'[p] /\ (ppc'[p] \in {"deref", "push"} => n # sent'[p])
  <2>1. n <= sent[p] /\ (ppc[p] \in {"deref", "push"} => n # sent[p])
    BY <1>3, Zenon DEF OnceInv, FreshInv
  <2>2. sent[p] \in Nat /\ n \in Nat
    BY MaxSendNat DEF TypeInv, TypeOK
  <2>3. CASE sent'[p] = sent[p] + 1
    BY <2>1, <2>2, <2>3
  <2>4. CASE sent'[p] = sent[p]
    BY <2>1, <2>2, <2>4
  <2>5. QED
    BY <2>3, <2>4, Zenon
<1>4. FreshInv'
  BY <1>3, Zenon DEF FreshInv
<1>5. QED
  BY <1>1, <1>2, <1>4, Zenon DEF OnceInv

\* A worker moves the deque to its batch, or the head of its batch to handleEvent.
LEMMA OnceWorker ==
    ASSUME TypeInv, TypeInv', BatchInv, OnceInv, NEW w \in Workers, Worker(w) \/ SpuriousWakeup(w)
    PROVE  OnceInv'
<1> USE PlaceNames DEF dequeVars, memberVars, GoWorker
<1>0. UNCHANGED <<ppc, sent, dpc, pushed>>
  BY Zenon DEF Worker, CheckTerminating, GetContainer, Pop, Sleep, Wake, ProcessEvent, EndHandle,
               SpuriousWakeup
<1>1. ASSUME Single(Held, Places) => Single(Held', Places),
             \A e : In(Held', Places, e) <=> In(Held, Places, e)
      PROVE  OnceInv'
  BY <1>0, <1>1, OnceKept, Zenon
<1>2. CASE UNCHANGED <<container, batch, handled>>
  <2>1. Held' = Held
    BY <1>2, Zenon DEF Held
  <2>2. QED
    BY <1>1, <2>1, Zenon
<1>3. CASE /\ Pop(w) \/ Wake(w)
           /\ batch' = [batch EXCEPT ![w] = container] /\ container' = <<>>
  <2>1. batch[w] = <<>> /\ UNCHANGED handled
    BY <1>3, ZenonT(60) DEF Pop, Wake, BatchInv
  <2>2. batch'[w] = container /\ \A v \in Workers \ {w} : batch'[v] = batch[v]
    BY <1>3, Zenon DEF TypeInv, TypeOK
  <2>3. /\ Held[w] = <<>> /\ Held'["deque"] = <<>> /\ Held'[w] = Held["deque"]
        /\ \A z \in Places \ {"deque", w} : Held'[z] = Held[z]
    BY <1>3, <2>1, <2>2, HeldNow, HeldNext, Zenon
  <2>4. Held \in [Places -> Seq(Event \cup {NULL})] /\ Held' \in [Places -> Seq(Event \cup {NULL})]
    BY HeldNow, HeldNext, Zenon
  <2>5. /\ Single(Held, Places) => Single(Held', Places)
        /\ \A e : In(Held', Places, e) <=> In(Held, Places, e)
    BY <2>3, <2>4, MoveAll, Zenon
  <2>6. QED
    BY <1>1, <2>5, Zenon
<1>4. CASE ProcessEvent(w) /\ batch[w] # <<>> /\ Head(batch[w]) # NULL
  <2>1. /\ batch' = [batch EXCEPT ![w] = Tail(batch[w])] /\ UNCHANGED container
        /\ handled' = Append(handled, Head(batch[w]))
    BY <1>4, Zenon DEF ProcessEvent, NextEvent
  <2>2. batch'[w] = Tail(batch[w]) /\ \A v \in Workers \ {w} : batch'[v] = batch[v]
    BY <2>1, Zenon DEF TypeInv, TypeOK
  <2>3. /\ Held[w] # <<>> /\ Held'[w] = Tail(Held[w])
        /\ Held'["handled"] = Append(Held["handled"], Head(Held[w]))
        /\ \A z \in Places \ {w, "handled"} : Held'[z] = Held[z]
    BY <1>4, <2>1, <2>2, HeldNow, HeldNext, Zenon
  <2>4. Held \in [Places -> Seq(Event \cup {NULL})] /\ Held' \in [Places -> Seq(Event \cup {NULL})]
    BY HeldNow, HeldNext, Zenon
  <2>5. /\ Single(Held, Places) => Single(Held', Places)
        /\ \A e : In(Held', Places, e) <=> In(Held, Places, e)
    BY <2>3, <2>4, MoveHead, Zenon
  <2>6. QED
    BY <1>1, <2>5, Zenon
<1>5. CASE ProcessEvent(w) /\ batch[w] # <<>> /\ Head(batch[w]) = NULL
  <2>1. batch' = [batch EXCEPT ![w] = <<>>] /\ UNCHANGED <<container, handled>>
    BY <1>5, Zenon DEF ProcessEvent, NextEvent
  <2>2. batch'[w] = <<>> /\ \A v \in Workers \ {w} : batch'[v] = batch[v]
    BY <2>1, Zenon DEF TypeInv, TypeOK
  <2>3. \A z \in Places : Held'[z] = Held[z] \/ Held'[z] = <<>>
    BY <2>1, <2>2, HeldNow, HeldNext, Zenon
  <2>4. Held \in [Places -> Seq(Event \cup {NULL})] /\ Held' \in [Places -> Seq(Event \cup {NULL})]
    BY HeldNow, HeldNext, Zenon
  <2>5. /\ Single(Held, Places) => Single(Held', Places)
        /\ \A e : In(Held', Places, e) => In(Held, Places, e)
    BY <2>3, <2>4, DropAll, Zenon
  <2>6. dpc # "run"
    <3>1. 1 \in DOMAIN batch[w] /\ batch[w][1] = NULL
      BY <1>5 DEF TypeInv, TypeOK
    <3>2. In(Held, Places, NULL)
      BY <3>1, HeldNow, Zenon DEF In
    <3>3. QED
      BY <3>2, Zenon DEF OnceInv
  <2>7. QED
    BY <1>0, <2>5, <2>6, OnceKept, Zenon
<1>6. QED
  BY <1>2, <1>3, <1>4, <1>5, ZenonT(60) DEF Worker, CheckTerminating, GetContainer, Pop, Sleep,
     Wake, PopLocked,
             ProcessEvent, NextEvent, EndHandle, SpuriousWakeup

\* listenToEvent numbers a new event; push() puts it.
LEMMA OnceProducer ==
    ASSUME TypeInv, TypeInv', OnceInv, NEW p \in Producers, Producer(p)
    PROVE  OnceInv'
<1> USE PlaceNames DEF dequeVars, memberVars, GoProducer
<1>1. CASE Push(p) /\ ~freed
  <2> DEFINE e == <<p, sent[p]>>
  <2>1. /\ container' = Append(container, e) /\ pushed' = Append(pushed, e)
        /\ ppc[p] = "push" /\ ppc' = [ppc EXCEPT ![p] = "signal"]
        /\ UNCHANGED <<batch, handled, sent, dpc>>
    BY <1>1, Zenon DEF Push
  <2>2. sent[p] \in 1 .. MaxSend /\ e \in Event
    BY <2>1, Zenon DEF TypeInv, TypeOK, SentInv, Event
  <2>3. ~In(Held, Places, e)
    BY <2>1, <2>2, Zenon DEF OnceInv, FreshInv
  <2>4. Puts(Held, Held', Places, "deque", e)
    BY <2>1, HeldNow, HeldNext, Zenon DEF Puts
  <2>5. Held \in [Places -> Seq(Event \cup {NULL})] /\ Held' \in [Places -> Seq(Event \cup {NULL})]
    BY HeldNow, HeldNext, Zenon
  <2>6. e # NULL
    BY <2>2, NullIsNoEvent, Zenon DEF Event
  <2>7. Range(pushed') = Range(pushed) \cup {e}
    <3>1. pushed \in Seq(Event)
      BY Zenon DEF TypeInv, TypeOK
    <3>2. Range(Append(pushed, e)) = Range(pushed) \cup {e}
      BY <2>2, <3>1, RangeAppend
    <3>3. QED
      BY <2>1, <3>2, Zenon
  <2>8. ASSUME NEW q \in Producers, NEW n \in 1 .. MaxSend, <<q, n>> = e
        PROVE  n <= sent'[q] /\ ppc'[q] \notin {"deref", "push"}
    <3>1. q = p /\ n = sent[p]
      BY <2>8, Zenon
    <3>2. ppc'[p] = "signal" /\ sent'[q] = n /\ n <= n
      <4>1. n <= n
        BY MaxSendNat
      <4>2. QED
        BY <2>1, <3>1, <4>1, Zenon DEF TypeInv, TypeOK
    <3>3. QED
      BY <3>1, <3>2, Zenon
  <2>9. \A q \in Producers : ppc'[q] \in {"deref", "push"} => ppc[q] \in {"deref", "push"}
    BY <2>1, Zenon DEF TypeInv, TypeOK
  <2> HIDE DEF e
  <2>10. /\ Single(Held, Places) => Single(Held', Places)
         /\ \A q : In(Held', Places, q) <=> In(Held, Places, q) \/ q = e
    BY <2>3, <2>4, <2>5, AppendNew, Zenon
  <2>11. FreshInv'
    BY <2>1, <2>8, <2>9, <2>10, Zenon DEF OnceInv, FreshInv
  <2>12. PushedInv'
    BY <2>1, <2>7, <2>10, Zenon DEF OnceInv, PushedInv
  <2>13. QED
    BY <2>1, <2>6, <2>10, <2>11, <2>12, Zenon DEF OnceInv
<1>2. CASE ~(Push(p) /\ ~freed)
  <2>1. UNCHANGED <<container, batch, handled, dpc, pushed>>
    BY <1>2, Zenon DEF Producer, ListenToEvent, Deref, Push, SignalPushed
  <2>2. Held' = Held
    BY <2>1, Zenon DEF Held
  <2>3. ASSUME NEW q \in Producers
        PROVE  /\ sent'[q] = sent[q] \/ sent'[q] = sent[q] + 1
               /\ ppc'[q] \in {"deref", "push"} =>
                   sent'[q] = sent[q] + 1 \/ (sent'[q] = sent[q] /\ ppc[q] \in {"deref", "push"})
    BY <1>2, Zenon DEF Producer, ListenToEvent, Deref, Push, SignalPushed, TypeInv, TypeOK
  <2>4. QED
    BY <2>1, <2>2, <2>3, OnceKept, Zenon
<1>3. QED
  BY <1>1, <1>2, Zenon

\* deinit() clears the deque, and appends the null event to it.
LEMMA OnceDeinit ==
    ASSUME TypeInv, TypeInv', OnceInv, Deinit
    PROVE  OnceInv'
<1> USE PlaceNames DEF dequeVars, memberVars, GoDeinit
<1>1. UNCHANGED <<ppc, sent, pushed, batch, handled>> /\ dpc' # "run"
  BY Zenon DEF Deinit, DropContainer, ClearDeque, PushNull, SignalNull, SetTerminating,
               SetDequeTerminating, BroadcastDeque, Join
<1>2. Held \in [Places -> Seq(Event \cup {NULL})] /\ Held' \in [Places -> Seq(Event \cup {NULL})]
  BY HeldNow, HeldNext, Zenon
<1>3. CASE PushNull
  <2>1. dpc = "pushNull" /\ dpc' = "signalNull" /\ container' = Append(container, NULL)
    BY <1>3, Zenon DEF PushNull
  <2>2. Puts(Held, Held', Places, "deque", NULL)
    BY <1>1, <2>1, HeldNow, HeldNext, Zenon DEF Puts
  <2>3. ~In(Held, Places, NULL)
    BY <2>1, Zenon DEF OnceInv
  <2>4. /\ Single(Held, Places) => Single(Held', Places)
        /\ \A q : In(Held', Places, q) <=> In(Held, Places, q) \/ q = NULL
    BY <1>2, <2>2, <2>3, AppendNew, Zenon
  <2>5. \A q \in Producers, n \in 1 .. MaxSend : <<q, n>> # NULL
    BY NullIsNoEvent
  <2>6. FreshInv'
    BY <1>1, <2>4, <2>5, Zenon DEF OnceInv, FreshInv
  <2>7. QED
    BY <1>1, <2>1, <2>4, <2>6, Zenon DEF OnceInv, PushedInv
<1>4. CASE ~PushNull
  <2>1. container' = container \/ container' = <<>>
    BY <1>4, Zenon DEF Deinit, DropContainer, ClearDeque, SignalNull, SetTerminating,
               SetDequeTerminating, BroadcastDeque, Join
  <2>2. dpc' \in {"run", "clear", "pushNull"} => dpc \in {"run", "clear", "pushNull"}
    BY <1>4, Zenon DEF Deinit, DropContainer, ClearDeque, SignalNull, SetTerminating,
               SetDequeTerminating, BroadcastDeque, Join
  <2>3. \A z \in Places : Held'[z] = Held[z] \/ Held'[z] = <<>>
    BY <1>1, <2>1, HeldNow, HeldNext, Zenon
  <2>4. /\ Single(Held, Places) => Single(Held', Places)
        /\ \A e : In(Held', Places, e) => In(Held, Places, e)
    BY <1>2, <2>3, DropAll, Zenon
  <2>5. QED
    BY <1>1, <2>2, <2>4, OnceKept, Zenon
<1>5. QED
  BY <1>3, <1>4, Zenon

LEMMA OnceInit == Init => BatchInv /\ OnceInv
<1> SUFFICES ASSUME Init PROVE BatchInv /\ OnceInv
  BY Zenon
<1>1. \A x \in Places : Held[x] = <<>>
  BY Zenon DEF Held, Init, Places
<1>2. DOMAIN <<>> = {}
  OBVIOUS
<1>3. Single(Held, Places) /\ \A e : ~In(Held, Places, e)
  BY <1>1, <1>2, Zenon DEF Single, In
<1>4. \A e : e \notin Range(pushed)
  BY RangeEmpty, Zenon DEF Init
<1>5. QED
  BY <1>3, <1>4, Zenon DEF Init, BatchInv, OnceInv, FreshInv, PushedInv

LEMMA OnceStep == TypeInv /\ TypeInv' /\ BatchInv /\ OnceInv /\ [Next]_vars => BatchInv' /\ OnceInv'
<1> SUFFICES ASSUME TypeInv, TypeInv', BatchInv, OnceInv, [Next]_vars PROVE BatchInv' /\ OnceInv'
  BY Zenon
<1>1. CASE UNCHANGED vars
  <2>1. Held' = Held
    BY <1>1, Zenon DEF vars, Held
  <2>2. QED
    BY <1>1, <2>1, Zenon DEF vars, BatchInv, OnceInv, FreshInv, PushedInv
<1>2. CASE Next
  <2>1. BatchInv'
    <3>1. ASSUME UNCHANGED <<wpc, batch>> PROVE BatchInv'
      BY <3>1, Zenon DEF BatchInv
    <3>2. ASSUME NEW p \in Producers, Producer(p) PROVE UNCHANGED <<wpc, batch>>
      BY <3>2, Zenon DEF Producer, ListenToEvent, Deref, Push, SignalPushed
    <3>3. CASE Deinit
      BY <3>1, <3>3, Zenon DEF Deinit, DropContainer, ClearDeque, PushNull, SignalNull,
         SetTerminating,
               SetDequeTerminating, BroadcastDeque, Join
    <3>4. QED
      BY <1>2, <3>1, <3>2, <3>3, BatchWorker, Zenon DEF Next
  <2>2. QED
    BY <1>2, <2>1, OnceWorker, OnceProducer, OnceDeinit, Zenon DEF Next
<1>3. QED
  BY <1>1, <1>2, Zenon

LEMMA OnceInvariant == Spec => [](BatchInv /\ OnceInv)
BY TypeInvariant, OnceInit, OnceStep, PTL DEF Spec

\* However many threads drain the deque, pop() hands no event out twice and loses none:
\* an event is in the deque, in one batch, or handled once, and until deinit() is called
\* every event that push() appended is in one of them.
THEOREM EventsAreKept == Spec => []EachEventOnce
<1>1. OnceInv => EachEventOnce
  <2> SUFFICES ASSUME OnceInv PROVE EachEventOnce
    BY Zenon
  <2>1. \A e : In(Held, Places, e) <=> e \in UNION {Range(Held[x]) : x \in Places}
    BY DEF In, Range
  <2>2. dpc = "run" => Range(pushed) = UNION {Range(Held[x]) : x \in Places}
    BY <2>1, Zenon DEF OnceInv, PushedInv
  <2>3. QED
    BY <2>2, Zenon DEF OnceInv, Single, EachEventOnce
<1>2. QED
  BY OnceInvariant, <1>1, PTL
-----------------------------------------------------------------------------
(* The listener with one thread implements the mailbox.                     *)

LEMMA AheadIs ==
    ASSUME NEW S, NEW s \in Seq(S), NEW n, IsAhead(s, n)
    PROVE  /\ n \in Nat /\ n <= Len(s) /\ Ahead(s) \in Seq(S) /\ Len(Ahead(s)) = n
           /\ Ahead(s) = SubSeq(s, 1, n) /\ \A i \in 1 .. n : Ahead(s)[i] = s[i]
<1>1. n \in 0 .. Len(s) /\ Len(s) \in Nat
  BY DEF IsAhead
<1>2. ASSUME NEW m \in 0 .. Len(s), IsAhead(s, m) PROVE m = n
  <2>1. ~(m < n)
    BY <1>1, <1>2 DEF IsAhead
  <2>2. ~(n < m)
    BY <1>1, <1>2 DEF IsAhead
  <2>3. QED
    BY <1>1, <2>1, <2>2
<1>3. (CHOOSE m \in 0 .. Len(s) : IsAhead(s, m)) = n
  BY <1>1, <1>2
<1>4. Ahead(s) = SubSeq(s, 1, n)
  BY <1>3, Zenon DEF Ahead
<1>5. /\ SubSeq(s, 1, n) \in Seq(S) /\ Len(SubSeq(s, 1, n)) = n
      /\ \A i \in 1 .. n : SubSeq(s, 1, n)[i] = s[i]
  BY <1>1
<1>6. QED
  BY <1>1, <1>4, <1>5

\* Two sequences of the same length and elements are equal.
LEMMA SameSeq ==
    ASSUME NEW S, NEW s \in Seq(S), NEW t \in Seq(S), Len(s) = Len(t),
           \A i \in 1 .. Len(s) : s[i] = t[i]
    PROVE  s = t
OBVIOUS

\* An event appended is ahead of the null event unless that one is there already.
LEMMA AheadAppend ==
    ASSUME NEW S, NEW s \in Seq(S), NEW n, IsAhead(s, n), NEW e \in S, e # NULL
    PROVE  \/ IsAhead(Append(s, e), n + 1) /\ Ahead(Append(s, e)) = Append(Ahead(s), e)
           \/ IsAhead(Append(s, e), n) /\ Ahead(Append(s, e)) = Ahead(s)
<1> DEFINE t == Append(s, e)
<1>1. /\ t \in Seq(S) /\ Len(t) = Len(s) + 1 /\ t[Len(s) + 1] = e /\ Len(s) \in Nat
      /\ \A i \in 1 .. Len(s) : t[i] = s[i]
  OBVIOUS
<1>2. n \in Nat /\ n <= Len(s) /\ Ahead(s) \in Seq(S) /\ Len(Ahead(s)) = n
  BY AheadIs
<1>3. \A i \in 1 .. n : Ahead(s)[i] = s[i]
  BY AheadIs
<1> HIDE DEF t
<1>4. CASE n = Len(s)
  <2>1. IsAhead(t, n + 1)
    BY <1>1, <1>2, <1>4 DEF IsAhead
  <2>2. /\ Ahead(t) \in Seq(S) /\ Len(Ahead(t)) = n + 1 /\ \A i \in 1 .. (n + 1) : Ahead(t)[i] = t[i]
    BY <1>1, <2>1, AheadIs
  <2>3. Ahead(t) = Append(Ahead(s), e)
    <3>1. /\ Append(Ahead(s), e) \in Seq(S) /\ Len(Append(Ahead(s), e)) = n + 1
          /\ \A i \in 1 .. n : Append(Ahead(s), e)[i] = Ahead(s)[i]
          /\ Append(Ahead(s), e)[n + 1] = e
      BY <1>2
    <3>2. \A i \in 1 .. (n + 1) : Ahead(t)[i] = Append(Ahead(s), e)[i]
      BY <1>1, <1>2, <1>3, <1>4, <2>2, <3>1
    <3>3. QED
      BY <2>2, <3>1, <3>2, SameSeq
  <2>4. QED
    BY <2>1, <2>3, Zenon DEF t
<1>5. CASE n # Len(s)
  <2>1. IsAhead(t, n)
    BY <1>1, <1>2, <1>5, SMTT(30) DEF IsAhead
  <2>2. /\ Ahead(t) \in Seq(S) /\ Len(Ahead(t)) = n /\ \A i \in 1 .. n : Ahead(t)[i] = t[i]
    BY <1>1, <2>1, AheadIs
  <2>3. Ahead(t) = Ahead(s)
    <3>1. \A i \in 1 .. n : Ahead(t)[i] = Ahead(s)[i]
      BY <1>1, <1>2, <1>3, <2>2
    <3>2. QED
      BY <1>2, <2>2, <3>1, SameSeq
  <2>4. QED
    BY <2>1, <2>3, Zenon DEF t
<1>6. QED
  BY <1>4, <1>5, Zenon

\* Nothing changes ahead of a null event that is appended.
LEMMA AheadNull ==
    ASSUME NEW S, NEW s \in Seq(S), NEW n, IsAhead(s, n), NULL \in S
    PROVE  IsAhead(Append(s, NULL), n) /\ Ahead(Append(s, NULL)) = Ahead(s)
<1> DEFINE t == Append(s, NULL)
<1>1. /\ t \in Seq(S) /\ Len(t) = Len(s) + 1 /\ t[Len(s) + 1] = NULL /\ Len(s) \in Nat
      /\ \A i \in 1 .. Len(s) : t[i] = s[i]
  OBVIOUS
<1>2. n \in Nat /\ n <= Len(s) /\ Ahead(s) \in Seq(S) /\ Len(Ahead(s)) = n
  BY AheadIs
<1>3. \A i \in 1 .. n : Ahead(s)[i] = s[i]
  BY AheadIs
<1> HIDE DEF t
<1>4. IsAhead(t, n)
  BY <1>1, <1>2 DEF IsAhead
<1>5. /\ Ahead(t) \in Seq(S) /\ Len(Ahead(t)) = n /\ \A i \in 1 .. n : Ahead(t)[i] = t[i]
  BY <1>1, <1>4, AheadIs
<1>6. Ahead(t) = Ahead(s)
  <2>1. \A i \in 1 .. n : Ahead(t)[i] = Ahead(s)[i]
    BY <1>1, <1>2, <1>3, <1>5
  <2>2. QED
    BY <1>2, <1>5, <2>1, SameSeq
<1>7. QED
  BY <1>4, <1>6, Zenon DEF t

\* The head of the line, when it is an event, is the head of what is ahead.
LEMMA AheadTail ==
    ASSUME NEW S, NEW s \in Seq(S), NEW n, IsAhead(s, n), s # <<>>, Head(s) # NULL
    PROVE  /\ IsAhead(Tail(s), n - 1) /\ Ahead(Tail(s)) = Tail(Ahead(s))
           /\ Ahead(s) # <<>> /\ Head(Ahead(s)) = Head(s)
<1> DEFINE t == Tail(s)
<1>1. /\ t \in Seq(S) /\ Len(t) = Len(s) - 1 /\ Len(s) \in Nat /\ Len(s) > 0
      /\ \A i \in 1 .. Len(t) : t[i] = s[i + 1]
      /\ Head(s) = s[1]
  OBVIOUS
<1>2. n \in Nat /\ n <= Len(s) /\ Ahead(s) \in Seq(S) /\ Len(Ahead(s)) = n
  BY AheadIs
<1>3. \A i \in 1 .. n : Ahead(s)[i] = s[i]
  BY AheadIs
<1> HIDE DEF t
<1>4. n > 0
  BY <1>1, <1>2 DEF IsAhead
<1>5. IsAhead(t, n - 1)
  <2>1. n - 1 \in 0 .. Len(t) /\ n - 1 + 1 = n
    BY <1>1, <1>2, <1>4
  <2>2. \A i \in 1 .. (n - 1) : t[i] # NULL
    BY <1>1, <1>2, <1>4 DEF IsAhead
  <2>3. n - 1 = Len(t) \/ t[n - 1 + 1] = NULL
    BY <1>1, <1>2, <1>4 DEF IsAhead
  <2>4. QED
    BY <2>1, <2>2, <2>3, Zenon DEF IsAhead
<1>6. /\ Ahead(t) \in Seq(S) /\ Len(Ahead(t)) = n - 1 /\ \A i \in 1 .. (n - 1) : Ahead(t)[i] = t[i]
  BY <1>1, <1>5, AheadIs
<1>7. /\ Tail(Ahead(s)) \in Seq(S) /\ Len(Tail(Ahead(s))) = n - 1 /\ Ahead(s) # <<>>
      /\ \A i \in 1 .. (n - 1) : Tail(Ahead(s))[i] = Ahead(s)[i + 1]
      /\ Head(Ahead(s)) = Ahead(s)[1]
  BY <1>2, <1>4
<1>8. \A i \in 1 .. (n - 1) : Ahead(t)[i] = Tail(Ahead(s))[i]
  BY <1>1, <1>2, <1>3, <1>4, <1>6, <1>7
<1>9. Ahead(t) = Tail(Ahead(s))
  BY <1>6, <1>7, <1>8, SameSeq
<1>10. Head(Ahead(s)) = Head(s)
  BY <1>1, <1>2, <1>3, <1>4, <1>7
<1>11. QED
  BY <1>5, <1>7, <1>9, <1>10, Zenon DEF t

\* Cutting the end of the line cuts the end of what is ahead.
LEMMA AheadCut ==
    ASSUME NEW S, NEW b \in Seq(S), NEW c \in Seq(S), NEW n, IsAhead(b \o c, n)
    PROVE  \E m \in 0 .. Len(Ahead(b \o c)) :
               IsAhead(b, m) /\ Ahead(b) = SubSeq(Ahead(b \o c), 1, m)
<1> DEFINE s == b \o c
           m == IF n < Len(b) THEN n ELSE Len(b)
<1>1. /\ s \in Seq(S) /\ Len(s) = Len(b) + Len(c) /\ Len(b) \in Nat /\ Len(c) \in Nat
      /\ \A i \in 1 .. Len(b) : s[i] = b[i]
  OBVIOUS
<1> HIDE DEF s
<1>2. n \in Nat /\ n <= Len(s) /\ Ahead(s) \in Seq(S) /\ Len(Ahead(s)) = n
  BY <1>1, AheadIs DEF s
<1>3. \A i \in 1 .. n : Ahead(s)[i] = s[i]
  BY <1>1, AheadIs DEF s
<1>4. m \in 0 .. n /\ m <= Len(b)
  BY <1>1, <1>2
<1>5. IsAhead(b, m)
  BY <1>1, <1>2 DEF IsAhead, s
<1> HIDE DEF m
<1>6. /\ Ahead(b) \in Seq(S) /\ Len(Ahead(b)) = m /\ \A i \in 1 .. m : Ahead(b)[i] = b[i]
  BY <1>5, AheadIs
<1>7. /\ SubSeq(Ahead(s), 1, m) \in Seq(S) /\ Len(SubSeq(Ahead(s), 1, m)) = m
      /\ \A i \in 1 .. m : SubSeq(Ahead(s), 1, m)[i] = Ahead(s)[i]
  BY <1>2, <1>4
<1>8. \A i \in 1 .. m : Ahead(b)[i] = SubSeq(Ahead(s), 1, m)[i]
  <2>1. \A i \in 1 .. m : i \in 1 .. n /\ i \in 1 .. Len(b)
    BY <1>1, <1>2, <1>4
  <2>2. QED
    BY <1>1, <1>3, <1>6, <1>7, <2>1, Zenon
<1>9. Ahead(b) = SubSeq(Ahead(s), 1, m)
  BY <1>6, <1>7, <1>8, SameSeq
<1>10. QED
  BY <1>2, <1>4, <1>5, <1>9, Zenon DEF s

LEMMA LineAppend ==
    ASSUME NEW b \in Seq(Event \cup {NULL}), NEW c \in Seq(Event \cup {NULL}),
           NEW e \in Event \cup {NULL}
    PROVE  b \o Append(c, e) = Append(b \o c, e)
<1>1. /\ b \o Append(c, e) \in Seq(Event \cup {NULL}) /\ Append(b \o c, e) \in Seq(Event \cup {NULL})
      /\ Len(b \o Append(c, e)) = Len(Append(b \o c, e))
      /\ \A i \in 1 .. Len(b \o Append(c, e)) : (b \o Append(c, e))[i] = Append(b \o c, e)[i]
  OBVIOUS
<1>2. QED
  BY <1>1, SameSeq

LEMMA LineParts ==
    ASSUME NEW S, NEW b \in Seq(S), NEW c \in Seq(S)
    PROVE  /\ b \o c \in Seq(S) /\ <<>> \o c = c /\ b \o <<>> = b
           /\ b # <<>> => /\ Tail(b) \o c = Tail(b \o c)
                          /\ b \o c # <<>> /\ Head(b \o c) = Head(b)
<1>1. b \o c \in Seq(S) /\ <<>> \o c = c /\ b \o <<>> = b
  OBVIOUS
<1>2. ASSUME b # <<>>
      PROVE  Tail(b) \o c = Tail(b \o c) /\ b \o c # <<>> /\ Head(b \o c) = Head(b)
  <2>1. b \o c # <<>> /\ Head(b \o c) = Head(b)
    BY <1>2
  <2>2. /\ Tail(b) \o c \in Seq(S) /\ Tail(b \o c) \in Seq(S)
        /\ Len(Tail(b) \o c) = Len(Tail(b \o c))
        /\ \A i \in 1 .. Len(Tail(b) \o c) : (Tail(b) \o c)[i] = Tail(b \o c)[i]
    BY <1>2
  <2>3. QED
    BY <2>1, <2>2, SameSeq
<1>3. QED
  BY <1>1, <1>2, Zenon
-----------------------------------------------------------------------------
Line  == batch[TheWorker] \o container
Inbox == IF wpc[TheWorker] = "exit" THEN <<>> ELSE Ahead(Line)

\* As long as the worker runs there is a place in the line where it would end.
LineInv ==
    /\ wpc[TheWorker] # "exit" => \E n : IsAhead(Line, n)
    /\ dpc = "run" => ~m_isTerminating

\* The step of the mailbox that a step of the listener is.
Mapped == [M!Next]_(M!mailboxVars)

LEMMA MapSame ==
    ASSUME UNCHANGED <<Inbox, handled>>, (dpc' = "run") = (dpc = "run") PROVE Mapped
BY Zenon DEF Inbox, Line, Mapped, M!mailboxVars

LEMMA MapPost ==
    ASSUME NEW e \in Event, Inbox' = Append(Inbox, e), UNCHANGED <<handled, dpc>> PROVE Mapped
BY Zenon DEF Inbox, Line, Mapped, M!Next, M!Post

LEMMA MapDeliver ==
    ASSUME Inbox # <<>>, handled' = Append(handled, Head(Inbox)), Inbox' = Tail(Inbox),
           UNCHANGED dpc
    PROVE  Mapped
BY Zenon DEF Inbox, Line, Mapped, M!Next, M!Deliver

LEMMA MapClose ==
    ASSUME dpc = "run", dpc' # "run", UNCHANGED <<Inbox, handled>> PROVE Mapped
BY Zenon DEF Inbox, Line, Mapped, M!Next, M!Close

LEMMA MapDiscard ==
    ASSUME dpc # "run", dpc' # "run", NEW n \in 0 .. Len(Inbox), Inbox' = SubSeq(Inbox, 1, n),
           UNCHANGED handled
    PROVE  Mapped
BY Zenon DEF Inbox, Line, Mapped, M!Next, M!Discard

LEMMA TheWorkerOne ==
    ASSUME OneWorker
    PROVE  TheWorker \in Workers /\ \A w \in Workers : w = TheWorker
BY WorkersNonEmpty, Zenon DEF OneWorker, TheWorker

LEMMA LineType ==
    ASSUME OneWorker, TypeInv
    PROVE  /\ Line \in Seq(Event \cup {NULL}) /\ container \in Seq(Event \cup {NULL})
           /\ batch[TheWorker] \in Seq(Event \cup {NULL})
<1>1. batch[TheWorker] \in Seq(Event \cup {NULL}) /\ container \in Seq(Event \cup {NULL})
  BY TheWorkerOne, Zenon DEF TypeInv, TypeOK
<1>2. QED
  BY <1>1, LineParts DEF Line

LEMMA MapWorker ==
    ASSUME OneWorker, TypeInv, BatchInv, SleepInv, LineInv,
           NEW w \in Workers, Worker(w) \/ SpuriousWakeup(w)
    PROVE  LineInv' /\ Mapped
<1> USE DEF GoWorker, dequeVars, memberVars
<1>1. w = TheWorker /\ \A f : [batch EXCEPT ![w] = f][w] = f
  BY TheWorkerOne, Zenon DEF TypeInv, TypeOK
<1>2. \A pc : [wpc EXCEPT ![w] = pc][w] = pc
  BY Zenon DEF TypeInv, TypeOK
<1>3. UNCHANGED <<dpc, m_isTerminating>> /\ wpc[w] # "exit"
  <2>1. UNCHANGED <<dpc, m_isTerminating>>
    BY Zenon DEF Worker, CheckTerminating, GetContainer, Pop, Sleep, Wake, ProcessEvent, EndHandle,
                 SpuriousWakeup
  <2>2. wpc[w] # "exit"
    BY ZenonT(60) DEF Worker, CheckTerminating, GetContainer, Pop, Sleep, Wake, ProcessEvent,
       NextEvent,
                      EndHandle, SpuriousWakeup, SleepInv
  <2>3. QED
    BY <2>1, <2>2, Zenon
<1>4. ASSUME UNCHANGED <<Line, handled>>, wpc'[w] # "exit" PROVE LineInv' /\ Mapped
  BY <1>1, <1>3, <1>4, MapSame, Zenon DEF LineInv, Inbox
<1>5. CASE UNCHANGED <<batch, container, handled>> /\ wpc'[w] # "exit"
  BY <1>4, <1>5, Zenon DEF Line
\* The worker ends: what was ahead is discarded, which happens in deinit() only.
<1>6. CASE CheckTerminating(w) \/ GetContainer(w)
  <2>1. CASE wpc'[w] # "exit"
    BY <1>5, <1>6, <2>1, Zenon DEF CheckTerminating, GetContainer
  <2>2. CASE wpc'[w] = "exit"
    <3>1. dpc # "run" /\ UNCHANGED handled
      BY <1>2, <1>6, <2>2, Zenon DEF CheckTerminating, GetContainer, LineInv, SleepInv
    <3>2. Inbox' = <<>>
      BY <1>1, <2>2, Zenon DEF Inbox
    <3>3. 0 \in 0 .. Len(Inbox) /\ SubSeq(Inbox, 1, 0) = <<>>
      <4>1. PICK n : IsAhead(Line, n)
        BY <1>1, <1>3, Zenon DEF LineInv
      <4>2. Inbox \in Seq(Event \cup {NULL})
        BY <1>1, <1>3, <4>1, LineType, AheadIs DEF Inbox
      <4>3. QED
        BY <4>2
    <3>4. LineInv'
      BY <1>1, <1>3, <2>2, Zenon DEF LineInv
    <3>5. QED
      BY <1>3, <3>1, <3>2, <3>3, <3>4, MapDiscard, Zenon
  <2>3. QED
    BY <2>1, <2>2, Zenon
<1>7. CASE Sleep(w) \/ EndHandle(w) \/ SpuriousWakeup(w)
  <2>1. UNCHANGED <<batch, container, handled>> /\ wpc'[w] # "exit"
    BY <1>2, <1>3, <1>7, Zenon DEF Sleep, EndHandle, SpuriousWakeup
  <2>2. QED
    BY <1>5, <2>1, Zenon
\* pop() takes the deque behind an empty batch.
<1>8. CASE Pop(w) \/ Wake(w)
  <2>1. wpc'[w] # "exit" /\ UNCHANGED handled
    BY <1>2, <1>8, Zenon DEF Pop, Wake, PopLocked
  <2>2. CASE UNCHANGED <<batch, container>>
    BY <1>5, <2>1, <2>2, Zenon
  <2>3. CASE batch' = [batch EXCEPT ![w] = container] /\ container' = <<>>
    <3>1. batch[w] = <<>>
      BY <1>8, ZenonT(60) DEF Pop, Wake, BatchInv
    <3>2. Line = container
      BY <1>1, <3>1, LineType, LineParts DEF Line
    <3>3. batch'[TheWorker] = container
      BY <1>1, <2>3, Zenon
    <3>4. Line' = container
      BY <2>3, <3>3, LineType, LineParts DEF Line
    <3>5. QED
      BY <1>4, <2>1, <3>2, <3>4, Zenon
  <2>4. QED
    BY <1>8, <2>2, <2>3, Zenon DEF Pop, Wake, PopLocked
<1>9. CASE ProcessEvent(w)
  <2>1. CASE batch[w] = <<>>
    <3>1. UNCHANGED <<batch, container, handled>> /\ wpc'[w] # "exit"
      BY <1>2, <1>9, <2>1, Zenon DEF ProcessEvent, NextEvent
    <3>2. QED
      BY <1>5, <3>1, Zenon
  <2>2. PICK n : IsAhead(Line, n)
    BY <1>1, <1>3, Zenon DEF LineInv
  <2>3. CASE batch[w] # <<>>
    <3>1. /\ Line # <<>> /\ Head(Line) = Head(batch[w])
          /\ Tail(batch[w]) \o container = Tail(Line)
      <4>1. batch[w] \in Seq(Event \cup {NULL}) /\ container \in Seq(Event \cup {NULL})
        BY <1>1, LineType, Zenon
      <4>2. /\ Tail(batch[w]) \o container = Tail(batch[w] \o container)
            /\ batch[w] \o container # <<>> /\ Head(batch[w] \o container) = Head(batch[w])
        BY ONLY <2>3, <4>1, LineParts, SMTT(30)
      <4>3. QED
        BY <1>1, <4>2, Zenon DEF Line
    <3>2. CASE Head(batch[w]) = NULL
      <4>1. wpc'[w] = "exit" /\ UNCHANGED handled
        BY <1>2, <1>9, <2>3, <3>2, Zenon DEF ProcessEvent, NextEvent
      <4>2. n = 0
        <5>1. Line[1] = NULL /\ Len(Line) \in Nat /\ Len(Line) > 0
          BY <3>1, <3>2, LineType
        <5>2. QED
          BY <2>2, <5>1 DEF IsAhead
      <4>3. Ahead(Line) = <<>>
        <5>1. Ahead(Line) \in Seq(Event \cup {NULL}) /\ Len(Ahead(Line)) = 0
          BY <2>2, <4>2, LineType, AheadIs
        <5>2. QED
          BY <5>1
      <4>4. UNCHANGED <<Inbox, handled>>
        BY <1>1, <1>3, <4>1, <4>3, Zenon DEF Inbox
      <4>5. LineInv'
        BY <1>1, <1>3, <4>1, Zenon DEF LineInv
      <4>6. QED
        BY <1>3, <4>4, <4>5, MapSame, Zenon
    <3>3. CASE Head(batch[w]) # NULL
      <4>1. /\ wpc'[w] # "exit" /\ handled' = Append(handled, Head(batch[w]))
            /\ batch'[w] = Tail(batch[w]) /\ UNCHANGED container
        BY <1>1, <1>2, <1>9, <2>3, <3>3, Zenon DEF ProcessEvent, NextEvent
      <4>2. Line' = Tail(Line)
        BY <1>1, <3>1, <4>1, Zenon DEF Line
      <4>3. Head(Line) # NULL
        BY <3>1, <3>3, Zenon
      <4>4. /\ IsAhead(Tail(Line), n - 1) /\ Ahead(Tail(Line)) = Tail(Ahead(Line))
            /\ Ahead(Line) # <<>> /\ Head(Ahead(Line)) = Head(Line)
        BY <2>2, <3>1, <4>3, LineType, AheadTail
      <4>5. Inbox = Ahead(Line) /\ Inbox' = Ahead(Tail(Line))
        BY <1>1, <1>3, <4>1, <4>2, Zenon DEF Inbox
      <4>6. LineInv'
        BY <1>1, <1>3, <4>2, <4>4, Zenon DEF LineInv
      <4>7. QED
        BY <1>3, <3>1, <4>1, <4>4, <4>5, <4>6, MapDeliver, Zenon
    <3>4. QED
      BY <3>2, <3>3, Zenon
  <2>4. QED
    BY <2>1, <2>3, Zenon
<1>10. QED
  BY <1>6, <1>7, <1>8, <1>9, Zenon DEF Worker

LEMMA MapProducer ==
    ASSUME OneWorker, TypeInv, LineInv, NEW p \in Producers, Producer(p)
    PROVE  LineInv' /\ Mapped
<1> USE DEF dequeVars, memberVars, GoProducer
<1>1. UNCHANGED <<wpc, batch, handled, dpc, m_isTerminating>>
  BY Zenon DEF Producer, ListenToEvent, Deref, Push, SignalPushed
<1>2. CASE Push(p) /\ ~freed
  <2> DEFINE e == <<p, sent[p]>>
  <2>1. e \in Event /\ e # NULL
    <3>1. e \in Event
      BY <1>2, Zenon DEF Push, TypeInv, TypeOK, SentInv, Event
    <3>2. QED
      BY <3>1, NullIsNoEvent, Zenon DEF Event
  <2>2. container' = Append(container, e)
    BY <1>2, Zenon DEF Push
  <2> HIDE DEF e
  <2>3. Line' = Append(Line, e)
    <3>1. batch[TheWorker] \o Append(container, e) = Append(batch[TheWorker] \o container, e)
      <4>1. e \in Event \cup {NULL}
        BY <2>1, Zenon
      <4>2. /\ batch[TheWorker] \in Seq(Event \cup {NULL})
            /\ container \in Seq(Event \cup {NULL})
        BY LineType, Zenon
      <4>3. QED
        BY ONLY <4>1, <4>2, LineAppend, Zenon
    <3>2. QED
      BY <1>1, <2>2, <3>1, Zenon DEF Line
  <2>4. CASE wpc[TheWorker] = "exit"
    <3>1. UNCHANGED Inbox
      BY <1>1, <2>4, Zenon DEF Inbox
    <3>2. QED
      BY <1>1, <2>4, <3>1, MapSame, Zenon DEF LineInv
  <2>5. CASE wpc[TheWorker] # "exit"
    <3>1. PICK n : IsAhead(Line, n)
      BY <2>5, Zenon DEF LineInv
    <3>2. \/ IsAhead(Append(Line, e), n + 1) /\ Ahead(Append(Line, e)) = Append(Ahead(Line), e)
          \/ IsAhead(Append(Line, e), n) /\ Ahead(Append(Line, e)) = Ahead(Line)
      BY <2>1, <3>1, LineType, AheadAppend
    <3>3. LineInv'
      BY <1>1, <2>3, <3>2, Zenon DEF LineInv
    <3>4. Inbox = Ahead(Line) /\ Inbox' = Ahead(Append(Line, e))
      BY <1>1, <2>3, <2>5, Zenon DEF Inbox
    <3>5. CASE Ahead(Append(Line, e)) = Append(Ahead(Line), e)
      BY <1>1, <2>1, <3>3, <3>4, <3>5, MapPost, Zenon
    <3>6. CASE Ahead(Append(Line, e)) = Ahead(Line)
      BY <1>1, <3>3, <3>4, <3>6, MapSame, Zenon
    <3>7. QED
      BY <3>2, <3>5, <3>6, Zenon
  <2>6. QED
    BY <2>4, <2>5, Zenon
<1>3. CASE ~(Push(p) /\ ~freed)
  <2>1. UNCHANGED container
    BY <1>3, Zenon DEF Producer, ListenToEvent, Deref, Push, SignalPushed
  <2>2. UNCHANGED <<Line, Inbox>>
    BY <1>1, <2>1, Zenon DEF Line, Inbox
  <2>3. QED
    BY <1>1, <2>2, MapSame, Zenon DEF LineInv
<1>4. QED
  BY <1>2, <1>3, Zenon

LEMMA MapDeinit ==
    ASSUME OneWorker, TypeInv, LineInv, Deinit
    PROVE  LineInv' /\ Mapped
<1> USE DEF dequeVars, memberVars, GoDeinit
<1>1. UNCHANGED <<wpc, batch, handled>> /\ dpc' # "run"
  BY Zenon DEF Deinit, DropContainer, ClearDeque, PushNull, SignalNull, SetTerminating,
               SetDequeTerminating, BroadcastDeque, Join
<1>2. ASSUME UNCHANGED Inbox, dpc # "run" PROVE Mapped
  BY <1>1, <1>2, MapSame, Zenon
<1>3. CASE wpc[TheWorker] = "exit"
  <2>1. UNCHANGED Inbox
    BY <1>1, <1>3, Zenon DEF Inbox
  <2>2. LineInv'
    BY <1>1, <1>3, Zenon DEF LineInv
  <2>3. QED
    BY <1>1, <1>2, <2>1, <2>2, MapClose, Zenon
<1>4. CASE wpc[TheWorker] # "exit"
  <2>1. PICK n : IsAhead(Line, n)
    BY <1>4, Zenon DEF LineInv
  <2>2. CASE PushNull
    <3>1. dpc # "run" /\ container' = Append(container, NULL)
      BY <2>2, Zenon DEF PushNull
    <3>2. batch[TheWorker] \o Append(container, NULL) = Append(batch[TheWorker] \o container, NULL)
      <4>1. NULL \in Event \cup {NULL}
        BY Zenon
      <4>2. /\ batch[TheWorker] \in Seq(Event \cup {NULL})
            /\ container \in Seq(Event \cup {NULL})
        BY LineType, Zenon
      <4>3. QED
        BY ONLY <4>1, <4>2, LineAppend, Zenon
    <3>3. Line' = Append(Line, NULL)
      BY <1>1, <3>1, <3>2, Zenon DEF Line
    <3>4. IsAhead(Append(Line, NULL), n) /\ Ahead(Append(Line, NULL)) = Ahead(Line)
      BY <2>1, LineType, AheadNull
    <3>5. LineInv' /\ UNCHANGED Inbox
      BY <1>1, <1>4, <3>3, <3>4, Zenon DEF LineInv, Inbox
    <3>6. QED
      BY <1>2, <3>1, <3>5, Zenon
  <2>3. CASE ClearDeque
    <3>1. dpc # "run" /\ container' = <<>>
      BY <2>3, Zenon DEF ClearDeque
    <3>2. Line' = batch[TheWorker]
      <4>1. batch[TheWorker] \o <<>> = batch[TheWorker]
        BY LineType, LineParts
      <4>2. QED
        BY <1>1, <3>1, <4>1, Zenon DEF Line
    <3>3. \E m \in 0 .. Len(Ahead(Line)) :
              IsAhead(batch[TheWorker], m) /\ Ahead(batch[TheWorker]) = SubSeq(Ahead(Line), 1, m)
      BY <2>1, LineType, AheadCut DEF Line
    <3>4. LineInv'
      BY <1>1, <3>2, <3>3, Zenon DEF LineInv
    <3>5. Inbox = Ahead(Line) /\ Inbox' = Ahead(batch[TheWorker])
      BY <1>1, <1>4, <3>2, Zenon DEF Inbox
    <3>6. QED
      BY <1>1, <3>1, <3>3, <3>4, <3>5, MapDiscard, Zenon
  <2>4. CASE ~PushNull /\ ~ClearDeque
    <3>1. UNCHANGED container
      BY <2>4, Zenon DEF Deinit, DropContainer, SignalNull, SetTerminating,
               SetDequeTerminating, BroadcastDeque, Join
    <3>2. UNCHANGED <<Line, Inbox>>
      BY <1>1, <3>1, Zenon DEF Line, Inbox
    <3>3. LineInv'
      BY <1>1, <3>2, Zenon DEF LineInv
    <3>4. QED
      BY <1>1, <1>2, <3>2, <3>3, MapClose, Zenon
  <2>5. QED
    BY <2>2, <2>3, <2>4, Zenon
<1>5. QED
  BY <1>3, <1>4, Zenon

LEMMA MapInit ==
    ASSUME OneWorker
    PROVE  Init => LineInv /\ M!Init
<1> SUFFICES ASSUME Init PROVE LineInv /\ M!Init
  BY Zenon
<1>1. TheWorker \in Workers
  BY TheWorkerOne, Zenon
<1>2. <<>> \o <<>> = <<>> /\ IsAhead(<<>>, 0) /\ <<>> \in Seq(Event)
  BY DEF IsAhead
<1>3. Line = <<>> /\ wpc[TheWorker] = "top"
  BY <1>1, <1>2, Zenon DEF Line, Init
<1>4. LineInv
  BY <1>2, <1>3, Zenon DEF LineInv, Init
<1>5. Ahead(<<>>) \in Seq(Event) /\ Len(Ahead(<<>>)) = 0
  BY <1>2, AheadIs
<1>6. Ahead(<<>>) = <<>>
  BY <1>5
<1>7. QED
  BY <1>3, <1>4, <1>6, Zenon DEF M!Init, Init, Line

LEMMA MapStep ==
    ASSUME OneWorker
    PROVE  TypeInv /\ WakeInv /\ BatchInv /\ LineInv /\ [Next]_vars => LineInv' /\ Mapped
<1> SUFFICES ASSUME TypeInv, WakeInv, BatchInv, LineInv, [Next]_vars PROVE LineInv' /\ Mapped
  BY Zenon
<1>1. CASE UNCHANGED vars
  BY <1>1, MapSame, Zenon DEF vars, LineInv, Line, Inbox
<1>2. CASE Next
  BY <1>2, MapWorker, MapProducer, MapDeinit, Zenon DEF Next, WakeInv
<1>3. QED
  BY <1>1, <1>2, Zenon

\* Of a listener with one thread: every step of worker(), listenToEvent() and deinit() is a
\* step of the mailbox or leaves it as it is.  So its events reach handleEvent in the order
\* in which push() appended them, none of them twice, and only deinit() discards any.
THEOREM OneThreadIsMailbox ==
    ASSUME OneWorker
    PROVE  Spec => M!Safe
<1>1. Spec => []LineInv
  BY TypeInvariant, WakeInvariant, OnceInvariant, MapInit, MapStep, PTL DEF Spec
<1>2. QED
  BY TypeInvariant, WakeInvariant, OnceInvariant, <1>1, MapInit, MapStep, PTL DEF Spec, M!Safe,
     Mapped
=============================================================================
