----------------------------- MODULE TimerProofs -----------------------------
(***************************************************************************)
(* Proofs about the timer service, for any number of requests, identities  *)
(* and delays.                                                             *)
(***************************************************************************)
EXTENDS Timer, DataLemmas

\* Tasks are created by requests; the worker and mx_nexts hold only tasks that exist.
CountInv ==
    /\ Len(task) <= handled
    /\ hpc \in {"clock", "mark", "insert"} => Len(task) < handled

KnownInv ==
    /\ \A t \in Time : mx_nexts[t] \in Seq(1 .. Len(task))
    /\ batch \in Seq(1 .. Len(task))
    /\ cancelled \subseteq 1 .. Len(task)
    /\ wpc = "rearm" => batch # <<>>

\* The handlers that create a task have a delay of their own.
SetOps == {"SetTimer", "SetAlarm", "ResetAlarm"}
RequestInv ==
    /\ hpc \in {"clock", "insert"} => req.op \in SetOps
    /\ hpc = "mark" => req.op \in {"StopTimer", "StopAlarm", "ResetAlarm"}

TypeInv == TypeOK /\ CountInv /\ KnownInv /\ RequestInv

LEMMA RequestExists == NoRequest \in Request
<1>1. PICK k \in Keys : TRUE
  BY RequestsAssumption, Zenon
<1>2. [op |-> "StopAlarm", key |-> k, delay |-> 0] \in Request
  BY Zenon DEF Request
<1>3. QED
  BY <1>2, Zenon DEF NoRequest

LEMMA EmptySeqs == \A S : <<>> \in Seq(S)
OBVIOUS

LEMMA SeqOfFewer ==
    ASSUME NEW m \in Nat, NEW n \in Nat, m <= n, NEW s \in Seq(1 .. m)
    PROVE  s \in Seq(1 .. n)
OBVIOUS

LEMMA SeqUpdate ==
    ASSUME NEW S, NEW s \in Seq(S), NEW i \in 1 .. Len(s), NEW r \in S
    PROVE  [s EXCEPT ![i] = r] \in Seq(S) /\ Len([s EXCEPT ![i] = r]) = Len(s)
OBVIOUS

LEMMA SeqMake ==
    ASSUME NEW S, NEW n \in Nat, NEW f \in [1 .. n -> S]
    PROVE  f \in Seq(S) /\ Len(f) = n
OBVIOUS

\* A due time stays on the calendar.
LEMMA DelayFits ==
    ASSUME NEW t \in 0 .. MaxTime, NEW d \in Delays \cup Periods
    PROVE  t + d \in Time
BY BoundsAssumption, HorizonAssumption, DelaysAssumption DEF Time

LEMMA TypeInit == Init => TypeInv
<1> SUFFICES ASSUME Init PROVE TypeInv
  BY Zenon
<1> USE DEF Init
<1>1. now \in 0 .. MaxTime /\ deadline \in Time /\ tb \in Time /\ handled \in 0 .. MaxReq
  BY BoundsAssumption DEF Time
<1>2. task \in Seq(Task) /\ batch \in Seq(TaskId) /\ mx_nexts \in [Time -> Seq(TaskId)]
  BY EmptySeqs, Zenon DEF Empty
<1>3. req \in Request
  BY RequestExists, Zenon
<1>4. /\ fired \in [TaskId -> Nat]
      /\ cancelled \subseteq TaskId /\ overlooked \subseteq TaskId /\ abandoned \subseteq TaskId
  BY Zenon
<1>5. TypeOK
  BY <1>1, <1>2, <1>3, <1>4, Zenon DEF TypeOK
<1>6. CountInv /\ RequestInv
  BY DEF CountInv, RequestInv
<1>7. KnownInv
  BY EmptySeqs, Zenon DEF KnownInv, Empty
<1>8. QED
  BY <1>5, <1>6, <1>7, Zenon DEF TypeInv

LEMMA TypeStep == TypeInv /\ [Next]_vars => TypeInv'
<1> SUFFICES ASSUME TypeInv, [Next]_vars PROVE TypeInv'
  BY Zenon
<1> USE DEF TypeInv, TypeOK, CountInv, KnownInv, RequestInv, taskVars, workerVars, handlerVars,
            historyVars, GoWorker, GoHandler, GoDeinit
<1> USE BoundsAssumption
<1>1. CASE ClockTick
  <2>1. now' \in 0 .. MaxTime
    BY <1>1 DEF ClockTick
  <2>2. UNCHANGED <<taskVars, m_isTerminating, workerVars, handlerVars, dpc, historyVars>>
    BY <1>1, Zenon DEF ClockTick
  <2>3. QED
    BY <2>1, <2>2, SMTT(60)
<1>2. CASE OuterLoop
  BY <1>2 DEF OuterLoop
<1>3. CASE Sleep
  BY <1>3, ZenonT(60) DEF Sleep
<1>4. CASE Wake
  BY <1>4 DEF Wake, Time
<1>5. CASE WaitReturns
  <2>1. UNCHANGED <<now, taskVars, m_isTerminating, wpc, deadline, batch, handlerVars, dpc,
                    historyVars>>
        /\ asleep' \in BOOLEAN
    BY <1>5, ZenonT(60) DEF WaitReturns
  <2>2. QED
    BY <2>1, ZenonT(60)
<1>6. CASE InnerLoop
  <2>1. deadline' \in Time /\ batch' \in Seq(1 .. Len(task)) /\ batch' \in Seq(TaskId)
    BY <1>6, Zenon DEF InnerLoop, ItSecondCopy
  <2>2. mx_nexts' \in [Time -> Seq(TaskId)] /\ \A t \in Time : mx_nexts'[t] \in Seq(1 .. Len(task))
    <3>1. CASE mx_nexts' = mx_nexts
      BY <3>1, Zenon
    <3>2. ASSUME NEW t \in Time, mx_nexts' = [mx_nexts EXCEPT ![t] = <<>>]
          PROVE  /\ mx_nexts' \in [Time -> Seq(TaskId)]
                 /\ \A u \in Time : mx_nexts'[u] \in Seq(1 .. Len(task))
      BY <3>2, EmptySeqs, ZenonT(60)
    <3>3. QED
      BY <1>6, <3>1, <3>2, ZenonT(60) DEF InnerLoop
  <2>3. UNCHANGED <<now, task, m_isTerminating, asleep, handlerVars, dpc, historyVars>>
        /\ wpc' \in {"exit", "timedWindow", "batch"}
    BY <1>6, Zenon DEF InnerLoop
  <2>4. QED
    BY <2>1, <2>2, <2>3, SMTT(60)
<1>7. CASE NextTask
  <2>1. UNCHANGED <<now, mx_nexts, m_isTerminating, asleep, deadline, handlerVars, dpc, cancelled,
                    overlooked>>
    BY <1>7, Zenon DEF NextTask
  <2>2. CASE UNCHANGED <<task, batch, fired, abandoned>> /\ wpc' \in {"exit", "inner"}
    BY <2>1, <2>2
  <2>3. CASE batch # <<>> /\ PassTick(Head(batch)) /\ wpc = "batch"
    <3>1. Head(batch) \in 1 .. Len(task) /\ Head(batch) \in TaskId /\ task[Head(batch)] \in Task
      BY <2>3
    <3>2. Range(batch) \subseteq TaskId
      BY DEF Range
    <3>3. task' \in Seq(Task) /\ Len(task') = Len(task)
      <4>1. [task[Head(batch)] EXCEPT !.erased = TRUE] \in Task
        BY <3>1, ZenonT(60) DEF Task
      <4>2. \/ task' = task
            \/ task' = [task EXCEPT ![Head(batch)] = [task[Head(batch)] EXCEPT !.erased = TRUE]]
        BY <2>3, Zenon DEF PassTick
      <4> DEFINE r == [task[Head(batch)] EXCEPT !.erased = TRUE]
      <4>3. task \in Seq(Task)
        BY Zenon
      <4> HIDE DEF r, TypeInv
      <4>4. [task EXCEPT ![Head(batch)] = r] \in Seq(Task)
            /\ Len([task EXCEPT ![Head(batch)] = r]) = Len(task)
        BY ONLY <3>1, <4>1, <4>3, SeqUpdate DEF r
      <4>5. task' = task \/ task' = [task EXCEPT ![Head(batch)] = r]
        BY <4>2, Zenon DEF r
      <4>6. QED
        BY ONLY <4>3, <4>4, <4>5, Zenon
    <3>4. fired' \in [TaskId -> Nat] /\ abandoned' \subseteq TaskId
      <4>1. \/ fired' = fired
            \/ fired' = [fired EXCEPT ![Head(batch)] = fired[Head(batch)] + 1]
        BY <2>3, Zenon DEF PassTick
      <4>2. abandoned' = abandoned \/ abandoned' = abandoned \cup Range(batch)
        BY <2>3, Zenon DEF PassTick
      <4>3. fired \in [TaskId -> Nat] /\ abandoned \subseteq TaskId
        BY Zenon
      <4>4. QED
        BY ONLY <3>1, <3>2, <4>1, <4>2, <4>3
    <3>5. /\ batch' = batch \/ batch' = Tail(batch) \/ batch' = <<>>
          /\ wpc' \in {"batch", "outer", "rearm"} /\ (wpc' = "rearm" => batch' = batch)
      BY <2>3, Zenon DEF PassTick
    <3>6. batch' \in Seq(1 .. Len(task)) /\ batch' \in Seq(TaskId)
      <4>1. batch \in Seq(1 .. Len(task)) /\ batch \in Seq(TaskId) /\ batch # <<>>
        BY <2>3, Zenon
      <4>2. Tail(batch) \in Seq(1 .. Len(task)) /\ Tail(batch) \in Seq(TaskId)
        BY ONLY <4>1
      <4>3. QED
        BY ONLY <3>5, <4>1, <4>2, EmptySeqs, ZenonT(60)
    <3>7. wpc' = "rearm" => batch' # <<>>
      BY ONLY <2>3, <3>5, Zenon
    <3>8. wpc' \in {"batch", "outer", "rearm"}
      BY ONLY <3>5, Zenon
    <3>9. KnownInv'
      BY <2>1, <3>3, <3>6, <3>7, Zenon
    <3>10. CountInv' /\ RequestInv'
      BY <2>1, <3>3, Zenon
    <3>11. TypeOK'
      BY <2>1, <3>3, <3>4, <3>6, <3>8, Zenon
    <3>12. QED
      BY ONLY <3>9, <3>10, <3>11, ZenonT(60) DEF TypeInv
  <2>4. QED
    BY <1>7, <2>2, <2>3, ZenonT(60) DEF NextTask, PassTick
<1>8. CASE Rearm
  <2>1. Head(batch) \in 1 .. Len(task) /\ Head(batch) \in TaskId /\ task[Head(batch)] \in Task
    BY <1>8 DEF Rearm
  <2>2. RearmTime(Head(batch)) \in Time
    BY <2>1, DelayFits, Zenon DEF RearmTime, Task
  <2> DEFINE u == RearmTime(Head(batch))
  <2>3. /\ mx_nexts' \in [Time -> Seq(TaskId)]
        /\ \A t \in Time : mx_nexts'[t] \in Seq(1 .. Len(task))
    <3>1. mx_nexts' = [mx_nexts EXCEPT ![u] = Append(mx_nexts[u], Head(batch))]
      BY <1>8, Zenon DEF Rearm
    <3>2. /\ Append(mx_nexts[u], Head(batch)) \in Seq(TaskId)
          /\ Append(mx_nexts[u], Head(batch)) \in Seq(1 .. Len(task))
      BY <2>1, <2>2
    <3> HIDE DEF u
    <3>3. QED
      BY <3>1, <3>2, ZenonT(60)
  <2>4. task' \in Seq(Task) /\ Len(task') = Len(task)
    <3>1. [task[Head(batch)] EXCEPT !.due = u] \in Task
      BY <2>1, <2>2, ZenonT(60) DEF Task
    <3>2. task' = [task EXCEPT ![Head(batch)] = [task[Head(batch)] EXCEPT !.due = u]]
      BY <1>8, Zenon DEF Rearm
    <3>3. QED
      BY <2>1, <3>1, <3>2, SeqUpdate
  <2>5. batch' \in Seq(1 .. Len(task)) /\ batch' \in Seq(TaskId)
    BY <1>8 DEF Rearm
  <2>6. /\ UNCHANGED <<now, m_isTerminating, asleep, deadline, handlerVars, dpc, historyVars>>
        /\ wpc' = "batch"
    BY <1>8, Zenon DEF Rearm
  <2>7. QED
    BY <2>3, <2>4, <2>5, <2>6, ZenonT(60)
<1>9. CASE OnStartService
  BY <1>9, Zenon DEF OnStartService
<1>10. CASE \E r \in Request : HandleEvent(r)
  <2>1. PICK r \in Request : HandleEvent(r)
    BY <1>10, Zenon
  <2>2. /\ UNCHANGED <<now, taskVars, m_isTerminating, workerVars, tb, dpc, historyVars>>
        /\ handled' = handled + 1 /\ handled < MaxReq /\ req' \in Request
    BY <2>1, RequestExists, Zenon DEF HandleEvent
  <2>3. /\ hpc' \in {"idle", "clock", "mark"}
        /\ hpc' = "clock" => req'.op \in SetOps
        /\ hpc' = "mark" => req'.op \in {"StopTimer", "StopAlarm", "ResetAlarm"}
    <3>1. r.op \in SetOps \cup {"StopTimer", "StopAlarm"}
      BY Zenon DEF Request, SetOps
    <3>2. QED
      BY <2>1, <3>1, Zenon DEF HandleEvent, SetOps
  <2>4. QED
    BY <2>2, <2>3, SMTT(60)
<1>11. CASE MarkErased
  <2>1. task' \in Seq(Task) /\ Len(task') = Len(task)
    <3>1. \A r \in Task : [r EXCEPT !.erased = TRUE] \in Task
      BY ZenonT(60) DEF Task
    <3>2. DOMAIN task = 1 .. Len(task) /\ Len(task) \in Nat /\ \A t \in 1 .. Len(task) : task[t] \in Task
      OBVIOUS
    <3>3. task' \in [1 .. Len(task) -> Task]
      BY <1>11, <3>1, <3>2, Zenon DEF MarkErased
    <3>4. QED
      BY ONLY <3>2, <3>3, SeqMake, Zenon
  <2>2. /\ cancelled' \subseteq 1 .. Len(task) /\ cancelled' \subseteq TaskId
        /\ overlooked' \subseteq TaskId
    <3>1. cancelled' \subseteq 1 .. Len(task) /\ cancelled' \subseteq TaskId
      BY <1>11, SMTT(60) DEF MarkErased, TaskId
    <3>2. Range(batch) \subseteq TaskId
      BY DEF Range
    <3>3. QED
      BY <1>11, <3>1, <3>2, Zenon DEF MarkErased
  <2>3. req' \in Request /\ hpc' \in {"clock", "idle"} /\ (hpc' = "clock" => req'.op \in SetOps)
    BY <1>11, RequestExists, Zenon DEF MarkErased, SetOps
  <2>4. UNCHANGED <<now, mx_nexts, m_isTerminating, workerVars, tb, handled, dpc, fired, abandoned>>
    BY <1>11, Zenon DEF MarkErased
  <2>5. hpc = "mark"
    BY <1>11, Zenon DEF MarkErased
  <2>6. QED
    BY <2>1, <2>2, <2>3, <2>4, <2>5
<1>12. CASE ReadClock
  <2>1. req.delay \in Delays \cup Periods
    BY <1>12, Zenon DEF ReadClock, Request, SetOps
  <2>2. tb' \in Time
    BY <1>12, <2>1, DelayFits, Zenon DEF ReadClock
  <2>3. QED
    BY <1>12, <2>2, ZenonT(60) DEF ReadClock
<1>13. CASE Insert
  <2>1. req.delay \in Delays \cup Periods /\ req.key \in Keys /\ TypeOf(req.op) \in Type
    BY <1>13, Zenon DEF Insert, Request, SetOps, TypeOf, Type
  <2>2. task' \in Seq(Task) /\ Len(task') = Len(task) + 1
    BY <1>13, <2>1 DEF Insert, Task
  <2>3. Len(task) + 1 \in TaskId /\ Len(task) + 1 \in 1 .. Len(task')
    BY <1>13, <2>2 DEF Insert, TaskId
  <2>4. /\ \A t \in Time : mx_nexts[t] \in Seq(1 .. Len(task'))
        /\ batch \in Seq(1 .. Len(task')) /\ cancelled \subseteq 1 .. Len(task')
    BY <2>2, SeqOfFewer
  <2>5. /\ mx_nexts' \in [Time -> Seq(TaskId)]
        /\ \A t \in Time : mx_nexts'[t] \in Seq(1 .. Len(task'))
    <3>1. mx_nexts' = [mx_nexts EXCEPT ![tb] = Append(mx_nexts[tb], Len(task) + 1)]
      BY <1>13, Zenon DEF Insert
    <3>2. tb \in Time /\ mx_nexts \in [Time -> Seq(TaskId)]
      BY Zenon
    <3>3. /\ Append(mx_nexts[tb], Len(task) + 1) \in Seq(TaskId)
          /\ Append(mx_nexts[tb], Len(task) + 1) \in Seq(1 .. Len(task'))
      BY ONLY <2>3, <2>4, <3>2
    <3>4. QED
      BY ONLY <2>4, <3>1, <3>2, <3>3, ZenonT(60)
  <2>6. /\ UNCHANGED <<now, m_isTerminating, workerVars, handled, dpc, historyVars>>
        /\ hpc = "insert" /\ hpc' = "signal" /\ req' = NoRequest /\ tb' = 0
    BY <1>13, Zenon DEF Insert
  <2>7. tb' \in Time /\ req' \in Request
    BY <2>6, RequestExists DEF Time
  <2>8. TypeOK'
    BY <2>2, <2>5, <2>6, <2>7, Zenon
  <2>9. CountInv' /\ RequestInv'
    BY <2>2, <2>6
  <2>10. KnownInv'
    BY <2>4, <2>5, <2>6, Zenon
  <2>11. QED
    BY <2>8, <2>9, <2>10, ZenonT(60)
<1>14. CASE SignalInserted
  BY <1>14, ZenonT(60) DEF SignalInserted
<1>15. CASE SetTerminating
  BY <1>15 DEF SetTerminating
<1>16. CASE ClearNexts
  BY <1>16, EmptySeqs DEF ClearNexts, Empty
<1>17. CASE BroadcastNexts \/ Join
  BY <1>17, ZenonT(60) DEF BroadcastNexts, Join
<1>18. CASE UNCHANGED vars
  BY <1>18 DEF vars
<1>19. QED
  BY <1>1, <1>2, <1>3, <1>4, <1>5, <1>6, <1>7, <1>8, <1>9, <1>10, <1>11, <1>12, <1>13, <1>14,
     <1>15, <1>16, <1>17, <1>18, ZenonT(60) DEF Next, Worker, Handler, Deinit

LEMMA TypeInvariant == Spec => []TypeInv
BY TypeInit, TypeStep, PTL DEF Spec

\* The state of the timer service keeps its type: every task id in mx_nexts and in the
\* worker's batch is one that a request has created, and every due time is on the calendar.
THEOREM TypeCorrect == Spec => []TypeOK
<1>1. TypeInv => TypeOK
  BY Zenon DEF TypeInv
<1>2. QED
  BY TypeInvariant, <1>1, PTL
-----------------------------------------------------------------------------
(* An alarm ticks at most once.                                            *)

\* A task that does not exist has not ticked; an alarm that has ticked is marked.
TickedInv ==
    /\ \A t \in TaskId : t > Len(task) => fired[t] = 0
    /\ \A t \in DOMAIN task :
          task[t].type = "TYPE_ALARM" => \/ fired[t] = 0
                                         \/ fired[t] = 1 /\ task[t].erased

LEMMA DomainOfTasks == TypeInv => DOMAIN task = 1 .. Len(task) /\ DOMAIN task \subseteq TaskId
<1> SUFFICES ASSUME TypeInv PROVE DOMAIN task = 1 .. Len(task) /\ DOMAIN task \subseteq TaskId
  BY Zenon
<1>1. task \in Seq(Task) /\ Len(task) <= handled /\ handled \in 0 .. MaxReq
  BY Zenon DEF TypeInv, TypeOK, CountInv
<1>2. QED
  BY <1>1, BoundsAssumption DEF TaskId

LEMMA TickedSame ==
    ASSUME TickedInv, UNCHANGED <<task, fired>>
    PROVE  TickedInv'
BY Zenon DEF TickedInv

LEMMA TickedPass ==
    ASSUME TypeInv, TickedInv, batch # <<>>, PassTick(Head(batch))
    PROVE  TickedInv'
<1> DEFINE t == Head(batch)
<1>1. /\ t \in 1 .. Len(task) /\ t \in TaskId /\ task \in Seq(Task) /\ fired \in [TaskId -> Nat]
      /\ DOMAIN task = 1 .. Len(task)
  BY DEF TypeInv, TypeOK, KnownInv
<1>2. CASE UNCHANGED <<task, fired>>
  BY <1>2, TickedSame, Zenon
<1>3. CASE fired' = [fired EXCEPT ![t] = @ + 1] /\ ~task[t].erased /\ IsTimer(t) /\ task' = task
  BY <1>1, <1>3 DEF TickedInv, IsTimer
<1>4. CASE /\ fired' = [fired EXCEPT ![t] = @ + 1] /\ ~task[t].erased
           /\ task' = [task EXCEPT ![t].erased = TRUE]
  <2>1. DOMAIN task' = DOMAIN task /\ Len(task') = Len(task)
    BY <1>1, <1>4
  <2>2. task'[t].erased /\ task'[t].type = task[t].type
    BY <1>1, <1>4 DEF Task
  <2>3. \A u \in DOMAIN task : u # t => task'[u] = task[u] /\ fired'[u] = fired[u]
    BY <1>1, <1>4
  <2>4. task[t].type = "TYPE_ALARM" => fired'[t] = 1
    BY <1>1, <1>4 DEF TickedInv
  <2>5. QED
    BY <1>1, <1>4, <2>1, <2>2, <2>3, <2>4 DEF TickedInv
<1>5. \/ UNCHANGED <<task, fired>>
      \/ /\ fired' = [fired EXCEPT ![t] = @ + 1] /\ ~task[t].erased
         /\ \/ IsTimer(t) /\ task' = task
            \/ task' = [task EXCEPT ![t].erased = TRUE]
  BY Zenon DEF PassTick, Skips
<1> HIDE DEF t
<1>6. QED
  BY <1>2, <1>3, <1>4, <1>5, Zenon

LEMMA TickedStep == TypeInv /\ TickedInv /\ [Next]_vars => TickedInv'
<1> SUFFICES ASSUME TypeInv, TickedInv, [Next]_vars PROVE TickedInv'
  BY Zenon
<1> USE DEF taskVars, workerVars, handlerVars, historyVars
<1>1. CASE NextTask
  BY <1>1, TickedPass, TickedSame, Zenon DEF NextTask
<1>2. CASE Rearm
  <2>1. /\ Head(batch) \in 1 .. Len(task) /\ task \in Seq(Task) /\ DOMAIN task = 1 .. Len(task)
        /\ fired' = fired
    BY <1>2 DEF Rearm, GoWorker, TypeInv, TypeOK, KnownInv
  <2>2. DOMAIN task' = DOMAIN task /\ Len(task') = Len(task)
    BY <1>2, <2>1 DEF Rearm
  <2>3. \A u \in DOMAIN task : task'[u].type = task[u].type /\ task'[u].erased = task[u].erased
    BY <1>2, <2>1 DEF Rearm, Task
  <2>4. QED
    BY <2>1, <2>2, <2>3, Zenon DEF TickedInv
<1>3. CASE MarkErased
  <2>1. DOMAIN task = 1 .. Len(task) /\ task \in Seq(Task) /\ fired' = fired
    BY <1>3 DEF MarkErased, TypeInv, TypeOK
  <2>2. DOMAIN task' = DOMAIN task /\ Len(task') = Len(task)
    BY <1>3, <2>1, SeqMake DEF MarkErased
  <2>3. \A u \in DOMAIN task : /\ task'[u].type = task[u].type
                               /\ task[u].erased => task'[u].erased
    BY <1>3, <2>1 DEF MarkErased, Task
  <2>4. QED
    BY <2>1, <2>2, <2>3, Zenon DEF TickedInv
<1>4. CASE Insert
  <2>1. /\ task \in Seq(Task) /\ DOMAIN task = 1 .. Len(task) /\ fired' = fired
        /\ Len(task) + 1 \in TaskId /\ Len(task) \in Nat
    <3>1. task \in Seq(Task) /\ Len(task) < handled /\ handled \in 0 .. MaxReq /\ fired' = fired
      BY <1>4, Zenon DEF Insert, GoHandler, TypeInv, TypeOK, CountInv
    <3>2. QED
      BY <3>1, BoundsAssumption DEF TaskId
  <2>2. /\ DOMAIN task' = 1 .. (Len(task) + 1) /\ Len(task') = Len(task) + 1
        /\ \A u \in DOMAIN task : task'[u] = task[u]
    BY <1>4, <2>1 DEF Insert
  <2>3. fired[Len(task) + 1] = 0
    BY <2>1 DEF TickedInv
  <2>4. QED
    BY <2>1, <2>2, <2>3 DEF TickedInv, TaskId
<1>5. CASE UNCHANGED <<task, fired>>
  BY <1>5, TickedSame, Zenon
<1>6. QED
  BY <1>1, <1>2, <1>3, <1>4, <1>5, Zenon DEF Next, vars, Worker, Handler, Deinit, ClockTick,
     OuterLoop,
     Sleep, Wake, WaitReturns, InnerLoop, OnStartService, HandleEvent, ReadClock, SignalInserted,
     SetTerminating, ClearNexts, BroadcastNexts, Join

\* Whatever requests, ticks and deinit() race with each other, the worker passes the
\* tick of an alarm at most once.
THEOREM AlarmTicksOnce == Spec => []AlarmOnce
<1>1. Init => TickedInv
  BY DEF Init, TickedInv
<1>2. TickedInv => AlarmOnce
  BY SMTT(60) DEF TickedInv, AlarmOnce
<1>3. QED
  BY <1>1, <1>2, TypeInvariant, TickedStep, PTL DEF Spec
-----------------------------------------------------------------------------
(* Where the tasks are: no task is armed twice or lost, or due later than  *)
(* the worker takes it to be.                                              *)

\* A task is in one place; a deque of mx_nexts holds what is due then, the worker what
\* is due by now, and nothing outside the loop over itSecondCopy.
PlaceInv ==
    /\ Single(Queue, Places)
    /\ \A u \in Time : \A i \in DOMAIN mx_nexts[u] : task[mx_nexts[u][i]].due = u
    /\ \A i \in DOMAIN batch : task[batch[i]].due <= now
    /\ wpc \notin {"batch", "rearm", "exit"} => batch = <<>>

KeptInv ==
    dpc = "run" => \A t \in DOMAIN task \ abandoned : task[t].erased \/ In(Queue, Places, t)

WorkerPlace == Horizon + 1
QueueOf(m, b) == [p \in Places |-> IF p \in Time THEN m[p] ELSE b]

LEMMA PlaceFacts ==
    /\ WorkerPlace \in Places /\ WorkerPlace \notin Time
    /\ Time \subseteq Places /\ \A p \in Places : p \in Time \/ p = WorkerPlace
BY BoundsAssumption DEF WorkerPlace, Places, Time

LEMMA QueueFacts ==
    ASSUME NEW m \in [Time -> Seq(TaskId)], NEW b \in Seq(TaskId)
    PROVE  /\ QueueOf(m, b) \in [Places -> Seq(TaskId)]
           /\ \A u \in Time : QueueOf(m, b)[u] = m[u]
           /\ QueueOf(m, b)[WorkerPlace] = b
BY PlaceFacts, Zenon DEF QueueOf

LEMMA QueueNow ==
    ASSUME TypeInv
    PROVE  /\ Queue \in [Places -> Seq(TaskId)]
           /\ \A u \in Time : Queue[u] = mx_nexts[u]
           /\ Queue[WorkerPlace] = batch
<1>1. Queue = QueueOf(mx_nexts, batch)
  BY Zenon DEF Queue, QueueOf
<1>2. mx_nexts \in [Time -> Seq(TaskId)] /\ batch \in Seq(TaskId)
  BY Zenon DEF TypeInv, TypeOK
<1>3. QED
  BY <1>1, <1>2, QueueFacts, Zenon

LEMMA QueueNext ==
    ASSUME TypeInv'
    PROVE  /\ Queue' \in [Places -> Seq(TaskId)]
           /\ \A u \in Time : Queue'[u] = mx_nexts'[u]
           /\ Queue'[WorkerPlace] = batch'
<1>1. Queue' = QueueOf(mx_nexts', batch')
  BY Zenon DEF Queue, QueueOf
<1>2. mx_nexts' \in [Time -> Seq(TaskId)] /\ batch' \in Seq(TaskId)
  BY Zenon DEF TypeInv, TypeOK
<1>3. QED
  BY <1>1, <1>2, QueueFacts, Zenon

LEMMA QueueSame ==
    ASSUME UNCHANGED <<mx_nexts, batch>>
    PROVE  Queue' = Queue
BY Zenon DEF Queue

\* What the queues hold are tasks.
LEMMA QueuedTasks ==
    ASSUME TypeInv
    PROVE  /\ \A u \in Time : \A i \in DOMAIN mx_nexts[u] : mx_nexts[u][i] \in DOMAIN task
           /\ \A i \in DOMAIN batch : batch[i] \in DOMAIN task
           /\ \A p : In(Queue, Places, p) => p \in DOMAIN task
           /\ \A t \in DOMAIN task : task[t].due \in Nat
<1>1. DOMAIN task = 1 .. Len(task)
  BY DomainOfTasks, Zenon
<1>2. \A S : \A s \in Seq(S) : \A i \in DOMAIN s : s[i] \in S
  OBVIOUS
<1>3. (\A u \in Time : mx_nexts[u] \in Seq(DOMAIN task)) /\ batch \in Seq(DOMAIN task)
  BY <1>1, Zenon DEF TypeInv, KnownInv
<1>4. \A u \in Time : \A i \in DOMAIN mx_nexts[u] : mx_nexts[u][i] \in DOMAIN task
  BY <1>2, <1>3, Zenon
<1>5. \A i \in DOMAIN batch : batch[i] \in DOMAIN task
  BY <1>2, <1>3, Zenon
<1>6. \A t \in DOMAIN task : task[t].due \in Nat
  <2>1. \A t \in DOMAIN task : task[t] \in Task
    BY <1>2, Zenon DEF TypeInv, TypeOK
  <2>2. \A r \in Task : r.due \in Nat
    BY DEF Task, Time
  <2>3. QED
    BY <2>1, <2>2, Zenon
<1>7. \A p : In(Queue, Places, p) => p \in DOMAIN task
  <2> SUFFICES ASSUME NEW p, NEW x \in Places, NEW i \in DOMAIN Queue[x], Queue[x][i] = p
               PROVE  p \in DOMAIN task
    BY Zenon DEF In
  <2>1. CASE x \in Time
    BY <1>4, <2>1, QueueNow, Zenon
  <2>2. CASE x = WorkerPlace
    BY <1>5, <2>2, QueueNow, Zenon
  <2>3. QED
    BY <2>1, <2>2, PlaceFacts, Zenon
<1>8. QED
  BY <1>4, <1>5, <1>6, <1>7, Zenon

\* A step that moves no task and leaves due times alone.
LEMMA PlaceSame ==
    ASSUME TypeInv, PlaceInv, UNCHANGED <<mx_nexts, batch>>,
           \A t \in DOMAIN task : task'[t].due = task[t].due,
           now \in Nat, now' \in Nat, now <= now',
           wpc' \notin {"batch", "rearm", "exit"} => batch = <<>>
    PROVE  PlaceInv'
<1>1. Single(Queue, Places)'
  BY QueueSame, Zenon DEF PlaceInv
<1>2. (\A u \in Time : \A i \in DOMAIN mx_nexts[u] : task[mx_nexts[u][i]].due = u)'
  BY QueuedTasks, Zenon DEF PlaceInv
<1>3. ASSUME NEW i \in DOMAIN batch PROVE task'[batch[i]].due <= now'
  <2>1. task'[batch[i]].due = task[batch[i]].due /\ task[batch[i]].due \in Nat
    BY <1>3, QueuedTasks, Zenon
  <2>2. task[batch[i]].due <= now
    BY Zenon DEF PlaceInv
  <2>3. QED
    BY ONLY <2>1, <2>2, now \in Nat, now' \in Nat, now <= now'
<1>4. QED
  BY <1>1, <1>2, <1>3, Zenon DEF PlaceInv

\* The worker takes the deque of a due time.
LEMMA PlaceTaken ==
    ASSUME TypeInv, TypeInv', PlaceInv, NEW t \in Time, now >= t, batch = <<>>,
           batch' = mx_nexts[t], mx_nexts' = [mx_nexts EXCEPT ![t] = <<>>],
           UNCHANGED <<task, now>>, wpc' = "batch"
    PROVE  PlaceInv' /\ \A p : In(Queue', Places, p) <=> In(Queue, Places, p)
<1>1. /\ Queue \in [Places -> Seq(TaskId)] /\ Queue' \in [Places -> Seq(TaskId)]
      /\ t \in Places /\ WorkerPlace \in Places /\ t # WorkerPlace
      /\ Queue[WorkerPlace] = <<>> /\ Queue'[WorkerPlace] = Queue[t]
  BY QueueNow, QueueNext, PlaceFacts, Zenon
<1>2. mx_nexts'[t] = <<>> /\ \A u \in Time \ {t} : mx_nexts'[u] = mx_nexts[u]
  BY Zenon DEF TypeInv, TypeOK
<1>3. Queue'[t] = <<>> /\ \A z \in Places \ {t, WorkerPlace} : Queue'[z] = Queue[z]
  BY <1>2, QueueNow, QueueNext, PlaceFacts, Zenon
<1>4. /\ Single(Queue, Places) => Single(Queue', Places)
      /\ \A p : In(Queue', Places, p) <=> In(Queue, Places, p)
  BY ONLY <1>1, <1>3, MoveAll, ZenonT(60)
<1>5. \A u \in Time : \A i \in DOMAIN mx_nexts'[u] : mx_nexts'[u] = mx_nexts[u]
  <2>1. DOMAIN <<>> = {}
    OBVIOUS
  <2>2. QED
    BY <1>2, <2>1, Zenon
<1>6. \A u \in Time : \A i \in DOMAIN mx_nexts'[u] : task'[mx_nexts'[u][i]].due = u
  BY <1>5, Zenon DEF PlaceInv
<1>7. \A i \in DOMAIN batch' : task'[batch'[i]].due <= now'
  <2>1. \A i \in DOMAIN batch' : task'[batch'[i]].due = t
    BY Zenon DEF PlaceInv
  <2>2. t <= now'
    BY DEF Time, TypeInv, TypeOK
  <2>3. QED
    BY ONLY <2>1, <2>2, Zenon
<1>8. QED
  BY <1>4, <1>6, <1>7, Zenon DEF PlaceInv

\* The worker is through with the first task of its batch.
LEMMA PlaceDropped ==
    ASSUME TypeInv, TypeInv', PlaceInv, batch # <<>>, batch' = Tail(batch),
           \A t \in DOMAIN task : task'[t].due = task[t].due,
           UNCHANGED <<mx_nexts, now>>, wpc' = "batch"
    PROVE  /\ PlaceInv'
           /\ \A p : In(Queue, Places, p) => In(Queue', Places, p) \/ p = Head(batch)
           /\ \A p : In(Queue', Places, p) => In(Queue, Places, p)
<1>1. /\ Queue \in [Places -> Seq(TaskId)] /\ Queue' \in [Places -> Seq(TaskId)]
      /\ WorkerPlace \in Places /\ Queue[WorkerPlace] = batch /\ Queue'[WorkerPlace] = Tail(batch)
  BY QueueNow, QueueNext, PlaceFacts, Zenon
<1>2. \A z \in Places \ {WorkerPlace} : Queue'[z] = Queue[z]
  BY QueueNow, QueueNext, PlaceFacts, Zenon
<1>3. /\ Single(Queue, Places) => Single(Queue', Places)
      /\ \A p : In(Queue', Places, p) => In(Queue, Places, p)
      /\ \A p : In(Queue, Places, p) => In(Queue', Places, p) \/ p = Head(batch)
  <2>1. Queue[WorkerPlace] # <<>> /\ Queue'[WorkerPlace] = Tail(Queue[WorkerPlace])
    BY <1>1, Zenon
  <2>2. /\ Single(Queue, Places) => Single(Queue', Places)
        /\ \A p : In(Queue', Places, p) => In(Queue, Places, p)
        /\ \A p : In(Queue, Places, p) => In(Queue', Places, p) \/ p = Head(Queue[WorkerPlace])
    BY ONLY <1>1, <1>2, <2>1, DropHead, ZenonT(60)
  <2>3. QED
    BY <1>1, <2>2, Zenon
<1>4. \A u \in Time : \A i \in DOMAIN mx_nexts'[u] : task'[mx_nexts'[u][i]].due = u
  BY QueuedTasks, Zenon DEF PlaceInv
<1>5. \A i \in DOMAIN batch' : i + 1 \in DOMAIN batch /\ batch'[i] = batch[i + 1]
  BY DEF TypeInv, TypeOK
<1>6. \A i \in DOMAIN batch' : task'[batch'[i]].due <= now'
  <2>1. \A i \in DOMAIN batch : batch[i] \in DOMAIN task /\ task[batch[i]].due <= now
    BY QueuedTasks, Zenon DEF PlaceInv
  <2>2. QED
    BY <1>5, <2>1, ZenonT(60)
<1>7. QED
  BY <1>3, <1>4, <1>6, Zenon DEF PlaceInv

\* Deques, or what is left of the batch, are dropped.
LEMMA PlaceEmptied ==
    ASSUME TypeInv, TypeInv', PlaceInv, batch' = batch \/ batch' = <<>>,
           \A u \in Time : mx_nexts'[u] = mx_nexts[u] \/ mx_nexts'[u] = <<>>,
           UNCHANGED <<task, now>>, wpc' \notin {"batch", "rearm", "exit"} => batch' = <<>>
    PROVE  PlaceInv' /\ \A p : In(Queue', Places, p) => In(Queue, Places, p)
<1>1. /\ Queue \in [Places -> Seq(TaskId)] /\ Queue' \in [Places -> Seq(TaskId)]
      /\ \A z \in Places : Queue'[z] = Queue[z] \/ Queue'[z] = <<>>
  BY QueueNow, QueueNext, PlaceFacts, Zenon
<1>2. /\ Single(Queue, Places) => Single(Queue', Places)
      /\ \A p : In(Queue', Places, p) => In(Queue, Places, p)
  BY ONLY <1>1, DropAll, ZenonT(60)
<1>3. DOMAIN <<>> = {}
  OBVIOUS
<1>4. \A u \in Time : \A i \in DOMAIN mx_nexts'[u] : task'[mx_nexts'[u][i]].due = u
  BY <1>3, Zenon DEF PlaceInv
<1>5. \A i \in DOMAIN batch' : task'[batch'[i]].due <= now'
  BY <1>3, Zenon DEF PlaceInv
<1>6. QED
  BY <1>2, <1>4, <1>5, Zenon DEF PlaceInv

\* A timer goes from the batch to the deque of its next due time.
LEMMA PlaceRearmed ==
    ASSUME TypeInv, TypeInv', PlaceInv, batch # <<>>, batch' = Tail(batch), NEW u \in Time,
           mx_nexts' = [mx_nexts EXCEPT ![u] = Append(mx_nexts[u], Head(batch))],
           task' = [task EXCEPT ![Head(batch)] = [task[Head(batch)] EXCEPT !.due = u]],
           now' = now, wpc' = "batch"
    PROVE  PlaceInv' /\ \A p : In(Queue', Places, p) <=> In(Queue, Places, p)
<1> DEFINE t == Head(batch)
<1>1. /\ Queue \in [Places -> Seq(TaskId)] /\ Queue' \in [Places -> Seq(TaskId)]
      /\ u \in Places /\ WorkerPlace \in Places /\ WorkerPlace # u
      /\ Queue[WorkerPlace] = batch /\ Queue'[WorkerPlace] = Tail(batch)
  BY QueueNow, QueueNext, PlaceFacts, Zenon
<1>2. /\ mx_nexts'[u] = Append(mx_nexts[u], t)
      /\ \A w \in Time \ {u} : mx_nexts'[w] = mx_nexts[w]
  BY Zenon DEF TypeInv, TypeOK
<1>3. /\ Queue'[u] = Append(Queue[u], t)
      /\ \A z \in Places \ {WorkerPlace, u} : Queue'[z] = Queue[z]
  BY <1>2, QueueNow, QueueNext, PlaceFacts, Zenon
<1>4. /\ Single(Queue, Places) => Single(Queue', Places)
      /\ \A p : In(Queue', Places, p) <=> In(Queue, Places, p)
  <2>1. /\ Queue[WorkerPlace] # <<>> /\ Queue'[WorkerPlace] = Tail(Queue[WorkerPlace])
        /\ Queue'[u] = Append(Queue[u], Head(Queue[WorkerPlace]))
    BY <1>1, <1>3, Zenon
  <2>2. QED
    BY ONLY <1>1, <1>3, <2>1, MoveHead, ZenonT(60)
<1>5. batch \in Seq(TaskId) /\ 1 \in DOMAIN batch /\ batch[1] = t
  BY DEF TypeInv, TypeOK
<1>6. \A x \in Places : \A i \in DOMAIN Queue[x] : (x = WorkerPlace /\ i = 1) \/ Queue[x][i] # t
  <2> SUFFICES ASSUME NEW x \in Places, NEW i \in DOMAIN Queue[x], Queue[x][i] = t
               PROVE  x = WorkerPlace /\ i = 1
    BY Zenon
  <2>1. 1 \in DOMAIN Queue[WorkerPlace] /\ Queue[WorkerPlace][1] = t
    BY <1>1, <1>5, Zenon
  <2>2. Single(Queue, Places)
    BY Zenon DEF PlaceInv
  <2> HIDE DEF t
  <2>3. QED
    BY ONLY <1>1, <2>1, <2>2, x \in Places, i \in DOMAIN Queue[x], Queue[x][i] = t DEF Single
<1>7. t \in DOMAIN task /\ task[t] \in Task
  <2>1. t \in DOMAIN task
    BY <1>5, QueuedTasks, Zenon
  <2>2. task \in Seq(Task)
    BY Zenon DEF TypeInv, TypeOK
  <2>3. QED
    BY ONLY <2>1, <2>2
<1>8. task'[t].due = u /\ \A v \in DOMAIN task \ {t} : task'[v] = task[v]
  BY <1>7, Zenon DEF Task
<1> HIDE DEF t
<1>9. ASSUME NEW w \in Time, NEW i \in DOMAIN mx_nexts'[w]
      PROVE  task'[mx_nexts'[w][i]].due = w
  <2>1. CASE i \in DOMAIN mx_nexts[w] /\ mx_nexts'[w][i] = mx_nexts[w][i]
    <3>1. mx_nexts[w][i] # t
      BY <1>6, <2>1, PlaceFacts, QueueNow, Zenon
    <3>2. task'[mx_nexts[w][i]] = task[mx_nexts[w][i]]
      BY <1>8, <2>1, <3>1, QueuedTasks, Zenon
    <3>3. QED
      BY <2>1, <3>2, ZenonT(60) DEF PlaceInv
  <2>2. CASE w = u /\ mx_nexts'[w][i] = t
    BY <1>8, <2>2, Zenon
  <2>3. mx_nexts[u] \in Seq(TaskId)
    BY Zenon DEF TypeInv, TypeOK
  <2>4. \A j \in DOMAIN Append(mx_nexts[u], t) :
          \/ Append(mx_nexts[u], t)[j] = t
          \/ j \in DOMAIN mx_nexts[u] /\ Append(mx_nexts[u], t)[j] = mx_nexts[u][j]
    BY ONLY <2>3
  <2>5. QED
    BY <1>2, <1>9, <2>1, <2>2, <2>4, Zenon
<1>10. ASSUME NEW i \in DOMAIN batch' PROVE task'[batch'[i]].due <= now'
  <2>1. i + 1 \in DOMAIN batch /\ batch'[i] = batch[i + 1] /\ i + 1 # 1
    BY <1>5, <1>10
  <2>2. batch[i + 1] # t
    BY <1>1, <1>6, <2>1, Zenon
  <2>3. task'[batch[i + 1]] = task[batch[i + 1]]
    BY <1>8, <2>1, <2>2, QueuedTasks, Zenon
  <2>4. QED
    BY <2>1, <2>3, Zenon DEF PlaceInv
<1>11. QED
  BY <1>4, <1>9, <1>10, Zenon DEF PlaceInv

\* A request arms a new task.
LEMMA PlaceInserted ==
    ASSUME TypeInv, TypeInv', PlaceInv, NEW u \in Time, NEW r, r.due = u,
           task' = Append(task, r),
           mx_nexts' = [mx_nexts EXCEPT ![u] = Append(mx_nexts[u], Len(task) + 1)],
           UNCHANGED <<batch, now, wpc>>
    PROVE  PlaceInv' /\ \A p : In(Queue', Places, p) <=> In(Queue, Places, p) \/ p = Len(task) + 1
<1> DEFINE t == Len(task) + 1
<1>1. Queue \in [Places -> Seq(TaskId)] /\ Queue' \in [Places -> Seq(TaskId)] /\ u \in Places
  BY QueueNow, QueueNext, PlaceFacts, Zenon
<1>2. /\ mx_nexts'[u] = Append(mx_nexts[u], t)
      /\ \A w \in Time \ {u} : mx_nexts'[w] = mx_nexts[w]
  BY Zenon DEF TypeInv, TypeOK
<1>3. Puts(Queue, Queue', Places, u, t)
  BY <1>2, QueueNow, QueueNext, PlaceFacts, Zenon DEF Puts
<1>4. task \in Seq(Task) /\ t \notin DOMAIN task
  BY DEF TypeInv, TypeOK
<1>5. ~In(Queue, Places, t)
  BY <1>4, QueuedTasks, Zenon
<1>6. task'[t] = r /\ \A v \in DOMAIN task : task'[v] = task[v]
  BY <1>4
<1> HIDE DEF t
<1>7. /\ Single(Queue, Places) => Single(Queue', Places)
      /\ \A p : In(Queue', Places, p) <=> In(Queue, Places, p) \/ p = t
  BY ONLY <1>1, <1>3, <1>5, AppendNew, ZenonT(60)
<1>8. ASSUME NEW w \in Time, NEW i \in DOMAIN mx_nexts'[w]
      PROVE  task'[mx_nexts'[w][i]].due = w
  <2>1. CASE i \in DOMAIN mx_nexts[w] /\ mx_nexts'[w][i] = mx_nexts[w][i]
    BY <1>6, <2>1, QueuedTasks, ZenonT(60) DEF PlaceInv
  <2>2. CASE w = u /\ mx_nexts'[w][i] = t
    BY <1>6, <2>2, Zenon
  <2>3. mx_nexts[u] \in Seq(TaskId)
    BY Zenon DEF TypeInv, TypeOK
  <2>4. \A j \in DOMAIN Append(mx_nexts[u], t) :
          \/ Append(mx_nexts[u], t)[j] = t
          \/ j \in DOMAIN mx_nexts[u] /\ Append(mx_nexts[u], t)[j] = mx_nexts[u][j]
    BY ONLY <2>3
  <2>5. QED
    BY <1>2, <1>8, <2>1, <2>2, <2>4, Zenon
<1>9. \A i \in DOMAIN batch : task'[batch[i]].due <= now
  BY <1>6, QueuedTasks, Zenon DEF PlaceInv
<1>10. QED
  BY <1>7, <1>8, <1>9, Zenon DEF PlaceInv, t

\* A step that creates no task keeps every task that it neither marks nor forgets.
LEMMA KeptSame ==
    ASSUME KeptInv, dpc' = "run" => dpc = "run", DOMAIN task' = DOMAIN task,
           \A t \in DOMAIN task : task[t].erased => task'[t].erased,
           abandoned \subseteq abandoned',
           \A p : In(Queue, Places, p) =>
                     In(Queue', Places, p) \/ p \in abandoned' \/ task'[p].erased
    PROVE  KeptInv'
BY Zenon DEF KeptInv

LEMMA PlaceStep ==
    ASSUME TypeInv, TypeInv', PlaceInv, KeptInv, [Next]_vars
    PROVE  PlaceInv' /\ KeptInv'
<1> USE DEF taskVars, workerVars, handlerVars, historyVars, GoWorker, GoHandler, GoDeinit
<1>1. now \in Nat /\ now' \in Nat
  BY DEF TypeInv, TypeOK
<1>2. ASSUME UNCHANGED <<task, mx_nexts, batch, abandoned>>, now <= now', dpc' = "run" => dpc = "run",
             wpc' \notin {"batch", "rearm", "exit"} => batch = <<>>
      PROVE  PlaceInv' /\ KeptInv'
  <2>1. PlaceInv'
    BY <1>1, <1>2, PlaceSame, Zenon
  <2>2. \A p : In(Queue, Places, p) => In(Queue', Places, p)
    BY <1>2, QueueSame, Zenon
  <2>3. QED
    BY <1>2, <2>1, <2>2, KeptSame, Zenon
<1>3. now <= now
  BY <1>1
<1>4. CASE ClockTick
  <2>1. now <= now'
    BY <1>1, <1>4 DEF ClockTick
  <2>2. QED
    BY <1>2, <1>4, <2>1, Zenon DEF ClockTick, PlaceInv
<1>5. CASE OuterLoop \/ Sleep \/ Wake \/ WaitReturns \/ OnStartService
  <2>1. /\ UNCHANGED <<task, mx_nexts, batch, abandoned, now, dpc>>
        /\ wpc' \notin {"batch", "rearm", "exit"} => wpc \notin {"batch", "rearm", "exit"}
    BY <1>5, Zenon DEF OuterLoop, Sleep, Wake, WaitReturns, OnStartService
  <2>2. QED
    BY <1>2, <1>3, <2>1, Zenon DEF PlaceInv
<1>6. CASE InnerLoop
  <2>1. CASE UNCHANGED <<mx_nexts, batch>>
    <3>1. UNCHANGED <<task, abandoned, now, dpc>> /\ wpc = "inner"
      BY <1>6, Zenon DEF InnerLoop
    <3>2. batch = <<>>
      BY <3>1, Zenon DEF PlaceInv
    <3>3. QED
      BY <1>2, <1>3, <2>1, <3>1, <3>2, Zenon
  <2>2. CASE ~UNCHANGED <<mx_nexts, batch>>
    <3>1. PICK t \in Time : /\ now >= t /\ batch' = mx_nexts[t]
                            /\ mx_nexts' = [mx_nexts EXCEPT ![t] = <<>>]
                            /\ wpc = "inner" /\ wpc' = "batch"
      BY <1>6, <2>2, Zenon DEF InnerLoop, Due, ItSecondCopy
    <3>2. UNCHANGED <<task, abandoned, now, dpc>>
      BY <1>6, Zenon DEF InnerLoop
    <3>3. batch = <<>>
      BY <3>1, Zenon DEF PlaceInv
    <3>4. PlaceInv' /\ \A p : In(Queue', Places, p) <=> In(Queue, Places, p)
      BY <3>1, <3>2, <3>3, PlaceTaken, Zenon
    <3>5. QED
      BY <3>2, <3>4, KeptSame, Zenon
  <2>3. QED
    BY <2>1, <2>2, Zenon
<1>7. CASE NextTask
  <2>1. UNCHANGED <<now, mx_nexts, dpc>> /\ wpc = "batch"
    BY <1>7, Zenon DEF NextTask, PassTick
  <2>2. CASE UNCHANGED <<task, batch, fired, abandoned>> /\ (wpc' = "exit" \/ batch = <<>>)
    BY <1>2, <1>3, <2>1, <2>2, Zenon
  <2>3. CASE batch # <<>> /\ PassTick(Head(batch))
    <3> DEFINE t == Head(batch)
    <3>1. t \in DOMAIN task /\ task \in Seq(Task) /\ task[t] \in Task
      <4>1. batch \in Seq(1 .. Len(task)) /\ task \in Seq(Task)
        BY Zenon DEF TypeInv, TypeOK, KnownInv
      <4>2. QED
        BY <2>3, <4>1
    <3>2. CASE Skips(t) /\ wpc' = "batch" /\ batch' = Tail(batch) /\ UNCHANGED <<task, fired, abandoned>>
      <4>1. PlaceInv' /\ \A p : In(Queue, Places, p) => In(Queue', Places, p) \/ p = t
        BY <2>1, <2>3, <3>2, PlaceDropped, Zenon
      <4>2. task'[t].erased
        BY <3>2, Zenon DEF Skips
      <4>3. QED
        BY <2>1, <3>2, <4>1, <4>2, KeptSame, Zenon
    <3>3. CASE /\ wpc' = "outer" /\ batch' = <<>> /\ abandoned' = abandoned \cup Range(batch)
               /\ UNCHANGED <<task, fired>>
      <4>1. PlaceInv'
        BY <2>1, <3>3, PlaceEmptied, Zenon
      <4>2. ASSUME NEW p, In(Queue, Places, p) PROVE In(Queue', Places, p) \/ p \in Range(batch)
        <5>1. PICK x \in Places : \E i \in DOMAIN Queue[x] : Queue[x][i] = p
          BY <4>2, Zenon DEF In
        <5>2. CASE x \in Time
          <6>1. Queue'[x] = Queue[x]
            BY <2>1, <5>2, QueueNow, QueueNext, Zenon
          <6>2. QED
            BY <5>1, <6>1, Zenon DEF In
        <5>3. CASE x = WorkerPlace
          BY <5>1, <5>3, QueueNow, Zenon DEF Range
        <5>4. QED
          BY <5>2, <5>3, PlaceFacts, Zenon
      <4>3. QED
        BY <2>1, <3>3, <4>1, <4>2, KeptSame, Zenon
    <3>4. CASE wpc' = "rearm" /\ UNCHANGED <<task, batch, abandoned>>
      BY <1>2, <1>3, <2>1, <3>4, Zenon
    <3>5. CASE /\ wpc' = "batch" /\ batch' = Tail(batch) /\ abandoned' = abandoned
               /\ task' = [task EXCEPT ![t] = [task[t] EXCEPT !.erased = TRUE]]
      <4>1. /\ DOMAIN task' = DOMAIN task /\ task'[t].erased /\ task'[t].due = task[t].due
            /\ \A u \in DOMAIN task \ {t} : task'[u] = task[u]
        BY <3>1, <3>5, Zenon DEF Task
      <4>2. \A u \in DOMAIN task : task'[u].due = task[u].due /\ (task[u].erased => task'[u].erased)
        BY <4>1, Zenon
      <4>3. PlaceInv' /\ \A p : In(Queue, Places, p) => In(Queue', Places, p) \/ p = t
        BY <2>1, <2>3, <3>5, <4>2, PlaceDropped, Zenon
      <4>4. QED
        BY <2>1, <3>5, <4>1, <4>2, <4>3, KeptSame, Zenon
    <3>6. QED
      BY <2>3, <3>2, <3>3, <3>4, <3>5, Zenon DEF PassTick
  <2>4. QED
    BY <1>7, <2>2, <2>3, Zenon DEF NextTask
<1>8. CASE Rearm
  <2> DEFINE t == Head(batch)
             u == RearmTime(t)
  <2>1. batch # <<>> /\ batch \in Seq(1 .. Len(task)) /\ task \in Seq(Task)
    BY <1>8, Zenon DEF Rearm, TypeInv, TypeOK, KnownInv
  <2>2. t \in DOMAIN task /\ task[t] \in Task
    BY <2>1
  <2>3. u \in Time
    BY <2>2, DelayFits, Zenon DEF RearmTime, Task, TypeInv, TypeOK
  <2>4. /\ mx_nexts' = [mx_nexts EXCEPT ![u] = Append(mx_nexts[u], t)]
        /\ task' = [task EXCEPT ![t] = [task[t] EXCEPT !.due = u]]
        /\ batch' = Tail(batch) /\ wpc' = "batch" /\ UNCHANGED <<now, dpc, abandoned>>
    BY <1>8, Zenon DEF Rearm
  <2>5. DOMAIN task' = DOMAIN task /\ \A v \in DOMAIN task : task'[v].erased = task[v].erased
    BY <2>2, <2>4, Zenon DEF Task
  <2> HIDE DEF u
  <2>6. PlaceInv' /\ \A p : In(Queue', Places, p) <=> In(Queue, Places, p)
    BY <2>1, <2>3, <2>4, PlaceRearmed, Zenon
  <2>7. QED
    BY <2>4, <2>5, <2>6, KeptSame, Zenon
<1>9. CASE (\E r \in Request : HandleEvent(r)) \/ ReadClock \/ SignalInserted
  <2>1. UNCHANGED <<task, mx_nexts, batch, abandoned, now, dpc, wpc>>
    BY <1>9, Zenon DEF HandleEvent, ReadClock, SignalInserted
  <2>2. QED
    BY <1>2, <1>3, <2>1, Zenon DEF PlaceInv
<1>10. CASE MarkErased
  <2>1. UNCHANGED <<mx_nexts, batch, abandoned, now, dpc, wpc>>
    BY <1>10, Zenon DEF MarkErased
  <2>2. \A v \in DOMAIN task : task[v] \in Task
    BY DEF TypeInv, TypeOK
  <2>3. /\ DOMAIN task' = DOMAIN task
        /\ \A v \in DOMAIN task : task'[v].due = task[v].due /\ (task[v].erased => task'[v].erased)
    BY <1>10, <2>2, Zenon DEF MarkErased, Task
  <2>4. PlaceInv'
    BY <1>1, <1>3, <2>1, <2>3, PlaceSame, Zenon DEF PlaceInv
  <2>5. \A p : In(Queue, Places, p) => In(Queue', Places, p)
    BY <2>1, QueueSame, Zenon
  <2>6. QED
    BY <2>1, <2>3, <2>4, <2>5, KeptSame, Zenon
<1>11. CASE Insert
  <2> DEFINE r == [type |-> TypeOf(req.op), key |-> req.key, period_real |-> req.delay,
                   erased |-> FALSE, due |-> tb]
             t == Len(task) + 1
  <2>1. /\ task' = Append(task, r) /\ mx_nexts' = [mx_nexts EXCEPT ![tb] = Append(mx_nexts[tb], t)]
        /\ UNCHANGED <<batch, now, wpc, abandoned, dpc>>
    BY <1>11, Zenon DEF Insert
  <2>2. tb \in Time /\ r.due = tb
    BY Zenon DEF TypeInv, TypeOK
  <2>3. task \in Seq(Task)
    BY Zenon DEF TypeInv, TypeOK
  <2> HIDE DEF r
  <2>4. DOMAIN task' = DOMAIN task \cup {t} /\ \A v \in DOMAIN task : task'[v] = task[v]
    BY <2>1, <2>3
  <2>5. PlaceInv' /\ \A p : In(Queue', Places, p) <=> In(Queue, Places, p) \/ p = t
    BY <2>1, <2>2, PlaceInserted, Zenon
  <2> HIDE DEF t
  <2>6. KeptInv'
    BY <2>1, <2>4, <2>5, Zenon DEF KeptInv
  <2>7. QED
    BY <2>5, <2>6, Zenon
<1>12. CASE SetTerminating \/ BroadcastNexts \/ Join
  <2>1. UNCHANGED <<task, mx_nexts, batch, abandoned, now, wpc>> /\ dpc' # "run"
    BY <1>12, Zenon DEF SetTerminating, BroadcastNexts, Join
  <2>2. QED
    BY <1>2, <1>3, <2>1, Zenon DEF PlaceInv
<1>13. CASE ClearNexts
  <2>1. /\ UNCHANGED <<task, batch, abandoned, now, wpc>> /\ dpc' # "run"
        /\ \A u \in Time : mx_nexts'[u] = <<>>
    BY <1>13, Zenon DEF ClearNexts, Empty
  <2>2. PlaceInv'
    BY <2>1, PlaceEmptied, Zenon DEF PlaceInv
  <2>3. QED
    BY <2>1, <2>2, Zenon DEF KeptInv
<1>14. CASE UNCHANGED vars
  BY <1>2, <1>3, <1>14, Zenon DEF vars, PlaceInv
<1>15. QED
  BY <1>4, <1>5, <1>6, <1>7, <1>8, <1>9, <1>10, <1>11, <1>12, <1>13, <1>14, ZenonT(60)
     DEF Next, Worker, Handler, Deinit

LEMMA PlaceInit == Init => PlaceInv /\ KeptInv
<1> SUFFICES ASSUME Init PROVE PlaceInv /\ KeptInv
  BY Zenon
<1>1. TypeInv
  BY TypeInit, Zenon
<1>2. (\A u \in Time : mx_nexts[u] = <<>>) /\ batch = <<>> /\ task = <<>>
  BY Zenon DEF Init, Empty
<1>3. DOMAIN <<>> = {}
  OBVIOUS
<1>4. \A p \in Places : Queue[p] = <<>>
  BY <1>1, <1>2, QueueNow, PlaceFacts, Zenon
<1>5. Single(Queue, Places)
  BY <1>3, <1>4, Zenon DEF Single
<1>6. QED
  BY <1>2, <1>3, <1>5, Zenon DEF PlaceInv, KeptInv

LEMMA PlaceInvariant == Spec => [](TypeInv /\ PlaceInv /\ KeptInv)
<1>1. Init => TypeInv /\ PlaceInv /\ KeptInv
  BY TypeInit, PlaceInit, Zenon
<1>2. (TypeInv /\ PlaceInv /\ KeptInv) /\ [Next]_vars => (TypeInv /\ PlaceInv /\ KeptInv)'
  BY TypeStep, PlaceStep, Zenon
<1>3. QED
  BY <1>1, <1>2, PTL DEF Spec

\* Until deinit() no task is lost between the listener's thread and the worker, and none
\* is armed twice, however their steps interleave: whatever request creates, marks or
\* re-arms it, a task is in at most one deque, and in one until it is marked or an
\* exception of passEvent makes the worker forget its batch.
THEOREM TasksAreKept == Spec => []NoTaskLost
<1>1. TypeInv /\ PlaceInv /\ KeptInv => NoTaskLost
  <2> SUFFICES ASSUME PlaceInv, KeptInv, dpc = "run"
               PROVE  /\ \A p, q \in Places : \A i \in DOMAIN Queue[p], j \in DOMAIN Queue[q] :
                            Queue[p][i] = Queue[q][j] => p = q /\ i = j
                      /\ \A t \in DOMAIN task \ abandoned :
                            task[t].erased \/ \E p \in Places : t \in Range(Queue[p])
    BY Zenon DEF NoTaskLost
  <2>1. \A p, q \in Places : \A i \in DOMAIN Queue[p], j \in DOMAIN Queue[q] :
            Queue[p][i] = Queue[q][j] => p = q /\ i = j
    BY Zenon DEF PlaceInv, Single
  <2>2. \A t : In(Queue, Places, t) => \E p \in Places : t \in Range(Queue[p])
    BY Zenon DEF In, Range
  <2>3. QED
    BY <2>1, <2>2, Zenon DEF KeptInv
<1>2. QED
  BY <1>1, PlaceInvariant, PTL

\* The worker passes no tick before it is due, although it decides with a time it reads
\* before it takes the deque and the tasks are re-armed and marked meanwhile.
THEOREM TicksAreNotEarly == Spec => NeverEarly
<1>1. ASSUME TypeInv, PlaceInv, [Next]_vars
      PROVE  [\A t \in DOMAIN task : fired'[t] # fired[t] => now >= task[t].due]_vars
  <2> USE DEF taskVars, workerVars, handlerVars, historyVars
  <2>1. CASE batch # <<>> /\ PassTick(Head(batch))
    <3>1. fired' = fired \/ fired' = [fired EXCEPT ![Head(batch)] = fired[Head(batch)] + 1]
      BY <2>1, Zenon DEF PassTick
    <3>2. fired \in [TaskId -> Nat] /\ DOMAIN task \subseteq TaskId
      BY <1>1, DomainOfTasks, Zenon DEF TypeInv, TypeOK
    <3>3. 1 \in DOMAIN batch /\ batch[1] = Head(batch)
      BY <1>1, <2>1 DEF TypeInv, TypeOK
    <3>4. task[Head(batch)].due <= now /\ task[Head(batch)].due \in Nat /\ now \in Nat
      <4>1. now \in Nat
        BY <1>1 DEF TypeInv, TypeOK
      <4>2. QED
        BY <1>1, <3>3, <4>1, QueuedTasks, Zenon DEF PlaceInv
    <3>5. now >= task[Head(batch)].due
      BY ONLY <3>4
    <3>6. QED
      BY <3>1, <3>2, <3>5, Zenon
  <2>2. CASE UNCHANGED fired
    BY <2>2, Zenon
  <2>3. QED
    BY <1>1, <2>1, <2>2, Zenon DEF Next, vars, Worker, Handler, Deinit, ClockTick, OuterLoop, Sleep,
       Wake, WaitReturns, InnerLoop, NextTask, Rearm, OnStartService, HandleEvent, MarkErased,
       ReadClock, Insert, SignalInserted, SetTerminating, ClearNexts, BroadcastNexts, Join
<1>2. QED
  BY <1>1, PlaceInvariant, PTL DEF Spec, NeverEarly
-----------------------------------------------------------------------------
(* What a Stop or Reset request silences.                                  *)

\* A task that a request has been applied for, and that the worker did not hold then, is
\* marked or in no queue.
SilentInv == \A t \in cancelled \ overlooked : task[t].erased \/ ~In(Queue, Places, t)

\* A step other than Insert puts no task where there was none, and only MarkErased
\* changes what has been cancelled.
LEMMA SilentSame ==
    ASSUME SilentInv, UNCHANGED <<cancelled, overlooked>>,
           \A t \in cancelled : task[t].erased => task'[t].erased,
           \A t \in cancelled : In(Queue', Places, t) => In(Queue, Places, t)
    PROVE  SilentInv'
BY Zenon DEF SilentInv

LEMMA SilentStep ==
    ASSUME TypeInv, TypeInv', PlaceInv, SilentInv, [Next]_vars
    PROVE  SilentInv'
<1> USE DEF taskVars, workerVars, handlerVars, historyVars, GoWorker, GoHandler, GoDeinit
<1>1. /\ cancelled \subseteq DOMAIN task /\ task \in Seq(Task)
      /\ \A v \in DOMAIN task : task[v] \in Task
  <2>1. cancelled \subseteq DOMAIN task /\ task \in Seq(Task)
    BY DomainOfTasks, Zenon DEF TypeInv, TypeOK, KnownInv
  <2>2. QED
    BY <2>1
<1>2. ASSUME UNCHANGED <<task, mx_nexts, batch, cancelled, overlooked>>
      PROVE  SilentInv'
  BY <1>2, QueueSame, SilentSame, Zenon
<1>3. CASE InnerLoop
  <2>1. UNCHANGED <<task, cancelled, overlooked, now>> /\ wpc = "inner"
    BY <1>3, Zenon DEF InnerLoop
  <2>2. batch = <<>>
    BY <2>1, Zenon DEF PlaceInv
  <2>3. CASE UNCHANGED <<mx_nexts, batch>>
    BY <1>2, <2>1, <2>3, Zenon
  <2>4. CASE ~UNCHANGED <<mx_nexts, batch>>
    <3>1. PICK t \in Time : /\ now >= t /\ batch' = mx_nexts[t]
                            /\ mx_nexts' = [mx_nexts EXCEPT ![t] = <<>>] /\ wpc' = "batch"
      BY <1>3, <2>4, Zenon DEF InnerLoop, Due, ItSecondCopy
    <3>2. \A p : In(Queue', Places, p) <=> In(Queue, Places, p)
      BY <2>1, <2>2, <3>1, PlaceTaken, Zenon
    <3>3. QED
      BY <2>1, <3>2, SilentSame, Zenon
  <2>5. QED
    BY <2>3, <2>4, Zenon
<1>4. CASE NextTask
  <2>1. UNCHANGED <<now, mx_nexts, cancelled, overlooked>>
    BY <1>4, Zenon DEF NextTask
  <2>2. CASE UNCHANGED <<task, batch>>
    BY <1>2, <2>1, <2>2, Zenon
  <2>3. CASE batch # <<>> /\ PassTick(Head(batch))
    <3> DEFINE t == Head(batch)
    <3>1. t \in DOMAIN task /\ task[t] \in Task
      <4>1. batch \in Seq(1 .. Len(task)) /\ task \in Seq(Task)
        BY Zenon DEF TypeInv, TypeOK, KnownInv
      <4>2. QED
        BY <2>3, <4>1
    <3>2. CASE wpc' = "batch" /\ batch' = Tail(batch) /\ task' = task
      BY <2>1, <2>3, <3>2, PlaceDropped, SilentSame, Zenon
    <3>3. CASE wpc' = "outer" /\ batch' = <<>> /\ task' = task
      BY <2>1, <3>3, PlaceEmptied, SilentSame, Zenon
    <3>4. CASE /\ wpc' = "batch" /\ batch' = Tail(batch)
               /\ task' = [task EXCEPT ![t] = [task[t] EXCEPT !.erased = TRUE]]
      <4>1. /\ task'[t].erased /\ task'[t].due = task[t].due
            /\ \A u \in DOMAIN task \ {t} : task'[u] = task[u]
        BY <3>1, <3>4, Zenon DEF Task
      <4>2. \A u \in DOMAIN task : task'[u].due = task[u].due /\ (task[u].erased => task'[u].erased)
        BY <4>1, Zenon
      <4>3. \A p : In(Queue', Places, p) => In(Queue, Places, p)
        BY <2>1, <2>3, <3>4, <4>2, PlaceDropped, Zenon
      <4>4. QED
        BY <1>1, <2>1, <4>2, <4>3, SilentSame, Zenon
    <3>5. QED
      BY <2>2, <2>3, <3>2, <3>3, <3>4, Zenon DEF PassTick
  <2>4. QED
    BY <1>4, <2>2, <2>3, Zenon DEF NextTask
<1>5. CASE Rearm
  <2> DEFINE t == Head(batch)
             u == RearmTime(t)
  <2>1. batch # <<>> /\ batch \in Seq(1 .. Len(task))
    BY <1>5, Zenon DEF Rearm, TypeInv, TypeOK, KnownInv
  <2>2. t \in DOMAIN task /\ task[t] \in Task
    BY <1>1, <2>1
  <2>3. u \in Time
    BY <2>2, DelayFits, Zenon DEF RearmTime, Task, TypeInv, TypeOK
  <2>4. /\ mx_nexts' = [mx_nexts EXCEPT ![u] = Append(mx_nexts[u], t)]
        /\ task' = [task EXCEPT ![t] = [task[t] EXCEPT !.due = u]]
        /\ batch' = Tail(batch) /\ wpc' = "batch" /\ UNCHANGED <<now, cancelled, overlooked>>
    BY <1>5, Zenon DEF Rearm
  <2>5. \A v \in DOMAIN task : task'[v].erased = task[v].erased
    BY <2>2, <2>4, Zenon DEF Task
  <2> HIDE DEF u
  <2>6. \A p : In(Queue', Places, p) <=> In(Queue, Places, p)
    BY <2>1, <2>3, <2>4, PlaceRearmed, Zenon
  <2>7. QED
    BY <1>1, <2>4, <2>5, <2>6, SilentSame, Zenon
<1>6. CASE MarkErased
  <2>1. UNCHANGED <<mx_nexts, batch>> /\ Queue' = Queue
    BY <1>6, QueueSame, Zenon DEF MarkErased
  <2>2. /\ \A v \in DOMAIN task : task[v].erased => task'[v].erased
        /\ \A v \in DOMAIN task : Marks(v) => task'[v].erased
    BY <1>1, <1>6, Zenon DEF MarkErased, Task
  <2> SUFFICES ASSUME NEW t \in cancelled', t \notin overlooked', In(Queue, Places, t)
               PROVE  task'[t].erased
    BY <2>1, Zenon DEF SilentInv
  <2>3. t \in DOMAIN task
    BY QueuedTasks, Zenon
  <2>4. CASE Matches(t)
    <3>1. PICK x \in Places : \E i \in DOMAIN Queue[x] : Queue[x][i] = t
      BY Zenon DEF In
    <3>2. CASE x \in Time
      <4>1. t \in Range(mx_nexts[x])
        BY <3>1, <3>2, QueueNow, Zenon DEF Range
      <4>2. Marks(t)
        BY <2>4, <3>2, <4>1, Zenon DEF Marks, Armed
      <4>3. QED
        BY <2>2, <2>3, <4>2, Zenon
    <3>3. CASE x = WorkerPlace
      <4>1. t \in Range(batch)
        BY <3>1, <3>3, QueueNow, Zenon DEF Range
      <4>2. QED
        BY <1>6, <2>4, <4>1, Zenon DEF MarkErased
    <3>4. QED
      BY <3>2, <3>3, PlaceFacts, Zenon
  <2>5. CASE ~Matches(t)
    <3>1. t \in cancelled /\ t \notin overlooked
      BY <1>6, <2>5, Zenon DEF MarkErased
    <3>2. QED
      BY <2>2, <2>3, <3>1, Zenon DEF SilentInv
  <2>6. QED
    BY <2>4, <2>5, Zenon
<1>7. CASE Insert
  <2> DEFINE r == [type |-> TypeOf(req.op), key |-> req.key, period_real |-> req.delay,
                   erased |-> FALSE, due |-> tb]
             t == Len(task) + 1
  <2>1. /\ task' = Append(task, r) /\ mx_nexts' = [mx_nexts EXCEPT ![tb] = Append(mx_nexts[tb], t)]
        /\ UNCHANGED <<batch, now, wpc, cancelled, overlooked>>
    BY <1>7, Zenon DEF Insert
  <2>2. tb \in Time /\ r.due = tb
    BY Zenon DEF TypeInv, TypeOK
  <2> HIDE DEF r
  <2>3. t \notin DOMAIN task /\ \A v \in DOMAIN task : task'[v] = task[v]
    BY <1>1, <2>1
  <2>4. \A p : In(Queue', Places, p) <=> In(Queue, Places, p) \/ p = t
    BY <2>1, <2>2, PlaceInserted, Zenon
  <2> HIDE DEF t
  <2>5. QED
    BY <1>1, <2>1, <2>3, <2>4, SilentSame, Zenon
<1>8. CASE ClearNexts
  <2>1. /\ UNCHANGED <<task, batch, now, wpc, cancelled, overlooked>>
        /\ \A u \in Time : mx_nexts'[u] = <<>>
    BY <1>8, Zenon DEF ClearNexts, Empty
  <2>2. \A p : In(Queue', Places, p) => In(Queue, Places, p)
    BY <2>1, PlaceEmptied, Zenon DEF PlaceInv
  <2>3. QED
    BY <2>1, <2>2, SilentSame, Zenon
<1>9. CASE UNCHANGED <<task, mx_nexts, batch, cancelled, overlooked>>
  BY <1>2, <1>9, Zenon
<1>10. QED
  BY <1>3, <1>4, <1>5, <1>6, <1>7, <1>8, <1>9, ZenonT(60) DEF Next, vars, Worker, Handler, Deinit,
     ClockTick, OuterLoop, Sleep, Wake, WaitReturns, OnStartService, HandleEvent, ReadClock,
     SignalInserted, SetTerminating, BroadcastNexts, Join

\* However requests, ticks and deinit() interleave, a task that StopTimer, StopAlarm or
\* ResetAlarm has been handled for does not tick again, unless the worker had it in
\* itSecondCopy while the handler scanned mx_nexts.
THEOREM CancelledStaysSilent == Spec => CancelledIsSilent
<1>1. Init => SilentInv
  BY Zenon DEF Init, SilentInv
<1>2. ASSUME TypeInv, SilentInv, [Next]_vars
      PROVE  [\A t \in cancelled \ overlooked : fired'[t] = fired[t]]_vars
  <2> USE DEF taskVars, workerVars, handlerVars, historyVars
  <2>1. CASE fired' = fired
    BY <2>1, Zenon
  <2>2. CASE NextTask /\ batch # <<>> /\ PassTick(Head(batch))
    <3>1. fired' = fired \/ (/\ ~task[Head(batch)].erased
                             /\ fired' = [fired EXCEPT ![Head(batch)] = @ + 1])
      BY <2>2, Zenon DEF PassTick, Skips
    <3>2. fired \in [TaskId -> Nat] /\ cancelled \subseteq TaskId /\ batch \in Seq(TaskId)
      BY <1>2, Zenon DEF TypeInv, TypeOK
    <3>3. 1 \in DOMAIN batch /\ batch[1] = Head(batch)
      BY <2>2, <3>2
    <3>4. In(Queue, Places, Head(batch))
      BY <1>2, <3>3, QueueNow, PlaceFacts, Zenon DEF In
    <3>5. QED
      BY <1>2, <3>1, <3>2, <3>4, Zenon DEF SilentInv
  <2>3. fired' = fired \/ (NextTask /\ batch # <<>> /\ PassTick(Head(batch)))
    BY <1>2, ZenonT(60) DEF Next, vars, Worker, Handler, Deinit, ClockTick, OuterLoop, Sleep, Wake,
       WaitReturns, InnerLoop, NextTask, Rearm, OnStartService, HandleEvent, MarkErased, ReadClock,
       Insert, SignalInserted, SetTerminating, ClearNexts, BroadcastNexts, Join
  <2>4. QED
    BY <2>1, <2>2, <2>3, Zenon
<1>3. TypeInv /\ PlaceInv /\ SilentInv /\ [Next]_vars => SilentInv'
  BY TypeStep, SilentStep, Zenon
<1>4. QED
  BY <1>1, <1>2, <1>3, PlaceInvariant, PTL DEF Spec, CancelledIsSilent
=============================================================================
