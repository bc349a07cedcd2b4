-------------------------------- MODULE Timer --------------------------------
(***************************************************************************)
(* Timer::Service: the listener's thread, which runs the handlers of the   *)
(* requests one after the other, the service's own worker thread, which    *)
(* sends the ticks, and the thread that calls deinit().  Requests reach    *)
(* the handlers through the mailbox that Listener specifies.               *)
(*                                                                         *)
(* A step ends where another thread can observe or disturb it.  The mutex  *)
(* of _nexts is held across steps only by the worker, between deciding to  *)
(* sleep and sleeping.                                                     *)
(***************************************************************************)
EXTENDS Naturals, Sequences, Functions

CONSTANTS Keys,     \* timers' identities: what tid, data and route are compared as
          BadKeys,  \* those whose route is empty once the timer's own hop is popped
          Delays,   \* delays of alarms, in units of the clock
          Periods,  \* periods of timers
          MaxTime,  \* bound: the clock stops here
          Horizon,  \* the latest due time the bounds allow
          MaxReq    \* bound: requests handled

ASSUME KeysAssumption == BadKeys \subseteq Keys
ASSUME BoundsAssumption == MaxTime \in Nat /\ MaxReq \in Nat /\ Horizon \in Nat
ASSUME DelaysAssumption == Delays \subseteq Nat /\ Periods \subseteq Nat \ {0}
ASSUME HorizonAssumption == \A d \in Delays \cup Periods \cup {0} : MaxTime + d <= Horizon
ASSUME RequestsAssumption == Keys # {} /\ Delays # {}

Time    == 0 .. Horizon
TaskId  == 1 .. MaxReq
Type    == {"TYPE_ALARM", "TYPE_TIMER"}
Request ==
         [op : {"SetTimer"}, key : Keys, delay : Periods]
    \cup [op : {"SetAlarm", "ResetAlarm"}, key : Keys, delay : Delays]
    \cup [op : {"StopTimer", "StopAlarm"}, key : Keys, delay : {0}]
Task    == [type : Type, key : Keys, period_real : Delays \cup Periods, erased : BOOLEAN,
            due : Time]

VARIABLES
    now,              \* getNow()
    task,             \* every task ever created, in order; due is when it may next tick
    mx_nexts,         \* time |-> the deque of tasks due then (<<>>: no such key)
    m_isTerminating,
    wpc,              \* where the worker is; "none" before startService
    asleep,           \* the worker is blocked in m_condition
    deadline,         \* of its timedwait
    batch,            \* itSecondCopy, from the task the worker has reached on
    hpc,              \* where the listener's thread is
    req,              \* the request it handles
    tb,               \* the handler's local tb
    handled,          \* requests begun
    dpc,              \* where deinit() is; "run" before it is called
    fired,            \* history: ticks passed for each task
    cancelled,        \* history: tasks a Stop or Reset request has been applied for
    overlooked,       \* history: those the worker held when the last one was applied
    abandoned         \* history: tasks an exception made the worker forget

taskVars    == <<task, mx_nexts>>
workerVars  == <<wpc, asleep, deadline, batch>>
handlerVars == <<hpc, req, tb, handled>>
historyVars == <<fired, cancelled, overlooked, abandoned>>
vars == <<now, task, mx_nexts, m_isTerminating, wpc, asleep, deadline, batch, hpc, req, tb,
          handled, dpc, fired, cancelled, overlooked, abandoned>>

Empty     == [t \in Time |-> <<>>]
NoRequest == CHOOSE r \in Request : TRUE

Init ==
    /\ now = 0
    /\ task = <<>>
    /\ mx_nexts = Empty
    /\ m_isTerminating = FALSE
    /\ wpc = "none" /\ asleep = FALSE /\ deadline = 0 /\ batch = <<>>
    /\ hpc = "idle" /\ req = NoRequest /\ tb = 0 /\ handled = 0
    /\ dpc = "run"
    /\ fired = [t \in TaskId |-> 0]
    /\ cancelled = {} /\ overlooked = {}
    /\ abandoned = {}

MutexFree == wpc \notin {"window", "timedWindow"}
Armed     == UNION {Range(mx_nexts[t]) : t \in Time}

\* getNow(): a clock that never goes back.
ClockTick ==
    /\ now < MaxTime
    /\ now' = now + 1
    /\ UNCHANGED <<taskVars, m_isTerminating, workerVars, handlerVars, dpc, historyVars>>
-----------------------------------------------------------------------------
(* worker().  The tests of m_isTerminating in front of another one that    *)
(* nothing observable separates from it are one test.                      *)

GoWorker(from, to) == wpc = from /\ wpc' = to

\* The outer loop: sleep until the first task arrives.
OuterLoop ==
    /\ \/ mx_nexts = Empty /\ GoWorker("outer", IF m_isTerminating THEN "exit" ELSE "window")
       \/ mx_nexts # Empty /\ GoWorker("outer", "inner")
    /\ UNCHANGED <<now, taskVars, m_isTerminating, asleep, deadline, batch, handlerVars, dpc,
                   historyVars>>

\* m_condition.wait() and timedwait(): release the mutex and sleep.
Sleep ==
    /\ GoWorker("window", "wait") \/ GoWorker("timedWindow", "timedwait")
    /\ asleep' = TRUE
    /\ UNCHANGED <<now, taskVars, m_isTerminating, deadline, batch, handlerVars, dpc, historyVars>>

\* Both waits are followed by a test of the flag.
Wake ==
    /\ ~asleep
    /\ LET next == IF m_isTerminating THEN "exit" ELSE "inner"
       IN  GoWorker("wait", next) \/ GoWorker("timedwait", next)
    /\ deadline' = 0
    /\ UNCHANGED <<now, taskVars, m_isTerminating, asleep, batch, handlerVars, dpc,
                   historyVars>>

\* timedwait() gives up at its deadline; either wait may return spuriously.
WaitReturns ==
    /\ asleep
    /\ asleep' = FALSE
    /\ UNCHANGED <<now, taskVars, m_isTerminating, wpc, deadline, batch, handlerVars, dpc,
                   historyVars>>

Timeout == wpc = "timedwait" /\ now >= deadline /\ WaitReturns

First(t) == mx_nexts[t] # <<>> /\ \A u \in Time : mx_nexts[u] # <<>> => t <= u

\* Mutant: a slot is due one unit of the clock early.
DueNextUnit(t) == now + 1 >= t

Due(t) == now >= t

\* Mutant: only the front of the slot's deque is copied.
FrontOfSlot(t) == <<Head(mx_nexts[t])>>

ItSecondCopy(t) == mx_nexts[t]

\* The inner loop under the mutex.  With mx_nexts empty it goes round at once,
\* which changes nothing.
InnerLoop ==
    /\ \/ /\ m_isTerminating
          /\ GoWorker("inner", "exit")
          /\ UNCHANGED <<mx_nexts, deadline, batch>>
       \/ /\ ~m_isTerminating
          /\ \E t \in Time :
                /\ First(t)
                /\ \/ /\ ~Due(t)
                      /\ GoWorker("inner", "timedWindow")
                      /\ deadline' = t
                      /\ UNCHANGED <<mx_nexts, batch>>
                   \/ /\ Due(t)
                      /\ GoWorker("inner", "batch")
                      /\ batch' = ItSecondCopy(t)
                      /\ mx_nexts' = [mx_nexts EXCEPT ![t] = <<>>]
                      /\ UNCHANGED deadline
    /\ UNCHANGED <<now, task, m_isTerminating, asleep, handlerVars, dpc, historyVars>>

Skips(t) == task[t].erased

IsTimer(t) == task[t].type = "TYPE_TIMER"

\* One task of itSecondCopy: skipped, or passed to the client.  passEvent throws for
\* an empty route, and the catch forgets the rest of the batch.
PassTick(t) ==
    \/ /\ Skips(t)
       /\ GoWorker("batch", "batch")
       /\ batch' = Tail(batch)
       /\ UNCHANGED <<task, fired, abandoned>>
    \/ /\ ~Skips(t) /\ task[t].key \in BadKeys
       /\ GoWorker("batch", "outer")
       /\ batch' = <<>>
       /\ abandoned' = abandoned \cup Range(batch)
       /\ UNCHANGED <<task, fired>>
    \/ /\ ~Skips(t) /\ task[t].key \notin BadKeys
       /\ fired' = [fired EXCEPT ![t] = @ + 1]
       /\ \/ /\ IsTimer(t)
             /\ GoWorker("batch", "rearm")
             /\ UNCHANGED <<task, batch>>
          \/ /\ ~IsTimer(t)
             /\ GoWorker("batch", "batch")
             /\ task' = [task EXCEPT ![t].erased = TRUE]
             /\ batch' = Tail(batch)
       /\ UNCHANGED abandoned

\* One turn of the loop over itSecondCopy, up to the re-arming of a timer.
NextTask ==
    /\ \/ /\ m_isTerminating
          /\ GoWorker("batch", "exit")
          /\ UNCHANGED <<task, batch, fired, abandoned>>
       \/ /\ ~m_isTerminating /\ batch = <<>>
          /\ GoWorker("batch", "inner")
          /\ UNCHANGED <<task, batch, fired, abandoned>>
       \/ ~m_isTerminating /\ batch # <<>> /\ PassTick(Head(batch))
    /\ UNCHANGED <<now, mx_nexts, m_isTerminating, asleep, deadline, handlerVars, dpc, cancelled,
                   overlooked>>

RearmTime(t) == now + task[t].period_real

Rearm ==
    /\ GoWorker("rearm", "batch")
    /\ LET t == Head(batch)
       IN  /\ mx_nexts' = [mx_nexts EXCEPT ![RearmTime(t)] = Append(@, t)]
           /\ task' = [task EXCEPT ![t].due = RearmTime(t)]
    /\ batch' = Tail(batch)
    /\ UNCHANGED <<now, m_isTerminating, asleep, deadline, handlerVars, dpc, historyVars>>

Worker == OuterLoop \/ Sleep \/ Wake \/ InnerLoop \/ NextTask \/ Rearm
-----------------------------------------------------------------------------
(* handleEvent() on the listener's thread.                                 *)

GoHandler(from, to) == hpc = from /\ hpc' = to

\* on_startService: pthread_create.
OnStartService ==
    /\ hpc = "idle"
    /\ GoWorker("none", "outer")
    /\ UNCHANGED <<now, taskVars, m_isTerminating, asleep, deadline, batch, handlerVars, dpc,
                   historyVars>>

\* The head of every handler: nothing is done once m_isTerminating is set.
HandleEvent(r) ==
    /\ handled < MaxReq
    /\ handled' = handled + 1
    /\ req' = IF m_isTerminating THEN NoRequest ELSE r
    /\ GoHandler("idle", IF m_isTerminating THEN "idle"
                         ELSE IF r.op \in {"SetTimer", "SetAlarm"} THEN "clock" ELSE "mark")
    /\ UNCHANGED <<now, taskVars, m_isTerminating, workerVars, tb, dpc, historyVars>>

TypeOf(op) == IF op \in {"SetTimer", "StopTimer"} THEN "TYPE_TIMER" ELSE "TYPE_ALARM"

Matches(t) == task[t].key = req.key /\ task[t].type = TypeOf(req.op)

\* Mutant: ResetAlarm inserts its alarm without the scan for the old one.
MarksOnStop(t) == req.op # "ResetAlarm" /\ t \in Armed /\ Matches(t)

\* The scan of on_StopTimer, on_StopAlarm and on_ResetAlarm marks what is in mx_nexts.
Marks(t) == t \in Armed /\ Matches(t)

MarkErased ==
    /\ MutexFree
    /\ GoHandler("mark", IF req.op = "ResetAlarm" THEN "clock" ELSE "idle")
    /\ task' = [t \in DOMAIN task |->
                   IF Marks(t) THEN [task[t] EXCEPT !.erased = TRUE] ELSE task[t]]
    /\ cancelled' = cancelled \cup {t \in DOMAIN task : Matches(t)}
    /\ overlooked' = {t \in overlooked : t \in Armed => ~Matches(t)}
                        \cup {t \in Range(batch) : Matches(t)}
    /\ req' = IF req.op = "ResetAlarm" THEN req ELSE NoRequest
    /\ UNCHANGED <<now, mx_nexts, m_isTerminating, workerVars, tb, handled, dpc, fired, abandoned>>

\* tb = getNow() + delay, before the mutex is taken.
ReadClock ==
    /\ GoHandler("clock", "insert")
    /\ tb' = now + req.delay
    /\ UNCHANGED <<now, taskVars, m_isTerminating, workerVars, req, handled, dpc, historyVars>>

Insert ==
    /\ MutexFree
    /\ GoHandler("insert", "signal")
    /\ task' = Append(task, [type |-> TypeOf(req.op), key |-> req.key, period_real |-> req.delay,
                             erased |-> FALSE, due |-> tb])
    /\ mx_nexts' = [mx_nexts EXCEPT ![tb] = Append(@, Len(task) + 1)]
    /\ req' = NoRequest /\ tb' = 0
    /\ UNCHANGED <<now, m_isTerminating, workerVars, handled, dpc, historyVars>>

\* Mutant: no signal.
NoSignal == GoHandler("signal", "idle")
    /\ UNCHANGED <<now, taskVars, m_isTerminating, workerVars, req, tb, handled, dpc, historyVars>>

SignalInserted ==
    /\ GoHandler("signal", "idle")
    /\ asleep' = FALSE
    /\ UNCHANGED <<now, taskVars, m_isTerminating, wpc, deadline, batch, req, tb, handled, dpc,
                   historyVars>>

Handler == MarkErased \/ ReadClock \/ Insert \/ SignalInserted
-----------------------------------------------------------------------------
(* deinit()                                                                *)

GoDeinit(from, to) == dpc = from /\ dpc' = to

SetTerminating ==
    /\ GoDeinit("run", "clear")
    /\ m_isTerminating' = TRUE
    /\ UNCHANGED <<now, taskVars, workerVars, handlerVars, historyVars>>

\* Mutant: clear() does not lock.
ClearUnlocked ==
    /\ GoDeinit("clear", "broadcast")
    /\ mx_nexts' = Empty
    /\ UNCHANGED <<now, task, m_isTerminating, workerVars, handlerVars, historyVars>>

ClearNexts ==
    /\ MutexFree
    /\ GoDeinit("clear", "broadcast")
    /\ mx_nexts' = Empty
    /\ UNCHANGED <<now, task, m_isTerminating, workerVars, handlerVars, historyVars>>

BroadcastNexts ==
    /\ GoDeinit("broadcast", "join")
    /\ asleep' = FALSE
    /\ UNCHANGED <<now, taskVars, m_isTerminating, wpc, deadline, batch, handlerVars, historyVars>>

\* pthread_join; m_pt_of_thread is uninitialised until on_startService has run.
Join ==
    /\ \/ wpc = "exit" /\ GoDeinit("join", "done")
       \/ wpc = "none" /\ GoDeinit("join", "fault")
    /\ UNCHANGED <<now, taskVars, m_isTerminating, workerVars, handlerVars, historyVars>>

Deinit == SetTerminating \/ ClearNexts \/ BroadcastNexts \/ Join
-----------------------------------------------------------------------------
Next ==
    \/ ClockTick
    \/ Worker \/ WaitReturns
    \/ OnStartService \/ (\E r \in Request : HandleEvent(r)) \/ Handler
    \/ Deinit

\* Time passes, every thread that can run does, and the listener handles its
\* startService event; requests and deinit() need not come.
Fairness ==
    /\ WF_vars(ClockTick)
    /\ WF_vars(Worker) /\ WF_vars(Timeout)
    /\ SF_vars(OnStartService) /\ SF_vars(Handler)
    /\ SF_vars(dpc # "run" /\ Deinit)

Spec == Init /\ [][Next]_vars
FairSpec == Spec /\ Fairness
-----------------------------------------------------------------------------
(* Properties.                                                             *)

TypeOK ==
    /\ now \in 0 .. MaxTime
    /\ task \in Seq(Task)
    /\ mx_nexts \in [Time -> Seq(TaskId)]
    /\ m_isTerminating \in BOOLEAN
    /\ wpc \in {"none", "outer", "window", "wait", "inner", "timedWindow", "timedwait", "batch",
                "rearm", "exit"}
    /\ asleep \in BOOLEAN
    /\ deadline \in Time
    /\ batch \in Seq(TaskId)
    /\ hpc \in {"idle", "clock", "mark", "insert", "signal"}
    /\ req \in Request
    /\ tb \in Time
    /\ handled \in 0 .. MaxReq
    /\ dpc \in {"run", "clear", "broadcast", "join", "done", "fault"}
    /\ fired \in [TaskId -> Nat]
    /\ cancelled \subseteq TaskId /\ overlooked \subseteq TaskId /\ abandoned \subseteq TaskId

\* The worker passes no tick before it is due: an alarm not before its delay, a
\* timer not before its period has gone by since it was set or last re-armed.
NeverEarly == [][\A t \in DOMAIN task : fired'[t] # fired[t] => now >= task[t].due]_vars

\* An alarm ticks at most once, whatever requests race with it.
AlarmOnce == \A t \in DOMAIN task : task[t].type = "TYPE_ALARM" => fired[t] <= 1

\* Once StopTimer, StopAlarm or ResetAlarm has been handled, the tasks it is about do
\* not tick again.  The exception is the one timer_stop is about: a task the worker had
\* in itSecondCopy while the handler scanned mx_nexts is overlooked.
CancelledIsSilent == [][\A t \in cancelled \ overlooked : fired'[t] = fired[t]]_vars

\* Where a task can be: in the deque of a due time, or ahead of the worker, which is
\* the place after the last due time.
Places == Time \cup {Horizon + 1}
Queue  == [p \in Places |-> IF p \in Time THEN mx_nexts[p] ELSE batch]

\* Until deinit() no task is lost between the two threads or armed twice: it is in at
\* most one place, and in one as long as it has not been erased, unless an exception
\* ended its batch.
NoTaskLost ==
    dpc = "run" =>
        /\ \A p, q \in Places : \A i \in DOMAIN Queue[p], j \in DOMAIN Queue[q] :
              Queue[p][i] = Queue[q][j] => p = q /\ i = j
        /\ \A t \in DOMAIN task \ abandoned :
              task[t].erased \/ \E p \in Places : t \in Range(Queue[p])

\* doc/02.Timer: the timer can be stopped by giving the same ID::DATA.  So a timer
\* for which StopTimer has been handled is not waiting for another tick.
StoppedNotArmed ==
    \A t \in cancelled : task[t].type = "TYPE_TIMER" /\ t \in Armed => task[t].erased

\* An alarm in mx_nexts ticks, unless it is erased or abandoned or the service is
\* being stopped.
AlarmFires ==
    \A t \in TaskId :
        (t \in DOMAIN task /\ task[t].type = "TYPE_ALARM" /\ task[t].due <= MaxTime)
            ~> (fired[t] = 1 \/ (t \in DOMAIN task /\ task[t].erased) \/ t \in abandoned
                \/ m_isTerminating)

\* deinit() returns: clear() takes the mutex between the flag and the broadcast, so
\* the worker is either asleep by then or sees the flag.
DeinitReturns == m_isTerminating ~> dpc \in {"done", "fault"}
=============================================================================
