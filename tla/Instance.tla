------------------------------- MODULE Instance -------------------------------
(***************************************************************************)
(* CInstance: threads that send events to services by name, the creation   *)
(* of a service on its first event, the services started from the          *)
(* configuration, and the destructor, which ends every service.            *)
(*                                                                         *)
(* A step is one access to shared memory.  The per-service mutex of        *)
(* initService() is held over several steps; services.m_lock never is.     *)
(***************************************************************************)
EXTENDS Naturals, Sequences, Functions

CONSTANTS Services,   \* SERVICE_ids
          Linked,     \* those whose constructor is registered from the start
          Plugins,    \* those known from a plugin that has not been loaded
          Callers,    \* threads that call sendEvent() or passEvent()
          Main,       \* the thread that runs initServices()
          Start,      \* the names of the "Start" setting, in the order of the set
          StartSends, \* the service that the startService handler of a service sends an event
                      \* to on the creating thread (ListenerSimple), or NoOne
          BadName,    \* a name that serviceIdByName() does not know
          NoOne,      \* no thread, no object, no service
          MaxSend     \* bound: events sent by each caller

ASSUME KnownServices == Linked \cup Plugins \subseteq Services
ASSUME StartAssumption == Start \in Seq(Linked \cup Plugins \cup {BadName})
ASSUME StartSendsAssumption == StartSends \in [Services -> Services \cup {NoOne}]
ASSUME Distinct ==
    /\ Main \notin Callers /\ BadName \notin Services /\ NoOne \notin Callers \cup {Main}
    /\ Callers \cap Services = {}

Threads == Callers \cup {Main}
Known   == Linked \cup Plugins

VARIABLES
    m_terminating,
    constructors,   \* locals->service_constructors
    container,      \* services.container: service |-> object, 0 if there is none
    object,         \* every service object ever constructed: its service, what it has been
                    \* given by listenToEvent(), whether it has been deleted, and (history)
                    \* whether it was inserted after deinitServices() had emptied the container
    initMX,         \* holder of mx_initInProcess[sid]
    pc,             \* where each thread is
    calls,          \* its stack of calls, the innermost first: the service, the event to
                    \* deliver, and the object found, 0 if none
    sent,           \* history: the services each caller has sent an event to, in order
    startNames,     \* names initServices() has still to start
    dpc,            \* where the destructor is; "run" before it is called
    svs             \* objects deinitServices() has still to end

registry == <<constructors, container, object>>
callVars == <<pc, calls>>
vars == <<m_terminating, constructors, container, object, initMX, pc, calls, sent,
          startNames, dpc, svs>>

StartService == <<NoOne, 0>>
NoEvent      == <<NoOne, 1>>    \* getServiceOrCreate() only creates

Top(c)    == Head(calls[c])
target(c) == Top(c).to
u(c)      == Top(c).u
Call(s, e) == [to |-> s, event |-> e, u |-> 0]

Init ==
    /\ m_terminating = FALSE
    /\ constructors = Linked
    /\ container = [s \in Services |-> 0]
    /\ object = <<>>
    /\ initMX = [s \in Services |-> NoOne]
    /\ pc = [c \in Threads |-> "idle"]
    /\ calls = [c \in Threads |-> <<>>]
    /\ sent = [c \in Callers |-> <<>>]
    /\ startNames = Start
    /\ dpc = "run"
    /\ svs = {}

Go(c, from, to) == pc[c] = from /\ pc' = [pc EXCEPT ![c] = to]

\* Mutant: a path out of initService() without the unlock.
StillLocked(c) == initMX

Unlocked(c) == [initMX EXCEPT ![target(c)] = NoOne]
SetU(c, o)  == calls' = [calls EXCEPT ![c][1].u = o]

\* The end of a call: back to the startService handler it came from, if any.
Return(c) ==
    /\ calls' = [calls EXCEPT ![c] = Tail(@)]
    /\ pc' = [pc EXCEPT ![c] = IF Len(calls[c]) = 1 THEN "idle" ELSE "started"]

\* The end of an initService() that has no service to return.
ReturnNULL(c) == Return(c) /\ initMX' = Unlocked(c)
-----------------------------------------------------------------------------
(* forwardEvent(), getServiceOrCreate() and initService()                  *)

\* sendEvent(svs, e): nothing once m_terminating is set.
SendEvent(c, s) ==
    /\ Len(sent[c]) < MaxSend
    /\ Go(c, "idle", IF m_terminating THEN "idle" ELSE "find")
    /\ calls' = [calls EXCEPT ![c] = IF m_terminating THEN <<>>
                                   ELSE <<Call(s, <<c, Len(sent[c]) + 1>>)>>]
    /\ sent' = [sent EXCEPT ![c] = IF m_terminating THEN @ ELSE Append(@, s)]
    /\ UNCHANGED <<m_terminating, registry, initMX, startNames, dpc, svs>>

\* initServices(): an unknown name ends the loop.
InitServices ==
    /\ startNames # <<>>
    /\ \/ /\ m_terminating \/ Head(startNames) = BadName
          /\ startNames' = <<>>
          /\ pc[Main] = "idle"
          /\ UNCHANGED callVars
       \/ /\ ~m_terminating /\ Head(startNames) # BadName
          /\ startNames' = Tail(startNames)
          /\ Go(Main, "idle", "find")
          /\ calls' = [calls EXCEPT ![Main] = <<Call(Head(startNames), NoEvent)>>]
    /\ UNCHANGED <<m_terminating, registry, initMX, sent, dpc, svs>>

\* The look-up under R_LOCK.
Find(c) ==
    /\ Go(c, "find", IF container[target(c)] # 0 THEN "deliver" ELSE "init")
    /\ SetU(c, container[target(c)])
    /\ UNCHANGED <<m_terminating, registry, initMX, sent, startNames, dpc, svs>>

\* The head of initService(); NULL makes the caller throw and drop the event.
InitService(c) ==
    /\ pc[c] = "init"
    /\ \/ m_terminating /\ Return(c)
       \/ ~m_terminating /\ Go(c, "init", "lock") /\ UNCHANGED calls
    /\ UNCHANGED <<m_terminating, registry, initMX, sent, startNames, dpc, svs>>

\* Mutant: initService() without its mutex.
NoInitMX(c) ==
    /\ Go(c, "lock", "recheck")
    /\ UNCHANGED <<m_terminating, registry, initMX, calls, sent, startNames, dpc, svs>>

\* Mutant: each call locks a mutex of its own.
LockOwnMX(c) ==
    /\ Go(c, "lock", "recheck")
    /\ initMX' = [initMX EXCEPT ![target(c)] = c]
    /\ UNCHANGED <<m_terminating, registry, calls, sent, startNames, dpc, svs>>

LockInitMX(c) ==
    /\ Go(c, "lock", "recheck")
    /\ initMX[target(c)] = NoOne
    /\ initMX' = [initMX EXCEPT ![target(c)] = c]
    /\ UNCHANGED <<m_terminating, registry, calls, sent, startNames, dpc, svs>>

\* initService() has found the object another thread created: unlock and deliver.
Found(c) ==
    /\ pc' = [pc EXCEPT ![c] = "deliver"]
    /\ SetU(c, container[target(c)])
    /\ initMX' = Unlocked(c)

\* The look-up without services.m_lock: it races with the insertion of another
\* thread, and may then miss what is in the map.
Recheck(c) ==
    /\ pc[c] = "recheck"
    /\ \/ container[target(c)] # 0 /\ Found(c)
       \/ /\ container[target(c)] = 0 \/ \E d \in Threads \ {c} : pc[d] = "insert"
          /\ Go(c, "recheck", "constructor")
          /\ UNCHANGED <<calls, initMX>>
    /\ UNCHANGED <<m_terminating, registry, sent, startNames, dpc, svs>>

\* Mutant: plugins are not loaded on demand.
Registered(s) == s \in constructors

HasConstructor(s) == s \in Known

\* The constructor is looked up, and the plugin loaded if there is none; without
\* plugin initService() throws: forwardEvent() drops the event, initServices() ends.
FindConstructor(c) ==
    /\ pc[c] = "constructor"
    /\ \/ /\ HasConstructor(target(c))
          /\ constructors' = constructors \cup {target(c)}
          /\ Go(c, "constructor", "terminating")
          /\ UNCHANGED <<calls, initMX, startNames>>
       \/ /\ ~HasConstructor(target(c))
          /\ ReturnNULL(c)
          /\ startNames' = IF Top(c).event = NoEvent THEN <<>> ELSE startNames
          /\ UNCHANGED constructors
    /\ UNCHANGED <<m_terminating, container, object, sent, dpc, svs>>

CheckTerminating(c) ==
    /\ pc[c] = "terminating"
    /\ \/ m_terminating /\ ReturnNULL(c)
       \/ ~m_terminating /\ Go(c, "terminating", "recheckLocked") /\ UNCHANGED <<calls, initMX>>
    /\ UNCHANGED <<m_terminating, registry, sent, startNames, dpc, svs>>

\* The second look-up, under R_LOCK.
RecheckLocked(c) ==
    /\ pc[c] = "recheckLocked"
    /\ \/ container[target(c)] # 0 /\ Found(c)
       \/ /\ container[target(c)] = 0
          /\ Go(c, "recheckLocked", "insert")
          /\ UNCHANGED <<calls, initMX>>
    /\ UNCHANGED <<m_terminating, registry, sent, startNames, dpc, svs>>

\* constr() and, under W_LOCK, std::map::insert, which keeps an existing entry.
Insert(c) ==
    /\ Go(c, "insert", "inserted")
    /\ object' = Append(object, [service |-> target(c), given |-> <<>>, deleted |-> FALSE,
                                 late |-> dpc \notin {"run", "swap"}])
    /\ container' = [container EXCEPT ![target(c)] = IF @ = 0 THEN Len(object) + 1 ELSE @]
    /\ SetU(c, Len(object) + 1)
    /\ UNCHANGED <<m_terminating, constructors, initMX, sent, startNames, dpc, svs>>

CheckInserted(c) ==
    /\ pc[c] = "inserted"
    /\ \/ m_terminating /\ ReturnNULL(c)
       \/ ~m_terminating /\ Go(c, "inserted", "start") /\ UNCHANGED <<calls, initMX>>
    /\ UNCHANGED <<m_terminating, registry, sent, startNames, dpc, svs>>

\* listenToEvent() of an object; one that has been deleted is a fault.
Give(o, e) == object' = [object EXCEPT ![o].given = Append(@, e)]

Fault(c) == pc' = [pc EXCEPT ![c] = "fault"] /\ UNCHANGED <<object, calls, initMX>>

\* listenToEvent(startService).  The handler of a ListenerSimple runs here, inside
\* initService() and with its mutex held, and may send an event in turn.
SendStartService(c) ==
    /\ pc[c] = "start"
    /\ \/ object[u(c)].deleted /\ Fault(c)
       \/ /\ ~object[u(c)].deleted
          /\ Give(u(c), StartService)
          /\ IF StartSends[target(c)] = NoOne \/ m_terminating
             THEN Go(c, "start", "started") /\ UNCHANGED calls
             ELSE /\ Go(c, "start", "find")
                  /\ calls' = [calls EXCEPT
                        ![c] = <<Call(StartSends[target(c)], <<target(c), 1>>)>> \o @]
          /\ UNCHANGED initMX
    /\ UNCHANGED <<m_terminating, constructors, container, sent, startNames, dpc, svs>>

\* initService() returns the new service.
Started(c) ==
    /\ Go(c, "started", "deliver")
    /\ initMX' = Unlocked(c)
    /\ UNCHANGED <<m_terminating, registry, calls, sent, startNames, dpc, svs>>

\* Mutant: the event whose sender created the service is not delivered.
DeliverUnlessCreated(c) ==
    /\ pc[c] = "deliver" /\ ~object[u(c)].deleted
    /\ IF Top(c).event = NoEvent \/ Len(object[u(c)].given) = 1 THEN UNCHANGED object
       ELSE Give(u(c), Top(c).event)
    /\ Return(c)
    /\ UNCHANGED <<m_terminating, constructors, container, initMX, sent, startNames, dpc, svs>>

\* l->listenToEvent(e); getServiceOrCreate() has no event to deliver.
Deliver(c) ==
    /\ pc[c] = "deliver"
    /\ \/ /\ Top(c).event = NoEvent
          /\ Return(c)
          /\ UNCHANGED <<object, initMX>>
       \/ /\ Top(c).event # NoEvent /\ ~object[u(c)].deleted
          /\ Give(u(c), Top(c).event)
          /\ Return(c)
          /\ UNCHANGED initMX
       \/ Top(c).event # NoEvent /\ object[u(c)].deleted /\ Fault(c)
    /\ UNCHANGED <<m_terminating, constructors, container, sent, startNames, dpc, svs>>

CallStep(c) ==
    \/ Find(c) \/ InitService(c) \/ LockInitMX(c) \/ Recheck(c) \/ FindConstructor(c)
    \/ CheckTerminating(c) \/ RecheckLocked(c) \/ Insert(c) \/ CheckInserted(c)
    \/ SendStartService(c) \/ Started(c) \/ Deliver(c)
-----------------------------------------------------------------------------
(* ~CInstance()                                                            *)

GoDestructor(from, to) == dpc = from /\ dpc' = to

SetTerminating ==
    /\ GoDestructor("run", "swap")
    /\ m_terminating' = TRUE
    /\ UNCHANGED <<registry, initMX, callVars, sent, startNames, svs>>

\* deinitServices(): take the map under W_LOCK.
TakeServices ==
    /\ GoDestructor("swap", "deinit")
    /\ svs' = {container[s] : s \in Services} \ {0}
    /\ container' = [s \in Services |-> 0]
    /\ UNCHANGED <<m_terminating, constructors, object, initMX, callVars, sent, startNames>>

\* u->deinit() and delete u, in the order of the map.
DeinitService(o) ==
    /\ dpc = "deinit" /\ o \in svs
    /\ svs' = svs \ {o}
    /\ object' = [object EXCEPT ![o].deleted = TRUE]
    /\ UNCHANGED <<m_terminating, constructors, container, initMX, callVars, sent, startNames, dpc>>

\* The mutexes and the instance itself go.
Destroyed ==
    /\ svs = {}
    /\ GoDestructor("deinit", "done")
    /\ UNCHANGED <<m_terminating, registry, initMX, callVars, sent, startNames, svs>>

Destructor ==
    \/ SetTerminating \/ TakeServices \/ Destroyed
    \/ \E o \in DOMAIN object : DeinitService(o)

\* A call still under way when the instance is gone.
UseDestroyed(c) ==
    /\ dpc = "done" /\ pc[c] \notin {"idle", "fault"}
    /\ pc' = [pc EXCEPT ![c] = "fault"]
    /\ UNCHANGED <<m_terminating, registry, initMX, calls, sent, startNames, dpc, svs>>
-----------------------------------------------------------------------------
InstanceStep(c) == dpc # "done" /\ CallStep(c)

Next ==
    \/ \E c \in Callers, s \in Services : dpc # "done" /\ SendEvent(c, s)
    \/ dpc # "done" /\ InitServices
    \/ \E c \in Threads : InstanceStep(c) \/ UseDestroyed(c)
    \/ Destructor

\* Threads run; the mutexes of initService() are granted fairly.  Nobody is obliged
\* to send an event or to destroy the instance.
Fairness ==
    /\ \A c \in Threads : SF_vars(InstanceStep(c)) /\ WF_vars(UseDestroyed(c))
    /\ WF_vars(dpc # "done" /\ InitServices)

Spec == Init /\ [][Next]_vars
FairSpec == Spec /\ Fairness
-----------------------------------------------------------------------------
(* Properties.                                                             *)

\* However many threads send their first event to a service at the same time, one
\* object is created for it, and only deinitServices() makes room for another.
OneObject ==
    \A o, p \in DOMAIN object :
        object[o].service = object[p].service /\ ~object[o].late /\ ~object[p].late => o = p

\* What the object of a service has been given, in order.
Given(s) == IF container[s] = 0 THEN <<>> ELSE object[container[s]].given

\* While the instance is not being destroyed every event that has been sent to a
\* service with a constructor or a plugin has been given to the object of that
\* service once and only once, in the order in which its sender sent it.
DeliveredInOrder ==
    \A c \in Callers, s \in Known :
        ~m_terminating =>
            LET Over(n) == pc[c] = "idle" \/ n < Len(sent[c])
                mine    == {i \in DOMAIN Given(s) : Given(s)[i][1] = c}
            IN  /\ {Given(s)[i][2] : i \in mine} = {n \in DOMAIN sent[c] : sent[c][n] = s /\ Over(n)}
                /\ \A i, j \in mine : i < j => Given(s)[i][2] < Given(s)[j][2]

\* An object is given startService once, and without it no object stays in the
\* container unless its creator is still in initService() or the instance ends.
StartedOnce ==
    \A o \in DOMAIN object :
        /\ \A i, j \in DOMAIN object[o].given :
              object[o].given[i] = StartService /\ object[o].given[j] = StartService => i = j
        /\ StartService \notin Range(object[o].given) =>
              m_terminating \/ initMX[object[o].service] # NoOne

\* Every call returns, unless a thread has used a deleted service: threads that
\* create services whose startService handlers send events to each other's service
\* never wait for each other's initService() mutex for ever.
CallReturns ==
    \A c \in Threads : pc[c] # "idle" ~> pc[c] = "idle" \/ \E d \in Threads : pc[d] = "fault"

\* initServices() creates the services of the "Start" setting up to the first name
\* it does not know.
StartListStarted ==
    \A i \in DOMAIN Start :
        (\A j \in 1 .. i : Start[j] # BadName)
            => <>(m_terminating \/ container[Start[i]] # 0)
=============================================================================
