---------------------------- MODULE ObjectProxy ----------------------------
(***************************************************************************)
(* The object proxies: any C++ object that inherits from ObjectHandler can   *)
(* send events and be given the answers.  An answer finds its object by the  *)
(* object's address, which the request carried in its route.  Answers are    *)
(* handled by the proxy's own thread (Threaded) or by the thread of the      *)
(* window system, whenever it calls poll() (Polled).                         *)
(*                                                                         *)
(* An object is built in two stages and destroyed in two: the base class     *)
(* registers it before the derived class exists, and removes it after the    *)
(* derived class is gone.                                                    *)
(***************************************************************************)
EXTENDS Integers, Sequences

CONSTANTS Addrs,         \* addresses an object may be built at
          MaxRequests,   \* bound: requests sent
          MaxGen         \* bound: objects built at one address

VARIABLES kind,          \* "polled" or "threaded"
          stage,         \* per address: "none", "building", "whole" or "dying"
          gen,           \* per address: how many objects were built there
          mx_handlers,   \* the addresses registered with the proxy
          sent,          \* requests sent
          pending,       \* requests the services have not answered yet
          m_container,   \* the proxy's queue of answers
          d,             \* what poll() took from the queue and did not handle yet
          pc,            \* the handling thread: "idle", "found" or "in"
          e,             \* the answer being handled
          arrived, done, \* history: answers queued, and those taken up
          given,         \* history: <<answer, address of the object called>>
          discarded,     \* history: <<answer, was its asker registered then>>
          stopped        \* "none", or why the process is in undefined behaviour

ovars == <<kind, stage, gen, mx_handlers, sent, pending, m_container, d, pc, e, arrived, done,
           given, discarded, stopped>>

Quiet == UNCHANGED <<kind, stage, gen, mx_handlers>>

----------------------------------------------------------------------------
(* Objects. *)

\* The thread of the polled proxy is also the one that builds and destroys objects:
\* outside poll(), or inside the handler of an object.
OwnerRuns == kind = "threaded" \/ pc = "in" \/ (pc = "idle" /\ d = <<>>)

\* That thread is in the middle of a constructor or destructor.
OwnerBusy == kind = "polled" /\ \E a \in Addrs : stage[a] \in {"building", "dying"}

\* As addObjectHandler, but a second object at an address is taken for the first.
RegisteredOnce(a) ==
    /\ stopped = "none" /\ OwnerRuns /\ ~OwnerBusy
    /\ stage[a] = "none" /\ gen[a] < MaxGen
    /\ stage' = [stage EXCEPT ![a] = "building"] /\ gen' = [gen EXCEPT ![a] = @ + 1]
    /\ mx_handlers' = IF gen[a] = 0 THEN mx_handlers \cup {a} ELSE mx_handlers
    /\ UNCHANGED <<kind, sent, pending, m_container, d, pc, e, arrived, done, given, discarded, stopped>>

\* The constructor of ObjectHandlerPolled or ObjectHandlerThreaded.
addObjectHandler(a) ==
    /\ stopped = "none" /\ OwnerRuns /\ ~OwnerBusy
    /\ stage[a] = "none" /\ gen[a] < MaxGen
    /\ stage' = [stage EXCEPT ![a] = "building"] /\ gen' = [gen EXCEPT ![a] = @ + 1]
    /\ mx_handlers' = mx_handlers \cup {a}
    /\ UNCHANGED <<kind, sent, pending, m_container, d, pc, e, arrived, done, given, discarded, stopped>>

\* The constructor and the destructor of the derived class.
Derived(a) ==
    /\ stopped = "none"
    /\ \/ stage[a] = "building" /\ stage' = [stage EXCEPT ![a] = "whole"]
       \/ stage[a] = "whole" /\ OwnerRuns /\ ~OwnerBusy /\ stage' = [stage EXCEPT ![a] = "dying"]
    /\ UNCHANGED <<kind, gen, mx_handlers, sent, pending, m_container, d, pc, e, arrived, done,
                   given, discarded, stopped>>

\* As removeObjectHandler, but the proxy keeps the address.
StaysRegistered(a) ==
    /\ stopped = "none" /\ stage[a] = "dying"
    /\ stage' = [stage EXCEPT ![a] = "none"]
    /\ UNCHANGED <<kind, gen, mx_handlers, sent, pending, m_container, d, pc, e, arrived, done,
                   given, discarded, stopped>>

\* The destructor of the base class; the memory is free to be used again.
removeObjectHandler(a) ==
    /\ stopped = "none" /\ stage[a] = "dying"
    /\ stage' = [stage EXCEPT ![a] = "none"] /\ mx_handlers' = mx_handlers \ {a}
    /\ UNCHANGED <<kind, gen, sent, pending, m_container, d, pc, e, arrived, done, given,
                   discarded, stopped>>

----------------------------------------------------------------------------
(* Requests and answers.  A route is a stack, its top last. *)

Top(route) == route[Len(route)]

pop_back(route) == SubSeq(route, 1, Len(route) - 1)

\* The object's own entry, then the proxy's, then the service's.
sendObjectRequest(a) == <<[type |-> "OBJECTHANDLER", at |-> a],
                          [type |-> "LOCALSERVICE", at |-> "proxy"],
                          [type |-> "LOCALSERVICE", at |-> "service"]>>

sendEvent(a) ==
    /\ stopped = "none" /\ stage[a] = "whole"
    /\ sent < MaxRequests /\ sent' = sent + 1
    /\ \E via \in {"local", "connector"} :
        pending' = pending \cup {[route |-> sendObjectRequest(a), asker |-> a, gen |-> gen[a],
                                  via |-> via, id |-> sent + 1]}
    /\ Quiet /\ UNCHANGED <<m_container, d, pc, e, arrived, done, given, discarded, stopped>>

\* A service answers with the route it was reached by, less its own entry; passEvent
\* takes the proxy's entry off and appends the answer to the proxy's queue.
listenToEvent ==
    /\ stopped = "none"
    /\ \E r \in pending :
        LET a == [r EXCEPT !.route = pop_back(pop_back(@)), !.id = Len(arrived) + 1]
        IN  /\ pending' = pending \ {r}
            /\ m_container' = Append(m_container, a) /\ arrived' = Append(arrived, a)
    /\ Quiet /\ UNCHANGED <<sent, d, pc, e, done, given, discarded, stopped>>

\* poll() takes the whole queue; the thread of a buffered listener one event.
poll ==
    /\ stopped = "none" /\ ~OwnerBusy /\ pc = "idle" /\ d = <<>> /\ m_container # <<>>
    /\ IF kind = "polled" THEN d' = m_container /\ m_container' = <<>>
       ELSE d' = <<Head(m_container)>> /\ m_container' = Tail(m_container)
    /\ Quiet /\ UNCHANGED <<sent, pending, pc, e, arrived, done, given, discarded, stopped>>

\* As handleEvent, but an event for an object that is gone ends the batch.
LoseBatch ==
    /\ stopped = "none" /\ ~OwnerBusy /\ pc = "idle" /\ d # <<>>
    /\ done' = Append(done, Head(d))
    /\ LET r == Top(Head(d).route).at
       IN  IF r \in mx_handlers
           THEN /\ pc' = "found" /\ d' = Tail(d) /\ UNCHANGED discarded
                /\ e' = [at |-> r, answer |-> Head(d), rest |-> pop_back(Head(d).route)]
           ELSE /\ d' = <<>> /\ discarded' = discarded \cup {<<Head(d), FALSE>>}
                /\ UNCHANGED <<pc, e>>
    /\ Quiet /\ UNCHANGED <<sent, pending, m_container, arrived, given, stopped>>

\* handleEvent up to the unlock: the top of the route is taken off and looked up.  An
\* answer from another node has its route in the event it wraps; only the threaded
\* proxy stores the shortened route there.
handleEvent ==
    /\ stopped = "none" /\ ~OwnerBusy /\ pc = "idle" /\ d # <<>>
    /\ d' = Tail(d) /\ done' = Append(done, Head(d))
    /\ LET r == Top(Head(d).route).at
       IN  IF r \in mx_handlers
           THEN /\ pc' = "found"
                /\ e' = [at |-> r, answer |-> Head(d),
                         rest |-> IF kind = "polled" /\ Head(d).via = "connector"
                                  THEN Head(d).route ELSE pop_back(Head(d).route)]
                /\ UNCHANGED discarded
           ELSE /\ discarded' = discarded \cup
                       {<<Head(d), stage[r] \in {"building", "whole"} /\ gen[r] = Head(d).gen>>}
                /\ UNCHANGED <<pc, e>>
    /\ Quiet /\ UNCHANGED <<sent, pending, m_container, arrived, given, stopped>>

\* The virtual call, after the lock was given up.
OH_handleObjectEvent ==
    /\ stopped = "none" /\ ~OwnerBusy /\ pc = "found"
    /\ pc' = "in" /\ given' = given \cup {<<e.answer, e.at>>}
    /\ stopped' = IF stage[e.at] = "whole" THEN "none" ELSE "call"
    /\ Quiet /\ UNCHANGED <<sent, pending, m_container, d, e, arrived, done, discarded>>

\* The handler returns true, or returns false or throws, and then the object's name is
\* read for the log.
Return ==
    /\ stopped = "none" /\ ~OwnerBusy /\ pc = "in"
    /\ pc' = "idle"
    /\ \E handled \in BOOLEAN :
        stopped' = IF handled \/ stage[e.at] # "none" THEN "none" ELSE "name"
    /\ Quiet /\ UNCHANGED <<sent, pending, m_container, d, e, arrived, done, given, discarded>>

OInit ==
    /\ kind \in {"polled", "threaded"}
    /\ stage = [a \in Addrs |-> "none"] /\ gen = [a \in Addrs |-> 0]
    /\ mx_handlers = {} /\ sent = 0 /\ pending = {} /\ m_container = <<>> /\ d = <<>> /\ pc = "idle"
    /\ e = <<>> /\ arrived = <<>> /\ done = <<>> /\ given = {} /\ discarded = {}
    /\ stopped = "none"

ONext ==
    \/ \E a \in Addrs : \/ addObjectHandler(a) \/ Derived(a) \/ removeObjectHandler(a)
                        \/ sendEvent(a)
    \/ listenToEvent \/ poll \/ handleEvent \/ OH_handleObjectEvent \/ Return

OSpec == OInit /\ [][ONext]_ovars

----------------------------------------------------------------------------
(* Properties. *)

\* The polled proxy calls whole objects only: a pointer that handleEvent found under
\* the lock and uses after giving the lock up is still valid, because the thread that
\* polls is the one that destroys.  (The threaded proxy has no such protection.)
PolledCallsWholeObjects == stopped = "call" => kind = "threaded"

\* Answers are taken up once each, in the order they arrived, through poll()'s move of
\* the queue and whatever handlers of the same batch do to other objects.
TakenUpInOrder == done \o d \o m_container = arrived

\* An answer goes to the address that asked, and is discarded only when its asker is no
\* longer there; an object finds no entry of its own left in the route, except for
\* answers from another node in the polled proxy.
AskerOrNobody ==
    /\ \A g \in given : g[2] = g[1].asker
    /\ \A x \in discarded : ~x[2]
    /\ pc = "in" /\ (kind = "threaded" \/ e.answer.via = "local") => e.rest = <<>>
=============================================================================
