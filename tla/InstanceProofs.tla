---------------------------- MODULE InstanceProofs ----------------------------
(***************************************************************************)
(* Proofs about CInstance, for any number of services, threads and events  *)
(* and any StartSends: one object per service, started once, and the       *)
(* events of a thread delivered to it in the order of their sending.       *)
(***************************************************************************)
EXTENDS Instance, Integers, TLAPS

Events  == (Callers \cup Services \cup {NoOne}) \X (Nat \ {0})
Frames  == [to : Services, event : Events, u : Nat]
Objects == [service : Services, given : Seq(Events \cup {StartService}), deleted : BOOLEAN,
            late : BOOLEAN]

\* The labels inside initService() with its mutex held.
Locked == {"recheck", "constructor", "terminating", "recheckLocked", "insert", "inserted",
           "start", "started"}
Labels == Locked \cup {"idle", "find", "init", "lock", "deliver", "fault"}

TypeInv ==
    /\ m_terminating \in BOOLEAN
    /\ container \in [Services -> Nat]
    /\ object \in Seq(Objects)
    /\ initMX \in [Services -> Threads \cup {NoOne}]
    /\ pc \in [Threads -> Labels]
    /\ calls \in [Threads -> Seq(Frames)]
    /\ sent \in [Callers -> Seq(Services)]
    /\ startNames \in Seq(Known \cup {BadName})
    /\ dpc \in {"run", "swap", "deinit", "done"}
    /\ dpc = "run" <=> ~m_terminating
    /\ \A c \in Threads : pc[c] # "idle" => calls[c] # <<>>

\* The calls of a thread that hold the mutex of their service: the innermost one by its
\* label, and every outer one, which waits inside a startService handler.
Held(c) == {i \in DOMAIN calls[c] : i # 1 \/ pc[c] \in Locked}

LockInv ==
    \A c \in Threads :
        /\ \A i \in Held(c) : initMX[calls[c][i].to] = c
        /\ \A i, j \in Held(c) : calls[c][i].to = calls[c][j].to => i = j

\* Until deinitServices() the container has every object; a thread about to insert one
\* has seen none.
ObjectInv ==
    /\ dpc \in {"run", "swap"} =>
           /\ \A o \in DOMAIN object : container[object[o].service] = o
           /\ \A c \in Threads : pc[c] = "insert" => container[target(c)] = 0
    /\ OneObject

\* Objects are deleted by deinitServices() only.
DeletedInv == \A o \in DOMAIN object : object[o].deleted => m_terminating

\* A thread that has inserted an object and not yet given it startService.
Creating(c) == pc[c] \in {"inserted", "start"}

\* An object that has not been given startService has a creator about to give it.
StartInv ==
    /\ \A c \in Threads : Creating(c) =>
           /\ u(c) \in DOMAIN object /\ object[u(c)].service = target(c)
           /\ StartService \notin Range(object[u(c)].given)
    /\ \A o \in DOMAIN object :
           /\ \A i, j \in DOMAIN object[o].given :
                 object[o].given[i] = StartService /\ object[o].given[j] = StartService => i = j
           /\ StartService \notin Range(object[o].given) =>
                 m_terminating \/ \E c \in Threads : Creating(c) /\ u(c) = o
-----------------------------------------------------------------------------
(* Types.                                                                  *)

LEMMA EmptyLen == \A s : s = <<>> => Len(s) = 0
OBVIOUS

LEMMA FrameOf ==
    ASSUME TypeInv, NEW c \in Threads, pc[c] # "idle"
    PROVE  /\ Len(calls[c]) \in Nat \ {0} /\ 1 \in DOMAIN calls[c] /\ Top(c) = calls[c][1]
           /\ Top(c) \in Frames /\ target(c) \in Services /\ u(c) \in Nat /\ Top(c).event \in Events
           /\ Tail(calls[c]) \in Seq(Frames) /\ Len(Tail(calls[c])) = Len(calls[c]) - 1
<1>1. calls[c] \in Seq(Frames) /\ calls[c] # <<>>
  BY Zenon DEF TypeInv
<1>2. Head(calls[c]) = calls[c][1] /\ Head(calls[c]) \in Frames
  BY <1>1
<1>3. QED
  BY <1>1, <1>2 DEF Top, target, u, Frames

LEMMA SetUType ==
    ASSUME TypeInv, NEW c \in Threads, pc[c] # "idle", NEW o \in Nat, SetU(c, o)
    PROVE  /\ calls' \in [Threads -> Seq(Frames)] /\ DOMAIN calls'[c] = DOMAIN calls[c]
           /\ calls'[c] # <<>> /\ Len(calls'[c]) = Len(calls[c])
           /\ \A i \in DOMAIN calls[c] : calls'[c][i].to = calls[c][i].to
           /\ Head(calls'[c]) = calls'[c][1] /\ calls'[c][1].u = o
           /\ \A d \in Threads \ {c} : calls'[d] = calls[d]
<1>1. calls[c] \in Seq(Frames) /\ calls[c] # <<>> /\ 1 \in DOMAIN calls[c] /\ calls[c][1] \in Frames
  BY FrameOf, Zenon DEF TypeInv
<1> DEFINE f == [calls[c][1] EXCEPT !.u = o]
           s == [calls[c] EXCEPT ![1] = f]
<1>2. calls' = [calls EXCEPT ![c] = s] /\ calls \in [Threads -> Seq(Frames)]
  BY Zenon DEF SetU, TypeInv
<1>3. f \in Frames /\ f.to = calls[c][1].to /\ f.u = o
  BY <1>1, Zenon DEF Frames
<1> HIDE DEF f
<1>4. s \in Seq(Frames) /\ DOMAIN s = DOMAIN calls[c] /\ Len(s) = Len(calls[c]) /\ s[1] = f
  BY <1>1, <1>3
<1>5. \A i \in DOMAIN calls[c] : s[i].to = calls[c][i].to
  BY <1>1, <1>3, Zenon
<1> HIDE DEF s
<1>6. s # <<>> /\ Head(s) = s[1]
  BY <1>1, <1>4
<1>7. QED
  BY <1>2, <1>3, <1>4, <1>5, <1>6, Zenon

LEMMA ReturnType ==
    ASSUME TypeInv, NEW c \in Threads, pc[c] # "idle", Return(c)
    PROVE  /\ calls' \in [Threads -> Seq(Frames)] /\ calls'[c] = Tail(calls[c])
           /\ pc' \in [Threads -> Labels]
           /\ pc'[c] = IF Len(calls[c]) = 1 THEN "idle" ELSE "started"
           /\ \A d \in Threads \ {c} : calls'[d] = calls[d] /\ pc'[d] = pc[d]
           /\ \A d \in Threads : pc'[d] # "idle" => calls'[d] # <<>>
<1>1. /\ calls' = [calls EXCEPT ![c] = Tail(calls[c])] /\ calls \in [Threads -> Seq(Frames)]
      /\ pc' = [pc EXCEPT ![c] = IF Len(calls[c]) = 1 THEN "idle" ELSE "started"]
      /\ pc \in [Threads -> Labels]
  BY Zenon DEF Return, TypeInv
<1>2. /\ Tail(calls[c]) \in Seq(Frames) /\ Len(Tail(calls[c])) = Len(calls[c]) - 1
      /\ Len(calls[c]) \in Nat \ {0}
  BY FrameOf, Zenon
<1>3. pc'[c] # "idle" => calls'[c] # <<>>
  <2>1. calls'[c] = Tail(calls[c]) /\ (pc'[c] # "idle" => Len(calls[c]) # 1)
    BY <1>1, Zenon
  <2>2. ASSUME Tail(calls[c]) = <<>> PROVE Len(calls[c]) = 1
    <3>1. Len(Tail(calls[c])) = 0
      BY ONLY <2>2, EmptyLen, Zenon
    <3>2. QED
      BY ONLY <1>2, <3>1
  <2>3. QED
    BY <2>1, <2>2, Zenon
<1>4. \A d \in Threads : pc'[d] # "idle" => calls'[d] # <<>>
  BY <1>1, <1>3, Zenon DEF TypeInv
<1>5. QED
  BY <1>1, <1>2, <1>4, Zenon DEF Labels, Locked

\* What a step of a call leaves alone, and where it may leave the thread.
LEMMA GoType ==
    ASSUME TypeInv, NEW c \in Threads, NEW l \in Labels, NEW m, Go(c, m, l)
    PROVE  /\ pc' \in [Threads -> Labels] /\ pc[c] = m /\ pc'[c] = l
           /\ \A d \in Threads \ {c} : pc'[d] = pc[d]
BY Zenon DEF TypeInv, Go

LEMMA UnlockedType ==
    ASSUME TypeInv, NEW c \in Threads, pc[c] # "idle"
    PROVE  Unlocked(c) \in [Services -> Threads \cup {NoOne}]
BY FrameOf, Zenon DEF Unlocked, TypeInv

\* A call is made from a startService handler.
LEMMA PushType ==
    ASSUME NEW f \in Frames, NEW s \in Seq(Frames)
    PROVE  /\ <<f>> \o s \in Seq(Frames) /\ <<f>> \o s # <<>>
           /\ (<<f>> \o s)[1] = f
           /\ \A i \in DOMAIN (<<f>> \o s) : i # 1 => i - 1 \in DOMAIN s /\ (<<f>> \o s)[i] = s[i - 1]
<1> DEFINE t == <<f>> \o s
<1>1. t \in Seq(Frames) /\ Len(t) = Len(s) + 1 /\ t[1] = f
  OBVIOUS
<1>2. \A i \in DOMAIN t : i # 1 => i - 1 \in DOMAIN s /\ t[i] = s[i - 1]
  OBVIOUS
<1> HIDE DEF t
<1>3. t # <<>>
  BY <1>1, EmptyLen
<1>4. QED
  BY <1>1, <1>2, <1>3, Zenon DEF t

\* An object is given an event.
LEMMA GiveType ==
    ASSUME object \in Seq(Objects), NEW o, NEW e \in Events \cup {StartService}, Give(o, e)
    PROVE  /\ object' \in Seq(Objects) /\ DOMAIN object' = DOMAIN object
           /\ \A p \in DOMAIN object \ {o} : object'[p] = object[p]
           /\ o \in DOMAIN object =>
                  /\ object'[o].given = Append(object[o].given, e)
                  /\ object[o].given \in Seq(Events \cup {StartService})
           /\ \A p \in DOMAIN object : /\ object'[p].service = object[p].service
                                       /\ object'[p].late = object[p].late
                                       /\ object'[p].deleted = object[p].deleted
<1> DEFINE g == Append(object[o].given, e)
           r == [object[o] EXCEPT !.given = g]
<1>1. object' = [object EXCEPT ![o] = r]
  BY Zenon DEF Give
<1>2. CASE o \in DOMAIN object
  <2>1. object[o] \in Objects
    BY <1>2
  <2>2. object[o].given \in Seq(Events \cup {StartService})
    BY <2>1, Zenon DEF Objects
  <2>3. g \in Seq(Events \cup {StartService})
    BY <2>2
  <2> HIDE DEF g
  <2>4. /\ r \in Objects /\ r.given = g
        /\ r.service = object[o].service /\ r.late = object[o].late /\ r.deleted = object[o].deleted
    BY <2>1, <2>3, Zenon DEF Objects
  <2> HIDE DEF r
  <2>5. QED
    BY <1>1, <1>2, <2>2, <2>4 DEF g
<1>3. CASE o \notin DOMAIN object
  <2> HIDE DEF r
  <2>1. object' = object
    BY <1>1, <1>3
  <2>2. QED
    BY <1>3, <2>1, Zenon
<1>4. QED
  BY <1>2, <1>3, Zenon

\* The constants of the steps.
LEMMA Constants ==
    /\ NoEvent \in Events /\ StartService \notin Events
    /\ Known \subseteq Services /\ Main \in Threads /\ Callers \subseteq Threads
    /\ NoOne \notin Threads
    /\ \A s \in Services : StartSends[s] # NoOne => StartSends[s] \in Services
BY KnownServices, Distinct, StartSendsAssumption
DEF NoEvent, StartService, Events, Known, Threads

LEMMA CallType ==
    ASSUME NEW s \in Services, NEW e \in Events
    PROVE  Call(s, e) \in Frames /\ Call(s, e).to = s /\ <<Call(s, e)>> \in Seq(Frames)
BY DEF Call, Frames

LEMMA TypeStep ==
    ASSUME TypeInv, [Next]_vars
    PROVE  TypeInv'
<1> USE DEF registry, callVars
<1>1. ASSUME NEW c \in Callers, NEW s \in Services, SendEvent(c, s) PROVE TypeInv'
  <2>1. c \in Threads /\ Len(sent[c]) + 1 \in Nat \ {0} /\ sent[c] \in Seq(Services)
    BY Constants DEF TypeInv
  <2> DEFINE e == <<c, Len(sent[c]) + 1>>
  <2>2. e \in Events
    BY <2>1, Zenon DEF Events
  <2> HIDE DEF e
  <2>3. Call(s, e) \in Frames /\ <<Call(s, e)>> \in Seq(Frames) /\ <<Call(s, e)>> # <<>>
    BY <2>2, CallType, Zenon
  <2> DEFINE f == <<Call(s, e)>>
  <2>4. /\ calls' = [calls EXCEPT ![c] = IF m_terminating THEN <<>> ELSE f]
        /\ sent' = [sent EXCEPT ![c] = IF m_terminating THEN @ ELSE Append(@, s)]
        /\ pc' = [pc EXCEPT ![c] = IF m_terminating THEN "idle" ELSE "find"]
        /\ UNCHANGED <<m_terminating, registry, initMX, startNames, dpc, svs>>
    BY <1>1, Zenon DEF SendEvent, Go, e
  <2> HIDE DEF f
  <2>5. f \in Seq(Frames) /\ f # <<>>
    BY <2>3, Zenon DEF f
  <2>6. QED
    BY <2>1, <2>4, <2>5 DEF TypeInv, Labels, Locked
<1>2. ASSUME InitServices PROVE TypeInv'
  <2>1. startNames \in Seq(Known \cup {BadName}) /\ startNames # <<>>
    BY <1>2, Zenon DEF InitServices, TypeInv
  <2>2. Tail(startNames) \in Seq(Known \cup {BadName}) /\ Head(startNames) \in Known \cup {BadName}
    BY <2>1
  <2>3. CASE startNames' = <<>> /\ UNCHANGED callVars
    BY <1>2, <2>3 DEF InitServices, TypeInv
  <2>4. CASE /\ Head(startNames) # BadName /\ startNames' = Tail(startNames) /\ Go(Main, "idle", "find")
             /\ calls' = [calls EXCEPT ![Main] = <<Call(Head(startNames), NoEvent)>>]
    <3> DEFINE f == <<Call(Head(startNames), NoEvent)>>
    <3>1. f \in Seq(Frames) /\ f # <<>>
      BY <2>2, <2>4, CallType, Constants, Zenon
    <3>2. calls' = [calls EXCEPT ![Main] = f] /\ pc' = [pc EXCEPT ![Main] = "find"]
      BY <2>4, Zenon DEF Go
    <3> HIDE DEF f
    <3>3. UNCHANGED <<m_terminating, registry, initMX, sent, dpc, svs>>
      BY <1>2, Zenon DEF InitServices
    <3>4. QED
      BY <2>2, <2>4, <3>1, <3>2, <3>3, Constants DEF TypeInv, Labels, Locked
  <2>5. QED
    BY <1>2, <2>3, <2>4, Zenon DEF InitServices
<1>3. ASSUME NEW c \in Threads, Find(c) PROVE TypeInv'
  <2>1. pc[c] = "find"
    BY <1>3, Zenon DEF Find, Go
  <2>2. target(c) \in Services /\ container[target(c)] \in Nat
    BY <2>1, FrameOf, Zenon DEF TypeInv
  <2>3. calls' \in [Threads -> Seq(Frames)] /\ \A d \in Threads : d # c => calls'[d] = calls[d]
    BY <1>3, <2>1, <2>2, SetUType, ZenonT(60) DEF Find
  <2>4. calls'[c] # <<>>
    BY <1>3, <2>1, <2>2, SetUType, Zenon DEF Find
  <2>5. QED
    BY <1>3, <2>3, <2>4, Zenon DEF Find, Go, TypeInv, Labels, Locked
<1>4. ASSUME NEW c \in Threads, InitService(c) PROVE TypeInv'
  <2>1. pc[c] # "idle" /\ UNCHANGED <<m_terminating, registry, initMX, sent, startNames, dpc, svs>>
    BY <1>4, Zenon DEF InitService
  <2>2. CASE Return(c)
    BY <2>1, <2>2, ReturnType, Zenon DEF TypeInv
  <2>3. CASE Go(c, "init", "lock") /\ UNCHANGED calls
    BY <2>1, <2>3, Zenon DEF Go, TypeInv, Labels, Locked
  <2>4. QED
    BY <1>4, <2>2, <2>3, Zenon DEF InitService
<1>5. ASSUME NEW c \in Threads, LockInitMX(c) PROVE TypeInv'
  BY <1>5, FrameOf, Zenon DEF LockInitMX, Go, TypeInv, Labels, Locked
<1>6. ASSUME NEW c \in Threads, pc[c] # "idle", Found(c),
             UNCHANGED <<m_terminating, registry, sent, startNames, dpc, svs>>
      PROVE  TypeInv'
  <2>1. container[target(c)] \in Nat
    BY <1>6, FrameOf, Zenon DEF TypeInv
  <2>2. /\ calls' \in [Threads -> Seq(Frames)] /\ calls'[c] # <<>>
        /\ \A d \in Threads : d # c => calls'[d] = calls[d]
    BY <1>6, <2>1, SetUType, Zenon DEF Found
  <2>3. QED
    BY <1>6, <2>2, UnlockedType, Zenon DEF Found, TypeInv, Labels, Locked
<1>7. ASSUME NEW c \in Threads, pc[c] # "idle", ReturnNULL(c),
             UNCHANGED <<m_terminating, container, object, sent, dpc, svs>>,
             startNames' \in {startNames, <<>>}
      PROVE  TypeInv'
  <2>1. startNames' \in Seq(Known \cup {BadName})
    <3>1. startNames \in Seq(Known \cup {BadName}) /\ <<>> \in Seq(Known \cup {BadName})
      BY DEF TypeInv
    <3>2. QED
      BY <1>7, <3>1, Zenon
  <2>2. QED
    BY <1>7, <2>1, UnlockedType, ReturnType, Zenon DEF ReturnNULL, TypeInv
<1>8. ASSUME NEW c \in Threads, NEW m \in Labels \ {"idle"}, NEW l \in Labels, Go(c, m, l),
             UNCHANGED <<m_terminating, container, object, calls, sent, startNames, dpc, svs>>,
             initMX' = initMX \/ initMX' = Unlocked(c)
      PROVE  TypeInv'
  BY <1>8, UnlockedType, Zenon DEF Go, TypeInv
<1>9. ASSUME NEW c \in Threads, Recheck(c) PROVE TypeInv'
  BY <1>6, <1>8, <1>9, Zenon DEF Recheck, Labels, Locked
<1>10. ASSUME NEW c \in Threads, FindConstructor(c) PROVE TypeInv'
  BY <1>7, <1>8, <1>10, Zenon DEF FindConstructor, Labels, Locked
<1>11. ASSUME NEW c \in Threads, CheckTerminating(c) PROVE TypeInv'
  BY <1>7, <1>8, <1>11, Zenon DEF CheckTerminating, Labels, Locked
<1>12. ASSUME NEW c \in Threads, RecheckLocked(c) PROVE TypeInv'
  BY <1>6, <1>8, <1>12, Zenon DEF RecheckLocked, Labels, Locked
<1>13. ASSUME NEW c \in Threads, Insert(c) PROVE TypeInv'
  <2>1. pc[c] = "insert" /\ pc' = [pc EXCEPT ![c] = "inserted"]
        /\ UNCHANGED <<m_terminating, constructors, initMX, sent, startNames, dpc, svs>>
    BY <1>13, Zenon DEF Insert, Go
  <2>2. target(c) \in Services /\ Len(object) + 1 \in Nat
    BY <2>1, FrameOf DEF TypeInv
  <2>3. /\ calls' \in [Threads -> Seq(Frames)] /\ calls'[c] # <<>>
        /\ \A d \in Threads : d # c => calls'[d] = calls[d]
    BY <1>13, <2>1, <2>2, SetUType, Zenon DEF Insert
  <2> DEFINE r == [service |-> target(c), given |-> <<>>, deleted |-> FALSE,
                   late |-> dpc \notin {"run", "swap"}]
  <2>4. r \in Objects
    BY <2>2 DEF Objects
  <2> HIDE DEF r
  <2>5. object' \in Seq(Objects)
    BY <1>13, <2>4 DEF Insert, r, TypeInv
  <2>6. container' \in [Services -> Nat]
    BY <1>13, <2>2, Zenon DEF Insert, TypeInv
  <2>7. QED
    BY <2>1, <2>3, <2>5, <2>6, Zenon DEF TypeInv, Labels, Locked
<1>14. ASSUME NEW c \in Threads, CheckInserted(c) PROVE TypeInv'
  BY <1>7, <1>8, <1>14, Zenon DEF CheckInserted, Labels, Locked
<1>15. ASSUME NEW c \in Threads, SendStartService(c) PROVE TypeInv'
  <2>1. pc[c] = "start" /\ UNCHANGED <<m_terminating, container, initMX, sent, startNames, dpc, svs>>
    BY <1>15, Zenon DEF SendStartService, Fault
  <2>2. CASE Fault(c)
    BY <2>1, <2>2, Zenon DEF Fault, TypeInv, Labels
  <2>3. CASE Give(u(c), StartService) /\ Go(c, "start", "started") /\ UNCHANGED calls
    <3>1. object' \in Seq(Objects)
      BY <2>3, GiveType, Zenon DEF TypeInv
    <3>2. QED
      BY <2>1, <2>3, <3>1, Zenon DEF Go, TypeInv, Labels, Locked
  <2>4. CASE /\ Give(u(c), StartService) /\ Go(c, "start", "find") /\ StartSends[target(c)] # NoOne
             /\ calls' = [calls EXCEPT ![c] = <<Call(StartSends[target(c)], <<target(c), 1>>)>> \o @]
    <3>1. object' \in Seq(Objects)
      BY <2>4, GiveType, Zenon DEF TypeInv
    <3>2. target(c) \in Services /\ <<target(c), 1>> \in Events
      BY <2>1, FrameOf DEF Events
    <3> DEFINE f == Call(StartSends[target(c)], <<target(c), 1>>)
               s == <<f>> \o calls[c]
    <3>3. f \in Frames
      BY <2>4, <3>2, Constants, CallType, Zenon
    <3> HIDE DEF f
    <3>4. s \in Seq(Frames) /\ s # <<>>
      BY <3>3, PushType, Zenon DEF TypeInv
    <3>5. calls' = [calls EXCEPT ![c] = s]
      BY <2>4, Zenon DEF f
    <3> HIDE DEF s
    <3>6. QED
      BY <2>1, <2>4, <3>1, <3>4, <3>5, Zenon DEF Go, TypeInv, Labels, Locked
  <2>5. QED
    BY <1>15, <2>2, <2>3, <2>4, Zenon DEF SendStartService
<1>16. ASSUME NEW c \in Threads, Started(c) PROVE TypeInv'
  BY <1>8, <1>16, Zenon DEF Started, Labels, Locked
<1>17. ASSUME NEW c \in Threads, Deliver(c) PROVE TypeInv'
  <2>1. /\ pc[c] = "deliver" /\ Top(c).event \in Events
        /\ UNCHANGED <<m_terminating, container, initMX, sent, startNames, dpc, svs>>
    BY <1>17, FrameOf, Zenon DEF Deliver, Fault
  <2>2. CASE Fault(c)
    BY <2>1, <2>2, Zenon DEF Fault, TypeInv, Labels
  <2>3. CASE UNCHANGED object /\ Return(c)
    BY <2>1, <2>3, ReturnType, Zenon DEF TypeInv
  <2>4. CASE Give(u(c), Top(c).event) /\ Return(c)
    <3>1. object' \in Seq(Objects)
      BY <2>1, <2>4, GiveType, Zenon DEF TypeInv
    <3>2. QED
      BY <2>1, <2>4, <3>1, ReturnType, Zenon DEF TypeInv
  <2>5. QED
    BY <1>17, <2>2, <2>3, <2>4, Zenon DEF Deliver
<1>18. ASSUME SetTerminating \/ TakeServices \/ Destroyed PROVE TypeInv'
  <2>1. CASE SetTerminating
    BY <2>1, Zenon DEF SetTerminating, GoDestructor, TypeInv
  <2>2. CASE TakeServices
    BY <2>2, Zenon DEF TakeServices, GoDestructor, TypeInv
  <2>3. CASE Destroyed
    BY <2>3, Zenon DEF Destroyed, GoDestructor, TypeInv
  <2>4. QED
    BY <1>18, <2>1, <2>2, <2>3, Zenon
<1>19. ASSUME NEW o \in DOMAIN object, DeinitService(o) PROVE TypeInv'
  <2> DEFINE r == [object[o] EXCEPT !.deleted = TRUE]
  <2>0. object[o] \in Objects
    BY DEF TypeInv
  <2>1. r \in Objects
    BY <2>0, Zenon DEF Objects
  <2>2. object' = [object EXCEPT ![o] = r]
    BY <1>19, Zenon DEF DeinitService
  <2> HIDE DEF r
  <2>3. object' \in Seq(Objects)
    BY <2>1, <2>2 DEF TypeInv
  <2>4. QED
    BY <1>19, <2>3, Zenon DEF DeinitService, TypeInv
<1>20. ASSUME NEW c \in Threads, UseDestroyed(c) PROVE TypeInv'
  BY <1>20, Zenon DEF UseDestroyed, TypeInv, Labels
<1>21. ASSUME UNCHANGED vars PROVE TypeInv'
  BY <1>21, Zenon DEF vars, TypeInv
<1>22. QED
  BY <1>1, <1>2, <1>3, <1>4, <1>5, <1>9, <1>10, <1>11, <1>12, <1>13, <1>14, <1>15, <1>16, <1>17,
     <1>18,
     <1>19, <1>20, <1>21, Zenon DEF Next, InstanceStep, CallStep, Destructor
-----------------------------------------------------------------------------
(* The mutexes of initService().                                           *)

\* A step of thread c that takes no mutex: the calls that hold one keep it, k places
\* further out, or the innermost gives it up.
LEMMA LockKept ==
    ASSUME TypeInv, LockInv, NEW c \in Threads, NEW k \in {-1, 0, 1},
           \A d \in Threads \ {c} : pc'[d] = pc[d] /\ calls'[d] = calls[d],
           \A i \in Held(c)' :
               i \in Nat /\ i + k \in Held(c) /\ calls'[c][i].to = calls[c][i + k].to,
           \/ initMX' = initMX
           \/ initMX' = Unlocked(c) /\ 1 \in Held(c) /\ \A i \in Held(c)' : i + k # 1
    PROVE  LockInv'
<1>1. ASSUME NEW d \in Threads, d # c PROVE Held(d)' = Held(d)
  BY <1>1, Zenon DEF Held
<1>2. ASSUME NEW i \in Held(c)', NEW j \in Held(c)', calls'[c][i].to = calls'[c][j].to PROVE i = j
  <2>1. i + k = j + k
    BY <1>2 DEF LockInv
  <2>2. QED
    BY <2>1
<1>3. ASSUME NEW d \in Threads, NEW i \in Held(d), d # c \/ i # 1,
             1 \in Held(c)
      PROVE  calls[d][i].to # target(c)
  <2>1. initMX[calls[d][i].to] = d /\ initMX[calls[c][1].to] = c
    BY <1>3, Zenon DEF LockInv
  <2>2. target(c) = calls[c][1].to
    BY <1>3 DEF target, Top, Held, TypeInv
  <2>3. CASE d # c
    BY <2>1, <2>2, <2>3, Zenon
  <2>4. CASE d = c
    BY <1>3, <2>2, <2>4 DEF LockInv
  <2>5. QED
    BY <2>3, <2>4, Zenon
<1>4. ASSUME NEW d \in Threads, NEW i \in Held(d), d # c \/ i # 1 \/ initMX' = initMX
      PROVE  initMX'[calls[d][i].to] = d
  <2>1. calls[d][i].to \in Services
    <3>1. calls[d] \in Seq(Frames) /\ i \in DOMAIN calls[d]
      BY Zenon DEF Held, TypeInv
    <3>2. calls[d][i] \in Frames
      BY <3>1
    <3>3. QED
      BY <3>2, Zenon DEF Frames
  <2>2. initMX[calls[d][i].to] = d
    BY Zenon DEF LockInv
  <2>3. CASE initMX' = initMX
    BY <2>2, <2>3, Zenon
  <2>4. CASE initMX' # initMX
    BY <1>3, <1>4, <2>1, <2>2, <2>4, Zenon DEF Unlocked, TypeInv
  <2>5. QED
    BY <2>3, <2>4, Zenon
<1>5. ASSUME NEW i \in Held(c)' PROVE initMX'[calls'[c][i].to] = c
  <2>1. i + k \in Held(c) /\ calls'[c][i].to = calls[c][i + k].to /\ (i + k # 1 \/ initMX' = initMX)
    BY Zenon
  <2>2. QED
    BY <1>4, <2>1, Zenon
<1>6. ASSUME NEW d \in Threads, d # c, NEW i \in Held(d)' PROVE initMX'[calls'[d][i].to] = d
  BY <1>1, <1>4, <1>6
<1>7. ASSUME NEW d \in Threads, d # c, NEW i \in Held(d)', NEW j \in Held(d)', calls'[d][i].to = calls'[d][j].to
      PROVE  i = j
  BY <1>1, <1>7 DEF LockInv
<1>8. QED
  BY <1>2, <1>5, <1>6, <1>7, Zenon DEF LockInv

\* The end of a call.
LEMMA LockReturn ==
    ASSUME TypeInv, LockInv, NEW c \in Threads, pc[c] # "idle", Return(c),
           \/ initMX' = initMX
           \/ initMX' = Unlocked(c) /\ pc[c] \in Locked
    PROVE  LockInv'
<1>1. /\ calls'[c] = Tail(calls[c]) /\ pc'[c] \in {"idle", "started"}
      /\ \A d \in Threads \ {c} : pc'[d] = pc[d] /\ calls'[d] = calls[d]
  BY ReturnType, Zenon
<1>2. ASSUME NEW i \in Held(c)'
      PROVE  i \in Nat /\ i + 1 \in Held(c) /\ calls'[c][i].to = calls[c][i + 1].to /\ i + 1 # 1
  <2>1. i \in DOMAIN Tail(calls[c]) /\ calls[c] \in Seq(Frames) /\ calls[c] # <<>>
    BY <1>1, <1>2, Zenon DEF Held, TypeInv
  <2>2. i \in Nat /\ i # 0 /\ i + 1 \in DOMAIN calls[c] /\ Tail(calls[c])[i] = calls[c][i + 1]
    BY <2>1
  <2>3. QED
    BY <1>1, <2>2 DEF Held
<1>3. pc[c] \in Locked => 1 \in Held(c)
  BY FrameOf, Zenon DEF Held
<1>4. QED
  BY <1>1, <1>2, <1>3, LockKept, Zenon

\* A step inside a call.
LEMMA LockInside ==
    ASSUME TypeInv, LockInv, NEW c \in Threads, pc[c] # "idle",
           \A d \in Threads \ {c} : pc'[d] = pc[d] /\ calls'[d] = calls[d],
           DOMAIN calls'[c] = DOMAIN calls[c],
           \A i \in DOMAIN calls[c] : calls'[c][i].to = calls[c][i].to,
           pc'[c] \in Locked => pc[c] \in Locked,
           \/ initMX' = initMX
           \/ initMX' = Unlocked(c) /\ pc[c] \in Locked /\ pc'[c] \notin Locked
    PROVE  LockInv'
<1>1. ASSUME NEW i \in Held(c)'
      PROVE  /\ i \in Nat /\ i + 0 \in Held(c) /\ calls'[c][i].to = calls[c][i + 0].to
             /\ pc'[c] \notin Locked => i + 0 # 1
  <2>1. i \in DOMAIN calls[c] /\ calls[c] \in Seq(Frames) /\ (i # 1 \/ pc'[c] \in Locked)
    BY <1>1, Zenon DEF Held, TypeInv
  <2>2. i \in Nat /\ i + 0 = i
    BY <2>1
  <2>3. QED
    BY <2>1, <2>2, Zenon DEF Held
<1>2. pc[c] \in Locked => 1 \in Held(c)
  BY FrameOf, Zenon DEF Held
<1>3. QED
  BY <1>1, <1>2, LockKept, Zenon

\* The first call of a thread.
LEMMA LockFirst ==
    ASSUME TypeInv, LockInv, NEW c \in Threads, NEW l \in {"idle", "find"}, NEW f, initMX' = initMX,
           pc' = [pc EXCEPT ![c] = l], calls' = [calls EXCEPT ![c] = f],
           f = <<>> \/ \E x : f = <<x>>
    PROVE  LockInv'
<1>1. /\ pc'[c] = l /\ calls'[c] = f /\ l \notin Locked
      /\ \A d \in Threads \ {c} : pc'[d] = pc[d] /\ calls'[d] = calls[d]
  BY Zenon DEF TypeInv, Locked
<1>2. \A i \in DOMAIN f : i = 1
  OBVIOUS
<1>3. Held(c)' = {}
  BY <1>1, <1>2, Zenon DEF Held
<1>4. QED
  BY <1>1, <1>3, LockKept, Zenon

LEMMA LockTaken ==
    ASSUME TypeInv, LockInv, NEW c \in Threads, LockInitMX(c)
    PROVE  LockInv'
<1>1. /\ pc[c] = "lock" /\ pc'[c] = "recheck" /\ calls' = calls /\ initMX[target(c)] = NoOne
      /\ initMX' = [initMX EXCEPT ![target(c)] = c]
      /\ \A d \in Threads \ {c} : pc'[d] = pc[d]
  BY Zenon DEF LockInitMX, Go, TypeInv
<1>2. target(c) = calls[c][1].to /\ target(c) \in Services /\ 1 \in DOMAIN calls[c]
  BY <1>1, FrameOf, Zenon DEF target
<1>3. Held(c)' = Held(c) \cup {1} /\ 1 \notin Held(c)
  BY <1>1, <1>2, Zenon DEF Held, Locked
<1>4. \A d \in Threads \ {c} : Held(d)' = Held(d)
  BY <1>1, Zenon DEF Held
<1>5. \A d \in Threads : \A i \in Held(d) : initMX[calls[d][i].to] = d /\ calls[d][i].to # target(c)
  BY <1>1, Constants DEF LockInv
<1>6. ASSUME NEW d \in Threads, NEW i \in Held(d) PROVE initMX'[calls[d][i].to] = d
  BY <1>1, <1>5 DEF TypeInv
<1>7. initMX'[calls[c][1].to] = c
  BY <1>1, <1>2, Zenon DEF TypeInv
<1>8. \A i, j \in Held(c)' : calls[c][i].to = calls[c][j].to => i = j
  BY <1>2, <1>3, <1>5 DEF LockInv
<1>9. \A i \in Held(c)' : initMX'[calls[c][i].to] = c
  BY <1>3, <1>6, <1>7, Zenon
<1>10. \A d \in Threads \ {c} :
          /\ \A i \in Held(d)' : initMX'[calls[d][i].to] = d
          /\ \A i, j \in Held(d)' : calls[d][i].to = calls[d][j].to => i = j
  BY <1>4, <1>6 DEF LockInv
<1>11. QED
  BY <1>1, <1>8, <1>9, <1>10, Zenon DEF LockInv

LEMMA LockPush ==
    ASSUME TypeInv, LockInv, NEW c \in Threads, pc[c] = "start", pc' = [pc EXCEPT ![c] = "find"],
           NEW f \in Frames, calls' = [calls EXCEPT ![c] = <<f>> \o calls[c]], initMX' = initMX
    PROVE  LockInv'
<1> DEFINE s == <<f>> \o calls[c]
<1>1. \A i \in DOMAIN s : i # 1 => i - 1 \in DOMAIN calls[c] /\ s[i] = calls[c][i - 1]
  BY PushType DEF TypeInv
<1>2. s \in Seq(Frames)
  BY PushType, Zenon DEF TypeInv
<1> HIDE DEF s
<1>3. /\ calls'[c] = s /\ pc'[c] = "find"
      /\ \A d \in Threads \ {c} : pc'[d] = pc[d] /\ calls'[d] = calls[d]
  BY Zenon DEF s, TypeInv
<1>4. ASSUME NEW i \in Held(c)'
      PROVE  i \in Nat /\ i + (-1) \in Held(c) /\ calls'[c][i].to = calls[c][i + (-1)].to
  <2>1. i \in DOMAIN s /\ i # 1
    BY <1>3, <1>4, Zenon DEF Held, Locked
  <2>2. i \in Nat /\ i + (-1) = i - 1
    BY <1>2, <2>1
  <2>3. i - 1 \in Held(c) /\ s[i] = calls[c][i - 1]
    BY <1>1, <2>1, Zenon DEF Held, Locked
  <2>4. QED
    BY <1>3, <2>2, <2>3, Zenon
<1>5. QED
  BY <1>3, <1>4, LockKept, Zenon

LEMMA LockStep ==
    ASSUME TypeInv, LockInv, [Next]_vars
    PROVE  LockInv'
<1> USE DEF registry, callVars
<1>1. ASSUME NEW c \in Callers, NEW s \in Services, SendEvent(c, s) PROVE LockInv'
  <2> DEFINE f == Call(s, <<c, Len(sent[c]) + 1>>)
             t == IF m_terminating THEN <<>> ELSE <<f>>
  <2>1. /\ calls' = [calls EXCEPT ![c] = t] /\ initMX' = initMX
        /\ pc' = [pc EXCEPT ![c] = IF m_terminating THEN "idle" ELSE "find"]
    BY <1>1, Zenon DEF SendEvent, Go
  <2> HIDE DEF f
  <2>2. c \in Threads /\ (t = <<>> \/ \E x : t = <<x>>)
    BY Constants, Zenon
  <2> HIDE DEF t
  <2>3. QED
    BY <2>1, <2>2, LockFirst, Zenon
<1>2. ASSUME InitServices PROVE LockInv'
  <2>1. CASE UNCHANGED <<callVars, initMX>>
    BY <2>1 DEF LockInv, Held
  <2>2. CASE /\ pc' = [pc EXCEPT ![Main] = "find"] /\ initMX' = initMX
             /\ calls' = [calls EXCEPT ![Main] = <<Call(Head(startNames), NoEvent)>>]
    BY <2>2, LockFirst, Constants, Zenon
  <2>3. QED
    BY <1>2, <2>1, <2>2, Zenon DEF InitServices, Go
<1>3. ASSUME NEW c \in Threads, NEW m \in Labels \ {"idle"}, NEW l \in Labels, Go(c, m, l),
             UNCHANGED <<calls, initMX>>, l \in Locked => m \in Locked
      PROVE  LockInv'
  BY <1>3, LockInside, GoType
<1>4. ASSUME NEW c \in Threads, Find(c) PROVE LockInv'
  <2>1. pc[c] = "find" /\ pc'[c] \notin Locked /\ initMX' = initMX /\ SetU(c, container[target(c)])
        /\ \A d \in Threads \ {c} : pc'[d] = pc[d]
    BY <1>4, Zenon DEF Find, Go, TypeInv, Locked
  <2>2. container[target(c)] \in Nat
    BY <2>1, FrameOf, Zenon DEF TypeInv
  <2>3. QED
    BY <2>1, <2>2, SetUType, LockInside, Zenon
<1>5. ASSUME NEW c \in Threads, InitService(c) PROVE LockInv'
  <2>1. pc[c] # "idle" /\ initMX' = initMX
    BY <1>5, Zenon DEF InitService
  <2>2. QED
    BY <1>3, <1>5, <2>1, LockReturn, Zenon DEF InitService, Labels, Locked
<1>6. ASSUME NEW c \in Threads, pc[c] \in Locked, Found(c) PROVE LockInv'
  <2>1. pc[c] # "idle" /\ pc'[c] = "deliver" /\ initMX' = Unlocked(c) /\ SetU(c, container[target(c)])
        /\ \A d \in Threads \ {c} : pc'[d] = pc[d]
    BY <1>6, Zenon DEF Found, TypeInv, Locked
  <2>2. container[target(c)] \in Nat
    BY <2>1, FrameOf, Zenon DEF TypeInv
  <2>3. pc'[c] \notin Locked
    BY <2>1, Zenon DEF Locked
  <2>4. QED
    BY <1>6, <2>1, <2>2, <2>3, SetUType, LockInside, Zenon
<1>7. ASSUME NEW c \in Threads, pc[c] \in Locked, ReturnNULL(c) PROVE LockInv'
  BY <1>7, LockReturn, Zenon DEF ReturnNULL, Locked
<1>8. ASSUME NEW c \in Threads, Recheck(c) PROVE LockInv'
  BY <1>3, <1>6, <1>8, Zenon DEF Recheck, Labels, Locked
<1>9. ASSUME NEW c \in Threads, FindConstructor(c) PROVE LockInv'
  BY <1>3, <1>7, <1>9, Zenon DEF FindConstructor, Labels, Locked
<1>10. ASSUME NEW c \in Threads, CheckTerminating(c) PROVE LockInv'
  BY <1>3, <1>7, <1>10, Zenon DEF CheckTerminating, Labels, Locked
<1>11. ASSUME NEW c \in Threads, RecheckLocked(c) PROVE LockInv'
  BY <1>3, <1>6, <1>11, Zenon DEF RecheckLocked, Labels, Locked
<1>12. ASSUME NEW c \in Threads, Insert(c) PROVE LockInv'
  <2>1. pc[c] = "insert" /\ pc'[c] = "inserted" /\ initMX' = initMX /\ SetU(c, Len(object) + 1)
        /\ \A d \in Threads \ {c} : pc'[d] = pc[d]
    BY <1>12, Zenon DEF Insert, Go, TypeInv
  <2>2. Len(object) + 1 \in Nat
    BY DEF TypeInv
  <2>3. pc[c] \in Locked /\ pc[c] # "idle"
    BY <2>1, Zenon DEF Locked
  <2>4. QED
    BY <2>1, <2>2, <2>3, SetUType, LockInside, Zenon
<1>13. ASSUME NEW c \in Threads, CheckInserted(c) PROVE LockInv'
  BY <1>3, <1>7, <1>13, Zenon DEF CheckInserted, Labels, Locked
<1>14. ASSUME NEW c \in Threads, Fault(c), pc[c] # "idle" PROVE LockInv'
  <2>1. /\ pc'[c] = "fault" /\ \A d \in Threads \ {c} : pc'[d] = pc[d]
        /\ UNCHANGED <<calls, initMX>> /\ "fault" \notin Locked
    BY <1>14, Zenon DEF Fault, TypeInv, Locked
  <2>2. QED
    BY <1>14, <2>1, LockInside, Zenon
<1>15. ASSUME NEW c \in Threads, SendStartService(c) PROVE LockInv'
  <2>1. CASE Fault(c)
    BY <1>14, <1>15, <2>1, Zenon DEF SendStartService
  <2>2. CASE Go(c, "start", "started") /\ UNCHANGED <<calls, initMX>>
    BY <1>3, <2>2, Zenon DEF Labels, Locked
  <2>3. CASE /\ Go(c, "start", "find") /\ StartSends[target(c)] # NoOne /\ initMX' = initMX
             /\ calls' = [calls EXCEPT ![c] = <<Call(StartSends[target(c)], <<target(c), 1>>)>> \o @]
    <3>1. pc[c] = "start" /\ pc' = [pc EXCEPT ![c] = "find"]
      BY <2>3, Zenon DEF Go
    <3>2. target(c) \in Services /\ <<target(c), 1>> \in Events
      BY <3>1, FrameOf DEF Events
    <3> DEFINE f == Call(StartSends[target(c)], <<target(c), 1>>)
    <3>3. f \in Frames
      BY <2>3, <3>2, Constants, CallType, Zenon
    <3>4. calls' = [calls EXCEPT ![c] = <<f>> \o calls[c]]
      BY <2>3, Zenon
    <3> HIDE DEF f
    <3>5. QED
      BY <2>3, <3>1, <3>3, <3>4, LockPush, Zenon
  <2>4. QED
    BY <1>15, <2>1, <2>2, <2>3, Zenon DEF SendStartService
<1>16. ASSUME NEW c \in Threads, Started(c) PROVE LockInv'
  <2>1. /\ pc[c] = "started" /\ pc'[c] = "deliver" /\ initMX' = Unlocked(c) /\ calls' = calls
        /\ \A d \in Threads \ {c} : pc'[d] = pc[d]
    BY <1>16, Zenon DEF Started, Go, TypeInv
  <2>2. pc[c] \in Locked /\ pc'[c] \notin Locked
    BY <2>1, Zenon DEF Locked
  <2>3. QED
    BY <2>1, <2>2, LockInside, Zenon
<1>17. ASSUME NEW c \in Threads, Deliver(c) PROVE LockInv'
  <2>1. pc[c] # "idle" /\ (Fault(c) \/ (Return(c) /\ initMX' = initMX))
    BY <1>17, Zenon DEF Deliver
  <2>2. QED
    BY <1>14, <2>1, LockReturn, Zenon
<1>18. ASSUME UNCHANGED <<pc, calls, initMX>> PROVE LockInv'
  BY <1>18 DEF LockInv, Held
<1>19. ASSUME Destructor \/ UNCHANGED vars PROVE LockInv'
  BY <1>18, <1>19, Zenon DEF Destructor, SetTerminating, TakeServices, Destroyed, DeinitService,
     vars
<1>20. ASSUME NEW c \in Threads, UseDestroyed(c) PROVE LockInv'
  <2>1. /\ pc[c] # "idle" /\ pc'[c] = "fault" /\ \A d \in Threads \ {c} : pc'[d] = pc[d]
        /\ UNCHANGED <<calls, initMX>> /\ "fault" \notin Locked
    BY <1>20, Zenon DEF UseDestroyed, TypeInv, Locked
  <2>2. QED
    BY <2>1, LockInside, Zenon
<1>21. QED
  BY <1>1, <1>2, <1>4, <1>5, <1>8, <1>9, <1>10, <1>11, <1>12, <1>13, <1>15, <1>16, <1>17,
     <1>19, <1>20, LockTaken, Zenon
  DEF Next, InstanceStep, CallStep
-----------------------------------------------------------------------------
(* One object per service.                                                 *)

\* Two threads are not both inside initService() for one service.
LEMMA OneCreator ==
    ASSUME TypeInv, LockInv, NEW c \in Threads, NEW d \in Threads,
           pc[c] \in Locked, pc[d] \in Locked, target(c) = target(d)
    PROVE  c = d
<1>1. /\ 1 \in DOMAIN calls[c] /\ calls[c][1].to = target(c)
      /\ 1 \in DOMAIN calls[d] /\ calls[d][1].to = target(d)
  BY FrameOf, Zenon DEF Locked, target
<1>2. 1 \in Held(c) /\ 1 \in Held(d)
  BY <1>1, Zenon DEF Held
<1>3. QED
  BY <1>1, <1>2 DEF LockInv

\* A step of a thread that neither creates an object nor is about to.
LEMMA ObjectSame ==
    ASSUME ObjectInv, UNCHANGED <<dpc, container>>, DOMAIN object' = DOMAIN object,
           \A o \in DOMAIN object :
               object'[o].service = object[o].service /\ object'[o].late = object[o].late,
           NEW c \in Threads, \A d \in Threads \ {c} : pc'[d] = pc[d] /\ calls'[d] = calls[d],
           pc'[c] = "insert" => container[target(c)'] = 0
    PROVE  ObjectInv'
<1>1. OneObject'
  BY ZenonT(60) DEF ObjectInv, OneObject
<1>2. ASSUME NEW d \in Threads, pc'[d] = "insert", dpc \in {"run", "swap"}
      PROVE  container[target(d)'] = 0
  <2>1. CASE d = c
    BY <1>2, <2>1, Zenon
  <2>2. CASE d # c
    BY <1>2, <2>2, Zenon DEF ObjectInv, target, Top
  <2>3. QED
    BY <2>1, <2>2, Zenon
<1>3. dpc \in {"run", "swap"} => \A o \in DOMAIN object' : container'[object'[o].service] = o
  BY Zenon DEF ObjectInv
<1>4. QED
  BY <1>1, <1>2, <1>3, Zenon DEF ObjectInv

LEMMA ObjectInserted ==
    ASSUME TypeInv, LockInv, ObjectInv, NEW c \in Threads, Insert(c)
    PROVE  ObjectInv'
<1> DEFINE n == Len(object) + 1
           s == target(c)
<1>1. /\ pc[c] = "insert" /\ pc'[c] = "inserted" /\ dpc' = dpc
      /\ \A d \in Threads \ {c} : pc'[d] = pc[d]
  BY Zenon DEF Insert, Go, TypeInv
<1>2. s \in Services /\ SetU(c, n) /\ n \in Nat /\ n # 0
  BY <1>1, FrameOf DEF Insert, TypeInv
<1>3. \A d \in Threads \ {c} : calls'[d] = calls[d]
  BY <1>1, <1>2, SetUType, Zenon
<1> DEFINE r == [service |-> s, given |-> <<>>, deleted |-> FALSE, late |-> dpc \notin {"run", "swap"}]
<1>4. /\ object \in Seq(Objects) /\ object' = Append(object, r)
      /\ container' = [container EXCEPT ![s] = IF @ = 0 THEN n ELSE @]
      /\ container \in [Services -> Nat]
  BY Zenon DEF Insert, TypeInv
<1>5. r.service = s /\ r.late = (dpc \notin {"run", "swap"})
  BY Zenon
<1> HIDE DEF s, r
<1>6. /\ DOMAIN object' = DOMAIN object \cup {n} /\ n \notin DOMAIN object
      /\ object'[n] = r /\ \A o \in DOMAIN object : object'[o] = object[o]
  BY <1>4
<1>7. ASSUME NEW o \in DOMAIN object PROVE object[o].service \in Services
  <2>1. object[o] \in Objects
    BY <1>4
  <2>2. QED
    BY <2>1, Zenon DEF Objects
<1> HIDE DEF n
<1>8. CASE dpc \in {"run", "swap"}
  <2>1. container[s] = 0
    BY <1>1, <1>8, Zenon DEF ObjectInv, s
  <2>2. \A o \in DOMAIN object : container[object[o].service] = o /\ o # 0
    BY <1>4, <1>8 DEF ObjectInv
  <2>3. \A o \in DOMAIN object : object[o].service # s
    BY <2>1, <2>2, Zenon
  <2>4. \A o \in DOMAIN object' : container'[object'[o].service] = o
    BY <1>2, <1>4, <1>5, <1>6, <1>7, <2>1, <2>2, <2>3 DEF s
  <2>5. OneObject'
    BY <2>4, Zenon DEF OneObject
  <2>6. ASSUME NEW d \in Threads, pc'[d] = "insert" PROVE container'[target(d)'] = 0
    <3>1. d # c /\ pc[d] = "insert" /\ target(d)' = target(d)
      BY <1>1, <1>3, <2>6, Zenon DEF target, Top
    <3>2. target(d) # s
      BY <1>1, <3>1, OneCreator, Zenon DEF Locked, s
    <3>3. target(d) \in Services /\ container[target(d)] = 0
      BY <1>8, <3>1, FrameOf, Zenon DEF ObjectInv
    <3>4. QED
      BY <1>4, <3>1, <3>2, <3>3, Zenon
  <2>7. QED
    BY <2>4, <2>5, <2>6, Zenon DEF ObjectInv
<1>9. CASE dpc \notin {"run", "swap"}
  <2>1. OneObject'
    BY <1>5, <1>6, <1>9, Zenon DEF ObjectInv, OneObject
  <2>2. QED
    BY <1>1, <1>9, <2>1, Zenon DEF ObjectInv
<1>10. QED
  BY <1>8, <1>9, Zenon

\* What a step of a thread does to the others, and to the objects, unless it creates one.
LEMMA OthersSame ==
    ASSUME TypeInv, NEW c \in Threads, CallStep(c) \/ UseDestroyed(c)
    PROVE  /\ \A d \in Threads \ {c} : pc'[d] = pc[d] /\ calls'[d] = calls[d]
           /\ dpc' = dpc /\ m_terminating' = m_terminating /\ pc[c] # "idle"
<1> USE DEF TypeInv, Go, Return, ReturnNULL, SetU, Found, Fault
<1>1. CASE Find(c) \/ InitService(c) \/ LockInitMX(c) \/ Recheck(c) \/ FindConstructor(c)
  BY <1>1, Zenon DEF Find, InitService, LockInitMX, Recheck, FindConstructor
<1>2. CASE CheckTerminating(c) \/ RecheckLocked(c) \/ Insert(c) \/ CheckInserted(c)
  BY <1>2, Zenon DEF CheckTerminating, RecheckLocked, Insert, CheckInserted
<1>3. CASE SendStartService(c) \/ Started(c) \/ Deliver(c) \/ UseDestroyed(c)
  BY <1>3, Zenon DEF SendStartService, Started, Deliver, UseDestroyed
<1>4. QED
  BY <1>1, <1>2, <1>3, Zenon DEF CallStep

LEMMA GivenSame ==
    ASSUME TypeInv, NEW c \in Threads, CallStep(c) \/ UseDestroyed(c), ~Insert(c)
    PROVE  /\ container' = container /\ DOMAIN object' = DOMAIN object
           /\ \A o \in DOMAIN object :
                  object'[o].service = object[o].service /\ object'[o].late = object[o].late
<1> USE DEF registry
<1>1. CASE UNCHANGED <<container, object>>
  BY <1>1, Zenon
<1>2. CASE SendStartService(c)
  BY <1>2, GiveType, Zenon DEF SendStartService, Fault, TypeInv
<1>3. CASE Deliver(c)
  <2>1. Top(c).event \in Events
    BY <1>3, FrameOf, Zenon DEF Deliver
  <2>2. QED
    BY <1>3, <2>1, GiveType, Zenon DEF Deliver, Fault, TypeInv
<1>4. QED
  BY <1>1, <1>2, <1>3, Zenon DEF CallStep, UseDestroyed, Find, InitService, LockInitMX, Recheck,
     FindConstructor,
     CheckTerminating, RecheckLocked, CheckInserted, Started

LEMMA ObjectStep ==
    ASSUME TypeInv, LockInv, ObjectInv, [Next]_vars
    PROVE  ObjectInv'
<1> USE DEF registry, callVars
<1>1. ASSUME NEW c \in Threads, RecheckLocked(c) PROVE pc'[c] = "insert" => container[target(c)'] = 0
  <2>1. CASE Found(c)
    BY <2>1, Zenon DEF Found, TypeInv
  <2>2. CASE container[target(c)] = 0 /\ UNCHANGED calls
    BY <2>2, Zenon DEF target, Top
  <2>3. QED
    BY <1>1, <2>1, <2>2, Zenon DEF RecheckLocked
<1>2. ASSUME NEW c \in Threads, CallStep(c) \/ UseDestroyed(c), ~RecheckLocked(c), ~Insert(c)
      PROVE  pc'[c] # "insert"
  BY <1>2, Zenon DEF CallStep, UseDestroyed, Find, InitService, LockInitMX, Recheck,
     FindConstructor,
     CheckTerminating, CheckInserted, Started, SendStartService, Deliver, Go, Return, ReturnNULL,
     Found,
     Fault, TypeInv
<1>3. ASSUME NEW c \in Threads, CallStep(c) \/ UseDestroyed(c) PROVE ObjectInv'
  <2>1. CASE Insert(c)
    BY <2>1, ObjectInserted, Zenon
  <2>2. CASE ~Insert(c)
    <3>1. pc'[c] = "insert" => container[target(c)'] = 0
      BY <1>1, <1>2, <1>3, <2>2, Zenon
    <3>2. QED
      BY <1>3, <2>2, <3>1, OthersSame, GivenSame, ObjectSame, Zenon
  <2>3. QED
    BY <2>1, <2>2, Zenon
<1>4. ASSUME NEW c \in Callers, NEW s \in Services, SendEvent(c, s) PROVE ObjectInv'
  <2>1. /\ c \in Threads /\ pc'[c] # "insert" /\ UNCHANGED <<dpc, container, object>>
        /\ \A d \in Threads \ {c} : pc'[d] = pc[d] /\ calls'[d] = calls[d]
    BY <1>4, Constants, Zenon DEF SendEvent, Go, TypeInv
  <2>2. QED
    BY <2>1, ObjectSame, Zenon
<1>5. ASSUME InitServices PROVE ObjectInv'
  <2>1. /\ Main \in Threads /\ pc'[Main] # "insert" /\ UNCHANGED <<dpc, container, object>>
        /\ \A d \in Threads \ {Main} : pc'[d] = pc[d] /\ calls'[d] = calls[d]
    BY <1>5, Constants, Zenon DEF InitServices, Go, TypeInv
  <2>2. QED
    BY <2>1, ObjectSame, Zenon
<1>6. ASSUME SetTerminating PROVE ObjectInv'
  BY <1>6, Zenon DEF SetTerminating, GoDestructor, ObjectInv, OneObject, target, Top
<1>7. ASSUME TakeServices \/ Destroyed PROVE ObjectInv'
  BY <1>7, Zenon DEF TakeServices, Destroyed, GoDestructor, ObjectInv, OneObject
<1>8. ASSUME NEW o \in DOMAIN object, DeinitService(o) PROVE ObjectInv'
  <2>1. /\ UNCHANGED <<dpc, container, pc, calls>> /\ DOMAIN object' = DOMAIN object /\ dpc = "deinit"
        /\ \A p \in DOMAIN object :
               object'[p].service = object[p].service /\ object'[p].late = object[p].late
    BY <1>8 DEF DeinitService, TypeInv, Objects
  <2>2. QED
    BY <2>1, Zenon DEF ObjectInv, OneObject
<1>9. ASSUME UNCHANGED vars PROVE ObjectInv'
  BY <1>9, Zenon DEF vars, ObjectInv, OneObject, target, Top
<1>10. QED
  BY <1>3, <1>4, <1>5, <1>6, <1>7, <1>8, <1>9, Zenon DEF Next, InstanceStep, Destructor

-----------------------------------------------------------------------------
(* One startService.                                                       *)

\* A step that leaves the objects alone, and no creation behind.
LEMMA StartSame ==
    ASSUME StartInv, object' = object, m_terminating' = m_terminating, NEW c \in Threads,
           \A d \in Threads \ {c} : pc'[d] = pc[d] /\ calls'[d] = calls[d],
           Creating(c)' => Creating(c) /\ calls'[c] = calls[c],
           Creating(c) => m_terminating \/ (Creating(c)' /\ calls'[c] = calls[c])
    PROVE  StartInv'
<1>1. ASSUME NEW d \in Threads, Creating(d)' PROVE Creating(d) /\ u(d)' = u(d) /\ target(d)' = target(d)
  BY <1>1, Zenon DEF Creating, u, target, Top
<1>2. ASSUME NEW d \in Threads, Creating(d), ~m_terminating PROVE Creating(d)' /\ u(d)' = u(d)
  BY <1>2, Zenon DEF Creating, u, target, Top
<1>3. QED
  BY <1>1, <1>2, Zenon DEF StartInv

LEMMA StartInserted ==
    ASSUME TypeInv, StartInv, NEW c \in Threads, Insert(c)
    PROVE  StartInv'
<1> DEFINE n == Len(object) + 1
           r == [service |-> target(c), given |-> <<>>, deleted |-> FALSE, late |-> dpc \notin {"run", "swap"}]
<1>1. /\ pc[c] = "insert" /\ pc'[c] = "inserted" /\ m_terminating' = m_terminating
      /\ \A d \in Threads \ {c} : pc'[d] = pc[d]
  BY Zenon DEF Insert, Go, TypeInv
<1>2. SetU(c, n) /\ n \in Nat /\ object \in Seq(Objects) /\ object' = Append(object, r)
  BY DEF Insert, TypeInv
<1>3. r.service = target(c) /\ r.given = <<>>
  BY Zenon
<1> HIDE DEF r
<1>4. /\ DOMAIN object' = DOMAIN object \cup {n} /\ n \notin DOMAIN object
      /\ object'[n] = r /\ \A o \in DOMAIN object : object'[o] = object[o]
  BY <1>2
<1>5. target(c)' = target(c) /\ u(c)' = n /\ \A d \in Threads \ {c} : calls'[d] = calls[d]
  <2>1. /\ pc[c] # "idle" /\ calls'[c][1].to = calls[c][1].to
        /\ Head(calls'[c]) = calls'[c][1] /\ calls'[c][1].u = n
        /\ \A d \in Threads \ {c} : calls'[d] = calls[d]
    BY <1>1, <1>2, FrameOf, SetUType, Zenon
  <2>2. QED
    BY <2>1, FrameOf, Zenon DEF target, u, Top
<1> HIDE DEF n
<1>6. ASSUME NEW d \in Threads, Creating(d)'
      PROVE  /\ u(d)' \in DOMAIN object' /\ object'[u(d)'].service = target(d)'
             /\ StartService \notin Range(object'[u(d)'].given)
  <2>1. CASE d = c
    BY <1>3, <1>4, <1>5, <2>1 DEF Range
  <2>2. CASE d # c
    <3>1. Creating(d) /\ u(d)' = u(d) /\ target(d)' = target(d)
      BY <1>1, <1>5, <1>6, <2>2, Zenon DEF Creating, u, target, Top
    <3>2. QED
      BY <1>4, <3>1, Zenon DEF StartInv
  <2>3. QED
    BY <2>1, <2>2, Zenon
<1>7. Creating(c)' /\ ~Creating(c)
  BY <1>1, Zenon DEF Creating
<1>8. ASSUME NEW d \in Threads, Creating(d) PROVE Creating(d)' /\ u(d)' = u(d)
  BY <1>1, <1>5, <1>7, <1>8, Zenon DEF Creating, u, target, Top
<1>9. ASSUME NEW o \in DOMAIN object'
      PROVE  /\ \A i, j \in DOMAIN object'[o].given :
                   object'[o].given[i] = StartService /\ object'[o].given[j] = StartService => i = j
             /\ StartService \notin Range(object'[o].given) =>
                   m_terminating' \/ \E d \in Threads : Creating(d)' /\ u(d)' = o
  <2>1. CASE o = n
    BY <1>3, <1>4, <1>5, <1>7, <2>1
  <2>2. CASE o \in DOMAIN object
    BY <1>1, <1>4, <1>8, <2>2, Zenon DEF StartInv
  <2>3. QED
    BY <1>4, <2>1, <2>2, Zenon
<1>10. QED
  BY <1>6, <1>9, Zenon DEF StartInv

\* An event is given to an object by a thread that then creates none.
LEMMA StartGiven ==
    ASSUME TypeInv, LockInv, StartInv, NEW c \in Threads, NEW e \in Events \cup {StartService}, Give(u(c), e),
           m_terminating' = m_terminating, ~Creating(c)',
           \A d \in Threads \ {c} : pc'[d] = pc[d] /\ calls'[d] = calls[d],
           \/ e # StartService /\ ~Creating(c)
           \/ e = StartService /\ Creating(c)
    PROVE  StartInv'
<1> DEFINE o == u(c)
<1>1. /\ DOMAIN object' = DOMAIN object
      /\ \A p \in DOMAIN object \ {o} : object'[p] = object[p]
      /\ o \in DOMAIN object => /\ object'[o].given = Append(object[o].given, e)
                                /\ object[o].given \in Seq(Events \cup {StartService})
      /\ \A p \in DOMAIN object : object'[p].service = object[p].service
  BY GiveType, Zenon DEF TypeInv
<1> HIDE DEF o
<1>2. o \in DOMAIN object => Range(object'[o].given) = Range(object[o].given) \cup {e}
  <2> SUFFICES ASSUME o \in DOMAIN object PROVE Range(object'[o].given) = Range(object[o].given) \cup {e}
    BY Zenon
  <2> DEFINE g == object[o].given
             h == object'[o].given
  <2>1. g \in Seq(Events \cup {StartService}) /\ h = Append(g, e)
    BY <1>1, Zenon
  <2> HIDE DEF g, h
  <2>2. /\ DOMAIN h = DOMAIN g \cup {Len(g) + 1} /\ h[Len(g) + 1] = e
        /\ \A i \in DOMAIN g : h[i] = g[i]
    BY <2>1
  <2>3. Range(h) = Range(g) \cup {e}
    BY <2>2 DEF Range
  <2>4. QED
    BY <2>3, Zenon DEF g, h
<1>3. ASSUME NEW d \in Threads, Creating(d)'
      PROVE  /\ u(d)' \in DOMAIN object' /\ object'[u(d)'].service = target(d)'
             /\ StartService \notin Range(object'[u(d)'].given)
  <2>1. d # c /\ Creating(d) /\ u(d)' = u(d) /\ target(d)' = target(d)
    BY <1>3, Zenon DEF Creating, u, target, Top
  <2>2. /\ u(d) \in DOMAIN object /\ object[u(d)].service = target(d)
        /\ StartService \notin Range(object[u(d)].given)
    BY <2>1, Zenon DEF StartInv
  <2>3. CASE u(d) # o
    BY <1>1, <2>1, <2>2, <2>3, Zenon
  <2>4. CASE u(d) = o
    <3>1. e # StartService
      <4>1. SUFFICES ASSUME e = StartService PROVE FALSE
        BY Zenon
      <4>2. Creating(c) /\ object[o].service = target(c)
        BY <4>1, Zenon DEF StartInv, o
      <4>3. QED
        BY <2>1, <2>2, <2>4, <4>2, OneCreator, Zenon DEF Creating, Locked
    <3>2. QED
      BY <1>1, <1>2, <2>1, <2>2, <2>4, <3>1, Zenon
  <2>5. QED
    BY <2>3, <2>4, Zenon
<1>4. ASSUME NEW p \in DOMAIN object'
      PROVE  /\ \A i, j \in DOMAIN object'[p].given :
                   object'[p].given[i] = StartService /\ object'[p].given[j] = StartService => i = j
             /\ StartService \notin Range(object'[p].given) =>
                   m_terminating' \/ \E d \in Threads : Creating(d)' /\ u(d)' = p
  <2>1. /\ \A i, j \in DOMAIN object[p].given :
              object[p].given[i] = StartService /\ object[p].given[j] = StartService => i = j
        /\ StartService \notin Range(object[p].given) =>
              m_terminating \/ \E d \in Threads : Creating(d) /\ u(d) = p
    BY <1>1, <1>4, Zenon DEF StartInv
  <2>2. ASSUME NEW d \in Threads, d # c, Creating(d), u(d) = p PROVE Creating(d)' /\ u(d)' = p
    BY <2>2, Zenon DEF Creating, u, Top
  <2>3. CASE p # o
    <3>1. object'[p] = object[p]
      BY <1>1, <1>4, <2>3, Zenon
    <3>2. ASSUME StartService \notin Range(object'[p].given), ~m_terminating
          PROVE  \E d \in Threads : Creating(d)' /\ u(d)' = p
      <4>1. PICK d \in Threads : Creating(d) /\ u(d) = p
        BY <2>1, <3>1, <3>2, Zenon
      <4>2. d # c
        BY <2>3, <4>1, Zenon DEF o
      <4>3. QED
        BY <2>2, <4>1, <4>2, Zenon
    <3>3. QED
      BY <2>1, <3>1, <3>2, Zenon
  <2>4. CASE p = o
    <3>1. /\ object[p].given \in Seq(Events \cup {StartService})
          /\ object'[p].given = Append(object[p].given, e)
      BY <1>1, <1>4, <2>4, Zenon
    <3> DEFINE g == object[p].given
               h == object'[p].given
    <3> HIDE DEF g, h
    <3>2. /\ DOMAIN h = DOMAIN g \cup {Len(g) + 1} /\ h[Len(g) + 1] = e
          /\ \A i \in DOMAIN g : h[i] = g[i]
      BY <3>1 DEF g, h
    <3>3. e = StartService => StartService \notin Range(g)
      BY <2>4, Zenon DEF StartInv, o, g
    <3>4. \A i, j \in DOMAIN h : h[i] = StartService /\ h[j] = StartService => i = j
      BY <2>1, <3>2, <3>3 DEF Range, g
    <3>5. ASSUME StartService \notin Range(h), ~m_terminating
          PROVE  \E d \in Threads : Creating(d)' /\ u(d)' = p
      <4>1. e # StartService /\ StartService \notin Range(g)
        BY <3>2, <3>5, Zenon DEF Range
      <4>2. PICK d \in Threads : Creating(d) /\ u(d) = p
        BY <2>1, <3>5, <4>1, Zenon DEF g
      <4>3. d # c
        BY <4>1, <4>2, Zenon
      <4>4. QED
        BY <2>2, <4>2, <4>3, Zenon
    <3>6. QED
      BY <3>4, <3>5, Zenon DEF h
  <2>5. QED
    BY <2>3, <2>4, Zenon
<1>5. QED
  BY <1>3, <1>4, Zenon DEF StartInv

LEMMA DeletedStep ==
    ASSUME TypeInv, DeletedInv, [Next]_vars
    PROVE  DeletedInv'
<1> SUFFICES ASSUME ~m_terminating' PROVE \A o \in DOMAIN object' : ~object'[o].deleted
  BY Zenon DEF DeletedInv
<1> USE DEF registry
<1>1. m_terminating' = m_terminating \/ m_terminating' = TRUE
  BY OthersSame, Zenon DEF Next, InstanceStep, SendEvent, InitServices, Destructor, SetTerminating,
     TakeServices,
     DeinitService, Destroyed, vars
<1>2. dpc = "run" /\ \A o \in DOMAIN object : ~object[o].deleted
  BY <1>1, Zenon DEF TypeInv, DeletedInv
<1>3. CASE object' = object
  BY <1>2, <1>3, Zenon
<1>4. ASSUME NEW c \in Threads, Insert(c) PROVE \A o \in DOMAIN object' : ~object'[o].deleted
  <2> DEFINE r == [service |-> target(c), given |-> <<>>, deleted |-> FALSE,
                   late |-> dpc \notin {"run", "swap"}]
  <2>1. object' = Append(object, r) /\ object \in Seq(Objects)
    BY <1>4, Zenon DEF Insert, TypeInv
  <2>2. ~r.deleted
    BY Zenon
  <2> HIDE DEF r
  <2>3. QED
    BY <1>2, <2>1, <2>2
<1>5. ASSUME NEW c \in Threads, SendStartService(c) PROVE \A o \in DOMAIN object' : ~object'[o].deleted
  BY <1>2, <1>3, <1>5, GiveType, Zenon DEF SendStartService, Fault, TypeInv
<1>6. ASSUME NEW c \in Threads, Deliver(c) PROVE \A o \in DOMAIN object' : ~object'[o].deleted
  <2>1. Top(c).event \in Events
    BY <1>6, FrameOf, Zenon DEF Deliver
  <2>2. QED
    BY <1>2, <1>3, <1>6, <2>1, GiveType, Zenon DEF Deliver, Fault, TypeInv
<1>7. QED
  BY <1>2, <1>3, <1>4, <1>5, <1>6, Zenon DEF Next, InstanceStep, CallStep, UseDestroyed, Find,
     InitService, LockInitMX,
     Recheck, FindConstructor, CheckTerminating, RecheckLocked, CheckInserted, Started, SendEvent,
     InitServices, Destructor, SetTerminating, TakeServices, DeinitService, Destroyed, vars

LEMMA StartStep ==
    ASSUME TypeInv, LockInv, DeletedInv, StartInv, [Next]_vars
    PROVE  StartInv'
<1> USE DEF registry, callVars
<1>1. ASSUME NEW c \in Threads,
             \/ Find(c) \/ InitService(c) \/ LockInitMX(c) \/ Recheck(c) \/ FindConstructor(c)
             \/ CheckTerminating(c) \/ RecheckLocked(c) \/ Started(c)
      PROVE  StartInv'
  <2>1. object' = object /\ ~Creating(c)
    BY <1>1, Zenon DEF Find, InitService, LockInitMX, Recheck, FindConstructor, CheckTerminating,
       RecheckLocked,
       Started, Go, Creating
  <2>2. pc'[c] \notin {"inserted", "start"}
    BY <1>1, Zenon DEF Find, InitService, LockInitMX, Recheck, FindConstructor, CheckTerminating,
       RecheckLocked,
       Started, Go, Return, ReturnNULL, Found, TypeInv
  <2>3. ~Creating(c)'
    BY <2>2, Zenon DEF Creating
  <2>4. CallStep(c)
    BY <1>1, Zenon DEF CallStep
  <2>5. QED
    BY <2>1, <2>3, <2>4, OthersSame, StartSame, Zenon
<1>2. ASSUME NEW c \in Threads, CheckInserted(c) PROVE StartInv'
  <2>1. /\ object' = object /\ CallStep(c)
        /\ \/ m_terminating /\ pc'[c] \notin {"inserted", "start"}
           \/ pc[c] = "inserted" /\ pc'[c] = "start" /\ calls' = calls
    BY <1>2, Zenon DEF CheckInserted, Go, ReturnNULL, Return, TypeInv, CallStep
  <2>2. QED
    BY <2>1, OthersSame, StartSame, Zenon DEF Creating
<1>3. ASSUME NEW c \in Threads, SendStartService(c) PROVE StartInv'
  <2>1. pc[c] = "start" /\ CallStep(c) /\ Creating(c) /\ u(c) \in DOMAIN object
    BY <1>3, Zenon DEF SendStartService, CallStep, Creating, StartInv
  <2>2. CASE object[u(c)].deleted /\ Fault(c)
    <3>1. m_terminating /\ object' = object /\ pc'[c] = "fault"
      BY <2>1, <2>2, Zenon DEF Fault, DeletedInv, TypeInv
    <3>2. QED
      BY <2>1, <3>1, OthersSame, StartSame, Zenon DEF Creating
  <2>3. CASE Give(u(c), StartService) /\ pc'[c] \in {"started", "find"}
    <3>1. ~Creating(c)'
      BY <2>3, Zenon DEF Creating
    <3>2. QED
      BY <2>1, <2>3, <3>1, OthersSame, StartGiven, Zenon
  <2>4. QED
    BY <1>3, <2>2, <2>3, Zenon DEF SendStartService, Go, TypeInv
<1>4. ASSUME NEW c \in Threads, Deliver(c) PROVE StartInv'
  <2>1. pc[c] = "deliver" /\ CallStep(c) /\ ~Creating(c)
    BY <1>4, Zenon DEF Deliver, CallStep, Creating
  <2>2. ~Creating(c)'
    BY <1>4, Zenon DEF Deliver, Return, Fault, TypeInv, Creating
  <2>3. CASE object' = object
    BY <2>1, <2>2, <2>3, OthersSame, StartSame, Zenon
  <2>4. CASE Give(u(c), Top(c).event)
    <3>1. Top(c).event \in Events /\ Top(c).event # StartService
      BY <2>1, FrameOf, Constants, Zenon
    <3>2. QED
      BY <2>1, <2>2, <2>4, <3>1, OthersSame, StartGiven, Zenon
  <2>5. QED
    BY <1>4, <2>3, <2>4, Zenon DEF Deliver, Fault
<1>5. ASSUME NEW c \in Threads, UseDestroyed(c) PROVE StartInv'
  <2>1. object' = object /\ m_terminating /\ pc'[c] = "fault"
    BY <1>5, Zenon DEF UseDestroyed, TypeInv
  <2>2. QED
    BY <1>5, <2>1, OthersSame, StartSame, Zenon DEF Creating
<1>6. ASSUME NEW c \in Callers, NEW s \in Services, SendEvent(c, s) PROVE StartInv'
  <2>1. /\ c \in Threads /\ UNCHANGED <<object, m_terminating>> /\ ~Creating(c) /\ ~Creating(c)'
        /\ \A d \in Threads \ {c} : pc'[d] = pc[d] /\ calls'[d] = calls[d]
    BY <1>6, Constants, Zenon DEF SendEvent, Go, TypeInv, Creating
  <2>2. QED
    BY <2>1, StartSame, Zenon
<1>7. ASSUME InitServices PROVE StartInv'
  <2>1. /\ Main \in Threads /\ UNCHANGED <<object, m_terminating>> /\ ~Creating(Main) /\ ~Creating(Main)'
        /\ \A d \in Threads \ {Main} : pc'[d] = pc[d] /\ calls'[d] = calls[d]
    BY <1>7, Constants, Zenon DEF InitServices, Go, TypeInv, Creating
  <2>2. QED
    BY <2>1, StartSame, Zenon
<1>8. ASSUME SetTerminating PROVE StartInv'
  BY <1>8, Zenon DEF SetTerminating, StartInv, Creating, u, target, Top
<1>9. ASSUME TakeServices \/ Destroyed \/ UNCHANGED vars PROVE StartInv'
  BY <1>9 DEF TakeServices, Destroyed, vars, StartInv, Creating, u, target, Top
<1>10. ASSUME NEW o \in DOMAIN object, DeinitService(o) PROVE StartInv'
  <2>1. /\ UNCHANGED <<m_terminating, pc, calls>> /\ DOMAIN object' = DOMAIN object
        /\ \A p \in DOMAIN object :
               object'[p].service = object[p].service /\ object'[p].given = object[p].given
    BY <1>10 DEF DeinitService, TypeInv, Objects
  <2>2. QED
    BY <2>1 DEF StartInv, Creating, u, target, Top
<1>11. QED
  BY <1>1, <1>2, <1>3, <1>4, <1>5, <1>6, <1>7, <1>8, <1>9, <1>10, StartInserted, Zenon
  DEF Next, InstanceStep, CallStep, Destructor

LEMMA InstanceInit == Init => TypeInv /\ LockInv /\ ObjectInv /\ DeletedInv /\ StartInv
<1> SUFFICES ASSUME Init PROVE TypeInv /\ LockInv /\ ObjectInv /\ DeletedInv /\ StartInv
  BY Zenon
<1>1. TypeInv
  <2>1. \A S : <<>> \in Seq(S)
    OBVIOUS
  <2>2. object \in Seq(Objects) /\ calls \in [Threads -> Seq(Frames)] /\ sent \in [Callers -> Seq(Services)]
    BY <2>1, Zenon DEF Init
  <2>3. startNames \in Seq(Known \cup {BadName})
    BY StartAssumption, Zenon DEF Init, Known
  <2>4. container \in [Services -> Nat] /\ initMX \in [Services -> Threads \cup {NoOne}]
    BY Zenon DEF Init
  <2>5. pc \in [Threads -> Labels] /\ \A c \in Threads : pc[c] = "idle"
    BY Zenon DEF Init, Labels
  <2>6. m_terminating = FALSE /\ dpc = "run"
    BY Zenon DEF Init
  <2>7. QED
    BY <2>2, <2>3, <2>4, <2>5, <2>6, Zenon DEF TypeInv
<1>2. LockInv
  BY DEF Init, LockInv, Held
<1>3. ObjectInv
  BY DEF Init, ObjectInv, OneObject
<1>4. DeletedInv /\ StartInv
  BY DEF Init, DeletedInv, StartInv, Creating
<1>5. QED
  BY <1>1, <1>2, <1>3, <1>4, Zenon

\* However many threads send their first event to a service at the same time, and
\* whatever the startService handlers send in turn, initService() creates one object.
THEOREM OneObjectPerService == Spec => []OneObject
<1>1. ObjectInv => OneObject
  BY Zenon DEF ObjectInv
<1>2. TypeInv /\ LockInv /\ ObjectInv /\ [Next]_vars => (TypeInv /\ LockInv /\ ObjectInv)'
  BY TypeStep, LockStep, ObjectStep, Zenon
<1>3. QED
  BY <1>1, <1>2, InstanceInit, PTL DEF Spec

\* An object that is in use has been given startService once, or its creator holds the
\* mutex of initService() and is about to give it, or the instance ends.
THEOREM ServicesStartedOnce == Spec => []StartedOnce
<1>1. ASSUME TypeInv, LockInv, StartInv PROVE StartedOnce
  <2>1. ASSUME NEW o \in DOMAIN object, NEW c \in Threads, Creating(c), u(c) = o
        PROVE  initMX[object[o].service] # NoOne
    <3>1. 1 \in Held(c) /\ calls[c][1].to = target(c)
      BY <1>1, <2>1, FrameOf, Zenon DEF Creating, Held, Locked, target
    <3>2. initMX[target(c)] = c /\ object[o].service = target(c)
      BY <1>1, <2>1, <3>1, Zenon DEF LockInv, StartInv
    <3>3. QED
      BY <3>2, Constants, Zenon
  <2>2. QED
    BY <1>1, <2>1, Zenon DEF StartInv, StartedOnce
<1>2. TypeInv /\ LockInv /\ DeletedInv /\ StartInv /\ [Next]_vars
          => (TypeInv /\ LockInv /\ DeletedInv /\ StartInv)'
  BY TypeStep, LockStep, DeletedStep, StartStep, Zenon
<1>3. QED
  BY <1>1, <1>2, InstanceInit, PTL DEF Spec
-----------------------------------------------------------------------------
(* Delivery in order.                                                      *)

Log == Seq(Events \cup {StartService})

\* The places of a log that hold the events of thread c.
Mine(g, c) == {i \in DOMAIN g : g[i][1] = c}

\* The events of thread c in the log g of service s are those of its first k events
\* that it sent to s, in order; q is what it has sent.
InOrder(g, q, c, s, k) ==
    /\ \A i \in Mine(g, c) : g[i][2] \in DOMAIN q /\ q[g[i][2]] = s /\ g[i][2] <= k
    /\ \A n \in DOMAIN q : q[n] = s /\ n <= k => \E i \in Mine(g, c) : g[i][2] = n
    /\ \A i, j \in Mine(g, c) : i < j => g[i][2] < g[j][2]

\* The labels at which initService() has an object.
Having == {"inserted", "start", "started", "deliver"}

\* The object that a call has found or created is that of its service.
HasObject(f) == f.u # 0 /\ container[f.to] = f.u

\* The calls of thread c: the outer ones and the one that is about to deliver have
\* their object, only the outermost carries an event of a caller, and that is the
\* last one it has sent.
CallOk(c) ==
    /\ \A i \in DOMAIN calls[c] : i # 1 \/ pc[c] \in Having => HasObject(calls[c][i])
    /\ \A i \in DOMAIN calls[c] :
           calls[c][i].event[1] \in Callers => calls[c][i].event[1] = c /\ i = Len(calls[c])
    /\ c \in Callers /\ pc[c] # "idle" =>
           /\ Len(sent[c]) # 0 /\ calls[c][Len(calls[c])].event = <<c, Len(sent[c])>>
           /\ calls[c][Len(calls[c])].to = sent[c][Len(sent[c])]

LinkInv ==
    \A s \in Services :
        container[s] # 0 => container[s] \in DOMAIN object /\ object[container[s]].service = s

\* How many of the events of a caller have been dealt with.
Done(c) == IF pc[c] = "idle" THEN Len(sent[c]) ELSE Len(sent[c]) - 1

OrderInv == \A c \in Callers, s \in Known : InOrder(Given(s), sent[c], c, s, Done(c))

\* Nothing is promised once the destructor has begun.
DeliveryInv == ~m_terminating => /\ \A c \in Threads : CallOk(c)
                                 /\ LinkInv
                                 /\ OrderInv

LEMMA OrderAppend ==
    ASSUME NEW g \in Log, NEW q \in Seq(Services), NEW c \in Callers, NEW s \in Services, NEW k \in Nat,
           k + 1 \in DOMAIN q, q[k + 1] = s, InOrder(g, q, c, s, k)
    PROVE  InOrder(Append(g, <<c, k + 1>>), q, c, s, k + 1)
<1> DEFINE h == Append(g, <<c, k + 1>>)
           m == Len(g) + 1
<1>1. /\ m \in Nat /\ DOMAIN h = DOMAIN g \cup {m} /\ h[m][1] = c /\ h[m][2] = k + 1
      /\ \A i \in DOMAIN g : h[i] = g[i] /\ i \in Nat /\ i < m
  BY DEF Log
<1> HIDE DEF h, m
<1>2. Mine(h, c) = Mine(g, c) \cup {m} /\ \A i \in Mine(g, c) : h[i] = g[i] /\ i \in Nat /\ i < m
  BY <1>1 DEF Mine
<1>3. \A i \in Mine(g, c) : g[i][2] \in DOMAIN q /\ g[i][2] \in Nat /\ q[g[i][2]] = s /\ g[i][2] <= k
  BY DEF InOrder
<1>4. \A i \in Mine(h, c) : h[i][2] \in DOMAIN q /\ q[h[i][2]] = s /\ h[i][2] <= k + 1
  BY <1>1, <1>2, <1>3
<1>5. ASSUME NEW n \in DOMAIN q, q[n] = s, n <= k + 1 PROVE \E i \in Mine(h, c) : h[i][2] = n
  <2>1. CASE n = k + 1
    BY <1>1, <1>2, <2>1
  <2>2. CASE n <= k
    BY <1>2, <1>5, <2>2 DEF InOrder
  <2>3. QED
    BY <1>5, <2>1, <2>2
<1>6. \A i, j \in Mine(h, c) : i < j => h[i][2] < h[j][2]
  BY <1>1, <1>2, <1>3, SMTT(30) DEF InOrder
<1>7. QED
  BY <1>4, <1>5, <1>6, Zenon DEF InOrder, h

LEMMA OrderSkip ==
    ASSUME NEW g \in Log, NEW q \in Seq(Services), NEW c \in Callers, NEW s \in Services, NEW k \in Nat,
           q[k + 1] # s, InOrder(g, q, c, s, k)
    PROVE  InOrder(g, q, c, s, k + 1)
<1>1. \A i \in Mine(g, c) : g[i][2] \in DOMAIN q /\ q[g[i][2]] = s /\ g[i][2] <= k + 1
  BY DEF InOrder
<1>2. \A n \in DOMAIN q : q[n] = s /\ n <= k + 1 => \E i \in Mine(g, c) : g[i][2] = n
  BY DEF InOrder
<1>3. QED
  BY <1>1, <1>2, Zenon DEF InOrder

LEMMA OrderOther ==
    ASSUME NEW g \in Log, NEW q \in Seq(Services), NEW c \in Callers, NEW s \in Services, NEW k,
           NEW e \in Events \cup {StartService}, e[1] # c, InOrder(g, q, c, s, k)
    PROVE  InOrder(Append(g, e), q, c, s, k)
<1> DEFINE h == Append(g, e)
<1>1. DOMAIN h = DOMAIN g \cup {Len(g) + 1} /\ h[Len(g) + 1] = e /\ \A i \in DOMAIN g : h[i] = g[i]
  BY DEF Log
<1> HIDE DEF h
<1>2. Mine(h, c) = Mine(g, c) /\ \A i \in Mine(g, c) : h[i] = g[i]
  BY <1>1 DEF Mine
<1>3. QED
  BY <1>2, Zenon DEF InOrder, h

LEMMA OrderSent ==
    ASSUME NEW g \in Log, NEW q \in Seq(Services), NEW c \in Callers, NEW s \in Services, NEW t \in Services,
           InOrder(g, q, c, s, Len(q))
    PROVE  InOrder(g, Append(q, t), c, s, Len(q))
<1> DEFINE r == Append(q, t)
<1>1. /\ DOMAIN q \subseteq DOMAIN r /\ \A n \in DOMAIN q : r[n] = q[n]
      /\ \A n \in DOMAIN r : n <= Len(q) => n \in DOMAIN q
  OBVIOUS
<1> HIDE DEF r
<1>2. QED
  BY <1>1, Zenon DEF InOrder, r

\* What the object of a service is given goes to its log and to no other.
LEMMA GivenAppended ==
    ASSUME TypeInv, LinkInv, NEW t \in Services, container[t] # 0, container' = container,
           NEW e \in Events \cup {StartService}, Give(container[t], e)
    PROVE  /\ Given(t)' = Append(Given(t), e)
           /\ \A s \in Services \ {t} : Given(s)' = Given(s)
           /\ LinkInv'
<1>1. /\ DOMAIN object' = DOMAIN object
      /\ \A p \in DOMAIN object \ {container[t]} : object'[p] = object[p]
      /\ container[t] \in DOMAIN object
      /\ object'[container[t]].given = Append(object[container[t]].given, e)
      /\ \A p \in DOMAIN object : object'[p].service = object[p].service
  BY GiveType, Zenon DEF TypeInv, LinkInv
<1>2. \A s \in Services \ {t} : container[s] # 0 =>
          container[s] \in DOMAIN object /\ container[s] # container[t]
  BY Zenon DEF LinkInv
<1>3. Given(t)' = Append(Given(t), e)
  BY <1>1, Zenon DEF Given
<1>4. \A s \in Services \ {t} : Given(s)' = Given(s)
  BY <1>1, <1>2, Zenon DEF Given
<1>5. LinkInv'
  BY <1>1, Zenon DEF LinkInv
<1>6. QED
  BY <1>3, <1>4, <1>5, Zenon

LEMMA GivenType ==
    ASSUME TypeInv, LinkInv, NEW s \in Services
    PROVE  Given(s) \in Log
<1>1. CASE container[s] = 0
  BY <1>1 DEF Given, Log
<1>2. CASE container[s] # 0
  <2>1. container[s] \in DOMAIN object /\ object \in Seq(Objects)
    BY <1>2, Zenon DEF LinkInv, TypeInv
  <2>2. object[container[s]] \in Objects
    BY <2>1
  <2>3. QED
    BY <1>2, <2>2, Zenon DEF Given, Log, Objects
<1>3. QED
  BY <1>1, <1>2, Zenon

-----------------------------------------------------------------------------
(* The calls.                                                              *)

Grown == \A s \in Services : container[s] # 0 => container'[s] = container[s]

LEMMA LastIn ==
    ASSUME NEW s \in Seq(Frames), Len(s) # 0
    PROVE  Len(s) \in DOMAIN s
OBVIOUS

LEMMA FrameType ==
    ASSUME TypeInv, NEW c \in Threads, NEW i \in DOMAIN calls[c]
    PROVE  calls[c][i] \in Frames /\ calls[c][i].to \in Services
<1>1. calls[c] \in Seq(Frames)
  BY Zenon DEF TypeInv
<1>2. calls[c][i] \in Frames
  BY <1>1
<1>3. QED
  BY <1>2, Zenon DEF Frames

LEMMA SetUFrames ==
    ASSUME TypeInv, NEW c \in Threads, pc[c] # "idle", NEW o \in Nat, SetU(c, o)
    PROVE  \A i \in DOMAIN calls[c] : /\ calls'[c][i].event = calls[c][i].event
                                      /\ i # 1 => calls'[c][i] = calls[c][i]
<1> DEFINE f == [calls[c][1] EXCEPT !.u = o]
           s == [calls[c] EXCEPT ![1] = f]
<1>1. calls[c] \in Seq(Frames) /\ calls[c][1] \in Frames /\ 1 \in DOMAIN calls[c]
  BY FrameOf, Zenon DEF TypeInv
<1>2. calls'[c] = s
  BY Zenon DEF SetU, TypeInv
<1>3. f.event = calls[c][1].event
  BY <1>1, Zenon DEF Frames
<1> HIDE DEF f
<1>4. \A i \in DOMAIN calls[c] : s[i].event = calls[c][i].event /\ (i # 1 => s[i] = calls[c][i])
  BY <1>1, <1>3, Zenon
<1>5. QED
  BY <1>2, <1>4, Zenon

LEMMA CallOther ==
    ASSUME TypeInv, NEW d \in Threads, CallOk(d), Grown, calls'[d] = calls[d], pc'[d] = pc[d],
           d \in Callers => sent'[d] = sent[d]
    PROVE  CallOk(d)'
<1>1. ASSUME NEW i \in DOMAIN calls[d], HasObject(calls[d][i]) PROVE HasObject(calls[d][i])'
  BY <1>1, FrameType, Zenon DEF HasObject, Grown
<1>2. QED
  BY <1>1, Zenon DEF CallOk, HasObject

\* A step inside the innermost call.
LEMMA CallInside ==
    ASSUME TypeInv, NEW c \in Threads, pc[c] # "idle", CallOk(c), Grown, sent' = sent,
           DOMAIN calls'[c] = DOMAIN calls[c], Len(calls'[c]) = Len(calls[c]),
           \A i \in DOMAIN calls[c] : /\ calls'[c][i].to = calls[c][i].to
                                      /\ calls'[c][i].event = calls[c][i].event
                                      /\ i # 1 => calls'[c][i] = calls[c][i],
           pc'[c] \in Having => \/ pc[c] \in Having /\ calls'[c] = calls[c]
                                \/ calls'[c][1].u # 0 /\ container'[calls'[c][1].to] = calls'[c][1].u
    PROVE  CallOk(c)'
<1>1. ASSUME NEW i \in DOMAIN calls[c], HasObject(calls[c][i]), calls'[c][i] = calls[c][i]
      PROVE  HasObject(calls[c][i])'
  BY <1>1, FrameType, Zenon DEF HasObject, Grown
<1>2. ASSUME NEW i \in DOMAIN calls[c], i # 1 \/ pc'[c] \in Having PROVE HasObject(calls[c][i])'
  <2>1. CASE i # 1
    BY <1>1, <2>1, Zenon DEF CallOk
  <2>2. CASE i = 1 /\ pc[c] \in Having /\ calls'[c] = calls[c]
    BY <1>1, <2>2, Zenon DEF CallOk
  <2>3. CASE i = 1 /\ calls'[c][1].u # 0 /\ container'[calls'[c][1].to] = calls'[c][1].u
    BY <2>3, Zenon DEF HasObject
  <2>4. QED
    BY <1>2, <2>1, <2>2, <2>3, Zenon
<1>3. \A i \in DOMAIN calls'[c] : i # 1 \/ pc'[c] \in Having => HasObject(calls[c][i])'
  BY <1>2, Zenon
<1>4. \A i \in DOMAIN calls'[c] : calls'[c][i].event[1] \in Callers =>
          calls'[c][i].event[1] = c /\ i = Len(calls'[c])
  BY DEF CallOk
<1>5. Len(calls[c]) \in DOMAIN calls[c]
  BY FrameOf DEF TypeInv
<1>6. c \in Callers /\ pc'[c] # "idle" =>
           /\ Len(sent'[c]) # 0 /\ calls'[c][Len(calls'[c])].event = <<c, Len(sent'[c])>>
           /\ calls'[c][Len(calls'[c])].to = sent'[c][Len(sent'[c])]
  BY <1>5, Zenon DEF CallOk
<1>7. QED
  BY <1>3, <1>4, <1>6, Zenon DEF CallOk

\* The end of a call.
LEMMA CallReturned ==
    ASSUME TypeInv, NEW c \in Threads, pc[c] # "idle", CallOk(c), Return(c), container' = container,
           sent' = sent
    PROVE  CallOk(c)'
<1> DEFINE t == calls[c]
           v == Tail(calls[c])
<1>1. /\ calls'[c] = v /\ pc'[c] = IF Len(t) = 1 THEN "idle" ELSE "started"
  BY ReturnType, Zenon
<1>2. t \in Seq(Frames) /\ v \in Seq(Frames) /\ t # <<>> /\ Len(t) \in Nat \ {0}
  BY FrameOf, Zenon DEF TypeInv
<1>3. /\ Len(v) = Len(t) - 1
      /\ \A i \in DOMAIN v : i \in Nat /\ i + 1 \in DOMAIN t /\ i + 1 # 1 /\ v[i] = t[i + 1]
  BY <1>2
<1>10. Len(t) # 1 => v[Len(v)] = t[Len(t)]
  <2>1. SUFFICES ASSUME Len(t) # 1 PROVE v[Len(v)] = t[Len(t)]
    BY Zenon
  <2>2. Len(v) \in DOMAIN v /\ Len(v) + 1 = Len(t)
    <3>1. Len(v) # 0 /\ Len(v) + 1 = Len(t)
      BY <1>2, <1>3, <2>1
    <3>2. QED
      BY <1>2, <3>1, LastIn, Zenon
  <2>3. QED
    BY <1>3, <2>2, Zenon
<1>4. ASSUME NEW i \in DOMAIN v PROVE HasObject(v[i])
  BY <1>3, <1>4, Zenon DEF CallOk
<1>5. ASSUME NEW i \in DOMAIN v, v[i].event[1] \in Callers PROVE v[i].event[1] = c /\ i = Len(v)
  <2>1. t[i + 1].event[1] = c /\ i + 1 = Len(t)
    BY <1>3, <1>5, Zenon DEF CallOk
  <2>2. QED
    BY <1>2, <1>3, <1>5, <2>1
<1> HIDE DEF v
<1>6. \A i \in DOMAIN calls'[c] : i # 1 \/ pc'[c] \in Having => HasObject(calls[c][i])'
  BY <1>1, <1>4, Zenon DEF HasObject
<1>7. \A i \in DOMAIN calls'[c] : calls'[c][i].event[1] \in Callers =>
          calls'[c][i].event[1] = c /\ i = Len(calls'[c])
  BY <1>1, <1>5, Zenon
<1>8. c \in Callers /\ pc'[c] # "idle" =>
           /\ Len(sent'[c]) # 0 /\ calls'[c][Len(calls'[c])].event = <<c, Len(sent'[c])>>
           /\ calls'[c][Len(calls'[c])].to = sent'[c][Len(sent'[c])]
  BY <1>1, <1>10, Zenon DEF CallOk
<1>9. QED
  BY <1>6, <1>7, <1>8, Zenon DEF CallOk

\* A startService handler sends an event.
LEMMA CallPushed ==
    ASSUME TypeInv, NEW c \in Threads, CallOk(c), pc[c] \in Having, pc'[c] \notin Having,
           NEW f \in Frames, f.event[1] \notin Callers, calls'[c] = <<f>> \o calls[c],
           container' = container, sent' = sent
    PROVE  CallOk(c)'
<1> DEFINE t == calls[c]
           v == <<f>> \o calls[c]
<1>0. pc[c] # "idle"
  BY Zenon DEF Having
<1>1. t \in Seq(Frames) /\ Len(t) \in Nat \ {0}
  BY <1>0, FrameOf, Zenon DEF TypeInv
<1>2. /\ Len(v) = Len(t) + 1 /\ v[1] = f /\ v[Len(v)] = t[Len(t)]
      /\ \A i \in DOMAIN v : i \in Nat /\ (i # 1 => i - 1 \in DOMAIN t /\ v[i] = t[i - 1])
  BY <1>1
<1>3. ASSUME NEW i \in DOMAIN v, i # 1 PROVE HasObject(v[i])
  BY <1>2, <1>3, Zenon DEF CallOk
<1>4. ASSUME NEW i \in DOMAIN v, v[i].event[1] \in Callers PROVE v[i].event[1] = c /\ i = Len(v)
  <2>1. i # 1
    BY <1>2, <1>4, Zenon
  <2>2. t[i - 1].event[1] = c /\ i - 1 = Len(t)
    BY <1>2, <1>4, <2>1, Zenon DEF CallOk
  <2>3. QED
    BY <1>1, <1>2, <1>4, <2>1, <2>2
<1> HIDE DEF v
<1>5. calls'[c] = v
  BY Zenon DEF v
<1>6. \A i \in DOMAIN calls'[c] : i # 1 \/ pc'[c] \in Having => HasObject(calls[c][i])'
  BY <1>3, <1>5, Zenon DEF HasObject
<1>7. \A i \in DOMAIN calls'[c] : calls'[c][i].event[1] \in Callers =>
          calls'[c][i].event[1] = c /\ i = Len(calls'[c])
  BY <1>4, <1>5, Zenon
<1>8. c \in Callers /\ pc'[c] # "idle" =>
           /\ Len(sent'[c]) # 0 /\ calls'[c][Len(calls'[c])].event = <<c, Len(sent'[c])>>
           /\ calls'[c][Len(calls'[c])].to = sent'[c][Len(sent'[c])]
  BY <1>0, <1>2, <1>5, Zenon DEF CallOk
<1>9. QED
  BY <1>6, <1>7, <1>8, Zenon DEF CallOk

\* The first call of a thread.
LEMMA CallBegun ==
    ASSUME NEW c \in Threads, NEW f, calls'[c] = <<f>>, pc'[c] \notin Having,
           f.event[1] \in Callers => f.event[1] = c,
           c \in Callers => /\ Len(sent'[c]) # 0 /\ f.event = <<c, Len(sent'[c])>>
                            /\ f.to = sent'[c][Len(sent'[c])]
    PROVE  CallOk(c)'
<1>1. Len(calls'[c]) = 1 /\ DOMAIN calls'[c] = {1} /\ calls'[c][1] = f
  OBVIOUS
<1>2. QED
  BY <1>1, Zenon DEF CallOk

\* What a step of a call does to the calls of its thread.
Still(c)  == calls' = calls /\ (pc'[c] \in Having => pc[c] \in Having)
Looked(c) == SetU(c, container[target(c)]) /\ (pc'[c] \in Having => container[target(c)] # 0)
Pushed(c) ==
    /\ pc[c] \in Having /\ pc'[c] \notin Having /\ StartSends[target(c)] # NoOne
    /\ calls' = [calls EXCEPT ![c] = <<Call(StartSends[target(c)], <<target(c), 1>>)>> \o @]

LEMMA CallKinds ==
    ASSUME TypeInv, NEW c \in Threads, CallStep(c)
    PROVE  /\ pc[c] # "idle" /\ sent' = sent
           /\ \/ Insert(c)
              \/ container' = container /\ (Still(c) \/ Looked(c) \/ Pushed(c) \/ Return(c))
<1> USE DEF registry
<1>0. pc[c] # "idle" /\ pc \in [Threads -> Labels]
  BY OthersSame, Zenon DEF TypeInv
<1>1. CASE Find(c)
  BY <1>0, <1>1, Zenon DEF Find, Go, Looked, Having
<1>2. CASE InitService(c) \/ LockInitMX(c)
  BY <1>0, <1>2, Zenon DEF InitService, LockInitMX, Go, Still, Having
<1>3. CASE Recheck(c)
  BY <1>0, <1>3, Zenon DEF Recheck, Found, Go, Still, Looked, Having
<1>4. CASE FindConstructor(c)
  BY <1>0, <1>4, Zenon DEF FindConstructor, ReturnNULL, Go, Still, Having
<1>5. CASE CheckTerminating(c) \/ CheckInserted(c) \/ Started(c)
  BY <1>0, <1>5, Zenon DEF CheckTerminating, CheckInserted, Started, ReturnNULL, Go, Still, Having
<1>6. CASE RecheckLocked(c)
  BY <1>0, <1>6, Zenon DEF RecheckLocked, Found, Go, Still, Looked, Having
<1>7. CASE Insert(c)
  BY <1>0, <1>7, Zenon DEF Insert
<1>8. CASE SendStartService(c)
  BY <1>0, <1>8, Zenon DEF SendStartService, Fault, Go, Still, Pushed, Having
<1>9. CASE Deliver(c)
  BY <1>0, <1>9, Zenon DEF Deliver, Fault, Go, Still, Having
<1>10. QED
  BY <1>1, <1>2, <1>3, <1>4, <1>5, <1>6, <1>7, <1>8, <1>9, Zenon DEF CallStep

LEMMA CallStepOk ==
    ASSUME TypeInv, ObjectInv, dpc = "run", NEW c \in Threads, CallOk(c), CallStep(c)
    PROVE  sent' = sent /\ Grown /\ CallOk(c)'
<1>0. pc[c] # "idle" /\ sent' = sent
  BY CallKinds, Zenon
<1>1. container' = container => Grown
  BY Zenon DEF Grown
<1>2. target(c) \in Services /\ target(c) = calls[c][1].to /\ 1 \in DOMAIN calls[c]
  BY <1>0, FrameOf, Zenon DEF target
<1>3. CASE container' = container /\ Still(c)
  BY <1>0, <1>1, <1>3, CallInside, Zenon DEF Still
<1>4. CASE container' = container /\ Looked(c)
  <2> DEFINE o == container[target(c)]
  <2>1. o \in Nat /\ SetU(c, o)
    BY <1>2, <1>4, Zenon DEF TypeInv, Looked
  <2> HIDE DEF o
  <2>2. /\ DOMAIN calls'[c] = DOMAIN calls[c] /\ Len(calls'[c]) = Len(calls[c]) /\ calls'[c][1].u = o
        /\ \A i \in DOMAIN calls[c] : calls'[c][i].to = calls[c][i].to
    BY <1>0, <2>1, SetUType, Zenon
  <2>3. \A i \in DOMAIN calls[c] : /\ calls'[c][i].event = calls[c][i].event
                                   /\ i # 1 => calls'[c][i] = calls[c][i]
    BY <1>0, <2>1, SetUFrames, Zenon
  <2>4. pc'[c] \in Having => calls'[c][1].u # 0 /\ container'[calls'[c][1].to] = calls'[c][1].u
    BY <1>2, <1>4, <2>2, Zenon DEF o, Looked
  <2>5. QED
    BY <1>0, <1>1, <1>4, <2>2, <2>3, <2>4, CallInside, Zenon
<1>5. CASE container' = container /\ Pushed(c)
  <2> DEFINE e == <<target(c), 1>>
             f == Call(StartSends[target(c)], e)
  <2>1. e \in Events /\ e[1] = target(c)
    BY <1>2 DEF Events
  <2> HIDE DEF e
  <2>2. f \in Frames /\ f.event = e
    BY <1>2, <1>5, <2>1, CallType, Constants DEF Pushed, Call
  <2>3. f.event[1] \notin Callers
    BY <1>2, <2>1, <2>2, Distinct, Zenon
  <2> HIDE DEF f
  <2>4. calls'[c] = <<f>> \o calls[c]
    BY <1>5, Zenon DEF Pushed, TypeInv, f, e
  <2>5. pc[c] \in Having /\ pc'[c] \notin Having
    BY <1>5, Zenon DEF Pushed
  <2>6. QED
    BY <1>0, <1>1, <1>5, <2>2, <2>3, <2>4, <2>5, CallPushed, Zenon
<1>6. CASE container' = container /\ Return(c)
  BY <1>0, <1>1, <1>6, CallReturned, Zenon
<1>7. CASE Insert(c)
  <2> DEFINE o == Len(object) + 1
  <2>1. o \in Nat /\ o # 0 /\ SetU(c, o)
    BY <1>7 DEF TypeInv, Insert
  <2>2. container[target(c)] = 0 /\ container' = [container EXCEPT ![target(c)] = o]
    BY <1>7, Zenon DEF Insert, ObjectInv, Go
  <2> HIDE DEF o
  <2>3. Grown /\ container'[target(c)] = o
    BY <1>2, <2>2, Zenon DEF TypeInv, Grown
  <2>4. /\ DOMAIN calls'[c] = DOMAIN calls[c] /\ Len(calls'[c]) = Len(calls[c]) /\ calls'[c][1].u = o
        /\ \A i \in DOMAIN calls[c] : calls'[c][i].to = calls[c][i].to
    BY <1>0, <2>1, SetUType, Zenon
  <2>5. \A i \in DOMAIN calls[c] : /\ calls'[c][i].event = calls[c][i].event
                                   /\ i # 1 => calls'[c][i] = calls[c][i]
    BY <1>0, <2>1, SetUFrames, Zenon
  <2>6. calls'[c][1].u # 0 /\ container'[calls'[c][1].to] = calls'[c][1].u
    BY <1>2, <2>1, <2>3, <2>4, Zenon
  <2>7. QED
    BY <1>0, <2>3, <2>4, <2>5, <2>6, CallInside, Zenon
<1>8. QED
  BY <1>3, <1>4, <1>5, <1>6, <1>7, <1>0, CallKinds, Zenon

-----------------------------------------------------------------------------
(* The objects and their logs.                                             *)

\* A step that gives nothing to an object and ends no call of a caller.
LEMMA OrderSame ==
    ASSUME OrderInv, \A s \in Known : Given(s)' = Given(s),
           \A c \in Callers : sent'[c] = sent[c] /\ Done(c)' = Done(c)
    PROVE  OrderInv'
BY Zenon DEF OrderInv

LEMMA DoneSame ==
    ASSUME NEW c \in Threads, sent' = sent, \A d \in Threads \ {c} : pc'[d] = pc[d],
           c \in Callers => (pc'[c] = "idle" <=> pc[c] = "idle")
    PROVE  \A d \in Callers : sent'[d] = sent[d] /\ Done(d)' = Done(d)
BY Constants, Zenon DEF Done

LEMMA DoneType ==
    ASSUME TypeInv, NEW c \in Callers, CallOk(c)
    PROVE  /\ Done(c) \in Nat /\ sent[c] \in Seq(Services)
           /\ pc[c] # "idle" => Done(c) + 1 = Len(sent[c]) /\ Done(c) + 1 \in DOMAIN sent[c]
<1>1. sent[c] \in Seq(Services)
  BY Zenon DEF TypeInv
<1>2. pc[c] # "idle" => Len(sent[c]) # 0
  BY Zenon DEF CallOk
<1>3. QED
  BY <1>1, <1>2 DEF Done

\* An object is inserted, with nothing given to it.
LEMMA OrderInsert ==
    ASSUME TypeInv, ObjectInv, dpc = "run", LinkInv, OrderInv, NEW c \in Threads, Insert(c)
    PROVE  LinkInv' /\ OrderInv'
<1> DEFINE o == Len(object) + 1
           r == [service |-> target(c), given |-> <<>>, deleted |-> FALSE, late |-> dpc \notin {"run", "swap"}]
<1>0. /\ pc[c] # "idle" /\ sent' = sent /\ pc'[c] # "idle" /\ target(c) \in Services
      /\ \A d \in Threads \ {c} : pc'[d] = pc[d]
  BY FrameOf, Zenon DEF Insert, Go, TypeInv
<1>1. container[target(c)] = 0 /\ container' = [container EXCEPT ![target(c)] = o]
  BY Zenon DEF Insert, ObjectInv, Go
<1>2. object \in Seq(Objects) /\ object' = Append(object, r)
  BY Zenon DEF Insert, TypeInv
<1>3. r.service = target(c) /\ r.given = <<>>
  BY Zenon
<1> HIDE DEF r
<1>4. /\ DOMAIN object' = DOMAIN object \cup {o} /\ o # 0
      /\ object'[o] = r /\ \A p \in DOMAIN object : object'[p] = object[p]
  BY <1>2
<1> HIDE DEF o
<1>5. LinkInv'
  BY <1>0, <1>1, <1>3, <1>4, Zenon DEF LinkInv, TypeInv
<1>6. ASSUME NEW s \in Services PROVE Given(s)' = Given(s)
  <2>1. CASE s = target(c)
    BY <1>0, <1>1, <1>3, <1>4, <2>1, Zenon DEF Given, TypeInv
  <2>2. CASE s # target(c)
    BY <1>0, <1>1, <1>4, <2>2, Zenon DEF Given, TypeInv, LinkInv
  <2>3. QED
    BY <2>1, <2>2, Zenon
<1>7. QED
  BY <1>0, <1>5, <1>6, DoneSame, OrderSame, Constants, Zenon

\* The object of a call is given startService, or the event of a nested call: not an
\* event of a caller.
LEMMA OrderNested ==
    ASSUME TypeInv, LinkInv, OrderInv, \A d \in Threads : CallOk(d),
           NEW t \in Services, container[t] # 0, container' = container,
           NEW e \in Events \cup {StartService}, e[1] \notin Callers, Give(container[t], e),
           \A d \in Callers : sent'[d] = sent[d] /\ Done(d)' = Done(d)
    PROVE  LinkInv' /\ OrderInv'
<1>1. /\ Given(t)' = Append(Given(t), e) /\ LinkInv'
      /\ \A s \in Services \ {t} : Given(s)' = Given(s)
  BY GivenAppended, Zenon
<1>2. ASSUME NEW d \in Callers, NEW s \in Known PROVE InOrder(Given(s)', sent[d], d, s, Done(d))
  <2>1. /\ InOrder(Given(s), sent[d], d, s, Done(d)) /\ Given(s) \in Log /\ s \in Services
        /\ sent[d] \in Seq(Services) /\ e[1] # d
    BY GivenType, Constants, Zenon DEF OrderInv, TypeInv
  <2>2. CASE s = t
    BY <1>1, <2>1, <2>2, OrderOther, Zenon
  <2>3. CASE s # t
    BY <1>1, <2>1, <2>3, Zenon
  <2>4. QED
    BY <2>2, <2>3, Zenon
<1>3. QED
  BY <1>1, <1>2, Zenon DEF OrderInv

\* The event of a caller is delivered.
LEMMA OrderDelivered ==
    ASSUME TypeInv, LinkInv, OrderInv, \A d \in Threads : CallOk(d), NEW c \in Callers, pc[c] # "idle",
           NEW t \in Services, t = sent[c][Len(sent[c])], container[t] # 0, container' = container,
           <<c, Len(sent[c])>> \in Events, Give(container[t], <<c, Len(sent[c])>>), sent' = sent,
           pc'[c] = "idle", \A d \in Threads \ {c} : pc'[d] = pc[d]
    PROVE  LinkInv' /\ OrderInv'
<1> DEFINE e == <<c, Len(sent[c])>>
<1>0. e[1] = c
  OBVIOUS
<1>1. /\ Given(t)' = Append(Given(t), e) /\ LinkInv'
      /\ \A s \in Services \ {t} : Given(s)' = Given(s)
  BY GivenAppended, Zenon
<1>2. ASSUME NEW d \in Callers, NEW s \in Known PROVE InOrder(Given(s)', sent[d], d, s, Done(d)')
  <2>1. /\ InOrder(Given(s), sent[d], d, s, Done(d)) /\ Given(s) \in Log /\ s \in Services
        /\ sent[d] \in Seq(Services) /\ d \in Threads
    BY GivenType, Constants, Zenon DEF OrderInv, TypeInv
  <2>2. CASE d = c
    <3> DEFINE k == Done(c)
    <3>1. k \in Nat /\ k + 1 = Len(sent[c]) /\ k + 1 \in DOMAIN sent[c]
      BY <2>1, <2>2, DoneType, Zenon
    <3>2. Done(c)' = k + 1
      BY <3>1, Zenon DEF Done
    <3>3. /\ InOrder(Given(s), sent[c], c, s, k) /\ sent[c] \in Seq(Services)
          /\ (s = t <=> sent[c][k + 1] = s) /\ e = <<c, k + 1>>
      BY <2>1, <2>2, <3>1, Zenon
    <3> HIDE DEF k, e
    <3>4. CASE s = t
      <4>1. InOrder(Append(Given(s), <<c, k + 1>>), sent[c], c, s, k + 1)
        BY <2>1, <3>1, <3>3, <3>4, OrderAppend, Zenon
      <4>2. QED
        BY <1>1, <2>2, <3>2, <3>3, <3>4, <4>1, Zenon
    <3>5. CASE s # t
      <4>1. InOrder(Given(s), sent[c], c, s, k + 1)
        BY <2>1, <3>1, <3>3, <3>5, OrderSkip, Zenon
      <4>2. QED
        BY <1>1, <2>1, <2>2, <3>2, <3>5, <4>1, Zenon
    <3>6. QED
      BY <3>4, <3>5, Zenon
  <2>3. CASE d # c
    <3>1. Done(d)' = Done(d) /\ e[1] # d /\ e \in Events \cup {StartService}
      BY <1>0, <2>1, <2>3, Zenon DEF Done
    <3> HIDE DEF e
    <3>2. CASE s = t
      <4>1. InOrder(Append(Given(s), e), sent[d], d, s, Done(d))
        BY <2>1, <3>1, OrderOther, Zenon
      <4>2. QED
        BY <1>1, <3>1, <3>2, <4>1, Zenon
    <3>3. CASE s # t
      BY <1>1, <2>1, <3>1, <3>3, Zenon
    <3>4. QED
      BY <3>2, <3>3, Zenon
  <2>4. QED
    BY <2>2, <2>3, Zenon
<1>3. QED
  BY <1>1, <1>2, Zenon DEF OrderInv

\* An event to a service that has neither constructor nor plugin is dropped.
LEMMA OrderDropped ==
    ASSUME TypeInv, LinkInv, OrderInv, \A d \in Threads : CallOk(d), NEW c \in Callers, pc[c] # "idle",
           sent[c][Len(sent[c])] \notin Known, UNCHANGED <<container, object, sent>>,
           pc'[c] = "idle", \A d \in Threads \ {c} : pc'[d] = pc[d]
    PROVE  LinkInv' /\ OrderInv'
<1>1. LinkInv' /\ \A s \in Services : Given(s)' = Given(s)
  BY Zenon DEF LinkInv, Given
<1>2. ASSUME NEW d \in Callers, NEW s \in Known PROVE InOrder(Given(s), sent[d], d, s, Done(d)')
  <2>1. /\ InOrder(Given(s), sent[d], d, s, Done(d)) /\ Given(s) \in Log /\ s \in Services
        /\ sent[d] \in Seq(Services) /\ d \in Threads
    BY GivenType, Constants, Zenon DEF OrderInv, TypeInv
  <2>2. CASE d = c
    <3> DEFINE k == Done(c)
    <3>1. k \in Nat /\ k + 1 = Len(sent[c])
      BY <2>1, <2>2, DoneType, Zenon
    <3>2. Done(c)' = k + 1
      BY <3>1, Zenon DEF Done
    <3>3. InOrder(Given(s), sent[c], c, s, k) /\ sent[c] \in Seq(Services) /\ sent[c][k + 1] # s
      BY <2>1, <2>2, <3>1, Zenon
    <3> HIDE DEF k
    <3>4. InOrder(Given(s), sent[c], c, s, k + 1)
      BY <2>1, <3>1, <3>3, OrderSkip, Zenon
    <3>5. QED
      BY <2>2, <3>2, <3>4, Zenon
  <2>3. CASE d # c
    BY <2>1, <2>3, Zenon DEF Done
  <2>4. QED
    BY <2>2, <2>3, Zenon
<1>3. QED
  BY <1>1, <1>2, Constants, Zenon DEF OrderInv

\* The call that ends is the outermost one of a caller, or one whose event is no caller's.
LEMMA EndOfCall ==
    ASSUME TypeInv, NEW c \in Threads, CallOk(c), pc[c] # "idle", Return(c)
    PROVE  /\ \A d \in Threads \ {c} : pc'[d] = pc[d]
           /\ \/ /\ c \in Callers /\ pc'[c] = "idle" /\ Top(c).event = <<c, Len(sent[c])>>
                 /\ target(c) = sent[c][Len(sent[c])]
              \/ /\ c \in Callers => pc'[c] # "idle"
                 /\ Top(c).event[1] \notin Callers
<1>1. /\ Len(calls[c]) \in Nat \ {0} /\ 1 \in DOMAIN calls[c] /\ Top(c) = calls[c][1]
  BY FrameOf, Zenon
<1>2. /\ pc'[c] = IF Len(calls[c]) = 1 THEN "idle" ELSE "started"
      /\ \A d \in Threads \ {c} : pc'[d] = pc[d]
  BY ReturnType, Zenon
<1>3. Top(c).event[1] \in Callers => Top(c).event[1] = c /\ 1 = Len(calls[c])
  BY <1>1, Zenon DEF CallOk
<1>4. CASE c \in Callers /\ Len(calls[c]) = 1
  BY <1>1, <1>2, <1>4, Zenon DEF CallOk, target
<1>5. CASE ~(c \in Callers /\ Len(calls[c]) = 1)
  BY <1>2, <1>3, <1>5, Zenon
<1>6. QED
  BY <1>2, <1>4, <1>5, Zenon

LEMMA NoOneIsNoCaller == StartService[1] \notin Callers /\ NoEvent[1] \notin Callers
BY Distinct DEF StartService, NoEvent

LEMMA OrderStep ==
    ASSUME TypeInv, ObjectInv, ~m_terminating, LinkInv, OrderInv, \A d \in Threads : CallOk(d),
           NEW c \in Threads, CallStep(c)
    PROVE  LinkInv' /\ OrderInv'
<1> USE DEF registry
<1>1. /\ pc[c] # "idle" /\ sent' = sent /\ dpc = "run" /\ CallOk(c)
      /\ \A d \in Threads \ {c} : pc'[d] = pc[d]
  BY OthersSame, CallKinds, Zenon DEF TypeInv
<1>2. target(c) \in Services /\ Top(c) = calls[c][1] /\ 1 \in DOMAIN calls[c] /\ Top(c).event \in Events
  BY <1>1, FrameOf, Zenon
<1>3. pc[c] \in Having => container[target(c)] # 0 /\ container[target(c)] = u(c)
  <2>1. pc[c] \in Having => HasObject(calls[c][1])
    BY <1>1, <1>2, Zenon DEF CallOk
  <2>2. QED
    BY <1>2, <2>1, Zenon DEF HasObject, target, u
<1>4. ASSUME UNCHANGED <<container, object>>, c \in Callers => pc'[c] # "idle" PROVE LinkInv' /\ OrderInv'
  <2>1. LinkInv' /\ \A s \in Services : Given(s)' = Given(s)
    BY <1>4, Zenon DEF LinkInv, Given
  <2>2. QED
    BY <1>1, <1>4, <2>1, DoneSame, OrderSame, Constants, Zenon
<1>5. CASE Find(c) \/ InitService(c) \/ LockInitMX(c) \/ Recheck(c)
  <2>1. UNCHANGED <<container, object>> /\ pc'[c] # "idle"
    BY <1>5, Zenon DEF Find, InitService, LockInitMX, Recheck, Go, Found, TypeInv
  <2>2. QED
    BY <1>4, <2>1, Zenon
<1>6. CASE CheckTerminating(c) \/ RecheckLocked(c) \/ CheckInserted(c) \/ Started(c)
  <2>1. UNCHANGED <<container, object>> /\ pc'[c] # "idle"
    BY <1>6, Zenon DEF CheckTerminating, RecheckLocked, CheckInserted, Started, Go, Found, TypeInv
  <2>2. QED
    BY <1>4, <2>1, Zenon
<1>7. CASE Insert(c)
  BY <1>1, <1>7, OrderInsert, Zenon
<1>8. CASE FindConstructor(c)
  <2>1. CASE pc'[c] # "idle"
    BY <1>4, <1>8, <2>1, Zenon DEF FindConstructor
  <2>2. CASE pc'[c] = "idle"
    <3>1. Return(c) /\ target(c) \notin Known /\ UNCHANGED <<container, object>>
      BY <1>8, <2>2, Zenon DEF FindConstructor, ReturnNULL, HasConstructor, Go, TypeInv
    <3>2. CASE c \notin Callers
      BY <1>4, <3>1, <3>2, Zenon
    <3>3. CASE c \in Callers
      <4>1. target(c) = sent[c][Len(sent[c])]
        BY <1>1, <2>2, <3>1, <3>3, EndOfCall, Zenon
      <4>2. QED
        BY <1>1, <2>2, <3>1, <3>3, <4>1, OrderDropped, Zenon
    <3>4. QED
      BY <3>2, <3>3, Zenon
  <2>3. QED
    BY <2>1, <2>2, Zenon
<1>9. CASE SendStartService(c)
  <2>1. pc[c] = "start" /\ pc'[c] # "idle" /\ container' = container
    BY <1>9, Zenon DEF SendStartService, Fault, Go, TypeInv
  <2>2. CASE object' = object
    BY <1>4, <2>1, <2>2, Zenon
  <2>3. CASE Give(u(c), StartService)
    <3>1. \A d \in Callers : sent'[d] = sent[d] /\ Done(d)' = Done(d)
      BY <1>1, <2>1, DoneSame, Zenon
    <3>2. container[target(c)] # 0 /\ Give(container[target(c)], StartService)
      BY <1>3, <2>1, <2>3, Zenon DEF Having
    <3>3. QED
      BY <1>2, <2>1, <3>1, <3>2, NoOneIsNoCaller, OrderNested, Zenon
  <2>4. QED
    BY <1>9, <2>2, <2>3, Zenon DEF SendStartService, Fault
<1>10. CASE Deliver(c)
  <2>1. pc[c] = "deliver" /\ container' = container
    BY <1>10, Zenon DEF Deliver
  <2>2. CASE Fault(c)
    BY <1>4, <2>1, <2>2, Zenon DEF Fault, TypeInv
  <2>3. CASE Top(c).event = NoEvent /\ Return(c) /\ object' = object
    <3>1. c \in Callers => pc'[c] # "idle"
      <4>1. SUFFICES ASSUME Top(c).event = <<c, Len(sent[c])>>, c \in Callers PROVE FALSE
        BY <1>1, <2>3, EndOfCall, Zenon
      <4>2. NoEvent[1] = c
        BY <2>3, <4>1
      <4>3. QED
        BY <4>1, <4>2, NoOneIsNoCaller, Zenon
    <3>2. QED
      BY <1>4, <2>1, <2>3, <3>1, Zenon
  <2>4. CASE Give(u(c), Top(c).event) /\ Return(c)
    <3>1. container[target(c)] # 0 /\ Give(container[target(c)], Top(c).event)
      BY <1>3, <2>1, <2>4, Zenon DEF Having
    <3>2. CASE /\ c \in Callers /\ pc'[c] = "idle" /\ Top(c).event = <<c, Len(sent[c])>>
               /\ target(c) = sent[c][Len(sent[c])]
      BY <1>1, <1>2, <2>1, <3>1, <3>2, OrderDelivered, Zenon
    <3>3. CASE (c \in Callers => pc'[c] # "idle") /\ Top(c).event[1] \notin Callers
      <4>1. \A d \in Callers : sent'[d] = sent[d] /\ Done(d)' = Done(d)
        BY <1>1, <3>3, DoneSame, Zenon
      <4>2. QED
        BY <1>2, <2>1, <3>1, <3>3, <4>1, OrderNested, Zenon
    <3>4. QED
      BY <1>1, <2>4, <3>2, <3>3, EndOfCall, Zenon
  <2>5. QED
    BY <1>10, <2>2, <2>3, <2>4, Zenon DEF Deliver
<1>11. QED
  BY <1>5, <1>6, <1>7, <1>8, <1>9, <1>10, Zenon DEF CallStep

LEMMA DeliveryStep ==
    ASSUME TypeInv, ObjectInv, DeliveryInv, [Next]_vars
    PROVE  DeliveryInv'
<1> SUFFICES ASSUME ~m_terminating' PROVE (\A d \in Threads : CallOk(d)') /\ LinkInv' /\ OrderInv'
  BY Zenon DEF DeliveryInv
<1> USE DEF registry, callVars
<1>1. m_terminating' = m_terminating \/ m_terminating' = TRUE
  BY OthersSame, Zenon DEF Next, InstanceStep, SendEvent, InitServices, Destructor, SetTerminating,
     TakeServices,
     DeinitService, Destroyed, vars
<1>2. dpc = "run" /\ ~m_terminating /\ (\A d \in Threads : CallOk(d)) /\ LinkInv /\ OrderInv
  BY <1>1, Zenon DEF TypeInv, DeliveryInv
<1>3. ASSUME NEW c \in Threads, CallStep(c) PROVE (\A d \in Threads : CallOk(d)') /\ LinkInv' /\ OrderInv'
  <2>1. sent' = sent /\ Grown /\ CallOk(c)'
    BY <1>2, <1>3, CallStepOk, Zenon
  <2>2. \A d \in Threads \ {c} : pc'[d] = pc[d] /\ calls'[d] = calls[d]
    BY <1>3, OthersSame, Zenon
  <2>3. ASSUME NEW d \in Threads, d # c PROVE CallOk(d)'
    BY <1>2, <2>1, <2>2, <2>3, CallOther, Zenon
  <2>4. QED
    BY <1>2, <1>3, <2>1, <2>3, OrderStep, Zenon
<1>4. ASSUME NEW c \in Threads, UNCHANGED <<container, object>>, CallOk(c)',
             \A d \in Threads \ {c} : /\ pc'[d] = pc[d] /\ calls'[d] = calls[d]
                                      /\ d \in Callers => sent'[d] = sent[d]
      PROVE  /\ \A d \in Threads : CallOk(d)'
             /\ LinkInv' /\ \A s \in Services : Given(s)' = Given(s)
  <2>1. Grown /\ LinkInv' /\ \A s \in Services : Given(s)' = Given(s)
    BY <1>2, <1>4, Zenon DEF Grown, LinkInv, Given
  <2>2. ASSUME NEW d \in Threads, d # c PROVE CallOk(d)'
    BY <1>2, <1>4, <2>1, <2>2, CallOther, Zenon
  <2>3. QED
    BY <1>4, <2>1, <2>2, Zenon
<1>5. ASSUME NEW c \in Callers, NEW s \in Services, SendEvent(c, s)
      PROVE  (\A d \in Threads : CallOk(d)') /\ LinkInv' /\ OrderInv'
  <2> DEFINE q == sent[c]
             e == <<c, Len(q) + 1>>
             f == Call(s, e)
  <2>1. c \in Threads /\ q \in Seq(Services)
    BY Constants, Zenon DEF TypeInv
  <2>2. /\ calls'[c] = <<f>> /\ sent'[c] = Append(q, s) /\ pc'[c] = "find" /\ pc[c] = "idle"
        /\ UNCHANGED <<container, object>>
        /\ \A d \in Threads \ {c} : /\ pc'[d] = pc[d] /\ calls'[d] = calls[d]
                                    /\ d \in Callers => sent'[d] = sent[d]
    BY <1>2, <1>5, <2>1, Zenon DEF SendEvent, Go, TypeInv
  <2>3. Len(Append(q, s)) = Len(q) + 1 /\ Append(q, s)[Len(q) + 1] = s /\ Len(q) + 1 # 0 /\ e[1] = c
    BY <2>1
  <2>4. f.to = s /\ f.event = e
    BY Zenon DEF Call
  <2>5. CallOk(c)'
    <3>1. /\ Len(sent'[c]) # 0 /\ f.event = <<c, Len(sent'[c])>> /\ f.to = sent'[c][Len(sent'[c])]
          /\ f.event[1] = c
      BY <2>2, <2>3, <2>4, Zenon
    <3>2. pc'[c] \notin Having
      BY <2>2, Zenon DEF Having
    <3> HIDE DEF f
    <3>3. QED
      BY <2>1, <2>2, <3>1, <3>2, CallBegun, Zenon
  <2>6. /\ \A d \in Threads : CallOk(d)'
        /\ LinkInv' /\ \A t \in Services : Given(t)' = Given(t)
    BY <1>4, <2>1, <2>2, <2>5, Zenon
  <2>7. ASSUME NEW d \in Callers, NEW t \in Known PROVE InOrder(Given(t), sent'[d], d, t, Done(d)')
    <3>1. InOrder(Given(t), sent[d], d, t, Done(d)) /\ Given(t) \in Log /\ t \in Services /\ d \in Threads
      BY <1>2, GivenType, Constants, Zenon DEF OrderInv
    <3>2. CASE d # c
      BY <2>2, <3>1, <3>2, Zenon DEF Done
    <3>3. CASE d = c
      <4>1. Done(c) = Len(q)
        BY <2>2, Zenon DEF Done
      <4>2. Done(c)' = Len(q)
        BY <2>1, <2>2, <2>3 DEF Done
      <4>3. InOrder(Given(t), q, c, t, Len(q))
        BY <3>1, <3>3, <4>1, Zenon
      <4> HIDE DEF q
      <4>4. InOrder(Given(t), Append(q, s), c, t, Len(q))
        BY <2>1, <3>1, <4>3, OrderSent, Zenon
      <4>5. QED
        BY <2>2, <3>3, <4>2, <4>4, Zenon
    <3>4. QED
      BY <3>2, <3>3, Zenon
  <2>8. OrderInv'
    BY <2>6, <2>7, Constants, Zenon DEF OrderInv
  <2>9. QED
    BY <2>6, <2>8, Zenon
<1>6. ASSUME InitServices PROVE (\A d \in Threads : CallOk(d)') /\ LinkInv' /\ OrderInv'
  <2>1. /\ Main \in Threads /\ Main \notin Callers /\ UNCHANGED <<container, object, sent>>
        /\ \A d \in Threads \ {Main} : pc'[d] = pc[d] /\ calls'[d] = calls[d]
    BY <1>6, Constants, Distinct, Zenon DEF InitServices, Go, TypeInv
  <2>2. CallOk(Main)'
    <3>1. CASE UNCHANGED <<pc, calls>>
      <4>1. Grown
        BY <2>1, Zenon DEF Grown
      <4>2. QED
        BY <1>2, <2>1, <3>1, <4>1, CallOther, Zenon
    <3>2. CASE /\ pc' = [pc EXCEPT ![Main] = "find"]
               /\ calls' = [calls EXCEPT ![Main] = <<Call(Head(startNames), NoEvent)>>]
      <4> DEFINE f == Call(Head(startNames), NoEvent)
      <4>1. calls'[Main] = <<f>> /\ pc'[Main] \notin Having
        BY <2>1, <3>2, Zenon DEF TypeInv, Having
      <4>2. f.event[1] \notin Callers
        BY NoOneIsNoCaller, Zenon DEF Call
      <4> HIDE DEF f
      <4>3. QED
        BY <2>1, <4>1, <4>2, CallBegun, Zenon
    <3>3. QED
      BY <1>6, <3>1, <3>2, Zenon DEF InitServices, Go
  <2>3. /\ \A d \in Threads : CallOk(d)'
        /\ LinkInv' /\ \A t \in Services : Given(t)' = Given(t)
    BY <1>4, <2>1, <2>2, Zenon
  <2>4. QED
    BY <1>2, <2>1, <2>3, DoneSame, OrderSame, Constants, Zenon
<1>7. ASSUME UNCHANGED vars PROVE (\A d \in Threads : CallOk(d)') /\ LinkInv' /\ OrderInv'
  BY <1>2, <1>7, Zenon DEF vars, CallOk, HasObject, LinkInv, OrderInv, Given, Done
<1>8. ~UseDestroyed(Main) /\ (\A c \in Threads : ~UseDestroyed(c)) /\ ~Destructor
  BY <1>2, Zenon DEF UseDestroyed, Destructor, SetTerminating, TakeServices, DeinitService,
     Destroyed, GoDestructor
<1>9. QED
  BY <1>3, <1>5, <1>6, <1>7, <1>8, Zenon DEF Next, InstanceStep

\* An event sent to a service that can be created is given to its one object, once and
\* in the order of its sender, whichever thread creates the object meanwhile.
THEOREM EventsInOrder == Spec => []DeliveredInOrder
<1>1. ASSUME TypeInv, DeliveryInv PROVE DeliveredInOrder
  <2> SUFFICES ASSUME NEW c \in Callers, NEW s \in Known, ~m_terminating
               PROVE  LET Over(n) == pc[c] = "idle" \/ n < Len(sent[c])
                          mine    == {i \in DOMAIN Given(s) : Given(s)[i][1] = c}
                      IN  /\ {Given(s)[i][2] : i \in mine} = {n \in DOMAIN sent[c] : sent[c][n] = s /\ Over(n)}
                          /\ \A i, j \in mine : i < j => Given(s)[i][2] < Given(s)[j][2]
    BY Zenon DEF DeliveredInOrder
  <2> DEFINE g == Given(s)
             q == sent[c]
             k == Done(c)
             Over(n) == pc[c] = "idle" \/ n < Len(sent[c])
             mine    == {i \in DOMAIN Given(s) : Given(s)[i][1] = c}
  <2>1. InOrder(g, q, c, s, k) /\ q \in Seq(Services) /\ c \in Threads /\ k \in Nat
    BY <1>1, DoneType, Constants, Zenon DEF DeliveryInv, OrderInv, TypeInv
  <2>2. \A n \in DOMAIN q : n <= k <=> Over(n)
    BY <2>1 DEF Done
  <2> HIDE DEF k
  <2>3. mine = Mine(g, c)
    BY Zenon DEF Mine
  <2> HIDE DEF g, mine, Over
  <2>4. {g[i][2] : i \in mine} = {n \in DOMAIN q : q[n] = s /\ Over(n)}
    <3>1. ASSUME NEW i \in mine PROVE g[i][2] \in DOMAIN q /\ q[g[i][2]] = s /\ Over(g[i][2])
      BY <2>1, <2>2, <2>3, Zenon DEF InOrder
    <3>2. ASSUME NEW n \in DOMAIN q, q[n] = s, Over(n) PROVE \E i \in mine : g[i][2] = n
      BY <2>1, <2>2, <2>3, <3>2, Zenon DEF InOrder
    <3> HIDE DEF q
    <3>3. QED
      BY <3>1, <3>2, ZenonT(60)
  <2>5. \A i, j \in mine : i < j => g[i][2] < g[j][2]
    BY <2>1, <2>3, Zenon DEF InOrder
  <2>6. QED
    BY <2>4, <2>5, Zenon DEF g, mine, Over
<1>2. Init => DeliveryInv
  <2> SUFFICES ASSUME Init PROVE DeliveryInv
    BY Zenon
  <2>1. \A c \in Threads : calls[c] = <<>> /\ pc[c] = "idle"
    BY Zenon DEF Init
  <2>2. \A c \in Callers : sent[c] = <<>>
    BY Zenon DEF Init
  <2>3. \A s \in Known : Given(s) = <<>>
    BY Constants, Zenon DEF Init, Given
  <2>4. \A c \in Threads : CallOk(c)
    BY <2>1 DEF CallOk
  <2>5. LinkInv
    BY Zenon DEF Init, LinkInv
  <2>6. OrderInv
    BY <2>2, <2>3 DEF OrderInv, InOrder, Mine
  <2>7. QED
    BY <2>4, <2>5, <2>6, Zenon DEF DeliveryInv
<1>3. TypeInv /\ LockInv /\ ObjectInv /\ DeliveryInv /\ [Next]_vars
      => (TypeInv /\ LockInv /\ ObjectInv /\ DeliveryInv)'
  BY TypeStep, LockStep, ObjectStep, DeliveryStep, Zenon
<1>4. QED
  BY <1>1, <1>2, <1>3, InstanceInit, PTL DEF Spec
=============================================================================
