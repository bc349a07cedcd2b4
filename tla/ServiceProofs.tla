---------------------------- MODULE ServiceProofs ----------------------------
(***************************************************************************)
(* Proofs about the object proxies, for any number of addresses, objects   *)
(* and requests, and about the Telnet service, for every set of keys and   *)
(* commands and any number of keys.                                        *)
(***************************************************************************)
EXTENDS ObjectProxy, Telnet, DataLemmas

-----------------------------------------------------------------------------
(* The object proxies: requests, answers and the objects that asked.       *)

Entry(a) == [type |-> "OBJECTHANDLER", at |-> a]
Routes   == {sendObjectRequest(a) : a \in Addrs} \cup {<<Entry(a)>> : a \in Addrs}
Requests == [route : Routes, asker : Addrs, gen : Nat, via : {"local", "connector"}, id : Nat]
Answers  == {a \in Requests : a.route = <<Entry(a.asker)>>}

TypeInv ==
    /\ kind \in {"polled", "threaded"} /\ pc \in {"idle", "found", "in"}
    /\ stage \in [Addrs -> {"none", "building", "whole", "dying"}] /\ gen \in [Addrs -> Nat]
    /\ mx_handlers = {a \in Addrs : stage[a] # "none"}
    /\ sent \in Nat /\ pending \subseteq Requests
    /\ \A r \in pending : r.route = sendObjectRequest(r.asker)
    /\ {m_container, d, arrived, done} \subseteq Seq(Answers)

\* The answer a thread handles, and the object it has found for it.
HandledInv ==
    /\ pc \in {"found", "in"} =>
           /\ e.answer \in Answers /\ e.at = e.answer.asker
           /\ kind = "threaded" \/ e.answer.via = "local" => e.rest = <<>>
    /\ kind = "polled" /\ pc = "found" => stage[e.at] = "whole"
    /\ PolledCallsWholeObjects
    /\ AskerOrNobody

\* A sequence without its last element.
LEMMA PoppedOf ==
    ASSUME NEW S, NEW s \in Seq(S), NEW t \in Seq(S),
           Len(t) = Len(s) + 1, \A i \in 1 .. Len(s) : t[i] = s[i]
    PROVE  pop_back(t) = s
<1>1. SubSeq(t, 1, Len(s)) \in Seq(S) /\ Len(SubSeq(t, 1, Len(s))) = Len(s)
      /\ \A i \in 1 .. Len(s) : SubSeq(t, 1, Len(s))[i] = t[i]
  OBVIOUS
<1>2. SubSeq(t, 1, Len(s)) = s
  BY <1>1, SameElements, Zenon
<1>3. Len(t) - 1 = Len(s)
  OBVIOUS
<1>4. QED
  BY <1>2, <1>3, Zenon DEF pop_back

\* The way of a route: what is left when the service's and the proxy's entries are off.
LEMMA RouteParts ==
    ASSUME NEW a
    PROVE  /\ pop_back(pop_back(sendObjectRequest(a))) = <<Entry(a)>>
           /\ Top(<<Entry(a)>>).at = a /\ pop_back(<<Entry(a)>>) = <<>>
<1> DEFINE x == Entry(a)
           y == [type |-> "LOCALSERVICE", at |-> "proxy"]
           z == [type |-> "LOCALSERVICE", at |-> "service"]
           S == {x, y, z}
<1>1. sendObjectRequest(a) = <<x, y, z>> /\ x.at = a
  BY Zenon DEF sendObjectRequest, Entry
<1>2. x \in S /\ y \in S /\ z \in S
  BY Zenon
<1> HIDE DEF x, y, z, S
<1>3. /\ <<>> \in Seq(S) /\ <<x>> \in Seq(S) /\ <<x, y>> \in Seq(S) /\ <<x, y, z>> \in Seq(S)
      /\ Len(<<>>) = 0 /\ Len(<<x>>) = 1 /\ Len(<<x, y>>) = 2 /\ Len(<<x, y, z>>) = 3
  BY <1>2
<1>5. pop_back(<<x, y, z>>) = <<x, y>>
  <2> DEFINE s == <<x, y>>
             t == <<x, y, z>>
  <2>1. s \in Seq(S) /\ t \in Seq(S) /\ Len(t) = Len(s) + 1 /\ \A i \in 1 .. Len(s) : t[i] = s[i]
    BY <1>3
  <2> HIDE DEF s, t
  <2>2. pop_back(t) = s
    BY <2>1, PoppedOf, Zenon
  <2>3. QED
    BY <2>2, Zenon DEF s, t
<1>6. pop_back(<<x, y>>) = <<x>>
  <2> DEFINE s == <<x>>
             t == <<x, y>>
  <2>1. s \in Seq(S) /\ t \in Seq(S) /\ Len(t) = Len(s) + 1 /\ \A i \in 1 .. Len(s) : t[i] = s[i]
    BY <1>3
  <2> HIDE DEF s, t
  <2>2. pop_back(t) = s
    BY <2>1, PoppedOf, Zenon
  <2>3. QED
    BY <2>2, Zenon DEF s, t
<1>7. pop_back(<<x>>) = <<>> /\ Top(<<x>>) = x
  BY DEF pop_back, Top
<1>8. QED
  BY <1>1, <1>5, <1>6, <1>7, ZenonT(60) DEF x

\* The next answer: its route leads to its asker.
LEMMA AnswerParts ==
    ASSUME NEW a \in Answers
    PROVE  /\ a.asker \in Addrs /\ a.gen \in Nat /\ Top(a.route).at = a.asker /\ pop_back(a.route) = <<>>
BY RouteParts, ZenonT(60) DEF Answers, Requests

\* The parts of a queue.
LEMMA SeqParts ==
    ASSUME NEW S, NEW s \in Seq(S), s # <<>>
    PROVE  Head(s) \in S /\ Tail(s) \in Seq(S)
OBVIOUS

\* What a service answers a request with.
LEMMA AnswerOf ==
    ASSUME NEW r \in Requests, r.route = sendObjectRequest(r.asker), NEW n \in Nat
    PROVE  [r EXCEPT !.route = pop_back(pop_back(@)), !.id = n] \in Answers
<1> DEFINE a == [r EXCEPT !.route = pop_back(pop_back(@)), !.id = n]
<1>1. pop_back(pop_back(r.route)) = <<Entry(r.asker)>> /\ r.asker \in Addrs
  BY RouteParts, ZenonT(60) DEF Requests
<1>2. a.route = <<Entry(r.asker)>> /\ a.asker = r.asker
  BY <1>1, Zenon DEF Requests
<1>3. a \in Requests
  BY <1>1, ZenonT(60) DEF Requests, Routes
<1>4. QED
  BY <1>2, <1>3, ZenonT(60) DEF Answers

\* Every step keeps the registrations, the routes and the queues in order.
LEMMA TypeStep ==
    ASSUME TypeInv, [ONext]_ovars
    PROVE  TypeInv'
<1> USE DEF TypeInv, Quiet
<1>1. ASSUME NEW a \in Addrs, addObjectHandler(a) PROVE TypeInv'
  BY <1>1 DEF addObjectHandler
<1>2. ASSUME NEW a \in Addrs, Derived(a) PROVE TypeInv'
  BY <1>2, ZenonT(60) DEF Derived
<1>3. ASSUME NEW a \in Addrs, removeObjectHandler(a) PROVE TypeInv'
  BY <1>3, Zenon DEF removeObjectHandler
<1>4. ASSUME NEW a \in Addrs, sendEvent(a) PROVE TypeInv'
  <2>1. PICK via \in {"local", "connector"} :
            pending' = pending \cup {[route |-> sendObjectRequest(a), asker |-> a, gen |-> gen[a],
                                      via |-> via, id |-> sent + 1]}
    BY <1>4, Zenon DEF sendEvent
  <2> DEFINE n == sent + 1
             r == [route |-> sendObjectRequest(a), asker |-> a, gen |-> gen[a], via |-> via, id |-> n]
  <2>2. n \in Nat /\ sent' \in Nat
    BY <1>4 DEF sendEvent
  <2> HIDE DEF n
  <2>3. r \in Requests /\ r.route = sendObjectRequest(r.asker)
    BY <2>2, Zenon DEF Requests, Routes
  <2>4. pending' = pending \cup {r}
    BY <2>1, Zenon DEF n
  <2> HIDE DEF r
  <2>5. QED
    BY <1>4, <2>2, <2>3, <2>4, Zenon DEF sendEvent
<1>5. ASSUME listenToEvent PROVE TypeInv'
  <2> DEFINE A(r) == [r EXCEPT !.route = pop_back(pop_back(@)), !.id = Len(arrived) + 1]
  <2>1. PICK r \in pending : /\ pending' = pending \ {r}
                            /\ m_container' = Append(m_container, A(r)) /\ arrived' = Append(arrived, A(r))
    BY <1>5, ZenonT(60) DEF listenToEvent
  <2>2. A(r) \in Answers
    <3>1. Len(arrived) + 1 \in Nat
      OBVIOUS
    <3>2. r \in Requests /\ r.route = sendObjectRequest(r.asker)
      BY <2>1, Zenon
    <3>3. QED
      BY <3>1, <3>2, AnswerOf, ZenonT(60)
  <2> HIDE DEF A
  <2>3. m_container' \in Seq(Answers) /\ arrived' \in Seq(Answers)
    BY <2>1, <2>2
  <2>4. QED
    BY <1>5, <2>1, <2>3, Zenon DEF listenToEvent
<1>6. ASSUME poll PROVE TypeInv'
  <2>1. Head(m_container) \in Answers /\ Tail(m_container) \in Seq(Answers)
    BY <1>6, SeqParts, Zenon DEF poll
  <2>2. <<Head(m_container)>> \in Seq(Answers) /\ <<>> \in Seq(Answers)
    BY <2>1
  <2>3. QED
    BY <1>6, <2>1, <2>2, ZenonT(60) DEF poll
<1>7. ASSUME handleEvent PROVE TypeInv'
  <2>1. Head(d) \in Answers /\ Tail(d) \in Seq(Answers)
    BY <1>7, SeqParts, Zenon DEF handleEvent
  <2>2. Append(done, Head(d)) \in Seq(Answers)
    BY <2>1
  <2>3. QED
    BY <1>7, <2>1, <2>2, Zenon DEF handleEvent
<1>8. ASSUME OH_handleObjectEvent PROVE TypeInv'
  BY <1>8, Zenon DEF OH_handleObjectEvent
<1>9. ASSUME Return PROVE TypeInv'
  BY <1>9, Zenon DEF Return
<1>10. ASSUME UNCHANGED ovars PROVE TypeInv'
  BY <1>10, Zenon DEF ovars
<1>11. QED
  BY <1>1, <1>2, <1>3, <1>4, <1>5, <1>6, <1>7, <1>8, <1>9, <1>10, ZenonT(60) DEF ONext
-----------------------------------------------------------------------------
(* The object that is called.                                              *)

\* handleEvent finds the asker of the answer or nobody; between that and the call the
\* polled proxy's thread neither builds nor destroys.
LEMMA HandledStep ==
    ASSUME TypeInv, HandledInv, [ONext]_ovars
    PROVE  HandledInv'
<1> USE DEF TypeInv, HandledInv, PolledCallsWholeObjects, AskerOrNobody, Quiet
<1>1. ASSUME NEW a \in Addrs, addObjectHandler(a) PROVE HandledInv'
  BY <1>1, Zenon DEF addObjectHandler, OwnerRuns
<1>2. ASSUME NEW a \in Addrs, Derived(a) PROVE HandledInv'
  <2>1. UNCHANGED <<kind, pc, e, given, discarded, stopped>>
    BY <1>2, Zenon DEF Derived
  <2>2. ASSUME kind = "polled", pc = "found" PROVE stage'[e.at] = "whole"
    <3>1. stage[e.at] = "whole" /\ e.at \in Addrs
      BY <2>2, Zenon DEF Answers, Requests
    <3>2. stage[a] = "building" /\ stage' = [stage EXCEPT ![a] = "whole"]
      BY <1>2, <2>2, Zenon DEF Derived, OwnerRuns
    <3>3. QED
      BY <3>1, <3>2, Zenon
  <2>3. QED
    BY <2>1, <2>2, Zenon
<1>3. ASSUME NEW a \in Addrs, removeObjectHandler(a) PROVE HandledInv'
  BY <1>3, SMTT(60) DEF removeObjectHandler
<1>4. ASSUME NEW a \in Addrs, sendEvent(a) PROVE HandledInv'
  BY <1>4, Zenon DEF sendEvent
<1>5. ASSUME listenToEvent PROVE HandledInv'
  BY <1>5, Zenon DEF listenToEvent
<1>6. ASSUME poll PROVE HandledInv'
  BY <1>6, Zenon DEF poll
<1>7. ASSUME handleEvent PROVE HandledInv'
  <2> DEFINE h == Head(d)
             r == Top(h.route).at
  <2>1. h \in Answers
    BY <1>7, SeqParts, Zenon DEF handleEvent
  <2>2. r = h.asker /\ r \in Addrs /\ pop_back(h.route) = <<>>
    BY <2>1, AnswerParts, Zenon
  <2>3. CASE r \in mx_handlers
    <3>1. pc' = "found" /\ UNCHANGED <<kind, stage, given, discarded, stopped>>
      BY <1>7, <2>3, Zenon DEF handleEvent
    <3>2. e' = [at |-> r, answer |-> h,
                rest |-> IF kind = "polled" /\ h.via = "connector" THEN h.route ELSE pop_back(h.route)]
      BY <1>7, <2>3, Zenon DEF handleEvent
    <3>3. kind = "polled" => stage[r] = "whole"
      BY <1>7, <2>2, <2>3, ZenonT(60) DEF handleEvent, OwnerBusy
    <3>4. h.via \in {"local", "connector"}
      BY <2>1, Zenon DEF Answers, Requests
    <3> HIDE DEF h, r
    <3>5. e'.at = r /\ e'.answer = h /\ (kind = "threaded" \/ h.via = "local" => e'.rest = <<>>)
      BY <2>2, <3>2, <3>4, ZenonT(60)
    <3>6. QED
      BY <2>1, <2>2, <3>1, <3>3, <3>5, Zenon
  <2>4. CASE r \notin mx_handlers
    <3>1. /\ UNCHANGED <<kind, stage, pc, e, given, stopped>> /\ pc = "idle"
          /\ discarded' = discarded \cup {<<h, stage[r] \in {"building", "whole"} /\ gen[r] = h.gen>>}
      BY <1>7, <2>4, Zenon DEF handleEvent
    <3>2. stage[r] = "none"
      BY <2>2, <2>4, Zenon
    <3>3. \A x \in discarded' : ~x[2]
      <4>1. (stage[r] \in {"building", "whole"} /\ gen[r] = h.gen) = FALSE
        BY <3>2, Zenon
      <4>2. discarded' = discarded \cup {<<h, FALSE>>}
        BY <3>1, <4>1, ZenonT(60)
      <4> HIDE DEF h, r
      <4>3. <<h, FALSE>>[2] = FALSE
        BY Zenon
      <4>4. QED
        BY <4>2, <4>3, ZenonT(60)
    <3>4. QED
      BY <3>1, <3>3, Zenon
  <2>5. QED
    BY <2>3, <2>4, Zenon
<1>8. ASSUME OH_handleObjectEvent PROVE HandledInv'
  BY <1>8 DEF OH_handleObjectEvent
<1>9. ASSUME Return PROVE HandledInv'
  BY <1>9, Zenon DEF Return
<1>10. ASSUME UNCHANGED ovars PROVE HandledInv'
  BY <1>10, Zenon DEF ovars
<1>11. QED
  BY <1>1, <1>2, <1>3, <1>4, <1>5, <1>6, <1>7, <1>8, <1>9, <1>10, Zenon DEF ONext
-----------------------------------------------------------------------------
(* The order of the answers.                                               *)

\* An answer that comes in, one that is taken up, and a queue that becomes the batch.
LEMMA Joins ==
    ASSUME NEW a \in Seq(Answers), NEW b \in Seq(Answers), NEW c \in Seq(Answers), NEW x \in Answers
    PROVE  /\ (a \o b) \o Append(c, x) = Append((a \o b) \o c, x)
           /\ b # <<>> => Append(a, Head(b)) \o Tail(b) = a \o b
           /\ (a \o <<>>) \o c = a \o c /\ (a \o c) \o <<>> = a \o c
           /\ c # <<>> => (a \o <<Head(c)>>) \o Tail(c) = a \o c
<1>1. (a \o b) \o Append(c, x) = Append((a \o b) \o c, x)
  <2> DEFINE p == a \o b
  <2>1. p \in Seq(Answers)
    OBVIOUS
  <2> HIDE DEF p
  <2>2. p \o Append(c, x) = Append(p \o c, x)
    BY <2>1
  <2>3. QED
    BY <2>2, Zenon DEF p
<1>2. ASSUME NEW u \in Seq(Answers), u # <<>> PROVE Append(a, Head(u)) \o Tail(u) = a \o u
  BY <1>2, SMTT(60)
<1>3. (a \o <<>>) \o c = a \o c /\ (a \o c) \o <<>> = a \o c
  <2>1. a \o c \in Seq(Answers)
    OBVIOUS
  <2>2. \A s \in Seq(Answers) : s \o <<>> = s
    OBVIOUS
  <2>3. QED
    BY <2>1, <2>2, Zenon
<1>4. ASSUME c # <<>> PROVE a \o <<Head(c)>> = Append(a, Head(c))
  BY <1>4
<1>5. QED
  BY <1>1, <1>2, <1>3, <1>4, ZenonT(60)

\* No step drops, doubles or overtakes an answer.
LEMMA OrderStep ==
    ASSUME TypeInv, TakenUpInOrder, [ONext]_ovars
    PROVE  TakenUpInOrder'
<1> USE DEF TakenUpInOrder, Quiet
<1>0. {m_container, d, arrived, done} \subseteq Seq(Answers)
  BY Zenon DEF TypeInv
<1>1. ASSUME NEW a \in Addrs, addObjectHandler(a) \/ Derived(a) \/ removeObjectHandler(a) \/ sendEvent(a)
      PROVE  TakenUpInOrder'
  BY <1>1, ZenonT(60) DEF addObjectHandler, Derived, removeObjectHandler, sendEvent
<1>2. ASSUME listenToEvent PROVE TakenUpInOrder'
  <2> DEFINE A(r) == [r EXCEPT !.route = pop_back(pop_back(@)), !.id = Len(arrived) + 1]
  <2>1. PICK r \in pending : m_container' = Append(m_container, A(r)) /\ arrived' = Append(arrived, A(r))
    BY <1>2, ZenonT(60) DEF listenToEvent
  <2>2. A(r) \in Answers
    <3>1. Len(arrived) + 1 \in Nat
      BY <1>0
    <3>2. r \in Requests /\ r.route = sendObjectRequest(r.asker)
      BY <2>1, Zenon DEF TypeInv
    <3>3. QED
      BY <3>1, <3>2, AnswerOf, ZenonT(60)
  <2>3. UNCHANGED <<done, d>>
    BY <1>2, Zenon DEF listenToEvent
  <2> HIDE DEF A
  <2>4. QED
    BY <1>0, <2>1, <2>2, <2>3, Joins, SMTT(60)
<1>3. ASSUME poll PROVE TakenUpInOrder'
  <2>1. d = <<>> /\ m_container # <<>> /\ UNCHANGED <<done, arrived>>
    BY <1>3, Zenon DEF poll
  <2>2. Head(m_container) \in Answers
    BY <1>0, <2>1, SeqParts, Zenon
  <2>3. /\ (done \o <<>>) \o m_container = done \o m_container
        /\ (done \o m_container) \o <<>> = done \o m_container
        /\ (done \o <<Head(m_container)>>) \o Tail(m_container) = done \o m_container
    BY <1>0, <2>1, <2>2, Joins, ZenonT(60)
  <2>4. QED
    BY <1>3, <2>1, <2>3, ZenonT(60) DEF poll
<1>4. ASSUME handleEvent PROVE TakenUpInOrder'
  <2>1. d # <<>> /\ d' = Tail(d) /\ done' = Append(done, Head(d)) /\ UNCHANGED <<m_container, arrived>>
    BY <1>4, Zenon DEF handleEvent
  <2>2. Head(d) \in Answers
    BY <1>0, <2>1, SeqParts, ZenonT(60)
  <2>3. Append(done, Head(d)) \o Tail(d) = done \o d
    BY <1>0, <2>1, <2>2, Joins, ZenonT(60)
  <2>4. QED
    BY <2>1, <2>3, Zenon
<1>5. ASSUME OH_handleObjectEvent \/ Return PROVE TakenUpInOrder'
  BY <1>5, ZenonT(60) DEF OH_handleObjectEvent, Return
<1>6. ASSUME UNCHANGED ovars PROVE TakenUpInOrder'
  BY <1>6, Zenon DEF ovars
<1>7. QED
  BY <1>1, <1>2, <1>3, <1>4, <1>5, <1>6, Zenon DEF ONext
-----------------------------------------------------------------------------

\* The proxies begin without objects and answers.
LEMMA ProxyInit == OInit => TypeInv /\ HandledInv /\ TakenUpInOrder
<1> SUFFICES ASSUME OInit PROVE TypeInv /\ HandledInv /\ TakenUpInOrder
  BY Zenon
<1>2. TypeInv
  BY DEF OInit, TypeInv
<1>3. HandledInv
  BY Zenon DEF OInit, HandledInv, PolledCallsWholeObjects, AskerOrNobody
<1>4. TakenUpInOrder
  BY DEF OInit, TakenUpInOrder
<1>5. QED
  BY <1>2, <1>3, <1>4, Zenon

\* The polled proxy never calls a part of an object: for any number of objects, the pointer
\* handleEvent found under the lock is good after the lock is given up.
THEOREM WholeObjectsCalled == OSpec => []PolledCallsWholeObjects
<1>1. TypeInv /\ HandledInv /\ [ONext]_ovars => (TypeInv /\ HandledInv)'
  BY TypeStep, HandledStep, Zenon
<1>2. HandledInv => PolledCallsWholeObjects
  BY Zenon DEF HandledInv
<1>3. QED
  BY <1>1, <1>2, ProxyInit, PTL DEF OSpec

\* An answer reaches the object at the address that asked, or is discarded because nobody
\* is registered there.
THEOREM AnswersGoToAskers == OSpec => []AskerOrNobody
<1>1. TypeInv /\ HandledInv /\ [ONext]_ovars => (TypeInv /\ HandledInv)'
  BY TypeStep, HandledStep, Zenon
<1>2. HandledInv => AskerOrNobody
  BY Zenon DEF HandledInv
<1>3. QED
  BY <1>1, <1>2, ProxyInit, PTL DEF OSpec

\* Both proxies take up the answers once each, in the order they came.
THEOREM AnswersInOrder == OSpec => []TakenUpInOrder
<1>1. TypeInv /\ TakenUpInOrder /\ [ONext]_ovars => (TypeInv /\ TakenUpInOrder)'
  BY TypeStep, OrderStep, Zenon
<1>2. QED
  BY <1>1, ProxyInit, PTL DEF OSpec

-----------------------------------------------------------------------------
(* Telnet: the session, the terminal, and the line shown.                  *)

\* What a cell of the terminal shows: a byte, or a prompt.
Cells == STRING \cup Seq(STRING)

\* The states of a session, of the terminal and of the history variable.
SessionType == [node : Seq(STRING), line : Seq(STRING), curpos : Nat, history : Seq(Seq(STRING)),
                pos : Int, insertMode : BOOLEAN, width : Int, closing : BOOLEAN]

ScreenType == [row : Seq(Cells), col : Nat, ins : BOOLEAN]

SeenType == [base : Seq(Cells), ok : BOOLEAN]

\* A session whose line and position are replaced keeps the rest.
LEMMA SetLine ==
    ASSUME NEW w \in SessionType, NEW l \in Seq(STRING), NEW p \in Nat
    PROVE  LET v == [w EXCEPT !.line = l, !.curpos = p]
           IN  /\ v \in SessionType /\ v.line = l /\ v.curpos = p /\ v.node = w.node
               /\ v.insertMode = w.insertMode /\ v.closing = w.closing
BY DEF SessionType

\* A session whose position is replaced keeps the rest.
LEMMA SetPos ==
    ASSUME NEW w \in SessionType, NEW p \in Nat
    PROVE  LET v == [w EXCEPT !.curpos = p]
           IN  /\ v \in SessionType /\ v.line = w.line /\ v.curpos = p /\ v.node = w.node
               /\ v.insertMode = w.insertMode /\ v.closing = w.closing
BY DEF SessionType

\* The smaller of two numbers.
LEMMA MinOfTwo ==
    ASSUME NEW a \in Nat, NEW b \in Nat
    PROVE  Min({a, b}) = IF a <= b THEN a ELSE b
<1> DEFINE m == IF a <= b THEN a ELSE b
<1>1. m \in {a, b} /\ \A y \in {a, b} : m <= y
  OBVIOUS
<1>2. ASSUME NEW x \in {a, b}, \A y \in {a, b} : x <= y PROVE x = m
  BY <1>2
<1> HIDE DEF m
<1>3. Min({a, b}) \in {a, b} /\ \A y \in {a, b} : Min({a, b}) <= y
  BY <1>1, Zenon DEF Min
<1>4. Min({a, b}) = m
  BY <1>2, <1>3, Zenon
<1> QED BY <1>4 DEF m

\* A text can be shown.
LEMMA CellsOfBytes == Seq(STRING) \subseteq Seq(Cells)
<1>1. SUFFICES ASSUME NEW s \in Seq(STRING) PROVE s \in Seq(Cells)
  OBVIOUS
<1>2. s = [k \in 1 .. Len(s) |-> s[k]] /\ Len(s) \in Nat /\ \A k \in 1 .. Len(s) : s[k] \in STRING
  OBVIOUS
<1>3. \A k \in 1 .. Len(s) : s[k] \in Cells
  BY <1>2 DEF Cells
<1> QED BY <1>2, <1>3

\* ScreenShowsLine for the session w, the terminal s and the history o.
Shows(w, s, o) ==
    /\ s.row = o.base \o w.line
    /\ s.col = Len(o.base) + Min({w.curpos, Len(w.line)})

\* The cursor is on the row, or right behind it.
OnRow(s) == s \in ScreenType /\ s.col <= Len(s.row)

\* The effect of a key on a session that is as it should be is as it should be: also when
\* the row is out of step the cursor stays on it, and the modes of insertion agree.
KeepsRow(k) ==
    /\ k.w \in SessionType /\ OnRow(k.scr) /\ k.seen \in SeenType /\ k.close \in BOOLEAN
    /\ k.scr.ins = k.w.insertMode
    /\ k.seen.ok /\ ~k.w.closing /\ ~k.close => Shows(k.w, k.scr, k.seen)

\* A session, with its terminal, as it should be.
Row(w) ==
    /\ w \in SessionType /\ OnRow(scr) /\ seen \in SeenType
    /\ scr.ins = w.insertMode
    /\ seen.ok /\ ~w.closing => Shows(w, scr, seen)

\* The parts of an effect.
LEMMA EffectFields ==
    ASSUME NEW w, NEW s, NEW o
    PROVE  /\ Effect(w, s, o).w = w /\ Effect(w, s, o).scr = s /\ Effect(w, s, o).seen = o
           /\ ~Effect(w, s, o).close /\ Effect(w, s, o).close \in BOOLEAN /\ Effect(w, s, o).ask = {}
BY DEF Effect

\* An effect is as it should be when its parts are.
LEMMA EffectKeeps ==
    ASSUME NEW w \in SessionType, NEW s, OnRow(s), NEW o \in SeenType,
           s.ins = w.insertMode, o.ok /\ ~w.closing => Shows(w, s, o)
    PROVE  KeepsRow(Effect(w, s, o))
<1> DEFINE k == Effect(w, s, o)
<1>1. k.w = w /\ k.scr = s /\ k.seen = o /\ ~k.close /\ k.close \in BOOLEAN
  BY DEF Effect
<1> HIDE DEF k
<1>2. k.w \in SessionType /\ OnRow(k.scr) /\ k.seen \in SeenType /\ k.close \in BOOLEAN
  BY <1>1, Zenon
<1>3. k.scr.ins = k.w.insertMode
  BY <1>1, Zenon
<1>4. k.seen.ok /\ ~k.w.closing /\ ~k.close => Shows(k.w, k.scr, k.seen)
  BY <1>1, Zenon
<1> QED BY <1>2, <1>3, <1>4, Zenon DEF KeepsRow, k

\* The cells of the row that a text covers.
Over(s, cells) == IF s.ins THEN 0 ELSE Len(cells)

\* A text printed at the cursor is spliced into the row.
LEMMA TextOf ==
    ASSUME NEW s, OnRow(s), NEW cells \in Seq(Cells)
    PROVE  LET t == Text(s, cells)
               over == Over(s, cells)
           IN  /\ OnRow(t) /\ t.ins = s.ins /\ t.col = s.col + Len(cells)
               /\ t.row = Spliced(s.row, s.col, over, cells)
<1> DEFINE over == IF s.ins THEN 0 ELSE Len(cells)
           r == s.row
           c == s.col
           a == SubSeq(r, 1, c)
           b == SubSeq(r, c + 1 + over, Len(r))
           t == Text(s, cells)
<1>1. r \in Seq(Cells) /\ c \in Nat /\ c <= Len(r) /\ s.ins \in BOOLEAN /\ over \in Nat
  BY DEF ScreenType, OnRow
<1> HIDE DEF over, r, c
<1>2. c + 1 + over = c + over + 1
  BY <1>1
<1>3. a \in Seq(Cells)
  BY <1>1, FrontOf
<1>4. b \in Seq(Cells)
  BY <1>1
<1>5. (a \o cells) \o b \in Seq(Cells) /\ Len(cells) \in Nat
  <2> HIDE DEF a, b
  <2> QED BY <1>3, <1>4
<1>6. t = [s EXCEPT !.row = (a \o cells) \o b, !.col = c + Len(cells)]
  BY Zenon DEF Text, a, b, c, over, r
<1> DEFINE x == (a \o cells) \o b
           y == c + Len(cells)
<1>7. x \in Seq(Cells) /\ y \in Nat
  <2> HIDE DEF a, b
  <2> QED BY <1>1, <1>5
<1> HIDE DEF x, y, t
<1>8. t = [s EXCEPT !.row = x, !.col = y]
  BY <1>6 DEF x, y
<1>9. t \in ScreenType /\ t.ins = s.ins /\ t.col = y /\ t.row = x
  BY <1>7, <1>8 DEF ScreenType, OnRow
<1>10. x = Spliced(r, c, over, cells)
  BY <1>2, Zenon DEF x, a, b, Spliced
<1>11. y <= Len(x)
  <2>1. c + Len(cells) <= Len(Spliced(r, c, over, cells))
    BY <1>1, SplicedLength
  <2> QED BY <1>10, <2>1, Zenon DEF y
<1>12. OnRow(t)
  BY <1>9, <1>11, Zenon DEF OnRow
<1> QED BY <1>9, <1>10, <1>12, Zenon DEF over, t, y, c, r, Over

\* The row shows line behind base, with the cursor behind the first p cells of line.
LineAt(s, base, line, p) == s.row = base \o line /\ s.col = Len(base) + p

\* A text printed while the row shows a line is spliced into the line.
LEMMA TextInLine ==
    ASSUME NEW s, OnRow(s), NEW base \in Seq(Cells), NEW line \in Seq(Cells), NEW p \in Nat,
           p <= Len(line), NEW cells \in Seq(Cells), LineAt(s, base, line, p)
    PROVE  LET t == Text(s, cells)
               over == Over(s, cells)
           IN  /\ OnRow(t) /\ t.ins = s.ins /\ t.col = Len(base) + (p + Len(cells))
               /\ t.row = base \o Spliced(line, p, over, cells)
<1> DEFINE t == Text(s, cells)
           over == Over(s, cells)
<1>0. s.row = base \o line /\ s.col = Len(base) + p
  BY Zenon DEF LineAt
<1>1. Len(base) \in Nat /\ Len(line) \in Nat /\ Len(cells) \in Nat /\ Len(base \o line) = Len(base) + Len(line)
  OBVIOUS
<1>2. over \in Nat
  BY <1>1 DEF Over
<1>3. /\ OnRow(t) /\ t.ins = s.ins /\ t.col = s.col + Len(cells)
      /\ t.row = Spliced(s.row, s.col, over, cells)
  BY TextOf, Zenon
<1> HIDE DEF over, t
<1>4. t.row = Spliced(base \o line, Len(base) + p, over, cells)
  BY <1>0, <1>3, Zenon
<1>5. t.row = base \o Spliced(line, p, over, cells)
  <2>1. over \in Nat
    BY <1>2, Zenon
  <2>2. Spliced(base \o line, Len(base) + p, over, cells) = base \o Spliced(line, p, over, cells)
    BY ONLY base \in Seq(Cells), line \in Seq(Cells), cells \in Seq(Cells), p \in Nat,
            p <= Len(line), <2>1, WriteBehind, SMTT(30)
  <2> QED BY <1>4, <2>2, Zenon
<1>6. t.col = Len(base) + (p + Len(cells))
  BY <1>0, <1>1, <1>3
<1> QED BY <1>3, <1>5, <1>6, Zenon DEF t, over

\* A prompt on an erased row, and a line behind it.
LEMMA PromptAndLine ==
    ASSUME NEW s, OnRow(s), NEW base \in Seq(Cells), NEW line \in Seq(Cells)
    PROVE  /\ OnRow(erase_line(s))
           /\ erase_line(s).row = <<>> /\ erase_line(s).col = 0 /\ erase_line(s).ins = s.ins
           /\ OnRow(Text(erase_line(s), base)) /\ Text(erase_line(s), base).ins = s.ins
           /\ Text(erase_line(s), base).row = base /\ Text(erase_line(s), base).col = Len(base)
           /\ OnRow(Text(Text(erase_line(s), base), line))
           /\ Text(Text(erase_line(s), base), line).ins = s.ins
           /\ Text(Text(erase_line(s), base), line).row = base \o line
           /\ Text(Text(erase_line(s), base), line).col = Len(base) + Len(line)
<1>0. ASSUME NEW r, OnRow(r), NEW b \in Seq(Cells), NEW c \in Seq(Cells), r.row = b, r.col = Len(b)
      PROVE  /\ OnRow(Text(r, c)) /\ Text(r, c).ins = r.ins
             /\ Text(r, c).row = b \o c /\ Text(r, c).col = Len(b) + Len(c)
  <2> DEFINE over == Over(r, c)
  <2>1. Len(b) \in Nat /\ Len(c) \in Nat /\ over \in Nat BY DEF Over
  <2>2. /\ OnRow(Text(r, c)) /\ Text(r, c).ins = r.ins /\ Text(r, c).col = r.col + Len(c)
        /\ Text(r, c).row = Spliced(r.row, r.col, over, c)
    BY <1>0, TextOf, Zenon
  <2> HIDE DEF over
  <2>3. SubSeq(b, 1, Len(b)) = b /\ SubSeq(b, Len(b) + over + 1, Len(b)) = <<>>
    BY <2>1
  <2>4. (b \o c) \o <<>> = b \o c
    OBVIOUS
  <2> QED BY <1>0, <2>2, <2>3, <2>4, Zenon DEF Spliced
<1>1. /\ OnRow(erase_line(s))
      /\ erase_line(s).row = <<>> /\ erase_line(s).col = 0 /\ erase_line(s).ins = s.ins
  <2> DEFINE nil == <<>>
             zero == 0
  <2>1. nil \in Seq(Cells) /\ zero \in Nat
    OBVIOUS
  <2> HIDE DEF nil, zero
  <2>2. erase_line(s) = [s EXCEPT !.row = nil, !.col = zero]
    BY Zenon DEF erase_line, nil, zero
  <2>3. /\ erase_line(s) \in ScreenType
        /\ erase_line(s).row = nil /\ erase_line(s).col = zero /\ erase_line(s).ins = s.ins
    BY <2>1, <2>2 DEF ScreenType, OnRow
  <2>4. zero <= Len(nil)
    BY DEF zero, nil
  <2> QED BY <2>3, <2>4, Zenon DEF nil, zero, OnRow
<1> DEFINE er == erase_line(s)
           t == Text(er, base)
<1>2. OnRow(t) /\ t.ins = s.ins /\ t.row = base /\ t.col = Len(base)
  <2>1. <<>> \in Seq(Cells) /\ Len(<<>>) = 0 /\ <<>> \o base = base /\ 0 + Len(base) = Len(base)
    OBVIOUS
  <2> HIDE DEF er
  <2>2. /\ OnRow(t) /\ t.ins = er.ins
        /\ t.row = <<>> \o base /\ t.col = Len(<<>>) + Len(base)
    BY <1>0, <1>1, <2>1, Zenon DEF er
  <2> HIDE DEF t
  <2> QED BY <1>1, <2>1, <2>2, Zenon DEF er
<1> HIDE DEF t
<1>3. /\ OnRow(Text(t, line)) /\ Text(t, line).ins = t.ins
      /\ Text(t, line).row = base \o line /\ Text(t, line).col = Len(base) + Len(line)
  BY <1>0, <1>2, Zenon
<1> QED BY <1>1, <1>2, <1>3, Zenon DEF t

\* What a session and its terminal consist of.
LEMMA RowParts ==
    ASSUME NEW w, Row(w)
    PROVE  /\ w \in SessionType /\ OnRow(scr) /\ seen \in SeenType
           /\ w.line \in Seq(STRING) /\ w.line \in Seq(Cells) /\ Len(w.line) \in Nat
           /\ w.curpos \in Nat /\ w.node \in Seq(STRING) /\ w.history \in Seq(Seq(STRING)) /\ w.pos \in Int
           /\ w.insertMode \in BOOLEAN /\ w.closing \in BOOLEAN
           /\ scr \in ScreenType /\ scr.row \in Seq(Cells) /\ scr.col \in Nat /\ scr.ins \in BOOLEAN
           /\ seen.base \in Seq(Cells) /\ Len(seen.base) \in Nat /\ seen.ok \in BOOLEAN
           /\ scr.ins = w.insertMode
<1>1. w \in SessionType /\ OnRow(scr) /\ seen \in SeenType /\ scr.ins = w.insertMode /\ scr \in ScreenType
  BY Zenon DEF Row, OnRow
<1>2. /\ w.line \in Seq(STRING) /\ Len(w.line) \in Nat
      /\ w.curpos \in Nat /\ w.node \in Seq(STRING) /\ w.history \in Seq(Seq(STRING)) /\ w.pos \in Int
      /\ w.insertMode \in BOOLEAN /\ w.closing \in BOOLEAN
  BY <1>1 DEF SessionType
<1>3. scr.row \in Seq(Cells) /\ scr.col \in Nat /\ scr.ins \in BOOLEAN
  BY <1>1 DEF ScreenType
<1>4. seen.base \in Seq(Cells) /\ Len(seen.base) \in Nat /\ seen.ok \in BOOLEAN
  BY <1>1 DEF SeenType
<1>5. w.line \in Seq(Cells)
  BY <1>2, CellsOfBytes, Zenon
<1> QED BY <1>1, <1>2, <1>3, <1>4, <1>5, Zenon

\* Where the cursor is: at the position, or at the end of a line it lies behind.
LEMMA ShownAt ==
    ASSUME NEW w \in SessionType, NEW s, NEW o \in SeenType, Shows(w, s, o)
    PROVE  /\ s.row = o.base \o w.line
           /\ w.curpos <= Len(w.line) => s.col = Len(o.base) + w.curpos
           /\ w.curpos >= Len(w.line) => s.col = Len(o.base) + Len(w.line)
<1>1. w.curpos \in Nat /\ Len(w.line) \in Nat
  BY DEF SessionType
<1>2. Min({w.curpos, Len(w.line)}) = IF w.curpos <= Len(w.line) THEN w.curpos ELSE Len(w.line)
  BY <1>1, MinOfTwo, Zenon
<1>3. s.row = o.base \o w.line /\ s.col = Len(o.base) + Min({w.curpos, Len(w.line)})
  BY Zenon DEF Shows
<1>4. ASSUME w.curpos <= Len(w.line) PROVE s.col = Len(o.base) + w.curpos
  BY <1>2, <1>3, <1>4, Zenon
<1>5. ASSUME w.curpos >= Len(w.line) PROVE s.col = Len(o.base) + Len(w.line)
  <2>1. Min({w.curpos, Len(w.line)}) = Len(w.line)
    BY <1>1, <1>2, <1>5
  <2> QED BY <1>3, <2>1, Zenon
<1> QED BY <1>3, <1>4, <1>5, Zenon

\* The row shows the line when the cursor is there.
LEMMA ShownIf ==
    ASSUME NEW w \in SessionType, NEW s, NEW o \in SeenType, s.row = o.base \o w.line,
           \/ w.curpos <= Len(w.line) /\ s.col = Len(o.base) + w.curpos
           \/ w.curpos >= Len(w.line) /\ s.col = Len(o.base) + Len(w.line)
    PROVE  Shows(w, s, o)
<1>1. w.curpos \in Nat /\ Len(w.line) \in Nat
  BY DEF SessionType
<1>2. Min({w.curpos, Len(w.line)}) = IF w.curpos <= Len(w.line) THEN w.curpos ELSE Len(w.line)
  BY <1>1, MinOfTwo, Zenon
<1>3. CASE w.curpos <= Len(w.line) /\ s.col = Len(o.base) + w.curpos
  BY <1>2, <1>3, Zenon DEF Shows
<1>4. CASE w.curpos >= Len(w.line) /\ s.col = Len(o.base) + Len(w.line)
  <2>1. Min({w.curpos, Len(w.line)}) = Len(w.line)
    BY <1>1, <1>2, <1>4
  <2> QED BY <1>4, <2>1, Zenon DEF Shows
<1> QED BY <1>3, <1>4, Zenon

\* A key without effect.
LEMMA NothingKeeps ==
    ASSUME NEW w, Row(w)
    PROVE  KeepsRow(Nothing(w))
<1>1. w \in SessionType /\ OnRow(scr) /\ seen \in SeenType /\ scr.ins = w.insertMode
      /\ (seen.ok /\ ~w.closing => Shows(w, scr, seen))
  BY Zenon DEF Row
<1> QED BY <1>1, EffectKeeps, Zenon DEF Nothing

\* INSERT changes the mode of the editor and of the terminal.
LEMMA InsertKeeps ==
    ASSUME NEW w, Row(w)
    PROVE  KeepsRow(Insert(w))
<1> DEFINE v == [w EXCEPT !.insertMode = ~@]
           s == [scr EXCEPT !.ins = ~w.insertMode]
<1>1. w \in SessionType /\ OnRow(scr) /\ seen \in SeenType /\ scr.ins = w.insertMode
      /\ (seen.ok /\ ~w.closing => Shows(w, scr, seen))
  BY Zenon DEF Row
<1>2. v \in SessionType /\ v.line = w.line /\ v.curpos = w.curpos /\ v.closing = w.closing
      /\ v.insertMode = ~w.insertMode
  BY <1>1 DEF SessionType
<1>3. s \in ScreenType /\ s.row = scr.row /\ s.col = scr.col /\ s.ins = ~w.insertMode
  BY <1>1, <1>2 DEF SessionType, ScreenType, OnRow
<1> HIDE DEF v, s
<1>4. OnRow(s)
  BY <1>1, <1>3, Zenon DEF OnRow
<1>5. seen.ok /\ ~v.closing => Shows(v, s, seen)
  BY <1>1, <1>2, <1>3, Zenon DEF Shows
<1>6. s.ins = v.insertMode
  BY <1>2, <1>3, Zenon
<1>7. KeepsRow(Effect(v, s, seen))
  BY <1>1, <1>2, <1>4, <1>5, <1>6, EffectKeeps, Zenon
<1> QED BY <1>7, Zenon DEF Insert, v, s

\* Removing an element is splicing nothing over it.
LEMMA RemovedIsSpliced ==
    ASSUME NEW S, NEW l \in Seq(S), NEW p \in Nat, p < Len(l)
    PROVE  /\ RemovedAt(l, p) = Spliced(l, p, 1, <<>>)
           /\ RemovedAt(l, p) \in Seq(S) /\ Len(RemovedAt(l, p)) = Len(l) - 1
<1> DEFINE nil == <<>>
           r == Spliced(l, p, 1, nil)
<1>1. nil \in Seq(S) /\ Len(nil) = 0 /\ p <= Len(l) /\ p + 1 <= Len(l) /\ 1 \in Nat /\ Len(l) \in Nat
  OBVIOUS
<1>2. RemovedAt(l, p) = r
  <2> DEFINE f == SubSeq(l, 1, p)
             b == SubSeq(l, p + 2, Len(l))
  <2>1. f \in Seq(S)
    BY FrontOf, <1>1
  <2>2. p + 2 = p + 1 + 1 OBVIOUS
  <2>3. f \o nil = f
    <3> HIDE DEF f
    <3> QED BY <2>1
  <2> HIDE DEF f, nil
  <2>4. r = f \o b
    BY <2>2, <2>3, Zenon DEF Spliced, f
  <2> QED BY <2>4, Zenon DEF RemovedAt, f
<1> HIDE DEF nil
<1>3. r \in Seq(S) /\ Len(r) = (Len(l) - 1) + Len(nil)
  <2>1. PICK c \in Seq(S) : c = nil
    BY <1>1
  <2>2. PICK one \in Nat : one = 1
    OBVIOUS
  <2>3. p <= Len(l) /\ p + one <= Len(l)
    BY <1>1, <2>2
  <2>4. Spliced(l, p, one, c) \in Seq(S) /\ Len(Spliced(l, p, one, c)) = (Len(l) - one) + Len(c)
    BY ONLY l \in Seq(S), p \in Nat, one \in Nat, c \in Seq(S), <2>3, SplicedLength
  <2> QED BY <2>1, <2>2, <2>4, Zenon
<1>4. Len(r) = Len(l) - 1
  BY <1>1, <1>3
<1> QED BY <1>2, <1>3, <1>4, Zenon DEF nil

-----------------------------------------------------------------------------
(* Keys.                                                                   *)

\* The cursor moves within the row.
LEMMA CursorMoves ==
    ASSUME NEW s, OnRow(s)
    PROVE  /\ OnRow(cursor_back(s)) /\ cursor_back(s).row = s.row /\ cursor_back(s).ins = s.ins
           /\ s.col > 0 => cursor_back(s).col = s.col - 1
           /\ OnRow(cursor_forward(s)) /\ cursor_forward(s).row = s.row /\ cursor_forward(s).ins = s.ins
           /\ s.col < Len(s.row) => cursor_forward(s).col = s.col + 1
<1> DEFINE x == IF s.col = 0 THEN 0 ELSE s.col - 1
           y == IF s.col < Len(s.row) THEN s.col + 1 ELSE s.col
<1>1. s \in ScreenType /\ s.col \in Nat /\ Len(s.row) \in Nat /\ s.col <= Len(s.row)
  BY DEF OnRow, ScreenType
<1>2. /\ x \in Nat /\ x <= Len(s.row) /\ (s.col > 0 => x = s.col - 1)
      /\ y \in Nat /\ y <= Len(s.row) /\ (s.col < Len(s.row) => y = s.col + 1)
  BY <1>1
<1>3. cursor_back(s) = [s EXCEPT !.col = x] /\ cursor_forward(s) = [s EXCEPT !.col = y]
  BY Zenon DEF cursor_back, cursor_forward
<1> HIDE DEF x, y
<1>4. ASSUME NEW z \in Nat, z <= Len(s.row), NEW t, t = [s EXCEPT !.col = z]
      PROVE  OnRow(t) /\ t.row = s.row /\ t.ins = s.ins /\ t.col = z
  <2>1. t \in ScreenType /\ t.row = s.row /\ t.ins = s.ins /\ t.col = z
    BY <1>1, <1>4 DEF ScreenType
  <2> QED BY <1>4, <2>1, Zenon DEF OnRow
<1>5. /\ OnRow(cursor_back(s)) /\ cursor_back(s).row = s.row /\ cursor_back(s).ins = s.ins
      /\ cursor_back(s).col = x
  BY <1>2, <1>3, <1>4, Zenon
<1>6. /\ OnRow(cursor_forward(s)) /\ cursor_forward(s).row = s.row /\ cursor_forward(s).ins = s.ins
      /\ cursor_forward(s).col = y
  BY <1>2, <1>3, <1>4, Zenon
<1> QED BY <1>2, <1>5, <1>6, Zenon

\* Deleting the cell under the cursor leaves the cursor on the row.
LEMMA EraseKeeps ==
    ASSUME NEW s, OnRow(s)
    PROVE  /\ OnRow(erase(s)) /\ erase(s).col = s.col /\ erase(s).ins = s.ins
           /\ s.col < Len(s.row) => erase(s).row = RemovedAt(s.row, s.col)
<1> DEFINE x == IF s.col < Len(s.row) THEN RemovedAt(s.row, s.col) ELSE s.row
<1>1. s \in ScreenType /\ s.col \in Nat /\ s.row \in Seq(Cells) /\ Len(s.row) \in Nat /\ s.col <= Len(s.row)
  BY DEF OnRow, ScreenType
<1>2. x \in Seq(Cells) /\ s.col <= Len(x)
  <2>1. CASE s.col < Len(s.row)
    <3>1. RemovedAt(s.row, s.col) \in Seq(Cells) /\ Len(RemovedAt(s.row, s.col)) = Len(s.row) - 1
      BY <1>1, <2>1, RemovedIsSpliced
    <3>2. s.col <= Len(s.row) - 1
      BY <1>1, <2>1
    <3> QED BY <2>1, <3>1, <3>2, Zenon
  <2>2. CASE ~(s.col < Len(s.row))
    BY <1>1, <2>2, Zenon
  <2> QED BY <2>1, <2>2, Zenon
<1>3. erase(s) = [s EXCEPT !.row = x]
  BY Zenon DEF erase
<1>4. s.col < Len(s.row) => x = RemovedAt(s.row, s.col)
  BY Zenon
<1> HIDE DEF x
<1>5. erase(s) \in ScreenType /\ erase(s).row = x /\ erase(s).ins = s.ins /\ erase(s).col = s.col
  BY <1>1, <1>2, <1>3 DEF ScreenType
<1>6. OnRow(erase(s))
  BY <1>2, <1>5, Zenon DEF OnRow
<1> QED BY <1>4, <1>5, <1>6, Zenon

\* Deleting a cell of the line shown.
LEMMA EraseInLine ==
    ASSUME NEW s, OnRow(s), NEW base \in Seq(Cells), NEW line \in Seq(Cells), NEW p \in Nat,
           p < Len(line), s.row = base \o line, s.col = Len(base) + p
    PROVE  erase(s).row = base \o RemovedAt(line, p)
<1>1. /\ base \o line \in Seq(Cells) /\ Len(base \o line) = Len(base) + Len(line)
      /\ Len(base) \in Nat /\ Len(line) \in Nat
  BY ONLY base \in Seq(Cells), line \in Seq(Cells)
<1>2. Len(base) + p \in Nat /\ Len(base) + p < Len(base \o line) /\ p <= Len(line)
  BY <1>1
<1>3. erase(s).row = RemovedAt(base \o line, Len(base) + p)
  BY <1>2, EraseKeeps, Zenon
<1>4. RemovedAt(base \o line, Len(base) + p) = Spliced(base \o line, Len(base) + p, 1, <<>>)
  <2>1. PICK g \in Seq(Cells), n \in Nat : g = base \o line /\ n = Len(base) + p
    BY <1>1, <1>2, Zenon
  <2>2. n < Len(g)
    BY <1>2, <2>1, Zenon
  <2>3. RemovedAt(g, n) = Spliced(g, n, 1, <<>>)
    BY <2>2, RemovedIsSpliced, Zenon
  <2> QED BY <2>1, <2>3, Zenon
<1>5. RemovedAt(line, p) = Spliced(line, p, 1, <<>>)
  BY RemovedIsSpliced, Zenon
<1>6. Spliced(base \o line, Len(base) + p, 1, <<>>) = base \o Spliced(line, p, 1, <<>>)
  <2>1. PICK c \in Seq(Cells) : c = <<>>
    <3>1. <<>> \in Seq(Cells) OBVIOUS
    <3> QED BY <3>1, Zenon
  <2>2. PICK one \in Nat : one = 1
    OBVIOUS
  <2>3. Spliced(base \o line, Len(base) + p, one, c) = base \o Spliced(line, p, one, c)
    BY ONLY base \in Seq(Cells), line \in Seq(Cells), c \in Seq(Cells), p \in Nat, one \in Nat,
            <1>2, WriteBehind, SMTT(30)
  <2> QED BY <2>1, <2>2, <2>3, Zenon
<1> QED BY <1>3, <1>4, <1>5, <1>6, Zenon

\* BACKSPACE takes the same cell from the row as from the line, and none from a row whose
\* position lies behind the end of the line.
LEMMA BackspaceKeeps ==
    ASSUME NEW w, Row(w)
    PROVE  KeepsRow(on_TKEY_BS(w))
<1> DEFINE c == w.curpos
           q == c - 1
           l == w.line
           n == Len(l)
           b == seen.base
<1>1. /\ w \in SessionType /\ OnRow(scr) /\ seen \in SeenType /\ scr.ins = w.insertMode
      /\ l \in Seq(STRING) /\ l \in Seq(Cells) /\ c \in Nat /\ n \in Nat
      /\ b \in Seq(Cells) /\ Len(b) \in Nat
  BY RowParts, Zenon
<1>2. ASSUME c = 0 PROVE KeepsRow(on_TKEY_BS(w))
  BY <1>2, NothingKeeps, Zenon DEF on_TKEY_BS
<1>3. ASSUME c # 0 PROVE q \in Nat /\ c > 0
  BY <1>1, <1>3
<1>4. ASSUME c # 0, q < n PROVE KeepsRow(on_TKEY_BS(w))
  <2> DEFINE r == RemovedAt(l, q)
             v == [w EXCEPT !.curpos = q, !.line = r]
             s == cursor_back(scr)
             er == erase(s)
  <2>1. q \in Nat /\ c > 0
    BY <1>3, <1>4, Zenon
  <2>2. r \in Seq(STRING) /\ Len(r) = n - 1
    BY <1>1, <1>4, <2>1, RemovedIsSpliced, Zenon
  <2>4. v \in SessionType /\ v.line = r /\ v.curpos = q /\ v.closing = w.closing /\ v.insertMode = w.insertMode
    <3> HIDE DEF r, q
    <3> QED BY <1>1, <2>1, <2>2 DEF SessionType
  <2>5. OnRow(s) /\ s.row = scr.row /\ s.ins = scr.ins /\ (scr.col > 0 => s.col = scr.col - 1)
    BY <1>1, CursorMoves, Zenon
  <2> HIDE DEF s
  <2>6. OnRow(er) /\ er.col = s.col /\ er.ins = s.ins
    BY <2>5, EraseKeeps, Zenon
  <2> HIDE DEF er, v
  <2>7. ASSUME seen.ok, ~v.closing PROVE Shows(v, er, seen)
    <3>1. Shows(w, scr, seen)
      BY <2>4, <2>7, Zenon DEF Row
    <3>2. scr.row = b \o l /\ (c <= n => scr.col = Len(b) + c)
      BY <1>1, <3>1, ShownAt, Zenon
    <3>3. c <= n /\ q <= n - 1 /\ Len(b) + c > 0 /\ (Len(b) + c) - 1 = Len(b) + q
      BY <1>1, <1>4, <2>1
    <3>4. s.row = b \o l /\ s.col = Len(b) + q
      <4> HIDE DEF q, c, n
      <4> QED BY <2>5, <3>2, <3>3, Zenon
    <3>5. er.row = b \o r
      <4> HIDE DEF q
      <4> QED BY <1>1, <1>4, <2>1, <2>5, <3>4, EraseInLine, Zenon DEF er
    <3>6. v.curpos <= Len(v.line) /\ er.row = b \o v.line /\ er.col = Len(b) + v.curpos
      <4> HIDE DEF q, n, r
      <4> QED BY <2>2, <2>4, <2>6, <3>3, <3>4, <3>5, Zenon
    <3> QED BY <1>1, <2>4, <3>6, ShownIf, Zenon
  <2>8. KeepsRow(Effect(v, er, seen))
    BY <1>1, <2>4, <2>5, <2>6, <2>7, EffectKeeps, Zenon
  <2>9. on_TKEY_BS(w) = Effect(v, er, seen)
    BY <1>4, Zenon DEF on_TKEY_BS, v, er, s
  <2> QED BY <2>8, <2>9, Zenon
<1>5. ASSUME c # 0, ~(q < n) PROVE KeepsRow(on_TKEY_BS(w))
  <2> DEFINE v == [w EXCEPT !.curpos = q]
  <2>1. q \in Nat /\ c >= n /\ q >= n
    BY <1>1, <1>3, <1>5
  <2>2. v \in SessionType /\ v.line = l /\ v.curpos = q /\ v.closing = w.closing /\ v.insertMode = w.insertMode
    <3> HIDE DEF q
    <3> QED BY <1>1, <2>1, SetPos, Zenon
  <2> HIDE DEF v
  <2>3. ASSUME seen.ok, ~v.closing PROVE Shows(v, scr, seen)
    <3>1. Shows(w, scr, seen)
      BY <2>2, <2>3, Zenon DEF Row
    <3>2. scr.row = b \o l /\ scr.col = Len(b) + n
      BY <1>1, <2>1, <3>1, ShownAt, Zenon
    <3>3. v.curpos >= Len(v.line) /\ scr.row = b \o v.line /\ scr.col = Len(b) + Len(v.line)
      <4> HIDE DEF q
      <4> QED BY <2>1, <2>2, <3>2, Zenon
    <3> QED BY <1>1, <2>2, <3>3, ShownIf, Zenon
  <2>4. KeepsRow(Effect(v, scr, seen))
    BY <1>1, <2>2, <2>3, EffectKeeps, Zenon
  <2>5. on_TKEY_BS(w) = Effect(v, scr, seen)
    BY <1>5, Zenon DEF on_TKEY_BS, v
  <2> QED BY <2>4, <2>5, Zenon
<1> QED BY <1>2, <1>4, <1>5, Zenon

\* DELETE takes the same cell from the row as from the line.
LEMMA DeleteKeeps ==
    ASSUME NEW w, Row(w)
    PROVE  KeepsRow(Delete(w))
<1> DEFINE c == w.curpos
           l == w.line
           n == Len(l)
           b == seen.base
<1>1. /\ w \in SessionType /\ OnRow(scr) /\ seen \in SeenType /\ scr.ins = w.insertMode
      /\ l \in Seq(STRING) /\ l \in Seq(Cells) /\ c \in Nat /\ n \in Nat
      /\ b \in Seq(Cells) /\ Len(b) \in Nat
  BY RowParts, Zenon
<1>2. ASSUME ~(c < n) PROVE KeepsRow(Delete(w))
  BY <1>2, NothingKeeps, Zenon DEF Delete
<1>3. ASSUME c < n PROVE KeepsRow(Delete(w))
  <2> DEFINE r == RemovedAt(l, c)
             v == [w EXCEPT !.line = r]
             er == erase(scr)
  <2>1. r \in Seq(STRING) /\ Len(r) = n - 1
    BY <1>1, <1>3, RemovedIsSpliced, Zenon
  <2>2. v \in SessionType /\ v.line = r /\ v.curpos = c /\ v.closing = w.closing /\ v.insertMode = w.insertMode
    <3> HIDE DEF r
    <3> QED BY <1>1, <2>1 DEF SessionType
  <2>3. OnRow(er) /\ er.col = scr.col /\ er.ins = scr.ins
    BY <1>1, EraseKeeps, Zenon
  <2> HIDE DEF er, v
  <2>4. ASSUME seen.ok, ~v.closing PROVE Shows(v, er, seen)
    <3>1. Shows(w, scr, seen)
      BY <2>2, <2>4, Zenon DEF Row
    <3>2. c <= n /\ c <= n - 1
      BY <1>1, <1>3
    <3>3. scr.row = b \o l /\ scr.col = Len(b) + c
      BY <1>1, <3>1, <3>2, ShownAt, Zenon
    <3>4. er.row = b \o r
      BY <1>1, <1>3, <3>3, EraseInLine, Zenon DEF er
    <3>5. v.curpos <= Len(v.line) /\ er.row = b \o v.line /\ er.col = Len(b) + v.curpos
      <4> HIDE DEF n, r
      <4> QED BY <2>1, <2>2, <2>3, <3>2, <3>3, <3>4, Zenon
    <3> QED BY <1>1, <2>2, <3>5, ShownIf, Zenon
  <2>5. KeepsRow(Effect(v, er, seen))
    BY <1>1, <2>2, <2>3, <2>4, EffectKeeps, Zenon
  <2>6. Delete(w) = Effect(v, er, seen)
    BY <1>3, Zenon DEF Delete, v, er
  <2> QED BY <2>5, <2>6, Zenon
<1> QED BY <1>2, <1>3, Zenon

\* LEFT moves the cursor and the position together, or gives the row up.
LEMMA LeftKeeps ==
    ASSUME NEW w, Row(w)
    PROVE  KeepsRow(Left(w))
<1> DEFINE c == w.curpos
           q == c - 1
           l == w.line
           n == Len(l)
           b == seen.base
<1>1. /\ w \in SessionType /\ OnRow(scr) /\ seen \in SeenType /\ scr.ins = w.insertMode
      /\ l \in Seq(STRING) /\ l \in Seq(Cells) /\ c \in Nat /\ n \in Nat
      /\ b \in Seq(Cells) /\ Len(b) \in Nat /\ seen.ok \in BOOLEAN
  BY RowParts, Zenon
<1>2. ASSUME c = 0 PROVE KeepsRow(Left(w))
  BY <1>2, NothingKeeps, Zenon DEF Left
<1>3. ASSUME c # 0 PROVE KeepsRow(Left(w))
  <2> DEFINE v == [w EXCEPT !.curpos = q]
             s == cursor_back(scr)
             o == [seen EXCEPT !.ok = seen.ok /\ c <= n]
  <2>1. q \in Nat /\ c > 0
    BY <1>1, <1>3
  <2>2. v \in SessionType /\ v.line = l /\ v.curpos = q /\ v.closing = w.closing /\ v.insertMode = w.insertMode
    <3> HIDE DEF q
    <3> QED BY <1>1, <2>1, SetPos, Zenon
  <2>3. OnRow(s) /\ s.row = scr.row /\ s.ins = scr.ins /\ (scr.col > 0 => s.col = scr.col - 1)
    BY <1>1, CursorMoves, Zenon
  <2>4. o \in SeenType /\ o.base = b /\ (o.ok => seen.ok /\ c <= n)
    BY <1>1 DEF SeenType
  <2> HIDE DEF s, v, o
  <2>5. ASSUME o.ok, ~v.closing PROVE Shows(v, s, o)
    <3>1. Shows(w, scr, seen) /\ c <= n
      BY <2>2, <2>4, <2>5, Zenon DEF Row
    <3>2. scr.row = b \o l /\ scr.col = Len(b) + c
      BY <1>1, <3>1, ShownAt, Zenon
    <3>3. q <= n /\ Len(b) + c > 0 /\ (Len(b) + c) - 1 = Len(b) + q
      BY <1>1, <2>1, <3>1
    <3>4. v.curpos <= Len(v.line) /\ s.row = o.base \o v.line /\ s.col = Len(o.base) + v.curpos
      <4> HIDE DEF q, n, c
      <4> QED BY <2>2, <2>3, <2>4, <3>2, <3>3, Zenon DEF n
    <3> QED BY <2>2, <2>4, <3>4, ShownIf, Zenon
  <2>6. KeepsRow(Effect(v, s, o))
    BY <1>1, <2>2, <2>3, <2>4, <2>5, EffectKeeps, Zenon
  <2>7. Left(w) = Effect(v, s, o)
    BY <1>3, Zenon DEF Left, v, s, o
  <2> QED BY <2>6, <2>7, Zenon
<1> QED BY <1>2, <1>3, Zenon

\* RIGHT moves the cursor and the position together.
LEMMA RightKeeps ==
    ASSUME NEW w, Row(w)
    PROVE  KeepsRow(Right(w))
<1> DEFINE c == w.curpos
           q == c + 1
           l == w.line
           n == Len(l)
           b == seen.base
<1>1. /\ w \in SessionType /\ OnRow(scr) /\ seen \in SeenType /\ scr.ins = w.insertMode
      /\ l \in Seq(STRING) /\ l \in Seq(Cells) /\ c \in Nat /\ n \in Nat
      /\ b \in Seq(Cells) /\ Len(b) \in Nat
  BY RowParts, Zenon
<1>2. ASSUME ~(c < n) PROVE KeepsRow(Right(w))
  BY <1>2, NothingKeeps, Zenon DEF Right
<1>3. ASSUME c < n PROVE KeepsRow(Right(w))
  <2> DEFINE v == [w EXCEPT !.curpos = q]
             s == cursor_forward(scr)
  <2>1. q \in Nat /\ c <= n /\ q <= n
    BY <1>1, <1>3
  <2>2. v \in SessionType /\ v.line = l /\ v.curpos = q /\ v.closing = w.closing /\ v.insertMode = w.insertMode
    <3> HIDE DEF q
    <3> QED BY <1>1, <2>1, SetPos, Zenon
  <2>3. OnRow(s) /\ s.row = scr.row /\ s.ins = scr.ins /\ (scr.col < Len(scr.row) => s.col = scr.col + 1)
    BY <1>1, CursorMoves, Zenon
  <2> HIDE DEF s, v
  <2>4. ASSUME seen.ok, ~v.closing PROVE Shows(v, s, seen)
    <3>1. Shows(w, scr, seen)
      BY <2>2, <2>4, Zenon DEF Row
    <3>2. scr.row = b \o l /\ scr.col = Len(b) + c
      BY <1>1, <2>1, <3>1, ShownAt, Zenon
    <3>3. Len(b \o l) = Len(b) + n
      <4>1. \A x, y \in Seq(Cells) : Len(x \o y) = Len(x) + Len(y)
        OBVIOUS
      <4> QED BY <1>1, <4>1, Zenon
    <3>4. Len(b) + c < Len(b) + n /\ (Len(b) + c) + 1 = Len(b) + q
      <4> HIDE DEF c, n, b
      <4> QED BY <1>1, <1>3
    <3>5. v.curpos <= Len(v.line) /\ s.row = b \o v.line /\ s.col = Len(b) + v.curpos
      <4> HIDE DEF q, n, c
      <4> QED BY <2>1, <2>2, <2>3, <3>2, <3>3, <3>4, Zenon DEF n
    <3> QED BY <1>1, <2>2, <3>5, ShownIf, Zenon
  <2>5. KeepsRow(Effect(v, s, seen))
    BY <1>1, <2>2, <2>3, <2>4, EffectKeeps, Zenon
  <2>6. Right(w) = Effect(v, s, seen)
    BY <1>3, Zenon DEF Right, v, s
  <2> QED BY <2>5, <2>6, Zenon
<1> QED BY <1>2, <1>3, Zenon

\* A prompt can be shown.
LEMMA PromptType ==
    ASSUME NEW dir \in Seq(STRING)
    PROVE  promptString(dir) \in Seq(Cells)
<1>1. path(dir) \in Seq(STRING)
  <2>1. Len(dir) \in Nat /\ \A i \in 1 .. Len(dir) : dir[Len(dir) + 1 - i] \in STRING
    OBVIOUS
  <2>2. [i \in 1 .. Len(dir) |-> dir[Len(dir) + 1 - i]] \in Seq(STRING)
    BY <2>1
  <2> QED BY <2>2, Zenon DEF path
<1> DEFINE x == path(dir)
<1>2. x \in Cells
  BY <1>1, Zenon DEF Cells
<1> HIDE DEF x
<1>3. <<x>> \in Seq(Cells)
  BY <1>2
<1> QED BY <1>3, Zenon DEF promptString, x

\* The parts of the history.
LEMMA SeenFields ==
    ASSUME NEW b \in Seq(Cells), NEW t \in BOOLEAN
    PROVE  LET o == [base |-> b, ok |-> t] IN o \in SeenType /\ o.base = b /\ o.ok = t
BY DEF SeenType

\* An empty line is shown by what precedes it, whatever the position.
LEMMA ShownEmpty ==
    ASSUME NEW v \in SessionType, NEW s, NEW o \in SeenType, v.line = <<>>, s.row = o.base, s.col = Len(o.base)
    PROVE  Shows(v, s, o)
<1>1. o.base \in Seq(Cells) /\ v.curpos \in Nat
  BY DEF SeenType, SessionType
<1>2. \A x \in Seq(Cells) : x \o <<>> = x /\ Len(<<>>) = 0 /\ Len(x) \in Nat
  OBVIOUS
<1>3. o.base \o v.line = o.base /\ Len(v.line) = 0 /\ Len(o.base) \in Nat
  BY <1>1, <1>2, Zenon
<1>4. v.curpos >= Len(v.line) /\ Len(o.base) + Len(v.line) = Len(o.base)
  BY <1>1, <1>3
<1> QED BY <1>3, <1>4, ShownIf, Zenon

\* The row erased and prompted again.
LEMMA PromptedRow ==
    ASSUME NEW w, Row(w)
    PROVE  /\ OnRow(Prompted(w)) /\ Prompted(w).ins = w.insertMode
           /\ promptString(w.node) \in Seq(Cells)
           /\ Prompted(w).row = promptString(w.node) /\ Prompted(w).col = Len(promptString(w.node))
<1>1. OnRow(scr) /\ w.node \in Seq(STRING) /\ scr.ins = w.insertMode
  BY RowParts, Zenon
<1>2. promptString(w.node) \in Seq(Cells)
  BY <1>1, PromptType, Zenon
<1> QED BY <1>1, <1>2, PromptAndLine, Zenon DEF Prompted

\* ESC shows the prompt alone, which is right for an empty line only.
LEMMA EscapeKeeps ==
    ASSUME NEW w, Row(w)
    PROVE  KeepsRow(Escape(w))
<1> DEFINE t == w.line = <<>>
           b == promptString(w.node)
           o == [base |-> b, ok |-> t]
           s == Prompted(w)
<1>1. w \in SessionType
  BY RowParts, Zenon
<1>2. OnRow(s) /\ s.ins = w.insertMode /\ b \in Seq(Cells) /\ s.row = b /\ s.col = Len(b)
  BY PromptedRow, Zenon
<1>3. t \in BOOLEAN
  BY Zenon
<1> HIDE DEF b, s
<1>4. o \in SeenType /\ o.base = b /\ (o.ok => w.line = <<>>)
  <2>1. o \in SeenType /\ o.base = b /\ o.ok = t
    <3> HIDE DEF t
    <3> QED BY <1>2, <1>3, SeenFields
  <2> HIDE DEF o
  <2> QED BY <2>1, Zenon
<1> HIDE DEF o
<1>5. o.ok /\ ~w.closing => Shows(w, s, o)
  BY <1>1, <1>2, <1>4, ShownEmpty, Zenon
<1>6. KeepsRow(Effect(w, s, o))
  BY <1>1, <1>2, <1>4, <1>5, EffectKeeps, Zenon
<1> QED BY <1>6, Zenon DEF Escape, s, o, b

\* UP and DOWN show the line they take from the history, or the prompt alone past its ends.
LEMMA HistoryKeeps ==
    ASSUME NEW w, Row(w), NEW next \in Int
    PROVE  KeepsRow(History(w, next))
<1> DEFINE h == w.history
           idx == Len(h) + w.pos + next
           cmd == h[idx + 1]
           b == promptString(w.node)
           o == [base |-> b, ok |-> TRUE]
           s == Prompted(w)
<1>1. /\ w \in SessionType /\ OnRow(scr) /\ scr.ins = w.insertMode
      /\ h \in Seq(Seq(STRING)) /\ w.pos \in Int
  BY RowParts, Zenon
<1>2. OnRow(s) /\ s.ins = w.insertMode /\ b \in Seq(Cells) /\ s.row = b /\ s.col = Len(b)
  BY PromptedRow, Zenon
<1> HIDE DEF b, s
<1>3. o \in SeenType /\ o.base = b /\ o.ok
  BY <1>2 DEF SeenType
<1>4. ASSUME h = <<>> PROVE KeepsRow(History(w, next))
  BY <1>4, NothingKeeps, Zenon DEF History
<1>5. ASSUME h # <<>>, idx >= 0, idx < Len(h) PROVE KeepsRow(History(w, next))
  <2> DEFINE v == [w EXCEPT !.line = cmd, !.curpos = Len(cmd), !.pos = @ + next]
             t == Text(s, cmd)
  <2>1. cmd \in Seq(STRING)
    BY <1>1, <1>5
  <2>2. cmd \in Seq(Cells) /\ Len(cmd) \in Nat /\ w.pos + next \in Int
    <3> HIDE DEF cmd
    <3>1. Len(cmd) \in Nat /\ w.pos + next \in Int BY <1>1, <2>1
    <3> QED BY <2>1, <3>1, CellsOfBytes, Zenon
  <2> HIDE DEF cmd
  <2>3. /\ v \in SessionType /\ v.line = cmd /\ v.curpos = Len(cmd) /\ v.closing = w.closing
        /\ v.insertMode = w.insertMode
    BY <1>1, <2>1, <2>2 DEF SessionType
  <2>4. OnRow(t) /\ t.ins = scr.ins /\ t.row = b \o cmd /\ t.col = Len(b) + Len(cmd)
    BY <1>1, <1>2, <2>2, PromptAndLine, Zenon DEF s, Prompted, b
  <2> HIDE DEF v, t, o
  <2>5. Shows(v, t, o)
    <3>1. Len(cmd) <= Len(cmd) BY <2>2
    <3>2. v.curpos <= Len(v.line) /\ t.row = o.base \o v.line /\ t.col = Len(o.base) + v.curpos
      BY <1>3, <2>3, <2>4, <3>1, Zenon
    <3> QED BY <1>3, <2>3, <3>2, ShownIf, Zenon
  <2>6. KeepsRow(Effect(v, t, o))
    BY <1>1, <1>3, <2>3, <2>4, <2>5, EffectKeeps, Zenon
  <2>7. History(w, next) = Effect(v, t, o)
    BY <1>5, Zenon DEF History, v, t, o, s, b, cmd
  <2> QED BY <2>6, <2>7, Zenon
<1>6. ASSUME h # <<>>, ~(idx >= 0 /\ idx < Len(h)) PROVE KeepsRow(History(w, next))
  <2> DEFINE v == [w EXCEPT !.curpos = 0]
             p == [o EXCEPT !.ok = w.line = <<>>]
  <2>1. v \in SessionType /\ v.line = w.line /\ v.closing = w.closing /\ v.insertMode = w.insertMode
    BY <1>1, SetPos
  <2>2. p \in SeenType /\ p.base = b /\ (p.ok => w.line = <<>>)
    <3> DEFINE t == w.line = <<>>
    <3>1. t \in BOOLEAN
      BY Zenon
    <3> HIDE DEF t, o
    <3>2. p \in SeenType /\ p.base = b /\ p.ok = t
      BY <1>3, <3>1 DEF SeenType, t
    <3> HIDE DEF p
    <3> QED BY <3>2, Zenon DEF t
  <2> HIDE DEF v, p
  <2>3. p.ok /\ ~v.closing => Shows(v, s, p)
    BY <1>2, <2>1, <2>2, ShownEmpty, Zenon
  <2>4. KeepsRow(Effect(v, s, p))
    BY <1>2, <2>1, <2>2, <2>3, EffectKeeps, Zenon
  <2>5. History(w, next) = Effect(v, s, p)
    BY <1>6, Zenon DEF History, v, p, s, b
  <2> QED BY <2>4, <2>5, Zenon
<1> QED BY <1>4, <1>5, <1>6, Zenon

\* The completion of a text is a text.
LEMMA AppendType ==
    ASSUME NEW v, v \subseteq Seq(STRING), NEW templ \in Seq(STRING)
    PROVE  getAutoAppendString(v, templ) \in Seq(STRING)
<1> DEFINE vm == {n \in v : Starts(n, templ)}
           first == CHOOSE n \in vm : TRUE
           A == {i \in 0 .. Len(first) : \A n \in vm : Starts(n, SubSeq(first, 1, i))}
           max == Max(A)
<1>1. CASE vm = {}
  <2>1. <<>> \in Seq(STRING)
    OBVIOUS
  <2> QED BY <1>1, <2>1, Zenon DEF getAutoAppendString
<1>2. CASE vm # {}
  <2>1. first \in vm
    BY <1>2, Zenon
  <2>2. first \in Seq(STRING) /\ vm \subseteq Seq(STRING)
    BY <2>1, Zenon
  <2> HIDE DEF first, vm
  <2>3. Len(first) \in Nat /\ Len(templ) \in Nat /\ 0 \in 0 .. Len(first)
    BY <2>2
  <2>4. ASSUME NEW n \in vm PROVE Starts(n, SubSeq(first, 1, 0))
    <3>1. n \in Seq(STRING) BY <2>2, Zenon
    <3>2. SubSeq(first, 1, 0) = <<>> BY <2>2
    <3>3. Len(<<>>) <= Len(n) /\ SubSeq(n, 1, Len(<<>>)) = <<>> BY <3>1
    <3> QED BY <3>2, <3>3, Zenon DEF Starts
  <2>5. 0 \in A /\ A \in SUBSET (0 .. Len(first))
    BY <2>3, <2>4, Zenon
  <2> HIDE DEF A
  <2>6. \E x \in A : \A y \in A : x >= y
    BY <2>3, <2>5, GreatestElement, Zenon
  <2>7. max \in A
    BY <2>6, Zenon DEF Max
  <2>8. max \in 0 .. Len(first)
    BY <2>5, <2>7, Zenon
  <2>9. SubSeq(first, Len(templ) + 1, max) \in Seq(STRING)
    <3> HIDE DEF max
    <3> QED BY <2>2, <2>3, <2>8
  <2> QED BY <1>2, <2>9, Zenon DEF getAutoAppendString, first, vm, A
<1> QED BY <1>1, <1>2, Zenon

\* Directories are texts, and commands were registered.
CommandsType ==
    /\ cmdEntries.dirs \subseteq Seq(STRING)
    /\ cmdEntries.commands \subseteq Registrations

\* TAB appends to the line and prints at the cursor: the same at the end of the line.
LEMMA TabKeeps ==
    ASSUME NEW w, Row(w), CommandsType
    PROVE  KeepsRow(Tab(w))
<1> DEFINE names == {CommandList[c.cmd].re : c \in commands(w.node)}
                      \cup {<<dir[Len(dir)]>> : dir \in Sub(cmdEntries.dirs, w.node)}
           a == getAutoAppendString(names, w.line)
           c == w.curpos
           l == w.line
           n == Len(l)
           b == seen.base
           m == c + Len(a)
           j == l \o a
           v == [w EXCEPT !.line = j, !.curpos = m]
           t == Text(scr, a)
           o == [seen EXCEPT !.ok = seen.ok /\ (a = <<>> \/ c >= n)]
           over == Over(scr, a)
<1>1. /\ w \in SessionType /\ OnRow(scr) /\ seen \in SeenType /\ scr.ins = w.insertMode
      /\ l \in Seq(STRING) /\ l \in Seq(Cells) /\ c \in Nat /\ n \in Nat
      /\ b \in Seq(Cells) /\ Len(b) \in Nat /\ seen.ok \in BOOLEAN /\ w.node \in Seq(STRING)
  BY RowParts, Zenon
<1>2. names \subseteq Seq(STRING)
  <2>1. ASSUME NEW it \in commands(w.node) PROVE CommandList[it.cmd].re \in Seq(STRING)
    BY CommandTexts, Zenon DEF commands, CommandsType
  <2>2. ASSUME NEW it \in Sub(cmdEntries.dirs, w.node) PROVE <<it[Len(it)]>> \in Seq(STRING)
    <3>1. it \in Seq(STRING) /\ Len(it) = Len(w.node) + 1
      BY Zenon DEF Sub, CommandsType
    <3>2. Len(w.node) \in Nat /\ Len(it) \in Nat
      BY <1>1, <3>1
    <3>3. it[Len(it)] \in STRING
      BY <3>1, <3>2
    <3> QED BY <3>3
  <2> QED BY <2>1, <2>2, Zenon
<1>3. a \in Seq(STRING)
  BY <1>1, <1>2, AppendType, Zenon
<1> HIDE DEF names, a
<1>4. a \in Seq(Cells) /\ Len(a) \in Nat
  BY <1>3, CellsOfBytes
<1>5. j \in Seq(STRING) /\ Len(j) = n + Len(a) /\ m \in Nat /\ over \in Nat
  <2>1. \A x, y \in Seq(STRING) : x \o y \in Seq(STRING) /\ Len(x \o y) = Len(x) + Len(y)
    OBVIOUS
  <2>2. j \in Seq(STRING) /\ Len(j) = n + Len(a)
    BY <1>1, <1>3, <2>1, Zenon
  <2>3. m \in Nat
    BY <1>1, <1>4
  <2>4. over \in Nat
    BY <1>4 DEF Over
  <2> QED BY <2>2, <2>3, <2>4, Zenon
<1>6. v \in SessionType /\ v.line = j /\ v.curpos = m /\ v.closing = w.closing /\ v.insertMode = w.insertMode
  <2> HIDE DEF j, m
  <2> QED BY <1>1, <1>5 DEF SessionType
<1>7. OnRow(t) /\ t.ins = scr.ins
  BY <1>1, <1>4, TextOf, Zenon
<1>8. o \in SeenType /\ o.base = b /\ (o.ok => seen.ok /\ (a = <<>> \/ c >= n))
  <2> DEFINE q == a = <<>> \/ c >= n
  <2>1. q \in BOOLEAN
    BY Zenon
  <2> HIDE DEF q
  <2>2. o \in SeenType /\ o.base = b /\ (o.ok => seen.ok /\ q)
    BY <1>1, <2>1 DEF SeenType, q
  <2> HIDE DEF o
  <2> QED BY <2>2, Zenon DEF q
<1> HIDE DEF v, o
<1>9. ASSUME o.ok, ~v.closing PROVE Shows(v, t, o)
  <2>1. Shows(w, scr, seen) /\ (a = <<>> \/ c >= n)
    BY <1>6, <1>8, <1>9, Zenon DEF Row
  <2>2. scr.row = b \o l /\ (c <= n => scr.col = Len(b) + c) /\ (c >= n => scr.col = Len(b) + n)
    BY <1>1, <2>1, ShownAt, Zenon
  <2>3. CASE c >= n
    <3>1. n <= n BY <1>1
    <3>2. t.col = Len(b) + (n + Len(a)) /\ t.row = b \o Spliced(l, n, over, a)
      <4>1. LineAt(scr, b, l, n)
        BY <2>2, <2>3, Zenon DEF LineAt
      <4> HIDE DEF b, l, n
      <4>2. b \in Seq(Cells) /\ l \in Seq(Cells) /\ n \in Nat /\ n <= Len(l) /\ a \in Seq(Cells) /\ OnRow(scr)
        BY <1>1, <1>4, <3>1, Zenon DEF n
      <4> QED BY ONLY <4>1, <4>2, TextInLine
    <3>3. Spliced(l, n, over, a) = l \o a
      <4> HIDE DEF over
      <4> QED BY <1>1, <1>3, <1>5, SplicedEnd, Zenon
    <3>4. m >= n + Len(a)
      <4> HIDE DEF c, n
      <4> QED BY <1>1, <1>4, <2>3
    <3>5. v.curpos >= Len(v.line) /\ t.row = o.base \o v.line /\ t.col = Len(o.base) + Len(v.line)
      <4> HIDE DEF m, t, over
      <4> QED BY <1>5, <1>6, <1>8, <3>2, <3>3, <3>4, Zenon
    <3> QED BY <1>6, <1>8, <3>5, ShownIf, Zenon
  <2>4. CASE ~(c >= n)
    <3>1. a = <<>> /\ c <= n
      BY <1>1, <2>1, <2>4
    <3>2. t.col = Len(b) + (c + Len(a)) /\ t.row = b \o Spliced(l, c, over, a)
      <4>1. LineAt(scr, b, l, c)
        BY <2>2, <3>1, Zenon DEF LineAt
      <4> HIDE DEF b, l, c
      <4>2. b \in Seq(Cells) /\ l \in Seq(Cells) /\ c \in Nat /\ c <= Len(l) /\ a \in Seq(Cells) /\ OnRow(scr)
        BY <1>1, <1>4, <3>1, Zenon
      <4> QED BY ONLY <4>1, <4>2, TextInLine
    <3>3. Len(a) = 0
      BY <3>1
    <3>4. over = 0
      BY <3>3, Zenon DEF Over
    <3>5. Spliced(l, c, 0, <<>>) = l
      BY <1>1, <3>1, SplicedNothing, Zenon
    <3>6. j = l /\ c + Len(a) = c /\ m = c
      <4>1. \A x \in Seq(STRING) : x \o <<>> = x
        OBVIOUS
      <4>2. \A x \in Nat : x + 0 = x
        OBVIOUS
      <4> QED BY <1>1, <3>1, <3>3, <4>1, <4>2, Zenon
    <3>7. v.curpos <= Len(v.line) /\ t.row = o.base \o v.line /\ t.col = Len(o.base) + v.curpos
      <4> HIDE DEF m, t, over, j
      <4> QED BY <1>6, <1>8, <3>1, <3>2, <3>4, <3>5, <3>6, Zenon
    <3> QED BY <1>6, <1>8, <3>7, ShownIf, Zenon
  <2> QED BY <2>3, <2>4, Zenon
<1>10. KeepsRow(Effect(v, t, o))
  BY <1>1, <1>6, <1>7, <1>8, <1>9, EffectKeeps, Zenon
<1> QED BY <1>10, Zenon DEF Tab, v, o, a, names

\* A character goes into the line, or over it, where the terminal prints it.
LEMMA CharacterKeeps ==
    ASSUME NEW w, Row(w), NEW ch \in STRING
    PROVE  KeepsRow(Character(w, ch))
<1> DEFINE c == w.curpos
           l == w.line
           n == Len(l)
           b == seen.base
           p == Min({w.curpos, Len(w.line)})
           a == <<ch>>
           over == IF w.insertMode THEN 0 ELSE 1
           x == SubSeq(w.line, 1, p) \o <<ch>>
                  \o SubSeq(w.line, p + (IF w.insertMode THEN 1 ELSE 2), Len(w.line))
           v == [w EXCEPT !.line = x, !.curpos = p + 1]
           t == Text(scr, a)
           o == [seen EXCEPT !.ok = seen.ok /\ ch \in Printable]
<1>1. /\ w \in SessionType /\ OnRow(scr) /\ seen \in SeenType /\ scr.ins = w.insertMode
      /\ l \in Seq(STRING) /\ l \in Seq(Cells) /\ c \in Nat /\ n \in Nat
      /\ b \in Seq(Cells) /\ Len(b) \in Nat /\ seen.ok \in BOOLEAN /\ w.insertMode \in BOOLEAN
  BY RowParts, Zenon
<1>2. p \in Nat /\ p <= n /\ (c <= n => p = c) /\ (c >= n => p = n)
  <2>1. p = IF c <= n THEN c ELSE n
    BY <1>1, MinOfTwo, Zenon
  <2> HIDE DEF p, c, n
  <2> QED BY <1>1, <2>1
<1>3. a \in Seq(STRING) /\ a \in Seq(Cells) /\ Len(a) = 1
  <2>1. a \in Seq(STRING) /\ Len(a) = 1
    BY OneElement, Zenon
  <2> HIDE DEF a
  <2> QED BY <2>1, CellsOfBytes, Zenon
<1> HIDE DEF p
<1>4. over \in Nat /\ p + (IF w.insertMode THEN 1 ELSE 2) = p + over + 1
  BY <1>1, <1>2
<1>5. x = Spliced(l, p, over, a)
  <2> HIDE DEF over
  <2> QED BY <1>4, Zenon DEF Spliced
<1>6. Over(scr, a) = over
  BY <1>1, <1>3, Zenon DEF Over
<1> HIDE DEF a, over
<1>7. x \in Seq(STRING) /\ p + 1 <= Len(x) /\ p + 1 \in Nat
  <2>1. Spliced(l, p, over, a) \in Seq(STRING) /\ p + Len(a) <= Len(Spliced(l, p, over, a))
    <3>1. l \in Seq(STRING) /\ p \in Nat /\ p <= Len(l) /\ over \in Nat /\ a \in Seq(STRING)
      BY <1>1, <1>2, <1>3, <1>4, Zenon
    <3> HIDE DEF l
    <3> QED BY ONLY <3>1, SplicedLength
  <2>2. p + 1 \in Nat
    BY <1>2
  <2> HIDE DEF x
  <2> QED BY <1>3, <1>5, <2>1, <2>2, Zenon
<1> HIDE DEF x
<1>8. v \in SessionType /\ v.line = x /\ v.curpos = p + 1 /\ v.closing = w.closing /\ v.insertMode = w.insertMode
  <2> DEFINE q == p + 1
  <2> HIDE DEF q
  <2>1. v = [w EXCEPT !.line = x, !.curpos = q] /\ q \in Nat
    BY <1>7, Zenon DEF q
  <2> HIDE DEF v
  <2>2. v \in SessionType /\ v.line = x /\ v.curpos = q /\ v.closing = w.closing /\ v.insertMode = w.insertMode
    BY <1>1, <1>7, <2>1 DEF SessionType
  <2> QED BY <2>2, Zenon DEF q
<1>9. OnRow(t) /\ t.ins = scr.ins
  BY <1>1, <1>3, TextOf, Zenon
<1>10. o \in SeenType /\ o.base = b /\ (o.ok => seen.ok)
  <2> DEFINE q == ch \in Printable
  <2>1. q \in BOOLEAN
    <3>1. q \/ ~q OBVIOUS
    <3> QED BY <3>1
  <2> HIDE DEF q
  <2> QED BY <1>1, <2>1 DEF SeenType, q
<1> HIDE DEF v, o
<1>11. ASSUME o.ok, ~v.closing PROVE Shows(v, t, o)
  <2>1. Shows(w, scr, seen)
    BY <1>8, <1>10, <1>11, Zenon DEF Row
  <2>2. scr.row = b \o l /\ (c <= n => scr.col = Len(b) + c) /\ (c >= n => scr.col = Len(b) + n)
    BY <1>1, <2>1, ShownAt, Zenon
  <2>3. c <= n \/ c >= n
    BY <1>1
  <2>4. LineAt(scr, b, l, p)
    BY <1>2, <2>2, <2>3, Zenon DEF LineAt
  <2>5. t.col = Len(b) + (p + Len(a)) /\ t.row = b \o Spliced(l, p, Over(scr, a), a)
    <3>1. b \in Seq(Cells) /\ l \in Seq(Cells) /\ p \in Nat /\ p <= Len(l) /\ a \in Seq(Cells) /\ OnRow(scr)
      BY <1>1, <1>2, <1>3, Zenon
    <3> HIDE DEF b, l
    <3> QED BY ONLY <2>4, <3>1, TextInLine
  <2>6. v.curpos <= Len(v.line) /\ t.row = o.base \o v.line /\ t.col = Len(o.base) + v.curpos
    BY <1>3, <1>5, <1>6, <1>7, <1>8, <1>10, <2>5, Zenon
  <2> QED BY <1>8, <1>10, <2>6, ShownIf, Zenon
<1>12. KeepsRow(Effect(v, t, o))
  BY <1>1, <1>8, <1>9, <1>10, <1>11, EffectKeeps, Zenon
<1>13. Character(w, ch) = Effect(v, t, o)
  BY Zenon DEF Character, v, o, x, a, p
<1> QED BY <1>12, <1>13, Zenon

\* Nothing is asked of the row of a session that is being closed.
LEMMA Closed ==
    ASSUME NEW v, NEW s, NEW o, v \in SessionType, OnRow(s), o \in SeenType, s.ins = v.insertMode
    PROVE  KeepsRow([Effect(v, s, o) EXCEPT !.close = TRUE])
<1> DEFINE k == [Effect(v, s, o) EXCEPT !.close = TRUE]
<1>1. k.w = v /\ k.scr = s /\ k.seen = o /\ k.close /\ k.close \in BOOLEAN
  BY DEF Effect
<1> HIDE DEF k
<1>2. KeepsRow(k)
  <2>1. k.w \in SessionType /\ OnRow(k.scr) /\ k.seen \in SeenType /\ k.close \in BOOLEAN
    BY <1>1, Zenon
  <2>2. k.scr.ins = k.w.insertMode
    BY <1>1, Zenon
  <2> QED BY <1>1, <2>1, <2>2, Zenon DEF KeepsRow
<1> QED BY <1>2, Zenon DEF k

\* Nor does a command sent to a service change the row.
LEMMA Asking ==
    ASSUME NEW v, NEW s, NEW o, NEW A, KeepsRow(Effect(v, s, o))
    PROVE  KeepsRow([Effect(v, s, o) EXCEPT !.ask = A])
<1> DEFINE eff == Effect(v, s, o)
           k == [eff EXCEPT !.ask = A]
<1>1. k.w = eff.w /\ k.scr = eff.scr /\ k.seen = eff.seen /\ k.close = eff.close
  BY DEF Effect
<1> HIDE DEF k, eff
<1>2. KeepsRow(eff)
  BY Zenon DEF eff
<1>3. KeepsRow(k)
  <2>1. k.w \in SessionType /\ OnRow(k.scr) /\ k.seen \in SeenType /\ k.close \in BOOLEAN
    BY <1>1, <1>2, Zenon DEF KeepsRow
  <2>2. k.scr.ins = k.w.insertMode
    BY <1>1, <1>2, Zenon DEF KeepsRow
  <2>3. k.seen.ok /\ ~k.w.closing /\ ~k.close => Shows(k.w, k.scr, k.seen)
    BY <1>1, <1>2, Zenon DEF KeepsRow
  <2> QED BY <2>1, <2>2, <2>3, Zenon DEF KeepsRow
<1> QED BY <1>3, Zenon DEF k, eff

\* ^C closes the session.
LEMMA ControlCKeeps ==
    ASSUME NEW w, Row(w)
    PROVE  KeepsRow(ControlC(w))
<1>1. w \in SessionType /\ OnRow(scr) /\ seen \in SeenType /\ scr.ins = w.insertMode
  BY RowParts, Zenon
<1> QED BY <1>1, Closed, Zenon DEF ControlC, Nothing

-----------------------------------------------------------------------------
(* Negotiation, ENTER, and every key.                                      *)

\* Where an item of the negotiation starts.
Places == Nat \ {0}

\* The next item after LM_SLC starts somewhere: its recursive function has a value.
LEMMA SlcType ==
    ASSUME NEW c \in Seq(STRING), NEW i \in Places
    PROVE  Slc(c, i) \in Places
<1> DEFINE n == Len(c)
           Ends(k) == k < Len(c) /\ c[k] = "IAC" /\ c[k + 1] = "SE"
           After(k, p) == IF p # k \/ Ends(k) THEN p ELSE k + (IF c[k] = "SLC_EC" THEN 3 ELSE 1)
           step == [k \in 1 .. n |-> [p \in Places |-> After(k, p)]]
<1>1. n \in Nat
  OBVIOUS
<1>2. ASSUME NEW k \in 1 .. n, NEW p \in Places PROVE After(k, p) \in Places
  <2>1. k + 3 \in Places /\ k + 1 \in Places
    BY <1>1 DEF Places
  <2> QED BY <2>1, Zenon
<1> HIDE DEF After
<1>3. step \in [1 .. n -> [Places -> Places]]
  BY <1>2, Zenon
<1>4. PICK g \in [0 .. n -> Places] : Steps(g, n, i, step)
  <2> HIDE DEF n, step
  <2> QED BY <1>1, <1>3, RecursionExists, Zenon
<1>5. g = [k \in 0 .. n |-> IF k = 0 THEN i ELSE After(k, g[k - 1])]
  <2>1. ASSUME NEW k \in 0 .. n, k # 0 PROVE k \in 1 .. n /\ k - 1 \in 0 .. n
    BY <1>1, <2>1
  <2>2. ASSUME NEW k \in 0 .. n, k # 0 PROVE step[k][g[k - 1]] = After(k, g[k - 1])
    <3>1. k \in 1 .. n /\ g[k - 1] \in Places
      BY <2>1, <2>2, Zenon
    <3> QED BY <3>1, Zenon
  <2>3. [k \in 0 .. n |-> IF k = 0 THEN i ELSE step[k][g[k - 1]]]
          = [k \in 0 .. n |-> IF k = 0 THEN i ELSE After(k, g[k - 1])]
    <3> HIDE DEF step, n
    <3> QED BY <2>2, Zenon
  <2> QED BY <1>4, <2>3, Zenon DEF Steps
<1> DEFINE h == CHOOSE f : f = [k \in 0 .. n |-> IF k = 0 THEN i ELSE After(k, f[k - 1])]
<1>6. h = [k \in 0 .. n |-> IF k = 0 THEN i ELSE After(k, h[k - 1])]
  BY <1>5, Zenon
<1> HIDE DEF h
<1>7. h[n] \in Places
  <2>1. \A k \in 0 .. n : h[k] = IF k = 0 THEN i ELSE After(k, h[k - 1])
    BY <1>6, Zenon
  <2> DEFINE S == {k \in 0 .. n : h[k] \in Places}
  <2>2. 0 \in S
    <3>1. 0 \in 0 .. n BY <1>1
    <3> QED BY <2>1, <3>1, Zenon
  <2>3. ASSUME NEW k \in 0 .. n - 1, k \in S PROVE k + 1 \in S
    <3>1. k + 1 \in 1 .. n /\ k + 1 \in 0 .. n /\ (k + 1) - 1 = k /\ k + 1 # 0
      BY <1>1, <2>3
    <3>2. h[k + 1] = After(k + 1, h[k])
      BY <2>1, <3>1, Zenon
    <3> QED BY <1>2, <2>3, <3>1, <3>2, Zenon
  <2>4. 0 .. n \subseteq S
    <3> HIDE DEF S, n
    <3> QED BY <1>1, <2>2, <2>3, IntervalInduction, Zenon
  <2>5. n \in 0 .. n
    BY <1>1
  <2> QED BY <2>4, <2>5, Zenon
<1>8. Slc(c, i) = h[n] + 2
  BY Zenon DEF Slc, h, After
<1> QED
  <2> DEFINE r == h[n]
  <2> HIDE DEF r
  <2>1. r \in Places BY <1>7, Zenon DEF r
  <2>2. r + 2 \in Places BY <2>1 DEF Places
  <2> QED BY <1>8, <2>2, Zenon DEF r

\* The next item starts somewhere.
LEMMA NextItemType ==
    ASSUME NEW c \in Seq(STRING), NEW k \in 1 .. Len(c)
    PROVE  NextItem(c, k) \in Places
<1>1. /\ Len(c) \in Nat /\ k \in Places /\ k + 1 \in Places /\ k + 2 \in Places /\ k + 3 \in Places
      /\ (k + 2) + 1 \in Places /\ (k + 2) + 2 \in Places /\ (k + 2) + 5 \in Places
  BY DEF Places
<1>2. Slc(c, (k + 2) + 2) \in Places
  BY <1>1, SlcType, Zenon
<1>3. Subnegotiation(c, k + 2) \in Places
  <2> DEFINE m == k + 2
  <2> HIDE DEF m
  <2>1. m \in Places /\ m + 1 \in Places /\ m + 2 \in Places /\ m + 5 \in Places /\ Slc(c, m + 2) \in Places
    BY <1>1, <1>2, Zenon DEF m
  <2>2. Subnegotiation(c, m) \in Places
    BY <2>1, Zenon DEF Subnegotiation
  <2> QED BY <2>2, Zenon DEF m
<1> QED BY <1>1, <1>3, Zenon DEF NextItem

\* The same for all items of a read.
LEMMA ItemsType ==
    ASSUME NEW c \in Seq(STRING)
    PROVE  Items(c)[Len(c)] \in Places
<1> DEFINE n == Len(c)
           After(k, p) == IF p = k /\ c[k] = "IAC" THEN NextItem(c, k) ELSE p
           step == [k \in 1 .. n |-> [p \in Places |-> After(k, p)]]
           one == 1
<1>1. n \in Nat /\ one \in Places
  BY DEF Places
<1>2. ASSUME NEW k \in 1 .. n, NEW p \in Places PROVE After(k, p) \in Places
  BY NextItemType, Zenon
<1> HIDE DEF After
<1>3. step \in [1 .. n -> [Places -> Places]]
  BY <1>2, Zenon
<1>4. PICK g \in [0 .. n -> Places] : Steps(g, n, one, step)
  <2> HIDE DEF n, step, one
  <2> QED BY <1>1, <1>3, RecursionExists, Zenon
<1>5. g = [k \in 0 .. n |-> IF k = 0 THEN one ELSE After(k, g[k - 1])]
  <2>1. ASSUME NEW k \in 0 .. n, k # 0 PROVE k \in 1 .. n /\ k - 1 \in 0 .. n
    BY <1>1, <2>1
  <2>2. ASSUME NEW k \in 0 .. n, k # 0 PROVE step[k][g[k - 1]] = After(k, g[k - 1])
    <3>1. k \in 1 .. n /\ g[k - 1] \in Places
      BY <2>1, <2>2, Zenon
    <3> QED BY <3>1, Zenon
  <2>3. [k \in 0 .. n |-> IF k = 0 THEN one ELSE step[k][g[k - 1]]]
          = [k \in 0 .. n |-> IF k = 0 THEN one ELSE After(k, g[k - 1])]
    <3> HIDE DEF step, n, one
    <3> QED BY <2>2, Zenon
  <2> QED BY <1>4, <2>3, Zenon DEF Steps
<1> DEFINE h == CHOOSE f : f = [k \in 0 .. n |-> IF k = 0 THEN one ELSE After(k, f[k - 1])]
<1>6. h = [k \in 0 .. n |-> IF k = 0 THEN one ELSE After(k, h[k - 1])]
  BY <1>5, Zenon
<1> HIDE DEF h
<1>7. h[n] \in Places
  <2> HIDE DEF one
  <2>1. \A k \in 0 .. n : h[k] = IF k = 0 THEN one ELSE After(k, h[k - 1])
    BY <1>6, Zenon
  <2> DEFINE S == {k \in 0 .. n : h[k] \in Places}
  <2>2. 0 \in S
    <3>1. 0 \in 0 .. n BY <1>1
    <3> QED BY <1>1, <2>1, <3>1, Zenon
  <2>3. ASSUME NEW k \in 0 .. n - 1, k \in S PROVE k + 1 \in S
    <3>1. k + 1 \in 1 .. n /\ k + 1 \in 0 .. n /\ (k + 1) - 1 = k /\ k + 1 # 0
      BY <1>1, <2>3
    <3>2. h[k + 1] = After(k + 1, h[k])
      BY <2>1, <3>1, Zenon
    <3> QED BY <1>2, <2>3, <3>1, <3>2, Zenon
  <2>4. 0 .. n \subseteq S
    <3> HIDE DEF S, n
    <3> QED BY <1>1, <2>2, <2>3, IntervalInduction, Zenon
  <2>5. n \in 0 .. n
    BY <1>1
  <2> QED BY <2>4, <2>5, Zenon
<1>8. Items(c) = h
  BY Zenon DEF Items, h, After
<1> QED BY <1>7, <1>8, Zenon

\* What the negotiation leaves is a text, and the width a number.
LEMMA NegotiateType ==
    ASSUME NEW c \in Seq(STRING), NEW width \in Int
    PROVE  Negotiate(c, width).chars \in Seq(STRING) /\ Negotiate(c, width).width \in Int
<1> DEFINE m == Items(c)[Len(c)]
<1>1. m \in Places
  BY ItemsType, Zenon
<1> HIDE DEF m
<1>2. SubSeq(c, m, Len(c)) \in Seq(STRING)
  BY <1>1 DEF Places
<1>3. ASSUME NEW i PROVE ByteAt(c, i) \in Int
  <2>1. \A b \in DOMAIN Value : Value[b] = 80 \/ Value[b] = 0
    BY Zenon DEF Value
  <2>2. 80 \in Int /\ 0 \in Int
    OBVIOUS
  <2> QED BY <2>1, <2>2, Zenon DEF ByteAt
<1>4. Width(c, width) \in Int
  <2> DEFINE naws == {k \in 1..Len(c) - 2 : c[k] = "IAC" /\ c[k + 1] = "SB" /\ c[k + 2] = "NAWS"}
             sizes == {k \in naws : Items(c)[k - 1] = k}
             x == ByteAt(c, Max(sizes) + 3)
             y == ByteAt(c, Max(sizes) + 4)
  <2>1. x \in Int /\ y \in Int
    BY <1>3, Zenon
  <2> HIDE DEF x, y, sizes
  <2>2. 256 * x + y \in Int
    BY <2>1
  <2>3. Width(c, width) = IF sizes = {} THEN width ELSE 256 * x + y
    BY Zenon DEF Width, x, y, sizes
  <2> QED BY <2>2, <2>3, Zenon
<1> DEFINE a == SubSeq(c, m, Len(c))
           b == Width(c, width)
<1>5. Negotiate(c, width) = [chars |-> a, width |-> b]
  BY Zenon DEF Negotiate, m
<1> HIDE DEF a, b
<1>6. Negotiate(c, width).chars = a /\ Negotiate(c, width).width = b
  BY <1>5
<1> QED BY <1>2, <1>4, <1>6, Zenon DEF a, b

\* ENTER empties the line and shows a prompt, or none before the answer to a command.
LEMMA ProcessCommandKeeps ==
    ASSUME NEW w, Row(w), CommandsType
    PROVE  KeepsRow(processCommand(w))
<1> DEFINE cmd == w.line
           nil == <<>>
           w1 == [w EXCEPT !.line = <<>>, !.history = Append(@, cmd), !.pos = 0]
           word == FirstWord(cmd)
           At(dir) == Effect([w1 EXCEPT !.node = dir], Text(NewRow(scr), promptString(dir)),
                           [base |-> promptString(dir), ok |-> TRUE])
           m == Matching(w.node, cmd)
           o == [base |-> <<>>, ok |-> TRUE]
           A == {[path |-> path(w.node), cmd |-> cmd, dst |-> c.dst,
                               dir |-> w.node, re |-> c.cmd] : c \in m}
           Send == [Effect(w1, NewRow(scr), [base |-> <<>>, ok |-> TRUE]) EXCEPT !.ask = A]
<1>1. /\ w \in SessionType /\ OnRow(scr) /\ seen \in SeenType /\ scr.ins = w.insertMode
      /\ cmd \in Seq(STRING) /\ w.node \in Seq(STRING) /\ w.history \in Seq(Seq(STRING))
  BY RowParts, Zenon
<1>2. /\ w1 \in SessionType /\ w1.line = <<>> /\ w1.insertMode = w.insertMode /\ w1.closing = w.closing
      /\ w1.node = w.node
  <2> DEFINE h == Append(w.history, cmd)
             zero == 0
  <2>1. nil \in Seq(STRING) /\ zero \in Int
    OBVIOUS
  <2>2. h \in Seq(Seq(STRING))
    <3> HIDE DEF cmd
    <3> QED BY <1>1
  <2> HIDE DEF h, nil, zero
  <2>3. w1 = [w EXCEPT !.line = nil, !.history = h, !.pos = zero]
    BY Zenon DEF nil, h, zero
  <2> HIDE DEF w1
  <2>4. /\ w1 \in SessionType /\ w1.line = nil /\ w1.insertMode = w.insertMode /\ w1.closing = w.closing
        /\ w1.node = w.node
    BY <1>1, <2>1, <2>2, <2>3 DEF SessionType
  <2> QED BY <2>4, Zenon DEF nil
<1>3. OnRow(NewRow(scr)) /\ NewRow(scr).row = <<>> /\ NewRow(scr).col = 0 /\ NewRow(scr).ins = scr.ins
  <2>1. nil \in Seq(Cells)
    OBVIOUS
  <2> QED BY <1>1, <2>1, PromptAndLine, Zenon DEF NewRow
<1> HIDE DEF w1
<1>4. ASSUME NEW dir \in Seq(STRING) PROVE KeepsRow(At(dir))
  <2> DEFINE b == promptString(dir)
             v == [w1 EXCEPT !.node = dir]
             s == Text(NewRow(scr), b)
             q == [base |-> b, ok |-> TRUE]
  <2>1. b \in Seq(Cells)
    BY <1>4, PromptType, Zenon
  <2> HIDE DEF b
  <2>2. v \in SessionType /\ v.line = <<>> /\ v.insertMode = w.insertMode
    <3>1. v \in SessionType /\ v.line = w1.line /\ v.insertMode = w1.insertMode
      BY <1>2, <1>4 DEF SessionType
    <3> HIDE DEF v
    <3> QED BY <1>2, <3>1, Zenon
  <2>3. OnRow(s) /\ s.ins = scr.ins /\ s.row = b /\ s.col = Len(b)
    BY <1>1, <2>1, PromptAndLine, Zenon DEF NewRow
  <2>4. q \in SeenType /\ q.base = b
    BY <2>1 DEF SeenType
  <2> HIDE DEF v, s, q
  <2>5. Shows(v, s, q)
    BY <2>2, <2>3, <2>4, ShownEmpty, Zenon
  <2>6. KeepsRow(Effect(v, s, q))
    BY <1>1, <2>2, <2>3, <2>4, <2>5, EffectKeeps, Zenon
  <2> QED BY <2>6, Zenon DEF v, s, q, b
<1>5. KeepsRow(Send)
  <2>1. o \in SeenType /\ o.base = <<>> /\ Len(<<>>) = 0
    BY DEF SeenType
  <2> HIDE DEF o
  <2>2. Shows(w1, NewRow(scr), o)
    BY <1>2, <1>3, <2>1, ShownEmpty, Zenon
  <2>3. KeepsRow(Effect(w1, NewRow(scr), o))
    BY <1>1, <1>2, <1>3, <2>1, <2>2, EffectKeeps, Zenon
  <2> HIDE DEF A
  <2> QED BY <2>3, Asking, Zenon DEF o
<1>6. KeepsRow([Effect(w1, NewRow(scr), seen) EXCEPT !.close = TRUE])
  BY <1>1, <1>2, <1>3, Closed, Zenon
<1>7. KeepsRow(At(IF w.node = <<>> THEN <<>> ELSE SubSeq(w.node, 1, Len(w.node) - 1)))
  <2> DEFINE dir == IF w.node = <<>> THEN <<>> ELSE SubSeq(w.node, 1, Len(w.node) - 1)
  <2>1. dir \in Seq(STRING)
    <3>1. <<>> \in Seq(STRING)
      OBVIOUS
    <3>2. \A x \in Seq(STRING) : x # <<>> => SubSeq(x, 1, Len(x) - 1) \in Seq(STRING)
      OBVIOUS
    <3> QED BY <1>1, <3>1, <3>2, Zenon
  <2> HIDE DEF dir, At
  <2>2. KeepsRow(At(dir))
    BY <1>4, <2>1, Zenon
  <2> QED BY <2>2, Zenon DEF dir
<1>8. w.node \o word \in Sub(cmdEntries.dirs, w.node) => KeepsRow(At(w.node \o word))
  <2> DEFINE dir == w.node \o word
  <2> HIDE DEF dir, At
  <2>1. dir \in Sub(cmdEntries.dirs, w.node) => dir \in Seq(STRING)
    BY Zenon DEF Sub, CommandsType
  <2>2. dir \in Sub(cmdEntries.dirs, w.node) => KeepsRow(At(dir))
    BY <1>4, <2>1, Zenon
  <2> QED BY <2>2, Zenon DEF dir
<1>9. KeepsRow(At(w.node))
  <2> HIDE DEF At
  <2> QED BY <1>1, <1>4, Zenon
<1>10. processCommand(w) =
          IF word = <<"q">> THEN [Effect(w1, NewRow(scr), seen) EXCEPT !.close = TRUE]
          ELSE IF word = <<"h">> THEN At(w.node)
          ELSE IF word = <<"u">> THEN At(IF w.node = <<>> THEN <<>> ELSE SubSeq(w.node, 1, Len(w.node) - 1))
          ELSE IF word # <<"c">> /\ w.node \o word \in Sub(cmdEntries.dirs, w.node)
               THEN At(w.node \o word)
          ELSE IF m # {} THEN Send
          ELSE At(w.node)
  BY Zenon DEF processCommand, w1
<1> HIDE DEF At, Send, w1, m, word
<1> QED BY <1>5, <1>6, <1>7, <1>8, <1>9, <1>10, Zenon

\* Every key keeps the row.
LEMMA KeyKeeps ==
    ASSUME NEW w, Row(w), CommandsType, NEW out \in Seq(STRING)
    PROVE  KeepsRow(Key(w, out))
<1>1. /\ KeepsRow(Nothing(w)) /\ KeepsRow(Insert(w)) /\ KeepsRow(on_TKEY_BS(w)) /\ KeepsRow(Delete(w))
      /\ KeepsRow(Left(w)) /\ KeepsRow(Right(w)) /\ KeepsRow(Escape(w)) /\ KeepsRow(Tab(w))
      /\ KeepsRow(ControlC(w)) /\ KeepsRow(processCommand(w))
  BY NothingKeeps, InsertKeeps, BackspaceKeeps, DeleteKeeps, LeftKeeps, RightKeeps, EscapeKeeps,
     TabKeeps, ControlCKeeps, ProcessCommandKeeps, Zenon
<1>2. KeepsRow(History(w, -1)) /\ KeepsRow(History(w, 1))
  <2>1. -1 \in Int /\ 1 \in Int
    OBVIOUS
  <2> QED BY <2>1, HistoryKeeps, Zenon
<1>3. out # <<>> => KeepsRow(Character(w, out[1]))
  <2>1. out # <<>> => out[1] \in STRING
    OBVIOUS
  <2> QED BY <2>1, CharacterKeeps, Zenon
<1>4. CASE out \in {<<>>, <<"ESC", "O", "P">>, <<"ESC", "[", "2", "~">>, <<"BS">>, <<"ESC", "[", "3", "~">>,
                    <<"ESC", "[", "D">>, <<"ESC", "[", "C">>, <<"ESC", "[", "A">>, <<"ESC", "[", "B">>,
                    <<"ESC">>, <<"TAB">>}
  BY <1>1, <1>2, <1>4, Zenon DEF Key
<1>5. CASE out \notin {<<>>, <<"ESC", "O", "P">>, <<"ESC", "[", "2", "~">>, <<"BS">>, <<"ESC", "[", "3", "~">>,
                    <<"ESC", "[", "D">>, <<"ESC", "[", "C">>, <<"ESC", "[", "A">>, <<"ESC", "[", "B">>,
                    <<"ESC">>, <<"TAB">>}
  <2> DEFINE k == CASE out[1] = "^C" -> ControlC(w)
                    [] out[1] = "TAB" -> Nothing(w)
                    [] out[1] = "CR" -> processCommand(w)
                    [] OTHER -> Character(w, out[1])
  <2>1. KeepsRow(k)
    BY <1>1, <1>3, <1>5, Zenon
  <2>2. Key(w, out) = k
    BY <1>5, Zenon DEF Key
  <2> QED BY <2>1, <2>2, Zenon
<1> QED BY <1>4, <1>5, Zenon

-----------------------------------------------------------------------------
(* The steps of the service.                                               *)

\* The session is as it should be, and what it reads and completes from are texts.
SessionInv ==
    /\ W = {} \/ \E w : W = {w} /\ Row(w)
    /\ net \in Seq(STRING) /\ inBuffer \in Seq(STRING)
    /\ CommandsType

\* There is no session at first.
LEMMA SessionInit == TInit => SessionInv
<1>1. SUFFICES ASSUME TInit PROVE SessionInv
  OBVIOUS
<1>2. <<>> \in Seq(STRING)
  OBVIOUS
<1>3. CommandsType
  <2>1. cmdEntries.dirs = {<<>>} /\ cmdEntries.commands = {}
    BY <1>1 DEF TInit
  <2> QED BY <1>2, <2>1, Zenon DEF CommandsType
<1> QED BY <1>1, <1>2, <1>3, Zenon DEF TInit, SessionInv

\* A registration leaves the session alone.
LEMMA RegisterKeeps ==
    ASSUME SessionInv, on_RegisterCommand
    PROVE  SessionInv'
<1>1. PICK c \in Registrations :
        cmdEntries' = [dirs     |-> registerDirectory(cmdEntries.dirs, c.dir),
                       commands |-> addCommand(cmdEntries.commands, c)]
  BY Zenon DEF on_RegisterCommand
<1>2. UNCHANGED <<W, scr, seen, net, inBuffer>>
  BY DEF on_RegisterCommand
<1>3. /\ cmdEntries'.dirs = registerDirectory(cmdEntries.dirs, c.dir)
      /\ cmdEntries'.commands = addCommand(cmdEntries.commands, c)
  BY <1>1
<1>4. cmdEntries'.dirs \subseteq Seq(STRING)
  <2>1. c.dir \in Seq(STRING) /\ cmdEntries.dirs \subseteq Seq(STRING)
    BY CommandTexts, Zenon DEF SessionInv, CommandsType
  <2>2. \A dir \in Seq(STRING) : \A i \in 1 .. Len(dir) : SubSeq(dir, 1, i) \in Seq(STRING)
    OBVIOUS
  <2> QED BY <1>3, <2>1, <2>2, Zenon DEF registerDirectory
<1>5. cmdEntries'.commands \subseteq Registrations
  BY <1>3, Zenon DEF addCommand, SessionInv, CommandsType
<1>6. CommandsType'
  BY <1>4, <1>5, Zenon DEF CommandsType
<1>7. W' = {} \/ \E w : W' = {w} /\ Row(w)'
  BY <1>2 DEF SessionInv, Row
<1> QED BY <1>2, <1>6, <1>7 DEF SessionInv

\* A new session begins with an empty line behind its prompt.
LEMMA AcceptKeeps ==
    ASSUME SessionInv, on_Accepted
    PROVE  SessionInv'
<1> DEFINE b == promptString(<<>>)
           t == Text(Clear, b)
           o == [base |-> b, ok |-> TRUE]
<1>1. W' = {Session} /\ scr' = t /\ seen' = o /\ UNCHANGED <<cmdEntries, net, inBuffer>>
  BY DEF on_Accepted
<1>2. <<>> \in Seq(STRING) /\ <<>> \in Seq(Seq(STRING)) /\ <<>> \in Seq(Cells) /\ Len(<<>>) = 0
  OBVIOUS
<1>3. b \in Seq(Cells)
  BY <1>2, PromptType, Zenon
<1> HIDE DEF b
<1>4. OnRow(Clear) /\ Clear.ins /\ Clear.ins \in BOOLEAN /\ erase_line(Clear) = Clear
  <2>1. Clear \in ScreenType
    BY <1>2 DEF Clear, ScreenType
  <2>2. Clear.row = <<>> /\ Clear.col = 0 /\ Clear.ins /\ Clear.ins \in BOOLEAN
    BY DEF Clear
  <2>3. erase_line(Clear) = Clear
    BY <2>1, <2>2 DEF Clear, erase_line
  <2>4. 0 <= Len(<<>>)
    BY <1>2
  <2> QED BY <2>1, <2>2, <2>3, <2>4, Zenon DEF OnRow
<1>5. OnRow(t) /\ t.ins = Clear.ins /\ t.row = b /\ t.col = Len(b)
  <2> DEFINE er == Text(erase_line(Clear), b)
  <2>1. OnRow(er) /\ er.ins = Clear.ins /\ er.row = b /\ er.col = Len(b)
    BY <1>3, <1>4, PromptAndLine, Zenon
  <2>2. er = t
    BY <1>4, Zenon
  <2> HIDE DEF er, t
  <2> QED BY <2>1, <2>2, Zenon
<1>6. o \in SeenType /\ o.base = b
  BY <1>3 DEF SeenType
<1>7. Session \in SessionType /\ Session.line = <<>> /\ Session.insertMode /\ Session.insertMode \in BOOLEAN
  BY <1>2 DEF Session, SessionType
<1> HIDE DEF t, o
<1>8. Shows(Session, t, o)
  BY <1>5, <1>6, <1>7, ShownEmpty, Zenon
<1>9. t.ins = Session.insertMode
  BY <1>4, <1>5, <1>7
<1>10. PICK w : w = Session
  OBVIOUS
<1>11. Row(w)'
  BY <1>1, <1>5, <1>6, <1>7, <1>8, <1>9, <1>10, Zenon DEF Row
<1>12. CommandsType'
  BY <1>1, Zenon DEF SessionInv, CommandsType
<1> QED BY <1>1, <1>10, <1>11, <1>12, Zenon DEF SessionInv

\* The width has no part in it.
LEMMA WidthKeeps ==
    ASSUME NEW w, Row(w), NEW n \in Int
    PROVE  Row([w EXCEPT !.width = n])
<1> DEFINE v == [w EXCEPT !.width = n]
<1>1. w \in SessionType
  BY RowParts, Zenon
<1>2. v \in SessionType /\ v.line = w.line /\ v.curpos = w.curpos /\ v.insertMode = w.insertMode
      /\ v.closing = w.closing
  BY <1>1 DEF SessionType
<1> HIDE DEF v
<1>3. Row(v)
  <2>1. OnRow(scr) /\ seen \in SeenType /\ scr.ins = v.insertMode
    BY <1>2, Zenon DEF Row
  <2>2. seen.ok /\ ~v.closing => Shows(v, scr, seen)
    BY <1>2, Zenon DEF Row, Shows
  <2> QED BY <1>2, <2>1, <2>2, Zenon DEF Row
<1> QED BY <1>3, Zenon DEF v

\* Whatever was read, as one key, a part of one or several run together.
LEMMA ReadKeeps ==
    ASSUME SessionInv, on_StreamRead
    PROVE  SessionInv'
<1>1. net' = net /\ cmdEntries' = cmdEntries
  BY DEF on_StreamRead
<1>2. CommandsType' /\ net' \in Seq(STRING)
  BY <1>1, Zenon DEF SessionInv, CommandsType
<1>3. CASE W = {}
  <2>1. UNCHANGED <<W, inBuffer>>
    BY <1>3 DEF on_StreamRead
  <2> QED BY <1>2, <1>3, <2>1 DEF SessionInv
<1>4. CASE W # {}
  <2>1. PICK u : u = CHOOSE w \in W : TRUE
    OBVIOUS
  <2>2. u \in W /\ Row(u)
    BY <1>4, <2>1, Zenon DEF SessionInv
  <2> DEFINE n == Negotiate(inBuffer, u.width)
             w == [u EXCEPT !.width = n.width]
             k == Key(w, n.chars)
  <2>3. /\ inBuffer' = <<>>
        /\ \/ W' = {w} /\ UNCHANGED <<scr, seen>>
           \/ W' = {[k.w EXCEPT !.closing = @ \/ k.close]} /\ scr' = k.scr /\ seen' = k.seen
    BY <1>4, <2>1, Zenon DEF on_StreamRead
  <2>4. n.chars \in Seq(STRING) /\ n.width \in Int
    <3>1. u.width \in Int
      <4>1. u \in SessionType BY <2>2, RowParts, Zenon
      <4> QED BY <4>1 DEF SessionType
    <3>2. inBuffer \in Seq(STRING)
      BY Zenon DEF SessionInv
    <3> QED BY <3>1, <3>2, NegotiateType, Zenon
  <2> HIDE DEF n
  <2>5. Row(w)
    BY <2>2, <2>4, WidthKeeps, Zenon
  <2> HIDE DEF w
  <2>6. KeepsRow(k)
    BY <2>4, <2>5, KeyKeeps, Zenon DEF SessionInv
  <2> HIDE DEF k
  <2>7. <<>> \in Seq(STRING)
    OBVIOUS
  <2>8. CASE W' = {w} /\ UNCHANGED <<scr, seen>>
    <3>1. scr' = scr /\ seen' = seen
      BY <2>8
    <3>2. PICK x : x = w
      OBVIOUS
    <3>3. Row(x)'
      BY <2>5, <3>1, <3>2, Zenon DEF Row
    <3> QED BY <1>2, <2>3, <2>7, <2>8, <3>2, <3>3, Zenon DEF SessionInv
  <2>9. CASE W' = {[k.w EXCEPT !.closing = @ \/ k.close]} /\ scr' = k.scr /\ seen' = k.seen
    <3> DEFINE v == [k.w EXCEPT !.closing = @ \/ k.close]
    <3>1. k.w \in SessionType /\ k.close \in BOOLEAN
      BY <2>6, Zenon DEF KeepsRow
    <3>2. /\ v \in SessionType /\ v.line = k.w.line /\ v.curpos = k.w.curpos
          /\ v.insertMode = k.w.insertMode /\ (~v.closing => ~k.w.closing /\ ~k.close)
      BY <3>1 DEF SessionType
    <3>3. PICK x : x = v
      OBVIOUS
    <3> HIDE DEF v
    <3>4. /\ x \in SessionType /\ x.line = k.w.line /\ x.curpos = k.w.curpos
          /\ x.insertMode = k.w.insertMode /\ (~x.closing => ~k.w.closing /\ ~k.close)
      BY <3>2, <3>3, Zenon
    <3>5. OnRow(k.scr) /\ k.seen \in SeenType /\ k.scr.ins = x.insertMode
      BY <2>6, <3>4, Zenon DEF KeepsRow
    <3>6. k.seen.ok /\ ~x.closing => Shows(x, k.scr, k.seen)
      BY <2>6, <3>4, Zenon DEF KeepsRow, Shows
    <3>7. Row(x)'
      BY <2>9, <3>4, <3>5, <3>6, Zenon DEF Row
    <3>8. W' = {x}
      BY <2>9, <3>3, Zenon DEF v
    <3> QED BY <1>2, <2>3, <2>7, <3>7, <3>8, Zenon DEF SessionInv
  <2> QED BY <2>3, <2>8, <2>9, Zenon
<1> QED BY <1>3, <1>4, Zenon

\* An answer prompts on a new row: right for an empty line.
LEMMA ReplyKeeps ==
    ASSUME SessionInv, on_Reply
    PROVE  SessionInv'
<1>1. UNCHANGED <<W, net, inBuffer, cmdEntries>>
  BY DEF on_Reply
<1>2. CommandsType' /\ net' \in Seq(STRING) /\ inBuffer' \in Seq(STRING)
  BY <1>1, Zenon DEF SessionInv, CommandsType
<1>3. CASE W = {}
  BY <1>1, <1>2, <1>3 DEF SessionInv
<1>4. CASE W # {}
  <2>1. PICK w : W = {w} /\ Row(w)
    BY <1>4, Zenon DEF SessionInv
  <2>2. w = CHOOSE x \in W : TRUE
    BY <2>1, Zenon
  <2> DEFINE q == w.line = <<>>
             b == promptString(w.node)
             s == Text(NewRow(scr), b)
             o == [base |-> b, ok |-> q]
  <2>3. scr' = s /\ seen' = o
    BY <1>4, <2>2, Zenon DEF on_Reply
  <2>4. w \in SessionType /\ OnRow(scr) /\ scr.ins = w.insertMode /\ w.node \in Seq(STRING)
    BY <2>1, RowParts, Zenon
  <2>5. b \in Seq(Cells)
    BY <2>4, PromptType, Zenon
  <2> HIDE DEF b
  <2>6. OnRow(s) /\ s.ins = scr.ins /\ s.row = b /\ s.col = Len(b)
    BY <2>4, <2>5, PromptAndLine, Zenon DEF NewRow
  <2>7. o \in SeenType /\ o.base = b /\ (o.ok => w.line = <<>>)
    <3>1. q \in BOOLEAN
      BY Zenon
    <3> HIDE DEF q
    <3>2. o \in SeenType /\ o.base = b /\ o.ok = q
      BY <2>5, <3>1, SeenFields
    <3> HIDE DEF o
    <3> QED BY <3>2, Zenon DEF q
  <2> HIDE DEF s, o
  <2>8. o.ok => Shows(w, s, o)
    BY <2>4, <2>6, <2>7, ShownEmpty, Zenon
  <2>9. Row(w)'
    BY <2>3, <2>4, <2>6, <2>7, <2>8, Zenon DEF Row
  <2>10. W' = {w}
    BY <1>1, <2>1
  <2> QED BY <1>2, <2>9, <2>10, Zenon DEF SessionInv
<1> QED BY <1>3, <1>4, Zenon

\* Every step keeps the session and its row as they should be.
LEMMA SessionStep ==
    ASSUME SessionInv, [TNext]_tvars
    PROVE  SessionInv'
<1>1. CASE on_RegisterCommand BY <1>1, RegisterKeeps, Zenon
<1>2. CASE on_Accepted BY <1>2, AcceptKeeps, Zenon
<1>3. CASE on_StreamRead BY <1>3, ReadKeeps, Zenon
<1>4. CASE on_Reply BY <1>4, ReplyKeeps, Zenon
<1>5. CASE on_Disaccepted
  <2>1. W' = {} /\ net' = <<>> /\ inBuffer' = <<>> /\ cmdEntries' = cmdEntries
    BY <1>5 DEF on_Disaccepted
  <2>2. <<>> \in Seq(STRING)
    OBVIOUS
  <2> QED BY <2>1, <2>2, Zenon DEF SessionInv, CommandsType
<1>6. CASE Type
  <2>1. UNCHANGED <<W, scr, seen, cmdEntries>>
    BY <1>6 DEF Type
  <2>0. PICK k \in Keys : \E n \in 1 .. Len(k) :
               inBuffer' = inBuffer \o SubSeq(k, 1, n) /\ net' = Drop(k, n)
    BY <1>6, Zenon DEF Type
  <2>2. PICK n \in 1 .. Len(k) : inBuffer' = inBuffer \o SubSeq(k, 1, n) /\ net' = Drop(k, n)
    BY <2>0, Zenon
  <2>3. k \in Seq(STRING) /\ inBuffer \in Seq(STRING)
    BY KeyBytes, Zenon DEF SessionInv
  <2>4. SubSeq(k, 1, n) \in Seq(STRING) /\ Drop(k, n) \in Seq(STRING)
    BY <2>3 DEF Drop
  <2>5. \A x, y \in Seq(STRING) : x \o y \in Seq(STRING)
    OBVIOUS
  <2>6. inBuffer' \in Seq(STRING) /\ net' \in Seq(STRING)
    BY <2>2, <2>3, <2>4, <2>5, Zenon
  <2>7. CommandsType'
    BY <2>1 DEF SessionInv, CommandsType
  <2>8. W' = {} \/ \E w : W' = {w} /\ Row(w)'
    BY <2>1 DEF SessionInv, Row
  <2> QED BY <2>6, <2>7, <2>8, Zenon DEF SessionInv
<1>7. CASE Arrive
  <2>1. UNCHANGED <<W, scr, seen, cmdEntries>> /\ inBuffer' = inBuffer \o net /\ net' = <<>>
    BY <1>7 DEF Arrive
  <2>2. inBuffer \in Seq(STRING) /\ net \in Seq(STRING) /\ <<>> \in Seq(STRING)
    BY DEF SessionInv
  <2>3. \A x, y \in Seq(STRING) : x \o y \in Seq(STRING)
    OBVIOUS
  <2>4. inBuffer' \in Seq(STRING) /\ net' \in Seq(STRING)
    BY <2>1, <2>2, <2>3, Zenon
  <2>5. CommandsType'
    BY <2>1 DEF SessionInv, CommandsType
  <2>6. W' = {} \/ \E w : W' = {w} /\ Row(w)'
    BY <2>1 DEF SessionInv, Row
  <2> QED BY <2>4, <2>5, <2>6, Zenon DEF SessionInv
<1>8. CASE UNCHANGED tvars
  <2>1. UNCHANGED <<W, scr, seen, cmdEntries, net, inBuffer>>
    BY <1>8 DEF tvars
  <2>2. CommandsType'
    BY <2>1 DEF SessionInv, CommandsType
  <2>3. W' = {} \/ \E w : W' = {w} /\ Row(w)'
    BY <2>1 DEF SessionInv, Row
  <2>4. net' \in Seq(STRING) /\ inBuffer' \in Seq(STRING)
    BY <2>1 DEF SessionInv
  <2> QED BY <2>2, <2>3, <2>4, Zenon DEF SessionInv
<1> QED BY <1>1, <1>2, <1>3, <1>4, <1>5, <1>6, <1>7, <1>8, Zenon DEF TNext

\* For every set of keys and commands and any number of keys, cut or run together anywhere,
\* the row shows the line ENTER would execute, as long as none of the keys that leave it out
\* of step was typed since the row was last written.
THEOREM LineIsShown == TSpec => []ScreenShowsLine
<1>1. SessionInv => ScreenShowsLine
  BY Zenon DEF SessionInv, ScreenShowsLine, Row, Shows
<1> QED BY <1>1, SessionInit, SessionStep, PTL DEF TSpec

-----------------------------------------------------------------------------
(* Who answers.                                                            *)

\* An effect asks nothing of a service.
LEMMA EffectAsks == ASSUME NEW w, NEW s, NEW o PROVE Effect(w, s, o).ask = {}
BY DEF Effect

\* Only ENTER asks a service: one whose command is in the directory and matches the line.
LEMMA KeyAsks ==
    ASSUME NEW w, NEW out, NEW a \in Key(w, out).ask
    PROVE  \E c \in cmdEntries.commands :
               /\ c.dir = w.node /\ a.dir = w.node /\ a.re = c.cmd /\ a.dst = c.dst
               /\ a.cmd \in CommandList[c.cmd].lines
<1>1. /\ Nothing(w).ask = {} /\ Insert(w).ask = {} /\ on_TKEY_BS(w).ask = {} /\ Delete(w).ask = {}
      /\ Left(w).ask = {} /\ Right(w).ask = {} /\ Escape(w).ask = {}
  BY EffectAsks, Zenon DEF Nothing, Insert, on_TKEY_BS, Delete, Left, Right, Escape
<1>2. Tab(w).ask = {} /\ \A c : Character(w, c).ask = {}
  BY EffectAsks, Zenon DEF Tab, Character
<1>3. History(w, -1).ask = {} /\ History(w, 1).ask = {}
  BY <1>1, EffectAsks, Zenon DEF History
<1>4. ControlC(w).ask = {}
  BY DEF ControlC, Nothing, Effect
<1>5. a \in processCommand(w).ask
  BY <1>1, <1>2, <1>3, <1>4, Zenon DEF Key
<1> DEFINE cmd == w.line
           w1 == [w EXCEPT !.line = <<>>, !.history = Append(@, cmd), !.pos = 0]
           word == FirstWord(cmd)
           At(dir) == Effect([w1 EXCEPT !.node = dir], Text(NewRow(scr), promptString(dir)),
                           [base |-> promptString(dir), ok |-> TRUE])
           m == Matching(w.node, cmd)
           Ask(c) == [path |-> path(w.node), cmd |-> cmd, dst |-> c.dst, dir |-> w.node, re |-> c.cmd]
           A == {Ask(c) : c \in m}
           eff == Effect(w1, NewRow(scr), [base |-> <<>>, ok |-> TRUE])
           Send == [eff EXCEPT !.ask = A]
           Quit == [Effect(w1, NewRow(scr), seen) EXCEPT !.close = TRUE]
<1>6. \/ processCommand(w) = Quit \/ processCommand(w) = Send
      \/ \E dir : processCommand(w) = At(dir)
  BY Zenon DEF processCommand
<1>7. Quit.ask = {} /\ \A dir : At(dir).ask = {}
  <2>1. ASSUME NEW v, NEW s, NEW o PROVE [Effect(v, s, o) EXCEPT !.close = TRUE].ask = {}
    BY DEF Effect
  <2> QED BY <2>1, EffectAsks, Zenon
<1>8. Send.ask = A
  <2> DEFINE o == [base |-> <<>>, ok |-> TRUE]
             s == NewRow(scr)
  <2> HIDE DEF A, w1, o, s
  <2>1. [Effect(w1, s, o) EXCEPT !.ask = A].ask = A
    BY DEF Effect
  <2> QED BY <2>1, Zenon DEF o, s
<1> HIDE DEF At, Send, Quit, A, w1, eff
<1>9. a \in A
  BY <1>5, <1>6, <1>7, <1>8, Zenon
<1>10. PICK c \in m : a = Ask(c)
  BY <1>9, Zenon DEF A
<1>11. c \in cmdEntries.commands /\ c.dir = w.node /\ cmd \in CommandList[c.cmd].lines
  BY <1>10, Zenon DEF Matching, commands
<1>12. a.dir = w.node /\ a.re = c.cmd /\ a.dst = c.dst /\ a.cmd = cmd
  BY <1>10
<1> QED BY <1>11, <1>12, Zenon

\* The command that is registered under a text in a directory is the one registered last.
LatestInv ==
    \A c \in cmdEntries.commands :
        <<c.dir, c.cmd>> \in DOMAIN latest /\ latest[<<c.dir, c.cmd>>] = c.dst

\* No command is registered at first.
LEMMA LatestInit == TInit => LatestInv
<1>1. ASSUME TInit PROVE cmdEntries.commands = {}
  BY <1>1 DEF TInit
<1> QED BY <1>1, Zenon DEF LatestInv

\* addCommand puts a command in the place of the one registered before.
LEMMA LatestStep ==
    ASSUME LatestInv, [TNext]_tvars
    PROVE  LatestInv'
<1>1. CASE on_RegisterCommand
  <2>1. PICK c \in Registrations :
          /\ cmdEntries' = [dirs     |-> registerDirectory(cmdEntries.dirs, c.dir),
                            commands |-> addCommand(cmdEntries.commands, c)]
          /\ latest' = [k \in DOMAIN latest \cup {<<c.dir, c.cmd>>} |->
                           IF k = <<c.dir, c.cmd>> THEN c.dst ELSE latest[k]]
    BY <1>1, Zenon DEF on_RegisterCommand
  <2>2. cmdEntries'.commands = addCommand(cmdEntries.commands, c)
    BY <2>1
  <2>3. ASSUME NEW o \in cmdEntries'.commands
        PROVE  <<o.dir, o.cmd>> \in DOMAIN latest' /\ latest'[<<o.dir, o.cmd>>] = o.dst
    <3>1. CASE o = c
      BY <2>1, <3>1, Zenon
    <3>2. CASE o # c
      <4>1. o \in cmdEntries.commands /\ (o.dir # c.dir \/ o.cmd # c.cmd)
        BY <2>2, <3>2, Zenon DEF addCommand
      <4>2. <<o.dir, o.cmd>> # <<c.dir, c.cmd>>
        BY <4>1
      <4>3. <<o.dir, o.cmd>> \in DOMAIN latest /\ latest[<<o.dir, o.cmd>>] = o.dst
        BY <4>1, Zenon DEF LatestInv
      <4> QED BY <2>1, <4>2, <4>3, Zenon
    <3> QED BY <3>1, <3>2, Zenon
  <2> QED BY <2>3, Zenon DEF LatestInv
<1>2. CASE ~on_RegisterCommand
  <2>1. cmdEntries' = cmdEntries /\ latest' = latest
    BY <1>2 DEF TNext, tvars, on_Accepted, on_StreamRead, on_Reply, on_Disaccepted, Type, Arrive
  <2> QED BY <2>1, Zenon DEF LatestInv
<1> QED BY <1>1, <1>2, Zenon

\* For every set of registrations and keys, a command goes to the service that registered it
\* last in the session's directory, also when it did so after the session entered it.
THEOREM LastAnswers == TSpec => LastRegistrantAnswers
<1> DEFINE AsksLast == \A a \in asked' : /\ a.dst = latest[<<a.dir, a.re>>]
                                         /\ a.cmd \in CommandList[a.re].lines
<1>1. ASSUME LatestInv, TNext PROVE AsksLast
  <2>1. CASE asked' = {}
    BY <2>1, Zenon
  <2>2. CASE asked' # {}
    <3>1. on_StreamRead
      BY <1>1, <2>2 DEF TNext, on_RegisterCommand, on_Accepted, on_Reply, on_Disaccepted, Type, Arrive
    <3>2. PICK w, out : asked' = Key(w, out).ask
      <4> DEFINE x == CHOOSE x \in W : TRUE
                 n == Negotiate(inBuffer, x.width)
                 v == [x EXCEPT !.width = n.width]
      <4>1. asked' = Key(v, n.chars).ask
        BY <2>2, <3>1, ZenonT(60) DEF on_StreamRead
      <4> HIDE DEF v, n
      <4> QED BY <4>1, Zenon
    <3>3. ASSUME NEW a \in asked'
          PROVE  a.dst = latest[<<a.dir, a.re>>] /\ a.cmd \in CommandList[a.re].lines
      <4>1. PICK c \in cmdEntries.commands :
               /\ c.dir = w.node /\ a.dir = w.node /\ a.re = c.cmd /\ a.dst = c.dst
               /\ a.cmd \in CommandList[c.cmd].lines
        <5>1. a \in Key(w, out).ask
          BY <3>2, Zenon
        <5> QED BY <5>1, KeyAsks, ZenonT(60)
      <4>2. latest[<<c.dir, c.cmd>>] = c.dst
        BY <1>1, Zenon DEF LatestInv
      <4> QED BY <4>1, <4>2, Zenon
    <3> QED BY <3>3, Zenon
  <2> QED BY <2>1, <2>2, Zenon
<1> HIDE DEF AsksLast
<1>2. TSpec => [][AsksLast]_tvars
  BY <1>1, LatestInit, LatestStep, PTL DEF TSpec
<1> QED BY <1>2 DEF AsksLast, LastRegistrantAnswers
=============================================================================
