----------------------------- MODULE WireProofs ------------------------------
(***************************************************************************)
(* Proofs about what travels between processes: packed numbers, for every  *)
(* width of a digit and of a number, strings and addresses; the orders of  *)
(* the addresses and routes that are keys of the services' maps; and an    *)
(* Oscar connection, for all payloads and every way the stream is cut.     *)
(***************************************************************************)
EXTENDS Oscar, WireTypes, DataLemmas

(* The orders of addresses and routes.                                     *)

\* s comes before t by the first place where they differ, R being the order there.
Before(R, s, t) ==
    \E i \in DOMAIN s \cap DOMAIN t : <<s[i], t[i]>> \in R /\ \A j \in 1 .. i - 1 : s[j] = t[j]

\* R orders the elements of E.
Orders(R, E) ==
    /\ \A x \in E : <<x, x>> \notin R
    /\ \A x, y, z \in E : <<x, y>> \in R /\ <<y, z>> \in R => <<x, z>> \in R
    /\ \A x, y \in E : x = y \/ <<x, y>> \in R \/ <<y, x>> \in R

\* Neither has anything that the other has not, as far as both go.
Agree(s, t) == \A k \in DOMAIN s \cap DOMAIN t : s[k] = t[k]

\* Sequences that do not agree have a first place where they differ.
LEMMA FirstDifference ==
    ASSUME NEW E, NEW s \in Seq(E), NEW t \in Seq(E), ~Agree(s, t)
    PROVE  \E i \in DOMAIN s \cap DOMAIN t : s[i] # t[i] /\ \A j \in 1 .. i - 1 : s[j] = t[j]
<1> DEFINE D == {k \in Nat : k \in DOMAIN s \cap DOMAIN t /\ s[k] # t[k]}
<1>1. DOMAIN s = 1 .. Len(s) /\ DOMAIN t = 1 .. Len(t) /\ Len(s) \in Nat /\ Len(t) \in Nat
  OBVIOUS
<1>2. D # {} /\ D \subseteq Nat
  <2>1. PICK k \in DOMAIN s \cap DOMAIN t : s[k] # t[k]
    BY Zenon DEF Agree
  <2>2. k \in Nat
    BY <1>1
  <2> QED BY <2>1, <2>2, Zenon
<1> HIDE DEF D
<1>3. PICK i \in D : \A k \in D : i <= k
  BY <1>2, LeastElement, Zenon
<1>4. i \in Nat /\ i \in DOMAIN s \cap DOMAIN t /\ s[i] # t[i]
  BY <1>3, Zenon DEF D
<1>5. ASSUME NEW j \in 1 .. i - 1 PROVE s[j] = t[j]
  <2>1. j \in Nat /\ ~(i <= j) /\ j \in DOMAIN s \cap DOMAIN t
    BY <1>1, <1>4
  <2>2. j \notin D
    BY <1>3, <2>1, Zenon
  <2> QED BY <2>1, <2>2, Zenon DEF D
<1> QED BY <1>4, <1>5, Zenon

\* The order by the first difference is strict, and decides between any two
\* sequences that do not agree.
LEMMA BeforeOrders ==
    ASSUME NEW E, NEW R, Orders(R, E), NEW s \in Seq(E), NEW t \in Seq(E), NEW u \in Seq(E)
    PROVE  /\ Agree(s, t) => ~Before(R, s, t)
           /\ ~(Before(R, s, t) /\ Before(R, t, s))
           /\ Before(R, s, t) /\ Before(R, t, u) => Before(R, s, u)
           /\ Agree(s, t) \/ Before(R, s, t) \/ Before(R, t, s)
<1>1. ASSUME NEW a \in Seq(E) PROVE DOMAIN a = 1 .. Len(a) /\ Len(a) \in Nat /\ \A k \in DOMAIN a : a[k] \in E
  OBVIOUS
<1>2. ASSUME Agree(s, t), Before(R, s, t) PROVE FALSE
  <2>1. PICK i \in DOMAIN s \cap DOMAIN t : <<s[i], t[i]>> \in R
    BY <1>2, Zenon DEF Before
  <2>2. s[i] = t[i] /\ s[i] \in E
    BY <1>1, <1>2, <2>1, Zenon DEF Agree
  <2> QED BY <2>1, <2>2, Zenon DEF Orders
<1>3. ASSUME Before(R, s, t), Before(R, t, s) PROVE FALSE
  <2>1. PICK i \in DOMAIN s \cap DOMAIN t : <<s[i], t[i]>> \in R /\ \A j \in 1 .. i - 1 : s[j] = t[j]
    BY <1>3, Zenon DEF Before
  <2>2. PICK k \in DOMAIN t \cap DOMAIN s : <<t[k], s[k]>> \in R /\ \A j \in 1 .. k - 1 : t[j] = s[j]
    BY <1>3, Zenon DEF Before
  <2>3. i \in Nat /\ k \in Nat /\ i >= 1 /\ k >= 1
    BY <1>1
  <2>4. i = k \/ i \in 1 .. k - 1 \/ k \in 1 .. i - 1
    BY <2>3
  <2>5. s[i] \in E /\ t[i] \in E /\ s[k] \in E /\ t[k] \in E
    BY <1>1, Zenon
  <2>6. i # k
    BY <2>1, <2>2, <2>5, Zenon DEF Orders
  <2>7. i \notin 1 .. k - 1
    <3>1. i \in 1 .. k - 1 => <<s[i], s[i]>> \in R
      BY <2>1, <2>2, Zenon
    <3> QED BY <2>5, <3>1, Zenon DEF Orders
  <2>8. k \notin 1 .. i - 1
    <3>1. k \in 1 .. i - 1 => <<t[k], t[k]>> \in R
      BY <2>1, <2>2, Zenon
    <3> QED BY <2>5, <3>1, Zenon DEF Orders
  <2> QED BY <2>4, <2>6, <2>7, <2>8, Zenon
<1>4. ASSUME Before(R, s, t), Before(R, t, u) PROVE Before(R, s, u)
  <2>1. PICK i \in DOMAIN s \cap DOMAIN t : <<s[i], t[i]>> \in R /\ \A j \in 1 .. i - 1 : s[j] = t[j]
    BY <1>4, Zenon DEF Before
  <2>2. PICK k \in DOMAIN t \cap DOMAIN u : <<t[k], u[k]>> \in R /\ \A j \in 1 .. k - 1 : t[j] = u[j]
    BY <1>4, Zenon DEF Before
  <2>3. i \in Nat /\ k \in Nat /\ i >= 1 /\ k >= 1
    BY <1>1
  <2>4. s[i] \in E /\ t[i] \in E /\ t[k] \in E /\ u[k] \in E
    BY <1>1, Zenon
  <2>5. CASE i = k
    <3>1. <<s[i], u[i]>> \in R /\ i \in DOMAIN s \cap DOMAIN u
      BY <2>1, <2>2, <2>4, <2>5, Zenon DEF Orders
    <3>2. \A j \in 1 .. i - 1 : s[j] = u[j]
      BY <2>1, <2>2, <2>5, Zenon
    <3> QED BY <3>1, <3>2, Zenon DEF Before
  <2>6. CASE i < k
    <3>1. i \in 1 .. k - 1 /\ (\A j \in 1 .. i - 1 : j \in 1 .. k - 1) /\ i \in DOMAIN u
      BY <1>1, <2>3, <2>6
    <3>2. <<s[i], u[i]>> \in R /\ \A j \in 1 .. i - 1 : s[j] = u[j]
      BY <2>1, <2>2, <3>1, Zenon
    <3> QED BY <2>1, <3>1, <3>2, Zenon DEF Before
  <2>7. CASE k < i
    <3>1. k \in 1 .. i - 1 /\ (\A j \in 1 .. k - 1 : j \in 1 .. i - 1) /\ k \in DOMAIN s
      BY <1>1, <2>3, <2>7
    <3>2. <<s[k], u[k]>> \in R /\ \A j \in 1 .. k - 1 : s[j] = u[j]
      BY <2>1, <2>2, <3>1, Zenon
    <3> QED BY <2>2, <3>1, <3>2, Zenon DEF Before
  <2>8. i = k \/ i < k \/ k < i
    BY <2>3
  <2> QED BY <2>5, <2>6, <2>7, <2>8, Zenon
<1>5. ASSUME ~Agree(s, t) PROVE Before(R, s, t) \/ Before(R, t, s)
  <2>1. PICK i \in DOMAIN s \cap DOMAIN t : s[i] # t[i] /\ \A j \in 1 .. i - 1 : s[j] = t[j]
    BY <1>5, FirstDifference, Zenon
  <2>2. <<s[i], t[i]>> \in R \/ <<t[i], s[i]>> \in R
    BY <1>1, <2>1, Zenon DEF Orders
  <2>3. <<s[i], t[i]>> \in R => Before(R, s, t)
    BY <2>1, Zenon DEF Before
  <2>4. <<t[i], s[i]>> \in R => Before(R, t, s)
    BY <2>1, Zenon DEF Before
  <2> QED BY <2>2, <2>3, <2>4, Zenon
<1> QED BY <1>2, <1>3, <1>4, <1>5, Zenon

\* The order of numbers as a set of pairs.
NatLess == {p \in Nat \X Nat : p[1] < p[2]}

\* s is the start of t, and not all of it.
Shorter(s, t) == Len(s) < Len(t) /\ Agree(s, t)

\* Numbers are ordered by <.
LEMMA NatOrders == Orders(NatLess, Nat)
<1>1. ASSUME NEW x \in Nat, NEW y \in Nat PROVE (<<x, y>> \in NatLess) = (x < y)
  BY DEF NatLess
<1>2. \A x \in Nat : <<x, x>> \notin NatLess
  BY <1>1
<1>3. ASSUME NEW x \in Nat, NEW y \in Nat, NEW z \in Nat, <<x, y>> \in NatLess, <<y, z>> \in NatLess
      PROVE  <<x, z>> \in NatLess
  BY <1>1, <1>3
<1>4. ASSUME NEW x \in Nat, NEW y \in Nat
      PROVE  x = y \/ <<x, y>> \in NatLess \/ <<y, x>> \in NatLess
  BY <1>1
<1> QED BY <1>2, <1>3, <1>4, Zenon DEF Orders

\* LexLess() says that one sequence starts the other, or that it comes before it.
LEMMA LexLessIs ==
    ASSUME NEW s \in Seq(Nat), NEW t \in Seq(Nat)
    PROVE  LexLess(s, t) = (Shorter(s, t) \/ Before(NatLess, s, t))
<1>1. /\ DOMAIN s = 1 .. Len(s) /\ DOMAIN t = 1 .. Len(t) /\ Len(s) \in Nat /\ Len(t) \in Nat
      /\ (\A k \in DOMAIN s : s[k] \in Nat) /\ (\A k \in DOMAIN t : t[k] \in Nat)
  OBVIOUS
<1>2. ASSUME Len(s) < Len(t) PROVE DOMAIN s \cap DOMAIN t = DOMAIN s
  BY <1>1, <1>2
<1>3. (Len(s) < Len(t) /\ \A i \in DOMAIN s : s[i] = t[i]) = Shorter(s, t)
  BY <1>2, Zenon DEF Shorter, Agree
<1>4. ASSUME NEW i \in DOMAIN s \cap DOMAIN t PROVE (<<s[i], t[i]>> \in NatLess) = (s[i] < t[i])
  BY <1>1 DEF NatLess
<1>5. (\E i \in DOMAIN s \cap DOMAIN t : s[i] < t[i] /\ \A j \in 1 .. i - 1 : s[j] = t[j])
          = Before(NatLess, s, t)
  BY <1>4, Zenon DEF Before
<1> QED BY <1>3, <1>5, Zenon DEF LexLess

\* The order of texts and of addresses, as memcmp() and std::string compare them.
LEMMA LexOrders ==
    ASSUME NEW s \in Seq(Nat), NEW t \in Seq(Nat), NEW u \in Seq(Nat)
    PROVE  /\ ~LexLess(s, s) /\ ~(LexLess(s, t) /\ LexLess(t, s))
           /\ LexLess(s, t) /\ LexLess(t, u) => LexLess(s, u)
           /\ s = t \/ LexLess(s, t) \/ LexLess(t, s)
<1> DEFINE R == NatLess
           B(x, y) == Before(R, x, y)
<1>0. Orders(R, Nat)
  BY NatOrders
<1>1. ASSUME NEW a \in Seq(Nat) PROVE DOMAIN a = 1 .. Len(a) /\ Len(a) \in Nat
  OBVIOUS
<1>2. ASSUME NEW a \in Seq(Nat), NEW b \in Seq(Nat) PROVE LexLess(a, b) = (Shorter(a, b) \/ B(a, b))
  BY LexLessIs, Zenon
<1> HIDE DEF R
<1>3. ASSUME NEW a \in Seq(Nat), NEW b \in Seq(Nat), NEW c \in Seq(Nat)
      PROVE  /\ Agree(a, b) => ~B(a, b)
             /\ ~(B(a, b) /\ B(b, a))
             /\ B(a, b) /\ B(b, c) => B(a, c)
             /\ Agree(a, b) \/ B(a, b) \/ B(b, a)
  BY <1>0, BeforeOrders, Zenon
<1> HIDE DEF B
<1>4. Agree(t, s) = Agree(s, t) /\ Agree(s, s)
  BY Zenon DEF Agree
<1>5. ~LexLess(s, s)
  <2>1. ~(Len(s) < Len(s)) BY <1>1
  <2> QED BY <1>2, <1>3, <1>4, <2>1, Zenon DEF Shorter
<1>6. ~(LexLess(s, t) /\ LexLess(t, s))
  <2>1. ~(Len(s) < Len(t) /\ Len(t) < Len(s)) BY <1>1
  <2>2. ~(Shorter(s, t) /\ Shorter(t, s))
    BY <2>1, Zenon DEF Shorter
  <2>3. ~(Shorter(s, t) /\ B(t, s)) /\ ~(B(s, t) /\ Shorter(t, s))
    BY <1>3, <1>4, Zenon DEF Shorter
  <2>4. ~(B(s, t) /\ B(t, s))
    BY <1>3, Zenon
  <2> QED BY <1>2, <2>2, <2>3, <2>4, Zenon
<1>7. ASSUME Shorter(s, t), Shorter(t, u) PROVE Shorter(s, u)
  <2>1. Len(s) < Len(u) /\ \A k \in DOMAIN s : k \in DOMAIN t /\ k \in DOMAIN u
    BY <1>1, <1>7, SMTT(40) DEF Shorter
  <2>2. Agree(s, u)
    BY <1>7, <2>1, Zenon DEF Shorter, Agree
  <2> QED BY <2>1, <2>2, Zenon DEF Shorter
<1>8. ASSUME Shorter(s, t), B(t, u) PROVE Shorter(s, u) \/ B(s, u)
  <2>1. PICK i \in DOMAIN t \cap DOMAIN u : <<t[i], u[i]>> \in R /\ \A j \in 1 .. i - 1 : t[j] = u[j]
    BY <1>8, Zenon DEF B, Before
  <2>2. i \in Nat /\ i >= 1
    BY <1>1
  <2>3. CASE i <= Len(s)
    <3>1. i \in DOMAIN s /\ \A j \in 1 .. i - 1 : j \in DOMAIN s /\ j \in DOMAIN t
      BY <1>1, <2>2, <2>3
    <3>2. <<s[i], u[i]>> \in R /\ \A j \in 1 .. i - 1 : s[j] = u[j]
      BY <1>8, <2>1, <3>1, Zenon DEF Shorter, Agree
    <3> QED BY <2>1, <3>1, <3>2, Zenon DEF B, Before
  <2>4. CASE i > Len(s)
    <3>0. DOMAIN s = 1 .. Len(s) /\ DOMAIN t = 1 .. Len(t) /\ DOMAIN u = 1 .. Len(u)
      BY <1>1, Zenon
    <3>1. Len(s) < Len(u) /\ \A k \in DOMAIN s : k \in 1 .. i - 1 /\ k \in DOMAIN t
      <4>1. Len(s) \in Nat /\ Len(t) \in Nat /\ Len(u) \in Nat /\ i <= Len(t) /\ i <= Len(u)
        BY <1>1, <2>1
      <4>2. ASSUME NEW k \in 1 .. Len(s) PROVE k \in 1 .. i - 1 /\ k \in 1 .. Len(t)
        BY <2>2, <2>4, <4>1
      <4>3. Len(s) < Len(u)
        BY <2>2, <2>4, <4>1
      <4> QED BY <3>0, <4>2, <4>3, Zenon
    <3>2. Agree(s, u)
      BY <1>8, <2>1, <3>1, Zenon DEF Shorter, Agree
    <3> QED BY <3>1, <3>2, Zenon DEF Shorter
  <2>5. i <= Len(s) \/ i > Len(s)
    BY <1>1, <2>2
  <2> QED BY <2>3, <2>4, <2>5, Zenon
<1>9. ASSUME B(s, t), Shorter(t, u) PROVE B(s, u)
  <2>1. PICK i \in DOMAIN s \cap DOMAIN t : <<s[i], t[i]>> \in R /\ \A j \in 1 .. i - 1 : s[j] = t[j]
    BY <1>9, Zenon DEF B, Before
  <2>2. i \in Nat /\ i \in DOMAIN u /\ \A j \in 1 .. i - 1 : j \in DOMAIN t /\ j \in DOMAIN u
    <3>1. /\ DOMAIN s = 1 .. Len(s) /\ DOMAIN t = 1 .. Len(t) /\ DOMAIN u = 1 .. Len(u)
          /\ Len(t) \in Nat /\ Len(u) \in Nat /\ Len(t) < Len(u)
      BY <1>1, <1>9, Zenon DEF Shorter
    <3>2. i \in 1 .. Len(t)
      BY <2>1, <3>1, Zenon
    <3>3. Len(t) \in Nat /\ Len(u) \in Nat /\ Len(t) < Len(u)
      BY <3>1, Zenon
    <3>4. i \in Nat /\ i \in 1 .. Len(u)
      BY ONLY <3>2, <3>3
    <3>5. ASSUME NEW j \in 1 .. i - 1 PROVE j \in 1 .. Len(t) /\ j \in 1 .. Len(u)
      BY ONLY <3>2, <3>3, <3>4, j \in 1 .. i - 1
    <3> QED BY <3>1, <3>4, <3>5, Zenon
  <2>3. <<s[i], u[i]>> \in R /\ \A j \in 1 .. i - 1 : s[j] = u[j]
    BY <1>9, <2>1, <2>2, Zenon DEF Shorter, Agree
  <2> QED BY <2>1, <2>2, <2>3, Zenon DEF B, Before
<1>10. LexLess(s, t) /\ LexLess(t, u) => LexLess(s, u)
  BY <1>2, <1>3, <1>7, <1>8, <1>9, Zenon
<1>11. ASSUME Agree(s, t) PROVE s = t \/ Shorter(s, t) \/ Shorter(t, s)
  <2>1. Len(s) < Len(t) \/ Len(t) < Len(s) \/ Len(s) = Len(t)
    BY <1>1
  <2>2. ASSUME Len(s) = Len(t) PROVE s = t
    <3>1. \A k \in 1 .. Len(s) : s[k] = t[k]
      BY <1>1, <1>11, <2>2, Zenon DEF Agree
    <3> QED BY <2>2, <3>1, SameElements, Zenon
  <2> QED BY <1>4, <1>11, <2>1, <2>2, Zenon DEF Shorter
<1>12. s = t \/ LexLess(s, t) \/ LexLess(t, s)
  BY <1>2, <1>3, <1>11, Zenon
<1> QED BY <1>5, <1>6, <1>10, <1>12, Zenon

\* An address with a port, as the services keep them.
InetAddrs == [family : {AF_INET, AF_INET6}, port : Nat, addr : Seq(Nat)]

\* operator< of addresses orders those of AF_INET and AF_INET6, and agrees with ==.
THEOREM AddressOrder ==
    ASSUME NEW a \in InetAddrs, NEW b \in InetAddrs, NEW c \in InetAddrs
    PROVE  StrictOrder(AddrLess, AddrEqual, a, b, c)
<1>1. ASSUME NEW x \in InetAddrs
      PROVE  x.family \in Nat /\ x.family # AF_UNIX /\ x.port \in Nat /\ x.addr \in Seq(Nat)
  BY DEF InetAddrs, AF_INET, AF_INET6, AF_UNIX
<1>2. ASSUME NEW x \in InetAddrs, NEW y \in InetAddrs
      PROVE  /\ AddrLess(x, y) = \/ x.family < y.family
                                 \/ /\ x.family = y.family
                                    /\ LexLess(x.addr, y.addr) \/ (x.addr = y.addr /\ x.port < y.port)
             /\ AddrEqual(x, y) = (x.family = y.family /\ x.addr = y.addr /\ x.port = y.port)
  BY <1>1, Zenon DEF AddrLess, InetLess, AddrEqual
<1>3. ASSUME NEW x \in InetAddrs, NEW y \in InetAddrs, NEW z \in InetAddrs
      PROVE  /\ ~LexLess(x.addr, x.addr) /\ ~(LexLess(x.addr, y.addr) /\ LexLess(y.addr, x.addr))
             /\ LexLess(x.addr, y.addr) /\ LexLess(y.addr, z.addr) => LexLess(x.addr, z.addr)
             /\ x.addr = y.addr \/ LexLess(x.addr, y.addr) \/ LexLess(y.addr, x.addr)
  BY <1>1, LexOrders, Zenon
<1>4. ~AddrLess(a, a)
  <2>1. ~(a.family < a.family) /\ ~(a.port < a.port)
    BY <1>1
  <2> QED BY <1>2, <1>3, <2>1, Zenon
<1>5. ~(AddrLess(a, b) /\ AddrLess(b, a))
  <2>1. /\ ~(a.family < b.family /\ b.family < a.family) /\ ~(a.port < b.port /\ b.port < a.port)
        /\ a.family = b.family => ~(a.family < b.family) /\ ~(b.family < a.family)
    BY <1>1
  <2>2. a.addr = b.addr => ~LexLess(a.addr, b.addr) /\ ~LexLess(b.addr, a.addr)
    BY <1>3, Zenon
  <2> QED BY <1>2, <1>3, <2>1, <2>2, Zenon
<1>6. ASSUME AddrLess(a, b), AddrLess(b, c) PROVE AddrLess(a, c)
  <2>1. /\ a.family < b.family \/ a.family = b.family
        /\ b.family < c.family \/ b.family = c.family
    BY <1>2, <1>6, Zenon
  <2>2. CASE a.family < b.family \/ b.family < c.family
    <3>1. a.family < c.family
      BY <1>1, <2>1, <2>2
    <3> QED BY <1>2, <3>1, Zenon
  <2>3. CASE ~(a.family < b.family) /\ ~(b.family < c.family)
    <3>1. a.family = b.family /\ b.family = c.family
      BY <2>1, <2>3, Zenon
    <3>2. /\ LexLess(a.addr, b.addr) \/ (a.addr = b.addr /\ a.port < b.port)
          /\ LexLess(b.addr, c.addr) \/ (b.addr = c.addr /\ b.port < c.port)
      BY <1>2, <1>6, <2>3, Zenon
    <3>3. a.port < b.port /\ b.port < c.port => a.port < c.port
      BY <1>1
    <3>4. LexLess(a.addr, c.addr) \/ (a.addr = c.addr /\ a.port < c.port)
      BY <1>3, <3>2, <3>3, Zenon
    <3> QED BY <1>2, <3>1, <3>4, Zenon
  <2> QED BY <2>2, <2>3, Zenon
<1>7. AddrEqual(a, b) = (~AddrLess(a, b) /\ ~AddrLess(b, a))
  <2>1. /\ a.family < b.family \/ b.family < a.family \/ a.family = b.family
        /\ a.port < b.port \/ b.port < a.port \/ a.port = b.port
        /\ a.family = b.family => ~(a.family < b.family) /\ ~(b.family < a.family)
        /\ a.port = b.port => ~(a.port < b.port) /\ ~(b.port < a.port)
    BY <1>1
  <2>2. AddrEqual(a, b) => ~AddrLess(a, b) /\ ~AddrLess(b, a)
    BY <1>2, <1>3, <2>1, Zenon
  <2>3. ~AddrLess(a, b) /\ ~AddrLess(b, a) => AddrEqual(a, b)
    BY <1>2, <1>3, <2>1, Zenon
  <2>4. AddrEqual(a, b) \in BOOLEAN
    BY <1>2, Zenon
  <2> QED BY <2>2, <2>3, <2>4, Zenon
<1> QED BY <1>4, <1>5, <1>6, <1>7, Zenon DEF StrictOrder

\* A step of a route.
RouteSteps == [type : Int, id : Int]

\* operator< of routes orders them, and agrees with ==.
THEOREM RouteOrder ==
    ASSUME NEW a \in Seq(RouteSteps), NEW b \in Seq(RouteSteps), NEW c \in Seq(RouteSteps)
    PROVE  StrictOrder(RouteLess, RouteEqual, a, b, c)
<1> DEFINE R == {p \in RouteSteps \X RouteSteps : StepLess(p[2], p[1])}
           S == Seq(RouteSteps)
<1>1. ASSUME NEW x \in RouteSteps, NEW y \in RouteSteps PROVE <<x, y>> \in R <=> StepLess(y, x)
  OBVIOUS
<1>2. ASSUME NEW x \in RouteSteps
      PROVE  x.type \in Int /\ x.id \in Int
  BY DEF RouteSteps
<1>2a. ASSUME NEW x \in RouteSteps, NEW y \in RouteSteps, x.type = y.type, x.id = y.id
       PROVE  x = y
  BY <1>2a DEF RouteSteps
<1> HIDE DEF R
<1>3. Orders(R, RouteSteps)
  <2>1. ASSUME NEW x \in RouteSteps PROVE <<x, x>> \notin R
    <3>1. ~(x.type < x.type) /\ ~(x.id < x.id)
      BY <1>2
    <3> QED BY <1>1, <3>1, Zenon DEF StepLess
  <2>2. ASSUME NEW x \in RouteSteps, NEW y \in RouteSteps, NEW z \in RouteSteps,
               <<x, y>> \in R, <<y, z>> \in R
        PROVE  <<x, z>> \in R
    <3>1. StepLess(y, x) /\ StepLess(z, y)
      BY <1>1, <2>2, Zenon
    <3>2. StepLess(z, x)
      <4> DEFINE xt == x.type  yt == y.type  zt == z.type  xi == x.id  yi == y.id  zi == z.id
      <4>1. xt \in Int /\ yt \in Int /\ zt \in Int /\ xi \in Int /\ yi \in Int /\ zi \in Int
        BY <1>2, Zenon
      <4>2. (yt < xt \/ (yt = xt /\ yi < xi)) /\ (zt < yt \/ (zt = yt /\ zi < yi))
        BY <3>1, Zenon DEF StepLess
      <4> HIDE DEF xt, yt, zt, xi, yi, zi
      <4>3. zt < xt \/ (zt = xt /\ zi < xi)
        BY ONLY <4>1, <4>2
      <4> QED BY <4>3, Zenon DEF StepLess, xt, yt, zt, xi, yi, zi
    <3> QED BY <1>1, <3>2, Zenon
  <2>3. ASSUME NEW x \in RouteSteps, NEW y \in RouteSteps PROVE x = y \/ <<x, y>> \in R \/ <<y, x>> \in R
    <3>1. (x.type = y.type /\ x.id = y.id) \/ StepLess(y, x) \/ StepLess(x, y)
      BY <1>2 DEF StepLess
    <3> QED BY <1>1, <1>2a, <3>1, Zenon
  <2> QED BY <2>1, <2>2, <2>3, Zenon DEF Orders
<1>4. ASSUME NEW x \in S PROVE DOMAIN x = 1 .. Len(x) /\ Len(x) \in Nat /\ \A k \in DOMAIN x : x[k] \in RouteSteps
  OBVIOUS
<1>5. ASSUME NEW x \in S, NEW y \in S
      PROVE  RouteLess(x, y) = (Len(y) < Len(x) \/ (Len(x) = Len(y) /\ Before(R, x, y)))
  <2>1. ASSUME Len(x) = Len(y)
        PROVE  (\E i \in DOMAIN x : StepLess(y[i], x[i]) /\ \A j \in 1 .. i - 1 : x[j] = y[j]) = Before(R, x, y)
    <3>1. DOMAIN x \cap DOMAIN y = DOMAIN x
      BY <1>4, <2>1, Zenon
    <3>2. \A i \in DOMAIN x : <<x[i], y[i]>> \in R <=> StepLess(y[i], x[i])
      BY <1>1, <1>4, <3>1, Zenon
    <3> QED BY <3>1, <3>2, Zenon DEF Before
  <2> QED BY <2>1, Zenon DEF RouteLess
<1>6. ASSUME NEW x \in S, NEW y \in S, Len(x) = Len(y) PROVE Agree(x, y) = (x = y)
  <2>1. Agree(x, y) => x = y
    <3>1. Agree(x, y) => \A k \in 1 .. Len(x) : x[k] = y[k]
      BY <1>4, <1>6, Zenon DEF Agree
    <3> QED BY <1>6, <3>1, SameElements, Zenon
  <2> QED BY <2>1, Zenon DEF Agree
<1>7. ASSUME NEW x \in S, NEW y \in S, NEW z \in S
      PROVE  /\ Agree(x, y) => ~Before(R, x, y)
             /\ ~(Before(R, x, y) /\ Before(R, y, x))
             /\ Before(R, x, y) /\ Before(R, y, z) => Before(R, x, z)
             /\ Agree(x, y) \/ Before(R, x, y) \/ Before(R, y, x)
  BY <1>3, BeforeOrders, Zenon
<1>8. RouteEqual(a, b) = (a = b)
  <2>1. ASSUME RouteEqual(a, b) PROVE a = b
    <3>1. Len(a) = Len(b) /\ \A i \in DOMAIN a : a[i].type = b[i].type /\ a[i].id = b[i].id
      BY <2>1, Zenon DEF RouteEqual
    <3>2. ASSUME NEW i \in 1 .. Len(a) PROVE a[i] = b[i]
      <4>1. a[i] \in RouteSteps /\ b[i] \in RouteSteps
        BY <1>4, <3>1
      <4>2. a[i].type = b[i].type /\ a[i].id = b[i].id
        BY <1>4, <3>1, Zenon
      <4> QED BY <1>2a, <4>1, <4>2, Zenon
    <3> QED BY <3>1, <3>2, SameElements, Zenon
  <2>2. a = b => RouteEqual(a, b)
    BY Zenon DEF RouteEqual
  <2>3. RouteEqual(a, b) \in BOOLEAN
    BY Zenon DEF RouteEqual
  <2> QED BY <2>1, <2>2, <2>3, Zenon
<1>9. Len(a) \in Nat /\ Len(b) \in Nat /\ Len(c) \in Nat
  BY <1>4
<1>10. ~RouteLess(a, a)
  <2>1. ~(Len(a) < Len(a)) BY <1>9
  <2> QED BY <1>5, <1>7, <2>1, Zenon
<1>11. ~(RouteLess(a, b) /\ RouteLess(b, a))
  <2>1. /\ ~(Len(a) < Len(b) /\ Len(b) < Len(a))
        /\ Len(a) = Len(b) => ~(Len(a) < Len(b)) /\ ~(Len(b) < Len(a))
    BY <1>9
  <2> QED BY <1>5, <1>7, <2>1, Zenon
<1>12. RouteLess(a, b) /\ RouteLess(b, c) => RouteLess(a, c)
  <2>1. /\ Len(b) < Len(a) /\ Len(c) < Len(b) => Len(c) < Len(a)
        /\ Len(b) < Len(a) /\ Len(b) = Len(c) => Len(c) < Len(a)
        /\ Len(a) = Len(b) /\ Len(c) < Len(b) => Len(c) < Len(a)
    BY <1>9
  <2> QED BY <1>5, <1>7, <2>1, Zenon
<1>13. RouteEqual(a, b) = (~RouteLess(a, b) /\ ~RouteLess(b, a))
  <2>1. /\ Len(a) < Len(b) \/ Len(b) < Len(a) \/ Len(a) = Len(b)
    BY <1>9
  <2>2. a = b => ~RouteLess(a, b) /\ ~RouteLess(b, a)
    BY <1>10, Zenon
  <2>3. ~RouteLess(a, b) /\ ~RouteLess(b, a) => a = b
    BY <1>5, <1>6, <1>7, <2>1, Zenon
  <2> QED BY <1>8, <2>2, <2>3, Zenon
<1> QED BY <1>10, <1>11, <1>12, <1>13, Zenon DEF StrictOrder
-----------------------------------------------------------------------------
(* Packed numbers.                                                         *)

\* The weights of the digits obey their recursive definition.
LEMMA WeightEquation ==
    Weight = [i \in 0 .. Width |-> IF i = 0 THEN 1 ELSE Base * Weight[i - 1]]
<1> DEFINE T == Nat \ {0}
           step == [k \in 1 .. Width |-> [x \in T |-> Base * x]]
<1>1. Width \in Nat /\ 1 \in T /\ step \in [1 .. Width -> [T -> T]]
  BY WidthAssumption, BaseAssumption
<1>2. PICK g \in [0 .. Width -> T] : Steps(g, Width, 1, step)
  <2> HIDE DEF T, step
  <2> QED BY <1>1, RecursionExists, Zenon
<1>3. g = [i \in 0 .. Width |-> IF i = 0 THEN 1 ELSE Base * g[i - 1]]
  <2>1. ASSUME NEW i \in 0 .. Width PROVE g[i] = IF i = 0 THEN 1 ELSE Base * g[i - 1]
     <3>1. g[i] = IF i = 0 THEN 1 ELSE step[i][g[i-1]]
       <4> HIDE DEF step 
       <4> QED BY <1>2, Zenon DEF Steps
     <3> QED BY <3>1, WidthAssumption
  <2> QED BY <2>1, Zenon
<1>4. QED
  BY <1>3, Zenon DEF Weight

\* Every weight is a positive number, Base times the one before.
LEMMA WeightType ==
    /\ Weight \in [0 .. Width -> Nat \ {0}]
    /\ Weight[0] = 1
    /\ \A i \in 1 .. Width : Weight[i] = Weight[i - 1] * Base
<1> DEFINE T == Nat \ {0}
           step == [k \in 1 .. Width |-> [x \in T |-> Base * x]]
           S == {k \in 0 .. Width : Weight[k] \in T}
<1>1. \A i \in 0 .. Width : Weight[i] = IF i = 0 THEN 1 ELSE Base * Weight[i - 1]
  BY WeightEquation, Zenon
<1>2. 0 \in S
  BY <1>1, WidthAssumption
<1>3. ASSUME NEW k \in 0 .. Width - 1, k \in S PROVE k + 1 \in S
  BY <1>1, <1>3, WidthAssumption, BaseAssumption
<1>4. 0 .. Width \subseteq S
  <2> HIDE DEF S
  <2>1. Width \in Nat BY WidthAssumption
  <2> QED BY <1>2, <1>3, <2>1, IntervalInduction, Zenon
<1>5. Weight = [i \in 0 .. Width |-> Weight[i]]
  BY WeightEquation, Zenon
<1>6. Weight \in [0 .. Width -> T]
  BY <1>4, <1>5
<1>7. ASSUME NEW i \in 1 .. Width PROVE Weight[i] = Weight[i - 1] * Base
  BY <1>1, <1>6, WidthAssumption, BaseAssumption, SMTT(40)
<1> QED BY <1>1, <1>6, <1>7, WidthAssumption

\* The number of a number's values: the highest digit is not used up.
LEMMA ModulusType == Modulus \in Nat /\ Modulus <= Weight[Width] /\ Modulus > 0
<1>1. Width \in 1 .. Width /\ Width - 1 \in 0 .. Width
  BY WidthAssumption
<1>2. Weight[Width] = Weight[Width - 1] * Base /\ Weight[Width - 1] \in Nat \ {0}
  BY <1>1, WeightType
<1>3. PICK d \in Nat : Base = 2 + d
  <2>1. Base = 2 + (Base - 2) /\ Base - 2 \in Nat BY BaseAssumption
  <2> QED BY <2>1
<1>4. \A w \in Nat : w * (2 + d) = 2 * w + w * d /\ w * d \in Nat
  BY <1>3
<1> QED BY <1>2, <1>3, <1>4 DEF Modulus

\* What is left of N when its lowest i digits are shifted out.
Above(N, i) == N \div Weight[i]

\* Shifting out one digit more is dividing by Base once more.
LEMMA AboveSteps ==
    ASSUME NEW N \in Nat
    PROVE  /\ \A i \in 0 .. Width : Above(N, i) \in Nat /\ Above(N, i) <= N
           /\ Above(N, 0) = N
           /\ \A i \in 1 .. Width : Above(N, i) = Above(N, i - 1) \div Base
<1>1. ASSUME NEW i \in 0 .. Width PROVE Above(N, i) \in Nat /\ Above(N, i) <= N
  <2> DEFINE w == Weight[i]
             q == N \div w
  <2>1. w \in Nat \ {0} BY WeightType
  <2> HIDE DEF w
  <2>2. q \in Nat /\ N = w * q + (N % w) /\ N % w \in Nat BY <2>1
  <2>3. PICK d \in Nat : w = 1 + d
    <3>1. w = 1 + (w - 1) /\ w - 1 \in Nat BY <2>1
    <3> QED BY <3>1
  <2> HIDE DEF q
  <2>4. w * q = q + d * q /\ d * q \in Nat BY <2>2, <2>3
  <2>5. q <= N /\ q \in Nat BY <2>2, <2>4
  <2> QED BY <2>5 DEF q, w, Above
<1>2. Above(N, 0) = N
  BY WeightType DEF Above
<1>3. ASSUME NEW i \in 1 .. Width PROVE Above(N, i) = Above(N, i - 1) \div Base
  <2>1. i - 1 \in 0 .. Width BY WidthAssumption
  <2> DEFINE w == Weight[i - 1]
  <2>2. Weight[i] = w * Base /\ w \in Nat \ {0} BY WeightType, <2>1
  <2> HIDE DEF w
  <2>3. Base \in Nat \ {0} BY BaseAssumption
  <2>4. N \div (w * Base) = (N \div w) \div Base BY <2>2, <2>3, QuotientOfProduct
  <2> QED BY <2>2, <2>4 DEF Above, w
<1> QED BY <1>1, <1>2, <1>3

\* A digit is below Base, and shifting it in undoes shifting it out.
LEMMA DigitOfAbove ==
    ASSUME NEW N \in Nat
    PROVE  /\ \A i \in 0 .. Width : Digit(N, i) \in 0 .. Base - 1
           /\ \A i \in 1 .. Width : Above(N, i - 1) = Above(N, i) * Base + Digit(N, i - 1)
<1>1. ASSUME NEW i \in 0 .. Width PROVE Digit(N, i) \in 0 .. Base - 1
  BY AboveSteps, BaseAssumption DEF Digit, Above
<1>2. ASSUME NEW i \in 1 .. Width
      PROVE  Above(N, i - 1) = Above(N, i) * Base + Digit(N, i - 1)
  <2>1. i - 1 \in 0 .. Width BY WidthAssumption
  <2> DEFINE q == Above(N, i - 1)
  <2>2. q \in Nat BY <2>1, AboveSteps
  <2>3. Above(N, i) = q \div Base BY AboveSteps
  <2>4. Digit(N, i - 1) = q % Base BY DEF Digit, Above
  <2> HIDE DEF q
  <2>5. q = (q \div Base) * Base + (q % Base) BY <2>2, BaseAssumption
  <2> QED BY <2>3, <2>4, <2>5 DEF q
<1> QED BY <1>1, <1>2

\* Above the digit at which put_PN$() starts there is nothing left of the number.
LEMMA FirstDigitIs ==
    ASSUME NEW N \in Number
    PROVE  /\ FirstDigit(N) \in 0 .. Width - 1
           /\ Above(N, FirstDigit(N) + 1) = 0
<1> DEFINE D == {i \in 0 .. Width - 1 : Digit(N, i) # 0} \cup {0}
           f == FirstDigit(N)
<1>1. N \in Nat /\ N < Modulus /\ Width - 1 \in Nat
  BY ModulusType, WidthAssumption DEF Number
<1>2. D \in SUBSET (0 .. Width - 1) /\ D # {}
  BY <1>1
<1>3. f \in D /\ \A i \in D : f >= i
  <2>1. f = Max(D)
    BY Zenon DEF FirstDigit
  <2> HIDE DEF D, f
  <2>2. \E x \in D : \A y \in D : x >= y
    BY <1>1, <1>2, GreatestElement
  <2> QED BY <2>1, <2>2, Zenon DEF Max
<1>4. f \in 0 .. Width - 1
  BY <1>2, <1>3, Zenon
<1> HIDE DEF f
<1> DEFINE S == {k \in 0 .. Width - f - 1 : Above(N, Width - k) = 0}
<1>5. 0 \in S
  <2>1. Weight[Width] \in Nat /\ N < Weight[Width]
    BY <1>1, ModulusType, WeightType, WidthAssumption
  <2>2. N \div Weight[Width] = 0
    <3> DEFINE w == Weight[Width]
    <3>1. w \in Nat /\ N < w BY <2>1
    <3> HIDE DEF w
    <3>2. N \div w = 0 BY <1>1, <3>1, SmallRemainder
    <3> QED BY <3>2 DEF w
  <2> QED BY <2>2, <1>4, WidthAssumption DEF Above
<1>6. ASSUME NEW k \in 0 .. (Width - f - 1) - 1, k \in S PROVE k + 1 \in S
  <2> DEFINE j == Width - k
  <2>1. j \in 1 .. Width /\ j - 1 \in 0 .. Width - 1 /\ j - 1 > f
    BY <1>4, WidthAssumption
  <2>2. Digit(N, j - 1) = 0
    BY <1>3, <1>4, <2>1
  <2>3. Above(N, j - 1) = Above(N, j) * Base + Digit(N, j - 1)
    BY <1>1, <2>1, DigitOfAbove
  <2>4. Above(N, j) = 0
    BY <1>6
  <2>5. Above(N, j - 1) = 0
    BY <2>2, <2>3, <2>4, BaseAssumption
  <2>6. Width - (k + 1) = j - 1
    BY <1>4, WidthAssumption
  <2>7. k + 1 \in 0 .. Width - f - 1
    BY <1>4, WidthAssumption
  <2> QED BY <2>5, <2>6, <2>7
<1>7. 0 .. Width - f - 1 \subseteq S
  <2> HIDE DEF S
  <2>1. Width - f - 1 \in Nat BY <1>4, WidthAssumption
  <2> QED BY <1>5, <1>6, <2>1, IntervalInduction
<1>8. Above(N, f + 1) = 0
  <2>1. Width - f - 1 \in S BY <1>7, <1>4, WidthAssumption
  <2>2. Width - (Width - f - 1) = f + 1 BY <1>4, WidthAssumption
  <2> QED BY <2>1, <2>2
<1> QED BY <1>4, <1>8 DEF f

\* The loop of get_PN_nothrow() as the values N has after each byte.
LEMMA ShiftedIs ==
    ASSUME NEW digits \in Seq(Nat)
    PROVE  \E h \in [0 .. Len(digits) -> Nat] :
               /\ \A k \in 0 .. Len(digits) :
                     h[k] = IF k = 0 THEN 0 ELSE ((h[k - 1] * Base) + (digits[k] % Base)) % Modulus
               /\ Shifted(digits) = h[Len(digits)]
<1> DEFINE n == Len(digits)
           step == [k \in 1 .. n |-> [x \in Nat |-> ((x * Base) + (digits[k] % Base)) % Modulus]]
<1>1. n \in Nat /\ 0 \in Nat
  OBVIOUS
<1>2. /\ \A k \in 1 .. n, x \in Nat : ((x * Base) + (digits[k] % Base)) % Modulus \in Nat
      /\ step \in [1 .. n -> [Nat -> Nat]]
  <2>1. ASSUME NEW k \in 1 .. n, NEW x \in Nat
        PROVE  ((x * Base) + (digits[k] % Base)) % Modulus \in Nat
    <3> DEFINE y == (x * Base) + (digits[k] % Base)
    <3>1. digits[k] % Base \in Nat /\ x * Base \in Nat
      BY BaseAssumption
    <3>2. y \in Nat
      BY <3>1
    <3> HIDE DEF y
    <3>3. y % Modulus \in Nat
      BY <3>2, ModulusType
    <3> QED BY <3>3 DEF y
  <2> QED BY <2>1
<1>3. PICK g \in [0 .. n -> Nat] : Steps(g, n, 0, step)
  <2> HIDE DEF n, step
  <2> QED BY <1>1, <1>2, RecursionExists, Zenon
<1>4. ASSUME NEW h, h = [k \in 0 .. n |-> IF k = 0 THEN 0 ELSE ((h[k - 1] * Base) + (digits[k] % Base)) % Modulus]
      PROVE  h \in [0 .. n -> Nat]
  <2>1. \A k \in 0 .. n : h[k] = IF k = 0 THEN 0 ELSE ((h[k - 1] * Base) + (digits[k] % Base)) % Modulus
    BY <1>4, Zenon
  <2> DEFINE S == {k \in 0 .. n : h[k] \in Nat}
  <2>2. 0 \in S BY <2>1
  <2>3. ASSUME NEW k \in 0 .. n - 1, k \in S PROVE k + 1 \in S
    <3>1. k + 1 \in 1 .. n /\ k + 1 \in 0 .. n /\ (k + 1) - 1 = k /\ h[k] \in Nat
      BY <2>3
    <3>2. h[k + 1] = ((h[k] * Base) + (digits[k + 1] % Base)) % Modulus
      BY <2>1, <3>1
    <3> QED BY <1>2, <3>1, <3>2
  <2>4. 0 .. n \subseteq S
    <3> HIDE DEF S, n
    <3> QED BY <1>1, <2>2, <2>3, IntervalInduction, Zenon
  <2>5. h = [k \in 0 .. n |-> h[k]]
    BY <1>4, Zenon
  <2> QED BY <2>4, <2>5
<1>5. g = [k \in 0 .. n |-> IF k = 0 THEN 0 ELSE ((g[k - 1] * Base) + (digits[k] % Base)) % Modulus]
  <2>1. ASSUME NEW k \in 0 .. n
        PROVE  g[k] = IF k = 0 THEN 0 ELSE ((g[k - 1] * Base) + (digits[k] % Base)) % Modulus
    <3>1. g[k] = IF k = 0 THEN 0 ELSE step[k][g[k - 1]]
      <4> HIDE DEF step
      <4> QED BY <1>3, Zenon DEF Steps
    <3> QED BY <3>1
  <2> QED BY <2>1, Zenon DEF Steps
<1> DEFINE Good(h) == h = [k \in 0 .. n |-> IF k = 0 THEN 0 ELSE ((h[k - 1] * Base) + (digits[k] % Base)) % Modulus]
           NN == CHOOSE h : Good(h)
<1>6. Good(NN)
  BY <1>5, Zenon
<1>7. Shifted(digits) = NN[n]
  BY Zenon DEF Shifted
<1>8. NN \in [0 .. n -> Nat]
  <2> HIDE DEF NN
  <2> QED BY <1>4, <1>6
<1>9. \A k \in 0 .. n : NN[k] = IF k = 0 THEN 0 ELSE ((NN[k - 1] * Base) + (digits[k] % Base)) % Modulus
  <2> HIDE DEF NN
  <2> QED BY <1>6, Zenon
<1> HIDE DEF NN
<1> QED BY <1>7, <1>8, <1>9, Zenon

\* The bytes s are the digits of N, from the highest one on.
DigitsOf(s, N) == \A k \in 1 .. Len(s) : s[k] % Base = Digit(N, Len(s) - k)

\* Only the last of the bytes s lacks the continuation bit.
Marked(s)      == \A k \in 1 .. Len(s) : IF k = Len(s) THEN s[k] < Base ELSE s[k] >= Base

\* Digits shifted in one after the other give the number, and nothing overflows.
LEMMA ShiftedDigits ==
    ASSUME NEW N \in Number, NEW digits \in Seq(Nat), Len(digits) = FirstDigit(N) + 1,
           DigitsOf(digits, N)
    PROVE  Shifted(digits) = N
<1> DEFINE n == Len(digits)
<1>1. N \in Nat /\ N < Modulus /\ n \in 1 .. Width /\ Above(N, n) = 0
  BY ModulusType, FirstDigitIs, WidthAssumption DEF Number
<1>2. PICK h \in [0 .. n -> Nat] :
          /\ \A k \in 0 .. n :
                h[k] = IF k = 0 THEN 0 ELSE ((h[k - 1] * Base) + (digits[k] % Base)) % Modulus
          /\ Shifted(digits) = h[n]
  BY ShiftedIs
<1>3. \A k \in 1 .. n : digits[k] % Base = Digit(N, n - k)
  BY Zenon DEF DigitsOf
<1> HIDE DEF n
<1> DEFINE S == {k \in 0 .. n : h[k] = Above(N, n - k)}
<1>4. 0 \in S
  BY <1>1, <1>2
<1>5. ASSUME NEW k \in 0 .. n - 1, k \in S PROVE k + 1 \in S
  <2> DEFINE j == n - k
  <2>1. j \in 1 .. Width /\ n - (k + 1) = j - 1 /\ k + 1 \in 1 .. n /\ (k + 1) - 1 = k
    BY <1>1, WidthAssumption
  <2>2. h[k] = Above(N, j)
    BY <1>5
  <2>3. h[k + 1] = ((h[k] * Base) + (digits[k + 1] % Base)) % Modulus
    BY <1>1, <1>2, <2>1
  <2>4. digits[k + 1] % Base = Digit(N, j - 1)
    BY <1>3, <2>1
  <2> HIDE DEF j
  <2>5. Above(N, j - 1) = Above(N, j) * Base + Digit(N, j - 1)
    BY <1>1, <2>1, DigitOfAbove
  <2>6. Above(N, j - 1) \in Nat /\ Above(N, j - 1) <= N
    <3>1. j - 1 \in 0 .. Width BY <2>1, WidthAssumption
    <3> QED BY <1>1, <3>1, AboveSteps
  <2>7. Above(N, j - 1) % Modulus = Above(N, j - 1)
    <3> DEFINE x == Above(N, j - 1)
    <3> HIDE DEF x
    <3>1. x \in Nat /\ x < Modulus /\ Modulus \in Nat BY <1>1, <2>6, ModulusType DEF x
    <3>2. x % Modulus = x BY <3>1, SmallRemainder
    <3> QED BY <3>2 DEF x
  <2>8. h[k + 1] = Above(N, j - 1)
    BY <2>2, <2>3, <2>4, <2>5, <2>7
  <2> QED BY <2>1, <2>8, <1>1
<1>6. 0 .. n \subseteq S
  <2> HIDE DEF S
  <2>1. n \in Nat BY <1>1, WidthAssumption
  <2> QED BY <1>4, <1>5, <2>1, IntervalInduction, Zenon
<1>7. h[n] = Above(N, 0)
  <2>1. n \in S /\ n - n = 0 BY <1>1, <1>6, WidthAssumption
  <2> QED BY <2>1
<1> QED BY <1>1, <1>2, <1>7, AboveSteps DEF n

\* What put_PN$() writes: bytes, at most Width, the digits of the number, marked.
LEMMA PackedBytes ==
    ASSUME NEW N \in Number
    PROVE  /\ put_PN(N) \in Seq(Byte) /\ put_PN(N) \in Seq(Nat)
           /\ Len(put_PN(N)) = FirstDigit(N) + 1
           /\ Len(put_PN(N)) \in 1 .. Width
           /\ DigitsOf(put_PN(N), N)
           /\ Marked(put_PN(N))
<1> DEFINE f == FirstDigit(N)
           p == put_PN(N)
<1>1. N \in Nat /\ f \in 0 .. Width - 1 /\ Width \in Nat
  BY ModulusType, FirstDigitIs, WidthAssumption DEF Number
<1>2. p = [k \in 1 .. f + 1 |-> IF k = f + 1 THEN Digit(N, 0) ELSE Flag(Digit(N, f + 1 - k))]
  BY Zenon DEF put_PN
<1> HIDE DEF f, p
<1>3. \A i \in 0 .. Width : Digit(N, i) \in 0 .. Base - 1
  BY <1>1, DigitOfAbove
<1>4. ASSUME NEW k \in 1 .. f + 1
      PROVE  /\ p[k] \in Byte /\ p[k] \in Nat
             /\ p[k] % Base = Digit(N, f + 1 - k)
             /\ IF k = f + 1 THEN p[k] < Base ELSE p[k] >= Base
  <2>1. \A d \in 0 .. Base - 1 :
           /\ d % Base = d /\ (d + Base) % Base = d /\ d \in Nat /\ d + Base \in Nat
           /\ d \in Byte /\ d + Base \in Byte /\ d < Base /\ d + Base >= Base
    <3>1. ASSUME NEW d \in 0 .. Base - 1 PROVE (d + Base) % Base = d
      <4>1. d + Base = Base * 1 + d /\ d + Base \in Nat /\ Base \in Nat /\ d \in Nat /\ d < Base
        BY BaseAssumption
      <4> QED BY <4>1, QuotientIsUnique
    <3> QED BY <3>1, BaseAssumption DEF Byte
  <2>2. CASE k = f + 1
    BY <1>1, <1>2, <1>3, <2>1, <2>2
  <2>3. CASE k # f + 1
    <3>1. f + 1 - k \in 0 .. Width BY <1>1, <2>3
    <3>2. p[k] = Digit(N, f + 1 - k) + Base BY <1>2, <2>3 DEF Flag
    <3> QED BY <1>3, <2>1, <2>3, <3>1, <3>2
  <2> QED BY <2>2, <2>3
<1>5. p \in Seq(Byte) /\ Len(p) = f + 1
  BY <1>1, <1>2, <1>4
<1>6. p \in Seq(Nat)
  BY <1>1, <1>2, <1>4
<1>7. Len(p) \in 1 .. Width
  BY <1>1, <1>5
<1>8. DigitsOf(p, N)
  <2>1. SUFFICES ASSUME NEW k \in 1 .. Len(p) PROVE p[k] % Base = Digit(N, Len(p) - k)
    BY Zenon DEF DigitsOf
  <2>2. k \in 1 .. f + 1 BY <1>5
  <2>3. p[k] % Base = Digit(N, f + 1 - k) BY <1>4, <2>2
  <2>4. Len(p) - k = f + 1 - k BY <1>1, <1>5
  <2> QED BY <2>3, <2>4, Zenon
<1>9. Marked(p)
  <2>1. SUFFICES ASSUME NEW k \in 1 .. Len(p)
                 PROVE  IF k = Len(p) THEN p[k] < Base ELSE p[k] >= Base
    BY Zenon DEF Marked
  <2>2. k \in 1 .. f + 1 BY <1>5
  <2>3. IF k = f + 1 THEN p[k] < Base ELSE p[k] >= Base BY <1>4, <2>2
  <2> QED BY <1>5, <2>3
<1> QED BY <1>5, <1>6, <1>7, <1>8, <1>9 DEF f, p

\* get_PN_nothrow() at the front of bytes that start as a packed number does: it
\* finds the number as soon as all its bytes are there, and nothing before.
LEMMA NumberAtFront ==
    ASSUME NEW N \in Number, NEW buf \in Seq(Byte),
           \A k \in 1 .. Len(put_PN(N)) : k <= Len(buf) => buf[k] = put_PN(N)[k]
    PROVE  get_PN_nothrow(buf) =
             IF Len(buf) < Len(put_PN(N)) THEN Failure
             ELSE [success |-> TRUE, value |-> N,
                   rest |-> SubSeq(buf, Len(put_PN(N)) + 1, Len(buf))]
<1> DEFINE p == put_PN(N)
           n == Len(p)
           ends == {i \in 1 .. Len(buf) : buf[i] < Base}
<1>1. /\ p \in Seq(Nat) /\ n \in Nat \ {0} /\ n = FirstDigit(N) + 1
      /\ DigitsOf(p, N) /\ Marked(p)
  BY PackedBytes, WidthAssumption
<1>2. \A k \in 1 .. n : k <= Len(buf) => buf[k] = p[k]
  OBVIOUS
<1>3. get_PN_nothrow(buf) =
        IF ends = {} THEN Failure
        ELSE [success |-> TRUE, value |-> Shifted(SubSeq(buf, 1, Min(ends))),
              rest |-> SubSeq(buf, Min(ends) + 1, Len(buf))]
  BY Zenon DEF get_PN_nothrow
<1>4. Len(buf) \in Nat /\ Base \in Nat
  BY BaseAssumption
<1> HIDE DEF p, n
<1>5. \A k \in 1 .. n : p[k] \in Nat /\ IF k = n THEN p[k] < Base ELSE p[k] >= Base
  BY <1>1, <1>4 DEF Marked, n
<1>6. CASE Len(buf) < n
  <2>1. ends = {}
    <3>1. SUFFICES ASSUME NEW i \in 1 .. Len(buf), buf[i] < Base PROVE FALSE
      OBVIOUS
    <3>2. i \in 1 .. n /\ i # n /\ i <= Len(buf)
      BY <1>1, <1>4, <1>6
    <3>3. p[i] >= Base /\ p[i] \in Nat /\ buf[i] = p[i]
      BY <1>2, <1>5, <3>2
    <3> QED BY <1>4, <3>1, <3>3
  <2> QED BY <1>3, <1>6, <2>1 DEF p, n
<1>7. CASE ~(Len(buf) < n)
  <2>1. n \in ends
    <3>1. n \in 1 .. n /\ n \in 1 .. Len(buf) BY <1>1, <1>4, <1>7
    <3>2. p[n] < Base /\ buf[n] = p[n] BY <1>2, <1>5, <3>1
    <3> QED BY <3>1, <3>2
  <2>2. ASSUME NEW i \in ends PROVE n <= i
    <3>1. SUFFICES ASSUME i < n PROVE FALSE
      BY <1>1, <1>4
    <3>2. i \in 1 .. n /\ i # n /\ i <= Len(buf)
      BY <1>1, <1>4, <3>1
    <3>3. p[i] >= Base /\ p[i] \in Nat /\ buf[i] = p[i]
      BY <1>2, <1>5, <3>2
    <3> QED BY <1>4, <3>3
  <2>3. Min(ends) = n
    <3> HIDE DEF ends
    <3>1. ends \subseteq Nat BY DEF ends
    <3>2. ASSUME NEW m \in ends, \A i \in ends : m <= i PROVE m = n
      <4>1. m <= n /\ n <= m BY <2>1, <2>2, <3>2
      <4> QED BY <3>1, <4>1, <1>1
    <3>3. Min(ends) \in ends /\ \A i \in ends : Min(ends) <= i
      BY <2>1, <2>2, Zenon DEF Min
    <3> QED BY <3>2, <3>3, Zenon
  <2>4. SubSeq(buf, 1, n) = p
    <3>1. SubSeq(buf, 1, n) = [k \in 1 .. n |-> buf[k]]
      BY <1>1, <1>4, <1>7
    <3>2. p = [k \in 1 .. n |-> p[k]]
      BY <1>1 DEF n
    <3>3. \A k \in 1 .. n : buf[k] = p[k]
      BY <1>1, <1>2, <1>4, <1>7
    <3> QED BY <3>1, <3>2, <3>3
  <2>5. Shifted(p) = N
    BY <1>1, ShiftedDigits DEF n
  <2>6. ends # {}
    BY <2>1
  <2> QED BY <1>3, <1>7, <2>3, <2>4, <2>5, <2>6, Zenon DEF p, n
<1> QED BY <1>6, <1>7

\* What get_PN_nothrow() reads of what put_PN$() wrote is the number, and what
\* follows is left alone, for every width of a digit and of a number.
THEOREM NumbersComeBack ==
    ASSUME NEW N \in Number, NEW tail \in Seq(Byte)
    PROVE  RoundTrip(N, tail)
<1> DEFINE p == put_PN(N)
           buf == p \o tail
<1>1. p \in Seq(Byte) /\ Len(p) \in Nat
  BY PackedBytes
<1> HIDE DEF p
<1>2. buf \in Seq(Byte) /\ Len(buf) = Len(p) + Len(tail)
  BY <1>1
<1>3. \A k \in 1 .. Len(p) : buf[k] = p[k]
  BY <1>1
<1>4. SubSeq(buf, Len(p) + 1, Len(buf)) = tail
  BY <1>1, <1>2
<1>5. ~(Len(buf) < Len(p))
  BY <1>1, <1>2
<1> HIDE DEF buf
<1>6. get_PN_nothrow(buf) = [success |-> TRUE, value |-> N, rest |-> SubSeq(buf, Len(p) + 1, Len(buf))]
  BY <1>2, <1>3, <1>5, NumberAtFront DEF p
<1> QED BY <1>4, <1>6, Zenon DEF RoundTrip, p, buf

\* get_PN_nothrow() fails on every strict prefix of a packed number: a number that
\* has arrived in part is never mistaken for another one.
THEOREM CutNumbersRefused ==
    ASSUME NEW N \in Number
    PROVE  TruncationFails(N)
<1> DEFINE p == put_PN(N)
<1>1. p \in Seq(Byte) /\ Len(p) \in Nat
  BY PackedBytes
<1>2. ASSUME NEW k \in 0 .. Len(p) - 1
      PROVE  ~get_PN_nothrow(SubSeq(p, 1, k)).success
  <2> DEFINE buf == SubSeq(p, 1, k)
  <2> HIDE DEF p
  <2>1. buf \in Seq(Byte) /\ Len(buf) = k /\ k < Len(p) /\ \A i \in 1 .. k : buf[i] = p[i]
    BY <1>1
  <2> HIDE DEF buf
  <2>2. \A i \in 1 .. Len(p) : i <= Len(buf) => buf[i] = p[i]
    BY <1>1, <2>1
  <2>3. get_PN_nothrow(buf) = Failure
    BY <2>1, <2>2, NumberAtFront DEF p
  <2> QED BY <2>3 DEF Failure, buf
<1> QED BY <1>2, Zenon DEF TruncationFails
-----------------------------------------------------------------------------
(* Strings and addresses.                                                  *)

\* The bytes of a packed number, and behind them the rest.
NumberFirst(buf, N, rest) == buf = put_PN(N) \o rest

\* get_PN_nothrow() on a packed number and what follows it.
LEMMA NumberThen ==
    ASSUME NEW N \in Number, NEW rest \in Seq(Byte), NEW buf, NumberFirst(buf, N, rest)
    PROVE  /\ get_PN_nothrow(buf).success
           /\ get_PN_nothrow(buf).value = N /\ get_PN_nothrow(buf).rest = rest
<1>1. get_PN_nothrow(buf) = [success |-> TRUE, value |-> N, rest |-> rest]
  BY NumbersComeBack, Zenon DEF RoundTrip, NumberFirst
<1> DEFINE r == get_PN_nothrow(buf)
<1> HIDE DEF r
<1>2. r = [success |-> TRUE, value |-> N, rest |-> rest]
  BY <1>1, Zenon DEF r
<1>3. r.success /\ r.value = N /\ r.rest = rest
  BY ONLY <1>2
<1> QED BY <1>3, Zenon DEF r

\* A string comes back as it was packed, and what follows it is not touched:
\* get_PSTR() on what put_PSTR() wrote.
THEOREM StringsComeBack ==
    ASSUME NEW s \in Seq(Byte), Len(s) \in Number, NEW rest \in Seq(Byte)
    PROVE  get_PSTR(put_PSTR(s) \o rest) = Done(s, rest)
<1> DEFINE p == put_PN(Len(s))
           buf == put_PSTR(s) \o rest
           tail == s \o rest
           sz == get_PN_nothrow(buf)
<1>1. p \in Seq(Byte)
  BY PackedBytes
<1>2. tail \in Seq(Byte) /\ Len(tail) = Len(s) + Len(rest) /\ Len(s) \in Nat /\ Len(rest) \in Nat
  OBVIOUS
<1>3. buf = p \o tail
  <2>1. (p \o s) \o rest = p \o (s \o rest)
    <3> HIDE DEF p
    <3> QED BY ONLY <1>1, s \in Seq(Byte), rest \in Seq(Byte), Associative
  <2> QED BY <2>1, Zenon DEF put_PSTR
<1>4. SubSeq(tail, 1, Len(s)) = s /\ SubSeq(tail, Len(s) + 1, Len(tail)) = rest
  OBVIOUS
<1> HIDE DEF buf, tail
<1>5. sz.success /\ sz.value = Len(s) /\ sz.rest = tail
  <2>1. NumberFirst(buf, Len(s), tail)
    BY <1>3, Zenon DEF p, NumberFirst
  <2>2. tail \in Seq(Byte)
    BY <1>2, Zenon
  <2>3. /\ get_PN_nothrow(buf).success
        /\ get_PN_nothrow(buf).value = Len(s) /\ get_PN_nothrow(buf).rest = tail
    <3>1. \A N \in Number : \A u \in Seq(Byte) : \A b :
             NumberFirst(b, N, u) => /\ get_PN_nothrow(b).success
                                     /\ get_PN_nothrow(b).value = N
                                     /\ get_PN_nothrow(b).rest = u
      BY NumberThen, Zenon
    <3>2. Len(s) \in Number OBVIOUS
    <3> QED BY ONLY <2>1, <2>2, <3>1, <3>2
  <2> QED BY <2>3, Zenon
<1>6. ~(Len(s) > Len(tail))
  BY <1>2
<1>7. unpack(tail, Len(s)) = Done(s, rest)
  BY <1>4, <1>6, Zenon DEF unpack
<1>8. get_PSTR(buf) = unpack(sz.rest, sz.value)
  BY <1>5, Zenon DEF get_PSTR
<1> QED BY <1>5, <1>7, <1>8, Zenon DEF buf

\* A string of which only a part has arrived is refused, wherever it is cut: in
\* its length or in its bytes.
THEOREM CutStringsRefused ==
    ASSUME NEW s \in Seq(Byte), Len(s) \in Number, NEW k \in 0 .. Len(put_PSTR(s)) - 1
    PROVE  ~get_PSTR(SubSeq(put_PSTR(s), 1, k)).success
<1> DEFINE p == put_PN(Len(s))
           w == put_PSTR(s)
           buf == SubSeq(w, 1, k)
           sz == get_PN_nothrow(buf)
<1>1. p \in Seq(Byte) /\ Len(p) \in Nat /\ Len(s) \in Nat
  BY PackedBytes
<1>2. w = p \o s
  BY Zenon DEF put_PSTR
<1> HIDE DEF p
<1>3. w \in Seq(Byte) /\ Len(w) = Len(p) + Len(s) /\ \A i \in 1 .. Len(p) : w[i] = p[i]
  <2>1. /\ p \o s \in Seq(Byte) /\ Len(p \o s) = Len(p) + Len(s)
        /\ \A i \in 1 .. Len(p) : (p \o s)[i] = p[i]
    BY <1>1, ConcatenationAt, Zenon
  <2> QED BY <1>2, <2>1, Zenon
<1>4. k \in Nat /\ k <= Len(w) /\ k < Len(p) + Len(s)
  BY <1>1, <1>3
<1> HIDE DEF w
<1>5. buf \in Seq(Byte) /\ Len(buf) = k /\ \A i \in 1 .. k : buf[i] = w[i]
  BY <1>3, <1>4, FrontOf
<1> HIDE DEF buf
<1>6. \A i \in 1 .. Len(p) : i <= Len(buf) => buf[i] = p[i]
  <2>1. SUFFICES ASSUME NEW i \in 1 .. Len(p), i <= Len(buf) PROVE buf[i] = p[i]
    OBVIOUS
  <2>2. i \in 1 .. k
    BY <1>4, <1>5, <2>1
  <2> QED BY <1>3, <1>5, <2>2, Zenon
<1>7. sz = IF Len(buf) < Len(p) THEN Failure
           ELSE [success |-> TRUE, value |-> Len(s), rest |-> SubSeq(buf, Len(p) + 1, Len(buf))]
  BY <1>5, <1>6, NumberAtFront DEF p
<1> HIDE DEF sz
<1>8. ~Failure.success
  BY DEF Failure
<1>9. CASE Len(buf) < Len(p)
  <2>1. ~sz.success
    BY <1>7, <1>8, <1>9, Zenon
  <2>2. get_PSTR(buf) = Failure
    BY <2>1, Zenon DEF get_PSTR, sz
  <2> QED BY <1>8, <2>2, Zenon DEF buf, w
<1>10. CASE ~(Len(buf) < Len(p))
  <2> DEFINE tail == SubSeq(buf, Len(p) + 1, Len(buf))
  <2>1. Len(p) <= Len(buf)
    BY <1>1, <1>4, <1>5, <1>10
  <2>2. Len(tail) = k - Len(p)
    BY <1>1, <1>5, <2>1, BackOf, Zenon
  <2>3. Len(s) > Len(tail)
    <3>1. Len(s) > k - Len(p)
      BY <1>1, <1>4
    <3> QED BY <2>2, <3>1, Zenon
  <2> HIDE DEF tail
  <2>4. sz = [success |-> TRUE, value |-> Len(s), rest |-> tail]
    BY <1>7, <1>10, Zenon DEF tail
  <2>5. sz.success /\ sz.value = Len(s) /\ sz.rest = tail
    BY <2>4, Zenon
  <2>6. get_PSTR(buf) = unpack(tail, Len(s))
    BY <2>5, Zenon DEF get_PSTR, sz
  <2>7. unpack(tail, Len(s)) = Failure
    BY <2>3, Zenon DEF unpack
  <2> QED BY <1>8, <2>6, <2>7, Zenon DEF buf, w
<1> QED BY <1>9, <1>10, Zenon

\* The two halves of a number change places, twice.
LEMMA SwapTwice ==
    ASSUME NEW n \in 0 .. ShortModulus - 1
    PROVE  Swap(n) \in 0 .. ShortModulus - 1 /\ Swap(Swap(n)) = n
<1> DEFINE h == n \div Half
           l == n % Half
<1>1. /\ Half \in Nat /\ Half > 0 /\ n \in Nat /\ n < Half * Half /\ h \in Nat /\ l \in Nat
      /\ l < Half /\ n = Half * h + l
  BY HalfAssumption DEF ShortModulus
<1>2. Swap(n) = l * Half + h
  BY DEF Swap
<1> HIDE DEF h, l
<1>3. h < Half
  <2>1. SUFFICES ASSUME h >= Half PROVE FALSE
    BY <1>1
  <2>2. Half * h >= Half * Half
    BY <1>1, <2>1
  <2> QED BY <1>1, <2>2
<1>4. l * Half <= (Half - 1) * Half
  BY <1>1
<1>5. l * Half + h \in Nat /\ l * Half + h < Half * Half
  BY <1>1, <1>3, <1>4
<1>6. (l * Half + h) \div Half = l /\ (l * Half + h) % Half = h
  <2>1. l * Half + h = Half * l + h
    BY <1>1
  <2> QED BY <1>1, <1>3, <1>5, <2>1, QuotientIsUnique
<1>7. Swap(Swap(n)) = h * Half + l
  BY <1>2, <1>6 DEF Swap
<1> QED BY <1>1, <1>2, <1>5, <1>7 DEF ShortModulus

\* Bytes and what follows them.
Then(a, b) == a \o b

\* Bytes after bytes are bytes, however they are grouped.
LEMMA ThenAssociates ==
    ASSUME NEW a \in Seq(Byte), NEW b \in Seq(Byte), NEW c \in Seq(Byte)
    PROVE  Then(a, b) \in Seq(Byte) /\ Then(Then(a, b), c) = Then(a, Then(b, c))
<1>1. (a \o b) \o c = a \o (b \o c)
  OBVIOUS
<1>2. a \o b \in Seq(Byte)
  OBVIOUS
<1> QED BY <1>1, <1>2, Zenon DEF Then

\* Three parts and what follows them, one after the other.
LEMMA PartsInOrder ==
    ASSUME NEW a \in Seq(Byte), NEW b \in Seq(Byte), NEW c \in Seq(Byte), NEW rest \in Seq(Byte)
    PROVE  /\ Then(Then(Then(a, b), c), rest) = Then(a, Then(b, Then(c, rest)))
           /\ Then(c, rest) \in Seq(Byte) /\ Then(b, Then(c, rest)) \in Seq(Byte)
<1>1. Then(a, b) \in Seq(Byte) /\ Then(c, rest) \in Seq(Byte)
  BY ThenAssociates, Zenon
<1>2. Then(Then(Then(a, b), c), rest) = Then(Then(a, b), Then(c, rest))
  BY <1>1, ThenAssociates
<1>3. Then(Then(a, b), Then(c, rest)) = Then(a, Then(b, Then(c, rest)))
  BY <1>1, ThenAssociates
<1>4. Then(b, Then(c, rest)) \in Seq(Byte)
  BY <1>1, ThenAssociates
<1> QED BY <1>1, <1>2, <1>3, <1>4, Zenon

\* What AddrUnpack() reads first: the family, and the port behind it.
ReadFirst(buf, fam, is, port) ==
    /\ fam = get_PN_nothrow(buf) /\ fam.success
    /\ is = fam.value % (2 * Base) /\ port = get_PN_nothrow(fam.rest)

\* The three results of AddrUnpack().
PathRead(path) == Done([family |-> AF_UNIX, port |-> 0, addr |-> path.value], path.rest)
Inet4Read(port, addr) ==
    Done([family |-> AF_INET, port |-> PortRead(port.value),
          addr |-> <<Swap(addr.value % ShortModulus)>>], addr.rest)
Inet6Read(port, text) ==
    Done([family |-> AF_INET6, port |-> PortRead(port.value), addr |-> Pton(text.value)], text.rest)

\* The address AddrUnpack() makes of what it has read, by family.
LEMMA UnpackedBy ==
    ASSUME NEW buf, NEW fam, NEW is, NEW port, ReadFirst(buf, fam, is, port)
    PROVE  /\ is = AF_UNIX /\ get_PSTR(fam.rest).success => AddrUnpack(buf) = PathRead(get_PSTR(fam.rest))
           /\ is = AF_INET /\ port.success /\ get_PN_nothrow(port.rest).success =>
                AddrUnpack(buf) = Inet4Read(port, get_PN_nothrow(port.rest))
           /\ is = AF_INET6 /\ port.success /\ get_PSTR(port.rest).success =>
                AddrUnpack(buf) = Inet6Read(port, get_PSTR(port.rest))
<1> DEFINE addr == get_PN_nothrow(port.rest)
           text == get_PSTR(port.rest)
           path == get_PSTR(fam.rest)
           U == Done([family |-> is, port |-> 0, addr |-> path.value], path.rest)
           V == Done([family |-> is, port |-> PortRead(port.value),
                      addr |-> <<Swap(addr.value % ShortModulus)>>], addr.rest)
           W == Done([family |-> is, port |-> PortRead(port.value), addr |-> Pton(text.value)], text.rest)
<1>1. AddrUnpack(buf) =
        CASE fam.success /\ is = AF_UNIX /\ path.success -> U
          [] fam.success /\ is = AF_INET /\ port.success /\ addr.success -> V
          [] fam.success /\ is = AF_INET6 /\ port.success /\ text.success -> W
          [] OTHER -> Failure
  BY Zenon DEF AddrUnpack, ReadFirst
<1>2. fam.success
  BY Zenon DEF ReadFirst
<1>3. AF_UNIX # AF_INET /\ AF_UNIX # AF_INET6 /\ AF_INET # AF_INET6
  BY DEF AF_UNIX, AF_INET, AF_INET6
<1>4. /\ is = AF_UNIX => U = PathRead(path)
      /\ is = AF_INET => V = Inet4Read(port, addr)
      /\ is = AF_INET6 => W = Inet6Read(port, text)
  BY Zenon DEF PathRead, Inet4Read, Inet6Read
<1> HIDE DEF addr, text, path, U, V, W
<1>5. /\ is = AF_UNIX /\ path.success => AddrUnpack(buf) = U
      /\ is = AF_INET /\ port.success /\ addr.success => AddrUnpack(buf) = V
      /\ is = AF_INET6 /\ port.success /\ text.success => AddrUnpack(buf) = W
  BY <1>1, <1>2, <1>3
<1>6. /\ is = AF_UNIX /\ path.success => AddrUnpack(buf) = PathRead(path)
      /\ is = AF_INET /\ port.success /\ addr.success => AddrUnpack(buf) = Inet4Read(port, addr)
      /\ is = AF_INET6 /\ port.success /\ text.success => AddrUnpack(buf) = Inet6Read(port, text)
  BY <1>4, <1>5, Zenon
<1> QED BY <1>6, Zenon DEF addr, text, path

\* The bytes AddrPack() writes, by family.
LEMMA PackedBy ==
    ASSUME NEW a
    PROVE  /\ a.family = AF_UNIX => AddrPack(a) = put_PN(AF_UNIX) \o put_PSTR(a.addr)
           /\ a.family = AF_INET =>
                AddrPack(a) = put_PN(AF_INET) \o put_PN(Swap(a.port)) \o put_PN(Swap(a.addr[1]))
           /\ a.family = AF_INET6 =>
                AddrPack(a) = put_PN(AF_INET6) \o put_PN(Swap(a.port)) \o put_PSTR(Ntop(a.addr))
<1> DEFINE A == put_PN(AF_UNIX) \o put_PSTR(a.addr)
           B == put_PN(AF_INET) \o put_PN(Swap(a.port)) \o put_PN(Swap(a.addr[1]))
           C == put_PN(AF_INET6) \o put_PN(Swap(a.port)) \o put_PSTR(Ntop(a.addr))
           f == a.family
<1>1. AF_UNIX # AF_INET /\ AF_UNIX # AF_INET6 /\ AF_INET # AF_INET6
  BY DEF AF_UNIX, AF_INET, AF_INET6
<1>2. AddrPack(a) = CASE f = AF_UNIX -> A [] f = AF_INET -> B [] f = AF_INET6 -> C
  BY Zenon DEF AddrPack
<1> HIDE DEF A, B, C, f
<1>3. /\ f = AF_UNIX => AddrPack(a) = A
      /\ f = AF_INET => AddrPack(a) = B
      /\ f = AF_INET6 => AddrPack(a) = C
  BY <1>1, <1>2
<1> QED BY <1>3, Zenon DEF A, B, C, f

\* A packed string is bytes.
LEMMA StringBytes ==
    ASSUME NEW s \in Seq(Byte), Len(s) \in Number
    PROVE  put_PSTR(s) \in Seq(Byte)
<1>1. PICK p \in Seq(Byte) : p = put_PN(Len(s))
  BY PackedBytes, Zenon
<1>2. p \o s \in Seq(Byte)
  BY ConcatenationAt, Zenon
<1> QED BY <1>1, <1>2, Zenon DEF put_PSTR

\* The addresses that have a wire form: a path, or a port with the number of an
\* IPv4 address or the bytes of an IPv6 address.
UnixAddrs == {a \in [family : {AF_UNIX}, port : {0}, addr : Seq(Byte)] : Len(a.addr) \in Number}
Inet4Addrs == [family : {AF_INET}, port : 0 .. ShortModulus - 1,
               addr : {<<n>> : n \in 0 .. ShortModulus - 1}]
Inet6Addrs == {a \in [family : {AF_INET6}, port : 0 .. ShortModulus - 1, addr : Seq(Byte)] :
                  Len(a.addr) + 1 \in Number}

\* A family, and a port or a number of an address, as they are read again.
LEMMA FieldsRead ==
    ASSUME AF_INET6 < 2 * Base, AF_INET6 < Modulus, ShortModulus <= Modulus
    PROVE  /\ \A f \in {AF_UNIX, AF_INET, AF_INET6} : f \in Number /\ f % (2 * Base) = f
           /\ \A n \in 0 .. ShortModulus - 1 : Swap(n) \in Number /\ PortRead(Swap(n)) = n
<1>1. Modulus \in Nat /\ Base \in Nat /\ 2 * Base \in Nat
  BY ModulusType, BaseAssumption
<1>2. ASSUME NEW f \in {AF_UNIX, AF_INET, AF_INET6} PROVE f \in Number /\ f % (2 * Base) = f
  <2>1. f \in Nat /\ f < 2 * Base /\ f < Modulus
    BY <1>1 DEF AF_UNIX, AF_INET, AF_INET6
  <2>2. f % (2 * Base) = f
    BY <1>1, <2>1, SmallRemainder, Zenon
  <2> QED BY <1>1, <2>1, <2>2 DEF Number
<1>3. ShortModulus \in Nat
  BY HalfAssumption DEF ShortModulus
<1>4. ASSUME NEW n \in 0 .. ShortModulus - 1 PROVE Swap(n) \in Number /\ PortRead(Swap(n)) = n
  <2>1. Swap(n) \in 0 .. ShortModulus - 1 /\ Swap(Swap(n)) = n
    BY SwapTwice, Zenon
  <2>2. Swap(n) \in Nat /\ Swap(n) < ShortModulus
    BY <1>3, <2>1
  <2>3. Swap(n) % ShortModulus = Swap(n)
    BY <1>3, <2>2, SmallRemainder, Zenon
  <2>4. Swap(n) \in Number
    BY <1>1, <1>3, <2>2 DEF Number
  <2> QED BY <2>1, <2>3, <2>4, Zenon DEF PortRead
<1> QED BY <1>2, <1>4, Zenon

\* addr_pack() and addr_unpack(): an address of a path comes back as it was packed.
LEMMA PathComesBack ==
    ASSUME AF_INET6 < 2 * Base, AF_INET6 < Modulus, ShortModulus <= Modulus,
           NEW a \in UnixAddrs, NEW rest \in Seq(Byte)
    PROVE  AddrUnpack(AddrPack(a) \o rest) = Done(a, rest)
<1>1. a = [family |-> AF_UNIX, port |-> 0, addr |-> a.addr] /\ a.family = AF_UNIX
      /\ a.addr \in Seq(Byte) /\ Len(a.addr) \in Number
  BY DEF UnixAddrs
<1>2. PICK s \in Seq(Byte) : s = a.addr
  BY <1>1, Zenon
<1>3. PICK f \in Seq(Byte) : f = put_PN(AF_UNIX)
  BY FieldsRead, PackedBytes, Zenon
<1>4. PICK w \in Seq(Byte) : w = put_PSTR(s)
  BY <1>1, <1>2, StringBytes, Zenon
<1> DEFINE buf == AddrPack(a) \o rest
           tail == w \o rest
           fam == get_PN_nothrow(buf)
<1>5. buf = f \o tail /\ tail \in Seq(Byte)
  <2>1. AddrPack(a) = f \o w
    BY <1>1, <1>2, <1>3, <1>4, PackedBy, Zenon
  <2>2. (f \o w) \o rest = f \o (w \o rest) /\ w \o rest \in Seq(Byte)
    BY Associative, ConcatenationAt
  <2> QED BY <2>1, <2>2, Zenon
<1>6. NumberFirst(buf, AF_UNIX, tail)
  BY <1>3, <1>5, Zenon DEF NumberFirst
<1> HIDE DEF buf, tail
<1>7. fam.success /\ fam.value = AF_UNIX /\ fam.rest = tail
  <2>1. AF_UNIX \in Number
    BY FieldsRead, Zenon
  <2> QED BY ONLY <1>5, <1>6, <2>1, NumberThen
<1>8. get_PSTR(tail) = Done(s, rest)
  BY <1>1, <1>2, <1>4, StringsComeBack, Zenon DEF tail
<1> DEFINE g == get_PSTR(tail)
<1>9. g.success /\ g.value = s /\ g.rest = rest
  <2> HIDE DEF g
  <2>1. g = [success |-> TRUE, value |-> s, rest |-> rest]
    BY <1>8, Zenon DEF g, Done
  <2> QED BY ONLY <2>1
<1>10. fam.value % (2 * Base) = AF_UNIX
  BY <1>7, FieldsRead, Zenon
<1> HIDE DEF fam
<1>11. AddrUnpack(buf) = Done([family |-> AF_UNIX, port |-> 0, addr |-> s], rest)
  <2>1. ReadFirst(buf, fam, AF_UNIX, get_PN_nothrow(fam.rest))
    BY <1>7, <1>10, Zenon DEF fam, ReadFirst
  <2>2. get_PSTR(fam.rest) = g
    BY <1>7, Zenon
  <2> HIDE DEF g
  <2>3. AddrUnpack(buf) = PathRead(get_PSTR(fam.rest))
    <3>1. get_PSTR(fam.rest).success
      BY <1>9, <2>2, Zenon
    <3> QED BY <2>1, <3>1, UnpackedBy, Zenon
  <2> QED BY <1>9, <2>2, <2>3, Zenon DEF PathRead
<1> QED BY <1>1, <1>2, <1>11, Zenon DEF buf

\* The same of an IPv4 address, whose port and number travel in host order.
LEMMA Inet4ComesBack ==
    ASSUME AF_INET6 < 2 * Base, AF_INET6 < Modulus, ShortModulus <= Modulus,
           NEW a \in Inet4Addrs, NEW rest \in Seq(Byte)
    PROVE  AddrUnpack(AddrPack(a) \o rest) = Done(a, rest)
<1>1. PICK n \in 0 .. ShortModulus - 1 : a.addr = <<n>>
  BY DEF Inet4Addrs
<1>2. PICK p \in 0 .. ShortModulus - 1 : p = a.port
  BY DEF Inet4Addrs
<1>3. a.family = AF_INET /\ a = [family |-> AF_INET, port |-> p, addr |-> <<n>>] /\ a.addr[1] = n
  BY <1>1, <1>2 DEF Inet4Addrs
<1>4. AF_INET \in Number /\ Swap(p) \in Number /\ Swap(n) \in Number
  BY FieldsRead, Zenon
<1>5. PICK f \in Seq(Byte) : f = put_PN(AF_INET)
  BY <1>4, PackedBytes, Zenon
<1>6. PICK g \in Seq(Byte) : g = put_PN(Swap(p))
  BY <1>4, PackedBytes, Zenon
<1>7. PICK h \in Seq(Byte) : h = put_PN(Swap(n))
  BY <1>4, PackedBytes, Zenon
<1> DEFINE buf == AddrPack(a) \o rest
           t == g \o (h \o rest)
           u == h \o rest
           fam == get_PN_nothrow(buf)
           port == get_PN_nothrow(t)
           addr == get_PN_nothrow(u)
<1>8. buf = f \o t /\ t \in Seq(Byte) /\ u \in Seq(Byte)
  <2>1. AddrPack(a) = (f \o g) \o h
    BY <1>2, <1>3, <1>5, <1>6, <1>7, PackedBy, Zenon
  <2>2. /\ Then(Then(Then(f, g), h), rest) = Then(f, Then(g, Then(h, rest)))
        /\ Then(h, rest) \in Seq(Byte) /\ Then(g, Then(h, rest)) \in Seq(Byte)
    BY PartsInOrder
  <2> QED BY <2>1, <2>2, Zenon DEF Then
<1>9. NumberFirst(buf, AF_INET, t) /\ NumberFirst(t, Swap(p), u) /\ NumberFirst(u, Swap(n), rest)
  BY <1>5, <1>6, <1>7, <1>8, Zenon DEF NumberFirst
<1> HIDE DEF buf, t, u
<1>10. fam.success /\ fam.value = AF_INET /\ fam.rest = t
  BY ONLY <1>4, <1>8, <1>9, NumberThen
<1>11. port.success /\ port.value = Swap(p) /\ port.rest = u
  BY ONLY <1>4, <1>8, <1>9, NumberThen
<1>12. addr.success /\ addr.value = Swap(n) /\ addr.rest = rest
  BY ONLY <1>4, <1>9, rest \in Seq(Byte), NumberThen
<1>13. fam.value % (2 * Base) = AF_INET /\ PortRead(port.value) = p /\ Swap(addr.value % ShortModulus) = n
  BY <1>10, <1>11, <1>12, FieldsRead, Zenon DEF PortRead
<1> HIDE DEF fam, port
<1>14. AddrUnpack(buf) = Inet4Read(port, addr)
  <2>1. ReadFirst(buf, fam, AF_INET, port)
    BY <1>10, <1>13, Zenon DEF fam, port, ReadFirst
  <2>2. get_PN_nothrow(port.rest) = addr
    BY <1>11, Zenon
  <2> HIDE DEF addr
  <2>3. AddrUnpack(buf) = Inet4Read(port, get_PN_nothrow(port.rest))
    <3>1. get_PN_nothrow(port.rest).success
      BY <1>12, <2>2, Zenon
    <3> QED BY <1>11, <2>1, <3>1, UnpackedBy, Zenon
  <2> QED BY <2>2, <2>3, Zenon
<1>15. Inet4Read(port, addr) = Done(a, rest)
  BY <1>3, <1>12, <1>13, Zenon DEF Inet4Read
<1> QED BY <1>14, <1>15, Zenon DEF buf

\* The same of an IPv6 address, which travels as text.
LEMMA Inet6ComesBack ==
    ASSUME AF_INET6 < 2 * Base, AF_INET6 < Modulus, ShortModulus <= Modulus,
           NEW a \in Inet6Addrs, NEW rest \in Seq(Byte)
    PROVE  AddrUnpack(AddrPack(a) \o rest) = Done(a, rest)
<1>1. PICK s \in Seq(Byte) : s = a.addr
  BY DEF Inet6Addrs
<1>2. PICK p \in 0 .. ShortModulus - 1 : p = a.port
  BY DEF Inet6Addrs
<1>3. a.family = AF_INET6 /\ a = [family |-> AF_INET6, port |-> p, addr |-> s] /\ Len(s) + 1 \in Number
  BY <1>1, <1>2 DEF Inet6Addrs
<1>4. AF_INET6 \in Number /\ Swap(p) \in Number
  BY FieldsRead, Zenon
<1>5. PICK x \in Seq(Byte) : x = Ntop(s) /\ Len(x) \in Number /\ Pton(x) = s
  <2>1. Base - 1 \in Byte
    BY BaseAssumption DEF Byte
  <2>2. PICK e \in Byte : e = Base - 1
    BY <2>1, Zenon
  <2>3. <<e>> \o s \in Seq(Byte) /\ Len(<<e>> \o s) = Len(s) + 1 /\ Tail(<<e>> \o s) = s
    OBVIOUS
  <2> QED BY <1>3, <2>2, <2>3, Zenon DEF Ntop, Pton
<1>6. PICK f \in Seq(Byte) : f = put_PN(AF_INET6)
  BY <1>4, PackedBytes, Zenon
<1>7. PICK g \in Seq(Byte) : g = put_PN(Swap(p))
  BY <1>4, PackedBytes, Zenon
<1>8. PICK h \in Seq(Byte) : h = put_PSTR(x)
  BY <1>5, StringBytes, Zenon
<1> DEFINE buf == AddrPack(a) \o rest
           t == g \o (h \o rest)
           u == h \o rest
           fam == get_PN_nothrow(buf)
           port == get_PN_nothrow(t)
           text == get_PSTR(u)
<1>9. buf = f \o t /\ t \in Seq(Byte) /\ u \in Seq(Byte)
  <2>1. AddrPack(a) = (f \o g) \o h
    BY <1>1, <1>2, <1>3, <1>5, <1>6, <1>7, <1>8, PackedBy, Zenon
  <2>2. /\ Then(Then(Then(f, g), h), rest) = Then(f, Then(g, Then(h, rest)))
        /\ Then(h, rest) \in Seq(Byte) /\ Then(g, Then(h, rest)) \in Seq(Byte)
    BY PartsInOrder
  <2> QED BY <2>1, <2>2, Zenon DEF Then
<1>10. NumberFirst(buf, AF_INET6, t) /\ NumberFirst(t, Swap(p), u)
  BY <1>6, <1>7, <1>9, Zenon DEF NumberFirst
<1>11. text = Done(x, rest)
  BY <1>5, <1>8, StringsComeBack, Zenon
<1> HIDE DEF buf, t, u, text
<1>12. fam.success /\ fam.value = AF_INET6 /\ fam.rest = t
  BY ONLY <1>4, <1>9, <1>10, NumberThen
<1>13. port.success /\ port.value = Swap(p) /\ port.rest = u
  BY ONLY <1>4, <1>9, <1>10, NumberThen
<1>14. text.success /\ text.value = x /\ text.rest = rest
  <2>1. text = [success |-> TRUE, value |-> x, rest |-> rest]
    BY <1>11, Zenon DEF Done
  <2> QED BY ONLY <2>1
<1>15. fam.value % (2 * Base) = AF_INET6 /\ PortRead(port.value) = p
  BY <1>12, <1>13, FieldsRead, Zenon
<1> HIDE DEF fam, port
<1>16. AddrUnpack(buf) = Inet6Read(port, text)
  <2>1. ReadFirst(buf, fam, AF_INET6, port) /\ text = get_PSTR(port.rest)
    BY <1>12, <1>13, <1>15, Zenon DEF fam, port, text, ReadFirst
  <2>2. AddrUnpack(buf) = Inet6Read(port, get_PSTR(port.rest))
    <3>1. get_PSTR(port.rest).success
      BY <1>14, <2>1, Zenon
    <3> QED BY <1>13, <2>1, <3>1, UnpackedBy, Zenon
  <2> QED BY <2>1, <2>2, Zenon
<1>17. Inet6Read(port, text) = Done(a, rest)
  BY <1>3, <1>5, <1>14, <1>15, Zenon DEF Inet6Read
<1> QED BY <1>16, <1>17, Zenon DEF buf

\* An address comes back as it was packed, and what follows it is not touched:
\* addr_unpack() on what addr_pack() wrote.
THEOREM AddressesComeBack ==
    ASSUME AF_INET6 < 2 * Base, AF_INET6 < Modulus, ShortModulus <= Modulus,
           NEW a \in UnixAddrs \cup Inet4Addrs \cup Inet6Addrs, NEW rest \in Seq(Byte)
    PROVE  AddrUnpack(AddrPack(a) \o rest) = Done(a, rest)
BY PathComesBack, Inet4ComesBack, Inet6ComesBack, Zenon
-----------------------------------------------------------------------------
(* The connection.                                                         *)

\* Where the parts of a frame are.
LEMMA FrameBytes ==
    ASSUME NEW start \in Byte, NEW payload \in Seq(Byte), Len(payload) \in Number
    PROVE  LET n == Len(put_PN(Len(payload)))
               f == Frame(start, payload)
           IN  /\ f \in Seq(Byte) /\ n \in Nat /\ Len(f) = 1 + n + Len(payload)
               /\ f[1] = start
               /\ \A k \in 1 .. n : f[1 + k] = put_PN(Len(payload))[k]
               /\ \A k \in 1 .. Len(payload) : f[1 + n + k] = payload[k]
<1> DEFINE p == put_PN(Len(payload))
<1>1. p \in Seq(Byte)
  BY PackedBytes
<1> HIDE DEF p
<1> DEFINE n == Len(p)
           f == (<<start>> \o p) \o payload
           g == <<start>> \o p
<1>2. /\ g \in Seq(Byte) /\ Len(g) = 1 + n /\ g[1] = start /\ n \in Nat
      /\ \A k \in 1 .. n : g[1 + k] = p[k]
  BY <1>1
<1> HIDE DEF g
<1>3. /\ f \in Seq(Byte) /\ Len(f) = 1 + n + Len(payload)
      /\ \A k \in 1 .. 1 + n : f[k] = g[k]
      /\ \A k \in 1 .. Len(payload) : f[1 + n + k] = payload[k]
  <2>1. f = g \o payload BY DEF g
  <2>2. /\ g \o payload \in Seq(Byte) /\ Len(g \o payload) = Len(g) + Len(payload)
        /\ \A k \in 1 .. Len(g) : (g \o payload)[k] = g[k]
        /\ \A k \in 1 .. Len(payload) : (g \o payload)[Len(g) + k] = payload[k]
    <3>1. PICK h \in Seq(Byte) : h = g BY <1>2
    <3>2. /\ h \o payload \in Seq(Byte) /\ Len(h \o payload) = Len(h) + Len(payload)
          /\ \A k \in 1 .. Len(h) : (h \o payload)[k] = h[k]
          /\ \A k \in 1 .. Len(payload) : (h \o payload)[Len(h) + k] = payload[k]
      OBVIOUS
    <3> QED BY <3>1, <3>2, Zenon
  <2> QED BY <1>2, <2>1, <2>2, Zenon
<1>4. Frame(start, payload) = f
  BY Zenon DEF Frame, p
<1> HIDE DEF f
<1>5. f[1] = start /\ \A k \in 1 .. n : f[1 + k] = p[k]
  BY <1>2, <1>3
<1> QED BY <1>2, <1>3, <1>4, <1>5, Zenon DEF p

\* Between them buf and the wire hold a frame and what was sent behind it.
FrameFirst(buf, w, start, payload, tail) == buf \o w = Frame(start, payload) \o tail

\* on_StreamRead() on a buffer that starts as a frame does.
LEMMA UnframeFrame ==
    ASSUME NEW start \in Byte, NEW payload \in Seq(Byte), Len(payload) \in Number,
           NEW buf \in Seq(Byte), NEW w \in Seq(Byte), NEW tail \in Seq(Byte),
           FrameFirst(buf, w, start, payload, tail),
           Unframe(buf).whole
    PROVE  /\ Unframe(buf).start = start /\ Unframe(buf).payload = payload
           /\ Len(payload) <= maxPacketSize
           /\ Unframe(buf).rest \in Seq(Byte) /\ Unframe(buf).rest \o w = tail
<1> DEFINE f == Frame(start, payload)
           p == put_PN(Len(payload))
           n == Len(p)
           m == Len(payload)
           t == Tail(buf)
           pn == get_PN_nothrow(t)
<1>1. /\ f \in Seq(Byte) /\ n \in Nat /\ Len(f) = 1 + n + m
      /\ f[1] = start /\ \A k \in 1 .. n : f[1 + k] = p[k]
      /\ \A k \in 1 .. m : f[1 + n + k] = payload[k]
  BY FrameBytes
<1>2. m \in Nat /\ Len(buf) \in Nat /\ p \in Seq(Byte)
  BY PackedBytes
<1> HIDE DEF f, p, n
<1>3. buf # <<>> /\ pn.success /\ ~Oversize(pn) /\ ~(Len(pn.rest) < pn.value)
  BY Zenon DEF Unframe, Incomplete
<1>4. /\ Unframe(buf).start = buf[1] /\ Unframe(buf).payload = SubSeq(pn.rest, 1, pn.value)
      /\ Unframe(buf).rest = SubSeq(pn.rest, pn.value + 1, Len(pn.rest))
  <2>1. Unframe(buf) = [whole |-> TRUE, start |-> Head(buf), payload |-> SubSeq(pn.rest, 1, pn.value),
                        rest |-> Remains(pn)]
    BY <1>3, Zenon DEF Unframe
  <2> HIDE DEF pn, t
  <2>2. Head(buf) = buf[1]
    BY <1>3
  <2>3. Remains(pn) = SubSeq(pn.rest, pn.value + 1, Len(pn.rest))
    BY Zenon DEF Remains
  <2> DEFINE h == Head(buf)
             y == SubSeq(pn.rest, 1, pn.value)
             z == Remains(pn)
             u == Unframe(buf)
  <2>4. u = [whole |-> TRUE, start |-> h, payload |-> y, rest |-> z] BY <2>1, Zenon
  <2> HIDE DEF h, y, z, u
  <2>5. u.start = h /\ u.payload = y /\ u.rest = z BY <2>4
  <2> QED BY <2>2, <2>3, <2>5, Zenon DEF h, y, z, u
<1> HIDE DEF pn
<1>5. t \in Seq(Byte) /\ Len(buf) > 0 /\ Len(t) = Len(buf) - 1 /\ \A k \in 1 .. Len(buf) - 1 : t[k] = buf[1 + k]
  BY <1>3
<1> HIDE DEF t
<1>6. \A k \in 1 .. Len(buf) : k <= Len(f) => buf[k] = f[k]
  <2>1. f \in Seq(Byte) /\ buf \o w = f \o tail
    BY <1>1, Zenon DEF f, FrameFirst
  <2> QED BY <2>1, SameFront
<1>7. \A k \in 1 .. n : k <= Len(t) => t[k] = p[k]
  <2>1. SUFFICES ASSUME NEW k \in 1 .. n, k <= Len(t) PROVE t[k] = p[k]
    OBVIOUS
  <2>2. k \in 1 .. Len(buf) - 1 /\ 1 + k \in 1 .. Len(buf) /\ 1 + k <= Len(f)
    BY <1>1, <1>2, <1>5, <2>1
  <2> QED BY <1>1, <1>5, <1>6, <2>2
<1>8. pn = IF Len(t) < n THEN Failure
           ELSE [success |-> TRUE, value |-> m, rest |-> SubSeq(t, n + 1, Len(t))]
  BY <1>5, <1>7, NumberAtFront DEF p, n, pn
<1>9. ~(Len(t) < n) /\ pn.value = m /\ pn.rest = SubSeq(t, n + 1, Len(t))
  BY <1>3, <1>8 DEF Failure
<1>10. m <= maxPacketSize
  <2>1. maxPacketSize \in Nat
    BY SizeAssumption, ModulusType DEF Number
  <2> QED BY <1>2, <1>3, <1>9, <2>1 DEF Oversize
<1> DEFINE r == pn.rest
<1>11. /\ r \in Seq(Byte) /\ Len(r) = Len(buf) - (1 + n)
       /\ \A k \in 1 .. Len(buf) - (1 + n) : r[k] = buf[1 + n + k]
  <2>1. r \in Seq(Byte) /\ Len(r) = Len(t) - n /\ \A k \in 1 .. Len(t) - n : r[k] = t[n + k]
    <3> DEFINE q == SubSeq(t, n + 1, Len(t))
    <3>1. q \in Seq(Byte) /\ Len(q) = Len(t) - n /\ \A k \in 1 .. Len(t) - n : q[k] = t[n + k]
      <4>1. t \in Seq(Byte) /\ n \in Nat /\ n <= Len(t) BY <1>1, <1>5, <1>9
      <4> QED BY ONLY <4>1, BackOf
    <3>2. r = q BY <1>9
    <3> HIDE DEF q, r
    <3> QED BY <3>1, <3>2
  <2> HIDE DEF r
  <2>2. Len(t) - n = Len(buf) - (1 + n)
    BY <1>1, <1>2, <1>5
  <2>3. ASSUME NEW k \in 1 .. Len(buf) - (1 + n) PROVE r[k] = buf[1 + n + k]
    <3>1. n + k \in 1 .. Len(buf) - 1 /\ 1 + (n + k) = 1 + n + k BY <1>1, <1>2
    <3>2. r[k] = t[n + k] BY <2>1, <2>2
    <3>3. t[n + k] = buf[1 + (n + k)] BY <1>5, <3>1
    <3> QED BY <3>1, <3>2, <3>3
  <2> QED BY <2>1, <2>2, <2>3
<1>12. /\ Unframe(buf).payload = SubSeq(r, 1, m)
       /\ Unframe(buf).rest = SubSeq(r, m + 1, Len(r)) /\ m <= Len(r)
  BY <1>2, <1>3, <1>4, <1>9, <1>11
<1> HIDE DEF r
<1>13. Len(f) <= Len(buf)
  BY <1>1, <1>2, <1>11, <1>12
<1>14. SubSeq(r, 1, m) = payload
  <2>1. SubSeq(r, 1, m) \in Seq(Byte) /\ Len(SubSeq(r, 1, m)) = m /\ \A k \in 1 .. m : SubSeq(r, 1, m)[k] = r[k]
    BY <1>2, <1>11, <1>12
  <2>2. ASSUME NEW k \in 1 .. m PROVE r[k] = payload[k]
    <3>1. /\ k \in 1 .. Len(buf) - (1 + n) /\ 1 + n + k \in 1 .. Len(buf) /\ 1 + n + k <= Len(f)
      BY <1>1, <1>2, <1>13
    <3> QED BY <1>1, <1>6, <1>11, <3>1
  <2> DEFINE s == SubSeq(r, 1, m)
  <2> HIDE DEF s
  <2>3. s \in Seq(Byte) /\ Len(s) = Len(payload) /\ \A k \in 1 .. Len(payload) : s[k] = payload[k]
    BY <2>1, <2>2 DEF s
  <2>4. s = payload BY <2>3
  <2> QED BY <2>4 DEF s
<1>15. SubSeq(r, m + 1, Len(r)) = SubSeq(buf, Len(f) + 1, Len(buf))
  <2> DEFINE q == SubSeq(r, m + 1, Len(r))
             z == SubSeq(buf, Len(f) + 1, Len(buf))
             l == Len(buf) - Len(f)
  <2>0. l \in Nat /\ Len(r) - m = l BY <1>1, <1>2, <1>11, <1>13
  <2>1. q \in Seq(Byte) /\ Len(q) = l /\ \A k \in 1 .. l : q[k] = r[m + k]
    <3>1. q \in Seq(Byte) /\ Len(q) = Len(r) - m /\ \A k \in 1 .. Len(r) - m : q[k] = r[m + k]
      BY <1>2, <1>11, <1>12
    <3> HIDE DEF q, l
    <3> QED BY <2>0, <3>1
  <2>2. z \in Seq(Byte) /\ Len(z) = l /\ \A k \in 1 .. l : z[k] = buf[Len(f) + k]
    BY <1>1, <1>2, <1>13
  <2> HIDE DEF q, z
  <2>3. ASSUME NEW k \in 1 .. l PROVE q[k] = z[k]
    <3>1. m + k \in 1 .. Len(buf) - (1 + n) /\ 1 + n + (m + k) = Len(f) + k
      BY <1>1, <1>2
    <3>2. r[m + k] = buf[1 + n + (m + k)] BY <1>11, <3>1
    <3> HIDE DEF l
    <3> QED BY <2>1, <2>2, <3>1, <3>2
  <2> HIDE DEF l
  <2>4. q = z BY <2>1, <2>2, <2>3
  <2> QED BY <2>4 DEF q, z
<1>16. SubSeq(buf, Len(f) + 1, Len(buf)) \o w = tail
  <2>1. buf \o w = f \o tail BY Zenon DEF f, FrameFirst
  <2> QED BY <1>1, <1>13, <2>1, SameBack, Zenon
<1>17. SubSeq(buf, Len(f) + 1, Len(buf)) \in Seq(Byte)
  BY <1>1, <1>2, <1>13
<1>18. buf[1] = start
  <2>1. 1 \in 1 .. Len(buf) /\ 1 <= Len(f) BY <1>1, <1>2, <1>5
  <2> QED BY <1>1, <1>6, <2>1
<1> QED BY <1>4, <1>10, <1>12, <1>14, <1>15, <1>16, <1>17, <1>18, Zenon

\* The packets sent and not yet passed on.
Pending == SubSeq(sent, Len(received) + 1, Len(sent))

\* Their frames, as sendPacketPlain() wrote them.
Frames(q) == [i \in 1 .. Len(q) |-> Frame(q[i][1], q[i][2])]

\* The bytes that are not yet in the buffer, and those that never come into it.
Coming == wire \o lost

\* The inductive invariant.  While on_StreamRead() runs or can still be called, what it
\* has in its buffer, what is on the wire and what the sender did not get rid of are
\* together the whole frames of the packets not yet passed on, wherever the end of the
\* buffer or the close of the sender cuts them.
StreamInv ==
    /\ sent \in Seq(StartBytes \X Payloads) /\ received \in Seq(Payloads)
    /\ wire \in Seq(Byte) /\ lost \in Seq(Byte) /\ inBuffer \in Seq(Byte)
    /\ reading \in BOOLEAN /\ sending \in BOOLEAN /\ open \in BOOLEAN
    /\ Len(received) <= Len(sent)
    /\ sending => lost = <<>>
    /\ open \/ reading => Joined(inBuffer \o Coming, Frames(Pending))

\* Frames of packets are sequences of bytes.
LEMMA FramesOf ==
    ASSUME NEW q \in Seq(StartBytes \X Payloads)
    PROVE  /\ Frames(q) \in Seq(Seq(Byte)) /\ Len(Frames(q)) = Len(q)
           /\ \A i \in 1 .. Len(q) : Frames(q)[i] = Frame(q[i][1], q[i][2])
<1>1. ASSUME NEW i \in 1 .. Len(q) PROVE Frame(q[i][1], q[i][2]) \in Seq(Byte)
  <2>1. q[i] \in StartBytes \X Payloads OBVIOUS
  <2>2. q[i][1] \in Byte /\ q[i][2] \in Seq(Byte) /\ Len(q[i][2]) \in Number
    BY <2>1, PayloadBytes, PayloadSizes
  <2> QED BY <2>2, FrameBytes
<1>2. Len(q) \in Nat OBVIOUS
<1> QED BY <1>1, <1>2 DEF Frames

\* A packet sent adds its frame.
LEMMA FramesAppend ==
    ASSUME NEW q \in Seq(StartBytes \X Payloads), NEW start \in StartBytes, NEW payload \in Payloads
    PROVE  Frames(Append(q, <<start, payload>>)) = Append(Frames(q), Frame(start, payload))
<1> DEFINE r == Append(q, <<start, payload>>)
           a == Frames(r)
           b == Append(Frames(q), Frame(start, payload))
<1>1. r \in Seq(StartBytes \X Payloads) /\ Len(r) = Len(q) + 1 /\ Len(q) \in Nat
      /\ r[Len(q) + 1] = <<start, payload>> /\ \A i \in 1 .. Len(q) : r[i] = q[i]
  OBVIOUS
<1>2. /\ a \in Seq(Seq(Byte)) /\ Len(a) = Len(q) + 1
      /\ \A i \in 1 .. Len(r) : a[i] = Frame(r[i][1], r[i][2])
  BY <1>1, FramesOf
<1>3. Frames(q) \in Seq(Seq(Byte)) /\ Len(Frames(q)) = Len(q)
      /\ \A i \in 1 .. Len(q) : Frames(q)[i] = Frame(q[i][1], q[i][2])
  BY FramesOf
<1>4. Frame(start, payload) \in Seq(Byte)
  BY FrameBytes, PayloadBytes, PayloadSizes
<1>5. b \in Seq(Seq(Byte)) /\ Len(b) = Len(q) + 1 /\ b[Len(q) + 1] = Frame(start, payload)
      /\ \A i \in 1 .. Len(q) : b[i] = Frames(q)[i]
  BY <1>3, <1>4
<1> HIDE DEF a, b, r
<1>6. ASSUME NEW i \in 1 .. Len(q) + 1 PROVE a[i] = b[i]
  <2>1. CASE i = Len(q) + 1
    <3>1. a[i] = Frame(r[i][1], r[i][2]) BY <1>1, <1>2
    <3>2. r[i][1] = start /\ r[i][2] = payload BY <1>1, <2>1
    <3> QED BY <1>5, <2>1, <3>1, <3>2, Zenon
  <2>2. CASE i \in 1 .. Len(q)
    <3>1. a[i] = Frame(r[i][1], r[i][2]) BY <1>1, <1>2
    <3>2. r[i] = q[i] BY <1>1, <2>2
    <3> QED BY <1>3, <1>5, <2>2, <3>1, <3>2, Zenon
  <2> QED BY <1>1, <2>1, <2>2
<1>7. a = [i \in 1 .. Len(q) + 1 |-> a[i]] /\ b = [i \in 1 .. Len(q) + 1 |-> b[i]]
  BY <1>2, <1>5
<1>8. a = b BY <1>6, <1>7
<1> QED BY <1>8, Zenon DEF a, b, r

\* A packet passed on takes its frame away.
LEMMA FramesTail ==
    ASSUME NEW q \in Seq(StartBytes \X Payloads), q # <<>>
    PROVE  Frames(Tail(q)) = Tail(Frames(q))
<1> DEFINE r == Tail(q)
           a == Frames(r)
           b == Tail(Frames(q))
<1>1. /\ r \in Seq(StartBytes \X Payloads) /\ Len(r) = Len(q) - 1 /\ Len(q) \in Nat /\ Len(q) > 0
      /\ \A i \in 1 .. Len(q) - 1 : r[i] = q[i + 1]
  OBVIOUS
<1>2. /\ a \in Seq(Seq(Byte)) /\ Len(a) = Len(q) - 1
      /\ \A i \in 1 .. Len(r) : a[i] = Frame(r[i][1], r[i][2])
  BY <1>1, FramesOf
<1>3. Frames(q) \in Seq(Seq(Byte)) /\ Len(Frames(q)) = Len(q)
      /\ \A i \in 1 .. Len(q) : Frames(q)[i] = Frame(q[i][1], q[i][2])
  BY FramesOf
<1>5. b \in Seq(Seq(Byte)) /\ Len(b) = Len(q) - 1
      /\ \A i \in 1 .. Len(q) - 1 : b[i] = Frames(q)[i + 1]
  BY <1>1, <1>3
<1> HIDE DEF a, b, r
<1>6. ASSUME NEW i \in 1 .. Len(q) - 1 PROVE a[i] = b[i]
  <2>1. a[i] = Frame(r[i][1], r[i][2]) BY <1>1, <1>2
  <2>2. r[i] = q[i + 1] /\ i + 1 \in 1 .. Len(q) BY <1>1
  <2> QED BY <1>3, <1>5, <2>1, <2>2, Zenon
<1>7. a = [i \in 1 .. Len(q) - 1 |-> a[i]] /\ b = [i \in 1 .. Len(q) - 1 |-> b[i]]
  BY <1>2, <1>5
<1>8. a = b BY <1>6, <1>7
<1> QED BY <1>8, Zenon DEF a, b, r

\* The packets not yet passed on, when one more is sent and when the first is passed on.
LEMMA PendingMoves ==
    ASSUME StreamInv
    PROVE  /\ Pending \in Seq(StartBytes \X Payloads) /\ Len(Pending) = Len(sent) - Len(received)
           /\ \A e \in StartBytes \X Payloads :
                 SubSeq(Append(sent, e), Len(received) + 1, Len(sent) + 1) = Append(Pending, e)
           /\ Len(received) < Len(sent) =>
                 /\ Pending # <<>> /\ Head(Pending) = sent[Len(received) + 1]
                 /\ Tail(Pending) = SubSeq(sent, Len(received) + 2, Len(sent))
<1> DEFINE S == StartBytes \X Payloads
           n == Len(received)
<1>1. sent \in Seq(S) /\ n \in Nat /\ n <= Len(sent)
  BY DEF StreamInv
<1> HIDE DEF S, n
<1>2. LET q == SubSeq(sent, n + 1, Len(sent))
      IN  /\ q \in Seq(S) /\ Len(q) = Len(sent) - n
          /\ \A e \in S : SubSeq(Append(sent, e), n + 1, Len(sent) + 1) = Append(q, e)
          /\ n < Len(sent) => q # <<>> /\ Head(q) = sent[n + 1] /\ Tail(q) = SubSeq(sent, n + 2, Len(sent))
  BY <1>1, SuffixMoves, Zenon
<1> QED BY <1>2, Zenon DEF Pending, S, n

\* Nothing behind a sequence.
LEMMA NothingBehind == \A s \in Seq(Byte) : s \o <<>> = s
OBVIOUS

\* Four sequences, one behind the other.
LEMMA Regrouped == \A s, t, u, v \in Seq(Byte) : (s \o t) \o (u \o v) = s \o ((t \o u) \o v)
<1> SUFFICES ASSUME NEW s \in Seq(Byte), NEW t \in Seq(Byte), NEW u \in Seq(Byte), NEW v \in Seq(Byte)
             PROVE  (s \o t) \o (u \o v) = s \o ((t \o u) \o v)
  OBVIOUS
<1>1. (t \o u) \o v = t \o (u \o v)
  BY ONLY t \in Seq(Byte), u \in Seq(Byte), v \in Seq(Byte)
<1> DEFINE r == u \o v
<1>2. r \in Seq(Byte)
  BY ONLY u \in Seq(Byte), v \in Seq(Byte)
<1> HIDE DEF r
<1>3. (s \o t) \o r = s \o (t \o r)
  BY ONLY s \in Seq(Byte), t \in Seq(Byte), <1>2
<1> QED BY <1>1, <1>3, Zenon DEF r

\* A sequence cut in two.
LEMMA CutInTwo ==
    ASSUME NEW s \in Seq(Byte), NEW n \in 0 .. Len(s)
    PROVE  /\ SubSeq(s, 1, n) \in Seq(Byte) /\ SubSeq(s, n + 1, Len(s)) \in Seq(Byte)
           /\ SubSeq(s, 1, n) \o SubSeq(s, n + 1, Len(s)) = s
<1> DEFINE a == SubSeq(s, 1, n)
           b == SubSeq(s, n + 1, Len(s))
<1>1. Len(s) \in Nat /\ n \in Nat /\ n <= Len(s) OBVIOUS
<1>2. a \in Seq(Byte) /\ Len(a) = n /\ \A k \in 1 .. n : a[k] = s[k] BY <1>1
<1>3. b \in Seq(Byte) /\ Len(b) = Len(s) - n /\ \A k \in 1 .. Len(s) - n : b[k] = s[n + k]
  BY ONLY s \in Seq(Byte), <1>1, BackOf
<1> HIDE DEF a, b
<1> DEFINE c == a \o b
<1>4. /\ c \in Seq(Byte) /\ Len(c) = Len(a) + Len(b)
      /\ \A k \in 1 .. Len(a) : c[k] = a[k]
      /\ \A k \in 1 .. Len(b) : c[Len(a) + k] = b[k]
  <2>1. PICK a1 \in Seq(Byte) : a1 = a BY <1>2
  <2>2. PICK b1 \in Seq(Byte) : b1 = b BY <1>3
  <2>3. /\ a1 \o b1 \in Seq(Byte) /\ Len(a1 \o b1) = Len(a1) + Len(b1)
        /\ \A k \in 1 .. Len(a1) : (a1 \o b1)[k] = a1[k]
        /\ \A k \in 1 .. Len(b1) : (a1 \o b1)[Len(a1) + k] = b1[k]
    BY ONLY a1 \in Seq(Byte), b1 \in Seq(Byte)
  <2> QED BY <2>1, <2>2, <2>3, Zenon
<1> HIDE DEF c
<1>5. Len(c) = Len(s) BY <1>1, <1>2, <1>3, <1>4
<1>6. ASSUME NEW k \in 1 .. Len(s) PROVE c[k] = s[k]
  <2>1. CASE k \in 1 .. n BY <1>2, <1>4, <2>1
  <2>2. CASE k > n
    <3>1. k - n \in 1 .. Len(s) - n /\ n + (k - n) = k BY <1>1, <2>2
    <3>2. k - n \in 1 .. Len(b) /\ Len(a) = n BY <1>2, <1>3, <3>1
    <3>3. c[Len(a) + (k - n)] = b[k - n] BY <1>4, <3>2, Zenon
    <3>4. b[k - n] = s[n + (k - n)] BY <1>3, <3>1, Zenon
    <3> QED BY <3>1, <3>2, <3>3, <3>4, Zenon
  <2> QED BY <1>1, <2>1, <2>2
<1>7. c = [k \in 1 .. Len(s) |-> c[k]] /\ s = [k \in 1 .. Len(s) |-> s[k]]
  BY <1>4, <1>5
<1>8. c = s BY <1>6, <1>7
<1> QED BY <1>2, <1>3, <1>8, Zenon DEF a, b, c

\* sendPacketPlain() puts a whole frame behind the others.
LEMMA SendStep ==
    ASSUME StreamInv, NEW start \in StartBytes, NEW payload \in Payloads, SendPacket(start, payload)
    PROVE  StreamInv' /\ Pending' = Append(Pending, <<start, payload>>)
<1> DEFINE e == <<start, payload>>
           f == Frame(start, payload)
           buf == inBuffer \o Coming
<1>1. e \in StartBytes \X Payloads
  OBVIOUS
<1>2. /\ sending /\ sent' = Append(sent, e) /\ wire' = wire \o f
      /\ lost' = lost /\ inBuffer' = inBuffer /\ reading' = reading /\ received' = received
      /\ sending' = sending /\ open' = open
  BY Zenon DEF SendPacket
<1>3. f \in Seq(Byte)
  BY FrameBytes, PayloadBytes, PayloadSizes
<1>4. /\ sent \in Seq(StartBytes \X Payloads) /\ received \in Seq(Payloads)
      /\ wire \in Seq(Byte) /\ inBuffer \in Seq(Byte) /\ lost \in Seq(Byte)
      /\ reading \in BOOLEAN /\ sending \in BOOLEAN /\ open \in BOOLEAN
      /\ Len(received) <= Len(sent)
      /\ lost = <<>>
      /\ open \/ reading => Joined(buf, Frames(Pending))
  BY <1>2, Zenon DEF StreamInv
<1>5. Pending' = Append(Pending, e)
  <2>1. Len(sent') = Len(sent) + 1 BY <1>2, <1>4
  <2>2. Pending' = SubSeq(Append(sent, e), Len(received) + 1, Len(sent) + 1)
    BY <1>2, <2>1, Zenon DEF Pending
  <2> QED BY <1>1, <2>2, PendingMoves
<1> HIDE DEF e, f
<1>6. (inBuffer \o Coming)' = buf \o f /\ buf \in Seq(Byte)
  <2>1. (inBuffer \o wire) \o f = inBuffer \o (wire \o f)
    BY ONLY <1>3, <1>4, Associative
  <2>2. inBuffer \o wire \in Seq(Byte) /\ wire \o f \in Seq(Byte)
    BY <1>3, <1>4
  <2>3. Coming = wire /\ Coming' = wire \o f
    BY <1>2, <1>4, <2>2, NothingBehind, Zenon DEF Coming
  <2> QED BY <1>2, <2>1, <2>2, <2>3, Zenon
<1> HIDE DEF buf
<1>7. Frames(Pending') = Append(Frames(Pending), f)
  BY <1>5, PendingMoves, FramesAppend, Zenon DEF e, f
<1>8. Joined(buf, Frames(Pending)) => Joined(buf \o f, Append(Frames(Pending), f))
  <2>1. Frames(Pending) \in Seq(Seq(Byte))
    BY PendingMoves, FramesOf
  <2> QED BY <1>3, <1>4, <1>6, <2>1, JoinedAppend
<1>9. (open \/ reading => Joined(inBuffer \o Coming, Frames(Pending)))'
  <2>1. Frames(Pending)' = Frames(Pending')
    BY Zenon DEF Frames
  <2> QED BY <1>2, <1>4, <1>6, <1>7, <1>8, <2>1, Zenon
<1>10. sent' \in Seq(StartBytes \X Payloads) /\ wire' \in Seq(Byte) /\ Len(received') <= Len(sent')
  <2>1. sent' \in Seq(StartBytes \X Payloads) /\ Len(sent') = Len(sent) + 1
    BY <1>1, <1>2, <1>4 DEF e
  <2>2. wire' \in Seq(Byte) BY <1>2, <1>3, <1>4
  <2>3. Len(received) \in Nat /\ Len(sent) \in Nat BY <1>4
  <2> QED BY <1>2, <1>4, <2>1, <2>2, <2>3
<1>11. StreamInv'
  BY <1>2, <1>4, <1>9, <1>10, Zenon DEF StreamInv
<1> QED BY <1>5, <1>11 DEF e

\* recv() moves bytes from the wire to the buffer, wherever it cuts.
LEMMA RecvStep ==
    ASSUME StreamInv, NEW n \in 1 .. Len(wire), Recv(n)
    PROVE  StreamInv' /\ Pending' = Pending
<1>1. /\ open /\ inBuffer' = inBuffer \o SubSeq(wire, 1, n)
      /\ wire' = SubSeq(wire, n + 1, Len(wire))
      /\ reading' = TRUE /\ sent' = sent /\ lost' = lost /\ received' = received
      /\ sending' = sending /\ open' = open
  BY Zenon DEF Recv
<1>2. /\ sent \in Seq(StartBytes \X Payloads) /\ received \in Seq(Payloads)
      /\ wire \in Seq(Byte) /\ lost \in Seq(Byte) /\ inBuffer \in Seq(Byte)
      /\ sending \in BOOLEAN /\ open \in BOOLEAN
      /\ Len(received) <= Len(sent)
      /\ sending => lost = <<>>
      /\ Joined(inBuffer \o Coming, Frames(Pending))
  BY <1>1, Zenon DEF StreamInv
<1> DEFINE a == SubSeq(wire, 1, n)
           b == SubSeq(wire, n + 1, Len(wire))
<1>3. a \in Seq(Byte) /\ b \in Seq(Byte) /\ a \o b = wire
  <2>1. n \in 0 .. Len(wire) BY <1>2
  <2> QED BY <1>2, <2>1, CutInTwo, Zenon
<1> HIDE DEF a, b
<1>4. (inBuffer \o a) \o (b \o lost) = inBuffer \o ((a \o b) \o lost) /\ inBuffer \o a \in Seq(Byte)
  <2>1. inBuffer \in Seq(Byte) /\ a \in Seq(Byte) /\ b \in Seq(Byte) /\ lost \in Seq(Byte)
    BY <1>2, <1>3
  <2>2. inBuffer \o a \in Seq(Byte) BY ONLY <2>1
  <2>3. \A u, v \in Seq(Byte) : (inBuffer \o a) \o (u \o v) = inBuffer \o ((a \o u) \o v)
    BY ONLY <2>1, Regrouped, Zenon
  <2>4. (inBuffer \o a) \o (b \o lost) = inBuffer \o ((a \o b) \o lost)
    BY ONLY <2>1, <2>3, Zenon
  <2> QED BY <2>2, <2>4, Zenon
<1>5. Pending' = Pending
  BY <1>1, Zenon DEF Pending
<1>6. (inBuffer \o Coming)' = inBuffer \o Coming
  BY <1>1, <1>3, <1>4, Zenon DEF a, b, Coming
<1>7. Frames(Pending)' = Frames(Pending)
  BY <1>5, Zenon DEF Frames
<1>8. StreamInv'
  <2>1. TRUE \in BOOLEAN OBVIOUS
  <2>2. inBuffer' \in Seq(Byte) /\ wire' \in Seq(Byte) BY <1>1, <1>3, <1>4, Zenon DEF a, b
  <2> QED BY <1>1, <1>2, <1>6, <1>7, <2>1, <2>2, Zenon DEF StreamInv
<1> QED BY <1>5, <1>8

\* Closing the receiver's socket leaves the bytes alone, in the loop and outside it.
LEMMA CloseStep ==
    ASSUME StreamInv, Close
    PROVE  StreamInv' /\ Pending' = Pending
<1>1. /\ open /\ open' = FALSE /\ sent' = sent /\ wire' = wire /\ lost' = lost /\ inBuffer' = inBuffer
      /\ reading' = reading /\ received' = received /\ sending' = sending
  BY Zenon DEF Close
<1>2. FALSE \in BOOLEAN OBVIOUS
<1>3. Pending' = Pending BY <1>1, Zenon DEF Pending
<1>4. Coming' = Coming BY <1>1, Zenon DEF Coming
<1>5. Frames(Pending)' = Frames(Pending) BY <1>3, Zenon DEF Frames
<1>6. StreamInv' BY <1>1, <1>2, <1>4, <1>5, Zenon DEF StreamInv
<1> QED BY <1>3, <1>6

\* Closing the sender's socket cuts the stream, in the middle of a frame as it may be.
LEMMA CloseSenderStep ==
    ASSUME StreamInv, NEW n \in 0 .. Len(wire), CloseSender(n)
    PROVE  StreamInv' /\ Pending' = Pending
<1> DEFINE a == SubSeq(wire, 1, n)
           b == SubSeq(wire, n + 1, Len(wire))
<1>1. /\ sending /\ sending' = FALSE /\ wire' = a /\ lost' = b
      /\ sent' = sent /\ inBuffer' = inBuffer /\ reading' = reading /\ received' = received /\ open' = open
  BY Zenon DEF CloseSender
<1>2. wire \in Seq(Byte) /\ lost = <<>>
  BY <1>1, Zenon DEF StreamInv
<1>3. a \in Seq(Byte) /\ b \in Seq(Byte) /\ a \o b = wire
  BY <1>2, CutInTwo, Zenon
<1> HIDE DEF a, b
<1>4. FALSE \in BOOLEAN OBVIOUS
<1>5. Pending' = Pending BY <1>1, Zenon DEF Pending
<1>6. Coming' = Coming BY <1>1, <1>2, <1>3, NothingBehind, Zenon DEF Coming
<1>7. Frames(Pending)' = Frames(Pending) BY <1>5, Zenon DEF Frames
<1>8. StreamInv' BY <1>1, <1>3, <1>4, <1>6, <1>7, Zenon DEF StreamInv
<1> QED BY <1>5, <1>8

\* A frame that on_StreamRead() finds whole is that of the first packet not yet passed
\* on, its size is admitted, and what it leaves in the buffer is what was sent behind it.
LEMMA FirstFrame ==
    ASSUME StreamInv, reading, Unframe(inBuffer).whole
    PROVE  LET u == Unframe(inBuffer)
           IN  /\ Len(received) < Len(sent) /\ Pending # <<>>
               /\ Head(Pending) = <<u.start, u.payload>>
               /\ u.start \in StartBytes /\ u.payload \in Payloads
               /\ Len(u.payload) <= maxPacketSize
               /\ u.rest \in Seq(Byte)
               /\ Joined(u.rest \o Coming, Frames(Tail(Pending)))
<1> DEFINE q == Pending
           fs == Frames(q)
           buf == inBuffer \o Coming
           u == Unframe(inBuffer)
<1>1. /\ Coming \in Seq(Byte) /\ inBuffer \in Seq(Byte)
      /\ Joined(buf, fs) /\ Len(received) <= Len(sent)
      /\ Len(received) \in Nat /\ Len(sent) \in Nat
  <2>1. /\ wire \in Seq(Byte) /\ lost \in Seq(Byte) /\ inBuffer \in Seq(Byte)
        /\ Joined(buf, fs) /\ Len(received) <= Len(sent)
        /\ received \in Seq(Payloads) /\ sent \in Seq(StartBytes \X Payloads)
    BY Zenon DEF StreamInv
  <2>2. Coming \in Seq(Byte) BY <2>1 DEF Coming
  <2> HIDE DEF buf, fs
  <2> QED BY <2>1, <2>2
<1>2. q \in Seq(StartBytes \X Payloads) /\ Len(q) = Len(sent) - Len(received)
  BY PendingMoves
<1>3. fs \in Seq(Seq(Byte)) /\ Len(fs) = Len(q) /\ \A i \in 1 .. Len(q) : fs[i] = Frame(q[i][1], q[i][2])
  BY <1>2, FramesOf
<1>4. inBuffer # <<>>
  BY Zenon DEF Unframe, Incomplete
<1>5. buf \in Seq(Byte) /\ buf # <<>>
  BY <1>1, <1>4
<1> HIDE DEF q, fs, buf, u
<1>6. fs # <<>>
  BY <1>1, <1>5, JoinedNothing
<1>7. PICK rest \in Seq(Byte) : buf = fs[1] \o rest /\ Joined(rest, Tail(fs))
  BY <1>1, <1>3, <1>5, <1>6, JoinedHead
<1>8. Len(q) > 0 /\ q # <<>> /\ Len(q) \in Nat
  BY <1>2, <1>3, <1>6
<1>9. /\ q[1] \in StartBytes \X Payloads /\ fs[1] = Frame(q[1][1], q[1][2])
  BY <1>2, <1>3, <1>8
<1> DEFINE start == q[1][1]
           payload == q[1][2]
<1>10. /\ start \in StartBytes /\ payload \in Payloads /\ q[1] = <<start, payload>>
       /\ fs[1] = Frame(start, payload)
  BY <1>9
<1> HIDE DEF start, payload
<1>11. start \in Byte /\ payload \in Seq(Byte) /\ Len(payload) \in Number
  BY <1>10, PayloadBytes, PayloadSizes
<1>12. inBuffer \o Coming = Frame(start, payload) \o rest
  BY <1>7, <1>10, Zenon DEF buf
<1>13. /\ u.start = start /\ u.payload = payload /\ Len(payload) <= maxPacketSize
       /\ u.rest \in Seq(Byte) /\ u.rest \o Coming = rest
  <2>1. Unframe(inBuffer).whole OBVIOUS
  <2>2. FrameFirst(inBuffer, Coming, start, payload, rest) BY <1>12, Zenon DEF FrameFirst
  <2> QED BY ONLY <1>1, <1>11, <2>1, <2>2, rest \in Seq(Byte), UnframeFrame DEF u
<1>14. Frames(Tail(q)) = Tail(fs)
  BY <1>2, <1>8, FramesTail, Zenon DEF fs
<1>15. Head(q) = q[1]
  BY <1>2, <1>8
<1>16. Len(received) < Len(sent)
  BY <1>1, <1>2, <1>8
<1> QED BY <1>7, <1>8, <1>10, <1>13, <1>14, <1>15, <1>16, Zenon DEF q, u

\* A round of the loop of on_StreamRead() passes nothing on and ends the loop, or passes
\* on the first packet not yet passed on; either may close the socket.
LEMMA ReadStep ==
    ASSUME StreamInv, StreamRead
    PROVE  /\ StreamInv'
           /\ reading /\ sent' = sent /\ sending' = sending
           /\ reading' \in {reading, FALSE} /\ open' \in {open, FALSE}
           /\ \/ received' = received /\ Pending' = Pending /\ reading' = FALSE
              \/ /\ Pending # <<>>
                 /\ \E payload \in Payloads :
                      /\ Head(Pending) = <<SB_SINGLEPACKET, payload>>
                      /\ Len(payload) <= maxPacketSize
                      /\ received' = Append(received, payload)
                 /\ Pending' = Tail(Pending)
<1> DEFINE u == Unframe(inBuffer)
<1>1. /\ reading /\ sent' = sent /\ wire' = wire /\ lost' = lost /\ sending' = sending
      /\ \/ /\ ~u.whole /\ reading' = FALSE
            /\ inBuffer' = inBuffer /\ received' = received /\ open' = open
         \/ /\ u.whole /\ inBuffer' = u.rest
            /\ \/ /\ u.start = SB_SINGLEPACKET
                  /\ received' = Append(received, u.payload)
                  /\ (reading' = reading /\ open' = open) \/ (reading' = FALSE /\ open' = FALSE)
               \/ open' = FALSE /\ reading' = FALSE /\ received' = received
  BY Zenon DEF StreamRead, PassPacket, PassThrows, InvalidStartByte
<1>2. /\ sent \in Seq(StartBytes \X Payloads) /\ received \in Seq(Payloads)
      /\ wire \in Seq(Byte) /\ lost \in Seq(Byte) /\ inBuffer \in Seq(Byte)
      /\ reading \in BOOLEAN /\ sending \in BOOLEAN /\ open \in BOOLEAN
      /\ Len(received) <= Len(sent)
      /\ sending => lost = <<>>
      /\ Joined(inBuffer \o Coming, Frames(Pending))
  BY <1>1, Zenon DEF StreamInv
<1>3. u.whole => /\ Len(received) < Len(sent) /\ Pending # <<>>
                 /\ Head(Pending) = <<u.start, u.payload>>
                 /\ u.start \in StartBytes /\ u.payload \in Payloads
                 /\ Len(u.payload) <= maxPacketSize
                 /\ u.rest \in Seq(Byte)
                 /\ Joined(u.rest \o Coming, Frames(Tail(Pending)))
  BY <1>1, FirstFrame
<1> HIDE DEF u
<1>0. Coming' = Coming /\ FALSE \in BOOLEAN
  BY <1>1, Zenon DEF Coming
<1>4. CASE /\ ~u.whole /\ reading' = FALSE
           /\ inBuffer' = inBuffer /\ received' = received /\ open' = open
  <2>1. Pending' = Pending BY <1>1, <1>4, Zenon DEF Pending
  <2>2. Frames(Pending)' = Frames(Pending) BY <2>1, Zenon DEF Frames
  <2>3. StreamInv' BY <1>0, <1>1, <1>2, <1>4, <2>2, Zenon DEF StreamInv
  <2> QED BY <1>1, <1>4, <2>1, <2>3, Zenon
<1>5. CASE /\ u.whole /\ inBuffer' = u.rest
           /\ open' = FALSE /\ reading' = FALSE /\ received' = received
  <2>1. Pending' = Pending BY <1>1, <1>5, Zenon DEF Pending
  <2>2. StreamInv' BY <1>0, <1>1, <1>2, <1>3, <1>5, Zenon DEF StreamInv
  <2> QED BY <1>1, <1>5, <2>1, <2>2, Zenon
<1>6. CASE /\ u.whole /\ inBuffer' = u.rest /\ u.start = SB_SINGLEPACKET
           /\ received' = Append(received, u.payload)
           /\ (reading' = reading /\ open' = open) \/ (reading' = FALSE /\ open' = FALSE)
  <2>1. received' \in Seq(Payloads) /\ Len(received') = Len(received) + 1
    BY <1>2, <1>3, <1>6
  <2>2. Len(received') <= Len(sent) /\ Len(received') + 1 = Len(received) + 2
    <3>1. Len(received) \in Nat /\ Len(sent) \in Nat BY <1>2
    <3> QED BY <1>3, <1>6, <2>1, <3>1
  <2>3. Tail(Pending) = SubSeq(sent, Len(received) + 2, Len(sent))
    BY <1>3, <1>6, PendingMoves
  <2>4. Pending' = Tail(Pending)
    BY <1>1, <2>2, <2>3, Zenon DEF Pending
  <2>5. Frames(Pending)' = Frames(Tail(Pending))
    BY <2>4, Zenon DEF Frames
  <2>6. Joined(inBuffer \o Coming, Frames(Pending))'
    BY <1>0, <1>3, <1>6, <2>5, Zenon
  <2>7. reading' \in BOOLEAN /\ open' \in BOOLEAN
    BY <1>0, <1>2, <1>6, Zenon
  <2>8. StreamInv'
    BY <1>1, <1>2, <1>3, <1>6, <2>1, <2>2, <2>6, <2>7, Zenon DEF StreamInv
  <2>9. reading' \in {reading, FALSE} /\ open' \in {open, FALSE}
    BY <1>6, Zenon
  <2> QED BY <1>1, <1>3, <1>6, <2>4, <2>8, <2>9, Zenon
<1> QED BY <1>1, <1>4, <1>5, <1>6, Zenon

\* The invariant holds initially.
LEMMA StreamInit == Init => StreamInv
<1> SUFFICES ASSUME Init PROVE StreamInv
  OBVIOUS
<1>1. /\ sent = <<>> /\ wire = <<>> /\ lost = <<>> /\ inBuffer = <<>> /\ received = <<>>
      /\ reading = FALSE /\ sending = TRUE /\ open = TRUE
  BY Zenon DEF Init
<1>2. Pending = <<>> /\ Frames(Pending) = <<>>
  BY <1>1 DEF Pending, Frames
<1>3. inBuffer \o Coming \in Seq(Byte) /\ inBuffer \o Coming = <<>>
  BY <1>1 DEF Coming
<1>4. Joined(inBuffer \o Coming, Frames(Pending))
  <2>1. Joined(inBuffer \o Coming, <<>>) BY <1>3, JoinedNothing
  <2> QED BY <1>2, <2>1, Zenon
<1>5. /\ sent \in Seq(StartBytes \X Payloads) /\ received \in Seq(Payloads)
      /\ wire \in Seq(Byte) /\ lost \in Seq(Byte) /\ inBuffer \in Seq(Byte)
      /\ reading \in BOOLEAN /\ sending \in BOOLEAN /\ open \in BOOLEAN /\ Len(received) <= Len(sent)
  <2>1. /\ sent \in Seq(StartBytes \X Payloads) /\ received \in Seq(Payloads)
        /\ wire \in Seq(Byte) /\ lost \in Seq(Byte) /\ inBuffer \in Seq(Byte) /\ Len(received) <= Len(sent)
    BY <1>1
  <2>2. reading \in BOOLEAN /\ sending \in BOOLEAN /\ open \in BOOLEAN
    BY <1>1, Zenon
  <2> QED BY <2>1, <2>2
<1> QED BY <1>1, <1>4, <1>5, Zenon DEF StreamInv

\* Every step preserves the invariant.
LEMMA StreamStep == StreamInv /\ [Next]_vars => StreamInv'
<1> SUFFICES ASSUME StreamInv, [Next]_vars PROVE StreamInv'
  OBVIOUS
<1>1. ASSUME NEW start \in StartBytes, NEW payload \in Payloads, SendPacket(start, payload)
      PROVE  StreamInv'
  BY <1>1, SendStep
<1>2. ASSUME NEW n \in 1 .. Len(wire), Recv(n) PROVE StreamInv'
  BY <1>2, RecvStep
<1>3. CASE StreamRead
  BY <1>3, ReadStep
<1>4. CASE Close
  BY <1>4, CloseStep
<1>5. CASE UNCHANGED vars
  BY <1>5, Zenon DEF StreamInv, vars, Coming, Pending, Frames
<1>6. ASSUME NEW n \in 0 .. Len(wire), CloseSender(n) PROVE StreamInv'
  BY <1>6, CloseSenderStep
<1> QED BY <1>1, <1>2, <1>3, <1>4, <1>5, <1>6, Zenon DEF Next

\* In every state from which on_StreamRead() can go on, the buffer and what comes behind it
\* are together the frames of the packets it has still to pass on: no cut of the stream and
\* no close loses the place of a frame.
THEOREM StreamInvariant == Spec => []StreamInv
BY StreamInit, StreamStep, PTL DEF Spec

\* What was passed on, as packets of the pipe.
Passed == [i \in DOMAIN received |-> <<SB_SINGLEPACKET, received[i]>>]

\* A payload passed on is a packet more.
LEMMA PassedAppend ==
    ASSUME received \in Seq(Payloads), NEW payload \in Payloads, received' = Append(received, payload)
    PROVE  Passed' = Append(Passed, <<SB_SINGLEPACKET, payload>>)
<1> DEFINE n == Len(received)
           a == Passed'
           b == Append(Passed, <<SB_SINGLEPACKET, payload>>)
<1>1. n \in Nat /\ DOMAIN received = 1 .. n /\ DOMAIN received' = 1 .. n + 1
      /\ received'[n + 1] = payload /\ \A i \in 1 .. n : received'[i] = received[i]
  OBVIOUS
<1> DEFINE T == {<<SB_SINGLEPACKET, p>> : p \in Payloads}
<1>2. Passed = [i \in 1 .. n |-> <<SB_SINGLEPACKET, received[i]>>]
  BY <1>1, Zenon DEF Passed
<1>3. Passed \in Seq(T) /\ Len(Passed) = n
  <2>1. \A i \in 1 .. n : received[i] \in Payloads OBVIOUS
  <2>2. \A i \in 1 .. n : <<SB_SINGLEPACKET, received[i]>> \in T BY <2>1
  <2> QED BY <1>1, <1>2, <2>2
<1>4. a = [i \in 1 .. n + 1 |-> <<SB_SINGLEPACKET, received'[i]>>]
  BY <1>1, Zenon DEF Passed
<1>5. b = [i \in 1 .. n + 1 |-> IF i = n + 1 THEN <<SB_SINGLEPACKET, payload>> ELSE Passed[i]]
  <2>1. <<SB_SINGLEPACKET, payload>> \in T OBVIOUS
  <2> HIDE DEF T
  <2> QED BY <1>1, <1>3, <2>1
<1> HIDE DEF a, b
<1>6. ASSUME NEW i \in 1 .. n + 1
      PROVE  <<SB_SINGLEPACKET, received'[i]>> =
               IF i = n + 1 THEN <<SB_SINGLEPACKET, payload>> ELSE Passed[i]
  <2>1. i = n + 1 \/ i \in 1 .. n BY <1>1
  <2>2. CASE i = n + 1 BY <1>1, <2>2, Zenon
  <2>3. CASE i \in 1 .. n /\ i # n + 1
    <3>1. Passed[i] = <<SB_SINGLEPACKET, received[i]>> BY <1>2, <2>3
    <3> QED BY <1>1, <2>3, <3>1, Zenon
  <2> QED BY <2>1, <2>2, <2>3
<1>7. a = b BY <1>4, <1>5, <1>6, Zenon
<1> QED BY <1>7, Zenon DEF a, b

\* The initial state is that of the pipe.
LEMMA PipeInit == Init => Pipe!Init
<1> SUFFICES ASSUME Init PROVE Pipe!Init
  OBVIOUS
<1>1. sent = <<>> /\ received = <<>> /\ reading = FALSE /\ sending = TRUE /\ open = TRUE
  BY Zenon DEF Init
<1>2. SubSeq(sent, Len(received) + 1, Len(sent)) = <<>>
  BY <1>1
<1>3. [i \in DOMAIN received |-> <<SB_SINGLEPACKET, received[i]>>] = <<>>
  BY <1>1
<1> QED BY <1>1, <1>2, <1>3, Zenon DEF Pipe!Init

\* Every step of the connection is a step of the pipe, or none.
LEMMA PipeStep == StreamInv /\ [Next]_vars => [Pipe!Next]_Pipe!vars
<1> SUFFICES ASSUME StreamInv, [Next]_vars
             PROVE  Pipe!Next \/ UNCHANGED <<Pending, Passed, reading, sending, open>>
  BY Zenon DEF Pipe!vars, Pending, Passed
<1>0. received \in Seq(Payloads) /\ open \in BOOLEAN /\ reading \in BOOLEAN
  BY Zenon DEF StreamInv
<1>1. ASSUME NEW start \in StartBytes, NEW payload \in Payloads, SendPacket(start, payload)
      PROVE  Pipe!Next
  <2>1. sending /\ received' = received /\ reading' = reading /\ sending' = sending /\ open' = open
    BY <1>1, Zenon DEF SendPacket
  <2>2. Pending' = Append(Pending, <<start, payload>>) BY <1>1, SendStep
  <2>3. Passed' = Passed BY <2>1, Zenon DEF Passed
  <2>4. Pipe!Send(<<start, payload>>) BY <2>1, <2>2, <2>3, Zenon DEF Pipe!Send, Pending, Passed
  <2>5. <<start, payload>> \in StartBytes \X Payloads OBVIOUS
  <2> QED BY <2>4, <2>5, Zenon DEF Pipe!Next
<1>2. ASSUME NEW n \in 1 .. Len(wire), Recv(n) PROVE Pipe!Next
  <2>1. open /\ received' = received /\ reading' = TRUE /\ sending' = sending /\ open' = open
    BY <1>2, Zenon DEF Recv
  <2>2. Pending' = Pending BY <1>2, RecvStep
  <2>3. Passed' = Passed BY <2>1, Zenon DEF Passed
  <2>4. Pipe!Begin BY <2>1, <2>2, <2>3, Zenon DEF Pipe!Begin, Pending, Passed
  <2> QED BY <2>4, Zenon DEF Pipe!Next
<1>3. CASE StreamRead
  <2>0. /\ reading /\ sending' = sending
        /\ reading' \in {reading, FALSE} /\ open' \in {open, FALSE}
    BY <1>3, ReadStep
  <2>1. CASE received' = received /\ Pending' = Pending /\ reading' = FALSE
    <3>1. Passed' = Passed BY <2>1, Zenon DEF Passed
    <3>2. Pipe!End BY <2>0, <2>1, <3>1, Zenon DEF Pipe!End, Pending, Passed
    <3> QED BY <3>2, Zenon DEF Pipe!Next
  <2>2. ASSUME Pending # <<>>, Pending' = Tail(Pending),
               NEW payload \in Payloads, Head(Pending) = <<SB_SINGLEPACKET, payload>>,
               Len(payload) <= maxPacketSize, received' = Append(received, payload)
        PROVE  Pipe!Next
    <3>1. Passed' = Append(Passed, Head(Pending)) BY <1>0, <2>2, PassedAppend
    <3>2. Head(Pending) \in {SB_SINGLEPACKET} \X {p \in Payloads : Len(p) <= maxPacketSize}
      BY <2>2
    <3>3. Pipe!Receive BY <2>0, <2>2, <3>1, <3>2, Zenon DEF Pipe!Receive, Pending, Passed
    <3> QED BY <3>3, Zenon DEF Pipe!Next
  <2> QED BY <1>3, <2>1, <2>2, ReadStep, Zenon
<1>4. CASE Close
  <2>1. /\ received' = received /\ reading' = reading /\ sending' = sending /\ open' = FALSE
    BY <1>4, Zenon DEF Close
  <2>2. Pending' = Pending BY <1>4, CloseStep
  <2>3. Passed' = Passed BY <2>1, Zenon DEF Passed
  <2>4. Pipe!Close BY <2>1, <2>2, <2>3, Zenon DEF Pipe!Close, Pending, Passed
  <2> QED BY <2>4, Zenon DEF Pipe!Next
<1>5. CASE UNCHANGED vars
  BY <1>5, Zenon DEF vars, Pending, Passed
<1>6. ASSUME NEW n \in 0 .. Len(wire), CloseSender(n) PROVE Pipe!Next
  <2>1. /\ received' = received /\ reading' = reading /\ sending' = FALSE /\ open' = open
    BY <1>6, Zenon DEF CloseSender
  <2>2. Pending' = Pending BY <1>6, CloseSenderStep
  <2>3. Passed' = Passed BY <2>1, Zenon DEF Passed
  <2>4. Pipe!CloseSender BY <2>1, <2>2, <2>3, Zenon DEF Pipe!CloseSender, Pending, Passed
  <2> QED BY <2>4, Zenon DEF Pipe!Next
<1> QED BY <1>1, <1>2, <1>3, <1>4, <1>5, <1>6, Zenon DEF Next

\* Framing, buffering and cutting implement the pipe of packets: on_StreamRead() passes
\* on whole packets in the order in which sendPacketPlain() wrote them, none twice and none
\* invented, and stops for ever at a packet that is not admitted.  The close of either end
\* may come at any step, inside the loop of on_StreamRead() and inside a frame too: the
\* loop that is running may still pass on packets, and no other starts.
THEOREM ConnectionIsPipe == Spec => Pipe!Safe
BY StreamInvariant, PipeInit, PipeStep, PTL DEF Spec, Pipe!Safe

\* Every payload passed on is that of the packet sent at its place.
PassedAsSent == \A i \in 1 .. Len(received) : sent[i] = <<SB_SINGLEPACKET, received[i]>>

\* The n-th payload that on_StreamRead() passes on is that of the n-th packet sent.
THEOREM PacketsPassedAsSent == Spec => []PassedAsSent
<1>1. Init => PassedAsSent
  BY DEF Init, PassedAsSent
<1>2. ASSUME StreamInv, PassedAsSent, [Next]_vars PROVE PassedAsSent'
  <2>0. /\ sent \in Seq(StartBytes \X Payloads) /\ received \in Seq(Payloads)
        /\ Len(received) <= Len(sent) /\ Len(received) \in Nat /\ Len(sent) \in Nat
    <3>1. /\ sent \in Seq(StartBytes \X Payloads) /\ received \in Seq(Payloads)
          /\ Len(received) <= Len(sent)
      BY <1>2, Zenon DEF StreamInv
    <3> QED BY <3>1
  <2>1. CASE sent' = sent /\ received' = received
    BY <1>2, <2>1, Zenon DEF PassedAsSent
  <2>2. ASSUME NEW start \in StartBytes, NEW payload \in Payloads, SendPacket(start, payload)
        PROVE  PassedAsSent'
    <3>1. sent' = Append(sent, <<start, payload>>) /\ received' = received
      BY <2>2, Zenon DEF SendPacket
    <3>2. \A i \in 1 .. Len(sent) : sent'[i] = sent[i] BY <2>0, <3>1
    <3>3. \A i \in 1 .. Len(received) : i \in 1 .. Len(sent) BY <2>0
    <3> QED BY <1>2, <3>1, <3>2, <3>3, Zenon DEF PassedAsSent
  <2>3. ASSUME Pending # <<>>, NEW payload \in Payloads, Head(Pending) = <<SB_SINGLEPACKET, payload>>,
               received' = Append(received, payload), sent' = sent
        PROVE  PassedAsSent'
    <3>1. Pending \in Seq(StartBytes \X Payloads) /\ Len(Pending) = Len(sent) - Len(received)
      BY <1>2, PendingMoves
    <3>2. Len(received) < Len(sent) BY <2>0, <2>3, <3>1
    <3>3. sent[Len(received) + 1] = <<SB_SINGLEPACKET, payload>> BY <1>2, <2>3, <3>2, PendingMoves
    <3>4. /\ Len(received') = Len(received) + 1 /\ received'[Len(received) + 1] = payload
          /\ \A i \in 1 .. Len(received) : received'[i] = received[i]
      BY <2>0, <2>3
    <3>5. ASSUME NEW i \in 1 .. Len(received) + 1 PROVE sent[i] = <<SB_SINGLEPACKET, received'[i]>>
      <4>1. i = Len(received) + 1 \/ i \in 1 .. Len(received) BY <2>0
      <4> QED BY <1>2, <3>3, <3>4, <4>1, Zenon DEF PassedAsSent
    <3> QED BY <2>3, <3>4, <3>5, Zenon DEF PassedAsSent
  <2>4. CASE StreamRead
    <3>1. sent' = sent BY <2>4, Zenon DEF StreamRead
    <3> QED BY <1>2, <2>1, <2>3, <2>4, <3>1, ReadStep, Zenon
  <2>5. CASE \E n \in 1 .. Len(wire) : Recv(n)
    BY <2>1, <2>5, Zenon DEF Recv
  <2>6. CASE Close
    BY <2>1, <2>6, Zenon DEF Close
  <2>7. CASE UNCHANGED vars
    BY <2>1, <2>7, Zenon DEF vars
  <2>8. CASE \E n \in 0 .. Len(wire) : CloseSender(n)
    BY <2>1, <2>8, Zenon DEF CloseSender
  <2> QED BY <1>2, <2>2, <2>4, <2>5, <2>6, <2>7, <2>8, Zenon DEF Next
<1> QED BY <1>1, <1>2, StreamInvariant, PTL DEF Spec
=============================================================================
