----------------------------- MODULE DataLemmas -----------------------------
(***************************************************************************)
(* What the proofs need of numbers, recursive functions and sequences:     *)
(* induction over sets of numbers, what sequences are made of, and         *)
(* sequences kept in places, with what a move from one place to another    *)
(* does (the packets of Rpc in its caches and deques, the tasks of Timer,  *)
(* the events of Listener).                                                *)
(***************************************************************************)
EXTENDS Naturals, Sequences, WellFoundedInduction, TLAPS

(* Induction and recursion on the natural numbers.                         *)

\* A set of natural numbers has a least element: the well-foundedness of < as a
\* statement about a set, which needs no operator parameter.
LEMMA LeastElement ==
    ASSUME NEW S \in SUBSET Nat, S # {}
    PROVE  \E x \in S : \A y \in S : x <= y
<1> DEFINE R == OpToRel(<, Nat)
<1>1. IsWellFoundedOn(R, Nat)
  BY ONLY NatLessThanWellFounded, Zenon
<1>2. PICK x \in S : \A y \in S : ~(<<y, x>> \in R)
  <2> HIDE DEF R
  <2> QED BY <1>1, WFMin, Zenon
<1>3. ASSUME NEW y \in S PROVE x <= y
  <2>1. ~(y < x)
    BY <1>2, <1>3 DEF OpToRel
  <2> QED BY <2>1
<1> QED BY <1>3

\* A set of numbers up to n has a greatest element: Max() is defined on it.
LEMMA GreatestElement ==
    ASSUME NEW n \in Nat, NEW S \in SUBSET (0 .. n), S # {}
    PROVE  \E x \in S : \A y \in S : x >= y
<1> DEFINE B == {b \in Nat : \A y \in S : b >= y}
<1>1. B \in SUBSET Nat /\ n \in B
  OBVIOUS
<1>2. PICK b \in B : \A c \in B : b <= c
  BY <1>1, LeastElement, Zenon
<1>3. b \in S
  <2>1. SUFFICES ASSUME b \notin S PROVE FALSE
    OBVIOUS
  <2>2. \A y \in S : y \in Nat /\ b > y
    BY <2>1
  <2>3. PICK z \in S : TRUE
    OBVIOUS
  <2>4. b - 1 \in Nat
    BY <2>2, <2>3
  <2>5. b - 1 \in B
    BY <2>2, <2>4
  <2> QED BY <1>2, <2>4, <2>5
<1> QED BY <1>3

\* Induction, with a set in the place of the predicate.
LEMMA SetInduction ==
    ASSUME NEW S \in SUBSET Nat, 0 \in S, \A n \in S : n + 1 \in S
    PROVE  S = Nat
<1> DEFINE T == Nat \ S
<1>1. SUFFICES ASSUME T # {} PROVE FALSE
  BY Zenon
<1>2. PICK x \in T : \A y \in T : x <= y
  <2> HIDE DEF T
  <2>1. T \in SUBSET Nat BY DEF T
  <2> QED BY <1>1, <2>1, LeastElement, Zenon
<1>3. x # 0 /\ x - 1 \in Nat
  OBVIOUS
<1>4. x - 1 \in T
  BY <1>3
<1> QED BY <1>2, <1>4

\* g is the recursive function on 0 .. n that starts with a and takes step[k] at k.
Steps(g, n, a, step) == g = [k \in 0 .. n |-> IF k = 0 THEN a ELSE step[k][g[k - 1]]]

\* A recursive function on 0 .. n exists, so that its definition is an equation.
LEMMA RecursionExists ==
    ASSUME NEW n \in Nat, NEW T, NEW a \in T, NEW step \in [1 .. n -> [T -> T]]
    PROVE  \E g \in [0 .. n -> T] : Steps(g, n, a, step)
<1> DEFINE S == {m \in Nat : m <= n => \E g \in [0 .. m -> T] : Steps(g, m, a, step)}
<1>1. 0 \in S
  <2> DEFINE g == [k \in 0 .. 0 |-> a]
  <2>1. g \in [0 .. 0 -> T] OBVIOUS
  <2>2. Steps(g, 0, a, step) BY DEF Steps
  <2> QED BY <2>1, <2>2
<1>2. ASSUME NEW m \in S PROVE m + 1 \in S
  <2>1. SUFFICES ASSUME m + 1 <= n PROVE \E g \in [0 .. m + 1 -> T] : Steps(g, m + 1, a, step)
    OBVIOUS
  <2>2. PICK h \in [0 .. m -> T] : Steps(h, m, a, step)
    BY <2>1
  <2> DEFINE g == [k \in 0 .. m + 1 |-> IF k <= m THEN h[k] ELSE step[m + 1][h[m]]]
  <2>3. g \in [0 .. m + 1 -> T]
    BY <2>1
  <2>4. Steps(g, m + 1, a, step)
    <3>1. SUFFICES ASSUME NEW k \in 0 .. m + 1
                   PROVE  g[k] = IF k = 0 THEN a ELSE step[k][g[k - 1]]
      BY Zenon DEF Steps
    <3>2. \A j \in 0 .. m : h[j] = IF j = 0 THEN a ELSE step[j][h[j - 1]]
      BY <2>2 DEF Steps
    <3>3. CASE k <= m
      BY <3>2, <3>3
    <3>4. CASE k = m + 1
      BY <3>4
    <3> QED BY <3>3, <3>4
  <2> QED BY <2>3, <2>4
<1>3. S = Nat
  <2> HIDE DEF S
  <2>1. S \in SUBSET Nat BY DEF S
  <2> QED BY <1>1, <1>2, <2>1, SetInduction, Zenon
<1> QED BY <1>3

\* Induction up to n.
LEMMA IntervalInduction ==
    ASSUME NEW n \in Nat, NEW S, 0 \in S, \A k \in 0 .. n - 1 : k \in S => k + 1 \in S
    PROVE  0 .. n \subseteq S
<1> DEFINE U == {m \in Nat : m <= n => m \in S}
<1>1. 0 \in U
  OBVIOUS
<1>2. ASSUME NEW m \in U PROVE m + 1 \in U
  OBVIOUS
<1>3. U = Nat
  <2> HIDE DEF U
  <2>1. U \in SUBSET Nat BY DEF U
  <2> QED BY <1>1, <1>2, <2>1, SetInduction, Zenon
<1> QED BY <1>3

\* Quotient and remainder are determined by what they add up to.
LEMMA QuotientIsUnique ==
    ASSUME NEW a \in Nat, NEW m \in Nat, NEW p \in Nat, NEW t \in Nat, t < m, a = m * p + t
    PROVE  a \div m = p /\ a % m = t
<1> DEFINE q == a \div m
           r == a % m
<1>1. q \in Nat /\ r \in Nat /\ r < m /\ a = m * q + r
  OBVIOUS
<1> HIDE DEF q, r
<1>2. CASE q < p
  <2>1. PICK d \in Nat : p = q + 1 + d
    <3>1. p = q + 1 + (p - q - 1) /\ p - q - 1 \in Nat BY <1>1, <1>2
    <3> QED BY <3>1
  <2>2. m * p = m * q + m + m * d BY <1>1, <2>1
  <2>3. m * d \in Nat OBVIOUS
  <2>4. m * p \in Nat /\ m * q \in Nat BY <1>1
  <2> QED BY <1>1, <2>2, <2>3, <2>4
<1>3. CASE p < q
  <2>1. PICK d \in Nat : q = p + 1 + d
    <3>1. q = p + 1 + (q - p - 1) /\ q - p - 1 \in Nat BY <1>1, <1>3
    <3> QED BY <3>1
  <2>2. m * q = m * p + m + m * d BY <1>1, <2>1
  <2>3. m * d \in Nat OBVIOUS
  <2>4. m * p \in Nat /\ m * q \in Nat BY <1>1
  <2> QED BY <1>1, <2>2, <2>3, <2>4
<1>4. CASE p = q
  BY <1>1, <1>4 DEF q, r
<1> QED BY <1>1, <1>2, <1>3, <1>4

\* A number below the divisor is its own remainder.
LEMMA SmallRemainder ==
    ASSUME NEW a \in Nat, NEW m \in Nat, a < m
    PROVE  a \div m = 0 /\ a % m = a
<1>1. a = m * 0 + a
  OBVIOUS
<1> QED BY <1>1, QuotientIsUnique

\* Shifting twice is shifting by the product.
LEMMA QuotientOfProduct ==
    ASSUME NEW a \in Nat, NEW b \in Nat \ {0}, NEW c \in Nat \ {0}
    PROVE  a \div (b * c) = (a \div b) \div c
<1> DEFINE q == a \div b
           r == a % b
           p == q \div c
           s == q % c
<1>1. q \in Nat /\ r \in Nat /\ r < b /\ a = b * q + r
  OBVIOUS
<1> HIDE DEF q, r
<1>2. p \in Nat /\ s \in Nat /\ s < c /\ q = c * p + s
  BY <1>1
<1> HIDE DEF p, s
<1>3. a = (b * c) * p + (b * s + r)
  BY <1>1, <1>2
<1>4. b * s + r < b * c /\ b * s + r \in Nat /\ b * c \in Nat
  <2>1. PICK d \in Nat : c = s + 1 + d
    <3>1. c = s + 1 + (c - s - 1) /\ c - s - 1 \in Nat BY <1>2
    <3> QED BY <3>1
  <2>2. b * c = b * s + b + b * d BY <1>2, <2>1
  <2>3. b * d \in Nat /\ b * s \in Nat BY <1>2
  <2> QED BY <1>1, <2>2, <2>3
<1>5. a \div (b * c) = p
  <2> DEFINE m == b * c
             t == b * s + r
  <2>1. a = m * p + t /\ m \in Nat /\ t \in Nat /\ t < m BY <1>3, <1>4
  <2> HIDE DEF m, t
  <2>2. a \div m = p BY <1>2, <2>1, QuotientIsUnique
  <2> QED BY <2>2 DEF m
<1> QED BY <1>5 DEF p, q

-----------------------------------------------------------------------------
(* Parts of sequences.                                                     *)

\* The elements of a concatenation.
LEMMA ConcatenationAt ==
    ASSUME NEW S, NEW s \in Seq(S), NEW t \in Seq(S)
    PROVE  /\ s \o t \in Seq(S)
           /\ Len(s \o t) = Len(s) + Len(t)
           /\ \A k \in 1 .. Len(s) : (s \o t)[k] = s[k]
           /\ \A k \in 1 .. Len(t) : (s \o t)[Len(s) + k] = t[k]
OBVIOUS

\* What is left of a sequence behind its first n elements.
LEMMA BackOf ==
    ASSUME NEW S, NEW s \in Seq(S), NEW n \in Nat, n <= Len(s)
    PROVE  /\ SubSeq(s, n + 1, Len(s)) \in Seq(S)
           /\ Len(SubSeq(s, n + 1, Len(s))) = Len(s) - n
           /\ \A k \in 1 .. Len(s) - n : SubSeq(s, n + 1, Len(s))[k] = s[n + k]
OBVIOUS

\* Two ways to cut the same sequence in two agree on what both have at the front ...
LEMMA SameFront ==
    ASSUME NEW S, NEW a \in Seq(S), NEW b \in Seq(S), NEW c \in Seq(S), NEW d \in Seq(S),
           a \o b = c \o d
    PROVE  /\ \A k \in 1 .. Len(a) : k <= Len(c) => a[k] = c[k]
           /\ Len(a) + Len(b) = Len(c) + Len(d)
<1>1. \A k \in 1 .. Len(a) : (a \o b)[k] = a[k]
  OBVIOUS
<1>2. \A k \in 1 .. Len(c) : (c \o d)[k] = c[k]
  OBVIOUS
<1>3. Len(a \o b) = Len(a) + Len(b) /\ Len(c \o d) = Len(c) + Len(d)
  OBVIOUS
<1>4. Len(a) \in Nat /\ Len(c) \in Nat
  OBVIOUS
<1>5. \A k \in 1 .. Len(a) : k <= Len(c) => k \in 1 .. Len(c)
  BY <1>4
<1> QED BY <1>1, <1>2, <1>3, <1>5, Zenon

\* ... and when the first is cut further back, it holds what the second has behind.
LEMMA SameBack ==
    ASSUME NEW S, NEW a \in Seq(S), NEW b \in Seq(S), NEW c \in Seq(S), NEW d \in Seq(S),
           a \o b = c \o d, Len(c) <= Len(a)
    PROVE  SubSeq(a, Len(c) + 1, Len(a)) \o b = d
<1> DEFINE q == SubSeq(a, Len(c) + 1, Len(a))
           x == a \o b
<1>1. Len(a) \in Nat /\ Len(b) \in Nat /\ Len(c) \in Nat /\ Len(d) \in Nat
  OBVIOUS
<1>2. q \in Seq(S) /\ Len(q) = Len(a) - Len(c) /\ \A k \in 1 .. Len(a) - Len(c) : q[k] = a[Len(c) + k]
  BY <1>1
<1>3. /\ \A k \in 1 .. Len(a) : x[k] = a[k]
      /\ \A k \in 1 .. Len(b) : x[Len(a) + k] = b[k]
      /\ Len(x) = Len(a) + Len(b)
  BY ONLY a \in Seq(S), b \in Seq(S)
<1>4. /\ \A k \in 1 .. Len(d) : (c \o d)[Len(c) + k] = d[k]
      /\ Len(c \o d) = Len(c) + Len(d)
  OBVIOUS
<1>5. x = c \o d
  OBVIOUS
<1> HIDE DEF q, x
<1>6. PICK r \in Seq(S) : r = q BY <1>2
<1>7. /\ r \o b \in Seq(S) /\ Len(r \o b) = Len(r) + Len(b)
      /\ \A k \in 1 .. Len(r) : (r \o b)[k] = r[k]
      /\ \A k \in 1 .. Len(b) : (r \o b)[Len(r) + k] = b[k]
  OBVIOUS
<1>8. Len(r) = Len(a) - Len(c) /\ Len(r \o b) = Len(d) /\ Len(a) + Len(b) = Len(c) + Len(d)
  BY <1>1, <1>2, <1>3, <1>4, <1>5, <1>6, <1>7
<1> DEFINE y == r \o b
<1>9. ASSUME NEW k \in 1 .. Len(d) PROVE y[k] = d[k]
  <2>0. d[k] = x[Len(c) + k] BY <1>4, <1>5
  <2>1. CASE k <= Len(r)
    <3>1. k \in 1 .. Len(r) /\ k \in 1 .. Len(a) - Len(c) /\ Len(c) + k \in 1 .. Len(a)
      BY <1>1, <1>8, <2>1
    <3> QED BY <1>2, <1>3, <1>6, <1>7, <2>0, <3>1, Zenon
  <2>2. CASE k > Len(r)
    <3> DEFINE j == k - Len(r)
    <3>1. /\ j \in 1 .. Len(b) /\ Len(r) + j = k /\ Len(a) + j = Len(c) + k
      BY <1>1, <1>8, <2>2
    <3> HIDE DEF j
    <3>2. y[Len(r) + j] = b[j] BY <1>7, <3>1, Zenon
    <3>3. x[Len(a) + j] = b[j] BY <1>3, <3>1, Zenon
    <3> QED BY <2>0, <3>1, <3>2, <3>3, Zenon
  <2> QED BY <1>1, <1>8, <2>1, <2>2
<1> HIDE DEF y
<1>10. y \in Seq(S) /\ Len(y) = Len(d) BY <1>7, <1>8 DEF y
<1>11. y = d
  <2>1. y = [k \in 1 .. Len(d) |-> y[k]] BY <1>10
  <2>2. d = [k \in 1 .. Len(d) |-> d[k]] OBVIOUS
  <2> QED BY <1>9, <2>1, <2>2
<1> QED BY <1>6, <1>11, Zenon DEF q, y

\* A suffix of a sequence that grows at its end, or that loses its first element.
LEMMA SuffixMoves ==
    ASSUME NEW S, NEW s \in Seq(S), NEW n \in Nat, n <= Len(s)
    PROVE  LET q == SubSeq(s, n + 1, Len(s))
           IN  /\ q \in Seq(S) /\ Len(q) = Len(s) - n
               /\ \A e \in S : SubSeq(Append(s, e), n + 1, Len(s) + 1) = Append(q, e)
               /\ n < Len(s) => q # <<>> /\ Head(q) = s[n + 1] /\ Tail(q) = SubSeq(s, n + 2, Len(s))
<1> DEFINE q == SubSeq(s, n + 1, Len(s))
<1>1. q \in Seq(S) /\ Len(q) = Len(s) - n /\ \A k \in 1 .. Len(s) - n : q[k] = s[n + k]
  BY BackOf
<1>2. Len(s) \in Nat OBVIOUS
<1> HIDE DEF q
<1> DEFINE l == Len(s) - n
<1>2a. l \in Nat BY <1>2
<1>3. ASSUME NEW e \in S PROVE SubSeq(Append(s, e), n + 1, Len(s) + 1) = Append(q, e)
  <2> DEFINE t == Append(s, e)
             a == SubSeq(t, n + 1, Len(t))
             b == Append(q, e)
  <2>1. /\ t \in Seq(S) /\ Len(t) = Len(s) + 1 /\ t[Len(s) + 1] = e
        /\ \A k \in 1 .. Len(s) : t[k] = s[k]
    OBVIOUS
  <2>2. b \in Seq(S) /\ Len(b) = l + 1 /\ b[l + 1] = e /\ \A k \in 1 .. l : b[k] = q[k]
    <3>1. Len(q) = l BY <1>1
    <3>2. b \in Seq(S) /\ Len(b) = Len(q) + 1 /\ b[Len(q) + 1] = e /\ \A k \in 1 .. Len(q) : b[k] = q[k]
      BY <1>1
    <3> QED BY <3>1, <3>2, Zenon
  <2> HIDE DEF t, b
  <2>3. a \in Seq(S) /\ Len(a) = Len(t) - n /\ \A k \in 1 .. Len(t) - n : a[k] = t[n + k]
    <3>1. n <= Len(t) BY <1>2, <2>1
    <3> QED BY ONLY n \in Nat, <2>1, <3>1, BackOf
  <2> HIDE DEF a
  <2>4. Len(t) - n = l + 1 BY <1>2, <2>1
  <2>5. ASSUME NEW k \in 1 .. l + 1 PROVE a[k] = b[k]
    <3>1. CASE k = l + 1
      <4>1. n + k = Len(s) + 1 BY <1>2, <3>1
      <4> HIDE DEF l
      <4> QED BY <2>1, <2>2, <2>3, <2>4, <3>1, <4>1
    <3>2. CASE k \in 1 .. l
      <4>1. n + k \in 1 .. Len(s) BY <1>2, <3>2
      <4>2. a[k] = t[n + k] BY <2>3, <2>4
      <4>3. q[k] = s[n + k] BY <1>1, <3>2
      <4> HIDE DEF l
      <4> QED BY <2>1, <2>2, <3>2, <4>1, <4>2, <4>3
    <3> QED BY <1>2a, <3>1, <3>2
  <2>6. a = [k \in 1 .. l + 1 |-> a[k]] /\ b = [k \in 1 .. l + 1 |-> b[k]]
    BY <2>2, <2>3, <2>4
  <2>7. a = b BY <2>5, <2>6
  <2> QED BY <2>1, <2>7, Zenon DEF a, b, t
<1>4. ASSUME n < Len(s) PROVE q # <<>> /\ Head(q) = s[n + 1] /\ Tail(q) = SubSeq(s, n + 2, Len(s))
  <2> DEFINE a == Tail(q)
             b == SubSeq(s, (n + 1) + 1, Len(s))
  <2>1. l > 0 /\ Len(q) = l BY <1>1, <1>2, <1>4
  <2>2. q # <<>> /\ Head(q) = q[1] /\ a \in Seq(S) /\ Len(a) = Len(q) - 1
        /\ \A k \in 1 .. Len(q) - 1 : a[k] = q[k + 1]
    BY <1>1, <2>1
  <2>3. b \in Seq(S) /\ Len(b) = Len(s) - (n + 1) /\ \A k \in 1 .. Len(s) - (n + 1) : b[k] = s[(n + 1) + k]
    <3>1. n + 1 \in Nat /\ n + 1 <= Len(s) BY <1>2, <1>4
    <3> QED BY ONLY s \in Seq(S), <3>1, BackOf
  <2> HIDE DEF a, b
  <2>4. Len(s) - (n + 1) = l - 1 BY <1>2
  <2>5. ASSUME NEW k \in 1 .. l - 1 PROVE a[k] = b[k]
    <3>1. k + 1 \in 1 .. Len(s) - n /\ n + (k + 1) = (n + 1) + k BY <1>2
    <3>2. q[k + 1] = s[n + (k + 1)] BY <1>1, <3>1
    <3>3. a[k] = q[k + 1] BY <2>1, <2>2
    <3>4. b[k] = s[(n + 1) + k] BY <2>3, <2>4
    <3> QED BY <3>1, <3>2, <3>3, <3>4
  <2>6. a = [k \in 1 .. l - 1 |-> a[k]] /\ b = [k \in 1 .. l - 1 |-> b[k]]
    BY <2>1, <2>2, <2>3, <2>4
  <2>7. a = b BY <2>5, <2>6
  <2>8. (n + 1) + 1 = n + 2 OBVIOUS
  <2>9. q[1] = s[n + 1]
    <3>1. 1 \in 1 .. Len(s) - n BY <1>2, <1>4
    <3> QED BY <1>1, <3>1
  <2> QED BY <2>2, <2>7, <2>8, <2>9, Zenon DEF a, b
<1> QED BY <1>1, <1>3, <1>4, Zenon DEF q

\* buf is the sequences of fs one after the other: the i-th starts behind offs[i].
JoinedAt(buf, fs, offs) ==
    /\ offs \in [1 .. Len(fs) + 1 -> Nat]
    /\ offs[1] = 0 /\ offs[Len(fs) + 1] = Len(buf)
    /\ \A i, j \in 1 .. Len(fs) + 1 : i <= j => offs[i] <= offs[j]
    /\ \A i \in 1 .. Len(fs) :
          /\ offs[i + 1] = offs[i] + Len(fs[i])
          /\ \A k \in 1 .. Len(fs[i]) : buf[offs[i] + k] = fs[i][k]

\* buf is the sequences of fs one after the other, cut somewhere.
Joined(buf, fs) == \E offs \in [1 .. Len(fs) + 1 -> Nat] : JoinedAt(buf, fs, offs)

\* A position in a sequence whose first m elements are taken away.
LEMMA ShiftedBack ==
    \A a, w, m, L \in Nat : \A k \in 1 .. w :
        m <= a /\ a + w <= L => (a - m) + k \in 1 .. L - m /\ m + ((a - m) + k) = a + k
OBVIOUS

\* Nothing is joined of nothing.
LEMMA JoinedNothing ==
    ASSUME NEW S, NEW buf \in Seq(S)
    PROVE  Joined(buf, <<>>) <=> buf = <<>>
<1>1. ASSUME Joined(buf, <<>>) PROVE buf = <<>>
  <2>1. PICK offs \in [1 .. Len(<<>>) + 1 -> Nat] : JoinedAt(buf, <<>>, offs)
    BY <1>1, Zenon DEF Joined
  <2>2. Len(buf) = 0
    BY <2>1 DEF JoinedAt
  <2> QED BY <2>2
<1>2. ASSUME buf = <<>> PROVE Joined(buf, <<>>)
  <2> DEFINE offs == [i \in 1 .. Len(<<>>) + 1 |-> 0]
  <2>1. JoinedAt(buf, <<>>, offs)
    BY <1>2 DEF JoinedAt
  <2>2. offs \in [1 .. Len(<<>>) + 1 -> Nat]
    OBVIOUS
  <2> QED BY <2>1, <2>2, Zenon DEF Joined
<1> QED BY <1>1, <1>2

\* A sequence added to the end.
LEMMA JoinedAppend ==
    ASSUME NEW S, NEW buf \in Seq(S), NEW fs \in Seq(Seq(S)), NEW f \in Seq(S), Joined(buf, fs)
    PROVE  Joined(buf \o f, Append(fs, f))
<1> DEFINE n == Len(fs)
           fs1 == Append(fs, f)
           b1 == buf \o f
<1>1. PICK offs \in [1 .. n + 1 -> Nat] : JoinedAt(buf, fs, offs)
  BY Zenon DEF Joined
<1> DEFINE o1 == [i \in 1 .. n + 2 |-> IF i = n + 2 THEN Len(buf) + Len(f) ELSE offs[i]]
<1>2. n \in Nat /\ Len(fs1) = n + 1 /\ Len(b1) = Len(buf) + Len(f)
  OBVIOUS
<1> DEFINE L == Len(buf)
           M == Len(f)
<1>2a. /\ L \in Nat /\ M \in Nat /\ \A i \in 1 .. n + 1 : offs[i] \in Nat /\ offs[i] <= L
       /\ offs[1] = 0 /\ offs[n + 1] = L
       /\ \A i, j \in 1 .. n + 1 : i <= j => offs[i] <= offs[j]
       /\ \A i \in 1 .. n : offs[i + 1] = offs[i] + Len(fs[i])
       /\ \A i \in 1 .. n : \A k \in 1 .. Len(fs[i]) : buf[offs[i] + k] = fs[i][k]
  <2>1. /\ offs[1] = 0 /\ offs[n + 1] = L
        /\ \A i, j \in 1 .. n + 1 : i <= j => offs[i] <= offs[j]
        /\ \A i \in 1 .. n : offs[i + 1] = offs[i] + Len(fs[i])
        /\ \A i \in 1 .. n : \A k \in 1 .. Len(fs[i]) : buf[offs[i] + k] = fs[i][k]
    BY <1>1, Zenon DEF JoinedAt
  <2>2. L \in Nat /\ M \in Nat
    OBVIOUS
  <2>2a. \A i \in 1 .. n + 1 : offs[i] \in Nat
    BY <1>1
  <2> HIDE DEF L, n
  <2>3. ASSUME NEW i \in 1 .. n + 1 PROVE offs[i] <= L
    <3>1. i <= n + 1 /\ n + 1 \in 1 .. n + 1 BY <1>2
    <3> QED BY <2>1, <3>1
  <2> QED BY <2>1, <2>2, <2>2a, <2>3
<1>2b. \A i \in 1 .. n : fs[i] \in Seq(S) /\ Len(fs[i]) \in Nat
  OBVIOUS
<1>2c. /\ fs1[n + 1] = f /\ \A i \in 1 .. n : fs1[i] = fs[i]
       /\ \A k \in 1 .. M : b1[L + k] = f[k]
       /\ \A k \in 1 .. L : b1[k] = buf[k]
  OBVIOUS
<1>2d. Len(b1) = L + M
  OBVIOUS
<1> HIDE DEF n, L, M, fs1, b1
<1>3. /\ o1 \in [1 .. Len(fs1) + 1 -> Nat] /\ Len(fs1) + 1 = n + 2
  <2>1. n + 1 + 1 = n + 2 BY <1>2
  <2>2. ASSUME NEW i \in 1 .. n + 2 PROVE (IF i = n + 2 THEN L + M ELSE offs[i]) \in Nat
    BY <1>2, <1>2a
  <2> QED BY <1>2, <2>1, <2>2 DEF L, M
<1>3a. /\ o1[n + 2] = L + M
       /\ \A i \in 1 .. n + 1 : o1[i] = offs[i]
  BY <1>2 DEF L, M
<1> HIDE DEF o1
<1>4. o1[1] = 0 /\ o1[Len(fs1) + 1] = Len(b1)
  <2>1. 1 \in 1 .. n + 1 BY <1>2
  <2>2. o1[1] = 0 BY <1>2a, <1>3a, <2>1
  <2>3. o1[Len(fs1) + 1] = L + M BY <1>3, <1>3a
  <2> QED BY <1>2d, <2>2, <2>3
<1>5. ASSUME NEW i \in 1 .. Len(fs1) + 1, NEW j \in 1 .. Len(fs1) + 1, i <= j PROVE o1[i] <= o1[j]
  <2>1. CASE j = n + 2
    <3>1. CASE i = n + 2
      BY <1>2a, <1>3a, <2>1, <3>1
    <3>2. CASE i <= n + 1
      <4>1. i \in 1 .. n + 1 BY <1>2, <1>3, <3>2
      <4>2. o1[i] = offs[i] /\ offs[i] <= L /\ offs[i] \in Nat BY <1>2a, <1>3a, <4>1
      <4>3. o1[j] = L + M BY <1>3a, <2>1
      <4> QED BY <1>2a, <4>2, <4>3
    <3> QED BY <1>2, <1>3, <3>1, <3>2
  <2>2. CASE j <= n + 1
    BY <1>2, <1>2a, <1>3, <1>3a, <1>5, <2>2, SMTT(40)
  <2> QED BY <1>2, <1>3, <2>1, <2>2
<1>6. ASSUME NEW i \in 1 .. Len(fs1)
      PROVE  /\ o1[i + 1] = o1[i] + Len(fs1[i])
             /\ \A k \in 1 .. Len(fs1[i]) : b1[o1[i] + k] = fs1[i][k]
  <2>1. CASE i = n + 1
    <3>1. fs1[i] = f /\ o1[i] = L /\ o1[i + 1] = L + M
      <4>1. i + 1 = n + 2 /\ n + 1 \in 1 .. n + 1 BY <1>2, <2>1
      <4> QED BY <1>2a, <1>2c, <1>3a, <2>1, <4>1
    <3> QED BY <1>2c, <3>1 DEF M
  <2>2. CASE i <= n
    <3>1. i \in 1 .. n /\ i \in 1 .. n + 1 /\ i + 1 \in 1 .. n + 1
      BY <1>2, <2>2
    <3>2. fs1[i] = fs[i] /\ o1[i] = offs[i] /\ o1[i + 1] = offs[i + 1]
      BY <1>2c, <1>3a, <3>1
    <3>3. /\ offs[i + 1] = offs[i] + Len(fs[i]) /\ offs[i + 1] <= L /\ offs[i] \in Nat
          /\ Len(fs[i]) \in Nat
      BY <1>2a, <1>2b, <3>1
    <3>4. ASSUME NEW k \in 1 .. Len(fs[i]) PROVE b1[offs[i] + k] = fs[i][k]
      <4>0. L \in Nat BY <1>2a
      <4>1. offs[i] + k \in 1 .. L
        BY <3>3, <4>0, SMTT(40)
      <4> QED BY <1>2a, <1>2c, <3>1, <4>1
    <3> QED BY <3>2, <3>3, <3>4, SMTT(40)
  <2>3. i = n + 1 \/ i <= n BY <1>2
  <2> QED BY <2>1, <2>2, <2>3, Zenon
<1>7. JoinedAt(b1, fs1, o1)
  BY <1>3, <1>4, <1>5, <1>6 DEF JoinedAt
<1> QED BY <1>3, <1>7, Zenon DEF Joined, b1, fs1

\* The first sequence taken away.
LEMMA JoinedHead ==
    ASSUME NEW S, NEW buf \in Seq(S), NEW fs \in Seq(Seq(S)), fs # <<>>, Joined(buf, fs)
    PROVE  \E rest \in Seq(S) : buf = fs[1] \o rest /\ Joined(rest, Tail(fs))
<1> DEFINE n == Len(fs)
           ft == Tail(fs)
           m == Len(fs[1])
           rest == SubSeq(buf, m + 1, Len(buf))
<1>1. PICK offs \in [1 .. n + 1 -> Nat] : JoinedAt(buf, fs, offs)
  BY Zenon DEF Joined
<1> DEFINE L == Len(buf)
<1>2. /\ n \in Nat /\ n # 0 /\ Len(ft) = n - 1 /\ fs[1] \in Seq(S) /\ m \in Nat /\ L \in Nat
      /\ ft \in Seq(Seq(S))
  OBVIOUS
<1>3. /\ \A i \in 1 .. n - 1 : ft[i] = fs[i + 1]
      /\ \A i \in 1 .. n : fs[i] \in Seq(S) /\ Len(fs[i]) \in Nat
  OBVIOUS
<1>4. /\ offs[1] = 0 /\ offs[n + 1] = L
      /\ \A i, j \in 1 .. n + 1 : i <= j => offs[i] <= offs[j]
      /\ \A i \in 1 .. n : offs[i + 1] = offs[i] + Len(fs[i])
      /\ \A i \in 1 .. n : \A k \in 1 .. Len(fs[i]) : buf[offs[i] + k] = fs[i][k]
  BY <1>1, Zenon DEF JoinedAt
<1>4a. \A i \in 1 .. n + 1 : offs[i] \in Nat
  BY <1>1
<1> HIDE DEF n, L, ft
<1>4b. offs[2] = m /\ \A k \in 1 .. m : buf[k] = fs[1][k]
  <2>1. 1 \in 1 .. n /\ 1 + 1 = 2 BY <1>2
  <2>2. offs[2] = 0 + m BY <1>4, <2>1
  <2>3. ASSUME NEW k \in 1 .. m PROVE buf[0 + k] = fs[1][k] /\ 0 + k = k BY <1>4, <2>1
  <2> HIDE DEF m
  <2> QED BY <1>2, <2>2, <2>3
<1> HIDE DEF m
<1>5. ASSUME NEW i \in 2 .. n + 1 PROVE m <= offs[i] /\ offs[i] <= L
  <2>1. /\ 2 \in 1 .. n + 1 /\ n + 1 \in 1 .. n + 1 /\ i \in 1 .. n + 1 /\ 2 <= i /\ i <= n + 1
    BY <1>2
  <2> QED BY <1>4, <1>4b, <2>1
<1>6. m <= L
  <2>1. n + 1 \in 2 .. n + 1 BY <1>2
  <2> QED BY <1>4, <1>5, <2>1
<1>7. rest \in Seq(S) /\ Len(rest) = L - m /\ \A k \in 1 .. L - m : rest[k] = buf[m + k]
  BY <1>2, <1>6 DEF L
<1> HIDE DEF rest
<1>8. buf = fs[1] \o rest
  <2> DEFINE c == fs[1] \o rest
  <2>1. c \in Seq(S) /\ Len(c) = L
    BY <1>2, <1>6, <1>7 DEF m
  <2>2. ASSUME NEW k \in 1 .. L PROVE c[k] = buf[k]
    <3>1. CASE k <= m
      <4>1. c[k] = fs[1][k] BY <1>2, <1>7, <3>1 DEF m
      <4> QED BY <1>2, <1>4b, <3>1, <4>1
    <3>2. CASE k > m
      <4>1. k - m \in 1 .. L - m /\ m + (k - m) = k BY <1>2, <3>2
      <4>1a. k - m \in 1 .. Len(rest) BY <1>7, <4>1
      <4>1c. PICK f1 \in Seq(S) : f1 = fs[1] BY <1>2
      <4>1d. PICK r1 \in Seq(S) : r1 = rest BY <1>7
      <4>1e. \A j \in 1 .. Len(r1) : (f1 \o r1)[Len(f1) + j] = r1[j]
        BY ONLY f1 \in Seq(S), r1 \in Seq(S)
      <4>1b. \A j \in 1 .. Len(rest) : (fs[1] \o rest)[Len(fs[1]) + j] = rest[j]
        BY ONLY <4>1c, <4>1d, <4>1e, Zenon
      <4>2. c[m + (k - m)] = rest[k - m] BY <4>1a, <4>1b, Zenon DEF m
      <4> HIDE DEF c
      <4>3. rest[k - m] = buf[m + (k - m)] BY <1>7, <4>1
      <4> QED BY <4>1, <4>2, <4>3
    <3> HIDE DEF c
    <3> QED BY <1>2, <3>1, <3>2
  <2> HIDE DEF c
  <2>3. c = buf
    BY <2>1, <2>2, SMTT(40) DEF L
  <2> QED BY <2>3 DEF c
<1> DEFINE o1 == [i \in 1 .. n |-> offs[i + 1] - m]
<1>9a. Len(ft) + 1 = n
  BY <1>2
<1>9b. ASSUME NEW i \in 1 .. n PROVE offs[i + 1] - m \in Nat
  <2>1. i + 1 \in 2 .. n + 1 /\ i + 1 \in 1 .. n + 1 BY <1>2
  <2> QED BY <1>2, <1>4a, <1>5, <2>1
<1>9. o1 \in [1 .. Len(ft) + 1 -> Nat]
  BY <1>9a, <1>9b
<1>9c. \A i \in 1 .. n : o1[i] = offs[i + 1] - m
  OBVIOUS
<1> HIDE DEF o1
<1>10. o1[1] = 0 /\ o1[Len(ft) + 1] = Len(rest)
  <2>1. 1 \in 1 .. n /\ n \in 1 .. n /\ 1 + 1 = 2 BY <1>2
  <2>2. o1[1] = m - m BY <1>4b, <1>9c, <2>1
  <2>3. o1[n] = L - m BY <1>4, <1>9c, <2>1
  <2> QED BY <1>2, <1>7, <1>9a, <2>2, <2>3
<1>11. ASSUME NEW i \in 1 .. Len(ft) + 1, NEW j \in 1 .. Len(ft) + 1, i <= j PROVE o1[i] <= o1[j]
  <2>1. i \in 1 .. n /\ j \in 1 .. n BY <1>9a
  <2>2. i + 1 \in 1 .. n + 1 /\ j + 1 \in 1 .. n + 1 /\ i + 1 <= j + 1 BY <1>2, <1>11, <2>1
  <2>3. offs[i + 1] <= offs[j + 1] /\ offs[i + 1] \in Nat /\ offs[j + 1] \in Nat BY <1>4, <1>4a, <2>2
  <2>4. o1[i] = offs[i + 1] - m /\ o1[j] = offs[j + 1] - m BY <1>9c, <2>1
  <2>5. \A x, y, z \in Nat : x <= y => x - z <= y - z OBVIOUS
  <2>6. m \in Nat BY <1>2
  <2> QED BY <2>3, <2>4, <2>5, <2>6, Zenon
<1>12. ASSUME NEW i \in 1 .. Len(ft)
       PROVE  /\ o1[i + 1] = o1[i] + Len(ft[i])
              /\ \A k \in 1 .. Len(ft[i]) : rest[o1[i] + k] = ft[i][k]
  <2>1. /\ i \in 1 .. n - 1 /\ i \in 1 .. n /\ i + 1 \in 1 .. n /\ i + 1 \in 1 .. n + 1
        /\ (i + 1) + 1 \in 2 .. n + 1 /\ (i + 1) + 1 \in 1 .. n + 1 /\ i + 1 \in 2 .. n + 1
    BY <1>2
  <2> DEFINE a == offs[i + 1]
             b == offs[(i + 1) + 1]
             f == fs[i + 1]
             w == Len(f)
  <2>2. /\ ft[i] = f /\ w \in Nat /\ a \in Nat /\ b \in Nat /\ m <= a /\ b <= L /\ b = a + w
        /\ \A k \in 1 .. w : buf[a + k] = f[k]
        /\ o1[i] = a - m /\ o1[i + 1] = b - m
    BY <1>3, <1>4, <1>4a, <1>5, <1>9c, <2>1
  <2>3. w = Len(ft[i]) BY <2>2
  <2> HIDE DEF a, b, f, w
  <2>4. ASSUME NEW k \in 1 .. w PROVE rest[o1[i] + k] = f[k]
    <3>1. o1[i] + k \in 1 .. L - m /\ m + (o1[i] + k) = a + k
      <4>1. a + w <= L BY <2>2
      <4>1a. a \in Nat /\ w \in Nat /\ m \in Nat /\ L \in Nat /\ m <= a BY <1>2, <2>2
      <4>2. (a - m) + k \in 1 .. L - m /\ m + ((a - m) + k) = a + k
        BY ONLY <4>1, <4>1a, k \in 1 .. w, ShiftedBack
      <4> QED BY <2>2, <4>2
    <3>2. rest[o1[i] + k] = buf[m + (o1[i] + k)]
      BY <1>7, <3>1
    <3> QED BY <2>2, <3>1, <3>2
  <2>5. o1[i + 1] = o1[i] + w
    BY <1>2, <2>2
  <2> QED BY <2>2, <2>3, <2>4, <2>5
<1>13. JoinedAt(rest, ft, o1)
  BY <1>9, <1>10, <1>11, <1>12 DEF JoinedAt
<1>14. Joined(rest, ft)
  BY <1>9, <1>13, Zenon DEF Joined
<1> QED BY <1>7, <1>8, <1>14, Zenon DEF ft

\* Joining is associative.
LEMMA Associative ==
    ASSUME NEW S, NEW s \in Seq(S), NEW t \in Seq(S), NEW u \in Seq(S)
    PROVE  (s \o t) \o u = s \o (t \o u)
OBVIOUS

\* Two sequences with the same elements are the same.
LEMMA SameElements ==
    ASSUME NEW S, NEW s \in Seq(S), NEW t \in Seq(S), Len(s) = Len(t),
           \A k \in 1 .. Len(s) : s[k] = t[k]
    PROVE  s = t
<1>1. s = [k \in 1 .. Len(s) |-> s[k]] /\ t = [k \in 1 .. Len(s) |-> t[k]]
  OBVIOUS
<1> QED BY <1>1, Zenon

\* The first n elements of a sequence.
LEMMA FrontOf ==
    ASSUME NEW S, NEW s \in Seq(S), NEW n \in Nat, n <= Len(s)
    PROVE  /\ SubSeq(s, 1, n) \in Seq(S) /\ Len(SubSeq(s, 1, n)) = n
           /\ \A k \in 1 .. n : SubSeq(s, 1, n)[k] = s[k]
OBVIOUS

\* The front of two joined sequences that ends in the second ...
LEMMA FrontOfJoin ==
    ASSUME NEW S, NEW s \in Seq(S), NEW t \in Seq(S), NEW p \in Nat, p <= Len(t)
    PROVE  SubSeq(s \o t, 1, Len(s) + p) = s \o SubSeq(t, 1, p)
<1> DEFINE j == s \o t
           n == Len(s)
           a == SubSeq(j, 1, n + p)
           f == SubSeq(t, 1, p)
           b == s \o f
<1>1. n \in Nat /\ j \in Seq(S) /\ Len(j) = n + Len(t) /\ Len(t) \in Nat
      /\ (\A k \in 1 .. n : j[k] = s[k]) /\ (\A k \in 1 .. Len(t) : j[n + k] = t[k])
  OBVIOUS
<1>2. f \in Seq(S) /\ Len(f) = p /\ \A k \in 1 .. p : f[k] = t[k]
  BY FrontOf
<1> HIDE DEF j, n
<1>3. a \in Seq(S) /\ Len(a) = n + p /\ \A k \in 1 .. n + p : a[k] = j[k]
  <2>1. n + p \in Nat /\ n + p <= Len(j) BY <1>1
  <2> QED BY <1>1, <2>1, FrontOf
<1> HIDE DEF f, a
<1>4. /\ b \in Seq(S) /\ Len(b) = n + p /\ (\A k \in 1 .. n : b[k] = s[k])
      /\ \A k \in 1 .. p : b[n + k] = f[k]
  <2>1. PICK g \in Seq(S) : g = f BY <1>2
  <2>2. /\ s \o g \in Seq(S) /\ Len(s \o g) = Len(s) + Len(g)
        /\ \A k \in 1 .. Len(s) : (s \o g)[k] = s[k]
        /\ \A k \in 1 .. Len(g) : (s \o g)[Len(s) + k] = g[k]
    BY ONLY s \in Seq(S), g \in Seq(S)
  <2> QED BY <1>2, <2>1, <2>2, Zenon DEF n
<1> HIDE DEF b
<1>5. ASSUME NEW k \in 1 .. n + p PROVE a[k] = b[k]
  <2>1. CASE k \in 1 .. n
    BY <1>1, <1>3, <1>4, <2>1
  <2>2. CASE k > n
    <3> DEFINE i == k - n
    <3>1. i \in 1 .. p /\ i \in 1 .. Len(t) /\ n + i = k BY <1>1, <2>2
    <3> HIDE DEF i
    <3>2. b[n + i] = f[i] /\ f[i] = t[i] /\ j[n + i] = t[i] BY <1>1, <1>2, <1>4, <3>1, Zenon
    <3> QED BY <1>3, <3>1, <3>2, Zenon
  <2> QED BY <1>1, <2>1, <2>2
<1>6. a = b BY <1>3, <1>4, <1>5, SameElements
<1> QED BY <1>6 DEF a, b, j, n, f

\* ... and the back that begins there.
LEMMA BackOfJoin ==
    ASSUME NEW S, NEW s \in Seq(S), NEW t \in Seq(S), NEW p \in Nat
    PROVE  /\ SubSeq(s \o t, Len(s) + p + 1, Len(s \o t)) = SubSeq(t, p + 1, Len(t))
           /\ SubSeq(t, p + 1, Len(t)) \in Seq(S)
<1> DEFINE j == s \o t
           n == Len(s)
           a == SubSeq(j, (n + p) + 1, Len(j))
           b == SubSeq(t, p + 1, Len(t))
<1>1. n \in Nat /\ j \in Seq(S) /\ Len(j) = n + Len(t) /\ Len(t) \in Nat
      /\ (\A k \in 1 .. Len(t) : j[n + k] = t[k])
  OBVIOUS
<1> HIDE DEF j, n
<1>2. CASE p <= Len(t)
  <2>1. b \in Seq(S) /\ Len(b) = Len(t) - p /\ \A k \in 1 .. Len(t) - p : b[k] = t[p + k]
    BY <1>2, BackOf
  <2>2. a \in Seq(S) /\ Len(a) = Len(j) - (n + p) /\ \A k \in 1 .. Len(j) - (n + p) : a[k] = j[(n + p) + k]
    <3>1. n + p \in Nat /\ n + p <= Len(j) BY <1>1, <1>2
    <3> QED BY <1>1, <3>1, BackOf
  <2> HIDE DEF a, b
  <2>3. Len(j) - (n + p) = Len(t) - p BY <1>1
  <2>4. ASSUME NEW k \in 1 .. Len(t) - p PROVE a[k] = b[k]
    <3>1. p + k \in 1 .. Len(t) /\ (n + p) + k = n + (p + k) BY <1>1
    <3>2. j[n + (p + k)] = t[p + k] BY <1>1, <3>1
    <3> QED BY <2>1, <2>2, <2>3, <3>1, <3>2
  <2>5. a = b BY <2>1, <2>2, <2>3, <2>4, SameElements
  <2> QED BY <2>1, <2>5 DEF a, b, j, n
<1>3. CASE p > Len(t)
  <2>1. a = <<>> BY <1>1, <1>3
  <2>2. b = <<>> BY <1>1, <1>3
  <2> QED BY <2>1, <2>2 DEF a, b, j, n
<1>4. p <= Len(t) \/ p > Len(t) BY <1>1
<1> QED BY <1>2, <1>3, <1>4, Zenon

\* s with cells in place of the d elements behind the first p.
Spliced(s, p, d, cells) == (SubSeq(s, 1, p) \o cells) \o SubSeq(s, p + d + 1, Len(s))

\* What is spliced into a sequence is in it, and its length.
LEMMA SplicedLength ==
    ASSUME NEW S, NEW s \in Seq(S), NEW p \in Nat, p <= Len(s), NEW d \in Nat, NEW cells \in Seq(S)
    PROVE  /\ Spliced(s, p, d, cells) \in Seq(S)
           /\ p + Len(cells) <= Len(Spliced(s, p, d, cells))
           /\ p + d <= Len(s) => Len(Spliced(s, p, d, cells)) = (Len(s) - d) + Len(cells)
<1> DEFINE f == SubSeq(s, 1, p)
           b == SubSeq(s, p + d + 1, Len(s))
<1>1. f \in Seq(S) /\ Len(f) = p
  BY FrontOf
<1>2. b \in Seq(S) /\ (p + d <= Len(s) => Len(b) = Len(s) - (p + d))
  OBVIOUS
<1> HIDE DEF f, b
<1>3. PICK g \in Seq(S), c \in Seq(S) : g = f /\ c = b BY <1>1, <1>2
<1>4. (g \o cells) \o c \in Seq(S) /\ Len((g \o cells) \o c) = (Len(g) + Len(cells)) + Len(c)
  BY ONLY g \in Seq(S), c \in Seq(S), cells \in Seq(S)
<1> DEFINE h == (g \o cells) \o c
<1>5. Spliced(s, p, d, cells) = h
  BY <1>3, Zenon DEF Spliced, f, b
<1> HIDE DEF h
<1>6. h \in Seq(S) /\ Len(h) = (p + Len(cells)) + Len(c) /\ (p + d <= Len(s) => Len(c) = Len(s) - (p + d))
  BY <1>1, <1>2, <1>3, <1>4, Zenon DEF h
<1>7. Len(cells) \in Nat /\ Len(c) \in Nat /\ Len(s) \in Nat
  OBVIOUS
<1>8. /\ p + Len(cells) <= Len(h)
      /\ p + d <= Len(s) => Len(h) = (Len(s) - d) + Len(cells)
  <2> DEFINE n == Len(h)
             k == Len(c)
             j == Len(cells)
             l == Len(s)
  <2> HIDE DEF n, k, j, l
  <2>1. j \in Nat /\ k \in Nat /\ l \in Nat /\ n = (p + j) + k /\ (p + d <= l => k = l - (p + d))
    BY <1>6, <1>7, Zenon DEF n, k, j, l
  <2>2. p + j <= n /\ (p + d <= l => n = (l - d) + j)
    BY <2>1
  <2> QED BY <2>2, Zenon DEF n, k, j, l
<1> QED BY <1>5, <1>6, <1>8, Zenon

\* Splicing behind a prefix is splicing into what follows it.
LEMMA WriteBehind ==
    ASSUME NEW S, NEW s \in Seq(S), NEW t \in Seq(S), NEW cells \in Seq(S),
           NEW p \in Nat, p <= Len(t), NEW d \in Nat
    PROVE  Spliced(s \o t, Len(s) + p, d, cells) = s \o Spliced(t, p, d, cells)
<1> DEFINE f == SubSeq(t, 1, p)
           q == p + d
           b == SubSeq(t, q + 1, Len(t))
<1>1. SubSeq(s \o t, 1, Len(s) + p) = s \o f
  BY FrontOfJoin, Zenon
<1>2. q \in Nat /\ Len(s) + q = Len(s) + p + d
  OBVIOUS
<1>3. SubSeq(s \o t, Len(s) + p + d + 1, Len(s \o t)) = b /\ b \in Seq(S)
  <2>1. SubSeq(s \o t, Len(s) + q + 1, Len(s \o t)) = SubSeq(t, q + 1, Len(t))
        /\ SubSeq(t, q + 1, Len(t)) \in Seq(S)
    <3> HIDE DEF q
    <3> QED BY <1>2, BackOfJoin
  <2> HIDE DEF q, b
  <2> QED BY <1>2, <2>1, Zenon DEF b
<1>4. f \in Seq(S)
  BY FrontOf
<1> HIDE DEF f, b
<1>5. ((s \o f) \o cells) \o b = s \o ((f \o cells) \o b)
  <2>1. PICK g \in Seq(S), c \in Seq(S) : g = f /\ c = b BY <1>3, <1>4
  <2>2. (s \o g) \o cells = s \o (g \o cells) /\ g \o cells \in Seq(S)
    BY ONLY s \in Seq(S), g \in Seq(S), cells \in Seq(S)
  <2>3. PICK h \in Seq(S) : h = g \o cells BY <2>2
  <2>4. (s \o h) \o c = s \o (h \o c)
    BY ONLY s \in Seq(S), h \in Seq(S), c \in Seq(S)
  <2> QED BY <2>1, <2>2, <2>3, <2>4, Zenon
<1> QED BY <1>1, <1>3, <1>5, Zenon DEF f, b, q, Spliced

\* Splicing at the end appends, whatever would be covered there.
LEMMA SplicedEnd ==
    ASSUME NEW S, NEW l \in Seq(S), NEW d \in Nat, NEW a \in Seq(S)
    PROVE  Spliced(l, Len(l), d, a) = l \o a
<1>1. SubSeq(l, 1, Len(l)) = l /\ SubSeq(l, Len(l) + d + 1, Len(l)) = <<>> /\ (l \o a) \o <<>> = l \o a
  OBVIOUS
<1> QED BY <1>1, Zenon DEF Spliced

\* Splicing nothing over nothing changes nothing.
LEMMA SplicedNothing ==
    ASSUME NEW S, NEW l \in Seq(S), NEW p \in Nat, p <= Len(l)
    PROVE  Spliced(l, p, 0, <<>>) = l
<1> DEFINE f == SubSeq(l, 1, p)
           b == SubSeq(l, p + 1, Len(l))
<1>1. f \in Seq(S) /\ Len(f) = p /\ \A k \in 1 .. p : f[k] = l[k]
  BY FrontOf, Zenon
<1>2. b \in Seq(S) /\ Len(b) = Len(l) - p /\ \A k \in 1 .. Len(l) - p : b[k] = l[p + k]
  BY BackOf, Zenon
<1> HIDE DEF f, b
<1>3. f \o b = l
  <2>1. PICK g \in Seq(S), h \in Seq(S) : g = f /\ h = b
    BY <1>1, <1>2
  <2>2. g \o h \in Seq(S) /\ Len(g \o h) = Len(g) + Len(h)
        /\ \A k \in 1 .. Len(g) + Len(h) : (g \o h)[k] = IF k <= Len(g) THEN g[k] ELSE h[k - Len(g)]
    BY ONLY g \in Seq(S), h \in Seq(S)
  <2>3. Len(g) = p /\ Len(h) = Len(l) - p /\ Len(l) \in Nat
    BY <1>1, <1>2, <2>1
  <2>4. Len(g \o h) = Len(l)
    BY <2>2, <2>3
  <2>5. ASSUME NEW k \in 1 .. Len(l) PROVE (g \o h)[k] = l[k]
    <3>1. CASE k <= p
      BY <1>1, <2>1, <2>2, <2>3, <3>1
    <3>2. CASE k > p
      <4>1. k - p \in 1 .. Len(l) - p /\ p + (k - p) = k /\ ~(k <= Len(g)) /\ k \in 1 .. Len(g) + Len(h)
        BY <2>3, <3>2
      <4>2. (g \o h)[k] = h[k - p]
        BY <2>2, <2>3, <4>1, Zenon
      <4>3. h[k - p] = l[p + (k - p)]
        BY <1>2, <2>1, <4>1, Zenon
      <4> QED BY <4>1, <4>2, <4>3, Zenon
    <3> QED BY <3>1, <3>2, <2>3
  <2>6. g \o h = l
    <3> DEFINE j == g \o h
    <3> HIDE DEF j
    <3>1. j \in Seq(S) /\ Len(j) = Len(l) /\ \A k \in 1 .. Len(j) : j[k] = l[k]
      BY <2>2, <2>4, <2>5, Zenon DEF j
    <3>2. j = l
      BY <3>1, SameElements, Zenon
    <3> QED BY <3>2, Zenon DEF j
  <2> QED BY <2>1, <2>6, Zenon
<1>4. f \o <<>> = f /\ p + 0 + 1 = p + 1
  BY <1>1
<1> QED BY <1>3, <1>4, Zenon DEF Spliced, f, b

\* A sequence of one.
LEMMA OneElement ==
    ASSUME NEW S, NEW y \in S
    PROVE  <<y>> \in Seq(S) /\ Len(<<y>>) = 1
OBVIOUS

-----------------------------------------------------------------------------
(* Sequences in places.                                                    *)

\* No element is in two places, or twice in one.
Single(F, P) ==
    \A x, y \in P : \A i \in DOMAIN F[x], j \in DOMAIN F[y] : F[x][i] = F[y][j] => x = y /\ i = j

\* An element is in some place.
In(F, P, p) == \E x \in P : \E i \in DOMAIN F[x] : F[x][i] = p

\* An element is appended to one place.
Puts(F, G, P, x, p) == G[x] = Append(F[x], p) /\ \A z \in P \ {x} : G[z] = F[z]

\* The head of one place goes to the end of another.
LEMMA MoveHead ==
    ASSUME NEW P, NEW S, NEW F \in [P -> Seq(S)], NEW G \in [P -> Seq(S)],
           NEW x \in P, NEW y \in P, x # y, F[x] # <<>>,
           G[x] = Tail(F[x]), G[y] = Append(F[y], Head(F[x])),
           \A z \in P \ {x, y} : G[z] = F[z]
    PROVE  /\ Single(F, P) => Single(G, P)
           /\ \A p : In(G, P, p) <=> In(F, P, p)
<1>1. \A i \in DOMAIN G[x] : i + 1 \in DOMAIN F[x] /\ i \in Nat /\ i > 0 /\ G[x][i] = F[x][i + 1]
  OBVIOUS
<1>2. /\ DOMAIN G[y] = DOMAIN F[y] \cup {Len(F[y]) + 1} /\ Len(F[y]) + 1 \notin DOMAIN F[y]
      /\ G[y][Len(F[y]) + 1] = F[x][1]
      /\ \A i \in DOMAIN F[y] : G[y][i] = F[y][i]
  OBVIOUS
<1>3. 1 \in DOMAIN F[x] /\ \A i \in DOMAIN F[x] : i # 1 => i - 1 \in DOMAIN G[x] /\ G[x][i - 1] = F[x][i]
  OBVIOUS
<1> DEFINE Z(z, i) == IF z = x \/ (z = y /\ i = Len(F[y]) + 1) THEN x ELSE z
           I(z, i) == IF z = x THEN i + 1 ELSE IF z = y /\ i = Len(F[y]) + 1 THEN 1 ELSE i
<1>4. \A z \in P : \A i \in DOMAIN G[z] :
          Z(z, i) \in P /\ I(z, i) \in DOMAIN F[Z(z, i)] /\ G[z][i] = F[Z(z, i)][I(z, i)]
  <2> SUFFICES ASSUME NEW z \in P, NEW i \in DOMAIN G[z]
               PROVE  Z(z, i) \in P /\ I(z, i) \in DOMAIN F[Z(z, i)] /\ G[z][i] = F[Z(z, i)][I(z, i)]
    OBVIOUS
  <2>1. CASE z = x
    BY <1>1, <2>1
  <2>2. CASE z = y /\ i = Len(F[y]) + 1
    BY <1>2, <1>3, <2>2
  <2>3. CASE z = y /\ i # Len(F[y]) + 1
    <3>1. i \in DOMAIN F[y] /\ G[y][i] = F[y][i]
      BY <1>2, <2>3
    <3>2. Z(z, i) = y /\ I(z, i) = i
      BY <2>3
    <3>3. QED
      BY <3>1, <3>2, <2>3
  <2>4. CASE z # x /\ z # y
    <3>1. G[z] = F[z] /\ Z(z, i) = z /\ I(z, i) = i
      BY <2>4
    <3>2. QED
      BY <3>1
  <2>5. QED
    BY <2>1, <2>2, <2>3, <2>4
<1>5. \A z, w \in P : \A i \in DOMAIN G[z], j \in DOMAIN G[w] :
          Z(z, i) = Z(w, j) /\ I(z, i) = I(w, j) => z = w /\ i = j
  <2> SUFFICES ASSUME NEW z \in P, NEW w \in P, NEW i \in DOMAIN G[z], NEW j \in DOMAIN G[w],
                      Z(z, i) = Z(w, j), I(z, i) = I(w, j)
               PROVE  z = w /\ i = j
    OBVIOUS
  <2>1. i \in Nat /\ j \in Nat /\ i > 0 /\ j > 0
    BY SMTT(60)
  <2>2. CASE z = x \/ (z = y /\ i = Len(F[y]) + 1)
    <3>1. w = x \/ (w = y /\ j = Len(F[y]) + 1)
      BY <2>2
    <3>2. QED
      BY <2>1, <2>2, <3>1, SMTT(60)
  <2>3. CASE ~(z = x \/ (z = y /\ i = Len(F[y]) + 1))
    <3>1. ~(w = x \/ (w = y /\ j = Len(F[y]) + 1))
      BY <2>3
    <3>2. QED
      BY <2>3, <3>1
  <2>4. QED
    BY <2>2, <2>3
<1> HIDE DEF Z, I
<1>6. ASSUME Single(F, P) PROVE Single(G, P)
  <2> SUFFICES ASSUME NEW z \in P, NEW w \in P, NEW i \in DOMAIN G[z], NEW j \in DOMAIN G[w],
                      G[z][i] = G[w][j]
               PROVE  z = w /\ i = j
    BY DEF Single
  <2>1. /\ Z(z, i) \in P /\ I(z, i) \in DOMAIN F[Z(z, i)]
        /\ Z(w, j) \in P /\ I(w, j) \in DOMAIN F[Z(w, j)]
        /\ F[Z(z, i)][I(z, i)] = F[Z(w, j)][I(w, j)]
    BY <1>4
  <2>2. Z(z, i) = Z(w, j) /\ I(z, i) = I(w, j)
    BY <1>6, <2>1 DEF Single
  <2>3. QED
    BY <1>5, <2>2
<1>7. ASSUME NEW p, In(G, P, p) PROVE In(F, P, p)
  BY <1>4, <1>7 DEF In
<1>8. ASSUME NEW p, In(F, P, p) PROVE In(G, P, p)
  <2>0. PICK z \in P : \E i \in DOMAIN F[z] : F[z][i] = p
    BY <1>8 DEF In
  <2>1. PICK i \in DOMAIN F[z] : F[z][i] = p
    BY <2>0
  <2>2. CASE z = x /\ i = 1
    BY <1>2, <2>1, <2>2 DEF In
  <2>3. CASE z = x /\ i # 1
    BY <1>3, <2>1, <2>3, ZenonT(60) DEF In
  <2>4. CASE z = y
    BY <1>2, <2>1, <2>4, ZenonT(60) DEF In
  <2>5. CASE z # x /\ z # y
    BY <2>1, <2>5 DEF In
  <2>6. QED
    BY <2>2, <2>3, <2>4, <2>5
<1>9. QED
  BY <1>6, <1>7, <1>8

\* Where an element of G was in F.
\* All of one place goes to an empty one.
LEMMA MoveAll ==
    ASSUME NEW P, NEW S, NEW F \in [P -> Seq(S)], NEW G \in [P -> Seq(S)],
           NEW x \in P, NEW y \in P, x # y, F[y] = <<>>, G[x] = <<>>, G[y] = F[x],
           \A z \in P \ {x, y} : G[z] = F[z]
    PROVE  /\ Single(F, P) => Single(G, P)
           /\ \A p : In(G, P, p) <=> In(F, P, p)
<1>1. DOMAIN G[x] = {} /\ DOMAIN F[y] = {}
  OBVIOUS
<1>2. ASSUME Single(F, P) PROVE Single(G, P)
  <2> SUFFICES ASSUME NEW z \in P, NEW w \in P, NEW i \in DOMAIN G[z], NEW j \in DOMAIN G[w],
                      G[z][i] = G[w][j]
               PROVE  z = w /\ i = j
    BY DEF Single
  <2>1. z # x /\ w # x
    BY <1>1
  <2>2. CASE z = y /\ w = y
    BY <1>2, <2>2 DEF Single
  <2>3. CASE z = y /\ w # y
    <3>1. F[x][i] = F[w][j] /\ i \in DOMAIN F[x] /\ j \in DOMAIN F[w]
      BY <2>1, <2>3
    <3>2. QED
      BY <1>2, <2>1, <3>1 DEF Single
  <2>4. CASE z # y /\ w = y
    <3>1. F[z][i] = F[x][j] /\ i \in DOMAIN F[z] /\ j \in DOMAIN F[x]
      BY <2>1, <2>4
    <3>2. QED
      BY <1>2, <2>1, <3>1 DEF Single
  <2>5. CASE z # y /\ w # y
    <3>1. F[z][i] = F[w][j] /\ i \in DOMAIN F[z] /\ j \in DOMAIN F[w]
      BY <2>1, <2>5
    <3>2. QED
      BY <1>2, <3>1 DEF Single
  <2>6. QED
    BY <2>2, <2>3, <2>4, <2>5
<1>3. ASSUME NEW p PROVE In(G, P, p) <=> In(F, P, p)
  BY <1>1, ZenonT(60) DEF In
<1>4. QED
  BY <1>2, <1>3

\* A new element is put at the end of a place.
LEMMA AppendNew ==
    ASSUME NEW P, NEW S, NEW F \in [P -> Seq(S)], NEW G \in [P -> Seq(S)],
           NEW x \in P, NEW p, Puts(F, G, P, x, p), ~In(F, P, p)
    PROVE  /\ Single(F, P) => Single(G, P)
           /\ \A q : In(G, P, q) <=> In(F, P, q) \/ q = p
<1>0. G[x] = Append(F[x], p) /\ \A z \in P \ {x} : G[z] = F[z]
  BY Zenon DEF Puts
<1>1. /\ DOMAIN G[x] = DOMAIN F[x] \cup {Len(F[x]) + 1} /\ Len(F[x]) + 1 \notin DOMAIN F[x]
      /\ G[x][Len(F[x]) + 1] = p
      /\ \A i \in DOMAIN F[x] : G[x][i] = F[x][i]
  BY <1>0
<1> DEFINE n == Len(F[x]) + 1
<1>2. \A z \in P : \A i \in DOMAIN G[z] :
          (z = x /\ i = n) \/ (i \in DOMAIN F[z] /\ G[z][i] = F[z][i] /\ G[z][i] # p)
  BY <1>0, <1>1, Zenon DEF In
<1> HIDE DEF n
<1>3. ASSUME Single(F, P) PROVE Single(G, P)
  <2> SUFFICES ASSUME NEW z \in P, NEW w \in P, NEW i \in DOMAIN G[z], NEW j \in DOMAIN G[w],
                      G[z][i] = G[w][j]
               PROVE  z = w /\ i = j
    BY Zenon DEF Single
  <2>1. G[x][n] = p
    BY <1>0, <1>1, Zenon DEF n
  <2>2. CASE z = x /\ i = n
    BY <1>2, <2>1, <2>2, Zenon
  <2>3. CASE w = x /\ j = n
    BY <1>2, <2>1, <2>3, Zenon
  <2>4. CASE ~(z = x /\ i = n) /\ ~(w = x /\ j = n)
    <3>1. i \in DOMAIN F[z] /\ j \in DOMAIN F[w] /\ F[z][i] = F[w][j]
      BY <1>0, <1>2, <2>4, Zenon
    <3>2. QED
      BY <1>3, <3>1 DEF Single
  <2>5. QED
    BY <2>2, <2>3, <2>4, Zenon
<1>4. ASSUME NEW q PROVE In(G, P, q) <=> In(F, P, q) \/ q = p
  <2>1. In(G, P, q) => In(F, P, q) \/ q = p
    BY <1>0, <1>1, <1>2, ZenonT(60) DEF In, n
  <2>2. ASSUME In(F, P, q) PROVE In(G, P, q)
    <3>1. PICK z \in P : \E i \in DOMAIN F[z] : F[z][i] = q
      BY <2>2, Zenon DEF In
    <3>2. \E i \in DOMAIN G[z] : G[z][i] = q
      BY <1>0, <1>1, <3>1, Zenon
    <3>3. QED
      BY <3>2, Zenon DEF In
  <2>3. In(G, P, p)
    BY <1>0, <1>1, Zenon DEF In
  <2>4. QED
    BY <2>1, <2>2, <2>3, Zenon
<1>5. QED
  BY <1>3, <1>4, Zenon

\* The head of one place is dropped.
LEMMA DropHead ==
    ASSUME NEW P, NEW S, NEW F \in [P -> Seq(S)], NEW G \in [P -> Seq(S)],
           NEW x \in P, F[x] # <<>>, G[x] = Tail(F[x]),
           \A z \in P \ {x} : G[z] = F[z]
    PROVE  /\ Single(F, P) => Single(G, P)
           /\ \A q : In(G, P, q) => In(F, P, q)
           /\ \A q : In(F, P, q) => In(G, P, q) \/ q = Head(F[x])
<1>1. \A i \in DOMAIN G[x] : i + 1 \in DOMAIN F[x] /\ G[x][i] = F[x][i + 1]
  OBVIOUS
<1>2. \A i \in DOMAIN F[x] : i = 1 \/ (i - 1 \in DOMAIN G[x] /\ G[x][i - 1] = F[x][i])
  OBVIOUS
<1>3. F[x][1] = Head(F[x])
  OBVIOUS
<1>4. \A i, j \in DOMAIN G[x] : i + 1 = j + 1 => i = j
  OBVIOUS
<1>5. ASSUME Single(F, P) PROVE Single(G, P)
  <2> SUFFICES ASSUME NEW z \in P, NEW w \in P, NEW i \in DOMAIN G[z], NEW j \in DOMAIN G[w],
                      G[z][i] = G[w][j]
               PROVE  z = w /\ i = j
    BY Zenon DEF Single
  <2>1. CASE z = x /\ w = x
    <3>1. i + 1 = j + 1
      BY <1>1, <1>5, <2>1 DEF Single
    <3>2. QED
      BY <1>4, <2>1, <3>1, Zenon
  <2>2. CASE z = x /\ w # x
    BY <1>1, <1>5, <2>2 DEF Single
  <2>3. CASE z # x /\ w = x
    BY <1>1, <1>5, <2>3 DEF Single
  <2>4. CASE z # x /\ w # x
    BY <1>5, <2>4 DEF Single
  <2>5. QED
    BY <2>1, <2>2, <2>3, <2>4, Zenon
<1>6. ASSUME NEW q, In(G, P, q) PROVE In(F, P, q)
  <2>1. PICK z \in P : \E i \in DOMAIN G[z] : G[z][i] = q
    BY <1>6, Zenon DEF In
  <2>2. CASE z = x
    BY <1>1, <2>1, <2>2, Zenon DEF In
  <2>3. CASE z # x
    BY <2>1, <2>3, Zenon DEF In
  <2>4. QED
    BY <2>2, <2>3, Zenon
<1>7. ASSUME NEW q, In(F, P, q), q # Head(F[x]) PROVE In(G, P, q)
  <2>1. PICK z \in P : \E i \in DOMAIN F[z] : F[z][i] = q
    BY <1>7, Zenon DEF In
  <2>2. \E i \in DOMAIN G[z] : G[z][i] = q
    <3>1. CASE z # x
      BY <2>1, <3>1, Zenon
    <3>2. CASE z = x
      <4>1. PICK i \in DOMAIN F[x] : F[x][i] = q
        BY <2>1, <3>2, Zenon
      <4>2. i - 1 \in DOMAIN G[x] /\ G[x][i - 1] = q
        BY <1>2, <1>3, <1>7, <4>1, Zenon
      <4>3. QED
        BY <3>2, <4>2, Zenon
    <3>3. QED
      BY <3>1, <3>2, Zenon
  <2>3. QED
    BY <2>2, Zenon DEF In
<1>8. QED
  BY <1>5, <1>6, <1>7, Zenon

\* Places are emptied.
LEMMA DropAll ==
    ASSUME NEW P, NEW S, NEW F \in [P -> Seq(S)], NEW G \in [P -> Seq(S)],
           \A z \in P : G[z] = F[z] \/ G[z] = <<>>
    PROVE  /\ Single(F, P) => Single(G, P)
           /\ \A q : In(G, P, q) => In(F, P, q)
<1>1. \A z \in P : \A i \in DOMAIN G[z] : G[z] = F[z]
  OBVIOUS
<1>2. QED
  BY <1>1 DEF Single, In
=============================================================================
