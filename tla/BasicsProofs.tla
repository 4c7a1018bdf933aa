---------------------------- MODULE BasicsProofs ----------------------------
(***************************************************************************)
(* Facts about naturals and sequences that every component's proofs use.   *)
(***************************************************************************)
EXTENDS Basics, SequencesExt, SequenceTheorems, FiniteSetTheorems, WellFoundedInduction, TLAPS

\* A set of natural numbers that is not empty has a least element.
LEMMA LeastNat ==
    ASSUME NEW S \in SUBSET Nat, S # {}
    PROVE  \E m \in S : \A n \in S : m <= n
<1>1. PICK m \in S : \A n \in S : ~ (<<n, m>> \in OpToRel(<, Nat))
  <2>. DEFINE R == OpToRel(<, Nat)
  <2>1. IsWellFoundedOn(R, Nat)
    BY NatLessThanWellFounded
  <2>. HIDE DEF R
  <2>2. \E m \in S : \A n \in S : ~ (<<n, m>> \in R)
    BY <2>1, WFMin
  <2>. QED  BY <2>2 DEF R
<1>2. \A n \in S : ~ (n < m)
  BY <1>1 DEF OpToRel
<1>. QED  BY <1>2

\* Induction, for a set of naturals.
LEMMA InductiveSet ==
    ASSUME NEW S \in SUBSET Nat, 0 \in S, \A n \in S : n + 1 \in S
    PROVE  S = Nat
<1>1. SUFFICES ASSUME Nat \ S # {} PROVE FALSE
  OBVIOUS
<1>2. \E m \in Nat \ S : \A n \in Nat \ S : m <= n
  <2>. DEFINE T == Nat \ S
  <2>1. T \in SUBSET Nat /\ T # {}
    BY <1>1
  <2>. HIDE DEF T
  <2>2. \E m \in T : \A n \in T : m <= n
    BY <2>1, LeastNat
  <2>. QED  BY <2>2 DEF T
<1>3. PICK m \in Nat \ S : \A n \in Nat \ S : m <= n
  BY <1>2
<1>4. m - 1 \in S
  BY <1>3
<1>. QED  BY <1>3, <1>4

\* The enumeration of some of a sequence's places is no longer than it.
LEMMA OrdersFacts ==
    ASSUME NEW S, NEW t \in Seq(S), NEW P \in SUBSET DOMAIN t, NEW f \in Orders(P)
    PROVE  \E n \in 0 .. Len(t) : DOMAIN f = 1 .. n /\ \A k \in DOMAIN f : f[k] \in P
<1>1. Len(t) \in Nat /\ P \subseteq 1 .. Len(t)
  OBVIOUS
<1>2. IsFiniteSet(1 .. Len(t)) /\ Cardinality(1 .. Len(t)) = Len(t)
  <2>1. 1 \in Int /\ Len(t) \in Int
    BY <1>1
  <2>2. IsFiniteSet(1 .. Len(t)) /\ Cardinality(1 .. Len(t)) = IF 1 > Len(t) THEN 0 ELSE Len(t) - 1 + 1
    BY <2>1, FS_Interval
  <2>. QED  BY <1>1, <2>2
<1>3. IsFiniteSet(P) /\ Cardinality(P) <= Len(t)
  BY <1>1, <1>2, FS_Subset
<1>4. Cardinality(P) \in 0 .. Len(t)
  BY <1>1, <1>3, FS_CardinalityType
<1>. QED  BY <1>4 DEF Orders

\* How many naturals there are up to a bound, counted from 0 or from 1.
LEMMA UpToFacts ==
    ASSUME NEW n \in Nat
    PROVE  /\ IsFiniteSet(0 .. n - 1) /\ Cardinality(0 .. n - 1) = n
           /\ IsFiniteSet(1 .. n) /\ Cardinality(1 .. n) = n
<1>1. 0 \in Int /\ 1 \in Int /\ n \in Int /\ n - 1 \in Int
  OBVIOUS
<1>2. /\ IsFiniteSet(0 .. n - 1)
      /\ Cardinality(0 .. n - 1) = IF 0 > n - 1 THEN 0 ELSE n - 1 - 0 + 1
  BY <1>1, FS_Interval
<1>3. /\ IsFiniteSet(1 .. n)
      /\ Cardinality(1 .. n) = IF 1 > n THEN 0 ELSE n - 1 + 1
  BY <1>1, FS_Interval
<1>. QED  BY <1>2, <1>3

\* The enumeration of finitely many places reaches each of them.
LEMMA OrdersOnto ==
    ASSUME NEW P, IsFiniteSet(P), P \subseteq Nat, NEW f \in Orders(P)
    PROVE  \A p \in P : \E k \in DOMAIN f : f[k] = p
<1>. DEFINE n == Cardinality(P)
<1>1. n \in Nat
  BY FS_CardinalityType
<1>2. f \in [1 .. n -> P] /\ \A i, j \in 1 .. n : i < j => f[i] < f[j]
  BY DEF Orders
<1>. HIDE DEF n
<1>3. ASSUME NEW i \in 1 .. n, NEW j \in 1 .. n, f[i] = f[j] PROVE i = j
  <2>1. f[i] \in Nat /\ f[j] \in Nat
    BY <1>2
  <2>. QED  BY <1>1, <1>2, <1>3, <2>1
<1>4. f \in Injection(1 .. n, P)
  BY <1>2, <1>3 DEF Injection, IsInjective
<1>5. Cardinality(1 .. n) = Cardinality(P)
  <2>1. Cardinality(1 .. n) = n
    BY <1>1, FS_Interval
  <2>. QED  BY <2>1 DEF n
<1>6. f \in Surjection(1 .. n, P)
  BY <1>4, <1>5, FS_Injection
<1>. QED  BY <1>2, <1>6 DEF Surjection

\* Finitely many places can be put in order.
LEMMA OrdersExist ==
    ASSUME NEW n \in Nat, NEW P \in SUBSET (0 .. n)
    PROVE  Orders(P) # {}
<1>. DEFINE S == {m \in Nat : \A Q \in SUBSET (0 .. m - 1) : Orders(Q) # {}}
<1>1. S \in SUBSET Nat
  OBVIOUS
<1>2. 0 \in S
  <2>1. ASSUME NEW Q \in SUBSET (0 .. 0 - 1) PROVE Orders(Q) # {}
    <3>1. Q = {} /\ Cardinality(Q) = 0
      <4>1. Q = {}
        OBVIOUS
      <4>. QED  BY <4>1, FS_EmptySet
    <3>2. [k \in 1 .. 0 |-> k] \in Orders(Q)
      BY <3>1 DEF Orders
    <3>. QED  BY <3>2
  <2>. QED  BY <2>1
<1>3. ASSUME NEW m \in S PROVE m + 1 \in S
  <2>1. ASSUME NEW Q \in SUBSET (0 .. m + 1 - 1) PROVE Orders(Q) # {}
    <3>. DEFINE R == Q \ {m}
                c == Cardinality(R)
    <3>1. R \in SUBSET (0 .. m - 1)
      BY <1>1
    <3>2. PICK f \in Orders(R) : TRUE
      BY <3>1
    <3>3. m \in Nat /\ IsFiniteSet(R) /\ c \in Nat
      <4>1. m \in Nat /\ m - 1 \in Int /\ 0 \in Int
        BY <1>1
      <4>2. IsFiniteSet(0 .. m - 1)
        BY <4>1, FS_Interval
      <4>3. IsFiniteSet(R)
        <5>. HIDE DEF R
        <5>. QED  BY <3>1, <4>2, FS_Subset
      <4>. HIDE DEF R
      <4>. QED  BY <4>1, <4>3, FS_CardinalityType
    <3>4. CASE m \notin Q
      BY <3>2, <3>4
    <3>5. CASE m \in Q
      <4>1. Q = R \cup {m} /\ m \notin R
        BY <3>5
      <4>2. Cardinality(Q) = c + 1
        BY <3>3, <4>1, FS_AddElement
      <4>3. /\ f \in [1 .. c -> R]
            /\ \A i, j \in 1 .. c : i < j => f[i] < f[j]
        BY <3>2 DEF Orders
      <4>. DEFINE g == [k \in 1 .. c + 1 |-> IF k = c + 1 THEN m ELSE f[k]]
      <4>. HIDE DEF c, R
      <4>4. g \in [1 .. c + 1 -> Q]
        BY <3>3, <3>5, <4>1, <4>3
      <4>5. ASSUME NEW i \in 1 .. c + 1, NEW j \in 1 .. c + 1, i < j PROVE g[i] < g[j]
        <5>1. i \in 1 .. c /\ f[i] \in 0 .. m - 1
          <6>1. i \in 1 .. c
            BY <3>3, <4>5
          <6>. QED  BY <3>1, <4>3, <6>1
        <5>2. CASE j = c + 1
          BY <5>1, <5>2, <3>3
        <5>3. CASE j # c + 1
          BY <5>1, <5>3, <4>3, <4>5, <3>3
        <5>. QED  BY <5>2, <5>3
      <4>6. g \in Orders(Q)
        <5>. HIDE DEF g
        <5>1. DOMAIN g = 1 .. c + 1
          BY <4>4
        <5>. QED  BY <4>2, <4>4, <4>5, <5>1 DEF Orders
      <4>. QED  BY <4>6
    <3>. QED  BY <3>4, <3>5
  <2>. QED  BY <2>1
<1>4. S = Nat
  <2>. HIDE DEF S
  <2>. QED  BY <1>1, <1>2, <1>3, InductiveSet
<1>5. n + 1 \in S /\ P \in SUBSET (0 .. n + 1 - 1)
  BY <1>4
<1>. QED  BY <1>5

\* What taking one element out leaves: the others, in their order.
LEMMA RemoveAtFacts ==
    ASSUME NEW S, NEW t \in Seq(S), NEW i \in 1 .. Len(t)
    PROVE  /\ RemoveAt(t, i) \in Seq(S)
           /\ Len(RemoveAt(t, i)) = Len(t) - 1
           /\ \A k \in 1 .. Len(t) - 1 : RemoveAt(t, i)[k] = t[IF k < i THEN k ELSE k + 1]
<1>. DEFINE a == SubSeq(t, 1, i - 1)
            b == SubSeq(t, i + 1, Len(t))
<1>1. /\ a \in Seq(S) /\ Len(a) = i - 1
      /\ \A k \in 1 .. i - 1 : a[k] = t[k]
  <2>1. /\ a \in Seq(S) /\ Len(a) = IF 1 <= i - 1 THEN i - 1 - 1 + 1 ELSE 0
        /\ \A k \in 1 .. i - 1 - 1 + 1 : a[k] = t[1 + k - 1]
    BY SubSeqProperties
  <2>. QED  BY <2>1
<1>2. /\ b \in Seq(S) /\ Len(b) = Len(t) - i
      /\ \A k \in 1 .. Len(t) - i : b[k] = t[k + i]
  <2>1. /\ b \in Seq(S) /\ Len(b) = IF i + 1 <= Len(t) THEN Len(t) - (i + 1) + 1 ELSE 0
        /\ \A k \in 1 .. Len(t) - (i + 1) + 1 : b[k] = t[i + 1 + k - 1]
    BY SubSeqProperties
  <2>. QED  BY <2>1
<1>. HIDE DEF a, b
<1>3. RemoveAt(t, i) = a \o b
  BY DEF RemoveAt, a, b
<1>4. /\ a \o b \in Seq(S) /\ Len(a \o b) = Len(t) - 1
      /\ \A k \in 1 .. Len(t) - 1 : (a \o b)[k] = IF k <= i - 1 THEN a[k] ELSE b[k - (i - 1)]
  <2>1. /\ a \o b \in Seq(S) /\ Len(a \o b) = Len(a) + Len(b)
        /\ \A k \in 1 .. Len(a) + Len(b) : (a \o b)[k] = IF k <= Len(a) THEN a[k] ELSE b[k - Len(a)]
    BY <1>1, <1>2, ConcatProperties
  <2>2. Len(a) = i - 1 /\ Len(a) + Len(b) = Len(t) - 1
    BY <1>1, <1>2
  <2>. QED  BY <2>1, <2>2
<1>5. \A k \in 1 .. Len(t) - 1 : (a \o b)[k] = t[IF k < i THEN k ELSE k + 1]
  <2>. TAKE k \in 1 .. Len(t) - 1
  <2>1. CASE k < i
    BY <1>1, <1>4, <2>1
  <2>2. CASE ~(k < i)
    BY <1>2, <1>4, <2>2
  <2>. QED  BY <2>1, <2>2
<1>. QED  BY <1>3, <1>4, <1>5

\* The last n elements are no more than n, and elements.
LEMMA LastOnesFacts ==
    ASSUME NEW S, NEW s \in Seq(S), NEW n \in Nat
    PROVE  /\ LastOnes(s, n) \in Seq(S)
           /\ Len(LastOnes(s, n)) = Lesser(Len(s), n)
<1>. DEFINE a == SatSub(Len(s), n)
<1>1. Len(s) \in Nat /\ a \in Nat /\ a <= Len(s) /\ Len(s) - a = Lesser(Len(s), n)
  BY DEF SatSub, Lesser
<1>2. SubSeq(s, a + 1, Len(s)) \in Seq(S) /\ Len(SubSeq(s, a + 1, Len(s))) = Len(s) - a
  <2>. HIDE DEF a
  <2>. QED  BY <1>1
<1>. QED  BY <1>1, <1>2 DEF LastOnes

\* They are those at the end, in their order.
LEMMA LastOnesAt ==
    ASSUME NEW S, NEW s \in Seq(S), NEW n \in Nat, NEW k \in 1 .. Lesser(Len(s), n)
    PROVE  LastOnes(s, n)[k] = s[SatSub(Len(s), n) + k]
<1>. DEFINE a == SatSub(Len(s), n)
<1>1. Len(s) \in Nat /\ a \in Nat /\ a <= Len(s) /\ Len(s) - a = Lesser(Len(s), n)
  BY DEF SatSub, Lesser
<1>. HIDE DEF a
<1>2. \A i \in 1 .. Len(s) - (a + 1) + 1 : SubSeq(s, a + 1, Len(s))[i] = s[a + 1 + i - 1]
  BY <1>1, SubSeqProperties
<1>3. k \in 1 .. Len(s) - (a + 1) + 1 /\ a + 1 + k - 1 = a + k
  BY <1>1
<1>4. SubSeq(s, a + 1, Len(s))[k] = s[a + k]
  BY <1>2, <1>3
<1>. QED  BY <1>4 DEF LastOnes, a

\* What is no longer than the limit is left as it is.
LEMMA LastOnesAll ==
    ASSUME NEW S, NEW s \in Seq(S), NEW n \in Nat, Len(s) <= n
    PROVE  LastOnes(s, n) = s
<1>1. SatSub(Len(s), n) = 0
  BY DEF SatSub
<1>. QED  BY <1>1, SubSeqFull DEF LastOnes

\* Dropping from the front first changes nothing in what is left once an element
\* has come in at the back.
LEMMA LastOnesAppend ==
    ASSUME NEW S, NEW s \in Seq(S), NEW x \in S, NEW n \in Nat
    PROVE  LastOnes(LastOnes(s, n) \o <<x>>, n) = LastOnes(s \o <<x>>, n)
<1>. DEFINE t == LastOnes(s, n)
            u == t \o <<x>>
            v == s \o <<x>>
            d == SatSub(Len(s), n)
<1>1. Len(s) \in Nat /\ d \in Nat
  BY DEF SatSub
<1>2. t \in Seq(S) /\ Len(t) = Lesser(Len(s), n) /\ Len(t) = Len(s) - d
  <2>1. Lesser(Len(s), n) = Len(s) - d
    BY <1>1 DEF Lesser, SatSub
  <2>. QED  BY <2>1, LastOnesFacts
<1>3. \A k \in 1 .. Len(t) : t[k] = s[d + k]
  BY <1>2, LastOnesAt
<1>4. <<x>> \in Seq(S) /\ Len(<<x>>) = 1 /\ <<x>>[1] = x
  OBVIOUS
<1>. HIDE DEF t, d
<1>5. /\ u \in Seq(S) /\ Len(u) = Len(t) + 1
      /\ \A k \in 1 .. Len(t) + 1 : u[k] = IF k <= Len(t) THEN t[k] ELSE <<x>>[k - Len(t)]
  BY <1>2, <1>4, ConcatProperties
<1>6. /\ v \in Seq(S) /\ Len(v) = Len(s) + 1
      /\ \A k \in 1 .. Len(s) + 1 : v[k] = IF k <= Len(s) THEN s[k] ELSE <<x>>[k - Len(s)]
  BY <1>4, ConcatProperties
<1>. HIDE DEF u, v
<1>7. \A k \in 1 .. Len(u) : u[k] = v[d + k] /\ d + k \in 1 .. Len(v)
  <2>1. ASSUME NEW k \in 1 .. Len(u) PROVE u[k] = v[d + k] /\ d + k \in 1 .. Len(v)
    <3>1. Len(t) \in Nat /\ Len(s) = d + Len(t) /\ k \in Nat /\ k <= Len(t) + 1
      BY <1>1, <1>2, <1>5
    <3>2. CASE k <= Len(t)
      <4>1. d + k \in 1 .. Len(s) + 1 /\ d + k <= Len(s) /\ k \in 1 .. Len(t)
        BY <1>1, <3>1, <3>2
      <4>. QED  BY <1>3, <1>5, <1>6, <3>2, <4>1
    <3>3. CASE ~(k <= Len(t))
      <4>1. k = Len(t) + 1 /\ d + k = Len(s) + 1
        BY <1>1, <3>1, <3>3
      <4>2. u[k] = x
        <5>1. k - Len(t) = 1 /\ k \in 1 .. Len(t) + 1
          BY <3>1, <4>1
        <5>. QED  BY <1>4, <1>5, <3>3, <5>1
      <4>3. v[Len(s) + 1] = x
        <5>1. Len(s) + 1 - Len(s) = 1 /\ Len(s) + 1 \in 1 .. Len(s) + 1 /\ ~(Len(s) + 1 <= Len(s))
          BY <1>1
        <5>. QED  BY <1>4, <1>6, <5>1
      <4>. QED  BY <1>1, <1>6, <4>1, <4>2, <4>3
    <3>. QED  BY <3>2, <3>3
  <2>. QED  BY <2>1
<1>8. /\ d + SatSub(Len(u), n) = SatSub(Len(v), n) /\ SatSub(Len(u), n) \in Nat
      /\ Lesser(Len(u), n) = Lesser(Len(v), n)
      /\ Lesser(Len(u), n) + SatSub(Len(u), n) = Len(u)
  <2>1. Len(u) = (Len(s) - d) + 1 /\ Len(v) = Len(s) + 1 /\ d = IF Len(s) < n THEN 0 ELSE Len(s) - n
    BY <1>2, <1>5, <1>6 DEF d, SatSub
  <2>2. CASE Len(s) < n
    <3>1. d = 0 /\ Len(u) = Len(s) + 1 /\ Len(v) = Len(s) + 1
      BY <1>1, <2>1, <2>2
    <3>. QED  BY <1>1, <2>2, <3>1 DEF SatSub, Lesser
  <2>3. CASE ~(Len(s) < n)
    <3>1. d = Len(s) - n /\ Len(u) = n + 1 /\ Len(v) = Len(s) + 1
      BY <1>1, <2>1, <2>3
    <3>. QED  BY <1>1, <2>3, <3>1 DEF SatSub, Lesser
  <2>. QED  BY <2>2, <2>3
<1>9. /\ LastOnes(u, n) \in Seq(S) /\ Len(LastOnes(u, n)) = Lesser(Len(u), n)
      /\ LastOnes(v, n) \in Seq(S) /\ Len(LastOnes(v, n)) = Lesser(Len(u), n)
  BY <1>5, <1>6, <1>8, LastOnesFacts
<1>10. ASSUME NEW k \in 1 .. Lesser(Len(u), n)
       PROVE  LastOnes(u, n)[k] = LastOnes(v, n)[k]
  <2>1. LastOnes(u, n)[k] = u[SatSub(Len(u), n) + k]
    BY <1>5, LastOnesAt
  <2>2. LastOnes(v, n)[k] = v[SatSub(Len(v), n) + k]
    BY <1>6, <1>8, LastOnesAt
  <2>3. Len(u) \in Nat /\ Lesser(Len(u), n) \in Nat
    BY <1>2, <1>5 DEF Lesser
  <2>4. SatSub(Len(u), n) + k \in 1 .. Len(u) /\ d + (SatSub(Len(u), n) + k) = SatSub(Len(v), n) + k
    BY <1>1, <1>8, <2>3
  <2>. QED  BY <1>7, <2>1, <2>2, <2>4
<1>11. LastOnes(u, n) = LastOnes(v, n)
  BY <1>9, <1>10, SeqEqual
<1>. QED  BY <1>11 DEF u, v, t

\* Dropping from the first of two sequences is dropping from both in a row.
LEMMA LastOnesJoin ==
    ASSUME NEW S, NEW s \in Seq(S), NEW t \in Seq(S), NEW n \in Nat
    PROVE  LastOnes(s, n) \o t = LastOnes(s \o t, n + Len(t))
<1>. DEFINE a == LastOnes(s, n)
            u == a \o t
            v == s \o t
            w == LastOnes(v, n + Len(t))
            d == SatSub(Len(s), n)
<1>1. Len(s) \in Nat /\ Len(t) \in Nat /\ d \in Nat /\ d <= Len(s)
  BY DEF SatSub
<1>2. a \in Seq(S) /\ Len(a) = Lesser(Len(s), n) /\ Len(a) = Len(s) - d
  <2>1. Lesser(Len(s), n) = Len(s) - d
    BY <1>1 DEF Lesser, SatSub
  <2>. QED  BY <2>1, LastOnesFacts
<1>3. \A k \in 1 .. Len(a) : a[k] = s[d + k]
  BY <1>2, LastOnesAt
<1>. HIDE DEF a, d
<1>4. /\ u \in Seq(S) /\ Len(u) = Len(a) + Len(t)
      /\ \A k \in 1 .. Len(a) + Len(t) : u[k] = IF k <= Len(a) THEN a[k] ELSE t[k - Len(a)]
  BY <1>2, ConcatProperties
<1>5. /\ v \in Seq(S) /\ Len(v) = Len(s) + Len(t)
      /\ \A k \in 1 .. Len(s) + Len(t) : v[k] = IF k <= Len(s) THEN s[k] ELSE t[k - Len(s)]
  BY ConcatProperties
<1>. HIDE DEF u, v
<1>6. /\ n + Len(t) \in Nat /\ SatSub(Len(v), n + Len(t)) = d
      /\ Lesser(Len(v), n + Len(t)) = Len(u)
  <2>1. Len(u) = (Len(s) - d) + Len(t) /\ Len(v) = Len(s) + Len(t) /\ d = IF Len(s) < n THEN 0 ELSE Len(s) - n
    BY <1>2, <1>4, <1>5 DEF d, SatSub
  <2>. DEFINE x == Len(s)
              y == Len(t)
              z == Len(u)
              q == Len(v)
  <2>. HIDE DEF x, y, z, q
  <2>2. /\ x \in Nat /\ y \in Nat /\ d \in Nat
        /\ z = (x - d) + y /\ q = x + y /\ d = IF x < n THEN 0 ELSE x - n
    BY <1>1, <2>1 DEF x, y, z, q
  <2>3. n + y \in Nat /\ SatSub(q, n + y) = d /\ Lesser(q, n + y) = z
    BY <2>2 DEF SatSub, Lesser
  <2>. QED  BY <2>3 DEF y, z, q
<1>7. w \in Seq(S) /\ Len(w) = Len(u)
  BY <1>5, <1>6, LastOnesFacts
<1>8. ASSUME NEW k \in 1 .. Len(u) PROVE u[k] = w[k]
  <2>1. w[k] = v[d + k]
    <3>1. k \in 1 .. Lesser(Len(v), n + Len(t)) /\ v \in Seq(S) /\ n + Len(t) \in Nat
      BY <1>5, <1>6
    <3>2. w[k] = v[SatSub(Len(v), n + Len(t)) + k]
      BY <3>1, LastOnesAt
    <3>. QED  BY <1>6, <3>2
  <2>2. Len(a) \in Nat /\ Len(s) = d + Len(a) /\ k \in 1 .. Len(a) + Len(t)
    BY <1>1, <1>2, <1>4
  <2>3. d + k \in 1 .. Len(s) + Len(t) /\ (k <= Len(a) <=> d + k <= Len(s)) /\ (d + k) - Len(s) = k - Len(a)
    BY <1>1, <2>2
  <2>. HIDE DEF w
  <2>4. w[k] = IF k <= Len(a) THEN s[d + k] ELSE t[k - Len(a)]
    <3>1. v[d + k] = IF d + k <= Len(s) THEN s[d + k] ELSE t[(d + k) - Len(s)]
      BY <1>5, <2>3
    <3>2. (d + k) - Len(s) = k - Len(a) /\ (k <= Len(a) <=> d + k <= Len(s))
      BY <2>3
    <3>. QED  BY <2>1, <3>1, <3>2, Zenon
  <2>5. u[k] = IF k <= Len(a) THEN a[k] ELSE t[k - Len(a)]
    BY <1>4, <2>2
  <2>6. k <= Len(a) => a[k] = s[d + k]
    BY <1>3, <2>2
  <2>. QED  BY <2>4, <2>5, <2>6
<1>. HIDE DEF w
<1>9. u = w
  BY <1>4, <1>7, <1>8, SeqEqual
<1>. QED  BY <1>9 DEF u, v, w, a

\* Sequences are joined one after the other.
LEMMA FlattenRuns ==
    ASSUME NEW S, NEW ss \in Seq(Seq(S)), ss # << >>
    PROVE  \E f : /\ FlattenSeq(ss) = f[Len(ss)]
                  /\ f[1] = ss[1]
                  /\ \A k \in 1 .. Len(ss) - 1 : f[k + 1] = f[k] \o ss[k + 1]
<1>. DEFINE n == Len(ss)
            Run(f, m) == f = [i \in 1 .. m |-> IF i = 1 THEN ss[i] ELSE f[i - 1] \o ss[i]]
            T == {m \in Nat : \E f : Run(f, m + 1)}
<1>1. n \in Nat /\ n # 0
  OBVIOUS
<1>2. T \in SUBSET Nat
  OBVIOUS
<1>3. 0 \in T
  <2>. DEFINE f == [i \in 1 .. 0 + 1 |-> ss[1]]
  <2>1. f = [i \in 1 .. 0 + 1 |-> IF i = 1 THEN ss[i] ELSE f[i - 1] \o ss[i]]
    <3>1. \A i \in 1 .. 0 + 1 : i = 1
      OBVIOUS
    <3>. QED  BY <3>1
  <2>2. Run(f, 0 + 1)
    BY <2>1
  <2>. QED  BY <2>2
<1>4. ASSUME NEW m \in T PROVE m + 1 \in T
  <2>1. PICK f : Run(f, m + 1)
    OBVIOUS
  <2>2. m \in Nat /\ m + 1 \in Nat
    OBVIOUS
  <2>. DEFINE l == m + 1 + 1
              g == [i \in 1 .. l |-> IF i = l THEN f[m + 1] \o ss[l] ELSE f[i]]
  <2>3. ASSUME NEW i \in 1 .. l
        PROVE  g[i] = IF i = 1 THEN ss[i] ELSE g[i - 1] \o ss[i]
    <3>1. CASE i = l
      <4>1. g[m + 1] = f[m + 1] /\ i # 1 /\ i - 1 = m + 1
        BY <2>2, <3>1
      <4>2. g[i] = f[m + 1] \o ss[l]
        BY <3>1
      <4>. QED  BY <3>1, <4>1, <4>2
    <3>2. CASE i # l
      <4>1. i \in 1 .. m + 1 /\ g[i] = f[i]
        BY <2>2, <3>2
      <4>2. f[i] = IF i = 1 THEN ss[i] ELSE f[i - 1] \o ss[i]
        BY <2>1, <4>1
      <4>3. i # 1 => i - 1 \in 1 .. l /\ i - 1 # l
        BY <2>2, <4>1
      <4>4. i # 1 => g[i - 1] = f[i - 1]
        BY <4>3
      <4>. HIDE DEF g
      <4>. QED  BY <4>1, <4>2, <4>4
    <3>. QED  BY <3>1, <3>2
  <2>4. g = [i \in 1 .. l |-> g[i]]
    OBVIOUS
  <2>5. Run(g, l)
    <3>. HIDE DEF g
    <3>. QED  BY <2>3, <2>4
  <2>. QED  BY <2>2, <2>5
<1>5. n - 1 \in T
  <2>1. T = Nat
    <3>. HIDE DEF T
    <3>. QED  BY <1>2, <1>3, <1>4, InductiveSet
  <2>2. n - 1 \in Nat
    BY <1>1
  <2>. HIDE DEF T
  <2>. QED  BY <2>1, <2>2
<1>. DEFINE h == CHOOSE f : Run(f, n)
<1>6. Run(h, n)
  <2>1. n - 1 + 1 = n
    BY <1>1
  <2>2. \E f : Run(f, n - 1 + 1)
    BY <1>5
  <2>3. \E f : Run(f, n)
    BY <2>1, <2>2
  <2>. QED  BY <2>3
<1>7. h = [i \in 1 .. n |-> IF i = 1 THEN ss[i] ELSE h[i - 1] \o ss[i]]
  BY <1>6
<1>8. FlattenSeq(ss) = h[n]
  BY <1>1 DEF FlattenSeq
<1>. HIDE DEF h
<1>9. h[1] = ss[1]
  BY <1>1, <1>7
<1>10. ASSUME NEW k \in 1 .. n - 1 PROVE h[k + 1] = h[k] \o ss[k + 1]
  <2>1. k + 1 \in 1 .. n /\ k + 1 # 1 /\ (k + 1) - 1 = k
    BY <1>1
  <2>. QED  BY <1>7, <2>1
<1>. QED  BY <1>8, <1>9, <1>10

\* So their elements are those of the sequences.
LEMMA FlattenType ==
    ASSUME NEW S, NEW ss \in Seq(Seq(S))
    PROVE  FlattenSeq(ss) \in Seq(S)
<1>1. CASE ss = << >>
  BY <1>1 DEF FlattenSeq
<1>2. CASE ss # << >>
  <2>1. PICK f : /\ FlattenSeq(ss) = f[Len(ss)]
                 /\ f[1] = ss[1]
                 /\ \A k \in 1 .. Len(ss) - 1 : f[k + 1] = f[k] \o ss[k + 1]
    BY <1>2, FlattenRuns
  <2>2. Len(ss) \in Nat /\ Len(ss) # 0
    BY <1>2
  <2>. DEFINE T == {k \in Nat : k + 1 <= Len(ss) => f[k + 1] \in Seq(S)}
  <2>3. T \in SUBSET Nat /\ 0 \in T
    BY <2>1, <2>2
  <2>4. ASSUME NEW k \in T PROVE k + 1 \in T
    <3>1. ASSUME k + 1 + 1 <= Len(ss) PROVE f[k + 1 + 1] \in Seq(S)
      <4>1. f[k + 1] \in Seq(S) /\ k + 1 \in 1 .. Len(ss) - 1 /\ k + 1 + 1 \in 1 .. Len(ss)
        BY <2>2, <3>1
      <4>2. f[k + 1 + 1] = f[k + 1] \o ss[k + 1 + 1]
        BY <2>1, <4>1
      <4>3. ss[k + 1 + 1] \in Seq(S)
        BY <4>1
      <4>. QED  BY <4>1, <4>2, <4>3
    <3>. QED  BY <3>1
  <2>5. Len(ss) - 1 \in T
    <3>1. T = Nat
      <4>. HIDE DEF T
      <4>. QED  BY <2>3, <2>4, InductiveSet
    <3>2. Len(ss) - 1 \in Nat
      BY <2>2
    <3>. HIDE DEF T
    <3>. QED  BY <3>1, <3>2
  <2>. QED  BY <2>1, <2>2, <2>5
<1>. QED  BY <1>1, <1>2

\* Sequences that begin with the elements of one, each alone, begin with it joined.
LEMMA FlattenStarts ==
    ASSUME NEW S, NEW ss \in Seq(Seq(S)), NEW s \in Seq(S), Len(s) <= Len(ss),
           \A i \in 1 .. Len(s) : ss[i] = << s[i] >>
    PROVE  /\ Len(s) <= Len(FlattenSeq(ss))
           /\ \A i \in 1 .. Len(s) : FlattenSeq(ss)[i] = s[i]
<1>. DEFINE n == Len(ss)
            t == FlattenSeq(ss)
<1>1. n \in Nat /\ Len(s) \in Nat
  OBVIOUS
<1>2. CASE ss = << >>
  <2>1. Len(s) = 0 /\ t = << >>
    BY <1>1, <1>2 DEF FlattenSeq
  <2>. QED  BY <2>1
<1>3. CASE ss # << >>
  <2>1. PICK f : /\ FlattenSeq(ss) = f[Len(ss)]
                 /\ f[1] = ss[1]
                 /\ \A k \in 1 .. Len(ss) - 1 : f[k + 1] = f[k] \o ss[k + 1]
    BY <1>3, FlattenRuns
  <2>. DEFINE Shown(k) == /\ f[k] \in Seq(S) /\ Len(f[k]) \in Nat
                          /\ Lesser(k, Len(s)) <= Len(f[k])
                          /\ (k <= Len(s) => Len(f[k]) = k)
                          /\ \A i \in 1 .. Lesser(k, Len(s)) : f[k][i] = s[i]
              T == {k \in Nat : k + 1 <= n => Shown(k + 1)}
  <2>2. n # 0
    BY <1>3
  <2>3. T \in SUBSET Nat /\ 0 \in T
    <3>1. Shown(1)
      <4>1. f[1] = ss[1] /\ ss[1] \in Seq(S) /\ Len(ss[1]) \in Nat
        BY <1>1, <2>1, <2>2
      <4>2. CASE Len(s) = 0
        <5>1. Lesser(1, Len(s)) = 0
          BY <4>2 DEF Lesser
        <5>. QED  BY <4>1, <4>2, <5>1
      <4>3. CASE Len(s) # 0
        <5>1. Lesser(1, Len(s)) = 1 /\ 1 \in 1 .. Len(s)
          <6>. DEFINE l == Len(s)
          <6>. HIDE DEF l
          <6>1. l \in Nat /\ l # 0
            BY <1>1, <4>3 DEF l
          <6>2. 1 \in 1 .. l /\ (1 < l \/ l = 1)
            BY <6>1
          <6>. QED  BY <6>2 DEF Lesser, l
        <5>2. f[1] = << s[1] >>
          BY <4>1, <5>1
        <5>3. Len(f[1]) = 1 /\ f[1][1] = s[1]
          BY <5>2
        <5>4. \A i \in 1 .. 1 : i = 1
          OBVIOUS
        <5>. QED  BY <4>1, <5>1, <5>3, <5>4
      <4>. QED  BY <4>2, <4>3
    <3>2. 0 + 1 = 1
      OBVIOUS
    <3>. HIDE DEF Shown
    <3>. QED  BY <3>1, <3>2
  <2>4. ASSUME NEW k \in T PROVE k + 1 \in T
    <3>1. ASSUME k + 1 + 1 <= n PROVE Shown(k + 1 + 1)
      <4>. DEFINE j == k + 1
      <4>1. j \in Nat /\ j \in 1 .. n - 1 /\ j + 1 \in 1 .. n /\ Shown(j)
        BY <1>1, <3>1
      <4>. HIDE DEF j
      <4>2. f[j + 1] = f[j] \o ss[j + 1] /\ ss[j + 1] \in Seq(S)
        <5>1. f[j + 1] = f[j] \o ss[j + 1]
          BY <2>1, <4>1
        <5>2. ss[j + 1] \in Seq(S)
          BY <4>1
        <5>. QED  BY <5>1, <5>2
      <4>. DEFINE a == f[j]
                  b == ss[j + 1]
                  c == f[j + 1]
      <4>3. /\ a \in Seq(S) /\ b \in Seq(S) /\ Len(a) \in Nat /\ Len(b) \in Nat /\ c = a \o b
            /\ Lesser(j, Len(s)) <= Len(a) /\ (j <= Len(s) => Len(a) = j)
            /\ \A i \in 1 .. Lesser(j, Len(s)) : a[i] = s[i]
            /\ j + 1 <= Len(s) => b = << s[j + 1] >>
        BY <1>1, <4>1, <4>2
      <4>. HIDE DEF a, b, c
      <4>4. /\ c \in Seq(S) /\ Len(c) = Len(a) + Len(b) /\ Len(c) \in Nat
            /\ \A i \in 1 .. Len(a) + Len(b) : c[i] = IF i <= Len(a) THEN a[i] ELSE b[i - Len(a)]
        <5>1. /\ a \o b \in Seq(S) /\ Len(a \o b) = Len(a) + Len(b)
              /\ \A i \in 1 .. Len(a) + Len(b) : (a \o b)[i] = IF i <= Len(a) THEN a[i] ELSE b[i - Len(a)]
          BY <4>3, ConcatProperties
        <5>. QED  BY <4>3, <5>1
      <4>5. CASE j + 1 <= Len(s)
        <5>1. Len(a) = j /\ b = << s[j + 1] >> /\ Len(b) = 1 /\ b[1] = s[j + 1]
          BY <1>1, <4>1, <4>3, <4>5
        <5>2. Lesser(j + 1, Len(s)) = j + 1 /\ Lesser(j, Len(s)) = j
          BY <1>1, <4>1, <4>5 DEF Lesser
        <5>3. ASSUME NEW i \in 1 .. j + 1 PROVE c[i] = s[i]
          <6>1. CASE i = j + 1
            <7>1. ~(i <= Len(a)) /\ i - Len(a) = 1 /\ i \in 1 .. Len(a) + Len(b)
              BY <4>1, <5>1, <6>1
            <7>. QED  BY <4>4, <5>1, <6>1, <7>1
          <6>2. CASE i # j + 1
            <7>1. i <= Len(a) /\ i \in 1 .. Len(a) + Len(b) /\ i \in 1 .. j
              BY <4>1, <5>1, <6>2
            <7>. QED  BY <4>3, <4>4, <5>2, <7>1
          <6>. QED  BY <6>1, <6>2
        <5>4. Len(c) = j + 1 /\ c \in Seq(S)
          BY <4>4, <5>1
        <5>. QED  BY <4>1, <5>2, <5>3, <5>4 DEF c, j
      <4>6. CASE ~(j + 1 <= Len(s))
        <5>1. Lesser(j + 1, Len(s)) = Len(s) /\ Lesser(j, Len(s)) = Len(s)
          BY <1>1, <4>1, <4>6 DEF Lesser
        <5>2. Len(s) <= Len(c)
          <6>1. Len(s) <= Len(a)
            BY <4>3, <5>1
          <6>. QED  BY <1>1, <4>3, <4>4, <6>1
        <5>3. ASSUME NEW i \in 1 .. Len(s) PROVE c[i] = s[i]
          <6>1. i <= Len(a) /\ i \in 1 .. Len(a) + Len(b)
            BY <1>1, <4>3, <5>1
          <6>. QED  BY <4>3, <4>4, <5>1, <6>1
        <5>. QED  BY <4>4, <4>6, <5>1, <5>2, <5>3 DEF c, j
      <4>. QED  BY <4>5, <4>6
    <3>. QED  BY <3>1
  <2>5. n - 1 \in T
    <3>1. T = Nat
      <4>. HIDE DEF T
      <4>. QED  BY <2>3, <2>4, InductiveSet
    <3>2. n - 1 \in Nat
      BY <1>1, <2>2
    <3>. HIDE DEF T
    <3>. QED  BY <3>1, <3>2
  <2>6. Shown(n)
    <3>1. n - 1 + 1 = n /\ n <= n
      BY <1>1
    <3>. HIDE DEF Shown
    <3>2. n - 1 + 1 <= n => Shown(n - 1 + 1)
      BY <2>5
    <3>. QED  BY <3>1, <3>2
  <2>7. Lesser(n, Len(s)) = Len(s)
    BY <1>1 DEF Lesser
  <2>. QED  BY <2>1, <2>6, <2>7
<1>. QED  BY <1>2, <1>3

\* A sequence that another begins with is a prefix of it, whatever follows.
LEMMA PrefixByPlaces ==
    ASSUME NEW S, NEW s \in Seq(S), NEW t \in Seq(S), NEW u \in Seq(S), Len(s) <= Len(t),
           \A i \in 1 .. Len(s) : t[i] = s[i]
    PROVE  IsPrefix(s, t \o u)
<1>. DEFINE v == t \o u
<1>1. /\ v \in Seq(S) /\ Len(v) = Len(t) + Len(u) /\ Len(s) \in Nat /\ Len(t) \in Nat /\ Len(u) \in Nat
      /\ \A i \in 1 .. Len(t) + Len(u) : v[i] = IF i <= Len(t) THEN t[i] ELSE u[i - Len(t)]
  BY ConcatProperties
<1>. HIDE DEF v
<1>2. Len(s) <= Len(v)
  BY <1>1
<1>3. /\ SubSeq(v, 1, Len(s)) \in Seq(S) /\ Len(SubSeq(v, 1, Len(s))) = Len(s)
      /\ \A i \in 1 .. Len(s) : SubSeq(v, 1, Len(s))[i] = v[i]
  <2>1. /\ SubSeq(v, 1, Len(s)) \in Seq(S)
        /\ Len(SubSeq(v, 1, Len(s))) = IF 1 <= Len(s) THEN Len(s) - 1 + 1 ELSE 0
        /\ \A i \in 1 .. Len(s) - 1 + 1 : SubSeq(v, 1, Len(s))[i] = v[1 + i - 1]
    BY <1>1, <1>2, SubSeqProperties
  <2>. QED  BY <1>1, <2>1
<1>4. ASSUME NEW i \in 1 .. Len(s) PROVE SubSeq(v, 1, Len(s))[i] = s[i]
  <2>1. i \in 1 .. Len(t) + Len(u) /\ i <= Len(t)
    BY <1>1
  <2>. QED  BY <1>1, <1>3, <2>1
<1>5. SubSeq(v, 1, Len(s)) = s
  BY <1>3, <1>4, SeqEqual
<1>6. SubSeq(s, 1, Len(s)) = s
  BY SubSeqFull
<1>. QED  BY <1>2, <1>5, <1>6 DEF IsPrefix, v

\* What is joined can be cut where it was joined.
LEMMA ConcatCut ==
    ASSUME NEW S, NEW a \in Seq(S), NEW b \in Seq(S)
    PROVE  /\ SubSeq(a \o b, 1, Len(a)) = a
           /\ SubSeq(a \o b, Len(a) + 1, Len(a \o b)) = b
           /\ a \o b \in Seq(S) /\ Len(a \o b) = Len(a) + Len(b)
<1>. DEFINE c == a \o b
            m == Len(a)
            n == Len(b)
<1>1. /\ c \in Seq(S) /\ Len(c) = m + n /\ m \in Nat /\ n \in Nat
      /\ \A i \in 1 .. m + n : c[i] = IF i <= m THEN a[i] ELSE b[i - m]
      /\ \A i \in 1 .. m + n : c[i] \in S
  <2>1. /\ c \in Seq(S) /\ Len(c) = Len(a) + Len(b)
        /\ \A i \in 1 .. Len(a) + Len(b) : c[i] = IF i <= Len(a) THEN a[i] ELSE b[i - Len(a)]
    BY ConcatProperties
  <2>. HIDE DEF c
  <2>. QED  BY <2>1
<1>. HIDE DEF c, m, n
<1>2. SubSeq(c, 1, m) = a
  <2>1. /\ SubSeq(c, 1, m) \in Seq(S) /\ Len(SubSeq(c, 1, m)) = IF 1 <= m THEN m - 1 + 1 ELSE 0
        /\ \A i \in 1 .. m - 1 + 1 : SubSeq(c, 1, m)[i] = c[1 + i - 1]
    BY <1>1, SubSeqProperties
  <2>2. /\ Len(SubSeq(c, 1, m)) = m /\ a \in Seq(S) /\ Len(a) = m
        /\ \A i \in 1 .. m : SubSeq(c, 1, m)[i] = a[i]
    BY <1>1, <2>1 DEF m
  <2>. QED  BY <2>1, <2>2, SeqEqual
<1>3. SubSeq(c, m + 1, m + n) = b
  <2>1. /\ SubSeq(c, m + 1, m + n) \in Seq(S)
        /\ Len(SubSeq(c, m + 1, m + n)) = IF m + 1 <= m + n THEN (m + n) - (m + 1) + 1 ELSE 0
        /\ \A i \in 1 .. (m + n) - (m + 1) + 1 : SubSeq(c, m + 1, m + n)[i] = c[(m + 1) + i - 1]
    <3>1. m + 1 \in Int /\ m + n \in Int /\ \A i \in m + 1 .. m + n : c[i] \in S
      BY <1>1
    <3>. QED  BY <3>1, SubSeqProperties
  <2>2. /\ (IF m + 1 <= m + n THEN (m + n) - (m + 1) + 1 ELSE 0) = n
        /\ (m + n) - (m + 1) + 1 = n
        /\ \A i \in 1 .. n : /\ (m + 1) + i - 1 = m + i /\ m + i \in 1 .. m + n
                             /\ ~(m + i <= m) /\ (m + i) - m = i
    BY <1>1
  <2>3. \A i \in 1 .. n : c[m + i] = b[i]
    BY <1>1, <2>2
  <2>4. Len(SubSeq(c, m + 1, m + n)) = n /\ \A i \in 1 .. n : SubSeq(c, m + 1, m + n)[i] = b[i]
    BY <2>1, <2>2, <2>3
  <2>. QED  BY <2>1, <2>4, SeqEqual DEF n
<1>. QED  BY <1>1, <1>2, <1>3 DEF c, m, n

(* What is left of sequences joined after each of them.                    *)
Tails(t, ss) ==
  /\ t[0] = FlattenSeq(ss) /\ t[Len(ss)] = << >>
  /\ \A k \in 1 .. Len(ss) : t[k - 1] = ss[k] \o t[k]
  /\ \A k \in 0 .. Len(ss) : Len(t[k]) <= Len(t[0])

LEMMA FlattenTails ==
    ASSUME NEW S, NEW ss \in Seq(Seq(S))
    PROVE  \E t \in [0 .. Len(ss) -> Seq(S)] : Tails(t, ss)
<1>. DEFINE n == Len(ss)
<1>1. n \in Nat /\ << >> \in Seq(S)
  OBVIOUS
<1>2. CASE ss = << >>
  <2>. DEFINE t == [k \in 0 .. n |-> << >>]
  <2>1. FlattenSeq(ss) = << >> /\ n = 0
    BY <1>2 DEF FlattenSeq
  <2>2. t \in [0 .. n -> Seq(S)]
    BY <1>1
  <2>3. Tails(t, ss)
    BY <1>2, <2>1 DEF Tails
  <2>. QED  BY <2>2, <2>3
<1>3. CASE ss # << >>
  <2>1. n \in Nat /\ n >= 1
    BY <1>1, <1>3
  <2>2. PICK f : /\ FlattenSeq(ss) = f[n]
                 /\ f[1] = ss[1]
                 /\ \A k \in 1 .. n - 1 : f[k + 1] = f[k] \o ss[k + 1]
    BY <1>3, FlattenRuns
  <2>3. \A k \in 1 .. n : ss[k] \in Seq(S)
    OBVIOUS
  <2>. HIDE DEF n
  <2>. DEFINE Left(u, m) == /\ u[0] = f[m] /\ u[m] = << >>
                            /\ \A k \in 1 .. m : u[k - 1] = ss[k] \o u[k]
                            /\ \A k \in 0 .. m : Len(u[k]) <= Len(u[0])
              Has(m) == \E u \in [0 .. m -> Seq(S)] : Left(u, m)
              T == {m \in Nat : m + 1 <= n => Has(m + 1)}
  <2>4. T \in SUBSET Nat
    OBVIOUS
  <2>5. 0 \in T
    <3>. DEFINE u == [k \in 0 .. 1 |-> IF k = 0 THEN ss[1] ELSE << >>]
    <3>1. u \in [0 .. 1 -> Seq(S)] /\ u[0] = ss[1] /\ u[1] = << >> /\ ss[1] \in Seq(S)
      BY <1>1, <2>1, <2>3
    <3>2. ss[1] = ss[1] \o << >> /\ Len(<< >>) <= Len(ss[1])
      BY <3>1, ConcatEmptySeq
    <3>. HIDE DEF u
    <3>3. Left(u, 1)
      <4>1. /\ \A k \in 0 .. 1 : k = 0 \/ k = 1
            /\ \A k \in 1 .. 1 : k = 1 /\ k - 1 = 0
        OBVIOUS
      <4>2. u[0] = f[1] /\ u[0] = ss[1] \o u[1] /\ Len(u[1]) <= Len(u[0]) /\ Len(u[0]) <= Len(u[0])
        BY <2>2, <3>1, <3>2
      <4>. QED  BY <3>1, <4>1, <4>2
    <3>4. Has(1)
      <4>. HIDE DEF Left
      <4>. QED  BY <3>1, <3>3
    <3>. HIDE DEF Has
    <3>. QED  BY <3>4
  <2>6. ASSUME NEW q \in T PROVE q + 1 \in T
    <3>1. SUFFICES ASSUME (q + 1) + 1 <= n PROVE Has((q + 1) + 1)
      <4>. HIDE DEF Has
      <4>. QED  BY <3>1
    <3>. DEFINE m == q + 1
    <3>2. m \in Nat /\ m >= 1 /\ m + 1 <= n /\ m \in 1 .. n - 1 /\ m + 1 \in 1 .. n
      BY <2>1, <3>1
    <3>3. Has(m)
      <4>. HIDE DEF Has
      <4>. QED  BY <2>1, <3>2
    <3>. HIDE DEF m, T
    <3>4. PICK u \in [0 .. m -> Seq(S)] : Left(u, m)
      <4>. HIDE DEF Left
      <4>. QED  BY <3>3
    <3>. DEFINE s == ss[m + 1]
                v == [k \in 0 .. m + 1 |-> IF k = m + 1 THEN << >> ELSE u[k] \o s]
    <3>5. s \in Seq(S) /\ Len(s) \in Nat
      BY <2>3, <3>2
    <3>. HIDE DEF s
    <3>6. \A k \in 0 .. m : u[k] \o s \in Seq(S) /\ Len(u[k] \o s) = Len(u[k]) + Len(s) /\ Len(u[k]) \in Nat
      <4>1. ASSUME NEW k \in 0 .. m
            PROVE  u[k] \o s \in Seq(S) /\ Len(u[k] \o s) = Len(u[k]) + Len(s) /\ Len(u[k]) \in Nat
        <5>1. u[k] \in Seq(S)
          BY <3>4
        <5>. QED  BY <3>5, <5>1, ConcatProperties
      <4>. QED  BY <4>1
    <3>7. \A k \in 0 .. m : v[k] = u[k] \o s
      <4>1. \A k \in 0 .. m : k \in 0 .. m + 1 /\ k # m + 1
        BY <3>2
      <4>. QED  BY <4>1
    <3>8. v[m + 1] = << >> /\ v \in [0 .. m + 1 -> Seq(S)]
      BY <1>1, <3>2, <3>6
    <3>. HIDE DEF v
    <3>9. v[0] = f[m + 1]
      <4>1. 0 \in 0 .. m /\ f[m + 1] = f[m] \o s
        <5>1. 0 \in 0 .. m
          BY <3>2
        <5>2. f[m + 1] = f[m] \o ss[m + 1]
          BY <2>2, <3>2
        <5>. QED  BY <5>1, <5>2 DEF s
      <4>. QED  BY <3>4, <3>7, <4>1
    <3>10. ASSUME NEW k \in 1 .. m + 1 PROVE v[k - 1] = ss[k] \o v[k]
      <4>1. CASE k = m + 1
        <5>1. k - 1 = m /\ m \in 0 .. m
          BY <3>2, <4>1
        <5>2. v[m] = << >> \o s /\ ss[k] = s
          BY <3>4, <3>7, <4>1, <5>1 DEF s
        <5>3. << >> \o s = s /\ s \o << >> = s
          BY <3>5, ConcatEmptySeq
        <5>. QED  BY <3>8, <4>1, <5>1, <5>2, <5>3
      <4>2. CASE k # m + 1
        <5>1. k \in 1 .. m /\ k - 1 \in 0 .. m /\ k \in 0 .. m /\ k \in 1 .. n
          BY <2>1, <3>2, <4>2
        <5>2. u[k - 1] = ss[k] \o u[k] /\ v[k - 1] = u[k - 1] \o s /\ v[k] = u[k] \o s
          BY <3>4, <3>7, <5>1
        <5>3. ss[k] \in Seq(S) /\ u[k] \in Seq(S)
          BY <2>3, <3>4, <5>1
        <5>4. (ss[k] \o u[k]) \o s = ss[k] \o (u[k] \o s)
          <6>1. \A a, b, c \in Seq(S) : (a \o b) \o c = a \o (b \o c)
            BY ConcatAssociative
          <6>. QED  BY <3>5, <5>3, <6>1
        <5>. QED  BY <5>2, <5>4
      <4>. QED  BY <4>1, <4>2
    <3>11. ASSUME NEW k \in 0 .. m + 1 PROVE Len(v[k]) <= Len(v[0])
      <4>1. 0 \in 0 .. m /\ Len(v[0]) = Len(u[0]) + Len(s) /\ Len(u[0]) \in Nat
        <5>1. 0 \in 0 .. m
          BY <3>2
        <5>. QED  BY <3>6, <3>7, <5>1
      <4>2. CASE k = m + 1
        BY <3>5, <3>8, <4>1, <4>2
      <4>3. CASE k # m + 1
        <5>1. k \in 0 .. m
          BY <3>2, <4>3
        <5>2. Len(v[k]) = Len(u[k]) + Len(s) /\ Len(u[k]) \in Nat /\ Len(u[k]) <= Len(u[0])
          BY <3>4, <3>6, <3>7, <5>1
        <5>. QED  BY <3>5, <4>1, <5>2
      <4>. QED  BY <4>2, <4>3
    <3>12. Left(v, m + 1)
      BY <3>8, <3>9, <3>10, <3>11
    <3>. HIDE DEF Left
    <3>13. Has(m + 1)
      BY <3>8, <3>12
    <3>. HIDE DEF Has
    <3>. QED  BY <3>13 DEF m
  <2>7. n - 1 \in T
    <3>1. T = Nat
      <4>. HIDE DEF T
      <4>. QED  BY <2>4, <2>5, <2>6, InductiveSet
    <3>. HIDE DEF T
    <3>. QED  BY <2>1, <3>1
  <2>8. Has(n)
    <3>1. (n - 1) + 1 = n
      BY <2>1
    <3>2. Has((n - 1) + 1)
      <4>1. (n - 1) + 1 <= n
        BY <2>1
      <4>. HIDE DEF Has
      <4>. QED  BY <2>7, <4>1
    <3>. HIDE DEF Has
    <3>. QED  BY <3>1, <3>2
  <2>9. PICK t \in [0 .. n -> Seq(S)] : Left(t, n)
    <3>. HIDE DEF Left
    <3>. QED  BY <2>8
  <2>10. Tails(t, ss)
    BY <2>2, <2>9 DEF Tails, n
  <2>. QED  BY <2>9, <2>10 DEF n
<1>. QED  BY <1>2, <1>3

\* Sequences that are not empty are no fewer than the elements of them all.
LEMMA FlattenLong ==
    ASSUME NEW S, NEW ss \in Seq(Seq(S)), \A i \in 1 .. Len(ss) : Len(ss[i]) >= 1
    PROVE  Len(ss) <= Len(FlattenSeq(ss))
<1>. DEFINE n == Len(ss)
<1>1. PICK t \in [0 .. n -> Seq(S)] : Tails(t, ss)
  BY FlattenTails
<1>2. n \in Nat /\ \A i \in 1 .. n : ss[i] \in Seq(S) /\ Len(ss[i]) >= 1 /\ Len(ss[i]) \in Nat
  OBVIOUS
<1>. HIDE DEF n
<1>. DEFINE R == {k \in Nat : k <= n => Len(t[n - k]) >= k}
<1>3. R \in SUBSET Nat /\ 0 \in R
  <2>1. n - 0 = n /\ t[n] = << >>
    BY <1>1, <1>2 DEF Tails, n
  <2>. QED  BY <2>1
<1>4. ASSUME NEW k \in R PROVE k + 1 \in R
  <2>1. ASSUME k + 1 <= n PROVE Len(t[n - (k + 1)]) >= k + 1
    <3>1. k \in Nat /\ n - k \in 1 .. n /\ n - k \in 0 .. n /\ (n - k) - 1 = n - (k + 1) /\ Len(t[n - k]) >= k
      BY <1>2, <2>1
    <3>2. t[n - (k + 1)] = ss[n - k] \o t[n - k]
      BY <1>1, <3>1 DEF Tails, n
    <3>3. ss[n - k] \in Seq(S) /\ t[n - k] \in Seq(S) /\ Len(t[n - k]) \in Nat
      BY <1>2, <3>1
    <3>4. Len(t[n - (k + 1)]) = Len(ss[n - k]) + Len(t[n - k])
      <4>1. \A a, b \in Seq(S) : Len(a \o b) = Len(a) + Len(b)
        BY ConcatProperties
      <4>. QED  BY <3>2, <3>3, <4>1
    <3>5. Len(ss[n - k]) >= 1 /\ Len(ss[n - k]) \in Nat
      BY <1>2, <3>1
    <3>6. \A a, b \in Nat : a >= 1 /\ b >= k => a + b >= k + 1
      BY <3>1
    <3>. QED  BY <3>1, <3>3, <3>4, <3>5, <3>6
  <2>. QED  BY <2>1
<1>5. n \in R
  <2>. HIDE DEF R
  <2>. QED  BY <1>2, <1>3, <1>4, InductiveSet
<1>6. n - n = 0
  BY <1>2
<1>. QED  BY <1>1, <1>5, <1>6 DEF Tails, n

\* Sequences of one length make as many times that length.
LEMMA FlattenWidth ==
    ASSUME NEW S, NEW ss \in Seq(Seq(S)), NEW w \in Nat, \A i \in 1 .. Len(ss) : Len(ss[i]) = w
    PROVE  Len(FlattenSeq(ss)) = w * Len(ss)
<1>. DEFINE n == Len(ss)
<1>1. PICK t \in [0 .. n -> Seq(S)] : Tails(t, ss)
  BY FlattenTails
<1>2. n \in Nat /\ \A i \in 1 .. n : ss[i] \in Seq(S) /\ Len(ss[i]) = w
  OBVIOUS
<1>. HIDE DEF n
<1>. DEFINE R == {k \in Nat : k <= n => Len(t[n - k]) = w * k}
<1>3. R \in SUBSET Nat /\ 0 \in R
  <2>1. n - 0 = n /\ t[n] = << >> /\ w * 0 = 0
    BY <1>1, <1>2 DEF Tails, n
  <2>. QED  BY <2>1
<1>4. ASSUME NEW k \in R PROVE k + 1 \in R
  <2>1. ASSUME k + 1 <= n PROVE Len(t[n - (k + 1)]) = w * (k + 1)
    <3>1. k \in Nat /\ n - k \in 1 .. n /\ n - k \in 0 .. n /\ (n - k) - 1 = n - (k + 1) /\ Len(t[n - k]) = w * k
      BY <1>2, <2>1
    <3>2. t[n - (k + 1)] = ss[n - k] \o t[n - k]
      BY <1>1, <3>1 DEF Tails, n
    <3>3. ss[n - k] \in Seq(S) /\ t[n - k] \in Seq(S) /\ Len(ss[n - k]) = w
      BY <1>2, <3>1
    <3>4. Len(t[n - (k + 1)]) = Len(ss[n - k]) + Len(t[n - k])
      <4>1. \A a, b \in Seq(S) : Len(a \o b) = Len(a) + Len(b)
        BY ConcatProperties
      <4>. QED  BY <3>2, <3>3, <4>1
    <3>5. w + w * k = w * (k + 1)
      BY <3>1
    <3>. QED  BY <3>1, <3>3, <3>4, <3>5
  <2>. QED  BY <2>1
<1>5. n \in R
  <2>. HIDE DEF R
  <2>. QED  BY <1>2, <1>3, <1>4, InductiveSet
<1>6. n - n = 0
  BY <1>2
<1>. QED  BY <1>1, <1>5, <1>6 DEF Tails, n

-----------------------------------------------------------------------------
(* Folds.  FoldLeft is defined by recursion over the sets of places.       *)

\* The greatest of some places.
LEMMA MaxFacts ==
    ASSUME NEW n \in Nat, NEW s \in SUBSET (1 .. n), s # {}
    PROVE  Max(s) \in s /\ \A y \in s : y <= Max(s)
<1>. DEFINE R == {k \in Nat : \E x \in s : k = n - x}
<1>1. R \in SUBSET Nat /\ R # {}
  <2>1. PICK x \in s : TRUE
    OBVIOUS
  <2>2. n - x \in R
    BY <2>1
  <2>. QED  BY <2>2
<1>. HIDE DEF R
<1>2. PICK k \in R : \A j \in R : k <= j
  BY <1>1, LeastNat
<1>. USE DEF R
<1>3. PICK x \in s : k = n - x
  BY <1>2
<1>4. \A y \in s : x >= y
  <2>1. ASSUME NEW y \in s PROVE x >= y
    <3>1. n - y \in R
      OBVIOUS
    <3>2. n - x <= n - y
      BY <1>2, <1>3, <3>1
    <3>. QED  BY <3>2
  <2>. QED  BY <2>1
<1>. HIDE DEF R
<1>5. Max(s) \in s /\ \A y \in s : Max(s) >= y
  <2>1. \E z \in s : \A y \in s : z >= y
    BY <1>4
  <2>. QED  BY <2>1, Zenon DEF Max
<1>. QED  BY <1>5

\* The greatest of the first places is the last of them.
LEMMA MaxOfFirst ==
    ASSUME NEW n \in Nat, NEW k \in 1 .. n
    PROVE  /\ 1 .. k \in SUBSET (1 .. n) /\ 1 .. k # {}
           /\ Max(1 .. k) = k /\ (1 .. k) \ {k} = 1 .. k - 1
<1>1. 1 .. k \in SUBSET (1 .. n) /\ k \in 1 .. k /\ (1 .. k) \ {k} = 1 .. k - 1
  OBVIOUS
<1>2. Max(1 .. k) \in 1 .. k /\ \A y \in 1 .. k : y <= Max(1 .. k)
  BY <1>1, MaxFacts
<1>3. Max(1 .. k) = k
  BY <1>1, <1>2
<1>. QED  BY <1>1, <1>3

(* What a fold is defined by.                                              *)
Folds(f, n, base, step) ==
  \A s \in SUBSET (1 .. n) :
    f[s] = IF s = {} THEN base ELSE step[<< f[s \ {Max(s)}], Max(s) >>]

\* A function that a fold is defined by exists, if what a step makes is of one type.
LEMMA FoldExists ==
    ASSUME NEW T, NEW base \in T, NEW n \in Nat, NEW step \in [T \X (1 .. n) -> T]
    PROVE  \E f \in [SUBSET (1 .. n) -> T] : Folds(f, n, base, step)
<1>. DEFINE Ok(m, f) == \A s \in SUBSET (1 .. m) :
                          f[s] = IF s = {} THEN base ELSE step[<< f[s \ {Max(s)}], Max(s) >>]
            Has(m) == \E f \in [SUBSET (1 .. m) -> T] : Ok(m, f)
            S == {m \in Nat : m <= n => Has(m)}
<1>1. S \in SUBSET Nat
  OBVIOUS
<1>2. 0 \in S
  <2>. DEFINE f == [s \in SUBSET (1 .. 0) |-> base]
  <2>1. f \in [SUBSET (1 .. 0) -> T]
    OBVIOUS
  <2>2. \A s \in SUBSET (1 .. 0) : s = {}
    OBVIOUS
  <2>3. Ok(0, f)
    BY <2>2
  <2>4. Has(0)
    <3>. HIDE DEF f, Ok
    <3>. QED  BY <2>1, <2>3, Zenon
  <2>. HIDE DEF Has
  <2>. QED  BY <2>4
<1>3. ASSUME NEW m \in S PROVE m + 1 \in S
  <2>1. SUFFICES ASSUME m + 1 <= n
                 PROVE  Has(m + 1)
    <3>. HIDE DEF Has
    <3>. QED  BY <2>1
  <2>2. m \in Nat /\ m <= n
    BY <2>1
  <2>3. PICK f \in [SUBSET (1 .. m) -> T] : Ok(m, f)
    <3>1. Has(m)
      <4>. HIDE DEF Has
      <4>. QED  BY <2>2
    <3>. HIDE DEF Ok
    <3>. QED  BY <3>1, Zenon
  <2>. DEFINE g == [s \in SUBSET (1 .. m + 1) |->
                      IF m + 1 \in s THEN step[<< f[s \ {m + 1}], m + 1 >>] ELSE f[s]]
  <2>4. \A s \in SUBSET (1 .. m + 1) : s \ {m + 1} \in SUBSET (1 .. m)
    BY <2>2
  <2>5. \A s \in SUBSET (1 .. m + 1) : m + 1 \notin s => s \in SUBSET (1 .. m)
    BY <2>2
  <2>6. g \in [SUBSET (1 .. m + 1) -> T]
    <3>1. ASSUME NEW s \in SUBSET (1 .. m + 1), m + 1 \in s
          PROVE  step[<< f[s \ {m + 1}], m + 1 >>] \in T
      <4>1. f[s \ {m + 1}] \in T /\ m + 1 \in 1 .. n
        BY <2>1, <2>2, <2>3, <2>4
      <4>. QED  BY <4>1
    <3>2. ASSUME NEW s \in SUBSET (1 .. m + 1), m + 1 \notin s
          PROVE  f[s] \in T
      BY <2>3, <2>5, <3>2
    <3>. QED  BY <3>1, <3>2
  <2>7. ASSUME NEW s \in SUBSET (1 .. m + 1)
        PROVE  g[s] = IF s = {} THEN base ELSE step[<< g[s \ {Max(s)}], Max(s) >>]
    <3>1. CASE m + 1 \in s
      <4>1. s # {} /\ Max(s) = m + 1
        <5>1. m + 1 \in Nat /\ s # {} /\ \A y \in s : y \in 1 .. m + 1
          BY <2>2, <3>1
        <5>. HIDE DEF S, g, Ok
        <5>2. Max(s) \in s /\ \A y \in s : y <= Max(s)
          BY <5>1, MaxFacts
        <5>3. m + 1 <= Max(s) /\ Max(s) \in 1 .. m + 1
          BY <3>1, <5>1, <5>2
        <5>. QED  BY <2>2, <5>1, <5>3
      <4>2. g[s \ {m + 1}] = f[s \ {m + 1}]
        <5>1. s \ {m + 1} \in SUBSET (1 .. m + 1) /\ m + 1 \notin s \ {m + 1}
          OBVIOUS
        <5>. QED  BY <5>1
      <4>3. g[s] = step[<< f[s \ {m + 1}], m + 1 >>]
        BY <3>1
      <4>. HIDE DEF g
      <4>. QED  BY <4>1, <4>2, <4>3
    <3>2. CASE m + 1 \notin s
      <4>1. s \in SUBSET (1 .. m) /\ g[s] = f[s]
        BY <2>5, <3>2
      <4>2. f[s] = IF s = {} THEN base ELSE step[<< f[s \ {Max(s)}], Max(s) >>]
        BY <2>3, <4>1
      <4>3. s # {} => g[s \ {Max(s)}] = f[s \ {Max(s)}]
        <5>1. s \ {Max(s)} \in SUBSET (1 .. m + 1) /\ m + 1 \notin s \ {Max(s)}
          BY <3>2
        <5>. QED  BY <5>1
      <4>. HIDE DEF g
      <4>. QED  BY <4>1, <4>2, <4>3
    <3>. QED  BY <3>1, <3>2
  <2>8. Ok(m + 1, g)
    <3>. HIDE DEF g
    <3>. QED  BY <2>7
  <2>. HIDE DEF g, Ok
  <2>. QED  BY <2>6, <2>8, Zenon
<1>4. n \in S
  <2>. HIDE DEF S
  <2>. QED  BY <1>1, <1>2, <1>3, InductiveSet
<1>5. Has(n)
  <2>. HIDE DEF Has
  <2>. QED  BY <1>4
<1>. QED  BY <1>5, Zenon DEF Folds
=============================================================================
