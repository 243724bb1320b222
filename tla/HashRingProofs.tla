--------------------------- MODULE HashRingProofs ---------------------------
(***************************************************************************)
(* Proofs about HashRing, for any number of nodes, virtual nodes and       *)
(* lookups, any hash space and any hash function.                          *)
(***************************************************************************)
EXTENDS HashRing, FiniteSetTheorems, SequenceTheorems, TLAPS

-----------------------------------------------------------------------------
\* Least and greatest elements.

\* A set of naturals has a least element.
LEMMA NatMin ==
  ASSUME NEW S \in SUBSET Nat, S # {}
  PROVE  \E n \in S : \A m \in S : n <= m
<1> DEFINE R == OpToRel(<, Nat)
<1>1. IsWellFoundedOn(R, Nat)
  BY NatLessThanWellFounded
<1>2. \A x, y \in Nat : <<y, x>> \in R <=> y < x
  BY DEF OpToRel
<1> HIDE DEF R
<1>3. PICK n \in S : \A m \in S : ~(<<m, n>> \in R)
  BY <1>1, WFMin
<1>4. ASSUME NEW m \in S PROVE n <= m
  <2>1. m \in Nat /\ n \in Nat
    OBVIOUS
  <2>2. ~(m < n)
    BY <1>2, <1>3, <2>1
  <2> QED
    BY <2>1, <2>2
<1> QED
  BY <1>4

\* Finitely many values have a greatest one.
LEMMA FiniteMax ==
  ASSUME NEW J, IsFiniteSet(J), J # {}, NEW f, \A i \in J : f[i] \in Nat
  PROVE  \E j \in J : \A i \in J : f[i] <= f[j]
<1> DEFINE Le(j) == {i \in J : f[i] <= f[j]}
<1>1. \A j \in J : /\ IsFiniteSet(Le(j)) /\ Cardinality(Le(j)) \in Nat
                   /\ Cardinality(Le(j)) <= Cardinality(J)
  <2> TAKE j \in J
  <2>1. Le(j) \in SUBSET J
    OBVIOUS
  <2> QED
    BY <2>1, FS_Subset, FS_CardinalityType
<1> DEFINE S == {Cardinality(J) - Cardinality(Le(j)) : j \in J}
<1>2. Cardinality(J) \in Nat
  BY FS_CardinalityType
<1> HIDE DEF Le
<1>3. S \in SUBSET Nat /\ S # {}
  BY <1>1, <1>2
<1>4. PICK n \in S : \A m \in S : n <= m
  BY <1>3, NatMin
<1>5. PICK j \in J : n = Cardinality(J) - Cardinality(Le(j))
  BY <1>4
<1>6. ASSUME NEW i \in J PROVE Cardinality(Le(i)) <= Cardinality(Le(j))
  <2>1. Cardinality(J) - Cardinality(Le(i)) \in S
    OBVIOUS
  <2>2. n <= Cardinality(J) - Cardinality(Le(i))
    BY <1>4, <2>1
  <2> QED
    BY <1>1, <1>2, <1>5, <2>2
<1>7. ASSUME NEW i \in J, ~(f[i] <= f[j]) PROVE FALSE
  <2>1. Le(j) \in SUBSET Le(i) /\ i \in Le(i) /\ i \notin Le(j)
    BY <1>7 DEF Le
  <2>2. /\ Cardinality(Le(j)) <= Cardinality(Le(i))
        /\ Cardinality(Le(i)) = Cardinality(Le(j)) => Le(i) = Le(j)
    BY <1>1, <2>1, FS_Subset
  <2> QED
    BY <1>1, <1>6, <2>1, <2>2
<1> QED
  BY <1>7

-----------------------------------------------------------------------------
\* Ranked sorts.

\* The values up to v, and below it.
UpTo(I, f, v) == {i \in I : f[i] <= v}
Below(I, f, v) == {i \in I : f[i] < v}

\* Both are finite.
LEMMA RankSets ==
  ASSUME NEW I, IsFiniteSet(I), NEW f, NEW v
  PROVE  /\ IsFiniteSet(UpTo(I, f, v)) /\ Cardinality(UpTo(I, f, v)) \in Nat
         /\ IsFiniteSet(Below(I, f, v)) /\ Cardinality(Below(I, f, v)) \in Nat
         /\ Cardinality(UpTo(I, f, v)) <= Cardinality(I)
         /\ Cardinality(I) \in Nat
<1>1. UpTo(I, f, v) \in SUBSET I /\ Below(I, f, v) \in SUBSET I
  BY DEF UpTo, Below
<1> QED
  BY <1>1, FS_Subset, FS_CardinalityType

\* What is up to v is below w, if v < w.
LEMMA RankOrder ==
  ASSUME NEW I, IsFiniteSet(I), NEW f, \A i \in I : f[i] \in Nat,
         NEW v \in Nat, NEW w \in Nat, v < w
  PROVE  Cardinality(UpTo(I, f, v)) <= Cardinality(Below(I, f, w))
<1>1. UpTo(I, f, v) \in SUBSET Below(I, f, w)
  BY DEF UpTo, Below
<1> QED
  BY <1>1, RankSets, FS_Subset

\* Every rank is taken.
LEMMA RankExists ==
  ASSUME NEW I, IsFiniteSet(I), NEW f, \A i \in I : f[i] \in Nat,
         NEW k \in 1 .. Cardinality(I)
  PROVE  \E v \in {f[i] : i \in I} : /\ Cardinality(Below(I, f, v)) < k
                                     /\ k <= Cardinality(UpTo(I, f, v))
<1> DEFINE V == {f[i] : i \in I}
           S == {v \in V : k <= Cardinality(UpTo(I, f, v))}
<1>1. Cardinality(I) \in Nat /\ k \in Nat /\ k >= 1 /\ k <= Cardinality(I)
  BY FS_CardinalityType
<1>2. I # {}
  BY <1>1, FS_EmptySet
<1>3. S # {}
  <2>1. PICK j \in I : \A i \in I : f[i] <= f[j]
    BY <1>2, FiniteMax
  <2>2. UpTo(I, f, f[j]) = I
    BY <2>1 DEF UpTo
  <2>3. f[j] \in S
    BY <1>1, <2>2
  <2> QED
    BY <2>3
<1>4. S \in SUBSET Nat
  OBVIOUS
<1>5. PICK v \in S : \A u \in S : v <= u
  BY <1>3, <1>4, NatMin
<1>6. ASSUME ~(Cardinality(Below(I, f, v)) < k) PROVE FALSE
  <2> DEFINE J == Below(I, f, v)
  <2>1. IsFiniteSet(J) /\ Cardinality(J) \in Nat /\ k <= Cardinality(J)
    BY <1>1, <1>6, RankSets
  <2>2. J # {}
    BY <1>1, <2>1, FS_EmptySet
  <2>3. \A i \in J : i \in I /\ f[i] \in Nat /\ f[i] < v
    BY DEF Below
  <2> HIDE DEF J
  <2>4. PICK j \in J : \A i \in J : f[i] <= f[j]
    BY <2>1, <2>2, <2>3, FiniteMax
  <2>5. J \in SUBSET UpTo(I, f, f[j])
    BY <2>3, <2>4 DEF UpTo
  <2>6. Cardinality(J) <= Cardinality(UpTo(I, f, f[j]))
    BY <2>5, RankSets, FS_Subset
  <2>7. k <= Cardinality(UpTo(I, f, f[j]))
    BY <1>1, <2>1, <2>6, RankSets
  <2>8. f[j] \in S
    BY <2>3, <2>7
  <2> QED
    BY <1>4, <1>5, <2>3, <2>8
<1> QED
  BY <1>5, <1>6

\* Ranked gives every index of I a place, holds just the values of f, and is in
\* ascending order.
LEMMA RankedSorts ==
  ASSUME NEW I, IsFiniteSet(I), NEW f, \A i \in I : f[i] \in Nat
  PROVE  LET s == Ranked(I, f) IN
         /\ Cardinality(I) \in Nat
         /\ DOMAIN s = 1 .. Cardinality(I)
         /\ s \in [1 .. Cardinality(I) -> {f[i] : i \in I}]
         /\ \A i \in I : \E k \in DOMAIN s : s[k] = f[i]
         /\ \A j, k \in DOMAIN s : j <= k => s[j] <= s[k]
<1> DEFINE s == Ranked(I, f)
           n == Cardinality(I)
<1>1. n \in Nat
  BY FS_CardinalityType
<1>2. DOMAIN s = 1 .. n
  BY DEF Ranked
<1>3. \A k \in 1 .. n : /\ s[k] \in {f[i] : i \in I}
                        /\ Cardinality(Below(I, f, s[k])) < k
                        /\ k <= Cardinality(UpTo(I, f, s[k]))
  <2> TAKE k \in 1 .. n
  <2>1. s[k] = CHOOSE v \in {f[i] : i \in I} :
                 /\ Cardinality(Below(I, f, v)) < k
                 /\ k <= Cardinality(UpTo(I, f, v))
    BY DEF Ranked, Below, UpTo
  <2>2. \E v \in {f[i] : i \in I} : /\ Cardinality(Below(I, f, v)) < k
                                    /\ k <= Cardinality(UpTo(I, f, v))
    BY RankExists
  <2> HIDE DEF s
  <2> QED
    BY <2>1, <2>2
<1>a. s \in [1 .. n -> {f[i] : i \in I}]
  BY <1>3 DEF Ranked
<1> HIDE DEF s, n
<1>4. \A k \in 1 .. n : s[k] \in Nat
  BY <1>3
<1>5. ASSUME NEW j \in 1 .. n, NEW k \in 1 .. n, j <= k PROVE s[j] <= s[k]
  <2> SUFFICES ASSUME s[k] < s[j] PROVE FALSE
    BY <1>4
  <2>1. Cardinality(UpTo(I, f, s[k])) <= Cardinality(Below(I, f, s[j]))
    BY <1>4, RankOrder
  <2>2. Cardinality(UpTo(I, f, s[k])) \in Nat /\ Cardinality(Below(I, f, s[j])) \in Nat
    BY RankSets
  <2> QED
    BY <1>1, <1>3, <1>5, <2>1, <2>2
<1>6. ASSUME NEW i \in I PROVE \E k \in 1 .. n : s[k] = f[i]
  <2> DEFINE v == f[i]
             k == Cardinality(UpTo(I, f, v))
  <2>1. v \in Nat /\ i \in UpTo(I, f, v) /\ i \notin Below(I, f, v)
    BY DEF UpTo, Below
  <2>2. k \in Nat /\ k <= n
    BY RankSets DEF n
  <2>3. UpTo(I, f, v) # {}
    BY <2>1
  <2>4. k # 0
    BY <2>3, RankSets, FS_EmptySet
  <2>5. k \in 1 .. n
    BY <1>1, <2>2, <2>4
  <2>6. Cardinality(Below(I, f, v)) < k
    <3>1. Below(I, f, v) \in SUBSET UpTo(I, f, v)
      BY DEF Below, UpTo
    <3>2. /\ Cardinality(Below(I, f, v)) <= k
          /\ k = Cardinality(Below(I, f, v)) => UpTo(I, f, v) = Below(I, f, v)
      BY <3>1, RankSets, FS_Subset
    <3> QED
      BY <2>1, <3>2, RankSets
  <2>7. ASSUME s[k] < v PROVE FALSE
    <3>1. Cardinality(UpTo(I, f, s[k])) <= Cardinality(Below(I, f, v))
      BY <1>4, <2>1, <2>5, <2>7, RankOrder
    <3> QED
      BY <1>3, <2>2, <2>5, <2>6, <3>1, RankSets
  <2>8. ASSUME v < s[k] PROVE FALSE
    <3>1. k <= Cardinality(Below(I, f, s[k]))
      BY <1>4, <2>1, <2>5, <2>8, RankOrder
    <3> QED
      BY <1>3, <2>2, <2>5, <3>1, RankSets
  <2> HIDE DEF v, k
  <2>9. s[k] = v
    BY <1>4, <2>1, <2>5, <2>7, <2>8
  <2> QED
    BY <2>5, <2>9 DEF v
<1> QED
  BY <1>1, <1>2, <1>a, <1>5, <1>6 DEF s, n

-----------------------------------------------------------------------------
\* The slice of virtual nodes.

Sorted(s) == \A i, j \in DOMAIN s : i <= j => s[i] <= s[j]

\* Sort keeps the elements and their number.
LEMMA SortProperties ==
  ASSUME NEW s \in Seq(Positions)
  PROVE  /\ Sort(s) \in Seq(Positions) /\ Len(Sort(s)) = Len(s)
         /\ Sorted(Sort(s)) /\ Range(Sort(s)) = Range(s)
<1> DEFINE I == DOMAIN s
           t == Ranked(I, s)
<1>1. I = 1 .. Len(s) /\ Len(s) \in Nat
  OBVIOUS
<1>2. IsFiniteSet(I) /\ Cardinality(I) = Len(s)
  BY <1>1, FS_Interval
<1>3. \A i \in I : s[i] \in Positions
  BY <1>1
<1> HIDE DEF I
<1>a. \A i \in I : s[i] \in Nat
  BY <1>3, RingAssumption
<1>4. /\ t \in [1 .. Len(s) -> {s[i] : i \in I}] /\ DOMAIN t = 1 .. Len(s)
      /\ \A i \in I : \E k \in DOMAIN t : t[k] = s[i]
      /\ \A j, k \in DOMAIN t : j <= k => t[j] <= t[k]
  BY <1>2, <1>a, RankedSorts
<1> HIDE DEF t
<1>5. t \in [1 .. Len(s) -> Positions]
  BY <1>3, <1>4
<1>6. t \in Seq(Positions) /\ Len(t) = Len(s)
  BY <1>1, <1>5, SeqDef
<1>7. Range(t) = Range(s)
  <2>1. Range(t) = {t[k] : k \in 1 .. Len(s)} /\ Range(s) = {s[i] : i \in I}
    BY <1>4 DEF Range, I
  <2>2. \A k \in 1 .. Len(s) : t[k] \in {s[i] : i \in I}
    BY <1>4
  <2> QED
    BY <1>4, <2>1, <2>2
<1> QED
  BY <1>4, <1>6, <1>7 DEF Sort, Sorted, t, I

\* Filter keeps the elements outside S and their order.
LEMMA FilterProperties ==
  ASSUME NEW s \in Seq(Positions), Sorted(s), NEW S
  PROVE  /\ Filter(s, S) \in Seq(Positions)
         /\ Len(Filter(s, S)) = Cardinality({i \in DOMAIN s : s[i] \notin S})
         /\ Sorted(Filter(s, S)) /\ Range(Filter(s, S)) = Range(s) \ S
<1> DEFINE kept == {i \in DOMAIN s : s[i] \notin S}
           id == [i \in kept |-> i]
           index == Ranked(kept, id)
           n == Cardinality(kept)
           t == [k \in DOMAIN index |-> s[index[k]]]
<1>1. DOMAIN s = 1 .. Len(s) /\ Len(s) \in Nat
  OBVIOUS
<1>2. IsFiniteSet(kept) /\ kept \subseteq Nat
  <2>1. IsFiniteSet(DOMAIN s)
    BY <1>1, FS_Interval
  <2>2. kept \in SUBSET DOMAIN s
    OBVIOUS
  <2> QED
    BY <1>1, <2>1, <2>2, FS_Subset
<1>3. \A i \in kept : i \in DOMAIN s /\ s[i] \in Positions /\ s[i] \notin S /\ id[i] = i
  OBVIOUS
<1>4. \A i \in DOMAIN s : s[i] \notin S => i \in kept
  OBVIOUS
<1>5. \A i \in kept : id[i] \in Nat
  BY <1>2, <1>3
<1>a. IsFiniteSet(kept)
  BY <1>2
<1> HIDE DEF kept, id
<1>6. /\ n \in Nat
      /\ index \in [1 .. n -> {id[i] : i \in kept}] /\ DOMAIN index = 1 .. n
      /\ \A i \in kept : \E k \in DOMAIN index : index[k] = id[i]
      /\ \A j, k \in DOMAIN index : j <= k => index[j] <= index[k]
  BY <1>a, <1>5, RankedSorts
<1>7. {id[i] : i \in kept} = kept
  BY <1>3
<1> HIDE DEF index, n
<1>8. \A k \in 1 .. n : index[k] \in kept
  BY <1>6, <1>7
<1>9. t \in [1 .. n -> Positions] /\ \A k \in 1 .. n : t[k] = s[index[k]]
  BY <1>3, <1>6, <1>8
<1> HIDE DEF t
<1>10. t \in Seq(Positions) /\ Len(t) = n /\ DOMAIN t = 1 .. n
  BY <1>6, <1>9, SeqDef
<1>11. Sorted(t)
  <2> SUFFICES ASSUME NEW j \in 1 .. n, NEW k \in 1 .. n, j <= k PROVE t[j] <= t[k]
    BY <1>10 DEF Sorted
  <2>1. index[j] \in DOMAIN s /\ index[k] \in DOMAIN s /\ index[j] <= index[k]
    BY <1>3, <1>6, <1>8
  <2> QED
    BY <1>9, <2>1 DEF Sorted
<1>12. Range(t) = Range(s) \ S
  <2>1. Range(t) = {t[k] : k \in 1 .. n} /\ Range(s) = {s[i] : i \in DOMAIN s}
    BY <1>10 DEF Range
  <2>2. \A k \in 1 .. n : t[k] \in Range(s) \ S
    BY <1>3, <1>8, <1>9, <2>1
  <2>3. ASSUME NEW i \in DOMAIN s, s[i] \notin S PROVE \E k \in 1 .. n : t[k] = s[i]
    <3>1. i \in kept /\ id[i] = i
      BY <1>3, <1>4, <2>3
    <3>2. PICK k \in 1 .. n : index[k] = id[i]
      BY <1>6, <3>1
    <3>3. t[k] = s[i]
      BY <1>9, <3>1, <3>2
    <3> QED
      BY <3>3
  <2> QED
    BY <2>1, <2>2, <2>3
<1>13. Filter(s, S) = t
  BY DEF Filter, t, index, id, kept
<1> QED
  BY <1>10, <1>11, <1>12, <1>13 DEF n, kept

-----------------------------------------------------------------------------
\* The clockwise successor, in any map m of positions.

First(m, k, h) == h \in DOMAIN m /\ \A g \in DOMAIN m : Sooner(k, h, g)

OwnerIn(m, k) ==
  m[CHOOSE h \in DOMAIN m : \A g \in DOMAIN m : Sooner(k, h, g)]

\* There is one in every ring that is not empty.
LEMMA FirstExists ==
  ASSUME NEW m, DOMAIN m \subseteq Nat, DOMAIN m # {}, NEW k \in Nat
  PROVE  \E h \in DOMAIN m : First(m, k, h)
<1> DEFINE S == {h \in DOMAIN m : k <= h}
<1>1. CASE S = {}
  <2>1. PICK h \in DOMAIN m : \A g \in DOMAIN m : h <= g
    BY NatMin
  <2>2. \A g \in DOMAIN m : g \in Nat /\ g < k
    BY <1>1
  <2>3. First(m, k, h)
    BY <2>1, <2>2 DEF First, Sooner
  <2> QED
    BY <2>3
<1>2. CASE S # {}
  <2>1. S \in SUBSET Nat
    OBVIOUS
  <2>2. PICK h \in S : \A g \in S : h <= g
    BY <1>2, <2>1, NatMin
  <2>3. ASSUME NEW g \in DOMAIN m PROVE Sooner(k, h, g)
    <3>1. g \in Nat /\ h \in Nat /\ k <= h
      BY <2>1
    <3>2. CASE k <= g
      BY <2>2, <3>1, <3>2 DEF Sooner
    <3>3. CASE g < k
      BY <3>1, <3>3 DEF Sooner
    <3> QED
      BY <3>1, <3>2, <3>3
  <2> QED
    BY <2>3 DEF First
<1> QED
  BY <1>1, <1>2

\* And only one.
LEMMA OwnerAtFirst ==
  ASSUME NEW m, DOMAIN m \subseteq Nat, NEW k \in Nat, NEW h, First(m, k, h)
  PROVE  OwnerIn(m, k) = m[h]
<1> DEFINE c == CHOOSE x \in DOMAIN m : \A g \in DOMAIN m : Sooner(k, x, g)
<1>1. c \in DOMAIN m /\ \A g \in DOMAIN m : Sooner(k, c, g)
  BY DEF First
<1> HIDE DEF c
<1>2. c \in Nat /\ h \in Nat /\ Sooner(k, c, h) /\ Sooner(k, h, c)
  BY <1>1 DEF First
<1>3. c = h
  BY <1>2 DEF Sooner
<1> QED
  BY <1>3 DEF OwnerIn, c

\* Positions that are added take over only the keys they are the first for.
LEMMA OwnerAfterAdd ==
  ASSUME NEW m, NEW d, DOMAIN m \subseteq Nat, DOMAIN d \subseteq Nat, NEW n,
         DOMAIN m # {}, DOMAIN m \subseteq DOMAIN d, NEW k \in Nat,
         \A h \in DOMAIN d : d[h] = n \/ (h \in DOMAIN m /\ d[h] = m[h])
  PROVE  OwnerIn(d, k) \in {OwnerIn(m, k), n}
<1>1. PICK h \in DOMAIN d : First(d, k, h)
  BY FirstExists
<1>2. OwnerIn(d, k) = d[h]
  BY <1>1, OwnerAtFirst
<1>3. CASE d[h] = n
  BY <1>2, <1>3
<1>4. CASE h \in DOMAIN m /\ d[h] = m[h]
  <2>1. First(m, k, h)
    BY <1>1, <1>4 DEF First
  <2>2. OwnerIn(m, k) = m[h]
    BY <2>1, OwnerAtFirst
  <2> QED
    BY <1>2, <1>4, <2>2
<1> QED
  BY <1>3, <1>4

\* Positions that are removed give up only their own keys.
LEMMA OwnerAfterRemove ==
  ASSUME NEW m, NEW d, DOMAIN m \subseteq Nat, NEW n, DOMAIN d # {},
         DOMAIN d \subseteq DOMAIN m, NEW k \in Nat,
         \A h \in DOMAIN m : m[h] = n \/ (h \in DOMAIN d /\ d[h] = m[h])
  PROVE  OwnerIn(m, k) \in {OwnerIn(d, k), n}
<1>1. PICK h \in DOMAIN m : First(m, k, h)
  BY FirstExists
<1>2. OwnerIn(m, k) = m[h]
  BY <1>1, OwnerAtFirst
<1>3. CASE m[h] = n
  BY <1>2, <1>3
<1>4. CASE h \in DOMAIN d /\ d[h] = m[h]
  <2>1. First(d, k, h)
    BY <1>1, <1>4 DEF First
  <2>2. OwnerIn(d, k) = d[h]
    BY <2>1, OwnerAtFirst
  <2> QED
    BY <1>2, <1>4, <2>2
<1> QED
  BY <1>3, <1>4

\* The index at which the binary search ends is that of the first position: what
\* precedes lo is below the key and what follows it is not.
LEMMA SearchEnds ==
  ASSUME NEW s \in Seq(Nat), s # <<>>, Sorted(s), NEW k \in Nat,
         NEW m, DOMAIN m = Range(s), NEW lo \in 1 .. Len(s) + 1,
         \A i \in DOMAIN s : i < lo => s[i] < k,
         \A i \in DOMAIN s : i >= lo => s[i] >= k
  PROVE  First(m, k, s[IF lo = Len(s) + 1 THEN 1 ELSE lo])
<1> DEFINE j == IF lo = Len(s) + 1 THEN 1 ELSE lo
<1>1. DOMAIN s = 1 .. Len(s) /\ Len(s) \in Nat /\ Len(s) # 0
  OBVIOUS
<1>2. \A i \in DOMAIN s : s[i] \in Nat
  BY <1>1
<1>3. j \in DOMAIN s
  BY <1>1
<1>4. ASSUME NEW i \in DOMAIN s PROVE Sooner(k, s[j], s[i])
  <2>1. CASE lo = Len(s) + 1
    <3>1. j = 1 /\ s[j] < k /\ s[i] < k /\ s[j] <= s[i]
      BY <1>1, <1>3, <2>1 DEF Sorted
    <3> QED
      BY <3>1 DEF Sooner
  <2>2. CASE lo # Len(s) + 1
    <3>1. j = lo /\ s[j] >= k
      BY <1>1, <1>3, <2>2
    <3>2. s[i] < k \/ s[j] <= s[i]
      <4>1. CASE i < lo
        BY <4>1
      <4>2. CASE j <= i
        BY <1>3, <4>2 DEF Sorted
      <4> QED
        BY <1>1, <3>1, <4>1, <4>2
    <3> QED
      BY <1>2, <1>3, <3>1, <3>2 DEF Sooner
  <2> QED
    BY <2>1, <2>2
<1> HIDE DEF j
<1>5. \A g \in DOMAIN m : \E i \in DOMAIN s : g = s[i]
  BY DEF Range
<1>6. s[j] \in DOMAIN m
  BY <1>3 DEF Range
<1>7. First(m, k, s[j])
  BY <1>4, <1>5, <1>6 DEF First
<1> QED
  BY <1>7 DEF j

-----------------------------------------------------------------------------
\* The inductive invariant.

\* Slice and map hold the same positions, each mapped to a node that has a
\* client and a virtual node there.
MapInv ==
  /\ Sorted(vnodes)
  /\ DOMAIN nodeMap = Range(vnodes)
  /\ \A h \in DOMAIN nodeMap, n \in Nodes :
       nodeMap[h] = n => n \in clients /\ h \in Hashes(n)

\* Without collisions no position is missing or there twice.
CountInv ==
  /\ IsFiniteSet(clients)
  /\ NoCollision =>
       /\ \A n \in clients : Hashes(n) \subseteq DOMAIN nodeMap
       /\ Cardinality(DOMAIN nodeMap) = Replicas * Cardinality(clients)
       /\ Len(vnodes) = Cardinality(DOMAIN nodeMap)

\* A search narrows down on the first position that is not below its key, in a
\* slice that does not change under it.
SearchInv ==
  \A p \in reading :
    /\ vnodes # <<>>
    /\ l[p] \in 1 .. Len(vnodes) + 1 /\ r[p] \in 1 .. Len(vnodes) + 1
    /\ l[p] <= r[p]
    /\ \A i \in DOMAIN vnodes : i < l[p] => vnodes[i] < key[p]
    /\ \A i \in DOMAIN vnodes : i >= r[p] => vnodes[i] > key[p]

RingInv == TypeOK /\ MapInv /\ CountInv /\ SearchInv

\* The positions of one node.
LEMMA HashesOfNode ==
  ASSUME TypeOK, NEW n \in Nodes
  PROVE  /\ hashKey[n] \in Seq(Positions) /\ Len(hashKey[n]) = Replicas
         /\ Hashes(n) = Range(hashKey[n]) /\ Hashes(n) \subseteq Positions
         /\ IsFiniteSet(Hashes(n))
         /\ NoCollision => Cardinality(Hashes(n)) = Replicas
<1> DEFINE f == hashKey[n]
<1>1. f \in [1 .. Replicas -> Positions] /\ Replicas \in Nat
  BY RingAssumption DEF TypeOK
<1>2. f \in Seq(Positions) /\ Len(f) = Replicas
  BY <1>1, SeqDef
<1>3. Hashes(n) = {f[i] : i \in 1 .. Replicas}
  BY DEF Hashes
<1> HIDE DEF f
<1>4. Hashes(n) = Range(f) /\ Hashes(n) \subseteq Positions
  BY <1>1, <1>3 DEF Range
<1>5. f \in Surjection(1 .. Replicas, Hashes(n))
  <2>1. \A i \in 1 .. Replicas : f[i] \in Hashes(n)
    BY <1>3
  <2>2. f \in [1 .. Replicas -> Hashes(n)]
    BY <1>1, <2>1
  <2> QED
    BY <1>3, <2>2 DEF Surjection
<1>6. IsFiniteSet(1 .. Replicas) /\ Cardinality(1 .. Replicas) = Replicas
  BY <1>1, RingAssumption, FS_Interval
<1>7. IsFiniteSet(Hashes(n))
  BY <1>5, <1>6, FS_Surjection
<1>8. ASSUME NoCollision PROVE Cardinality(Hashes(n)) = Replicas
  <2>1. \A i, j \in 1 .. Replicas : f[i] = f[j] => i = j
    BY <1>8 DEF NoCollision, f
  <2>2. f \in [1 .. Replicas -> Hashes(n)]
    BY <1>5 DEF Surjection
  <2>3. f \in Injection(1 .. Replicas, Hashes(n))
    BY <2>1, <2>2 DEF Injection, IsInjective
  <2> QED
    BY <1>5, <1>6, <2>3, FS_Surjection
<1> QED
  BY <1>2, <1>4, <1>7, <1>8 DEF f

\* The positions in the ring are finitely many.
LEMMA RangeFinite ==
  ASSUME NEW s \in Seq(Positions)
  PROVE  /\ IsFiniteSet(Range(s)) /\ Cardinality(Range(s)) \in Nat
         /\ Range(s) \subseteq Positions
         /\ s \in Surjection(DOMAIN s, Range(s))
         /\ Cardinality(DOMAIN s) = Len(s) /\ IsFiniteSet(DOMAIN s)
<1>1. DOMAIN s = 1 .. Len(s) /\ Len(s) \in Nat
  OBVIOUS
<1>2. s \in [DOMAIN s -> Range(s)]
  <2>1. \A i \in DOMAIN s : s[i] \in Range(s)
    BY DEF Range
  <2>2. s \in [DOMAIN s -> Positions]
    BY <1>1
  <2> QED
    BY <2>1, <2>2
<1>3. s \in Surjection(DOMAIN s, Range(s))
  BY <1>2 DEF Surjection, Range
<1>4. IsFiniteSet(DOMAIN s) /\ Cardinality(DOMAIN s) = Len(s)
  BY <1>1, FS_Interval
<1>5. IsFiniteSet(Range(s))
  BY <1>3, <1>4, FS_Surjection
<1>6. Range(s) \subseteq Positions
  BY <1>1 DEF Range
<1> QED
  BY <1>3, <1>4, <1>5, <1>6, FS_CardinalityType

\* Two nodes share no position when there are no collisions.
LEMMA HashesDisjoint ==
  ASSUME NoCollision, NEW m \in Nodes, NEW n \in Nodes, NEW h,
         h \in Hashes(m), h \in Hashes(n)
  PROVE  m = n
BY DEF NoCollision, Hashes

-----------------------------------------------------------------------------
\* Add and Remove.

\* What Add does to slice and map.
LEMMA AddRing ==
  ASSUME RingInv, NEW name \in Nodes, Add(name)
  PROVE  /\ vnodes' \in Seq(Positions) /\ Sorted(vnodes')
         /\ Len(vnodes') = Len(vnodes) + Replicas
         /\ Range(vnodes') = Range(vnodes) \cup Hashes(name)
         /\ DOMAIN nodeMap' = DOMAIN nodeMap \cup Hashes(name)
         /\ \A h \in DOMAIN nodeMap' :
              nodeMap'[h] = IF h \in Hashes(name) THEN name ELSE nodeMap[h]
         /\ clients' = clients \cup {name} /\ name \notin clients
         /\ reading = {}
         /\ UNCHANGED <<hashKey, reading, key, l, r, found>>
<1> DEFINE s == vnodes \o hashKey[name]
<1>1. TypeOK
  BY DEF RingInv
<1>2. /\ vnodes \in Seq(Positions) /\ hashKey[name] \in Seq(Positions)
      /\ Len(hashKey[name]) = Replicas /\ Range(hashKey[name]) = Hashes(name)
  BY <1>1, HashesOfNode DEF TypeOK
<1>3. /\ s \in Seq(Positions) /\ Len(s) = Len(vnodes) + Replicas
      /\ Range(s) = Range(vnodes) \cup Hashes(name)
  BY <1>2, ConcatProperties, RangeConcatenation
<1>4. vnodes' = Sort(s)
  BY DEF Add, Insert, AddVnodes
<1> HIDE DEF s
<1>5. /\ vnodes' \in Seq(Positions) /\ Sorted(vnodes')
      /\ Len(vnodes') = Len(vnodes) + Replicas
      /\ Range(vnodes') = Range(vnodes) \cup Hashes(name)
  BY <1>3, <1>4, SortProperties
<1>6. nodeMap' = [h \in DOMAIN nodeMap \cup Hashes(name) |->
                    IF h \in Hashes(name) THEN name ELSE nodeMap[h]]
  BY DEF Add, Insert, AddVnodes
<1>7. /\ clients' = clients \cup {name} /\ name \notin clients /\ reading = {}
      /\ UNCHANGED <<hashKey, reading, key, l, r, found>>
  BY DEF Add, Insert, WriteLock
<1> QED
  BY <1>5, <1>6, <1>7

\* Add keeps the invariant.
LEMMA AddStep ==
  ASSUME RingInv, NEW name \in Nodes, Add(name)
  PROVE  RingInv'
<1> DEFINE H == Hashes(name)
           D == DOMAIN nodeMap
<1>1. /\ TypeOK /\ H \subseteq Positions /\ IsFiniteSet(H)
      /\ NoCollision => Cardinality(H) = Replicas
  BY HashesOfNode DEF RingInv
<1>2. D = Range(vnodes) /\ IsFiniteSet(D) /\ D \subseteq Positions /\ Cardinality(D) \in Nat
  BY <1>1, RangeFinite DEF RingInv, MapInv, TypeOK
<1>a. hashKey' = hashKey /\ clients' = clients \cup {name} /\ name \notin clients
  BY AddRing
<1>3. \A n \in Nodes : Hashes(n)' = Hashes(n)
  BY <1>a DEF Hashes
<1>b. DOMAIN nodeMap' = D \cup H
  BY AddRing
<1>4. TypeOK'
  <2>1. DOMAIN nodeMap' \subseteq Positions
    BY <1>1, <1>2, AddRing
  <2>2. \A h \in DOMAIN nodeMap' : nodeMap'[h] \in Nodes
    BY <1>1, AddRing DEF TypeOK
  <2>3. clients' \subseteq Nodes
    BY <1>1, AddRing DEF TypeOK
  <2> QED
    BY <1>1, <2>1, <2>2, <2>3, AddRing DEF TypeOK
<1>5. MapInv'
  <2>1. DOMAIN nodeMap' = Range(vnodes')
    BY <1>2, AddRing
  <2>2. ASSUME NEW h \in DOMAIN nodeMap', NEW n \in Nodes, nodeMap'[h] = n
        PROVE  n \in clients' /\ h \in Hashes(n)'
    <3>1. CASE h \in H
      <4>1. n = name
        BY <2>2, <3>1, AddRing
      <4> QED
        BY <1>a, <1>3, <3>1, <4>1
    <3>2. CASE h \notin H
      <4>1. h \in DOMAIN nodeMap /\ nodeMap[h] = n
        BY <2>2, <3>2, AddRing
      <4>2. n \in clients /\ h \in Hashes(n)
        BY <4>1 DEF RingInv, MapInv
      <4> QED
        BY <1>a, <1>3, <4>2
    <3> QED
      BY <3>1, <3>2
  <2>3. Sorted(vnodes')
    BY AddRing
  <2> QED
    BY <2>1, <2>2, <2>3 DEF MapInv
<1>6. CountInv'
  <2>1. IsFiniteSet(clients) /\ Cardinality(clients) \in Nat
    BY FS_CardinalityType DEF RingInv, CountInv
  <2>2. IsFiniteSet(clients') /\ Cardinality(clients') = Cardinality(clients) + 1
    BY <1>a, <2>1, FS_AddElement
  <2>3. NoCollision' <=> NoCollision
    BY <1>a DEF NoCollision
  <2>4. ASSUME NoCollision
        PROVE  /\ \A n \in clients' : Hashes(n)' \subseteq DOMAIN nodeMap'
               /\ Cardinality(DOMAIN nodeMap') = Replicas * Cardinality(clients')
               /\ Len(vnodes') = Cardinality(DOMAIN nodeMap')
    <3>1. D \cap H = {}
      <4>1. ASSUME NEW h \in D, h \in H PROVE FALSE
        <5>1. nodeMap[h] \in clients /\ h \in Hashes(nodeMap[h]) /\ nodeMap[h] \in Nodes
          BY <1>1, <4>1 DEF RingInv, MapInv, TypeOK
        <5>2. nodeMap[h] = name
          BY <2>4, <4>1, <5>1, HashesDisjoint
        <5> QED
          BY <5>1, <5>2, AddRing
      <4> QED
        BY <4>1
    <3>2. Cardinality(D \cup H) = Cardinality(D) + Replicas
      <4>1. Cardinality(D \cup H) = Cardinality(D) + Cardinality(H) - Cardinality(D \cap H)
        BY <1>1, <1>2, FS_Union
      <4>2. Cardinality(D \cap H) = 0 /\ Cardinality(H) = Replicas
        BY <1>1, <2>4, <3>1, FS_EmptySet
      <4> QED
        BY <1>2, <4>1, <4>2, RingAssumption
    <3>3. /\ Cardinality(D) = Replicas * Cardinality(clients)
          /\ Len(vnodes) = Cardinality(D)
          /\ \A n \in clients : Hashes(n) \subseteq D
      BY <2>4 DEF RingInv, CountInv
    <3>4. Replicas * (Cardinality(clients) + 1) = Replicas * Cardinality(clients) + Replicas
      BY <2>1, RingAssumption
    <3>5. Cardinality(DOMAIN nodeMap') = Replicas * Cardinality(clients')
      BY <2>2, <3>2, <3>3, <3>4, AddRing
    <3>6. Len(vnodes') = Cardinality(DOMAIN nodeMap')
      BY <3>2, <3>3, AddRing
    <3>7. ASSUME NEW n \in clients' PROVE Hashes(n)' \subseteq DOMAIN nodeMap'
      <4>1. n \in Nodes
        BY <1>4 DEF TypeOK
      <4>2. Hashes(n) \subseteq D \cup H
        BY <3>3, AddRing
      <4> QED
        BY <1>3, <1>b, <4>1, <4>2
    <3> QED
      BY <3>5, <3>6, <3>7
  <2> QED
    BY <2>2, <2>3, <2>4 DEF CountInv
<1>7. SearchInv'
  BY AddRing DEF SearchInv
<1> QED
  BY <1>4, <1>5, <1>6, <1>7 DEF RingInv

\* What Remove does to slice and map.
LEMMA RemoveRing ==
  ASSUME RingInv, NEW name \in Nodes, Remove(name)
  PROVE  /\ vnodes' \in Seq(Positions) /\ Sorted(vnodes')
         /\ Len(vnodes') =
              Cardinality({i \in DOMAIN vnodes : vnodes[i] \notin Hashes(name)})
         /\ Range(vnodes') = Range(vnodes) \ Hashes(name)
         /\ DOMAIN nodeMap' = DOMAIN nodeMap \ Hashes(name)
         /\ \A h \in DOMAIN nodeMap' : nodeMap'[h] = nodeMap[h]
         /\ clients' = clients \ {name}
         /\ reading = {}
         /\ UNCHANGED <<hashKey, reading, key, l, r, found>>
<1>1. vnodes \in Seq(Positions) /\ Sorted(vnodes)
  BY DEF RingInv, TypeOK, MapInv
<1>2. vnodes' = Filter(vnodes, Hashes(name))
  BY DEF Remove, Drop
<1>3. nodeMap' = [h \in DOMAIN nodeMap \ Hashes(name) |-> nodeMap[h]]
  BY DEF Remove, Drop
<1>4. /\ clients' = clients \ {name} /\ reading = {}
      /\ UNCHANGED <<hashKey, reading, key, l, r, found>>
  BY DEF Remove, WriteLock
<1>5. /\ vnodes' \in Seq(Positions) /\ Sorted(vnodes')
      /\ Len(vnodes') =
           Cardinality({i \in DOMAIN vnodes : vnodes[i] \notin Hashes(name)})
      /\ Range(vnodes') = Range(vnodes) \ Hashes(name)
  BY <1>1, <1>2, FilterProperties
<1> QED
  BY <1>3, <1>4, <1>5

\* Remove keeps the invariant.
LEMMA RemoveStep ==
  ASSUME RingInv, NEW name \in Nodes, Remove(name)
  PROVE  RingInv'
<1> DEFINE H == Hashes(name)
           D == DOMAIN nodeMap
<1>1. /\ TypeOK /\ H \subseteq Positions /\ IsFiniteSet(H)
      /\ NoCollision => Cardinality(H) = Replicas
  BY HashesOfNode DEF RingInv
<1>2. /\ D = Range(vnodes) /\ IsFiniteSet(D) /\ D \subseteq Positions /\ Cardinality(D) \in Nat
      /\ vnodes \in Surjection(DOMAIN vnodes, D)
      /\ IsFiniteSet(DOMAIN vnodes) /\ Cardinality(DOMAIN vnodes) = Len(vnodes)
  BY <1>1, RangeFinite DEF RingInv, MapInv, TypeOK
<1>a. hashKey' = hashKey /\ clients' = clients \ {name}
  BY RemoveRing
<1>3. \A n \in Nodes : Hashes(n)' = Hashes(n)
  BY <1>a DEF Hashes
<1>b. DOMAIN nodeMap' = D \ H
  BY RemoveRing
<1>4. TypeOK'
  BY <1>1, RemoveRing DEF TypeOK
<1>5. MapInv'
  <2>1. DOMAIN nodeMap' = Range(vnodes')
    BY <1>2, RemoveRing
  <2>2. ASSUME NEW h \in DOMAIN nodeMap', NEW n \in Nodes, nodeMap'[h] = n
        PROVE  n \in clients' /\ h \in Hashes(n)'
    <3>1. h \in D /\ h \notin H /\ nodeMap[h] = n
      BY <2>2, RemoveRing
    <3>2. n \in clients /\ h \in Hashes(n)
      BY <3>1 DEF RingInv, MapInv
    <3>3. n # name
      BY <3>1, <3>2
    <3> QED
      BY <1>a, <1>3, <3>2, <3>3
  <2>3. Sorted(vnodes')
    BY RemoveRing
  <2> QED
    BY <2>1, <2>2, <2>3 DEF MapInv
<1>6. CountInv'
  <2>1. IsFiniteSet(clients) /\ Cardinality(clients) \in Nat
    BY FS_CardinalityType DEF RingInv, CountInv
  <2>2. /\ IsFiniteSet(clients')
        /\ Cardinality(clients') = IF name \in clients THEN Cardinality(clients) - 1
                                   ELSE Cardinality(clients)
    BY <1>a, <2>1, FS_RemoveElement
  <2>3. NoCollision' <=> NoCollision
    BY <1>a DEF NoCollision
  <2>4. ASSUME NoCollision
        PROVE  /\ \A n \in clients' : Hashes(n)' \subseteq DOMAIN nodeMap'
               /\ Cardinality(DOMAIN nodeMap') = Replicas * Cardinality(clients')
               /\ Len(vnodes') = Cardinality(DOMAIN nodeMap')
    <3>1. /\ Cardinality(D) = Replicas * Cardinality(clients)
          /\ Len(vnodes) = Cardinality(D)
          /\ \A n \in clients : Hashes(n) \subseteq D
      BY <2>4 DEF RingInv, CountInv
    <3>2. Cardinality(D \ H) = Cardinality(D) - Cardinality(D \cap H)
      BY <1>2, FS_Difference
    <3>3. D \cap H = IF name \in clients THEN H ELSE {}
      <4>1. CASE name \in clients
        BY <3>1, <4>1
      <4>2. ASSUME name \notin clients, NEW h \in D, h \in H PROVE FALSE
        <5>1. nodeMap[h] \in clients /\ h \in Hashes(nodeMap[h]) /\ nodeMap[h] \in Nodes
          BY <1>1 DEF RingInv, MapInv, TypeOK
        <5>2. nodeMap[h] = name
          BY <2>4, <4>2, <5>1, HashesDisjoint
        <5> QED
          BY <4>2, <5>1, <5>2
      <4> QED
        BY <4>1, <4>2
    <3>4. /\ Replicas \in Nat
          /\ Replicas * (Cardinality(clients) - 1) = Replicas * Cardinality(clients) - Replicas
      BY <2>1, RingAssumption
    <3>5. Cardinality(D \ H) = Replicas * Cardinality(clients')
      <4>1. CASE name \in clients
        BY <1>1, <2>2, <2>4, <3>1, <3>2, <3>3, <3>4, <4>1
      <4>2. CASE name \notin clients
        BY <1>2, <2>2, <3>1, <3>2, <3>3, <4>2, FS_EmptySet
      <4> QED
        BY <4>1, <4>2
    <3>6. Len(vnodes') = Cardinality(D \ H)
      <4> DEFINE kept == {i \in DOMAIN vnodes : vnodes[i] \notin H}
                 g == [i \in kept |-> vnodes[i]]
      <4>1. vnodes \in Injection(DOMAIN vnodes, D)
        BY <1>2, <3>1, FS_SurjSameCardinalityImpliesInj
      <4>2. /\ \A i \in DOMAIN vnodes : vnodes[i] \in D
            /\ \A i, j \in DOMAIN vnodes : vnodes[i] = vnodes[j] => i = j
            /\ \A h \in D : \E i \in DOMAIN vnodes : vnodes[i] = h
        BY <1>2, <4>1 DEF Injection, Surjection, IsInjective
      <4>3. g \in [kept -> D \ H] /\ \A i \in kept : g[i] = vnodes[i] /\ i \in DOMAIN vnodes
        BY <4>2
      <4>4. \A h \in D \ H : \E i \in kept : g[i] = h
        BY <4>2
      <4>5. IsFiniteSet(kept)
        <5>1. kept \in SUBSET DOMAIN vnodes
          OBVIOUS
        <5> QED
          BY <1>2, <5>1, FS_Subset
      <4> HIDE DEF g, kept
      <4>6. g \in Surjection(kept, D \ H)
        BY <4>3, <4>4 DEF Surjection
      <4>7. g \in Injection(kept, D \ H)
        BY <4>2, <4>3 DEF Injection, IsInjective
      <4>8. Cardinality(D \ H) = Cardinality(kept)
        BY <4>5, <4>6, <4>7, FS_Surjection
      <4> QED
        BY <4>8, RemoveRing DEF kept
    <3>7. ASSUME NEW n \in clients' PROVE Hashes(n)' \subseteq DOMAIN nodeMap'
      <4>1. n \in Nodes /\ n \in clients /\ n # name
        BY <1>4, RemoveRing DEF TypeOK
      <4>2. \A h \in Hashes(n) : h \in D /\ h \notin H
        BY <2>4, <3>1, <4>1, HashesDisjoint
      <4> QED
        BY <1>3, <1>b, <4>1, <4>2
    <3> QED
      BY <1>b, <3>5, <3>6, <3>7
  <2> QED
    BY <2>2, <2>3, <2>4 DEF CountInv
<1>7. SearchInv'
  BY RemoveRing DEF SearchInv
<1> QED
  BY <1>4, <1>5, <1>6, <1>7 DEF RingInv

-----------------------------------------------------------------------------
\* Lookups.

\* A step that leaves the ring alone leaves the invariant to types and bounds.
LEMMA LookupFrame ==
  ASSUME RingInv, UNCHANGED <<hashKey, ring>>, TypeOK', SearchInv'
  PROVE  RingInv'
<1>1. hashKey' = hashKey /\ vnodes' = vnodes /\ nodeMap' = nodeMap /\ clients' = clients
  BY DEF ring
<1>2. \A n \in Nodes : Hashes(n)' = Hashes(n)
  BY <1>1 DEF Hashes
<1>3. MapInv'
  BY <1>1, <1>2 DEF RingInv, MapInv
<1>4. NoCollision' <=> NoCollision
  BY <1>1 DEF NoCollision
<1>5. clients \subseteq Nodes
  BY DEF RingInv, TypeOK
<1>6. CountInv'
  BY <1>1, <1>2, <1>4, <1>5 DEF RingInv, CountInv
<1> QED
  BY <1>3, <1>6 DEF RingInv

\* A lookup starts with the whole slice.
LEMMA LookupStep ==
  ASSUME RingInv, NEW p \in Lookups, NEW h \in Positions, Lookup(p, h)
  PROVE  RingInv'
<1>1. TypeOK /\ UNCHANGED <<hashKey, ring>> /\ vnodes' = vnodes
  BY DEF RingInv, Lookup, ring
<1>2. DOMAIN vnodes = 1 .. Len(vnodes) /\ Len(vnodes) \in Nat
  BY <1>1 DEF TypeOK
<1>3. found' \in [Lookups -> Nodes \cup {NoNode}]
  BY <1>1 DEF Lookup, TypeOK
<1>4. CASE vnodes = <<>>
  <2>1. UNCHANGED <<reading, key, l, r>>
    BY <1>4 DEF Lookup
  <2>2. TypeOK'
    BY <1>1, <1>3, <2>1 DEF TypeOK, ring
  <2>3. SearchInv'
    BY <1>1, <2>1 DEF RingInv, SearchInv
  <2> QED
    BY <1>1, <2>2, <2>3, LookupFrame
<1>5. CASE vnodes # <<>>
  <2>1. /\ reading' = reading \cup {p} /\ p \notin reading
        /\ key' = [key EXCEPT ![p] = h] /\ l' = [l EXCEPT ![p] = 1]
        /\ r' = [r EXCEPT ![p] = Len(vnodes) + 1]
    BY <1>5 DEF Lookup
  <2>2. /\ key' \in [Lookups -> Positions] /\ l' \in [Lookups -> Nat]
        /\ r' \in [Lookups -> Nat] /\ reading' \subseteq Lookups
    BY <1>1, <1>2, <2>1 DEF TypeOK
  <2>3. TypeOK'
    BY <1>1, <1>3, <2>2 DEF TypeOK, ring
  <2>4. /\ key'[p] = h /\ l'[p] = 1 /\ r'[p] = Len(vnodes) + 1
        /\ \A q \in Lookups \ {p} : key'[q] = key[q] /\ l'[q] = l[q] /\ r'[q] = r[q]
    BY <1>1, <2>1 DEF TypeOK
  <2>5. ASSUME NEW q \in reading'
        PROVE  /\ vnodes # <<>>
               /\ l'[q] \in 1 .. Len(vnodes) + 1 /\ r'[q] \in 1 .. Len(vnodes) + 1
               /\ l'[q] <= r'[q]
               /\ \A i \in DOMAIN vnodes : i < l'[q] => vnodes[i] < key'[q]
               /\ \A i \in DOMAIN vnodes : i >= r'[q] => vnodes[i] > key'[q]
    <3>1. CASE q = p
      BY <1>2, <1>5, <2>4, <3>1
    <3>2. CASE q # p
      <4>1. q \in reading /\ q \in Lookups \ {p}
        BY <1>1, <2>1, <3>2 DEF TypeOK
      <4> QED
        BY <2>4, <4>1 DEF RingInv, SearchInv
    <3> QED
      BY <3>1, <3>2
  <2>6. SearchInv'
    BY <1>1, <2>5 DEF SearchInv
  <2> QED
    BY <1>1, <2>3, <2>6, LookupFrame
<1> QED
  BY <1>4, <1>5

\* An index in the slice leads to a node.
LEMMA IndexHasNode ==
  ASSUME RingInv, NEW i \in DOMAIN vnodes
  PROVE  vnodes[i] \in DOMAIN nodeMap /\ nodeMap[vnodes[i]] \in Nodes
<1>1. vnodes[i] \in DOMAIN nodeMap
  BY DEF RingInv, MapInv, Range
<1> QED
  BY <1>1 DEF RingInv, TypeOK

\* A lookup that returns gives up the lock.
LEMMA ReturnStep ==
  ASSUME RingInv, NEW p \in reading, NEW i \in 1 .. Len(vnodes) + 1, Return(p, i),
         UNCHANGED <<hashKey, ring>>
  PROVE  RingInv'
<1>1. TypeOK /\ p \in Lookups /\ vnodes # <<>> /\ vnodes \in Seq(Positions) /\ vnodes' = vnodes
  BY DEF RingInv, SearchInv, TypeOK, ring
<1>2. DOMAIN vnodes = 1 .. Len(vnodes) /\ Len(vnodes) \in Nat /\ Len(vnodes) # 0
  BY <1>1
<1> DEFINE j == IF i = Len(vnodes) + 1 THEN 1 ELSE i
<1>3. j \in DOMAIN vnodes
  BY <1>2
<1>4. found' = [found EXCEPT ![p] = nodeMap[vnodes[j]]]
  BY DEF Return
<1>5. nodeMap[vnodes[j]] \in Nodes
  BY <1>3, IndexHasNode
<1> HIDE DEF j
<1>6. found' \in [Lookups -> Nodes \cup {NoNode}]
  BY <1>1, <1>4, <1>5 DEF TypeOK
<1>7. AnyPosition \in Positions
  BY RingAssumption DEF AnyPosition
<1>8. /\ reading' = reading \ {p} /\ key' = [key EXCEPT ![p] = AnyPosition]
      /\ l' = [l EXCEPT ![p] = 1] /\ r' = [r EXCEPT ![p] = 1]
  BY DEF Return, End
<1>9. TypeOK'
  <2>1. /\ key' \in [Lookups -> Positions] /\ l' \in [Lookups -> Nat]
        /\ r' \in [Lookups -> Nat] /\ reading' \subseteq Lookups
    BY <1>1, <1>7, <1>8 DEF TypeOK
  <2> QED
    BY <1>1, <1>6, <2>1 DEF TypeOK, ring
<1>10. SearchInv'
  <2>1. \A q \in reading' : /\ q \in reading
                            /\ key'[q] = key[q] /\ l'[q] = l[q] /\ r'[q] = r[q]
    BY <1>1, <1>8 DEF TypeOK
  <2> QED
    BY <1>1, <2>1 DEF RingInv, SearchInv
<1> QED
  BY <1>9, <1>10, LookupFrame

\* The middle of a search.
LEMMA MiddleOfSearch ==
  ASSUME RingInv, NEW p \in reading, l[p] < r[p]
  PROVE  LET m == l[p] + (r[p] - l[p]) \div 2 IN
         m \in DOMAIN vnodes /\ m \in Nat /\ l[p] <= m /\ m < r[p] /\ m <= Len(vnodes)
<1>1. /\ l[p] \in 1 .. Len(vnodes) + 1 /\ r[p] \in 1 .. Len(vnodes) + 1
      /\ DOMAIN vnodes = 1 .. Len(vnodes) /\ Len(vnodes) \in Nat
  BY DEF RingInv, SearchInv, TypeOK
<1> DEFINE d == r[p] - l[p]
<1>2. d \in Nat /\ d > 0
  BY <1>1
<1>3. d \div 2 \in Nat /\ d \div 2 < d
  BY <1>2
<1> QED
  BY <1>1, <1>3

\* A round of a search keeps the bounds around the first position.
LEMMA RoundStep ==
  ASSUME RingInv, NEW p \in Lookups, Round(p)
  PROVE  RingInv'
<1> DEFINE m == l[p] + (r[p] - l[p]) \div 2
<1>1. /\ TypeOK /\ UNCHANGED <<hashKey, ring>> /\ vnodes' = vnodes
      /\ p \in reading /\ l[p] < r[p]
  BY DEF RingInv, Round, ring
<1>2. m \in DOMAIN vnodes /\ m \in Nat /\ l[p] <= m /\ m < r[p] /\ m <= Len(vnodes)
  BY <1>1, MiddleOfSearch
<1>3. /\ DOMAIN vnodes = 1 .. Len(vnodes) /\ Len(vnodes) \in Nat
      /\ \A i \in DOMAIN vnodes : vnodes[i] \in Nat
      /\ key[p] \in Nat
  <2>1. /\ DOMAIN vnodes = 1 .. Len(vnodes) /\ Len(vnodes) \in Nat
        /\ \A i \in DOMAIN vnodes : vnodes[i] \in Positions
        /\ key[p] \in Positions
    BY <1>1 DEF TypeOK
  <2> QED
    BY <2>1, RingAssumption
<1>4. \/ /\ vnodes[m] < key[p]
         /\ l' = [l EXCEPT ![p] = m + 1]
         /\ UNCHANGED <<reading, key, r, found>>
      \/ /\ vnodes[m] > key[p]
         /\ r' = [r EXCEPT ![p] = m]
         /\ UNCHANGED <<reading, key, l, found>>
      \/ vnodes[m] = key[p] /\ Return(p, m)
  BY DEF Round
<1> HIDE DEF m
<1>5. Sorted(vnodes)
  BY DEF RingInv, MapInv
<1>6. /\ vnodes # <<>>
      /\ l[p] \in 1 .. Len(vnodes) + 1 /\ r[p] \in 1 .. Len(vnodes) + 1
      /\ \A i \in DOMAIN vnodes : i < l[p] => vnodes[i] < key[p]
      /\ \A i \in DOMAIN vnodes : i >= r[p] => vnodes[i] > key[p]
  BY <1>1 DEF RingInv, SearchInv
<1>7. CASE /\ vnodes[m] < key[p] /\ l' = [l EXCEPT ![p] = m + 1]
           /\ UNCHANGED <<reading, key, r, found>>
  <2>1. l' \in [Lookups -> Nat]
    BY <1>1, <1>2, <1>7 DEF TypeOK
  <2>2. TypeOK'
    BY <1>1, <1>7, <2>1 DEF TypeOK, ring
  <2>3. l'[p] = m + 1 /\ \A q \in Lookups \ {p} : l'[q] = l[q]
    BY <1>1, <1>7 DEF TypeOK
  <2>4. \A i \in DOMAIN vnodes : i < m + 1 => vnodes[i] < key[p]
    <3> SUFFICES ASSUME NEW i \in DOMAIN vnodes, i < m + 1 PROVE vnodes[i] < key[p]
      OBVIOUS
    <3>1. vnodes[i] <= vnodes[m]
      BY <1>2, <1>3, <1>5 DEF Sorted
    <3> QED
      BY <1>2, <1>3, <1>7, <3>1
  <2>5. m + 1 \in 1 .. Len(vnodes) + 1 /\ m + 1 <= r[p]
    BY <1>2, <1>3, <1>6
  <2>6. SearchInv'
    <3> SUFFICES ASSUME NEW q \in reading
                 PROVE  /\ vnodes # <<>>
                        /\ l'[q] \in 1 .. Len(vnodes) + 1 /\ r[q] \in 1 .. Len(vnodes) + 1
                        /\ l'[q] <= r[q]
                        /\ \A i \in DOMAIN vnodes : i < l'[q] => vnodes[i] < key[q]
                        /\ \A i \in DOMAIN vnodes : i >= r[q] => vnodes[i] > key[q]
      BY <1>1, <1>7 DEF SearchInv
    <3>1. CASE q = p
      BY <1>6, <2>3, <2>4, <2>5, <3>1
    <3>2. CASE q # p
      <4>1. q \in Lookups \ {p}
        BY <1>1, <3>2 DEF TypeOK
      <4> QED
        BY <2>3, <4>1 DEF RingInv, SearchInv
    <3> QED
      BY <3>1, <3>2
  <2> QED
    BY <1>1, <2>2, <2>6, LookupFrame
<1>8. CASE /\ vnodes[m] > key[p] /\ r' = [r EXCEPT ![p] = m]
           /\ UNCHANGED <<reading, key, l, found>>
  <2>1. r' \in [Lookups -> Nat]
    BY <1>1, <1>2, <1>8 DEF TypeOK
  <2>2. TypeOK'
    BY <1>1, <1>8, <2>1 DEF TypeOK, ring
  <2>3. r'[p] = m /\ \A q \in Lookups \ {p} : r'[q] = r[q]
    BY <1>1, <1>8 DEF TypeOK
  <2>4. \A i \in DOMAIN vnodes : i >= m => vnodes[i] > key[p]
    <3> SUFFICES ASSUME NEW i \in DOMAIN vnodes, i >= m PROVE vnodes[i] > key[p]
      OBVIOUS
    <3>1. vnodes[m] <= vnodes[i]
      BY <1>2, <1>3, <1>5 DEF Sorted
    <3> QED
      BY <1>2, <1>3, <1>8, <3>1
  <2>5. m \in 1 .. Len(vnodes) + 1 /\ l[p] <= m
    BY <1>2, <1>3
  <2>6. SearchInv'
    <3> SUFFICES ASSUME NEW q \in reading
                 PROVE  /\ vnodes # <<>>
                        /\ l[q] \in 1 .. Len(vnodes) + 1 /\ r'[q] \in 1 .. Len(vnodes) + 1
                        /\ l[q] <= r'[q]
                        /\ \A i \in DOMAIN vnodes : i < l[q] => vnodes[i] < key[q]
                        /\ \A i \in DOMAIN vnodes : i >= r'[q] => vnodes[i] > key[q]
      BY <1>1, <1>8 DEF SearchInv
    <3>1. CASE q = p
      BY <1>6, <2>3, <2>4, <2>5, <3>1
    <3>2. CASE q # p
      <4>1. q \in Lookups \ {p}
        BY <1>1, <3>2 DEF TypeOK
      <4> QED
        BY <2>3, <4>1 DEF RingInv, SearchInv
    <3> QED
      BY <3>1, <3>2
  <2> QED
    BY <1>1, <2>2, <2>6, LookupFrame
<1>9. CASE vnodes[m] = key[p] /\ Return(p, m)
  <2>1. m \in 1 .. Len(vnodes) + 1
    BY <1>2, <1>3
  <2> QED
    BY <1>1, <1>9, <2>1, ReturnStep
<1> QED
  BY <1>4, <1>7, <1>8, <1>9

\* RingInv is inductive.
LEMMA RingStep == RingInv /\ [Next]_vars => RingInv'
<1> SUFFICES ASSUME RingInv, [Next]_vars PROVE RingInv'
  OBVIOUS
<1>1. ASSUME NEW name \in Nodes, Add(name) \/ Remove(name) PROVE RingInv'
  BY <1>1, AddStep, RemoveStep
<1>2. ASSUME NEW p \in Lookups, NEW h \in Positions, Lookup(p, h) PROVE RingInv'
  BY <1>2, LookupStep
<1>3. ASSUME NEW p \in Lookups, Round(p) PROVE RingInv'
  BY <1>3, RoundStep
<1>4. ASSUME NEW p \in Lookups, Found(p) PROVE RingInv'
  <2>1. p \in reading /\ Return(p, l[p]) /\ UNCHANGED <<hashKey, ring>>
    BY <1>4 DEF Found
  <2>2. l[p] \in 1 .. Len(vnodes) + 1
    BY <2>1 DEF RingInv, SearchInv
  <2> QED
    BY <2>1, <2>2, ReturnStep
<1>5. CASE UNCHANGED vars
  <2>1. UNCHANGED <<hashKey, ring, reading, key, l, r, found>>
    BY <1>5 DEF vars
  <2>2. TypeOK'
    BY <2>1 DEF RingInv, TypeOK, ring
  <2>3. SearchInv'
    BY <2>1 DEF RingInv, SearchInv, ring
  <2> QED
    BY <2>1, <2>2, <2>3, LookupFrame
<1> QED
  BY <1>1, <1>2, <1>3, <1>4, <1>5 DEF Next

\* An empty ring satisfies it.
LEMMA RingInit == Init => RingInv
<1> SUFFICES ASSUME Init PROVE RingInv
  OBVIOUS
<1>1. AnyPosition \in Positions
  BY RingAssumption DEF AnyPosition
<1>2. vnodes = <<>> /\ DOMAIN vnodes = {} /\ DOMAIN nodeMap = {} /\ Len(vnodes) = 0
  BY DEF Init
<1>3. TypeOK
  BY <1>1, <1>2 DEF Init, TypeOK
<1>4. MapInv
  BY <1>2 DEF MapInv, Sorted, Range
<1>5. CountInv
  <2>1. clients = {} /\ IsFiniteSet(clients) /\ Cardinality(clients) = 0
    BY FS_EmptySet DEF Init
  <2>2. Cardinality(DOMAIN nodeMap) = 0
    BY <1>2, FS_EmptySet
  <2>3. Replicas * 0 = 0
    BY RingAssumption
  <2> QED
    BY <1>2, <2>1, <2>2, <2>3 DEF CountInv
<1>6. SearchInv
  BY DEF Init, SearchInv
<1> QED
  BY <1>3, <1>4, <1>5, <1>6 DEF RingInv

-----------------------------------------------------------------------------
\* The theorems.

\* The ring's state stays well typed; a search never leaves the slice, and a
\* lookup returns a node or, for an empty ring, none.
THEOREM RingTypeCorrect == Spec => []TypeOK
<1>1. RingInv => TypeOK
  BY DEF RingInv
<1> QED
  BY <1>1, RingInit, RingStep, PTL DEF Spec

\* Whatever is added, added again and removed, and whatever collides, every
\* position of the ring belongs to a node that has a client.
THEOREM OwnersAlwaysHaveClients == Spec => []OwnersHaveClients
<1>1. RingInv => OwnersHaveClients
  <2> SUFFICES ASSUME RingInv PROVE OwnersHaveClients
    OBVIOUS
  <2>1. \A h \in DOMAIN nodeMap : nodeMap[h] \in Nodes
    BY DEF RingInv, TypeOK
  <2> QED
    BY <2>1 DEF RingInv, MapInv, OwnersHaveClients, Range
<1> QED
  BY <1>1, RingInit, RingStep, PTL DEF Spec

\* Without collisions the ring is determined by the nodes in it, in whatever
\* order they came and went.
THEOREM MembersMakeTheRing == Spec => []RingOfMembers
<1>1. RingInv => RingOfMembers
  <2> SUFFICES ASSUME RingInv, NoCollision
               PROVE  /\ DOMAIN nodeMap = UNION {Hashes(n) : n \in clients}
                      /\ \A n \in clients : \A h \in Hashes(n) : nodeMap[h] = n
                      /\ Len(vnodes) = Replicas * Cardinality(clients)
    BY DEF RingOfMembers
  <2>1. /\ \A h \in DOMAIN nodeMap : nodeMap[h] \in Nodes /\ nodeMap[h] \in clients
                                     /\ h \in Hashes(nodeMap[h])
        /\ clients \subseteq Nodes
    BY DEF RingInv, TypeOK, MapInv
  <2>2. /\ \A n \in clients : Hashes(n) \subseteq DOMAIN nodeMap
        /\ Len(vnodes) = Replicas * Cardinality(clients)
    BY DEF RingInv, CountInv
  <2>3. ASSUME NEW n \in clients, NEW h \in Hashes(n) PROVE nodeMap[h] = n
    BY <2>1, <2>2, HashesDisjoint
  <2>4. DOMAIN nodeMap = UNION {Hashes(n) : n \in clients}
    BY <2>1, <2>2
  <2> QED
    BY <2>2, <2>3, <2>4
<1> QED
  BY <1>1, RingInit, RingStep, PTL DEF Spec

\* What a lookup returns is the owner of its key.
LEMMA ReturnsOwner ==
  ASSUME RingInv, [Next]_vars, NEW p \in Lookups, p \in reading \ reading'
  PROVE  found'[p] = Owner(key[p])
<1>1. /\ TypeOK /\ DOMAIN nodeMap = Range(vnodes) /\ Sorted(vnodes)
      /\ vnodes \in Seq(Positions) /\ key[p] \in Positions
  BY DEF RingInv, MapInv, TypeOK
<1>2. /\ vnodes \in Seq(Nat) /\ key[p] \in Nat /\ DOMAIN nodeMap \subseteq Nat
      /\ DOMAIN vnodes = 1 .. Len(vnodes) /\ Len(vnodes) \in Nat
  <2>1. vnodes \in Seq(Nat)
    BY <1>1, RingAssumption, SeqMonotonic
  <2>2. DOMAIN nodeMap \subseteq Positions
    BY <1>1, RangeFinite
  <2>3. key[p] \in Nat /\ DOMAIN nodeMap \subseteq Nat
    BY <1>1, <2>2, RingAssumption
  <2>4. DOMAIN vnodes = 1 .. Len(vnodes) /\ Len(vnodes) \in Nat
    BY <1>1
  <2> QED
    BY <2>1, <2>3, <2>4
<1>3. Owner(key[p]) = OwnerIn(nodeMap, key[p])
  BY DEF Owner, OwnerIn
<1>4. Round(p) \/ Found(p)
  <2>1. \A name \in Nodes : ~Add(name) /\ ~Remove(name)
    BY DEF Add, Insert, Remove
  <2>2. \A q \in Lookups, h \in Positions : ~Lookup(q, h)
    BY DEF Lookup
  <2>3. \A q \in Lookups : Round(q) \/ Found(q) => q = p
    BY DEF Round, Found, Return, End
  <2>4. ~UNCHANGED vars
    BY DEF vars
  <2> QED
    BY <2>1, <2>2, <2>3, <2>4 DEF Next
<1> DEFINE At(i) == IF i = Len(vnodes) + 1 THEN 1 ELSE i
<1>5. ASSUME NEW i, Return(p, i), First(nodeMap, key[p], vnodes[At(i)])
      PROVE  found'[p] = Owner(key[p])
  <2>1. found'[p] = nodeMap[vnodes[At(i)]]
    BY <1>1, <1>5 DEF Return, TypeOK
  <2>2. OwnerIn(nodeMap, key[p]) = nodeMap[vnodes[At(i)]]
    BY <1>2, <1>5, OwnerAtFirst
  <2> QED
    BY <1>3, <2>1, <2>2
<1>6. CASE Round(p)
  <2> DEFINE m == l[p] + (r[p] - l[p]) \div 2
  <2>1. m \in DOMAIN vnodes /\ m \in Nat /\ m <= Len(vnodes)
    BY <1>6, MiddleOfSearch DEF Round
  <2>2. vnodes[m] = key[p] /\ Return(p, m)
    BY <1>6 DEF Round
  <2> HIDE DEF m
  <2>3. At(m) = m
    BY <1>2, <2>1
  <2>4. vnodes[m] \in DOMAIN nodeMap
    BY <2>1, IndexHasNode
  <2>5. \A g \in DOMAIN nodeMap : Sooner(key[p], key[p], g)
    BY <1>2 DEF Sooner
  <2>6. First(nodeMap, key[p], vnodes[At(m)])
    BY <2>2, <2>3, <2>4, <2>5 DEF First
  <2> QED
    BY <1>5, <2>2, <2>6
<1>7. CASE Found(p)
  <2>1. Return(p, l[p]) /\ l[p] >= r[p]
    BY <1>7 DEF Found
  <2>2. /\ vnodes # <<>> /\ l[p] \in 1 .. Len(vnodes) + 1 /\ r[p] \in 1 .. Len(vnodes) + 1
        /\ l[p] <= r[p]
        /\ \A i \in DOMAIN vnodes : i < l[p] => vnodes[i] < key[p]
        /\ \A i \in DOMAIN vnodes : i >= r[p] => vnodes[i] > key[p]
    BY DEF RingInv, SearchInv
  <2>3. l[p] = r[p]
    BY <1>2, <2>1, <2>2
  <2>4. \A i \in DOMAIN vnodes : i >= l[p] => vnodes[i] >= key[p]
    BY <1>2, <2>2, <2>3
  <2>5. First(nodeMap, key[p], vnodes[At(l[p])])
    BY <1>1, <1>2, <2>2, <2>4, SearchEnds
  <2> QED
    BY <1>5, <2>1, <2>5
<1> QED
  BY <1>4, <1>6, <1>7

\* Every lookup returns the clockwise successor of its key in the ring as it is
\* when it returns, for any hash function and any Adds and Removes.
THEOREM LookupsRouteClockwise == Spec => RoutesClockwise
<1>1. RingInv /\ [Next]_vars =>
        [\A p \in Lookups : p \in reading \ reading' => found'[p] = Owner(key[p])]_vars
  BY ReturnsOwner
<1> QED
  BY <1>1, RingInit, RingStep, PTL DEF Spec, RoutesClockwise

\* Add moves keys to the new node alone.
LEMMA AddMoves ==
  ASSUME RingInv, [Next]_vars, NEW n \in Nodes, n \in clients' \ clients,
         DOMAIN nodeMap # {}, NEW k \in Positions
  PROVE  Owner(k)' \in {Owner(k), n}
<1>1. Add(n)
  <2>1. ASSUME NEW name \in Nodes, Add(name) PROVE name = n
    BY <2>1 DEF Add, Insert
  <2>2. \A name \in Nodes : ~Remove(name)
    BY DEF Remove
  <2>3. ASSUME clients' = clients PROVE FALSE
    BY <2>3
  <2>4. \A p \in Lookups : /\ \A h \in Positions : Lookup(p, h) => clients' = clients
                           /\ Round(p) \/ Found(p) => clients' = clients
    BY DEF Lookup, Round, Found, ring
  <2>5. UNCHANGED vars => clients' = clients
    BY DEF vars, ring
  <2> QED
    BY <2>1, <2>2, <2>3, <2>4, <2>5 DEF Next
<1>2. DOMAIN nodeMap \subseteq Nat /\ DOMAIN nodeMap' \subseteq Nat /\ k \in Nat
  <2>1. RingInv'
    BY RingStep
  <2>2. DOMAIN nodeMap \subseteq Positions /\ DOMAIN nodeMap' \subseteq Positions
    BY <2>1 DEF RingInv, TypeOK
  <2> QED
    BY <2>2, RingAssumption
<1>3. /\ DOMAIN nodeMap \subseteq DOMAIN nodeMap'
      /\ \A h \in DOMAIN nodeMap' :
           nodeMap'[h] = n \/ (h \in DOMAIN nodeMap /\ nodeMap'[h] = nodeMap[h])
  BY <1>1, AddRing
<1>4. OwnerIn(nodeMap', k) \in {OwnerIn(nodeMap, k), n}
  BY <1>2, <1>3, OwnerAfterAdd
<1>5. Owner(k) = OwnerIn(nodeMap, k) /\ Owner(k)' = OwnerIn(nodeMap', k)
  BY DEF Owner, OwnerIn
<1> QED
  BY <1>4, <1>5

\* Remove moves the keys of the removed node alone.
LEMMA RemoveMoves ==
  ASSUME RingInv, [Next]_vars, NEW n \in Nodes, n \in clients \ clients',
         DOMAIN nodeMap' # {}, NoCollision, NEW k \in Positions
  PROVE  Owner(k) \in {Owner(k)', n}
<1>1. Remove(n)
  <2>1. ASSUME NEW name \in Nodes, Remove(name) PROVE name = n
    BY <2>1 DEF Remove
  <2>2. \A name \in Nodes : ~Add(name)
    BY DEF Add, Insert
  <2>3. ASSUME clients' = clients PROVE FALSE
    BY <2>3
  <2>4. \A p \in Lookups : /\ \A h \in Positions : Lookup(p, h) => clients' = clients
                           /\ Round(p) \/ Found(p) => clients' = clients
    BY DEF Lookup, Round, Found, ring
  <2>5. UNCHANGED vars => clients' = clients
    BY DEF vars, ring
  <2> QED
    BY <2>1, <2>2, <2>3, <2>4, <2>5 DEF Next
<1>2. DOMAIN nodeMap \subseteq Nat /\ k \in Nat
  BY RingAssumption DEF RingInv, TypeOK
<1>3. ASSUME NEW h \in DOMAIN nodeMap
      PROVE  nodeMap[h] = n \/ (h \in DOMAIN nodeMap' /\ nodeMap'[h] = nodeMap[h])
  <2>1. CASE h \in Hashes(n)
    <3>1. nodeMap[h] \in Nodes
      BY DEF RingInv, TypeOK
    <3>2. h \in Hashes(nodeMap[h])
      BY <3>1 DEF RingInv, MapInv
    <3> QED
      BY <2>1, <3>1, <3>2, HashesDisjoint
  <2>2. CASE h \notin Hashes(n)
    BY <1>1, <2>2, RemoveRing
  <2> QED
    BY <2>1, <2>2
<1>4. DOMAIN nodeMap' \subseteq DOMAIN nodeMap
  BY <1>1, RemoveRing
<1>5. OwnerIn(nodeMap, k) \in {OwnerIn(nodeMap', k), n}
  BY <1>2, <1>3, <1>4, OwnerAfterRemove
<1>6. Owner(k) = OwnerIn(nodeMap, k) /\ Owner(k)' = OwnerIn(nodeMap', k)
  BY DEF Owner, OwnerIn
<1> QED
  BY <1>5, <1>6

\* "Adding or removing one node re-routes only" its own keys (ring.go): the
\* others keep their node, for every ring and every key.
THEOREM OtherKeysStay == Spec => OnlyItsKeysMove
<1>1. RingInv /\ [Next]_vars =>
        [\A n \in Nodes :
           /\ n \in clients' \ clients /\ DOMAIN nodeMap # {}
                => \A k \in Positions : Owner(k)' \in {Owner(k), n}
           /\ n \in clients \ clients' /\ DOMAIN nodeMap' # {} /\ NoCollision
                => \A k \in Positions : Owner(k) \in {Owner(k)', n}]_vars
  BY AddMoves, RemoveMoves
<1> QED
  BY <1>1, RingInit, RingStep, PTL DEF Spec, OnlyItsKeysMove
=============================================================================
