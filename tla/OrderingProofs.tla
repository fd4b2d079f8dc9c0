--------------------------- MODULE OrderingProofs ---------------------------
(***************************************************************************)
(* What Ordering computes, for any finite set of numbers and any list: the *)
(* rank of a member is its place, so that every member is met exactly      *)
(* once; taking members off a list leaves the others, each as often as     *)
(* before.  NatMin is the least-number principle.                          *)
(***************************************************************************)
EXTENDS Ordering, Sequences, SequencesExt, FiniteSetTheorems, NaturalsInduction, WellFoundedInduction, TLAPS

LEMMA NatMin ==
    ASSUME NEW S, S \subseteq Nat, S # {}
    PROVE  \E m \in S : \A k \in S : m <= k
<1>1. PICK m \in S : \A k \in S : ~ (<<k, m>> \in OpToRel(<, Nat))
    BY NatLessThanWellFounded, WFMin
<1>2. \A k \in S : ~ (k < m)
    BY <1>1 DEF OpToRel
<1> QED
    BY <1>2

LEMMA RankInRange ==
    ASSUME NEW S, S \subseteq Nat, IsFiniteSet(S), NEW h \in S
    PROVE  Rank(S, h) \in 0..(Cardinality(S) - 1)
<1> DEFINE B == {g \in S : g < h}
<1>1. B \in SUBSET S /\ h \notin B
    OBVIOUS
<1>2. IsFiniteSet(B) /\ Cardinality(B) <= Cardinality(S) /\ (Cardinality(S) = Cardinality(B) => S = B)
    BY <1>1, FS_Subset
<1>3. Cardinality(B) \in Nat /\ Cardinality(S) \in Nat
    BY <1>2, FS_CardinalityType
<1> QED
    BY <1>1, <1>2, <1>3 DEF Rank

LEMMA RankOrders ==
    ASSUME NEW S, S \subseteq Nat, IsFiniteSet(S), NEW g \in S, NEW h \in S, g < h
    PROVE  Rank(S, g) # Rank(S, h)
<1> DEFINE A == {x \in S : x < g}
           B == {x \in S : x < h}
<1>4. \A x \in S : x < g => x < h
    OBVIOUS
<1>5. ~ (g < g)
    OBVIOUS
<1>1. A \in SUBSET B /\ B \in SUBSET S /\ g \in B /\ g \notin A
    BY <1>4, <1>5
<1>2. IsFiniteSet(B)
    BY <1>1, FS_Subset
<1>3. Cardinality(B) = Cardinality(A) => B = A
    BY <1>1, <1>2, FS_Subset
<1> QED
    BY <1>1, <1>3 DEF Rank

LEMMA RankDiffers ==
    ASSUME NEW S, S \subseteq Nat, IsFiniteSet(S), NEW g \in S, NEW h \in S, Rank(S, g) = Rank(S, h)
    PROVE  g = h
<1>1. g < h \/ h < g \/ g = h
    OBVIOUS
<1> QED
    BY <1>1, RankOrders

\* every rank below the number of members is taken
LEMMA RankTaken ==
    ASSUME NEW S, S \subseteq Nat, IsFiniteSet(S), NEW i \in 1..Cardinality(S)
    PROVE  \E h \in S : Rank(S, h) = i - 1
<1> DEFINE N == Cardinality(S)
           R == 0..(N - 1)
           rank == [h \in S |-> Rank(S, h)]
<1>1. N \in Nat
    BY FS_CardinalityType
<1>2. rank \in Injection(S, R)
  <2>1. \A h \in S : Rank(S, h) \in R
      BY RankInRange
  <2>2. rank \in [S -> R]
      BY <2>1
  <2>3. \A g, h \in S : rank[g] = rank[h] => g = h
      BY RankDiffers
  <2> HIDE DEF rank
  <2> QED
      BY <2>2, <2>3 DEF Injection, IsInjective
<1>3. IsFiniteSet(R) /\ Cardinality(R) = N
  <2> HIDE DEF N
  <2>1. 0 \in Int /\ N - 1 \in Int /\ (IF 0 > N - 1 THEN 0 ELSE (N - 1) - 0 + 1) = N
      BY <1>1
  <2>2. \A a, b \in Int : IsFiniteSet(a..b) /\ Cardinality(a..b) = IF a > b THEN 0 ELSE b - a + 1
      BY FS_Interval
  <2>3. IsFiniteSet(0..(N - 1)) /\ Cardinality(0..(N - 1)) = IF 0 > N - 1 THEN 0 ELSE (N - 1) - 0 + 1
      BY <2>1, <2>2
  <2> QED
      BY <2>1, <2>3
<1>4. rank \in Surjection(S, R)
    BY <1>2, <1>3, FS_Injection
<1>5. i - 1 \in R
    BY <1>1
<1> QED
    BY <1>4, <1>5 DEF Surjection

\* Ascending(S) lists S, every member once
LEMMA AscendingRuns ==
    ASSUME NEW S, S \subseteq Nat, IsFiniteSet(S)
    PROVE  /\ Ascending(S) \in [1..Cardinality(S) -> S]
           /\ \A h \in S : \E i \in 1..Cardinality(S) : Ascending(S)[i] = h
           /\ \A i, j \in 1..Cardinality(S) : Ascending(S)[i] = Ascending(S)[j] => i = j
<1> DEFINE N == Cardinality(S)
           R == 0..(N - 1)
<1>1. N \in Nat
    BY FS_CardinalityType
<1>5. ASSUME NEW i \in 1..N PROVE \E h \in S : Rank(S, h) = i - 1
    BY RankTaken
<1>6. ASSUME NEW i \in 1..N PROVE Ascending(S)[i] \in S /\ Rank(S, Ascending(S)[i]) = i - 1
    BY <1>5 DEF Ascending
<1>7. Ascending(S) \in [1..N -> S]
    BY <1>6 DEF Ascending
<1>8. ASSUME NEW h \in S PROVE \E i \in 1..N : Ascending(S)[i] = h
  <2>1. Rank(S, h) \in R
      BY RankInRange
  <2> DEFINE i == Rank(S, h) + 1
  <2>2. i \in 1..N /\ i - 1 = Rank(S, h)
      BY <1>1, <2>1
  <2> HIDE DEF i
  <2>3. Ascending(S)[i] \in S /\ Rank(S, Ascending(S)[i]) = Rank(S, h)
      BY <1>6, <2>2
  <2>4. Ascending(S)[i] = h
      BY <2>3, RankDiffers
  <2> QED
      BY <2>2, <2>4
<1>9. ASSUME NEW i \in 1..N, NEW j \in 1..N, Ascending(S)[i] = Ascending(S)[j] PROVE i = j
  <2>1. i - 1 = j - 1
      BY <1>6, <1>9
  <2> QED
      BY <1>1, <2>1
<1> QED
    BY <1>7, <1>8, <1>9

\* what is picked from a list is its members at the places
LEMMA PickedIs ==
    ASSUME NEW q, NEW I, I \subseteq Nat, IsFiniteSet(I), NEW M, \A i \in I : q[i] \in M
    PROVE  /\ Cardinality(I) \in Nat /\ DOMAIN Picked(q, I) = 1..Cardinality(I)
           /\ \A j \in 1..Cardinality(I) : Ascending(I)[j] \in I /\ Picked(q, I)[j] = q[Ascending(I)[j]]
           /\ Picked(q, I) \in Seq(M)
           /\ I = {} <=> Picked(q, I) = <<>>
<1> DEFINE N == Cardinality(I)
<1>1. N \in Nat
    BY FS_CardinalityType
<1>2. Ascending(I) \in [1..N -> I]
    BY AscendingRuns
<1>3. Picked(q, I) = [j \in 1..N |-> q[Ascending(I)[j]]]
    BY DEF Picked
<1>4. N = 0 <=> I = {}
    BY FS_EmptySet
<1> HIDE DEF N
<1>5. Picked(q, I) \in [1..N -> M]
    BY <1>2, <1>3
<1>6. Picked(q, I) \in Seq(M) /\ Len(Picked(q, I)) = N
    BY <1>1, <1>5
<1> QED
    BY <1>1, <1>2, <1>3, <1>4, <1>6 DEF N

\* only the members at the places count
LEMMA PickedSame ==
    ASSUME NEW q, NEW r, NEW I, I \subseteq Nat, IsFiniteSet(I), \A i \in I : q[i] = r[i]
    PROVE  Picked(q, I) = Picked(r, I)
<1>1. \A j \in 1..Cardinality(I) : Ascending(I)[j] \in I
    BY AscendingRuns
<1> QED
    BY <1>1 DEF Picked

\* a place after the others comes last
LEMMA AscendingNext ==
    ASSUME NEW I, I \subseteq Nat, IsFiniteSet(I), NEW n \in Nat, \A i \in I : i < n
    PROVE  /\ Cardinality(I \cup {n}) = Cardinality(I) + 1 /\ IsFiniteSet(I \cup {n})
           /\ \A j \in 1..Cardinality(I) : Ascending(I \cup {n})[j] = Ascending(I)[j]
           /\ Ascending(I \cup {n})[Cardinality(I) + 1] = n
<1> DEFINE B == I \cup {n}
           N == Cardinality(I)
<1>1. N \in Nat /\ IsFiniteSet(B) /\ Cardinality(B) = N + 1 /\ n \notin I /\ B \subseteq Nat
  <2>1. n \notin I
      OBVIOUS
  <2> QED
      BY <2>1, FS_AddElement, FS_CardinalityType
<1>2. ASSUME NEW h \in I PROVE Rank(B, h) = Rank(I, h)
  <2>1. {g \in B : g < h} = {g \in I : g < h}
      OBVIOUS
  <2> QED
      BY <2>1 DEF Rank
<1>3. Rank(B, n) = N
  <2>0. ~ (n < n)
      OBVIOUS
  <2>1. {g \in B : g < n} = I
      BY <2>0
  <2> QED
      BY <2>1 DEF Rank
<1>4. Ascending(I) \in [1..N -> I]
    BY AscendingRuns
<1>5. ASSUME NEW j \in 1..N PROVE Rank(I, Ascending(I)[j]) = j - 1
  <2>1. \E h \in I : Rank(I, h) = j - 1
      BY RankTaken
  <2> QED
      BY <2>1 DEF Ascending
<1>6. ASSUME NEW j \in 1..(N + 1), NEW h \in B, Rank(B, h) = j - 1 PROVE Ascending(B)[j] = h
  <2>1. Ascending(B)[j] \in B /\ Rank(B, Ascending(B)[j]) = j - 1
      BY <1>1, <1>6 DEF Ascending
  <2> QED
      BY <1>1, <1>6, <2>1, RankDiffers
<1> HIDE DEF N, B
<1>7. ASSUME NEW j \in 1..N PROVE Ascending(B)[j] = Ascending(I)[j]
  <2>1. Ascending(I)[j] \in I /\ Ascending(I)[j] \in B /\ j \in 1..(N + 1)
      BY <1>1, <1>4 DEF B
  <2> QED
      BY <1>2, <1>5, <1>6, <2>1
<1>8. Ascending(B)[N + 1] = n
  <2>1. n \in B /\ N + 1 \in 1..(N + 1) /\ Rank(B, n) = (N + 1) - 1
      BY <1>1, <1>3 DEF B
  <2> QED
      BY <1>6, <2>1
<1> QED
    BY <1>1, <1>7, <1>8 DEF N, B

LEMMA PickedNext ==
    ASSUME NEW q, NEW I, I \subseteq Nat, IsFiniteSet(I), NEW n \in Nat, \A i \in I : i < n,
           NEW M, \A i \in I : q[i] \in M
    PROVE  Picked(q, I \cup {n}) = Append(Picked(q, I), q[n])
<1> DEFINE N == Cardinality(I)
           p == Picked(q, I)
<1>1. /\ Cardinality(I \cup {n}) = N + 1
      /\ \A j \in 1..N : Ascending(I \cup {n})[j] = Ascending(I)[j]
      /\ Ascending(I \cup {n})[N + 1] = n
    BY AscendingNext
<1>2. N \in Nat /\ p \in Seq(M) /\ DOMAIN p = 1..N
    BY PickedIs
<1>7. \A j \in 1..N : p[j] = q[Ascending(I)[j]]
    BY PickedIs
<1>3. Picked(q, I \cup {n}) = [j \in 1..(N + 1) |-> q[Ascending(I \cup {n})[j]]]
    BY <1>1 DEF Picked
<1> HIDE DEF N, p
<1>4. Len(p) = N
    BY <1>2
<1>5. Append(p, q[n]) = [j \in 1..(N + 1) |-> IF j <= N THEN p[j] ELSE q[n]]
    BY <1>2, <1>4
<1>6. ASSUME NEW j \in 1..(N + 1)
      PROVE  q[Ascending(I \cup {n})[j]] = IF j <= N THEN p[j] ELSE q[n]
  <2>1. CASE j <= N
    <3>1. j \in 1..N
        BY <1>2, <2>1
    <3> QED
        BY <1>1, <1>7, <2>1, <3>1
  <2>2. CASE j = N + 1
      BY <1>1, <1>2, <2>2
  <2> QED
      BY <1>2, <2>1, <2>2
<1> QED
    BY <1>3, <1>5, <1>6 DEF p

\* without S a list has its other members and no more
LEMMA WithoutOK ==
    ASSUME NEW M, NEW q \in Seq(M), NEW S
    PROVE  /\ Without(q, S) \in Seq(M)
           /\ ToSet(Without(q, S)) = ToSet(q) \ S
           /\ IsInjective(q) => IsInjective(Without(q, S))
<1> DEFINE P == {i \in DOMAIN q : q[i] \notin S}
           N == Cardinality(P)
           w == Without(q, S)
<1>1. DOMAIN q = 1..Len(q) /\ Len(q) \in Nat /\ P \in SUBSET (1..Len(q))
    OBVIOUS
<1>2. IsFiniteSet(1..Len(q))
    BY <1>1, FS_Interval
<1>3. IsFiniteSet(P) /\ P \subseteq Nat /\ N \in Nat
    BY <1>1, <1>2, FS_Subset, FS_CardinalityType
<1> HIDE DEF N
<1>4. /\ Ascending(P) \in [1..N -> P]
      /\ \A h \in P : \E i \in 1..N : Ascending(P)[i] = h
      /\ \A i, j \in 1..N : Ascending(P)[i] = Ascending(P)[j] => i = j
    BY <1>3, AscendingRuns DEF N
<1>5. w = [j \in 1..N |-> q[Ascending(P)[j]]]
    BY <1>4 DEF Without, Picked, N
<1> HIDE DEF P, w
<1>6. \A j \in 1..N : Ascending(P)[j] \in P
    BY <1>4
<1>7. \A i \in P : i \in DOMAIN q /\ q[i] \in M /\ q[i] \notin S
    BY <1>1 DEF P
<1>8. w \in [1..N -> M]
    BY <1>5, <1>6, <1>7
<1>9. w \in Seq(M)
    BY <1>3, <1>8
<1>10. DOMAIN w = 1..N /\ \A j \in 1..N : w[j] = q[Ascending(P)[j]]
    BY <1>5
<1>11. ToSet(w) = ToSet(q) \ S
  <2>1. ASSUME NEW x \in ToSet(w) PROVE x \in ToSet(q) \ S
      BY <1>6, <1>7, <1>10, <2>1 DEF ToSet
  <2>2. ASSUME NEW x \in ToSet(q) \ S PROVE x \in ToSet(w)
    <3>1. PICK i \in DOMAIN q : q[i] = x
        BY DEF ToSet
    <3>2. i \in P
        BY <3>1 DEF P
    <3>3. PICK j \in 1..N : Ascending(P)[j] = i
        BY <1>4, <3>2
    <3> QED
        BY <1>10, <3>1, <3>3 DEF ToSet
  <2> QED
      BY <2>1, <2>2
<1>12. ASSUME IsInjective(q) PROVE IsInjective(w)
  <2> SUFFICES ASSUME NEW i \in 1..N, NEW j \in 1..N, w[i] = w[j] PROVE i = j
      BY <1>10 DEF IsInjective
  <2>1. Ascending(P)[i] \in DOMAIN q /\ Ascending(P)[j] \in DOMAIN q
      BY <1>6, <1>7
  <2>2. Ascending(P)[i] = Ascending(P)[j]
      BY <1>10, <1>12, <2>1 DEF IsInjective
  <2> QED
      BY <1>4, <2>2
<1> QED
    BY <1>9, <1>11, <1>12 DEF w
=============================================================================
