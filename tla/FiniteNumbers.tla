----------------------------- MODULE FiniteNumbers -----------------------------
(***************************************************************************)
(* Facts about finite sets of numbers, and about sequences, that the       *)
(* proofs about the components share.                                      *)
(***************************************************************************)
EXTENDS Integers, Sequences, FiniteSets, FiniteSetTheorems, WellFoundedInduction, TLAPS

\* A finite set of numbers has a greatest one: the one with the fewest above it.
LEMMA GreatestExists ==
    ASSUME NEW S \in SUBSET Int, IsFiniteSet(S), S # {}
    PROVE  \E m \in S : \A x \in S : x <= m
<1> DEFINE Above(x) == {y \in S : y > x}
           T == {Above(x) : x \in S}
<1>1. T \subseteq FiniteSubsetsOf(S) /\ T # {}
  <2>1. FiniteSubsetsOf(S) = SUBSET S
    BY FS_FiniteSubsetsOfFinite
  <2>2. ASSUME NEW A \in T PROVE A \in SUBSET S
    OBVIOUS
  <2>3. PICK x \in S : TRUE
    OBVIOUS
  <2>4. Above(x) \in T
    BY <2>3
  <2> HIDE DEF T
  <2> QED
    BY <2>1, <2>2, <2>4
<1>2. IsWellFoundedOn(StrictSubsetOrdering(S), FiniteSubsetsOf(S))
  BY FS_StrictSubsetOrderingWellFounded
<1>3. PICK A \in T : \A B \in T : ~(<<B, A>> \in StrictSubsetOrdering(S))
  <2> HIDE DEF T
  <2> QED
    BY <1>1, <1>2, WFMin
<1>4. PICK m \in S : A = Above(m)
  OBVIOUS
<1>5. ASSUME NEW x \in S, ~(x <= m) PROVE FALSE
  <2>1. x > m /\ x \in Above(m) /\ x \notin Above(x)
    BY <1>5
  <2>2. ASSUME NEW y \in Above(x) PROVE y \in Above(m)
    <3>1. y \in Int /\ x \in Int /\ m \in Int /\ y > x
      OBVIOUS
    <3> QED
      BY <2>1, <3>1
  <2>3. <<Above(x), A>> \in StrictSubsetOrdering(S)
    BY <1>4, <2>1, <2>2 DEF StrictSubsetOrdering
  <2> QED
    BY <1>3, <2>3
<1> QED
  BY <1>5

\* And a least one.
LEMMA LeastExists ==
    ASSUME NEW S \in SUBSET Int, IsFiniteSet(S), S # {}
    PROVE  \E m \in S : \A x \in S : m <= x
<1> DEFINE Below(x) == {y \in S : y < x}
           T == {Below(x) : x \in S}
<1>1. T \subseteq FiniteSubsetsOf(S) /\ T # {}
  <2>1. FiniteSubsetsOf(S) = SUBSET S
    BY FS_FiniteSubsetsOfFinite
  <2>2. ASSUME NEW A \in T PROVE A \in SUBSET S
    OBVIOUS
  <2>3. PICK x \in S : TRUE
    OBVIOUS
  <2>4. Below(x) \in T
    BY <2>3
  <2> HIDE DEF T
  <2> QED
    BY <2>1, <2>2, <2>4
<1>2. IsWellFoundedOn(StrictSubsetOrdering(S), FiniteSubsetsOf(S))
  BY FS_StrictSubsetOrderingWellFounded
<1>3. PICK A \in T : \A B \in T : ~(<<B, A>> \in StrictSubsetOrdering(S))
  <2> HIDE DEF T
  <2> QED
    BY <1>1, <1>2, WFMin
<1>4. PICK m \in S : A = Below(m)
  OBVIOUS
<1>5. ASSUME NEW x \in S, ~(m <= x) PROVE FALSE
  <2>1. x < m /\ x \in Below(m) /\ x \notin Below(x)
    BY <1>5
  <2>2. ASSUME NEW y \in Below(x) PROVE y \in Below(m)
    <3>1. y \in Int /\ x \in Int /\ m \in Int /\ y < x
      OBVIOUS
    <3> QED
      BY <2>1, <3>1
  <2>3. <<Below(x), A>> \in StrictSubsetOrdering(S)
    BY <1>4, <2>1, <2>2 DEF StrictSubsetOrdering
  <2> QED
    BY <1>3, <2>3
<1> QED
  BY <1>5

\* In a finite set with a strict total order, where lower[r] is what comes before
\* r, every number from 1 to its size is the rank of one element.
LEMMA Ranks ==
    ASSUME NEW S, IsFiniteSet(S),
           NEW lower, \A r \in S : lower[r] \subseteq S /\ r \notin lower[r],
           \A a, b \in S : a \in lower[b] => lower[a] \subseteq lower[b],
           \A a, b \in S : a # b => a \in lower[b] \/ b \in lower[a],
           NEW rank, DOMAIN rank = S, rank = [r \in DOMAIN rank |-> rank[r]],
           \A r \in S : rank[r] = Cardinality(lower[r]) + 1
    PROVE  /\ \A r \in S : rank[r] \in 1..Cardinality(S)
           /\ \A a, b \in S : rank[a] = rank[b] => a = b
           /\ \A a, b \in S : a \in lower[b] => rank[a] < rank[b]
           /\ \A k \in 1..Cardinality(S) : \E r \in S : rank[r] = k
<1> DEFINE Lower(r) == lower[r]
           N == Cardinality(S)
<1>1. N \in Nat
  BY FS_CardinalityType
<1>2. \A r \in S : IsFiniteSet(Lower(r)) /\ Cardinality(Lower(r)) \in Nat
  <2> TAKE r \in S
  <2>1. Lower(r) \in SUBSET S
    OBVIOUS
  <2> HIDE DEF Lower
  <2> QED
    BY <2>1, FS_Subset, FS_CardinalityType
<1>3. \A r \in S : rank[r] = Cardinality(Lower(r)) + 1
  OBVIOUS
<1>4. ASSUME NEW r \in S PROVE rank[r] \in 1..N
  <2>1. Lower(r) \in SUBSET (S \ {r})
    OBVIOUS
  <2>2. IsFiniteSet(S \ {r}) /\ Cardinality(S \ {r}) = N - 1
    BY FS_RemoveElement
  <2>3. Cardinality(Lower(r)) <= N - 1
    <3> HIDE DEF Lower, N
    <3> QED
      BY <2>1, <2>2, FS_Subset
  <2> HIDE DEF Lower, N
  <2> QED
    BY <1>1, <1>2, <1>3, <2>3
<1>5. ASSUME NEW a \in S, NEW b \in S, a \in lower[b] PROVE rank[a] < rank[b]
  <2>1. Lower(a) \in SUBSET Lower(b)
    BY <1>5
  <2>2. a \in Lower(b) /\ a \notin Lower(a)
    BY <1>5
  <2> HIDE DEF Lower, N
  <2>3. Cardinality(Lower(a)) <= Cardinality(Lower(b))
        /\ (Cardinality(Lower(b)) = Cardinality(Lower(a)) => Lower(b) = Lower(a))
    BY <1>2, <2>1, FS_Subset
  <2>4. Cardinality(Lower(a)) # Cardinality(Lower(b))
    BY <2>2, <2>3
  <2>5. Cardinality(Lower(a)) \in Nat /\ Cardinality(Lower(b)) \in Nat
    BY <1>2
  <2>6. rank[a] = Cardinality(Lower(a)) + 1 /\ rank[b] = Cardinality(Lower(b)) + 1
    BY <1>3
  <2> QED
    BY <2>3, <2>4, <2>5, <2>6
<1>6. \A a, b \in S : rank[a] = rank[b] => a = b
  <2> HIDE DEF Lower, N
  <2> SUFFICES ASSUME NEW a \in S, NEW b \in S, rank[a] = rank[b], a # b PROVE FALSE
    OBVIOUS
  <2>1. rank[a] \in Int /\ rank[b] \in Int
    BY <1>4 DEF N
  <2>2. a \in lower[b] \/ b \in lower[a]
    OBVIOUS
  <2>3. rank[a] < rank[b] \/ rank[b] < rank[a]
    BY <1>5, <2>2
  <2> QED
    BY <2>1, <2>3
<1> HIDE DEF Lower, N
<1>7. rank \in Injection(S, 1..N)
  <2>1. rank \in [S -> 1..N]
    BY <1>4, Zenon
  <2> QED
    BY <1>6, <2>1 DEF Injection, IsInjective
<1>8. IsFiniteSet(1..N) /\ Cardinality(1..N) = N
  <2>1. IsFiniteSet(1..N) /\ Cardinality(1..N) = IF 1 > N THEN 0 ELSE N - 1 + 1
    BY <1>1, FS_Interval
  <2> QED
    BY <1>1, <2>1
<1>9. rank \in Surjection(S, 1..N)
  <2>1. Cardinality(S) = Cardinality(1..N)
    BY <1>8 DEF N
  <2> QED
    BY <1>7, <1>8, <2>1, FS_Injection
<1>10. \A k \in 1..N : \E r \in S : rank[r] = k
  BY <1>9 DEF Surjection
<1> QED
  BY <1>4, <1>5, <1>6, <1>10 DEF N

\* A finite set of numbers can be put in order.
LEMMA Ordered ==
    ASSUME NEW S \in SUBSET Int, IsFiniteSet(S)
    PROVE  \E s \in [1..Cardinality(S) -> S] : \A i, j \in DOMAIN s : i < j => s[i] < s[j]
<1> DEFINE lower == [r \in S |-> { y \in S : y < r }]
           rank == [r \in S |-> Cardinality(lower[r]) + 1]
           N == Cardinality(S)
<1>1. \A r \in S : lower[r] \subseteq S /\ r \notin lower[r]
  OBVIOUS
<1>2. \A a, b \in S : a \in lower[b] <=> a < b
  OBVIOUS
<1>3. \A a, b \in S : a \in lower[b] => lower[a] \subseteq lower[b]
  <2> SUFFICES ASSUME NEW a \in S, NEW b \in S, a \in lower[b], NEW y \in lower[a]
               PROVE  y \in lower[b]
    OBVIOUS
  <2>1. y \in Int /\ a \in Int /\ b \in Int /\ y \in S /\ y < a /\ a < b
    OBVIOUS
  <2>2. y < b
    BY <2>1
  <2> QED
    BY <2>1, <2>2
<1>4. \A a, b \in S : a # b => a \in lower[b] \/ b \in lower[a]
  BY <1>2
<1> HIDE DEF lower
<1>5. DOMAIN rank = S /\ rank = [r \in DOMAIN rank |-> rank[r]]
      /\ \A r \in S : rank[r] = Cardinality(lower[r]) + 1
  OBVIOUS
<1> HIDE DEF rank
<1>6. /\ \A r \in S : rank[r] \in 1..N
      /\ \A a, b \in S : rank[a] = rank[b] => a = b
      /\ \A a, b \in S : a \in lower[b] => rank[a] < rank[b]
      /\ \A k \in 1..N : \E r \in S : rank[r] = k
  BY <1>1, <1>3, <1>4, <1>5, Ranks
<1> DEFINE s == [k \in 1..N |-> CHOOSE r \in S : rank[r] = k]
<1>7. \A k \in 1..N : s[k] \in S /\ rank[s[k]] = k
  BY <1>6
<1>8. s \in [1..N -> S] /\ DOMAIN s = 1..N
  BY <1>7
<1> HIDE DEF s, N
<1>9. ASSUME NEW i \in 1..N, NEW j \in 1..N, i < j PROVE s[i] < s[j]
  <2>1. s[i] \in S /\ s[j] \in S /\ rank[s[i]] = i /\ rank[s[j]] = j
    BY <1>7
  <2>2. s[i] # s[j]
    BY <1>9, <2>1
  <2>3. s[j] \notin lower[s[i]]
    <3>1. s[j] \in lower[s[i]] => rank[s[j]] < rank[s[i]]
      BY <1>6, <2>1
    <3>2. i \in Int /\ j \in Int
      BY DEF N
    <3> QED
      BY <1>9, <2>1, <3>1, <3>2
  <2> QED
    BY <1>2, <1>4, <2>1, <2>2, <2>3
<1> QED
  BY <1>8, <1>9 DEF N

\* The places of a sequence are finitely many numbers.
LEMMA PlacesFinite ==
    ASSUME NEW S, NEW s \in Seq(S), NEW T \in SUBSET (DOMAIN s)
    PROVE  IsFiniteSet(T) /\ T \in SUBSET Int
<1>1. DOMAIN s = 1..Len(s) /\ Len(s) \in Nat
  OBVIOUS
<1>2. IsFiniteSet(1..Len(s))
  BY <1>1, FS_Interval
<1> QED
  BY <1>1, <1>2, FS_Subset

\* A sequence over a set is one over every larger set.
LEMMA SeqMonotone ==
    ASSUME NEW S, NEW T, S \subseteq T, NEW s \in Seq(S)
    PROVE  s \in Seq(T)
  OBVIOUS

\* What the operations on sequences return is over the same set.
LEMMA SeqTypes ==
    ASSUME NEW S, NEW s \in Seq(S)
    PROVE  /\ \A e \in S : Append(s, e) \in Seq(S)
           /\ s # << >> => Head(s) \in S /\ Tail(s) \in Seq(S)
           /\ \A i \in DOMAIN s : SubSeq(s, 1, i-1) \o SubSeq(s, i+1, Len(s)) \in Seq(S)
<1>1. \A e \in S : Append(s, e) \in Seq(S)
  OBVIOUS
<1>2. s # << >> => Head(s) \in S /\ Tail(s) \in Seq(S)
  OBVIOUS
<1>3. ASSUME NEW i \in DOMAIN s
      PROVE  SubSeq(s, 1, i-1) \o SubSeq(s, i+1, Len(s)) \in Seq(S)
  <2>1. i \in 1..Len(s) /\ Len(s) \in Nat
    OBVIOUS
  <2>2. SubSeq(s, 1, i-1) \in Seq(S)
    BY <2>1
  <2>3. SubSeq(s, i+1, Len(s)) \in Seq(S)
    BY <2>1
  <2> QED
    BY <2>2, <2>3
<1> QED
  BY <1>1, <1>2, <1>3
=============================================================================
