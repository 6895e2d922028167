-------------------------- MODULE CompactionProofs --------------------------
(***************************************************************************)
(* What compaction does to any sequence of records: the registry's and the *)
(* dispatcher's proofs rest on it.                                         *)
(***************************************************************************)
EXTENDS Compaction, FiniteSetTheorems, TLAPS

\* The number of active records up to an active one tells it from the others.
LEMMA RankIncreases ==
    ASSUME NEW R, NEW s \in Seq(R)
    PROVE  /\ IsFiniteSet(ActiveIn(s)) /\ Cardinality(ActiveIn(s)) \in Nat
           /\ \A i \in ActiveIn(s) :
                Cardinality(ActiveUpTo(s, i)) \in 1 .. Cardinality(ActiveIn(s))
           /\ \A i, j \in ActiveIn(s) :
                i < j => Cardinality(ActiveUpTo(s, i)) < Cardinality(ActiveUpTo(s, j))
<1>1. ActiveIn(s) \in SUBSET (1 .. Len(s))
  BY DEF ActiveIn
<1>2. IsFiniteSet(ActiveIn(s)) /\ Cardinality(ActiveIn(s)) \in Nat
  <2>1. IsFiniteSet(1 .. Len(s))
    BY FS_Interval, Len(s) \in Int
  <2> QED
    BY <1>1, <2>1, FS_Subset, FS_CardinalityType
<1>3. ASSUME NEW i \in ActiveIn(s)
      PROVE  /\ IsFiniteSet(ActiveUpTo(s, i))
             /\ Cardinality(ActiveUpTo(s, i)) \in 1 .. Cardinality(ActiveIn(s))
  <2>1. ActiveUpTo(s, i) \in SUBSET ActiveIn(s) /\ i \in ActiveUpTo(s, i)
    BY <1>1 DEF ActiveUpTo
  <2>2. /\ IsFiniteSet(ActiveUpTo(s, i))
        /\ Cardinality(ActiveUpTo(s, i)) <= Cardinality(ActiveIn(s))
    BY <1>2, <2>1, FS_Subset
  <2>3. Cardinality(ActiveUpTo(s, i)) # 0 /\ Cardinality(ActiveUpTo(s, i)) \in Nat
    BY <2>1, <2>2, FS_EmptySet, FS_CardinalityType
  <2> QED
    BY <1>2, <2>2, <2>3
<1>4. ASSUME NEW i \in ActiveIn(s), NEW j \in ActiveIn(s), i < j
      PROVE  Cardinality(ActiveUpTo(s, i)) < Cardinality(ActiveUpTo(s, j))
  <2>1. ActiveUpTo(s, i) \in SUBSET ActiveUpTo(s, j)
    BY <1>1, <1>4 DEF ActiveUpTo
  <2>2. j \in ActiveUpTo(s, j) /\ j \notin ActiveUpTo(s, i)
    BY <1>1, <1>4 DEF ActiveUpTo
  <2>3. /\ Cardinality(ActiveUpTo(s, i)) <= Cardinality(ActiveUpTo(s, j))
        /\ Cardinality(ActiveUpTo(s, i)) # Cardinality(ActiveUpTo(s, j))
    BY <1>3, <2>1, <2>2, FS_Subset
  <2> QED
    BY <1>2, <1>3, <2>3
<1> QED
  BY <1>2, <1>3, <1>4

\* Every number up to that of all active records is the rank of one of them.
LEMMA NthActiveIsThere ==
    ASSUME NEW R, NEW s \in Seq(R), NEW k \in 1 .. Cardinality(ActiveIn(s))
    PROVE  /\ NthActive(s, k) \in ActiveIn(s)
           /\ Cardinality(ActiveUpTo(s, NthActive(s, k))) = k
<1> DEFINE n == Cardinality(ActiveIn(s))
           rank == [i \in ActiveIn(s) |-> Cardinality(ActiveUpTo(s, i))]
<1>1. n \in Nat /\ IsFiniteSet(1 .. n) /\ Cardinality(1 .. n) = n
  BY RankIncreases, FS_Interval
<1>2. ActiveIn(s) \in SUBSET Nat
  BY DEF ActiveIn
<1>3. rank \in [ActiveIn(s) -> 1 .. n]
  BY RankIncreases
<1>4. ASSUME NEW i \in ActiveIn(s), NEW j \in ActiveIn(s), rank[i] = rank[j]
      PROVE  i = j
  <2>1. \A a, b \in ActiveIn(s) : a < b => rank[a] < rank[b]
    BY RankIncreases
  <2>2. rank[i] \in Nat /\ rank[j] \in Nat /\ i \in Nat /\ j \in Nat
    BY <1>1, <1>2, <1>3
  <2> HIDE DEF rank
  <2> QED
    BY <1>4, <2>1, <2>2
<1>5. rank \in Injection(ActiveIn(s), 1 .. n)
  <2> HIDE DEF rank
  <2> QED
    BY <1>3, <1>4 DEF Injection, IsInjective
<1>6. rank \in Surjection(ActiveIn(s), 1 .. n)
  BY <1>1, <1>5, FS_Injection
<1>7. \E i \in ActiveIn(s) : rank[i] = k
  BY <1>6 DEF Surjection
<1>8. \E i \in ActiveIn(s) : Cardinality(ActiveUpTo(s, i)) = k
  BY <1>7
<1> QED
  BY <1>8 DEF NthActive

\* What compaction keeps: the active records, all of them, each once and in order.
THEOREM CompactKeepsActive ==
    ASSUME NEW R, NEW s \in Seq(R)
    PROVE  /\ Compact(s) \in Seq(R)
           /\ Len(Compact(s)) = Cardinality(ActiveIn(s))
           /\ \A k \in 1 .. Len(Compact(s)) :
                /\ NthActive(s, k) \in 1 .. Len(s)
                /\ Compact(s)[k] = s[NthActive(s, k)]
                /\ Compact(s)[k].active
           /\ \A k, l \in 1 .. Len(Compact(s)) : k < l => NthActive(s, k) < NthActive(s, l)
           /\ \A i \in 1 .. Len(s) :
                s[i].active => \E k \in 1 .. Len(Compact(s)) : NthActive(s, k) = i
<1> DEFINE n == Cardinality(ActiveIn(s))
<1>1. n \in Nat
  BY RankIncreases
<1>2. ASSUME NEW k \in 1 .. n
      PROVE  /\ NthActive(s, k) \in 1 .. Len(s)
             /\ s[NthActive(s, k)].active
             /\ s[NthActive(s, k)] \in R
  <2>1. NthActive(s, k) \in ActiveIn(s)
    BY NthActiveIsThere
  <2> QED
    BY <2>1 DEF ActiveIn
<1>3. Compact(s) \in Seq(R) /\ Len(Compact(s)) = n
  BY <1>1, <1>2 DEF Compact
<1>4. ASSUME NEW k \in 1 .. n, NEW l \in 1 .. n, k < l
      PROVE  NthActive(s, k) < NthActive(s, l)
  <2> DEFINE i == NthActive(s, k)
             j == NthActive(s, l)
  <2>1. i \in ActiveIn(s) /\ Cardinality(ActiveUpTo(s, i)) = k
    BY NthActiveIsThere
  <2>2. j \in ActiveIn(s) /\ Cardinality(ActiveUpTo(s, j)) = l
    BY NthActiveIsThere
  <2>3. i \in Nat /\ j \in Nat
    BY <2>1, <2>2 DEF ActiveIn
  <2>4. \A a, b \in ActiveIn(s) : a < b =>
          Cardinality(ActiveUpTo(s, a)) < Cardinality(ActiveUpTo(s, b))
    BY RankIncreases
  <2>5. ~(j < i) /\ i # j
    <3> HIDE DEF i, j
    <3> QED
      BY <1>1, <1>4, <2>1, <2>2, <2>4
  <2> QED
    <3> HIDE DEF i, j
    <3>1. i < j
      BY <2>3, <2>5
    <3> QED
      BY <3>1 DEF i, j
<1>5. ASSUME NEW i \in 1 .. Len(s), s[i].active
      PROVE  \E k \in 1 .. n : NthActive(s, k) = i
  <2> DEFINE k == Cardinality(ActiveUpTo(s, i))
  <2>1. i \in ActiveIn(s)
    BY <1>5 DEF ActiveIn
  <2>2. k \in 1 .. n
    BY <2>1, RankIncreases
  <2> DEFINE j == NthActive(s, k)
  <2>3. j \in ActiveIn(s) /\ Cardinality(ActiveUpTo(s, j)) = k
    BY <2>2, NthActiveIsThere
  <2>4. i \in Nat /\ j \in Nat
    BY <2>1, <2>3 DEF ActiveIn
  <2>5. ~(i < j) /\ ~(j < i)
    <3>1. \A a, b \in ActiveIn(s) : a < b =>
            Cardinality(ActiveUpTo(s, a)) < Cardinality(ActiveUpTo(s, b))
      BY RankIncreases
    <3>2. k \in Int
      BY <1>1, <2>2
    <3> HIDE DEF j
    <3> QED
      BY <2>1, <2>3, <3>1, <3>2
  <2>6. j = i
    <3> HIDE DEF j, k
    <3> QED
      BY <2>4, <2>5
  <2> QED
    BY <2>2, <2>6
<1>6. \A k \in 1 .. n : Compact(s)[k] = s[NthActive(s, k)]
  BY DEF Compact
<1> QED
  BY <1>2, <1>3, <1>4, <1>5, <1>6

============================================================================
