--------------------- MODULE RemoveTemporaryLoopProofs ---------------------
(***************************************************************************)
(* The loop of RemoveTemporaryStatuses for lists of any length: it stays   *)
(* in range and computes the closed form used by the reconcile cycle.      *)
(***************************************************************************)
EXTENDS RemoveTemporaryLoop, TLAPS, FiniteSetTheorems

\* The positions the loop has looked at and not kept.
Cut(k) == {j \in (k + 1)..Len(start) : ~IsKept(start[j], spec)}

\* The list is the one of the beginning without as many conditions at its end as
\* were not kept.
LoopInv ==
    /\ start \in Seq(LoggingServiceCondition)
    /\ i \in 0..Len(start)
    /\ list = SubSeq(start, 1, Len(start) - Cardinality(Cut(i)))

\* There are at most as many of them as there are positions behind the loop.
LEMMA CutSize ==
    ASSUME start \in Seq(LoggingServiceCondition), NEW k \in 0..Len(start)
    PROVE  /\ IsFiniteSet(Cut(k))
           /\ Cardinality(Cut(k)) \in 0..(Len(start) - k)
<1> DEFINE n == Len(start)
<1>1. n \in Nat /\ n \in Int /\ k \in Int /\ k + 1 \in Int
  OBVIOUS
<1>2. \A a, b \in Int : /\ IsFiniteSet(a..b)
                        /\ Cardinality(a..b) = IF a > b THEN 0 ELSE b - a + 1
  BY FS_Interval, Zenon
<1>3. IsFiniteSet((k + 1)..n) /\ Cardinality((k + 1)..n) = n - k
  <2> DEFINE m == k + 1
  <2>1. m \in Int /\ m <= n + 1 /\ n - m + 1 = n - k
    BY <1>1
  <2> HIDE DEF m, n
  <2>2. /\ IsFiniteSet(m..n)
        /\ Cardinality(m..n) = IF m > n THEN 0 ELSE n - m + 1
    BY <1>1, <1>2, <2>1, Zenon
  <2>3. Cardinality(m..n) = n - m + 1
    BY <1>1, <2>1, <2>2
  <2> QED
    BY <2>1, <2>2, <2>3 DEF m
<1>4. Cut(k) \subseteq (k + 1)..n
  BY DEF Cut
<1>5. IsFiniteSet(Cut(k)) /\ Cardinality(Cut(k)) <= n - k
  BY <1>3, <1>4, FS_Subset
<1>6. Cardinality(Cut(k)) \in Nat
  BY <1>5, FS_CardinalityType
<1> QED
  BY <1>1, <1>5, <1>6

\* One more position.
LEMMA CutStep ==
    ASSUME start \in Seq(LoggingServiceCondition), NEW k \in 1..Len(start)
    PROVE  /\ IsKept(start[k], spec) => Cut(k - 1) = Cut(k)
           /\ ~IsKept(start[k], spec) =>
                 Cardinality(Cut(k - 1)) = Cardinality(Cut(k)) + 1
<1> DEFINE n == Len(start)
<1>1. n \in Nat /\ k \in 1..n /\ k \in 0..n
  OBVIOUS
<1>2. ((k - 1) + 1)..n = {k} \cup (k + 1)..n
  BY <1>1
<1>3. IsKept(start[k], spec) => Cut(k - 1) = Cut(k)
  BY <1>2 DEF Cut
<1>4. ~IsKept(start[k], spec) => Cut(k - 1) = Cut(k) \cup {k}
  BY <1>2 DEF Cut
<1>5. k \notin Cut(k)
  BY <1>1 DEF Cut
<1>6. IsFiniteSet(Cut(k))
  BY <1>1, CutSize
<1>7. Cardinality(Cut(k) \cup {k}) = Cardinality(Cut(k)) + 1
  BY <1>5, <1>6, FS_AddElement
<1> QED
  BY <1>3, <1>4, <1>7

\* A list of conditions is a sequence of them.
LEMMA ListsType == Lists \subseteq Seq(LoggingServiceCondition)
<1> DEFINE S == [reason : Reasons \ {LoggingServiceStatus}, type : {InProgress, Failed}]
           heads == {Condition(LoggingServiceStatus, t) : t \in {InProgress, Failed}}
           tails == BoundedSeq(S, MaxLength - 1)
<1> SUFFICES ASSUME NEW l \in Lists PROVE l \in Seq(LoggingServiceCondition)
  OBVIOUS
<1>0. PICK h \in heads, t \in tails : l = <<h>> \o t
  <2>1. l \in UNION {{<<h>> \o t : t \in tails} : h \in heads}
    BY DEF Lists
  <2> HIDE DEF heads, tails
  <2> QED
    BY <2>1
<1>1. h \in LoggingServiceCondition
  BY <1>0 DEF Condition, LoggingServiceCondition, Reasons, Types
<1>2. S \subseteq LoggingServiceCondition
  BY DEF LoggingServiceCondition, Types
<1> HIDE DEF S, heads
<1>3. t \in Seq(S)
  <2>1. PICK m \in 0..(MaxLength - 1) : t \in [1..m -> S]
    BY <1>0 DEF BoundedSeq, SeqOf
  <2>2. m \in Nat
    BY <2>1, LoopAssumption
  <2> QED
    BY <2>1, <2>2
<1>4. t \in Seq(LoggingServiceCondition)
  BY <1>2, <1>3
<1> QED
  BY <1>0, <1>1, <1>4

\* The list in the middle of the loop.
LEMMA LoopState ==
    ASSUME LoopInv
    PROVE  /\ Len(list) = Len(start) - Cardinality(Cut(i))
           /\ i <= Len(list)
           /\ \A j \in 1..Len(list) : list[j] = start[j]
           /\ Len(list) \in 0..Len(start)
           /\ Len(start) \in Nat
<1> DEFINE n == Len(start)
           k == Cardinality(Cut(i))
<1>1. n \in Nat /\ i \in 0..n /\ start \in Seq(LoggingServiceCondition)
  BY DEF LoopInv
<1>2. k \in 0..(n - i)
  BY <1>1, CutSize
<1>3. list = SubSeq(start, 1, n - k)
  BY DEF LoopInv
<1> HIDE DEF k
<1>4. n - k \in 0..n /\ i <= n - k
  BY <1>1, <1>2
<1>5. Len(list) = n - k
  BY <1>1, <1>3, <1>4
<1>6. \A j \in 1..(n - k) : list[j] = start[j]
  BY <1>1, <1>3, <1>4
<1> QED
  BY <1>1, <1>4, <1>5, <1>6 DEF k

\* The loop begins with the whole list.
LEMMA LoopInit == Init => LoopInv
<1> SUFFICES ASSUME Init PROVE LoopInv
  OBVIOUS
<1>1. start \in Seq(LoggingServiceCondition) /\ i = Len(start) /\ list = start
  BY ListsType DEF Init
<1>2. Cut(i) = {} /\ Cardinality({}) = 0
  BY <1>1, FS_EmptySet DEF Cut
<1>3. list = SubSeq(start, 1, Len(start) - 0)
  BY <1>1
<1> QED
  BY <1>1, <1>2, <1>3 DEF LoopInv

\* An iteration.
LEMMA LoopNext == LoopInv /\ [Next]_vars => LoopInv'
<1> SUFFICES ASSUME LoopInv, [Next]_vars PROVE LoopInv'
  OBVIOUS
<1>1. CASE UNCHANGED vars
  BY <1>1 DEF vars, LoopInv, Cut
<1>2. CASE Iteration
  <2> DEFINE n == Len(start)
             k == Cardinality(Cut(i))
  <2>1. /\ n \in Nat /\ i \in 1..n /\ start \in Seq(LoggingServiceCondition)
        /\ start' = start /\ spec' = spec /\ i' = i - 1
    BY <1>2 DEF Iteration, LoopInv
  <2>2. k \in 0..(n - i)
    BY <2>1, CutSize
  <2>3. list[i] = start[i]
    <3>1. i \in 1..Len(list)
      BY <2>1, LoopState
    <3> QED
      BY <3>1, LoopState
  <2>4. list = SubSeq(start, 1, n - k)
    BY DEF LoopInv
  <2>5. Cut(i)' = Cut(i - 1)
    BY <2>1 DEF Cut
  <2>6. list' = SubSeq(start, 1, n - Cardinality(Cut(i - 1)))
    <3>1. CASE IsKept(start[i], spec)
      BY <1>2, <2>1, <2>3, <2>4, <3>1, CutStep DEF Iteration
    <3>2. CASE ~IsKept(start[i], spec)
      <4>1. list' = SubSeq(list, 1, Len(list) - 1) /\ Len(list) = n - k
        BY <1>2, <2>3, <3>2, LoopState DEF Iteration, Front
      <4>2. Cardinality(Cut(i - 1)) = k + 1
        BY <2>1, <3>2, CutStep
      <4> HIDE DEF k
      <4>3. SubSeq(list, 1, (n - k) - 1) = SubSeq(start, 1, n - (k + 1))
        BY <2>1, <2>2, <2>4
      <4> QED
        BY <4>1, <4>2, <4>3
    <3> QED
      BY <3>1, <3>2
  <2> QED
    <3>1. /\ start' \in Seq(LoggingServiceCondition)
          /\ i' \in 0..Len(start')
      BY <2>1
    <3>2. list' = SubSeq(start', 1, Len(start') - Cardinality(Cut(i)'))
      BY <2>1, <2>5, <2>6
    <3> QED
      BY <3>1, <3>2 DEF LoopInv
<1> QED
  BY <1>1, <1>2 DEF Next

\* The loop of RemoveTemporaryStatuses never reads behind the end of the list that
\* it cuts, for lists of any length.
THEOREM LoopStaysInRange == Spec => []IndexInRange
<1>1. LoopInv => IndexInRange
  BY LoopState DEF IndexInRange
<1> QED
  BY <1>1, LoopInit, LoopNext, PTL DEF Spec

\* It computes the closed form that the model of the reconcile cycle uses: the
\* prefix that is shorter by the number of conditions not kept.
THEOREM LoopIsRemoveTemporaryStatuses == Spec => []LoopComputesPrefix
<1>1. LoopInv => LoopComputesPrefix
  <2> SUFFICES ASSUME LoopInv, i = 0 PROVE list = RemoveTemporaryStatuses(start, spec)
    BY DEF LoopComputesPrefix
  <2>1. Cut(i) = Temporary(start, spec)
    BY DEF Cut, Temporary
  <2> QED
    BY <2>1 DEF LoopInv, RemoveTemporaryStatuses
<1> QED
  BY <1>1, LoopInit, LoopNext, PTL DEF Spec
=============================================================================
