----------------------- MODULE StatusConditionsProofs -----------------------
(***************************************************************************)
(* What the operations on the list of conditions do, for every list and    *)
(* every reason.                                                           *)
(***************************************************************************)
EXTENDS StatusConditions, TLAPS, FiniteSetTheorems, WellFoundedInduction

\* The conditions of a list, without their order.
Listed(conds) == {conds[i] : i \in 1..Len(conds)}

\* GetCondition returns a position that carries the reason, and 0 only when none
\* does.
LEMMA GetConditionIndex ==
    ASSUME NEW conds \in Seq(LoggingServiceCondition), NEW reason
    PROVE  LET i == GetCondition(conds, reason)
           IN  /\ i \in 0..Len(conds)
               /\ i # 0 => conds[i].reason = reason
               /\ i = 0 => \A j \in 1..Len(conds) : conds[j].reason # reason
<1> DEFINE T == {i \in 1..Len(conds) : conds[i].reason = reason}
           IsFirst(i) == /\ conds[i].reason = reason
                         /\ \A j \in 1..(i - 1) : conds[j].reason # reason
<1>1. CASE T = {}
  BY <1>1 DEF GetCondition
<1>2. CASE T # {}
  <2>1. T \subseteq Nat
    OBVIOUS
  <2> DEFINE Less == {ss \in Nat \X Nat : ss[1] < ss[2]}
  <2>2. IsWellFoundedOn(Less, Nat)
    BY NatLessThanWellFounded DEF OpToRel
  <2> HIDE DEF Less
  <2>7. PICK x \in T : \A y \in T : ~(<<y, x>> \in Less)
    BY <1>2, <2>1, <2>2, WFMin
  <2>3. \A y \in T : ~(y < x)
    BY <2>1, <2>7 DEF Less
  <2>4. x \in 1..Len(conds) /\ IsFirst(x)
    BY <2>3
  <2>5. GetCondition(conds, reason) = CHOOSE i \in 1..Len(conds) : IsFirst(i)
    BY <1>2 DEF GetCondition
  <2>6. /\ GetCondition(conds, reason) \in 1..Len(conds)
        /\ IsFirst(GetCondition(conds, reason))
    BY <2>4, <2>5
  <2> QED
    BY <2>6
<1> QED
  BY <1>1, <1>2

\* In a well-formed list the status of the cycle is the first condition.
LEMMA CycleStatusIsFirst ==
    ASSUME NEW conds \in Seq(LoggingServiceCondition), WellFormed(conds)
    PROVE  CycleStatus(conds) = IF conds = <<>> THEN "none" ELSE conds[1].type
<1> DEFINE i == GetCondition(conds, LoggingServiceStatus)
<1>1. /\ i \in 0..Len(conds)
      /\ i # 0 => conds[i].reason = LoggingServiceStatus
      /\ i = 0 => \A j \in 1..Len(conds) : conds[j].reason # LoggingServiceStatus
  BY GetConditionIndex
<1> HIDE DEF i
<1>2. conds = <<>> => i = 0
  BY <1>1
<1>3. conds # <<>> => i = 1
  BY <1>1 DEF WellFormed
<1> QED
  BY <1>1, <1>2, <1>3 DEF CycleStatus, i

\* UpdateStatus keeps a list well-formed, and touches the first condition only
\* when it is asked to write the status of the cycle.
LEMMA UpdateStatusWellFormed ==
    ASSUME NEW conds \in Seq(LoggingServiceCondition), WellFormed(conds),
           NEW reason \in Reasons, NEW type \in Types,
           reason = LoggingServiceStatus \/ conds # <<>>
    PROVE  LET new == UpdateStatus(conds, reason, type)
           IN  /\ new \in Seq(LoggingServiceCondition)
               /\ WellFormed(new)
               /\ new # <<>>
               /\ new[1] = IF reason = LoggingServiceStatus
                           THEN Condition(reason, type) ELSE conds[1]
<1> DEFINE i == GetCondition(conds, reason)
           c == Condition(reason, type)
           new == UpdateStatus(conds, reason, type)
<1>1. /\ i \in 0..Len(conds)
      /\ i # 0 => conds[i].reason = reason
      /\ i = 0 => \A j \in 1..Len(conds) : conds[j].reason # reason
  BY GetConditionIndex
<1>2. c \in LoggingServiceCondition /\ c.reason = reason
  BY DEF Condition, LoggingServiceCondition
<1>3. new = IF i # 0 THEN [conds EXCEPT ![i] = c] ELSE Append(conds, c)
  BY DEF UpdateStatus
<1> HIDE DEF i, c, new
<1>4. CASE i # 0
  <2>1. /\ new \in Seq(LoggingServiceCondition)
        /\ Len(new) = Len(conds)
        /\ \A j \in 1..Len(conds) : new[j] = IF j = i THEN c ELSE conds[j]
    BY <1>1, <1>2, <1>3, <1>4
  <2>2. WellFormed(new)
    BY <1>1, <1>2, <1>4, <2>1 DEF WellFormed
  <2>3. reason = LoggingServiceStatus <=> i = 1
    BY <1>1, <1>4 DEF WellFormed
  <2> QED
    BY <1>1, <1>4, <2>1, <2>2, <2>3 DEF new, c
<1>5. CASE i = 0
  <2>1. /\ new \in Seq(LoggingServiceCondition)
        /\ Len(new) = Len(conds) + 1
        /\ \A j \in 1..Len(conds) : new[j] = conds[j]
        /\ new[Len(conds) + 1] = c
    BY <1>2, <1>3, <1>5
  <2>2. conds = <<>> \/ reason # LoggingServiceStatus
    BY <1>1, <1>5 DEF WellFormed
  <2>3. WellFormed(new)
    BY <1>1, <1>2, <1>5, <2>1, <2>2 DEF WellFormed
  <2> QED
    BY <2>1, <2>2, <2>3 DEF new, c
<1> QED
  BY <1>1, <1>4, <1>5

\* Removing another condition than the status of the cycle leaves that status
\* in front, in a well-formed list.
LEMMA RemoveStatusWellFormed ==
    ASSUME NEW conds \in Seq(LoggingServiceCondition), WellFormed(conds),
           conds # <<>>, NEW reason \in Reasons \ {LoggingServiceStatus}
    PROVE  LET new == RemoveStatus(conds, reason)
           IN  /\ new \in Seq(LoggingServiceCondition)
               /\ WellFormed(new)
               /\ new # <<>>
               /\ new[1] = conds[1]
<1> DEFINE i == GetCondition(conds, reason)
           n == Len(conds)
           swapped == [conds EXCEPT ![i] = conds[n]]
           new == RemoveStatus(conds, reason)
<1>1. /\ i \in 0..n
      /\ i # 0 => conds[i].reason = reason
  BY GetConditionIndex
<1>2. new = IF i # 0 THEN SubSeq(swapped, 1, n - 1) ELSE conds
  BY DEF RemoveStatus
<1>3. n \in Nat /\ n >= 1 /\ (i # 0 => i \in 2..n)
  BY <1>1 DEF WellFormed
<1> HIDE DEF i, n, swapped, new
<1>4. CASE i # 0
  <2>1. /\ swapped \in Seq(LoggingServiceCondition)
        /\ Len(swapped) = n
        /\ \A j \in 1..n : swapped[j] = IF j = i THEN conds[n] ELSE conds[j]
    BY <1>3, <1>4 DEF swapped, n
  <2>2. /\ new \in Seq(LoggingServiceCondition)
        /\ Len(new) = n - 1
        /\ \A j \in 1..(n - 1) : new[j] = IF j = i THEN conds[n] ELSE conds[j]
    BY <1>2, <1>3, <1>4, <2>1
  <2>3. new # <<>> /\ new[1] = conds[1]
    BY <1>3, <1>4, <2>2
  <2>4. conds[1].reason = LoggingServiceStatus
    BY DEF WellFormed
  <2>5. ASSUME NEW j \in 1..(n - 1), NEW k \in 1..(n - 1), new[j].reason = new[k].reason
        PROVE  j = k
    BY <1>3, <1>4, <2>2, <2>5 DEF WellFormed, n
  <2> QED
    BY <2>2, <2>3, <2>4, <2>5 DEF WellFormed, new
<1>5. CASE i = 0
  BY <1>2, <1>5 DEF new
<1> QED
  BY <1>1, <1>4, <1>5

\* RemoveTemporaryStatuses cuts off the end of the list and never reaches the
\* status of the cycle, which it does not count as temporary.
LEMMA RemoveTemporaryStatusesWellFormed ==
    ASSUME NEW conds \in Seq(LoggingServiceCondition), WellFormed(conds),
           conds # <<>>, NEW spec
    PROVE  LET new == RemoveTemporaryStatuses(conds, spec)
           IN  /\ new \in Seq(LoggingServiceCondition)
               /\ WellFormed(new)
               /\ new # <<>>
               /\ new[1] = conds[1]
<1> DEFINE n == Len(conds)
           k == Cardinality(Temporary(conds, spec))
           new == RemoveTemporaryStatuses(conds, spec)
<1>1. n \in Nat /\ n >= 1
  OBVIOUS
<1>2. Temporary(conds, spec) \subseteq 2..n
  BY <1>1 DEF Temporary, WellFormed, IsKept
<1>3. IsFiniteSet(2..n) /\ Cardinality(2..n) = n - 1
  <2>1. /\ IsFiniteSet(2..n)
        /\ Cardinality(2..n) = IF 2 > n THEN 0 ELSE n - 2 + 1
    BY <1>1, FS_Interval
  <2> QED
    BY <1>1, <2>1
<1>4. k \in Nat /\ k <= n - 1
  BY <1>2, <1>3, FS_Subset, FS_CardinalityType
<1>5. new = SubSeq(conds, 1, n - k)
  BY DEF RemoveTemporaryStatuses
<1> HIDE DEF k, new
<1>6. /\ new \in Seq(LoggingServiceCondition)
      /\ Len(new) = n - k
      /\ \A j \in 1..(n - k) : new[j] = conds[j]
  BY <1>1, <1>4, <1>5
<1>7. new # <<>> /\ new[1] = conds[1]
  BY <1>1, <1>4, <1>6
<1>8. WellFormed(new)
  <2>1. new[1].reason = LoggingServiceStatus
    BY <1>7 DEF WellFormed
  <2>2. ASSUME NEW i \in 1..(n - k), NEW j \in 1..(n - k), new[i].reason = new[j].reason
        PROVE  i = j
    <3>1. i \in 1..n /\ j \in 1..n
      BY <1>1, <1>4
    <3>2. conds[i].reason = conds[j].reason
      BY <1>6, <2>2
    <3> QED
      BY <3>1, <3>2 DEF WellFormed
  <2> QED
    BY <1>6, <2>1, <2>2 DEF WellFormed
<1> QED
  BY <1>6, <1>7, <1>8 DEF new
-----------------------------------------------------------------------------
(***************************************************************************)
(* What the operations do to the conditions as a set.                      *)
(***************************************************************************)

\* UpdateStatus replaces the condition of a reason, or adds it, and keeps every
\* other one.
LEMMA UpdateStatusLists ==
    ASSUME NEW conds \in Seq(LoggingServiceCondition), WellFormed(conds),
           NEW reason \in Reasons, NEW type \in Types
    PROVE  Listed(UpdateStatus(conds, reason, type))
              = {c \in Listed(conds) : c.reason # reason} \cup {Condition(reason, type)}
<1> DEFINE i == GetCondition(conds, reason)
           n == Len(conds)
           new == UpdateStatus(conds, reason, type)
           cond == Condition(reason, type)
           others == {c \in Listed(conds) : c.reason # reason}
<1>1. /\ i \in 0..n
      /\ i # 0 => conds[i].reason = reason
      /\ i = 0 => \A j \in 1..n : conds[j].reason # reason
  BY GetConditionIndex
<1>2. n \in Nat /\ cond \in LoggingServiceCondition
  BY DEF Condition, LoggingServiceCondition
<1>3. new = IF i # 0 THEN [conds EXCEPT ![i] = cond] ELSE Append(conds, cond)
  BY DEF UpdateStatus
<1> HIDE DEF i, cond, new
<1>4. CASE i # 0
  <2>1. /\ Len(new) = n
        /\ \A j \in 1..n : new[j] = IF j = i THEN cond ELSE conds[j]
    BY <1>1, <1>2, <1>3, <1>4
  <2>2. \A j \in 1..n : j # i <=> conds[j].reason # reason
    BY <1>1, <1>4 DEF WellFormed
  <2>3. Listed(new) \subseteq others \cup {cond}
    BY <2>1, <2>2 DEF Listed
  <2>4. others \subseteq Listed(new)
    <3> SUFFICES ASSUME NEW j \in 1..n, conds[j].reason # reason
                 PROVE  conds[j] \in Listed(new)
      BY DEF Listed
    <3> QED
      BY <2>1, <2>2 DEF Listed
  <2>5. cond \in Listed(new)
    BY <1>1, <1>4, <2>1 DEF Listed
  <2> QED
    BY <2>3, <2>4, <2>5 DEF new, cond
<1>5. CASE i = 0
  <2>1. /\ Len(new) = n + 1
        /\ \A j \in 1..n : new[j] = conds[j]
        /\ new[n + 1] = cond
    BY <1>2, <1>3, <1>5
  <2>2. \A j \in 1..n : conds[j].reason # reason
    BY <1>1, <1>5
  <2>3. 1..(n + 1) = 1..n \cup {n + 1}
    BY <1>2
  <2>4. Listed(new) \subseteq others \cup {cond}
    BY <2>1, <2>2, <2>3 DEF Listed
  <2>5. others \subseteq Listed(new)
    <3> SUFFICES ASSUME NEW j \in 1..n PROVE conds[j] \in Listed(new)
      BY DEF Listed
    <3> QED
      BY <2>1, <2>3 DEF Listed
  <2>6. cond \in Listed(new)
    BY <2>1, <2>3 DEF Listed
  <2> QED
    BY <2>4, <2>5, <2>6 DEF new, cond
<1> QED
  BY <1>4, <1>5

\* RemoveStatus takes away the condition of a reason and keeps every other one.
LEMMA RemoveStatusLists ==
    ASSUME NEW conds \in Seq(LoggingServiceCondition), WellFormed(conds), NEW reason
    PROVE  Listed(RemoveStatus(conds, reason)) = {c \in Listed(conds) : c.reason # reason}
<1> DEFINE i == GetCondition(conds, reason)
           n == Len(conds)
           swapped == [conds EXCEPT ![i] = conds[n]]
           new == RemoveStatus(conds, reason)
           others == {c \in Listed(conds) : c.reason # reason}
<1>1. /\ i \in 0..n
      /\ i # 0 => conds[i].reason = reason
      /\ i = 0 => \A j \in 1..n : conds[j].reason # reason
  BY GetConditionIndex
<1>2. new = IF i # 0 THEN SubSeq(swapped, 1, n - 1) ELSE conds
  BY DEF RemoveStatus
<1>3. n \in Nat
  OBVIOUS
<1> HIDE DEF i, swapped, new
<1>4. CASE i # 0
  <2>0. i \in 1..n /\ n >= 1
    BY <1>1, <1>3, <1>4
  <2>1. /\ swapped \in Seq(LoggingServiceCondition)
        /\ Len(swapped) = n
        /\ \A j \in 1..n : swapped[j] = IF j = i THEN conds[n] ELSE conds[j]
    BY <1>3, <2>0 DEF swapped
  <2>2. /\ Len(new) = n - 1
        /\ \A j \in 1..(n - 1) : new[j] = IF j = i THEN conds[n] ELSE conds[j]
    BY <1>2, <1>3, <1>4, <2>0, <2>1
  <2>3. \A j \in 1..n : j # i <=> conds[j].reason # reason
    BY <1>1, <2>0 DEF WellFormed
  <2>4. Listed(new) \subseteq others
    <3> SUFFICES ASSUME NEW j \in 1..(n - 1) PROVE new[j] \in others
      BY <2>2 DEF Listed
    <3>1. CASE j = i
      BY <2>0, <2>2, <2>3, <3>1 DEF Listed
    <3>2. CASE j # i
      BY <2>0, <2>2, <2>3, <3>2 DEF Listed
    <3> QED
      BY <3>1, <3>2
  <2>5. others \subseteq Listed(new)
    <3> SUFFICES ASSUME NEW j \in 1..n, conds[j].reason # reason
                 PROVE  conds[j] \in Listed(new)
      BY DEF Listed
    <3>1. CASE j = n
      <4>1. i \in 1..(n - 1)
        BY <1>3, <2>0, <2>3, <3>1
      <4> QED
        BY <2>2, <3>1, <4>1 DEF Listed
    <3>2. CASE j # n
      <4>1. j \in 1..(n - 1) /\ j # i
        BY <1>3, <2>0, <2>3, <3>2
      <4> QED
        BY <2>2, <4>1 DEF Listed
    <3> QED
      BY <3>1, <3>2
  <2> QED
    BY <2>4, <2>5 DEF new
<1>5. CASE i = 0
  BY <1>1, <1>2, <1>5 DEF Listed, new
<1> QED
  BY <1>4, <1>5

\* RemoveTemporaryStatuses adds nothing.
LEMMA RemoveTemporaryStatusesLists ==
    ASSUME NEW conds \in Seq(LoggingServiceCondition), NEW spec
    PROVE  Listed(RemoveTemporaryStatuses(conds, spec)) \subseteq Listed(conds)
<1> DEFINE n == Len(conds)
           k == Cardinality(Temporary(conds, spec))
           new == RemoveTemporaryStatuses(conds, spec)
<1>1. n \in Nat /\ IsFiniteSet(1..n) /\ Cardinality(1..n) = n
  <2>1. IsFiniteSet(1..n) /\ Cardinality(1..n) = IF 1 > n THEN 0 ELSE n - 1 + 1
    BY FS_Interval
  <2> QED
    BY <2>1
<1>2. Temporary(conds, spec) \subseteq 1..n
  BY DEF Temporary
<1>3. k \in Nat /\ k <= n
  BY <1>1, <1>2, FS_Subset, FS_CardinalityType
<1>4. new = SubSeq(conds, 1, n - k)
  BY DEF RemoveTemporaryStatuses
<1> HIDE DEF k, new
<1>5. Len(new) = n - k /\ \A j \in 1..(n - k) : new[j] = conds[j]
  BY <1>1, <1>3, <1>4
<1>6. 1..(n - k) \subseteq 1..n
  BY <1>1, <1>3
<1> QED
  BY <1>5, <1>6 DEF Listed, new
=============================================================================
