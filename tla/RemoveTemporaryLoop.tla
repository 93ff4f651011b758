------------------------ MODULE RemoveTemporaryLoop ------------------------
(***************************************************************************)
(* The loop of StatusUpdater.RemoveTemporaryStatuses, one iteration per    *)
(* step, against the closed form that the rest of the development uses.    *)
(***************************************************************************)
EXTENDS StatusConditions, SequencesExt

CONSTANTS
    Specs,      \* the specifications the loop is run with
    MaxLength   \* bound: the length of the list of conditions

ASSUME LoopAssumption ==
    /\ Specs \subseteq LoggingServiceSpec
    /\ MaxLength \in Nat

VARIABLES
    start,  \* the list when the loop begins
    spec,   \* the specification of the resource
    list,   \* updater.resource.Status.Conditions
    i       \* the loop variable, counted from 1: 0 ends the loop

vars == <<start, spec, list, i>>

\* The lists of conditions: the status of the cycle, then conditions of
\* components, which are only ever in progress or failed.
Lists ==
    LET heads == {Condition(LoggingServiceStatus, t) : t \in {InProgress, Failed}}
        tails == BoundedSeq([reason : Reasons \ {LoggingServiceStatus},
                             type : {InProgress, Failed}], MaxLength - 1)
    IN  {l \in UNION {{<<h>> \o t : t \in tails} : h \in heads} : WellFormed(l)}

Init ==
    /\ start \in Lists
    /\ spec \in Specs
    /\ list = start
    /\ i = Len(start)

\* Defective variant: the condition just looked at is cut out, and the loop
\* goes on behind it as a loop that counts upwards would.
IterationStays ==
    /\ i > 0
    /\ IF IsKept(list[i], spec)
       THEN UNCHANGED list /\ i' = i - 1
       ELSE list' = RemoveAt(list, i) /\ UNCHANGED i
    /\ UNCHANGED <<start, spec>>

\* Defective variant: the condition just looked at is cut out.
IterationRemovesAt ==
    /\ i > 0
    /\ list' = IF IsKept(list[i], spec) THEN list ELSE RemoveAt(list, i)
    /\ i' = i - 1
    /\ UNCHANGED <<start, spec>>

\* One iteration: keep the condition, or cut off the last one of the list.
Iteration ==
    /\ i > 0
    /\ list' = IF IsKept(list[i], spec) THEN list ELSE Front(list)
    /\ i' = i - 1
    /\ UNCHANGED <<start, spec>>

Next == Iteration

Spec == Init /\ [][Next]_vars
-----------------------------------------------------------------------------
\* Although the list shrinks under the loop, Conditions[i] is never out of
\* range (which would end the operator with a panic).
IndexInRange == i <= Len(list)

\* The loop computes what RemoveTemporaryStatuses says it does: a prefix of the
\* list, shorter by the number of conditions that are not kept.
LoopComputesPrefix == i = 0 => list = RemoveTemporaryStatuses(start, spec)
=============================================================================
