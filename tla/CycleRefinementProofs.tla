----------------------- MODULE CycleRefinementProofs -----------------------
(***************************************************************************)
(* The reconcile cycle keeps its promise, for every specification and any  *)
(* number of edits, faults and restarts: every step of ReconcileCycle is a *)
(* step of CyclePromise or changes nothing that CyclePromise speaks of.    *)
(***************************************************************************)
EXTENDS CycleRefinement, ReconcileCycleProofs

\* Before the first component nothing is pending and nothing has failed.
FreshStart == pc \in {"idle", "start", "temporary"} => pending = <<>> /\ success

\* A wait that is over without an error has seen every workload.
WaitOver ==
    pc \in {"expired", "pendingEnd", "finish", "return"} /\ success => pending = <<>>

\* No component is pending twice: taking one off the list ends the wait for it.
PendingOnce ==
    /\ \A i, j \in 1..Len(pending) : pending[i] = pending[j] => i = j
    /\ pc \in {"begin", "work", "notStarted"} =>
          \A i \in 1..Len(pending) : \E k \in 1..(at - 1) : pending[i] = Order[k]

\* Between its first and its last status write, a cycle shows In Progress or a
\* failure, and the failure is one the server shows too.
ShowsProgress ==
    ~StaleReads =>
       /\ pc \notin {"idle", "start", "return"}
             => local.conds[1].type \in {InProgress, Failed}
       /\ pc \notin {"idle", "return"}
             => (FirstFailed(local.conds) => FirstFailed(server.conds))

Control == FreshStart /\ WaitOver /\ PendingOnce

RefInv == Inv /\ Control /\ ShowsProgress
-----------------------------------------------------------------------------
\* A status write that is not about the cycle as a whole.
ComponentWrite == Writes /\ local'.conds[1].type = local.conds[1].type

\* The status at the head of the run of a component.
LEMMA BeginComponentStatus ==
    ASSUME TypeOK, WellFormed(local.conds), local.conds # <<>>,
           NEW reason \in Reasons \ {LoggingServiceStatus}, BeginStatus(reason)
    PROVE  ComponentWrite
<1>1. faults \in 0..MaxFaults
  BY DEF TypeOK
<1>2. CASE IsStatusFailed(local.conds, reason)
  <2>1. NoPatch(faults)
    BY <1>2 DEF BeginStatus
  <2> QED
    BY <1>1, <2>1, NoPatchEffect DEF ComponentWrite
<1>3. CASE ~IsStatusFailed(local.conds, reason)
  <2>1. SetStatus(reason, InProgress, FALSE, faults)
    BY <1>3 DEF BeginStatus
  <2> QED
    BY <1>1, <2>1, SetStatusEffect, OtherReasons DEF ComponentWrite
<1> QED
  BY <1>2, <1>3

\* A component or the wait is reported as failed.
LEMMA FailComponentStatus ==
    ASSUME TypeOK, WellFormed(local.conds), local.conds # <<>>,
           NEW reason \in Reasons \ {LoggingServiceStatus},
           NEW f \in 0..MaxFaults,
           NEW same \in BOOLEAN, SetStatus(reason, Failed, same, f)
    PROVE  ComponentWrite
BY SetStatusEffect, OtherReasons DEF ComponentWrite

\* The status of a component or of the wait is removed.
LEMMA ClearComponentStatus ==
    ASSUME TypeOK, WellFormed(local.conds), local.conds # <<>>,
           NEW reason \in Reasons \ {LoggingServiceStatus},
           NEW f \in 0..MaxFaults, ClearStatus(reason, f)
    PROVE  ComponentWrite
BY ClearStatusEffect DEF ComponentWrite

\* The steps of a cycle that write statuses of components.
ComponentStep ==
    \/ RemoveTemporary \/ RunBegin \/ RunInstalls \/ RunFails \/ NotStarted
    \/ NotStartedReported \/ RunUninstalls \/ PendingBegin \/ PollAvailable
    \/ PollFails \/ ReportNotStarted \/ PendingEnd

\* None of them writes the status of the cycle as a whole.
LEMMA ComponentStepWrites ==
    ASSUME Inv, ComponentStep
    PROVE  ComponentWrite
<1> USE InvFacts, OtherReasons
<1>0. pc \notin {"idle", "start"} /\ local.conds # <<>>
  BY DEF ComponentStep, RemoveTemporary, RunBegin, RunInstalls, RunFails, NotStarted,
         NotStartedReported, RunUninstalls, PendingBegin, PollAvailable, PollFails,
         ReportNotStarted, PendingEnd
<1> USE <1>0
<1>1. CASE RemoveTemporary
  <2> DEFINE new == RemoveTemporaryStatuses(local.conds, local.spec)
  <2>1. /\ new \in Seq(LoggingServiceCondition) /\ WellFormed(new)
        /\ new # <<>> /\ new[1] = local.conds[1]
    BY RemoveTemporaryStatusesWellFormed
  <2>2. NoPatch(faults) \/ PatchStatus(new, faults)
    BY <1>1 DEF RemoveTemporary
  <2> HIDE DEF new
  <2>3. CASE NoPatch(faults)
    BY <2>3, NoPatchEffect DEF ComponentWrite
  <2>4. CASE PatchStatus(new, faults)
    BY <2>1, <2>4, PatchEffect DEF ComponentWrite, Writes
  <2> QED
    BY <2>2, <2>3, <2>4
<1>2. CASE RunBegin
  BY <1>2, BeginComponentStatus, StatusOfFacts DEF RunBegin
<1>3. CASE RunInstalls
  <2>1. ClearStatus(GraylogStatus, faults) \/ NoPatch(faults)
    BY <1>3 DEF RunInstalls
  <2> QED
    BY <2>1, ClearComponentStatus, NoPatchEffect DEF ComponentWrite
<1>4. CASE RunFails
  <2>1. faults < MaxFaults
    BY <1>4 DEF RunFails
  <2>2. \E same \in BOOLEAN :
           SetStatus(FailureStatusOf(Order[at]), Failed, same, faults + 1)
    BY <1>4 DEF RunFails
  <2> QED
    BY <2>1, <2>2, FailComponentStatus, StatusOfFacts
<1>5. CASE NotStarted
  <2>1. faults < MaxFaults
    BY <1>5 DEF NotStarted
  <2>2. \E same \in BOOLEAN : SetStatus(StatusOf(Order[at]), Failed, same, faults + 1)
    BY <1>5 DEF NotStarted
  <2> QED
    BY <2>1, <2>2, FailComponentStatus, StatusOfFacts
<1>6. CASE NotStartedReported
  <2>1. \E same \in BOOLEAN :
           SetStatus(FailureStatusOf(Order[at]), Failed, same, faults)
    BY <1>6 DEF NotStartedReported
  <2> QED
    BY <2>1, FailComponentStatus, StatusOfFacts
<1>7. CASE RunUninstalls
  <2>1. \/ ClearStatus(StatusOf(Order[at]), faults)
        \/ faults < MaxFaults /\ ClearStatus(StatusOf(Order[at]), faults + 1)
    BY <1>7 DEF RunUninstalls
  <2> QED
    BY <2>1, ClearComponentStatus, StatusOfFacts
<1>8. CASE PendingBegin
  BY <1>8, BeginComponentStatus DEF PendingBegin
<1>9. CASE PollAvailable
  <2>1. pending[poll] \in Components
    BY <1>9 DEF PollAvailable, TypeOK
  <2> QED
    BY <1>9, <2>1, ClearComponentStatus, StatusOfFacts DEF PollAvailable
<1>10. CASE PollFails
  BY <1>10, FailComponentStatus DEF PollFails
<1>11. CASE ReportNotStarted
  <2>1. pending[poll] \in Components
    BY <1>11 DEF ReportNotStarted, TypeOK
  <2> QED
    BY <1>11, <2>1, FailComponentStatus, StatusOfFacts DEF ReportNotStarted
<1>12. CASE PendingEnd
  BY <1>12, ClearComponentStatus DEF PendingEnd
<1> QED
  BY <1>1, <1>2, <1>3, <1>4, <1>5, <1>6, <1>7, <1>8, <1>9, <1>10, <1>11, <1>12
     DEF ComponentStep
-----------------------------------------------------------------------------
\* Writing statuses of components keeps what the cycle shows.
LEMMA ComponentWriteShows ==
    ASSUME RefInv, ComponentWrite, pc \notin {"idle", "start", "return"}
    PROVE  ShowsProgress'
BY DEF RefInv, Inv, StatusStarted, ShowsProgress, ComponentWrite, Writes, FirstFailed

\* So does a step that leaves the conditions alone.
LEMMA SilentShows ==
    ASSUME RefInv, server'.conds = server.conds, local'.conds = local.conds,
           pc \notin {"idle", "start", "return"} \/ pc' = pc
    PROVE  ShowsProgress'
BY DEF RefInv, ShowsProgress, FirstFailed

\* The first status write shows In Progress, or keeps the failure.
LEMMA StartStatusShows ==
    ASSUME RefInv, StartStatus
    PROVE  /\ Writes
           /\ local'.conds[1].type \in {InProgress, Failed}
           /\ local'.conds[1].type = Failed <=> FirstFailed(local.conds)
<1> USE DEF RefInv
<1> USE InvFacts, OtherReasons
<1>1. CASE IsStatusFailed(local.conds, LoggingServiceStatus)
  <2>1. NoPatch(faults)
    BY <1>1 DEF StartStatus, BeginStatus
  <2>2. CycleStatus(local.conds) = Failed /\ local.conds # <<>>
    BY <1>1, GetConditionIndex DEF CycleStatus, IsStatusFailed
  <2>3. local.conds[1].type = Failed
    BY <2>2, CycleStatusIsFirst
  <2> QED
    BY <2>1, <2>2, <2>3, NoPatchEffect DEF FirstFailed
<1>2. CASE ~IsStatusFailed(local.conds, LoggingServiceStatus)
  <2>1. SetStatus(LoggingServiceStatus, InProgress, FALSE, faults)
    BY <1>2 DEF StartStatus, BeginStatus
  <2>2. Writes /\ local'.conds[1].type = InProgress
    BY <2>1, SetStatusEffect
  <2>3. ~FirstFailed(local.conds)
    <3> SUFFICES ASSUME FirstFailed(local.conds) PROVE FALSE
      OBVIOUS
    <3>1. CycleStatus(local.conds) = Failed
      BY CycleStatusIsFirst DEF FirstFailed
    <3> QED
      BY <1>2, <3>1 DEF CycleStatus, IsStatusFailed, Failed
  <2> QED
    BY <2>2, <2>3 DEF InProgress, Failed
<1> QED
  BY <1>1, <1>2

\* The worker goes on with the next component, and the one it leaves is pending
\* or not.
LEMMA NextComponentControl ==
    ASSUME TypeOK, PendingOnce, pc \in {"work", "notStarted"}, NextComponent,
           pending' \in {pending, Append(pending, Order[at])}
    PROVE  Control'
<1>1. /\ pending \in Seq(Components)
      /\ at \in 1..5
      /\ \A i, j \in 1..5 : Order[i] = Order[j] => i = j
      /\ pc' \in {"begin", "pendingBegin"}
      /\ pc' = "begin" => at' = at + 1
  BY OrderFacts DEF TypeOK, NextComponent, Order
<1>2. FreshStart' /\ WaitOver'
  BY <1>1 DEF FreshStart, WaitOver
<1>3. CASE pending' = pending
  <2>1. \A i, j \in 1..Len(pending') : pending'[i] = pending'[j] => i = j
    BY <1>3 DEF PendingOnce
  <2>2. pc' = "begin" =>
           \A i \in 1..Len(pending') : \E k \in 1..(at' - 1) : pending'[i] = Order[k]
    BY <1>1, <1>3 DEF PendingOnce
  <2> QED
    BY <1>1, <1>2, <2>1, <2>2 DEF Control, PendingOnce
<1>4. CASE pending' = Append(pending, Order[at])
  <2> DEFINE n == Len(pending)
  <2>1. /\ n \in Nat
        /\ Len(pending') = n + 1
        /\ \A i \in 1..n : pending'[i] = pending[i]
        /\ pending'[n + 1] = Order[at]
    BY <1>1, <1>4
  <2>2. \A i \in 1..n : \E k \in 1..(at - 1) : pending[i] = Order[k]
    BY DEF PendingOnce
  <2>3. \A i \in 1..n : pending[i] # Order[at]
    <3> SUFFICES ASSUME NEW i \in 1..n PROVE pending[i] # Order[at]
      OBVIOUS
    <3>1. PICK k \in 1..(at - 1) : pending[i] = Order[k]
      BY <2>2
    <3> QED
      BY <1>1, <3>1
  <2>4. ASSUME NEW i \in 1..(n + 1), NEW j \in 1..(n + 1), pending'[i] = pending'[j]
        PROVE  i = j
    BY <2>1, <2>3, <2>4 DEF PendingOnce
  <2>5. ASSUME NEW i \in 1..(n + 1)
        PROVE  \E k \in 1..at : pending'[i] = Order[k]
    <3>1. CASE i = n + 1
      BY <1>1, <2>1, <3>1
    <3>2. CASE i # n + 1
      <4>1. PICK k \in 1..(at - 1) : pending[i] = Order[k]
        BY <2>1, <2>2, <3>2
      <4> QED
        BY <1>1, <2>1, <3>2, <4>1
    <3> QED
      BY <3>1, <3>2
  <2>6. pc' = "begin" => at' - 1 = at
    BY <1>1
  <2> HIDE DEF n
  <2> QED
    BY <1>1, <1>2, <2>1, <2>4, <2>5, <2>6 DEF Control, PendingOnce
<1> QED
  BY <1>3, <1>4

\* Moving the last pending component into the place of the one that runs takes
\* exactly that one off the list.
LEMMA TakeOff ==
    ASSUME NEW S, NEW list \in Seq(S), NEW p \in 1..Len(list),
           \A i, j \in 1..Len(list) : list[i] = list[j] => i = j
    PROVE  LET new == SubSeq([list EXCEPT ![p] = list[Len(list)]], 1, Len(list) - 1)
           IN  /\ new \in Seq(S)
               /\ Len(new) = Len(list) - 1
               /\ \A i, j \in 1..Len(new) : new[i] = new[j] => i = j
               /\ {new[i] : i \in 1..Len(new)}
                     = {list[i] : i \in 1..Len(list)} \ {list[p]}
<1> DEFINE n == Len(list)
           swapped == [list EXCEPT ![p] = list[n]]
           new == SubSeq(swapped, 1, n - 1)
<1>1. n \in Nat /\ n >= 1 /\ p \in 1..n
  OBVIOUS
<1>2. /\ swapped \in Seq(S)
      /\ Len(swapped) = n
      /\ \A j \in 1..n : swapped[j] = IF j = p THEN list[n] ELSE list[j]
  OBVIOUS
<1> HIDE DEF swapped
<1>3. /\ new \in Seq(S)
      /\ Len(new) = n - 1
      /\ \A j \in 1..(n - 1) : new[j] = IF j = p THEN list[n] ELSE list[j]
  BY <1>1, <1>2
<1> HIDE DEF new
<1>4. \A i, j \in 1..(n - 1) : new[i] = new[j] => i = j
  BY <1>1, <1>3
<1>5. ASSUME NEW i \in 1..(n - 1)
      PROVE  \E j \in 1..n : new[i] = list[j] /\ list[j] # list[p]
  <2>1. CASE i = p
    BY <1>1, <1>3, <2>1
  <2>2. CASE i # p
    BY <1>1, <1>3, <2>2
  <2> QED
    BY <2>1, <2>2
<1>6. ASSUME NEW j \in 1..n, list[j] # list[p]
      PROVE  \E i \in 1..(n - 1) : new[i] = list[j]
  <2>1. CASE j = n
    <3>1. p \in 1..(n - 1)
      BY <1>1, <1>6, <2>1
    <3> QED
      BY <1>3, <2>1, <3>1
  <2>2. CASE j # n
    <3>1. j \in 1..(n - 1) /\ j # p
      BY <1>1, <1>6, <2>2
    <3> QED
      BY <1>3, <3>1
  <2> QED
    BY <2>1, <2>2
<1>7. {new[i] : i \in 1..(n - 1)} = {list[i] : i \in 1..n} \ {list[p]}
  <2>1. {new[i] : i \in 1..(n - 1)} \subseteq {list[i] : i \in 1..n} \ {list[p]}
    BY <1>5, SMTT(30)
  <2>2. {list[i] : i \in 1..n} \ {list[p]} \subseteq {new[i] : i \in 1..(n - 1)}
    <3> SUFFICES ASSUME NEW j \in 1..n, list[j] # list[p]
                 PROVE  list[j] \in {new[i] : i \in 1..(n - 1)}
      OBVIOUS
    <3> QED
      BY <1>6
  <2> QED
    BY <2>1, <2>2
<1> QED
  BY <1>3, <1>4, <1>7 DEF new, swapped
-----------------------------------------------------------------------------
\* The initial states.
LEMMA RefInvInit == Init => RefInv
<1> SUFFICES ASSUME Init PROVE RefInv
  OBVIOUS
<1>1. Inv
  BY InvInit
<1>2. Control /\ ShowsProgress
  BY DEF Init, Control, FreshStart, WaitOver, PendingOnce, ShowsProgress
<1> QED
  BY <1>1, <1>2 DEF RefInv

\* The steps that begin, end or lose a cycle.
LEMMA BoundaryControl ==
    ASSUME RefInv, BeginCycle \/ Return \/ Restart
    PROVE  Control' /\ ShowsProgress'
<1>1. pc' \in {"idle", "start"} /\ pending' = <<>> /\ success' = TRUE
  BY DEF BeginCycle, Return, ReturnIdle, Restart
<1>2. Control'
  BY <1>1 DEF Control, FreshStart, WaitOver, PendingOnce
<1>3. pc' = "start" /\ ~StaleReads => local'.conds = server'.conds
  BY DEF BeginCycle, Return, ReturnIdle, Restart
<1>4. ShowsProgress'
  BY <1>1, <1>3 DEF ShowsProgress
<1> QED
  BY <1>2, <1>4

\* The steps of the environment, and the reads that fail or find nothing.
AsideStep ==
    \/ GetNotFound \/ GetFails \/ EditSpec \/ DeleteCR \/ CacheSync \/ TimerFires
    \/ SecretEvent

\* They leave the worker and the conditions on the server alone.
LEMMA AsideEffect ==
    ASSUME Inv, AsideStep
    PROVE  /\ UNCHANGED <<pc, at, local, success, pending, poll, round, applied>>
           /\ server'.conds = server.conds
<1>1. UNCHANGED <<pc, at, local, success, pending, poll, round, applied>>
  BY DEF AsideStep, GetNotFound, GetFails, EditSpec, DeleteCR, CacheSync, TimerFires,
         SecretEvent, EnvUnchanged
<1>2. CASE EditSpec
  <2>1. PICK s \in UserSpecs : server' = [server EXCEPT !.spec = s, !.generation = @ + 1]
    BY <1>2 DEF EditSpec
  <2> QED
    BY <1>1, <2>1 DEF Inv, TypeOK, Resources
<1>3. CASE DeleteCR
  BY <1>1, <1>3 DEF DeleteCR, Inv, TypeOK, Resources
<1>4. CASE GetNotFound \/ GetFails \/ CacheSync \/ TimerFires \/ SecretEvent
  BY <1>1, <1>4 DEF GetNotFound, GetFails, CacheSync, TimerFires, SecretEvent
<1> QED
  BY <1>2, <1>3, <1>4 DEF AsideStep

\* Every other step of a cycle preserves what the refinement needs of the list
\* of pending components.
LEMMA ComponentStepControl ==
    ASSUME RefInv, ComponentStep
    PROVE  Control'
<1> USE DEF RefInv
<1>0. TypeOK /\ Control /\ pending \in Seq(Components)
  BY InvFacts DEF TypeOK
<1> USE <1>0
<1>1. CASE RemoveTemporary
  BY <1>1 DEF RemoveTemporary, Control, FreshStart, WaitOver, PendingOnce
<1>2. CASE RunBegin \/ NotStarted
  BY <1>2 DEF RunBegin, NotStarted, Control, FreshStart, WaitOver, PendingOnce
<1>3. CASE RunInstalls \/ RunFails \/ NotStartedReported \/ RunUninstalls
  <2>1. /\ pc \in {"work", "notStarted"}
        /\ NextComponent
        /\ pending' \in {pending, Append(pending, Order[at])}
    BY <1>3 DEF RunInstalls, RunFails, NotStartedReported, RunUninstalls
  <2> QED
    BY <2>1, NextComponentControl DEF Control
<1>4. CASE PendingBegin \/ PollFails \/ ReportNotStarted \/ PendingEnd
  BY <1>4 DEF PendingBegin, PollFails, ReportNotStarted, PendingEnd, Control, FreshStart,
              WaitOver, PendingOnce
<1>5. CASE PollAvailable
  <2>1. /\ poll \in 1..Len(pending)
        /\ pending' = SubSeq([pending EXCEPT ![poll] = pending[Len(pending)]],
                             1, Len(pending) - 1)
        /\ pc' \in {"poll", "roundEnd"}
    BY <1>5 DEF PollAvailable, AfterPoll, TypeOK
  <2>2. \A i, j \in 1..Len(pending') : pending'[i] = pending'[j] => i = j
    BY <2>1, TakeOff DEF Control, PendingOnce
  <2> QED
    BY <2>1, <2>2 DEF Control, FreshStart, WaitOver, PendingOnce
<1> QED
  BY <1>1, <1>2, <1>3, <1>4, <1>5 DEF ComponentStep

\* Every step preserves the invariant of the refinement.
LEMMA RefInvNext == RefInv /\ [Next]_vars => RefInv'
<1> SUFFICES ASSUME RefInv, [Next]_vars PROVE RefInv'
  OBVIOUS
<1> USE DEF RefInv
<1>0. Inv'
  BY InvNext
<1> SUFFICES Control' /\ ShowsProgress'
  BY <1>0
<1>1. CASE UNCHANGED vars
  BY <1>1 DEF vars, Control, FreshStart, WaitOver, PendingOnce, ShowsProgress
<1>2. CASE BeginCycle \/ Return \/ Restart
  BY <1>2, BoundaryControl
<1>3. CASE AsideStep
  <2>1. /\ UNCHANGED <<pc, at, local, success, pending>>
        /\ server'.conds = server.conds
    BY <1>3, AsideEffect
  <2>2. Control'
    BY <2>1 DEF Control, FreshStart, WaitOver, PendingOnce
  <2> QED
    BY <2>1, <2>2, SilentShows
<1>4. CASE ComponentStep
  <2>1. pc \notin {"idle", "start", "return"}
    BY <1>4 DEF ComponentStep, RemoveTemporary, RunBegin, RunInstalls, RunFails,
         NotStarted, NotStartedReported, RunUninstalls, PendingBegin, PollAvailable,
         PollFails, ReportNotStarted, PendingEnd
  <2> QED
    BY <1>4, <2>1, ComponentStepWrites, ComponentStepControl, ComponentWriteShows
<1>5. CASE PollNotYet \/ RoundDone \/ RoundAgain \/ WaitExpires
  <2>1. /\ pc \in {"poll", "roundEnd"}
        /\ pc' \in {"poll", "roundEnd", "pendingEnd", "expired"}
        /\ pc' = "pendingEnd" => pending = <<>>
        /\ pc' = "expired" => ~success'
        /\ UNCHANGED <<server, local, at, pending>>
    BY <1>5 DEF PollNotYet, RoundDone, RoundAgain, WaitExpires, AfterPoll
  <2>2. Control'
    BY <2>1 DEF Control, FreshStart, WaitOver, PendingOnce
  <2> QED
    BY <2>1, <2>2, SilentShows
<1>6. CASE StartStatus
  <2>1. pc = "start" /\ pc' = "temporary" /\ UNCHANGED <<at, success, pending>>
    BY <1>6 DEF StartStatus
  <2>2. Control'
    BY <2>1 DEF Control, FreshStart, WaitOver, PendingOnce
  <2>3. ShowsProgress'
    BY <1>6, <2>1, StartStatusShows
       DEF ShowsProgress, Writes, FirstFailed, Inv, KnowsFailure
  <2> QED
    BY <2>2, <2>3
<1>7. CASE Finish
  <2>1. pc = "finish" /\ pc' = "return" /\ UNCHANGED <<at, success, pending>>
    BY <1>7 DEF Finish
  <2> QED
    BY <2>1 DEF Control, FreshStart, WaitOver, PendingOnce, ShowsProgress
<1> QED
  BY <1>1, <1>2, <1>3, <1>4, <1>5, <1>6, <1>7
     DEF Next, Operator, Environment, AsideStep, ComponentStep
-----------------------------------------------------------------------------
(***************************************************************************)
(* The refinement: which step of CyclePromise each step is.                *)
(***************************************************************************)

\* What the mapping says at each place of the worker.
LEMMA MappedState ==
    /\ pc = "idle" => Phase = "rest"
    /\ pc = "return" => Phase = "reported"
    /\ pc \notin {"idle", "return"} => Phase = "busy"
    /\ pc \in {"start", "temporary"} => Todo = Components
    /\ pc \in {"begin", "work", "notStarted"} => Todo = {Order[i] : i \in at..5}
    /\ pc \notin {"start", "temporary", "begin", "work", "notStarted"} => Todo = {}
BY OrderFacts DEF Phase, Todo

\* The same of the next state.
LEMMA MappedNext ==
    /\ pc' = "idle" => Phase' = "rest"
    /\ pc' = "return" => Phase' = "reported"
    /\ pc' \notin {"idle", "return"} => Phase' = "busy"
    /\ pc' \in {"start", "temporary"} => Todo' = Components
    /\ pc' \in {"begin", "work", "notStarted"} => Todo' = {Order[i] : i \in at'..5}
    /\ pc' \notin {"start", "temporary", "begin", "work", "notStarted"} => Todo' = {}
BY OrderFacts DEF Phase, Todo

\* Order lists every component, and none twice.
LEMMA OrderListsComponents ==
    /\ {Order[i] : i \in 1..5} = Components
    /\ \A i, j \in 1..5 : Order[i] = Order[j] => i = j
<1>1. \A i, j \in 1..5 : Order[i] = Order[j] => i = j
  BY DEF Order
<1>2. {Order[i] : i \in 1..5} \subseteq Components
  BY OrderFacts
<1>3. \A c \in Components : \E i \in 1..5 : c = Order[i]
  <2>1. /\ Order[1] = "Graylog" /\ Order[2] = "Fluentd" /\ Order[3] = "Fluentbit"
        /\ Order[4] = "HAFluent" /\ Order[5] = "EventsReader"
    BY DEF Order
  <2> QED
    BY <2>1 DEF Components
<1> QED
  BY <1>1, <1>2, <1>3

\* Writing statuses of components shows In Progress, and never over a failure.
LEMMA ComponentWritePublishes ==
    ASSUME ~StaleReads, RefInv, Inv', ComponentWrite,
           pc \notin {"idle", "start", "return"}
    PROVE  Promise!Publishes
<1>1. /\ server.conds \in Seq(LoggingServiceCondition) /\ WellFormed(server.conds)
      /\ server'.conds \in Seq(LoggingServiceCondition) /\ WellFormed(server'.conds)
  BY DEF RefInv, Inv, TypeOK, Resources, ConditionsWellFormed
<1>2. CASE server'.conds = server.conds
  BY <1>2 DEF Promise!Publishes
<1>3. CASE server'.conds = local'.conds
  <2>1. /\ local'.conds # <<>>
        /\ local'.conds[1].type = local.conds[1].type
        /\ local.conds # <<>>
        /\ local.conds[1].type \in {InProgress, Failed}
    BY DEF ComponentWrite, Writes, RefInv, Inv, StatusStarted, ShowsProgress
  <2>2. CycleStatus(server'.conds) = local.conds[1].type
    BY <1>1, <1>3, <2>1, CycleStatusIsFirst
  <2>3. CASE local.conds[1].type = Failed
    <3>1. CycleStatus(server.conds) = Failed
      BY <1>1, <2>1, <2>3, CycleStatusIsFirst DEF RefInv, ShowsProgress, FirstFailed
    <3> QED
      BY <2>2, <2>3, <3>1 DEF Promise!Publishes
  <2>4. CASE local.conds[1].type = InProgress
    <3>1. ~FirstFailed(server.conds)
      BY <2>1, <2>4 DEF RefInv, Inv, KnowsFailure, FirstFailed, InProgress, Failed
    <3>2. CycleStatus(server.conds) # Failed
      BY <1>1, <3>1, CycleStatusIsFirst DEF FirstFailed, Failed
    <3> QED
      BY <2>2, <2>4, <3>2
         DEF Promise!Publishes, Promise!InProgress, Promise!Failed, InProgress, Failed
  <2> QED
    BY <2>1, <2>3, <2>4
<1> QED
  BY <1>2, <1>3 DEF ComponentWrite, Writes

\* A status write that leaves the rest of the promise alone is an announcement or
\* goes unnoticed.
LEMMA AnnounceStep ==
    ASSUME Promise!Publishes, Phase = "busy",
           UNCHANGED <<Phase, Todo, pending, success>>
    PROVE  [Promise!Next]_Promise!vars
<1>1. UNCHANGED Promise!cycle
  BY DEF Promise!cycle
<1>2. CASE UNCHANGED CycleStatus(server.conds)
  BY <1>1, <1>2 DEF Promise!vars
<1>3. CASE ~UNCHANGED CycleStatus(server.conds)
  BY <1>1, <1>3 DEF Promise!Publishes, Promise!Next, Promise!Announce
<1> QED
  BY <1>2, <1>3

\* Going on with the next component takes one component off those to do.
LEMMA NextComponentTodo ==
    ASSUME TypeOK, pc \in {"work", "notStarted"}, NextComponent
    PROVE  Order[at] \in Todo /\ Todo' = Todo \ {Order[at]}
<1>0. at \in 1..5
  BY OrderFacts DEF TypeOK
<1>1. Todo = {Order[i] : i \in at..5}
  BY MappedState
<1>2. Todo' = {Order[i] : i \in (at + 1)..5}
  <2>1. CASE at < 5
    BY <1>0, <2>1, MappedNext, OrderFacts DEF NextComponent
  <2>2. CASE ~(at < 5)
    <3>1. Todo' = {} /\ at = 5
      BY <1>0, <2>2, MappedNext, OrderFacts DEF NextComponent
    <3> QED
      BY <3>1
  <2> QED
    BY <2>1, <2>2
<1>3. at..5 = {at} \cup (at + 1)..5
  BY <1>0
<1>4. \A i \in (at + 1)..5 : Order[i] # Order[at]
  BY <1>0, OrderListsComponents
<1> QED
  BY <1>0, <1>1, <1>2, <1>3, <1>4

\* The end of the run of a component.
LEMMA DealStep ==
    ASSUME RefInv, Promise!Publishes, pc \in {"work", "notStarted"}, NextComponent,
           \/ UNCHANGED <<pending, success>>
           \/ pending' = Append(pending, Order[at]) /\ UNCHANGED success
           \/ success' = FALSE /\ UNCHANGED pending
    PROVE  Promise!Next
<1> DEFINE c == Order[at]
           waiting == {pending[i] : i \in 1..Len(pending)}
<1>1. at \in 1..5 /\ pending \in Seq(Components) /\ c \in Components
  BY OrderFacts DEF RefInv, Inv, TypeOK
<1>2. Phase = "busy" /\ Phase' = "busy"
  BY MappedState, MappedNext, OrderFacts DEF NextComponent
<1>3. c \in Todo /\ Todo' = Todo \ {c}
  BY NextComponentTodo DEF RefInv, Inv
<1>4. \/ waiting' = waiting /\ success' = success
      \/ waiting' = waiting \cup {c} /\ success' = success
      \/ success' = FALSE /\ waiting' = waiting
  <2>1. CASE UNCHANGED pending
    BY <2>1
  <2>2. CASE pending' = Append(pending, c) /\ UNCHANGED success
    <3>1. /\ Len(pending') = Len(pending) + 1
          /\ \A i \in 1..Len(pending) : pending'[i] = pending[i]
          /\ pending'[Len(pending) + 1] = c
          /\ Len(pending) \in Nat
      BY <1>1, <2>2
    <3>2. 1..(Len(pending) + 1) = 1..Len(pending) \cup {Len(pending) + 1}
      BY <3>1
    <3>3. waiting' = waiting \cup {c}
      BY <3>1, <3>2
    <3> QED
      BY <2>2, <3>3
  <2> QED
    BY <2>1, <2>2
<1> HIDE DEF c
<1>5. Promise!Deal(c)
  BY <1>2, <1>3, <1>4 DEF Promise!Deal
<1>6. c \in Promise!Components
  BY <1>1 DEF Promise!Components, Components
<1> QED
  BY <1>5, <1>6 DEF Promise!Next, Promise!Deal

\* The steps of a cycle that write statuses of components.
LEMMA ComponentStepRefines ==
    ASSUME ~StaleReads, RefInv, Inv', ComponentStep
    PROVE  [Promise!Next]_Promise!vars
<1>0. pc \notin {"idle", "start", "return"} /\ Phase = "busy"
  BY MappedState
     DEF ComponentStep, RemoveTemporary, RunBegin, RunInstalls, RunFails,
         NotStarted, NotStartedReported, RunUninstalls, PendingBegin, PollAvailable,
         PollFails, ReportNotStarted, PendingEnd
<1>1. Promise!Publishes
  BY <1>0, ComponentStepWrites, ComponentWritePublishes DEF RefInv
<1>2. CASE RemoveTemporary
  <2>1. /\ pc = "temporary" /\ pc' = "begin" /\ at' = 1
        /\ UNCHANGED <<pending, success>>
    BY <1>2 DEF RemoveTemporary
  <2>2. Phase' = Phase /\ Todo' = Todo
    BY <2>1, MappedState, MappedNext, OrderListsComponents
  <2> QED
    BY <1>0, <1>1, <2>1, <2>2, AnnounceStep
<1>3. CASE RunBegin \/ NotStarted
  <2>1. /\ pc \in {"begin", "work"} /\ pc' \in {"work", "notStarted"}
        /\ UNCHANGED <<at, pending, success>>
    BY <1>3 DEF RunBegin, NotStarted
  <2>2. Phase' = Phase /\ Todo' = Todo
    BY <2>1, MappedState, MappedNext
  <2> QED
    BY <1>0, <1>1, <2>1, <2>2, AnnounceStep
<1>4. CASE RunInstalls \/ RunFails \/ NotStartedReported \/ RunUninstalls
  <2>1. /\ pc \in {"work", "notStarted"}
        /\ NextComponent
        /\ \/ UNCHANGED <<pending, success>>
           \/ pending' = Append(pending, Order[at]) /\ UNCHANGED success
           \/ success' = FALSE /\ UNCHANGED pending
    BY <1>4 DEF RunInstalls, RunFails, NotStartedReported, RunUninstalls
  <2> QED
    BY <1>1, <2>1, DealStep
<1>5. CASE PendingBegin \/ ReportNotStarted \/ PendingEnd
  <2>1. /\ pc \in {"pendingBegin", "expired", "pendingEnd"}
        /\ pc' \in {"poll", "expired", "pendingEnd", "finish"}
        /\ UNCHANGED <<pending, success>>
    BY <1>5 DEF PendingBegin, ReportNotStarted, PendingEnd
  <2>2. Phase' = Phase /\ Todo' = Todo
    BY <2>1, MappedState, MappedNext
  <2> QED
    BY <1>0, <1>1, <2>1, <2>2, AnnounceStep
<1>6. CASE PollAvailable
  <2>1. /\ pc = "poll" /\ pc' \in {"poll", "roundEnd"}
        /\ pending' = SubSeq([pending EXCEPT ![poll] = pending[Len(pending)]],
                             1, Len(pending) - 1)
        /\ UNCHANGED success
    BY <1>6 DEF PollAvailable, AfterPoll
  <2>2. /\ poll \in 1..Len(pending) /\ pending \in Seq(Components)
        /\ \A i, j \in 1..Len(pending) : pending[i] = pending[j] => i = j
    BY <2>1 DEF RefInv, Inv, TypeOK, Control, PendingOnce
  <2>3. /\ {pending'[i] : i \in 1..Len(pending')}
              = {pending[i] : i \in 1..Len(pending)} \ {pending[poll]}
        /\ pending[poll] \in {pending[i] : i \in 1..Len(pending)}
    BY <2>1, <2>2, TakeOff
  <2>4. Phase' = Phase /\ Todo' = Todo /\ Todo = {}
    BY <2>1, MappedState, MappedNext
  <2>5. pending[poll] \in Promise!Components
    BY <2>2 DEF Promise!Components, Components
  <2>6. Promise!Runs(pending[poll])
    BY <1>0, <1>1, <2>1, <2>3, <2>4 DEF Promise!Runs
  <2> QED
    BY <2>5, <2>6 DEF Promise!Next, Promise!Runs
<1>7. CASE PollFails
  <2>1. /\ pc = "poll" /\ pc' = "finish"
        /\ success' = FALSE
        /\ UNCHANGED pending
    BY <1>7 DEF PollFails
  <2>2. {pending[i] : i \in 1..Len(pending)} # {}
    BY <2>1 DEF RefInv, Inv, TypeOK
  <2>3. Phase' = Phase /\ Todo' = Todo /\ Todo = {}
    BY <2>1, MappedState, MappedNext
  <2> QED
    BY <1>0, <1>1, <2>1, <2>2, <2>3 DEF Promise!Next, Promise!GiveUp
<1> QED
  BY <1>2, <1>3, <1>4, <1>5, <1>6, <1>7 DEF ComponentStep

\* Every step of the reconcile cycle keeps the promise.
LEMMA StepRefines ==
    ASSUME ~StaleReads, RefInv, RefInv', [Next]_vars
    PROVE  [Promise!Next]_Promise!vars
<1> USE DEF RefInv
<1>1. CASE UNCHANGED vars
  BY <1>1 DEF vars, Promise!vars, Promise!cycle, Phase, Todo
<1>2. CASE AsideStep
  BY <1>2, AsideEffect DEF Promise!vars, Promise!cycle, Phase, Todo
<1>3. CASE ComponentStep
  BY <1>3, ComponentStepRefines
<1>4. CASE BeginCycle
  <2>1. /\ pc = "idle" /\ pc' = "start"
        /\ success' = TRUE /\ pending' = <<>>
        /\ UNCHANGED server
    BY <1>4 DEF BeginCycle
  <2>2. success = TRUE /\ pending = <<>>
    BY <2>1 DEF Control, FreshStart, Inv, TypeOK
  <2> QED
    BY <2>1, <2>2, MappedState, MappedNext
       DEF Promise!Next, Promise!Start, Promise!Components, Components
<1>5. CASE Return \/ Restart
  <2>1. pc' = "idle" /\ success' = TRUE /\ pending' = <<>> /\ UNCHANGED server
    BY <1>5 DEF Return, ReturnIdle, Restart
  <2>2. {pending'[i] : i \in 1..Len(pending')} = {}
    BY <2>1
  <2> QED
    BY <2>1, <2>2, MappedNext DEF Promise!Next, Promise!Crash, Promise!Resting
<1>6. CASE PollNotYet \/ RoundDone \/ RoundAgain
  <2>1. /\ pc \in {"poll", "roundEnd"}
        /\ pc' \in {"poll", "roundEnd", "pendingEnd"}
        /\ UNCHANGED <<server, success, pending>>
    BY <1>6 DEF PollNotYet, RoundDone, RoundAgain, AfterPoll
  <2> QED
    BY <2>1, MappedState, MappedNext DEF Promise!vars, Promise!cycle
<1>7. CASE WaitExpires
  <2>1. /\ pc = "roundEnd" /\ pc' = "expired"
        /\ success' = FALSE /\ pending # <<>>
        /\ UNCHANGED <<server, pending>>
    BY <1>7 DEF WaitExpires
  <2>2. {pending[i] : i \in 1..Len(pending)} # {}
    BY <2>1 DEF Inv, TypeOK
  <2> QED
    BY <2>1, <2>2, MappedState, MappedNext
       DEF Promise!Next, Promise!GiveUp, Promise!Publishes
<1>8. CASE StartStatus
  <2>1. pc = "start" /\ pc' = "temporary" /\ UNCHANGED <<success, pending>>
    BY <1>8 DEF StartStatus
  <2>2. Phase' = Phase /\ Todo' = Todo /\ Phase = "busy"
    BY <2>1, MappedState, MappedNext
  <2>3. /\ server.conds \in Seq(LoggingServiceCondition) /\ WellFormed(server.conds)
        /\ server'.conds \in Seq(LoggingServiceCondition) /\ WellFormed(server'.conds)
    BY DEF Inv, TypeOK, Resources, ConditionsWellFormed
  <2>4. Promise!Publishes
    <3>1. CASE server'.conds = server.conds
      BY <3>1 DEF Promise!Publishes
    <3>2. CASE server'.conds = local'.conds
      <4>1. CycleStatus(server'.conds) = local'.conds[1].type
        BY <1>8, <2>3, <3>2, StartStatusShows, CycleStatusIsFirst DEF Writes
      <4>2. FirstFailed(local.conds) <=> FirstFailed(server.conds)
        BY <2>1 DEF ShowsProgress, Inv, KnowsFailure
      <4>3. FirstFailed(server.conds) <=> CycleStatus(server.conds) = Failed
        BY <2>3, CycleStatusIsFirst DEF FirstFailed, Failed
      <4> QED
        BY <1>8, <4>1, <4>2, <4>3, StartStatusShows
           DEF Promise!Publishes, Promise!InProgress, Promise!Failed, InProgress, Failed
    <3> QED
      BY <1>8, <3>1, <3>2, StartStatusShows DEF Writes
  <2> QED
    BY <2>1, <2>2, <2>4, AnnounceStep
<1>9. CASE Finish
  <2>1. pc = "finish" /\ pc' = "return" /\ UNCHANGED <<success, pending>>
    BY <1>9 DEF Finish
  <2>2. /\ Phase = "busy" /\ Phase' = "reported"
        /\ Todo = {} /\ Todo' = {}
        /\ success => {pending[i] : i \in 1..Len(pending)} = {}
    BY <2>1, MappedState, MappedNext DEF Control, WaitOver
  <2> DEFINE t == IF success THEN Success ELSE Failed
  <2>3. SetStatus(LoggingServiceStatus, t, TRUE, faults) /\ t \in Types
    BY <1>9, OtherReasons DEF Finish
  <2> HIDE DEF t
  <2>4. Writes /\ local'.conds[1].type = t
    BY <2>3, InvFacts, OtherReasons, SetStatusEffect
  <2>5. CycleStatus(server'.conds) \in {CycleStatus(server.conds), t}
    <3>1. server'.conds \in Seq(LoggingServiceCondition) /\ WellFormed(server'.conds)
      BY DEF Inv, TypeOK, Resources, ConditionsWellFormed
    <3>2. CASE server'.conds = local'.conds
      BY <2>4, <3>1, <3>2, CycleStatusIsFirst DEF Writes
    <3> QED
      BY <2>4, <3>2 DEF Writes
  <2>6. t = IF success THEN Promise!Success ELSE Promise!Failed
    BY DEF t, Promise!Success, Promise!Failed, Success, Failed
  <2> QED
    BY <2>1, <2>2, <2>5, <2>6 DEF Promise!Next, Promise!Report
<1> QED
  BY <1>1, <1>2, <1>3, <1>4, <1>5, <1>6, <1>7, <1>8, <1>9
     DEF Next, Operator, Environment, AsideStep, ComponentStep

\* The initial states map to the initial state of the promise.
LEMMA InitRefines == Init => Promise!Init
<1> SUFFICES ASSUME Init PROVE Promise!Init
  OBVIOUS
<1>1. pc = "idle" /\ pending = <<>> /\ success = TRUE
  BY DEF Init
<1>2. server.conds = <<>> /\ CycleStatus(server.conds) = "none"
  <2>1. server.conds = <<>>
    BY DEF Init
  <2>2. GetCondition(<<>>, LoggingServiceStatus) = 0
    BY DEF GetCondition
  <2> QED
    BY <2>1, <2>2 DEF CycleStatus
<1>3. {pending[i] : i \in 1..Len(pending)} = {}
  BY <1>1
<1> QED
  BY <1>1, <1>2, <1>3, MappedState DEF Promise!Init
-----------------------------------------------------------------------------
\* The reconcile cycle implements CyclePromise, for every set of specifications
\* and any number of edits, faults, rounds and restarts, provided that a cycle
\* never starts from an outdated cache: Successful is published only by a cycle
\* that dealt with every component, met no error and saw every workload, Failed
\* only by one that met an error, and a failure stays until a success.
THEOREM CycleKeepsPromise == ~StaleReads => (Spec => KeepsPromise)
<1> SUFFICES ASSUME ~StaleReads PROVE Spec => KeepsPromise
  OBVIOUS
<1>1. ASSUME RefInv, RefInv', [Next]_vars
      PROVE  [Promise!Next]_Promise!vars
  BY <1>1, StepRefines
<1> QED
  BY <1>1, InitRefines, RefInvInit, RefInvNext, PTL
     DEF Spec, KeepsPromise, Promise!Spec
=============================================================================
