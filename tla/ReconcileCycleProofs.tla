------------------------ MODULE ReconcileCycleProofs ------------------------
(***************************************************************************)
(* Theorems about the reconcile loop: type correctness, the shape of the   *)
(* list of conditions, and that a failed cycle status stays until the      *)
(* first success.                                                          *)
(***************************************************************************)
EXTENDS ReconcileCycle, StatusConditionsProofs

\* The status of the cycle is written before any other condition is.
StatusStarted == pc \notin {"idle", "start"} => local.conds # <<>>

FirstFailed(conds) == conds # <<>> /\ conds[1].type = Failed

\* While a cycle runs on an up-to-date copy, it knows that the last one failed.
KnowsFailure ==
    ~StaleReads /\ pc \notin {"idle", "return"}
        => (FirstFailed(server.conds) => FirstFailed(local.conds))

Inv == TypeOK /\ ConditionsWellFormed /\ StatusStarted /\ KnowsFailure

\* What every step that may write the status does to the variables involved.
Writes ==
    /\ server' \in Resources
    /\ local' \in LocalObjects
    /\ faults' \in 0..MaxFaults
    /\ WellFormed(local'.conds)
    /\ local'.conds # <<>>
    /\ server'.conds \in {server.conds, local'.conds}

KeepsFirst == FirstFailed(local.conds) => FirstFailed(local'.conds)

\* A failure shown by the server stays, or gives way to a success.
Sticks ==
    ~StaleReads /\ FirstFailed(server.conds)
        => /\ server'.conds # <<>>
           /\ server'.conds[1].type \in {Failed, Success}
-----------------------------------------------------------------------------
\* Decoding an answer into a specification gives a specification.
LEMMA DecodeType ==
    ASSUME NEW held \in LoggingServiceSpec, NEW answer \in LoggingServiceSpec
    PROVE  Decode(held, answer) \in LoggingServiceSpec
BY DEF Decode, LoggingServiceSpec

\* A patch writes the list it is given, or leaves the server as it was.
LEMMA PatchEffect ==
    ASSUME TypeOK, NEW conds \in Seq(LoggingServiceCondition),
           NEW f \in 0..MaxFaults, PatchStatus(conds, f)
    PROVE  /\ server' \in Resources
           /\ local' \in LocalObjects
           /\ local'.conds = conds
           /\ server'.conds \in {server.conds, conds}
           /\ faults' \in 0..MaxFaults
<1> USE ConstantsAssumption
<1>1. CASE /\ server' = [server EXCEPT !.conds = conds]
           /\ local' = Refreshed(conds)
           /\ faults' = f
  <2>1. Decode(local.spec, server.spec) \in LoggingServiceSpec
    BY DecodeType DEF TypeOK, Resources, LocalObjects
  <2>2. server' \in Resources /\ server'.conds = conds
    BY <1>1 DEF TypeOK, Resources
  <2>3. server.generation \in 0..MaxGeneration
    BY DEF TypeOK, Resources
  <2>4. (local.mixed \/ local.generation # server.generation) \in BOOLEAN
    OBVIOUS
  <2>5. Refreshed(conds) \in LocalObjects /\ Refreshed(conds).conds = conds
    BY <2>1, <2>3, <2>4 DEF LocalObjects, Refreshed
  <2> QED
    BY <1>1, <2>2, <2>5
<1>2. CASE /\ server.exists => PatchMayFail /\ f < MaxFaults
           /\ local' = [local EXCEPT !.conds = conds]
           /\ faults' = IF server.exists THEN f + 1 ELSE f
           /\ UNCHANGED server
  <2>1. faults' \in 0..MaxFaults
    <3>1. CASE server.exists
      BY <1>2, <3>1
    <3>2. CASE ~server.exists
      BY <1>2, <3>2
    <3> QED
      BY <3>1, <3>2
  <2>2. server' \in Resources /\ server'.conds = server.conds
    BY <1>2 DEF TypeOK
  <2>3. local' \in LocalObjects /\ local'.conds = conds
    BY <1>2 DEF TypeOK, LocalObjects
  <2> QED
    BY <2>1, <2>2, <2>3
<1> QED
  BY <1>1, <1>2 DEF PatchStatus

\* UpdateStatus of a component, or of the cycle.
LEMMA SetStatusEffect ==
    ASSUME TypeOK, WellFormed(local.conds),
           NEW reason \in Reasons, NEW type \in Types, NEW same \in BOOLEAN,
           NEW f \in 0..MaxFaults,
           reason = LoggingServiceStatus \/ local.conds # <<>>,
           SetStatus(reason, type, same, f)
    PROVE  /\ Writes
           /\ local'.conds[1].type = IF reason = LoggingServiceStatus
                                     THEN type ELSE local.conds[1].type
<1> DEFINE new == UpdateStatus(local.conds, reason, type)
<1>1. local.conds \in Seq(LoggingServiceCondition)
  BY DEF TypeOK, LocalObjects
<1>2. CASE type = Failed /\ IsStatusFailed(local.conds, reason) /\ same
  <2>1. NoPatch(f)
    BY <1>2 DEF SetStatus
  <2>2. GetCondition(local.conds, reason) # 0
        /\ local.conds[GetCondition(local.conds, reason)].type = Failed
    BY <1>2 DEF IsStatusFailed
  <2>3. /\ GetCondition(local.conds, reason) \in 1..Len(local.conds)
        /\ local.conds[GetCondition(local.conds, reason)].reason = reason
    BY <1>1, <2>2, GetConditionIndex
  <2>4. local.conds # <<>>
    BY <1>1, <2>3
  <2>5. reason = LoggingServiceStatus => local.conds[1].type = type
    BY <1>1, <1>2, <2>2, <2>3, <2>4 DEF WellFormed
  <2> QED
    BY <2>1, <2>4, <2>5 DEF NoPatch, Writes, TypeOK
<1>3. CASE ~(type = Failed /\ IsStatusFailed(local.conds, reason) /\ same)
  <2>1. PatchStatus(new, f)
    BY <1>3 DEF SetStatus
  <2>2. /\ new \in Seq(LoggingServiceCondition)
        /\ WellFormed(new)
        /\ new # <<>>
        /\ new[1] = IF reason = LoggingServiceStatus
                    THEN Condition(reason, type) ELSE local.conds[1]
    BY <1>1, UpdateStatusWellFormed
  <2> HIDE DEF new
  <2>3. /\ server' \in Resources
        /\ local' \in LocalObjects
        /\ local'.conds = new
        /\ server'.conds \in {server.conds, new}
        /\ faults' \in 0..MaxFaults
    BY <2>1, <2>2, PatchEffect
  <2> QED
    BY <2>2, <2>3 DEF Writes, Condition
<1> QED
  BY <1>2, <1>3

\* RemoveStatus of a component.
LEMMA ClearStatusEffect ==
    ASSUME TypeOK, WellFormed(local.conds), local.conds # <<>>,
           NEW reason \in Reasons \ {LoggingServiceStatus},
           NEW f \in 0..MaxFaults, ClearStatus(reason, f)
    PROVE  Writes /\ local'.conds[1] = local.conds[1]
<1> DEFINE new == RemoveStatus(local.conds, reason)
<1>1. local.conds \in Seq(LoggingServiceCondition)
  BY DEF TypeOK, LocalObjects
<1>2. CASE GetCondition(local.conds, reason) = 0
  BY <1>2 DEF ClearStatus, NoPatch, Writes, TypeOK
<1>3. CASE GetCondition(local.conds, reason) # 0
  <2>1. PatchStatus(new, f)
    BY <1>3 DEF ClearStatus
  <2>2. /\ new \in Seq(LoggingServiceCondition)
        /\ WellFormed(new)
        /\ new # <<>>
        /\ new[1] = local.conds[1]
    BY <1>1, RemoveStatusWellFormed
  <2> HIDE DEF new
  <2>3. /\ server' \in Resources
        /\ local' \in LocalObjects
        /\ local'.conds = new
        /\ server'.conds \in {server.conds, new}
        /\ faults' \in 0..MaxFaults
    BY <2>1, <2>2, PatchEffect
  <2> QED
    BY <2>2, <2>3 DEF Writes
<1> QED
  BY <1>2, <1>3

\* Writing nothing.
LEMMA NoPatchEffect ==
    ASSUME TypeOK, WellFormed(local.conds), local.conds # <<>>,
           NEW f \in 0..MaxFaults, NoPatch(f)
    PROVE  Writes /\ local'.conds[1] = local.conds[1]
BY DEF NoPatch, Writes, TypeOK

\* The status at the head of a run keeps a failure.
LEMMA BeginStatusEffect ==
    ASSUME TypeOK, WellFormed(local.conds), NEW reason \in Reasons,
           reason = LoggingServiceStatus \/ local.conds # <<>>,
           BeginStatus(reason)
    PROVE  Writes /\ KeepsFirst
<1>1. local.conds \in Seq(LoggingServiceCondition) /\ faults \in 0..MaxFaults
  BY DEF TypeOK, LocalObjects
<1>2. CASE IsStatusFailed(local.conds, reason)
  <2>1. NoPatch(faults)
    BY <1>2 DEF BeginStatus
  <2>2. GetCondition(local.conds, reason) # 0
    BY <1>2 DEF IsStatusFailed
  <2>3. local.conds # <<>>
    BY <1>1, <2>2, GetConditionIndex
  <2> QED
    BY <1>1, <2>1, <2>3, NoPatchEffect DEF KeepsFirst, FirstFailed, Writes
<1>3. CASE ~IsStatusFailed(local.conds, reason)
  <2>1. SetStatus(reason, InProgress, FALSE, faults)
    BY <1>3 DEF BeginStatus
  <2>2. InProgress \in Types
    BY DEF Types
  <2>3. /\ Writes
        /\ local'.conds[1].type = IF reason = LoggingServiceStatus
                                  THEN InProgress ELSE local.conds[1].type
    BY <1>1, <2>1, <2>2, SetStatusEffect
  <2>4. reason = LoggingServiceStatus => ~FirstFailed(local.conds)
    <3> SUFFICES ASSUME reason = LoggingServiceStatus, FirstFailed(local.conds)
                 PROVE  FALSE
      OBVIOUS
    <3>1. CycleStatus(local.conds) = Failed
      BY <1>1, CycleStatusIsFirst DEF FirstFailed
    <3> QED
      BY <1>3, <3>1 DEF CycleStatus, IsStatusFailed, Failed
  <2> QED
    BY <2>3, <2>4 DEF KeepsFirst, FirstFailed, Writes
<1> QED
  BY <1>2, <1>3
-----------------------------------------------------------------------------
\* The controller runs the five components one after the other.
LEMMA OrderFacts ==
    /\ Len(Order) = 5
    /\ \A k \in 1..5 : Order[k] \in Components
BY DEF Order, Components

\* No component writes the status of the cycle.
LEMMA StatusOfFacts ==
    ASSUME NEW c \in Components
    PROVE  /\ StatusOf(c) \in Reasons \ {LoggingServiceStatus}
           /\ FailureStatusOf(c) \in Reasons \ {LoggingServiceStatus}
BY DEF Components, StatusOf, FailureStatusOf, Reasons, LoggingServiceStatus,
       GraylogStatus, FluentdStatus, FluentbitStatus, HAFluentStatus,
       EventsReaderStatus

\* Neither does the wait for pending components.
LEMMA OtherReasons ==
    /\ LoggingServiceStatus \in Reasons
    /\ ComponentPendingStatus \in Reasons \ {LoggingServiceStatus}
    /\ GraylogStatus \in Reasons \ {LoggingServiceStatus}
    /\ HAFluentStatus \in Reasons \ {LoggingServiceStatus}
    /\ {InProgress, Success, Failed} \subseteq Types
BY DEF Reasons, Types, LoggingServiceStatus, ComponentPendingStatus,
       GraylogStatus, HAFluentStatus

\* A step in the middle of a cycle that writes the status as Writes and
\* KeepsFirst say preserves what the invariant says of the conditions.
LEMMA WritesPreserve ==
    ASSUME Inv, pc \notin {"idle", "return"}, Writes, KeepsFirst, cache' = cache
    PROVE  ConditionsWellFormed' /\ StatusStarted' /\ KnowsFailure' /\ Sticks
<1>1. ConditionsWellFormed'
  BY DEF Inv, ConditionsWellFormed, Writes
<1>2. StatusStarted'
  BY DEF StatusStarted, Writes
<1>3. KnowsFailure'
  BY DEF Inv, KnowsFailure, Writes, KeepsFirst
<1>4. Sticks
  BY DEF Inv, KnowsFailure, Writes, KeepsFirst, Sticks, FirstFailed
<1> QED
  BY <1>1, <1>2, <1>3, <1>4

\* A step that leaves the conditions alone and does not begin a cycle
\* preserves it as well.
LEMMA SilentPreserves ==
    ASSUME Inv, server'.conds = server.conds, local'.conds = local.conds,
           cache'.conds \in {cache.conds, server.conds},
           pc \notin {"idle", "start"} \/ pc' = pc,
           pc # "return" \/ pc' = pc
    PROVE  ConditionsWellFormed' /\ StatusStarted' /\ KnowsFailure' /\ Sticks
<1>1. ConditionsWellFormed'
  BY DEF Inv, ConditionsWellFormed
<1>2. StatusStarted'
  BY DEF Inv, StatusStarted
<1>3. KnowsFailure'
  BY DEF Inv, KnowsFailure
<1>4. Sticks
  BY DEF Sticks, FirstFailed
<1> QED
  BY <1>1, <1>2, <1>3, <1>4
-----------------------------------------------------------------------------
\* Facts every step starts from.
LEMMA InvFacts ==
    ASSUME Inv
    PROVE  /\ TypeOK
           /\ WellFormed(local.conds)
           /\ local.conds \in Seq(LoggingServiceCondition)
           /\ pc \notin {"idle", "start"} => local.conds # <<>>
           /\ faults \in 0..MaxFaults
           /\ faults < MaxFaults => faults + 1 \in 0..MaxFaults
           /\ Order[at] \in Components
BY ConstantsAssumption, OrderFacts
   DEF Inv, TypeOK, ConditionsWellFormed, StatusStarted, LocalObjects

\* What is left of the type invariant after a step that writes statuses and
\* keeps the request, the cache and the outcome.
LEMMA TypeKept ==
    ASSUME TypeOK, Writes,
           UNCHANGED <<cache, queued, timer, timeout, outcome, rotations>>,
           pc' \in PCs, at' \in 1..5, success' \in BOOLEAN,
           pending' \in Seq(Components),
           IF pc' \in {"poll", "expired"} THEN poll' \in 1..Len(pending') ELSE poll' = 0,
           round' \in 0..PendingRounds,
           applied' \in [Components -> {SomeObjects, NoObjects} \cup 1..MaxGeneration]
    PROVE  TypeOK'
BY OrderFacts DEF TypeOK, Writes

\* The same when the pending components are not being polled.
LEMMA NextComponentTypes ==
    ASSUME TypeOK, NextComponent
    PROVE  /\ pc' \in PCs \ {"poll", "expired"}
           /\ at' \in 1..5
BY OrderFacts DEF TypeOK, NextComponent, PCs

\* The first status write of a cycle.
LEMMA StartStatusStep ==
    ASSUME Inv, StartStatus
    PROVE  Inv' /\ Sticks
<1> USE InvFacts, OtherReasons
<1>1. Writes /\ KeepsFirst
  BY BeginStatusEffect DEF StartStatus
<1>2. TypeOK'
  BY ConstantsAssumption, OrderFacts, <1>1 DEF TypeOK, Writes, StartStatus, rest, PCs
<1> QED
  BY <1>1, <1>2, WritesPreserve DEF Inv, StartStatus, rest

\* Removing the temporary conditions.
LEMMA RemoveTemporaryStep ==
    ASSUME Inv, RemoveTemporary
    PROVE  Inv' /\ Sticks
<1> USE InvFacts, OtherReasons
<1> DEFINE new == RemoveTemporaryStatuses(local.conds, local.spec)
<1>3. local.conds # <<>>
  BY DEF RemoveTemporary
<1>4. /\ new \in Seq(LoggingServiceCondition)
      /\ WellFormed(new)
      /\ new # <<>>
      /\ new[1] = local.conds[1]
  BY <1>3, RemoveTemporaryStatusesWellFormed
<1>5. NoPatch(faults) \/ PatchStatus(new, faults)
  BY DEF RemoveTemporary
<1> HIDE DEF new
<1>1. Writes /\ KeepsFirst
  <2>1. CASE NoPatch(faults)
    BY <1>3, <2>1, NoPatchEffect DEF KeepsFirst, FirstFailed, Writes
  <2>2. CASE PatchStatus(new, faults)
    <3>1. /\ server' \in Resources
          /\ local' \in LocalObjects
          /\ local'.conds = new
          /\ server'.conds \in {server.conds, new}
          /\ faults' \in 0..MaxFaults
      BY <1>4, <2>2, PatchEffect
    <3> QED
      BY <1>4, <3>1 DEF Writes, KeepsFirst, FirstFailed
  <2> QED
    BY <1>5, <2>1, <2>2
<1>2. TypeOK'
  BY ConstantsAssumption, OrderFacts, <1>1 DEF TypeOK, Writes, RemoveTemporary, rest, PCs
<1> QED
  BY <1>1, <1>2, WritesPreserve DEF Inv, RemoveTemporary, rest

\* The status write at the head of Run.
LEMMA RunBeginStep ==
    ASSUME Inv, RunBegin
    PROVE  Inv' /\ Sticks
<1> USE InvFacts, OtherReasons
<1>1. Writes /\ KeepsFirst
  BY BeginStatusEffect, StatusOfFacts DEF RunBegin
<1>2. TypeOK'
  BY ConstantsAssumption, OrderFacts, <1>1 DEF TypeOK, Writes, RunBegin, rest, PCs
<1> QED
  BY <1>1, <1>2, WritesPreserve DEF Inv, RunBegin, rest

\* A component is installed.
LEMMA RunInstallsStep ==
    ASSUME Inv, RunInstalls
    PROVE  Inv' /\ Sticks
<1> USE InvFacts, OtherReasons
<1>3. local.conds # <<>>
  BY DEF RunInstalls
<1>1. Writes /\ KeepsFirst
  <2>1. CASE Order[at] = "Graylog"
    <3>1. ClearStatus(GraylogStatus, faults)
      BY <2>1 DEF RunInstalls
    <3> QED
      BY <1>3, <3>1, ClearStatusEffect DEF KeepsFirst, FirstFailed, Writes
  <2>2. CASE Order[at] # "Graylog"
    <3>1. NoPatch(faults)
      BY <2>2 DEF RunInstalls
    <3> QED
      BY <1>3, <3>1, NoPatchEffect DEF KeepsFirst, FirstFailed, Writes
  <2> QED
    BY <2>1, <2>2
<1>4. pending' \in Seq(Components)
  <2>1. pending \in Seq(Components)
    BY DEF TypeOK
  <2>2. pending' \in {pending, Append(pending, Order[at])}
    BY DEF RunInstalls
  <2> QED
    BY <2>1, <2>2
<1>5. MadeFrom \in {SomeObjects, NoObjects} \cup 1..MaxGeneration
  BY ConstantsAssumption DEF MadeFrom, TypeOK, LocalObjects, NoObjects
<1>6. applied' \in [Components -> {SomeObjects, NoObjects} \cup 1..MaxGeneration]
  BY <1>5 DEF RunInstalls, TypeOK
<1>7. TypeOK /\ NextComponent /\ pc = "work"
      /\ UNCHANGED <<success, poll, round>>
      /\ UNCHANGED <<cache, queued, timer, timeout, outcome, rotations>>
  BY DEF RunInstalls, rest
<1>8. /\ pc' \in PCs \ {"poll", "expired"}
      /\ at' \in 1..5
  BY <1>7, NextComponentTypes
<1>9. /\ success' \in BOOLEAN
      /\ poll' = 0
      /\ round' \in 0..PendingRounds
  BY <1>7 DEF TypeOK
<1>2. TypeOK'
  BY <1>1, <1>4, <1>6, <1>7, <1>8, <1>9, TypeKept
<1> QED
  BY <1>1, <1>2, WritesPreserve DEF Inv, RunInstalls, rest

\* A handler of a component fails.
LEMMA RunFailsStep ==
    ASSUME Inv, RunFails
    PROVE  Inv' /\ Sticks
<1> USE InvFacts, OtherReasons
<1>1. Writes /\ KeepsFirst
  <2>1. local.conds # <<>>
    BY DEF RunFails
  <2>2. PICK same \in BOOLEAN : SetStatus(FailureStatusOf(Order[at]), Failed, same, faults + 1)
    BY DEF RunFails
  <2>3. Writes /\ local'.conds[1].type = local.conds[1].type
    BY <2>1, <2>2, SetStatusEffect, StatusOfFacts DEF RunFails
  <2> QED
    BY <2>3 DEF KeepsFirst, FirstFailed, Writes
<1>3. applied' \in [Components -> {SomeObjects, NoObjects} \cup 1..MaxGeneration]
  BY DEF RunFails, TypeOK
<1> USE <1>3
<1>8. at' \in 1..5
  BY OrderFacts DEF RunFails, NextComponent, TypeOK
<1> USE <1>8
<1>7. /\ pc' \in {"begin", "pendingBegin"}
      /\ success' = FALSE
      /\ UNCHANGED <<pending, poll, round>>
      /\ UNCHANGED <<cache, queued, timer, timeout, outcome, rotations>>
      /\ pc = "work"
  BY DEF RunFails, NextComponent, rest
<1>2. TypeOK'
  BY ConstantsAssumption, OrderFacts, <1>1, <1>7 DEF TypeOK, Writes, PCs
<1> QED
  BY <1>1, <1>2, WritesPreserve DEF Inv, RunFails, rest

\* A StatefulSet does not start in time.
LEMMA NotStartedStep ==
    ASSUME Inv, NotStarted
    PROVE  Inv' /\ Sticks
<1> USE InvFacts, OtherReasons
<1>1. Writes /\ KeepsFirst
  <2>1. local.conds # <<>>
    BY DEF NotStarted
  <2>2. PICK same \in BOOLEAN : SetStatus(StatusOf(Order[at]), Failed, same, faults + 1)
    BY DEF NotStarted
  <2>3. Writes /\ local'.conds[1].type = local.conds[1].type
    BY <2>1, <2>2, SetStatusEffect, StatusOfFacts DEF NotStarted
  <2> QED
    BY <2>3 DEF KeepsFirst, FirstFailed, Writes
<1>3. applied' \in [Components -> {SomeObjects, NoObjects} \cup 1..MaxGeneration]
  BY DEF NotStarted, TypeOK
<1>7. /\ pc' = "notStarted"
      /\ UNCHANGED <<at, success, pending, poll, round>>
      /\ UNCHANGED <<cache, queued, timer, timeout, outcome, rotations>>
      /\ pc = "work"
  BY DEF NotStarted, rest
<1>2. TypeOK'
  BY ConstantsAssumption, OrderFacts, <1>1, <1>3, <1>7 DEF TypeOK, Writes, PCs
<1> QED
  BY <1>1, <1>2, WritesPreserve DEF Inv, NotStarted, rest

\* The controller reports that failure.
LEMMA NotStartedReportedStep ==
    ASSUME Inv, NotStartedReported
    PROVE  Inv' /\ Sticks
<1> USE InvFacts, OtherReasons
<1>1. Writes /\ KeepsFirst
  <2>1. local.conds # <<>>
    BY DEF NotStartedReported
  <2>2. PICK same \in BOOLEAN : SetStatus(FailureStatusOf(Order[at]), Failed, same, faults)
    BY DEF NotStartedReported
  <2>3. Writes /\ local'.conds[1].type = local.conds[1].type
    BY <2>1, <2>2, SetStatusEffect, StatusOfFacts
  <2> QED
    BY <2>3 DEF KeepsFirst, FirstFailed, Writes
<1>8. at' \in 1..5
  BY OrderFacts DEF NotStartedReported, NextComponent, TypeOK
<1> USE <1>8
<1>7. /\ pc' \in {"begin", "pendingBegin"}
      /\ success' = FALSE
      /\ UNCHANGED <<pending, poll, round, applied>>
      /\ UNCHANGED <<cache, queued, timer, timeout, outcome, rotations>>
      /\ pc = "notStarted"
  BY DEF NotStartedReported, NextComponent, rest
<1>2. TypeOK'
  BY ConstantsAssumption, OrderFacts, <1>1, <1>7 DEF TypeOK, Writes, PCs
<1> QED
  BY <1>1, <1>2, WritesPreserve DEF Inv, NotStartedReported, rest

\* A component is uninstalled.
LEMMA RunUninstallsStep ==
    ASSUME Inv, RunUninstalls
    PROVE  Inv' /\ Sticks
<1> USE InvFacts, OtherReasons
<1>3. local.conds # <<>>
  BY DEF RunUninstalls
<1>1. Writes /\ KeepsFirst
  <2>1. PICK f \in 0..MaxFaults : ClearStatus(StatusOf(Order[at]), f)
    BY DEF RunUninstalls
  <2> QED
    BY <1>3, <2>1, ClearStatusEffect, StatusOfFacts DEF KeepsFirst, FirstFailed, Writes
<1>4. applied' \in [Components -> {SomeObjects, NoObjects} \cup 1..MaxGeneration]
  BY DEF RunUninstalls, TypeOK
<1>7. TypeOK /\ NextComponent /\ pc = "work"
      /\ UNCHANGED <<success, pending, poll, round>>
      /\ UNCHANGED <<cache, queued, timer, timeout, outcome, rotations>>
  BY DEF RunUninstalls, rest
<1>8. /\ pc' \in PCs \ {"poll", "expired"}
      /\ at' \in 1..5
  BY <1>7, NextComponentTypes
<1>9. /\ success' \in BOOLEAN
      /\ poll' = 0
      /\ round' \in 0..PendingRounds
      /\ pending' \in Seq(Components)
  BY <1>7 DEF TypeOK
<1>2. TypeOK'
  BY <1>1, <1>4, <1>7, <1>8, <1>9, TypeKept
<1> QED
  BY <1>1, <1>2, WritesPreserve DEF Inv, RunUninstalls, rest

\* The wait for the pending components begins.
LEMMA PendingBeginStep ==
    ASSUME Inv, PendingBegin
    PROVE  Inv' /\ Sticks
<1> USE InvFacts, OtherReasons
<1>1. Writes /\ KeepsFirst
  BY BeginStatusEffect DEF PendingBegin
<1>7. /\ poll' = Len(pending) /\ round' = 0
      /\ pc' = IF pending = <<>> THEN "pendingEnd" ELSE "poll"
      /\ UNCHANGED <<at, success, pending, applied>>
      /\ UNCHANGED <<cache, queued, timer, timeout, outcome, rotations>>
  BY DEF PendingBegin, rest
<1>8. /\ pc' \in PCs
      /\ pending' \in Seq(Components)
      /\ IF pc' \in {"poll", "expired"} THEN poll' \in 1..Len(pending') ELSE poll' = 0
  BY <1>7 DEF PCs, TypeOK
<1>9. /\ TypeOK /\ at' \in 1..5 /\ success' \in BOOLEAN
      /\ round' \in 0..PendingRounds
      /\ applied' \in [Components -> {SomeObjects, NoObjects} \cup 1..MaxGeneration]
  BY ConstantsAssumption, OrderFacts, <1>7 DEF TypeOK
<1>2. TypeOK'
  BY <1>1, <1>7, <1>8, <1>9, TypeKept
<1> QED
  BY <1>1, <1>2, WritesPreserve DEF Inv, PendingBegin, rest

\* A pending workload runs.
LEMMA PollAvailableStep ==
    ASSUME Inv, PollAvailable
    PROVE  Inv' /\ Sticks
<1> USE InvFacts, OtherReasons
<1>3. /\ pending \in Seq(Components)
      /\ poll \in 1..Len(pending)
      /\ pending[poll] \in Components
      /\ local.conds # <<>>
  BY DEF PollAvailable, TypeOK
<1>1. Writes /\ KeepsFirst
  BY <1>3, ClearStatusEffect, StatusOfFacts
     DEF PollAvailable, KeepsFirst, FirstFailed, Writes
<1>4. pending' \in Seq(Components) /\ Len(pending') = Len(pending) - 1
  <2> DEFINE swapped == [pending EXCEPT ![poll] = pending[Len(pending)]]
  <2>1. swapped \in Seq(Components) /\ Len(swapped) = Len(pending)
    BY <1>3
  <2>2. pending' = SubSeq(swapped, 1, Len(pending) - 1)
    BY DEF PollAvailable
  <2> HIDE DEF swapped
  <2> QED
    BY <1>3, <2>1, <2>2
<1>7. /\ pc' = (IF poll > 1 THEN "poll" ELSE "roundEnd")
      /\ poll' = poll - 1
      /\ UNCHANGED <<at, success, round, applied>>
      /\ UNCHANGED <<cache, queued, timer, timeout, outcome, rotations>>
  BY DEF PollAvailable, AfterPoll, rest
<1>8. /\ pc' \in PCs
      /\ IF pc' \in {"poll", "expired"} THEN poll' \in 1..Len(pending') ELSE poll' = 0
  BY <1>3, <1>4, <1>7 DEF PCs
<1>9. /\ TypeOK /\ at' \in 1..5 /\ success' \in BOOLEAN
      /\ round' \in 0..PendingRounds
      /\ applied' \in [Components -> {SomeObjects, NoObjects} \cup 1..MaxGeneration]
  BY OrderFacts, <1>7 DEF TypeOK
<1>2. TypeOK'
  BY <1>1, <1>4, <1>7, <1>8, <1>9, TypeKept
<1> QED
  BY <1>1, <1>2, WritesPreserve DEF Inv, PollAvailable, rest

\* Reading a pending workload fails.
LEMMA PollFailsStep ==
    ASSUME Inv, PollFails
    PROVE  Inv' /\ Sticks
<1> USE InvFacts, OtherReasons
<1>1. Writes /\ KeepsFirst
  <2>1. local.conds # <<>>
    BY DEF PollFails
  <2>2. PICK same \in BOOLEAN : SetStatus(ComponentPendingStatus, Failed, same, faults + 1)
    BY DEF PollFails
  <2>3. Writes /\ local'.conds[1].type = local.conds[1].type
    BY <2>1, <2>2, SetStatusEffect DEF PollFails
  <2> QED
    BY <2>3 DEF KeepsFirst, FirstFailed, Writes
<1>7. /\ pc = "poll" /\ pc' = "finish"
      /\ poll' = 0
      /\ round' = 0
      /\ success' = FALSE
      /\ UNCHANGED <<at, pending, applied>>
      /\ UNCHANGED <<cache, queued, timer, timeout, outcome, rotations>>
  BY DEF PollFails, rest
<1>8. round' \in 0..PendingRounds
  BY ConstantsAssumption, <1>7
<1>9. pc' \in PCs /\ success' \in BOOLEAN
  BY <1>7 DEF PCs
<1>2. TypeOK'
  BY <1>1, <1>7, <1>8, <1>9 DEF TypeOK, Writes
<1> QED
  BY <1>1, <1>2, WritesPreserve DEF Inv, PollFails, rest

\* The wait expired: a component is reported.
LEMMA ReportNotStartedStep ==
    ASSUME Inv, ReportNotStarted
    PROVE  Inv' /\ Sticks
<1> USE InvFacts, OtherReasons
<1>3. /\ pending \in Seq(Components)
      /\ poll \in 1..Len(pending)
      /\ pending[poll] \in Components
  BY DEF ReportNotStarted, TypeOK
<1>1. Writes /\ KeepsFirst
  <2>1. local.conds # <<>>
    BY DEF ReportNotStarted
  <2>2. PICK same \in BOOLEAN : SetStatus(StatusOf(pending[poll]), Failed, same, faults)
    BY DEF ReportNotStarted
  <2>3. Writes /\ local'.conds[1].type = local.conds[1].type
    BY <2>1, <2>2, SetStatusEffect, <1>3, StatusOfFacts
  <2> QED
    BY <2>3 DEF KeepsFirst, FirstFailed, Writes
<1>7. /\ IF poll < Len(pending) THEN poll' = poll + 1 /\ pc' = "expired"
                            ELSE poll' = 0 /\ pc' = "pendingEnd"
      /\ UNCHANGED <<at, success, pending, round, applied>>
      /\ UNCHANGED <<cache, queued, timer, timeout, outcome, rotations>>
  BY DEF ReportNotStarted, rest
<1>8. /\ pc' \in PCs
      /\ pending' \in Seq(Components)
      /\ IF pc' \in {"poll", "expired"} THEN poll' \in 1..Len(pending') ELSE poll' = 0
  BY <1>3, <1>7 DEF PCs
<1>9. /\ TypeOK /\ at' \in 1..5 /\ success' \in BOOLEAN
      /\ round' \in 0..PendingRounds
      /\ applied' \in [Components -> {SomeObjects, NoObjects} \cup 1..MaxGeneration]
  BY OrderFacts, <1>7 DEF TypeOK
<1>2. TypeOK'
  BY <1>1, <1>3, <1>7, <1>8, <1>9, TypeKept
<1> QED
  BY <1>1, <1>2, WritesPreserve DEF Inv, ReportNotStarted, rest

\* The wait ends.
LEMMA PendingEndStep ==
    ASSUME Inv, PendingEnd
    PROVE  Inv' /\ Sticks
<1> USE InvFacts, OtherReasons
<1>1. Writes /\ KeepsFirst
  BY ClearStatusEffect DEF PendingEnd, KeepsFirst, FirstFailed, Writes
<1>2. TypeOK'
  BY ConstantsAssumption, OrderFacts, <1>1 DEF TypeOK, Writes, PendingEnd, rest, PCs
<1> QED
  BY <1>1, <1>2, WritesPreserve DEF Inv, PendingEnd, rest

\* A pending workload does not run yet.
LEMMA PollNotYetStep ==
    ASSUME Inv, PollNotYet
    PROVE  Inv' /\ Sticks
<1>1. TypeOK'
  BY ConstantsAssumption DEF AfterPoll, Inv, TypeOK, PollNotYet, rest, PCs
<1>2. /\ server'.conds = server.conds /\ local'.conds = local.conds
      /\ cache'.conds \in {cache.conds, server.conds}
      /\ pc \notin {"idle", "start"} \/ pc' = pc
      /\ pc # "return" \/ pc' = pc
  BY DEF AfterPoll, PollNotYet, rest, Inv, TypeOK
<1> QED
  BY <1>1, <1>2, SilentPreserves DEF Inv

\* Every pending workload runs.
LEMMA RoundDoneStep ==
    ASSUME Inv, RoundDone
    PROVE  Inv' /\ Sticks
<1>1. TypeOK'
  BY ConstantsAssumption DEF Inv, TypeOK, RoundDone, rest, PCs
<1>2. /\ server'.conds = server.conds /\ local'.conds = local.conds
      /\ cache'.conds \in {cache.conds, server.conds}
      /\ pc \notin {"idle", "start"} \/ pc' = pc
      /\ pc # "return" \/ pc' = pc
  BY DEF RoundDone, rest, Inv, TypeOK
<1> QED
  BY <1>1, <1>2, SilentPreserves DEF Inv

\* Another round of the wait.
LEMMA RoundAgainStep ==
    ASSUME Inv, RoundAgain
    PROVE  Inv' /\ Sticks
<1>1. TypeOK'
  BY ConstantsAssumption DEF Inv, TypeOK, RoundAgain, rest, PCs
<1>2. /\ server'.conds = server.conds /\ local'.conds = local.conds
      /\ cache'.conds \in {cache.conds, server.conds}
      /\ pc \notin {"idle", "start"} \/ pc' = pc
      /\ pc # "return" \/ pc' = pc
  BY DEF RoundAgain, rest, Inv, TypeOK
<1> QED
  BY <1>1, <1>2, SilentPreserves DEF Inv

\* The wait expires.
LEMMA WaitExpiresStep ==
    ASSUME Inv, WaitExpires
    PROVE  Inv' /\ Sticks
<1>3. faults' \in 0..MaxFaults /\ round' \in 0..PendingRounds
  BY ConstantsAssumption DEF Inv, TypeOK, WaitExpires
<1>4. poll' \in 1..Len(pending) /\ pc' \in PCs /\ pc' = "expired"
  BY DEF Inv, TypeOK, WaitExpires, PCs
<1>5. success' = FALSE /\ UNCHANGED <<server, local, at, pending, applied, rest>>
  BY DEF WaitExpires
<1>1. TypeOK'
  BY <1>3, <1>4, <1>5 DEF Inv, TypeOK, rest
<1>2. /\ server'.conds = server.conds /\ local'.conds = local.conds
      /\ cache'.conds \in {cache.conds, server.conds}
      /\ pc \notin {"idle", "start"} \/ pc' = pc
      /\ pc # "return" \/ pc' = pc
  BY DEF WaitExpires, rest, Inv, TypeOK
<1> QED
  BY <1>1, <1>2, SilentPreserves DEF Inv

\* The resource is gone.
LEMMA GetNotFoundStep ==
    ASSUME Inv, GetNotFound
    PROVE  Inv' /\ Sticks
<1>1. TypeOK'
  BY ConstantsAssumption DEF Inv, TypeOK, GetNotFound, rest, PCs
<1>2. /\ server'.conds = server.conds /\ local'.conds = local.conds
      /\ cache'.conds \in {cache.conds, server.conds}
      /\ pc \notin {"idle", "start"} \/ pc' = pc
      /\ pc # "return" \/ pc' = pc
  BY DEF GetNotFound, rest, Inv, TypeOK
<1> QED
  BY <1>1, <1>2, SilentPreserves DEF Inv

\* Reading the resource fails.
LEMMA GetFailsStep ==
    ASSUME Inv, GetFails
    PROVE  Inv' /\ Sticks
<1>3. faults' \in 0..MaxFaults
  BY ConstantsAssumption DEF Inv, TypeOK, GetFails
<1>1. TypeOK'
  BY ConstantsAssumption, <1>3 DEF Inv, TypeOK, GetFails, rest
<1>2. /\ server'.conds = server.conds /\ local'.conds = local.conds
      /\ cache'.conds \in {cache.conds, server.conds}
      /\ pc \notin {"idle", "start"} \/ pc' = pc
      /\ pc # "return" \/ pc' = pc
  BY DEF GetFails, rest, Inv, TypeOK
<1> QED
  BY <1>1, <1>2, SilentPreserves DEF Inv

\* The user edits the specification.
LEMMA EditSpecStep ==
    ASSUME Inv, EditSpec
    PROVE  Inv' /\ Sticks
<1>3. server' \in Resources /\ server'.conds = server.conds
  <2>1. PICK s \in UserSpecs :
           server' = [server EXCEPT !.spec = s, !.generation = @ + 1]
    BY DEF EditSpec
  <2>2. s \in LoggingServiceSpec
    BY ConstantsAssumption
  <2>4. server \in Resources
    BY DEF Inv, TypeOK
  <2>5. server.generation < MaxGeneration
    BY DEF EditSpec
  <2>3. server.generation + 1 \in 1..MaxGeneration
    BY <2>4, <2>5, ConstantsAssumption DEF Resources
  <2> QED
    BY <2>1, <2>2, <2>3, <2>4 DEF Resources
<1>1. TypeOK'
  BY ConstantsAssumption, <1>3 DEF EnvUnchanged, Inv, TypeOK, EditSpec, rest
<1>2. /\ server'.conds = server.conds /\ local'.conds = local.conds
      /\ cache'.conds \in {cache.conds, server.conds}
      /\ pc \notin {"idle", "start"} \/ pc' = pc
      /\ pc # "return" \/ pc' = pc
  BY <1>3 DEF EnvUnchanged, EditSpec, rest, Inv, TypeOK
<1> QED
  BY <1>1, <1>2, SilentPreserves DEF Inv

\* The user deletes the resource.
LEMMA DeleteCRStep ==
    ASSUME Inv, DeleteCR
    PROVE  Inv' /\ Sticks
<1>1. TypeOK'
  BY ConstantsAssumption DEF EnvUnchanged, Resources, Inv, TypeOK, DeleteCR, rest, PCs
<1>2. /\ server'.conds = server.conds /\ local'.conds = local.conds
      /\ cache'.conds \in {cache.conds, server.conds}
      /\ pc \notin {"idle", "start"} \/ pc' = pc
      /\ pc # "return" \/ pc' = pc
  BY DEF EnvUnchanged, Resources, DeleteCR, rest, Inv, TypeOK
<1> QED
  BY <1>1, <1>2, SilentPreserves DEF Inv

\* The cache catches up.
LEMMA CacheSyncStep ==
    ASSUME Inv, CacheSync
    PROVE  Inv' /\ Sticks
<1>1. TypeOK'
  BY ConstantsAssumption DEF EnvUnchanged, Inv, TypeOK, CacheSync, rest, PCs
<1>2. /\ server'.conds = server.conds /\ local'.conds = local.conds
      /\ cache'.conds \in {cache.conds, server.conds}
      /\ pc \notin {"idle", "start"} \/ pc' = pc
      /\ pc # "return" \/ pc' = pc
  BY DEF EnvUnchanged, CacheSync, rest, Inv, TypeOK
<1> QED
  BY <1>1, <1>2, SilentPreserves DEF Inv

\* A delayed request arrives.
LEMMA TimerFiresStep ==
    ASSUME Inv, TimerFires
    PROVE  Inv' /\ Sticks
<1>1. TypeOK'
  BY ConstantsAssumption DEF EnvUnchanged, Inv, TypeOK, TimerFires, rest, PCs
<1>2. /\ server'.conds = server.conds /\ local'.conds = local.conds
      /\ cache'.conds \in {cache.conds, server.conds}
      /\ pc \notin {"idle", "start"} \/ pc' = pc
      /\ pc # "return" \/ pc' = pc
  BY DEF EnvUnchanged, TimerFires, rest, Inv, TypeOK
<1> QED
  BY <1>1, <1>2, SilentPreserves DEF Inv

\* A referenced Secret changes.
LEMMA SecretEventStep ==
    ASSUME Inv, SecretEvent
    PROVE  Inv' /\ Sticks
<1>1. TypeOK'
  BY ConstantsAssumption DEF EnvUnchanged, Inv, TypeOK, SecretEvent, rest, PCs
<1>2. /\ server'.conds = server.conds /\ local'.conds = local.conds
      /\ cache'.conds \in {cache.conds, server.conds}
      /\ pc \notin {"idle", "start"} \/ pc' = pc
      /\ pc # "return" \/ pc' = pc
  BY DEF EnvUnchanged, SecretEvent, rest, Inv, TypeOK
<1> QED
  BY <1>1, <1>2, SilentPreserves DEF Inv

\* A cycle begins with a copy of the cache.
LEMMA BeginCycleStep ==
    ASSUME Inv, BeginCycle
    PROVE  Inv' /\ Sticks
<1>1. /\ local' \in LocalObjects
      /\ local'.conds = cache.conds
  BY ConstantsAssumption DEF Inv, TypeOK, BeginCycle, Resources, LocalObjects
<1>7. /\ pc = "idle" /\ pc' = "start" /\ queued' = FALSE /\ success' = TRUE
      /\ pending' = <<>>
      /\ UNCHANGED <<server, cache, timer, at, poll, round, timeout, outcome,
                     applied, faults, rotations>>
  BY DEF BeginCycle
<1>2. TypeOK'
  <2>1. TypeOK /\ poll = 0
    BY <1>7 DEF Inv, TypeOK
  <2>2. pc' \in PCs /\ pending' \in Seq(Components)
    BY <1>7 DEF PCs
  <2>3. (IF pc \in {"poll", "expired"} THEN poll \in 1..Len(pending) ELSE poll = 0)'
    BY <1>7, <2>1
  <2> QED
    BY <1>1, <1>7, <2>1, <2>2, <2>3 DEF TypeOK
<1>3. ConditionsWellFormed'
  BY <1>1 DEF Inv, ConditionsWellFormed, BeginCycle
<1>4. StatusStarted'
  BY DEF StatusStarted, BeginCycle
<1>5. KnowsFailure'
  BY <1>1 DEF KnowsFailure, BeginCycle
<1>6. Sticks
  BY DEF Sticks, FirstFailed, BeginCycle
<1> QED
  BY <1>2, <1>3, <1>4, <1>5, <1>6 DEF Inv

\* The end of a cycle writes Successful or Failed.
LEMMA FinishEffect ==
    ASSUME Inv, Finish
    PROVE  Writes /\ local'.conds[1].type \in {Success, Failed}
<1> DEFINE t == IF success THEN Success ELSE Failed
<1>1. SetStatus(LoggingServiceStatus, t, TRUE, faults)
  BY DEF Finish
<1>2. t \in Types /\ t \in {Success, Failed}
  BY OtherReasons
<1> HIDE DEF t
<1>3. Writes /\ local'.conds[1].type = t
  BY <1>1, <1>2, InvFacts, OtherReasons, SetStatusEffect
<1> QED
  BY <1>2, <1>3

\* The last status write of a cycle.
LEMMA FinishStep ==
    ASSUME Inv, Finish
    PROVE  Inv' /\ Sticks
<1>1. Writes
  BY FinishEffect
<1>2. pc' = "return" /\ UNCHANGED <<at, success, pending, poll, round, applied, rest>>
  BY DEF Finish
<1>3. pc = "finish"
  BY DEF Finish
<1>4. TypeOK'
  BY <1>1, <1>2, <1>3 DEF Inv, TypeOK, Writes, PCs, rest
<1>5. ConditionsWellFormed'
  BY <1>1, <1>2 DEF Inv, ConditionsWellFormed, Writes, rest
<1>6. StatusStarted' /\ KnowsFailure'
  BY <1>1, <1>2 DEF StatusStarted, KnowsFailure, Writes
<1>7. Sticks
  BY FinishEffect DEF Sticks, FirstFailed, Writes
<1> QED
  BY <1>4, <1>5, <1>6, <1>7 DEF Inv

\* The empty object of an idle worker.
LEMMA NoLocalFacts ==
    /\ NoLocal \in LocalObjects
    /\ NoLocal.conds = <<>>
    /\ WellFormed(NoLocal.conds)
<1>1. NoSpec \in LoggingServiceSpec
  BY DEF NoSpec, LoggingServiceSpec, PartStates
<1> QED
  BY <1>1, ConstantsAssumption DEF NoLocal, LocalObjects, WellFormed

\* Doubling the timeout gives an integer again.
LEMMA DoubledType ==
    ASSUME NEW d \in Int
    PROVE  Doubled(d) \in Int
BY ConstantsAssumption DEF Doubled

\* Reconcile returns.
LEMMA ReturnStep ==
    ASSUME Inv, Return
    PROVE  Inv' /\ Sticks
<1>1. /\ timer' \in BOOLEAN
      /\ timeout' \in Int
      /\ outcome' \in {"none", "success", "failed"}
  <2>1. CASE success
    BY <2>1 DEF Return, Succeeded, Inv, TypeOK, InitialTimeoutOnFailedReconcile
  <2>2. CASE ~success
    BY <2>2, DoubledType DEF Return, Succeeded, Inv, TypeOK
  <2> QED
    BY <2>1, <2>2
<1>2. /\ pc = "return" /\ pc' = "idle"
      /\ local' = NoLocal /\ success' = TRUE /\ pending' = <<>>
      /\ UNCHANGED <<server, cache, queued, at, poll, round, applied, faults, rotations>>
  BY DEF Return, ReturnIdle
<1>3. TypeOK'
  BY <1>1, <1>2, NoLocalFacts DEF Inv, TypeOK, PCs
<1>4. ConditionsWellFormed'
  BY <1>2, NoLocalFacts DEF Inv, ConditionsWellFormed
<1>5. StatusStarted' /\ KnowsFailure'
  BY <1>2 DEF StatusStarted, KnowsFailure
<1>6. Sticks
  BY <1>2 DEF Sticks, FirstFailed
<1> QED
  BY <1>3, <1>4, <1>5, <1>6 DEF Inv

\* The operator restarts.
LEMMA RestartStep ==
    ASSUME Inv, Restart
    PROVE  Inv' /\ Sticks
<1>1. faults' \in 0..MaxFaults
  BY ConstantsAssumption DEF Inv, TypeOK, Restart
<1>2. applied' \in [Components -> {SomeObjects, NoObjects} \cup 1..MaxGeneration]
  BY DEF Inv, TypeOK, Restart
<1>3. /\ cache' = server /\ server' = server /\ queued' = server.exists
      /\ timer' = FALSE /\ timeout' = 1 /\ outcome' = "none"
      /\ pc' = "idle" /\ at' = 1 /\ local' = NoLocal /\ success' = TRUE
      /\ pending' = <<>> /\ poll' = 0 /\ round' = 0 /\ rotations' = rotations
  BY DEF Restart, InitialTimeoutOnFailedReconcile
<1>4. server.exists \in BOOLEAN
  BY DEF Inv, TypeOK, Resources
<1>5. 1 \in 1..Len(Order) /\ 0 \in 0..PendingRounds
  BY ConstantsAssumption, OrderFacts
<1>6. TypeOK'
  <2>1. server \in Resources /\ rotations \in 0..MaxRotations
    BY DEF Inv, TypeOK
  <2>2. "idle" \in PCs /\ <<>> \in Seq(Components) /\ 1 \in Int
    BY DEF PCs
  <2> QED
    BY <1>1, <1>2, <1>3, <1>4, <1>5, <2>1, <2>2, NoLocalFacts DEF TypeOK
<1>7. ConditionsWellFormed'
  BY <1>3, NoLocalFacts DEF Inv, ConditionsWellFormed
<1>8. StatusStarted' /\ KnowsFailure'
  BY <1>3 DEF StatusStarted, KnowsFailure
<1>9. Sticks
  BY <1>3 DEF Sticks, FirstFailed
<1> QED
  BY <1>6, <1>7, <1>8, <1>9 DEF Inv

\* The initial states satisfy the invariant.
LEMMA InvInit == Init => Inv
<1> SUFFICES ASSUME Init PROVE Inv
  OBVIOUS
<1>1. /\ server \in Resources /\ cache = server /\ server.conds = <<>>
  BY ConstantsAssumption DEF Init, Resources
<1>2. /\ applied \in [Components -> {SomeObjects, NoObjects} \cup 1..MaxGeneration]
      /\ 1 \in 1..Len(Order)
  BY OrderFacts DEF Init
<1>3. TypeOK
  <2>1. /\ cache = server /\ queued = TRUE /\ timer = FALSE /\ pc = "idle" /\ at = 1
        /\ local = NoLocal /\ success = TRUE /\ pending = <<>> /\ poll = 0 /\ round = 0
        /\ timeout = 1 /\ outcome = "none" /\ faults = 0 /\ rotations = 0
    BY DEF Init, InitialTimeoutOnFailedReconcile
  <2>2. "idle" \in PCs /\ <<>> \in Seq(Components)
    BY DEF PCs
  <2>3. 0 \in 0..PendingRounds /\ 0 \in 0..MaxFaults /\ 0 \in 0..MaxRotations
    BY ConstantsAssumption
  <2>4. at \in 1..Len(Order) /\ timeout \in Int /\ pending \in Seq(Components)
    BY <1>2, <2>1
  <2>5. round \in 0..PendingRounds /\ faults \in 0..MaxFaults
        /\ rotations \in 0..MaxRotations
    BY <2>1, <2>3
  <2>6. IF pc \in {"poll", "expired"} THEN poll \in 1..Len(pending) ELSE poll = 0
    BY <2>1
  <2>7. pc \in PCs /\ local \in LocalObjects /\ cache \in Resources
    BY <1>1, <2>1, <2>2, NoLocalFacts
  <2>8. queued \in BOOLEAN /\ timer \in BOOLEAN /\ success \in BOOLEAN
        /\ outcome \in {"none", "success", "failed"}
    BY <2>1
  <2> QED
    BY <1>1, <1>2, <2>4, <2>5, <2>6, <2>7, <2>8 DEF TypeOK
<1>4. ConditionsWellFormed
  BY <1>1, NoLocalFacts DEF Init, ConditionsWellFormed, WellFormed
<1>5. StatusStarted /\ KnowsFailure
  BY DEF Init, StatusStarted, KnowsFailure
<1> QED
  BY <1>3, <1>4, <1>5 DEF Inv

\* Every step preserves the invariant.
LEMMA InvNext == Inv /\ [Next]_vars => Inv' /\ Sticks
<1> SUFFICES ASSUME Inv, [Next]_vars PROVE Inv' /\ Sticks
  OBVIOUS
<1>1. CASE UNCHANGED vars
  BY <1>1 DEF vars, Inv, TypeOK, ConditionsWellFormed, StatusStarted, KnowsFailure,
              Sticks, FirstFailed
<1>2. CASE Operator
  BY <1>2, BeginCycleStep, GetNotFoundStep, StartStatusStep, RemoveTemporaryStep,
     RunBeginStep, RunInstallsStep, RunFailsStep, NotStartedStep,
     NotStartedReportedStep, RunUninstallsStep, PendingBeginStep,
     PollAvailableStep, PollNotYetStep, PollFailsStep, RoundDoneStep,
     RoundAgainStep, WaitExpiresStep, ReportNotStartedStep, PendingEndStep,
     FinishStep, ReturnStep
     DEF Operator
<1>3. CASE Environment
  BY <1>3, EditSpecStep, DeleteCRStep, CacheSyncStep, TimerFiresStep,
     SecretEventStep, RestartStep, GetFailsStep
     DEF Environment
<1> QED
  BY <1>1, <1>2, <1>3 DEF Next
-----------------------------------------------------------------------------
\* The type invariant holds in every reachable state.
THEOREM TypeCorrect == Spec => []TypeOK
<1>1. Inv => TypeOK
  BY DEF Inv
<1> QED
  BY <1>1, InvInit, InvNext, PTL DEF Spec

\* For every specification, any number of edits, faults and restarts: the
\* status of the cycle stays the first condition and no condition is doubled,
\* whatever UpdateStatus, RemoveStatus and RemoveTemporaryStatuses do.
THEOREM ConditionsStayWellFormed == Spec => []ConditionsWellFormed
<1>1. Inv => ConditionsWellFormed
  BY DEF Inv
<1> QED
  BY <1>1, InvInit, InvNext, PTL DEF Spec

\* The comment in ReconcileLoggingServiceCluster, "we keep failed status for
\* all following reconcile cycles, before first success", is right for every
\* number of cycles, edits, failed writes and restarts, provided that a cycle
\* never starts from an outdated cache.
THEOREM FailedStatusIsKept == ~StaleReads => (Spec => FailedUntilSuccess)
<1> SUFFICES ASSUME ~StaleReads PROVE Spec => FailedUntilSuccess
  OBVIOUS
<1>1. ASSUME Inv, Inv', [Next]_vars
      PROVE  CycleStatus(server.conds) = Failed
                => CycleStatus(server'.conds) \in {Failed, Success}
  <2> SUFFICES ASSUME CycleStatus(server.conds) = Failed
               PROVE  CycleStatus(server'.conds) \in {Failed, Success}
    OBVIOUS
  <2>1. /\ server.conds \in Seq(LoggingServiceCondition) /\ WellFormed(server.conds)
        /\ server'.conds \in Seq(LoggingServiceCondition) /\ WellFormed(server'.conds)
    BY <1>1 DEF Inv, TypeOK, Resources, ConditionsWellFormed
  <2>2. FirstFailed(server.conds)
    BY <2>1, CycleStatusIsFirst DEF FirstFailed, Failed
  <2>3. /\ server'.conds # <<>>
        /\ server'.conds[1].type \in {Failed, Success}
    BY <1>1, <2>2, InvNext DEF Sticks
  <2> QED
    BY <2>1, <2>3, CycleStatusIsFirst
<1>2. ASSUME Inv, Inv', [Next]_vars
      PROVE  [CycleStatus(server.conds) = Failed
                => CycleStatus(server'.conds) \in {Failed, Success}]_vars
  BY <1>1, <1>2
<1> QED
  BY <1>2, InvInit, InvNext, PTL DEF Spec, FailedUntilSuccess
=============================================================================
