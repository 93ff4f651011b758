--------------------------- MODULE ReconcileCycle ---------------------------
(***************************************************************************)
(* The reconcile loop of the operator for one LoggingService: the work     *)
(* queue of the controller, the cached read at the start of a cycle, the   *)
(* five component reconcilers, the wait for the pending workloads and the  *)
(* conditions written on the way.  The environment edits and deletes the   *)
(* custom resource, makes any API call fail, lets the watch cache lag and  *)
(* kills the operator between any two calls.                               *)
(***************************************************************************)
EXTENDS StatusConditions, Integers

CONSTANTS
    UserSpecs,      \* the specifications a user may write
    MaxGeneration,  \* bound: the user edits the resource MaxGeneration - 1 times
    MaxFaults,      \* bound: failed calls, expired waits and crashes together
    MaxRotations,   \* bound: events of a referenced credential Secret
    PendingRounds,  \* ComponentPendingTimeout / Interval
    DurationValues, \* how many values time.Duration has (2^64 in the code)
    PatchMayFail,   \* whether writing the status may fail
    StaleReads      \* whether a cycle may start from an outdated cache

ASSUME ConstantsAssumption ==
    /\ UserSpecs \subseteq LoggingServiceSpec
    /\ UserSpecs # {}
    /\ MaxGeneration \in Nat \ {0}
    /\ MaxFaults \in Nat
    /\ MaxRotations \in Nat
    /\ PendingRounds \in Nat \ {0}
    /\ DurationValues \in Nat \ {0}
    /\ PatchMayFail \in BOOLEAN
    /\ StaleReads \in BOOLEAN

VARIABLES
    server,     \* the LoggingService in the API server
    cache,      \* the copy of it in the informer cache of the operator
    queued,     \* the work queue holds a request for it
    timer,      \* a delayed request (RequeueAfter or rate limited) is pending
    pc,         \* where the reconcile worker is
    at,         \* the component it works on: a position in Order
    local,      \* the object of this cycle (customResourceInstance)
    success,    \* isDeployServiceSuccess
    pending,    \* pendingComponents
    poll,       \* the loop variable of the wait for pending components
    round,      \* how many times that loop has slept
    timeout,    \* TimeoutOnFailedReconcile
    outcome,    \* how the last finished cycle ended
    applied,    \* per component: which generation its objects were made from
    faults, rotations

vars == <<server, cache, queued, timer, pc, at, local, success, pending, poll,
          round, timeout, outcome, applied, faults, rotations>>

\* The variables of the worker that a status write does not touch.
rest == <<cache, queued, timer, timeout, outcome, rotations>>

PCs == {"idle", "start", "temporary", "begin", "work", "notStarted",
        "pendingBegin", "poll", "roundEnd", "expired", "pendingEnd", "finish",
        "return"}

\* Objects of a component that do not exist, or that a failed or mixed run left
\* in a state that belongs to no generation.
NoObjects == 0
SomeObjects == -1

NoLocal == [spec |-> NoSpec, generation |-> 0, mixed |-> FALSE, conds |-> <<>>]

InitialTimeoutOnFailedReconcile == 1

\* Multiplication by two in a signed integer that wraps around.
Doubled(d) ==
    LET m == (2 * d) % DurationValues
    IN  IF 2 * m >= DurationValues THEN m - DurationValues ELSE m

StatusOf(c) ==
    CASE c = "Graylog"      -> GraylogStatus
      [] c = "Fluentd"      -> FluentdStatus
      [] c = "Fluentbit"    -> FluentbitStatus
      [] c = "HAFluent"     -> HAFluentStatus
      [] c = "EventsReader" -> EventsReaderStatus

\* The status under which the controller reports that Run returned an error:
\* the forwarder-aggregator reports under the status of Fluent Bit.
FailureStatusOf(c) == IF c = "HAFluent" THEN FluentbitStatus ELSE StatusOf(c)
-----------------------------------------------------------------------------
(***************************************************************************)
(* Writing the status.                                                     *)
(***************************************************************************)

\* The object after a successful patch: the answer decoded into it.
Refreshed(conds) ==
    [spec       |-> Decode(local.spec, server.spec),
     generation |-> server.generation,
     mixed      |-> local.mixed \/ local.generation # server.generation,
     conds      |-> conds]

\* StatusUpdater.patch.  f counts the faults of the step so far.  An error is
\* logged by the callers and the list changed in memory stays changed.
PatchStatus(conds, f) ==
    \/ /\ server.exists
       /\ server' = [server EXCEPT !.conds = conds]
       /\ local' = Refreshed(conds)
       /\ faults' = f
    \/ /\ server.exists => PatchMayFail /\ f < MaxFaults
       /\ local' = [local EXCEPT !.conds = conds]
       /\ faults' = IF server.exists THEN f + 1 ELSE f
       /\ UNCHANGED server

NoPatch(f) == faults' = f /\ UNCHANGED <<server, local>>

\* UpdateStatus: Failed with the same message over Failed writes nothing.
SetStatus(reason, type, sameMessage, f) ==
    IF type = Failed /\ IsStatusFailed(local.conds, reason) /\ sameMessage
    THEN NoPatch(f)
    ELSE PatchStatus(UpdateStatus(local.conds, reason, type), f)

\* RemoveStatus: nothing is written when there is no such condition.
ClearStatus(reason, f) ==
    IF GetCondition(local.conds, reason) = 0
    THEN NoPatch(f)
    ELSE PatchStatus(RemoveStatus(local.conds, reason), f)

\* Defective variant: In Progress is written over a failure.
BeginStatusAlways(reason) == SetStatus(reason, InProgress, FALSE, faults)

\* The status at the head of every Run: In Progress, unless it is Failed.
BeginStatus(reason) ==
    IF IsStatusFailed(local.conds, reason)
    THEN NoPatch(faults)
    ELSE SetStatus(reason, InProgress, FALSE, faults)
-----------------------------------------------------------------------------
Init ==
    /\ \E s \in UserSpecs :
          server = [exists |-> TRUE, spec |-> s, generation |-> 1, conds |-> <<>>]
    /\ cache = server
    /\ queued = TRUE
    /\ timer = FALSE
    /\ pc = "idle"
    /\ at = 1
    /\ local = NoLocal
    /\ success = TRUE
    /\ pending = <<>>
    /\ poll = 0
    /\ round = 0
    /\ timeout = InitialTimeoutOnFailedReconcile
    /\ outcome = "none"
    /\ applied = [c \in Components |-> NoObjects]
    /\ faults = 0
    /\ rotations = 0

(***************************************************************************)
(* The worker.  Reconcile reads the object from the cache.                 *)
(***************************************************************************)
BeginCycle ==
    /\ pc = "idle"
    /\ queued
    /\ cache.exists
    /\ StaleReads \/ cache = server
    /\ pc' = "start"
    /\ queued' = FALSE
    /\ local' = [spec |-> cache.spec, generation |-> cache.generation,
                 mixed |-> FALSE, conds |-> cache.conds]
    /\ success' = TRUE
    /\ pending' = <<>>
    /\ UNCHANGED <<server, cache, timer, at, poll, round, timeout, outcome,
                   applied, faults, rotations>>

\* The object is gone: return without another request.
GetNotFound ==
    /\ pc = "idle"
    /\ queued
    /\ ~cache.exists
    /\ queued' = FALSE
    /\ UNCHANGED <<server, cache, timer, pc, at, local, success, pending, poll,
                   round, timeout, outcome, applied, faults, rotations>>

\* Any other error of the read is returned; the controller retries with its own
\* rate limiter.
GetFails ==
    /\ pc = "idle"
    /\ queued
    /\ faults < MaxFaults
    /\ faults' = faults + 1
    /\ queued' = FALSE
    /\ timer' = TRUE
    /\ UNCHANGED <<server, cache, pc, at, local, success, pending, poll, round,
                   timeout, outcome, applied, rotations>>

\* ReconcileLoggingServiceCluster: a Failed cycle status is left as it is.
StartStatus ==
    /\ pc = "start"
    /\ BeginStatus(LoggingServiceStatus)
    /\ pc' = "temporary"
    /\ UNCHANGED <<at, success, pending, poll, round, applied, rest>>

RemoveTemporary ==
    /\ pc = "temporary"
    /\ IF Temporary(local.conds, local.spec) = {}
       THEN NoPatch(faults)
       ELSE PatchStatus(RemoveTemporaryStatuses(local.conds, local.spec), faults)
    /\ pc' = "begin"
    /\ at' = 1
    /\ UNCHANGED <<success, pending, poll, round, applied, rest>>

(***************************************************************************)
(* Run of the component Order[at].                                         *)
(***************************************************************************)
RunBegin ==
    /\ pc = "begin"
    /\ BeginStatus(StatusOf(Order[at]))
    /\ pc' = "work"
    /\ UNCHANGED <<at, success, pending, poll, round, applied, rest>>

\* Defective variant: the last component never gets its turn.
NextComponentStopsShort ==
    IF at + 1 < Len(Order) THEN pc' = "begin" /\ at' = at + 1
                           ELSE pc' = "pendingBegin" /\ at' = 1

NextComponent ==
    IF at < Len(Order) THEN pc' = "begin" /\ at' = at + 1
                       ELSE pc' = "pendingBegin" /\ at' = 1

\* Which generation objects written now belong to.
MadeFrom == IF local.mixed THEN SomeObjects ELSE local.generation

\* Defective variant: Graylog returns without removing its status.
RunInstallsKeepsStatus ==
    /\ pc = "work"
    /\ LET c == Order[at] IN
          /\ Installs(local.spec, c)
          /\ applied' = [applied EXCEPT ![c] = MadeFrom]
          /\ IF c = "Graylog" THEN UNCHANGED pending ELSE pending' = Append(pending, c)
          /\ NoPatch(faults)
    /\ NextComponent
    /\ UNCHANGED <<success, poll, round, rest>>

\* All handlers succeed.  Graylog waits for its StatefulSet itself and is done;
\* the other components are appended to the list of pending components.
RunInstalls ==
    /\ pc = "work"
    /\ LET c == Order[at] IN
          /\ Installs(local.spec, c)
          /\ applied' = [applied EXCEPT ![c] = MadeFrom]
          /\ IF c = "Graylog"
             THEN ClearStatus(GraylogStatus, faults) /\ UNCHANGED pending
             ELSE pending' = Append(pending, c) /\ NoPatch(faults)
    /\ NextComponent
    /\ UNCHANGED <<success, poll, round, rest>>

\* Some handler returns an error, before or after it has written something, and
\* the controller records it.
RunFails ==
    /\ pc = "work"
    /\ faults < MaxFaults
    /\ LET c == Order[at] IN
          /\ Installs(local.spec, c)
          /\ \E a \in {applied[c], SomeObjects} : applied' = [applied EXCEPT ![c] = a]
          /\ \E same \in BOOLEAN : SetStatus(FailureStatusOf(c), Failed, same, faults + 1)
    /\ success' = FALSE
    /\ NextComponent
    /\ UNCHANGED <<pending, poll, round, rest>>

\* handleStatefulset of Graylog and waitForAggregator: the StatefulSet does not
\* start in time.  The handler reports this under the status of its component,
\* then the controller reports the error of Run (for Graylog another message
\* under the same status).
NotStarted ==
    /\ pc = "work"
    /\ faults < MaxFaults
    /\ LET c == Order[at] IN
          /\ c \in {"Graylog", "HAFluent"}
          /\ Installs(local.spec, c)
          /\ applied' = [applied EXCEPT ![c] = SomeObjects]
          /\ \E same \in BOOLEAN : SetStatus(StatusOf(c), Failed, same, faults + 1)
    /\ pc' = "notStarted"
    /\ UNCHANGED <<at, success, pending, poll, round, rest>>

NotStartedReported ==
    /\ pc = "notStarted"
    /\ \E same \in BOOLEAN : /\ same => Order[at] = "HAFluent"
                             /\ SetStatus(FailureStatusOf(Order[at]), Failed, same, faults)
    /\ success' = FALSE
    /\ NextComponent
    /\ UNCHANGED <<pending, poll, round, applied, rest>>

\* The component is not wanted: delete its objects.  Errors are only logged.
RunUninstalls ==
    /\ pc = "work"
    /\ LET c == Order[at] IN
          /\ ~Installs(local.spec, c)
          /\ \/ /\ applied' = [applied EXCEPT ![c] = NoObjects]
                /\ ClearStatus(StatusOf(c), faults)
             \/ /\ applied[c] # NoObjects
                /\ faults < MaxFaults
                /\ applied' = [applied EXCEPT ![c] = SomeObjects]
                /\ ClearStatus(StatusOf(c), faults + 1)
    /\ NextComponent
    /\ UNCHANGED <<success, pending, poll, round, rest>>

(***************************************************************************)
(* ComponentsPendingReconciler.Run.                                        *)
(***************************************************************************)
PendingBegin ==
    /\ pc = "pendingBegin"
    /\ BeginStatus(ComponentPendingStatus)
    /\ poll' = Len(pending)
    /\ round' = 0
    /\ pc' = IF pending = <<>> THEN "pendingEnd" ELSE "poll"
    /\ UNCHANGED <<at, success, pending, applied, rest>>

AfterPoll == pc' = (IF poll > 1 THEN "poll" ELSE "roundEnd") /\ poll' = poll - 1

\* The workload runs: forget its status, and move the last pending component
\* into its place.
PollAvailable ==
    /\ pc = "poll"
    /\ ClearStatus(StatusOf(pending[poll]), faults)
    /\ pending' = SubSeq([pending EXCEPT ![poll] = pending[Len(pending)]],
                         1, Len(pending) - 1)
    /\ AfterPoll
    /\ UNCHANGED <<at, success, round, applied, rest>>

\* It does not run yet.  Not running until the wait expires counts as a fault,
\* which is what the bound on the last round says.
PollNotYet ==
    /\ pc = "poll"
    /\ round + 1 < PendingRounds \/ faults < MaxFaults
    /\ AfterPoll
    /\ UNCHANGED <<server, local, faults, at, success, pending, round, applied, rest>>

\* Defective variant: the error ends the loop only, and the end of Run removes
\* the status that reports it.
PollFailsFallsThrough ==
    /\ pc = "poll"
    /\ faults < MaxFaults
    /\ SetStatus(ComponentPendingStatus, Failed, TRUE, faults + 1)
    /\ success' = FALSE
    /\ poll' = 0
    /\ round' = 0
    /\ pc' = "pendingEnd"
    /\ UNCHANGED <<at, pending, applied, rest>>

\* Reading the workload fails: Run returns at once, and the controller records
\* the error.
PollFails ==
    /\ pc = "poll"
    /\ faults < MaxFaults
    /\ \E same \in BOOLEAN : SetStatus(ComponentPendingStatus, Failed, same, faults + 1)
    /\ success' = FALSE
    /\ poll' = 0
    /\ round' = 0
    /\ pc' = "finish"
    /\ UNCHANGED <<at, pending, applied, rest>>

RoundDone ==
    /\ pc = "roundEnd"
    /\ pending = <<>>
    /\ round' = 0
    /\ pc' = "pendingEnd"
    /\ UNCHANGED <<server, local, faults, at, success, pending, poll, applied, rest>>

\* Sleep, and look again.
RoundAgain ==
    /\ pc = "roundEnd"
    /\ pending # <<>>
    /\ round + 1 < PendingRounds
    /\ round' = round + 1
    /\ poll' = Len(pending)
    /\ pc' = "poll"
    /\ UNCHANGED <<server, local, faults, at, success, pending, applied, rest>>

\* Sleep, and find ComponentPendingTimeout passed (slow calls may make it pass
\* before the last round).
WaitExpires ==
    /\ pc = "roundEnd"
    /\ pending # <<>>
    /\ faults < MaxFaults
    /\ faults' = faults + 1
    /\ success' = FALSE
    /\ round' = 0
    /\ poll' = 1
    /\ pc' = "expired"
    /\ UNCHANGED <<server, local, at, pending, applied, rest>>

\* Defective variant: the loop runs one position too far.
ReportNotStartedTooFar ==
    /\ pc = "expired"
    /\ \E same \in BOOLEAN : SetStatus(StatusOf(pending[poll]), Failed, same, faults)
    /\ IF poll <= Len(pending) THEN poll' = poll + 1 /\ pc' = "expired"
                               ELSE poll' = 0 /\ pc' = "pendingEnd"
    /\ UNCHANGED <<at, success, pending, round, applied, rest>>

\* Each component that is still pending is reported as failed.
ReportNotStarted ==
    /\ pc = "expired"
    /\ \E same \in BOOLEAN : SetStatus(StatusOf(pending[poll]), Failed, same, faults)
    /\ IF poll < Len(pending) THEN poll' = poll + 1 /\ pc' = "expired"
                              ELSE poll' = 0 /\ pc' = "pendingEnd"
    /\ UNCHANGED <<at, success, pending, round, applied, rest>>

\* Defective variant: the status of the wait is not removed.
PendingEndKeepsStatus ==
    /\ pc = "pendingEnd"
    /\ NoPatch(faults)
    /\ pc' = "finish"
    /\ UNCHANGED <<at, success, pending, poll, round, applied, rest>>

PendingEnd ==
    /\ pc = "pendingEnd"
    /\ ClearStatus(ComponentPendingStatus, faults)
    /\ pc' = "finish"
    /\ UNCHANGED <<at, success, pending, poll, round, applied, rest>>

(***************************************************************************)
(* The end of Reconcile: the status of the cycle, then the result.         *)
(***************************************************************************)
Finish ==
    /\ pc = "finish"
    /\ SetStatus(LoggingServiceStatus, IF success THEN Success ELSE Failed, TRUE, faults)
    /\ pc' = "return"
    /\ UNCHANGED <<at, success, pending, poll, round, applied, rest>>

ReturnIdle ==
    /\ pc = "return"
    /\ pc' = "idle"
    /\ local' = NoLocal
    /\ success' = TRUE
    /\ pending' = <<>>
    /\ UNCHANGED <<server, cache, at, poll, round, applied, faults, rotations>>

Succeeded ==
    /\ success
    /\ timeout' = InitialTimeoutOnFailedReconcile
    /\ outcome' = "success"
    /\ UNCHANGED timer

\* Defective variant: a failed cycle asks for no other one.
ReturnWithoutRequeue ==
    /\ ReturnIdle
    /\ Succeeded \/ /\ ~success
                    /\ timeout' = Doubled(timeout)
                    /\ outcome' = "failed"
                    /\ UNCHANGED timer
    /\ UNCHANGED queued

\* Defective variant: requests that arrived during the cycle are forgotten.
ReturnForgetsRequests ==
    /\ ReturnIdle
    /\ Succeeded \/ /\ ~success
                    /\ timer' = (timer \/ timeout > 0)
                    /\ timeout' = Doubled(timeout)
                    /\ outcome' = "failed"
    /\ queued' = FALSE

\* A failed cycle asks for another one after the timeout and doubles it; the
\* controller ignores a delay that is not positive.
Return ==
    /\ ReturnIdle
    /\ Succeeded \/ /\ ~success
                    /\ timer' = (timer \/ timeout > 0)
                    /\ timeout' = Doubled(timeout)
                    /\ outcome' = "failed"
    /\ UNCHANGED queued
-----------------------------------------------------------------------------
(***************************************************************************)
(* The environment of the worker.                                          *)
(***************************************************************************)
EnvUnchanged == UNCHANGED <<pc, at, local, success, pending, poll, round, timeout,
                            outcome, applied>>

\* The user changes the specification; the API server counts the generations.
EditSpec ==
    /\ server.exists
    /\ server.generation < MaxGeneration
    /\ \E s \in UserSpecs \ {server.spec} :
          server' = [server EXCEPT !.spec = s, !.generation = @ + 1]
    /\ EnvUnchanged
    /\ UNCHANGED <<cache, queued, timer, faults, rotations>>

DeleteCR ==
    /\ server.exists
    /\ server' = [server EXCEPT !.exists = FALSE]
    /\ EnvUnchanged
    /\ UNCHANGED <<cache, queued, timer, faults, rotations>>

\* The watch of the informer catches up.  The predicate of the controller drops
\* updates that leave the generation as it is.
CacheSync ==
    /\ cache # server
    /\ cache' = server
    /\ queued' = (queued \/ cache.generation # server.generation
                         \/ cache.exists # server.exists)
    /\ EnvUnchanged
    /\ UNCHANGED <<server, timer, faults, rotations>>

TimerFires ==
    /\ timer
    /\ timer' = FALSE
    /\ queued' = TRUE
    /\ EnvUnchanged
    /\ UNCHANGED <<server, cache, faults, rotations>>

\* mapSecretToLoggingServices: the data of a referenced Secret changed.
SecretEvent ==
    /\ cache.exists
    /\ rotations < MaxRotations
    /\ rotations' = rotations + 1
    /\ queued' = TRUE
    /\ EnvUnchanged
    /\ UNCHANGED <<server, cache, timer, faults>>

\* The operator dies and comes back: everything in memory is lost, the new
\* informer lists the resource and its create event fills the queue.  A run
\* of handlers or deletions that was under way may be half done.
Restart ==
    /\ faults < MaxFaults
    /\ faults' = faults + 1
    /\ cache' = server
    /\ queued' = server.exists
    /\ timer' = FALSE
    /\ timeout' = InitialTimeoutOnFailedReconcile
    /\ outcome' = "none"
    /\ pc' = "idle"
    /\ at' = 1
    /\ local' = NoLocal
    /\ success' = TRUE
    /\ pending' = <<>>
    /\ poll' = 0
    /\ round' = 0
    /\ \/ UNCHANGED applied
       \/ /\ pc = "work"
          /\ Installs(local.spec, Order[at]) \/ applied[Order[at]] # NoObjects
          /\ applied' = [applied EXCEPT ![Order[at]] = SomeObjects]
    /\ UNCHANGED <<server, rotations>>

Operator ==
    \/ BeginCycle \/ GetNotFound \/ StartStatus \/ RemoveTemporary
    \/ RunBegin \/ RunInstalls \/ RunFails \/ NotStarted
    \/ NotStartedReported \/ RunUninstalls
    \/ PendingBegin \/ PollAvailable \/ PollNotYet \/ PollFails
    \/ RoundDone \/ RoundAgain \/ WaitExpires \/ ReportNotStarted \/ PendingEnd
    \/ Finish \/ Return

Environment ==
    EditSpec \/ DeleteCR \/ CacheSync \/ TimerFires \/ SecretEvent \/ Restart \/ GetFails

Next == Operator \/ Environment

Spec == Init /\ [][Next]_vars

\* The worker goroutine keeps running, the watch keeps delivering and timers
\* fire.  Nothing is assumed of the user or of faults.
FairSpec ==
    /\ Spec
    /\ WF_vars(Operator)
    /\ WF_vars(CacheSync)
    /\ WF_vars(TimerFires)
-----------------------------------------------------------------------------
(***************************************************************************)
(* Properties.                                                             *)
(***************************************************************************)
Resources == [exists : BOOLEAN, spec : LoggingServiceSpec,
              generation : 1..MaxGeneration, conds : Seq(LoggingServiceCondition)]

LocalObjects == [spec : LoggingServiceSpec, generation : 0..MaxGeneration,
                 mixed : BOOLEAN, conds : Seq(LoggingServiceCondition)]

\* The type invariant.
TypeOK ==
    /\ server \in Resources
    /\ cache \in Resources
    /\ queued \in BOOLEAN
    /\ timer \in BOOLEAN
    /\ pc \in PCs
    /\ at \in 1..Len(Order)
    /\ local \in LocalObjects
    /\ success \in BOOLEAN
    /\ pending \in Seq(Components)
    /\ IF pc \in {"poll", "expired"} THEN poll \in 1..Len(pending) ELSE poll = 0
    /\ round \in 0..PendingRounds
    /\ timeout \in Int
    /\ outcome \in {"none", "success", "failed"}
    /\ applied \in [Components -> {SomeObjects, NoObjects} \cup 1..MaxGeneration]
    /\ faults \in 0..MaxFaults
    /\ rotations \in 0..MaxRotations

\* Replacing in place, swapping with the last and cutting off the end never
\* lose or move the status of the cycle and never duplicate a condition,
\* whatever the order of calls, failed patches and restarts (status.go).
ConditionsWellFormed ==
    /\ WellFormed(server.conds)
    /\ WellFormed(cache.conds)
    /\ WellFormed(local.conds)

\* "If operator reconcile failed, then we keep failed status for all following
\* reconcile cycles, before first success" (ReconcileLoggingServiceCluster):
\* the cycle status users see leaves Failed only for Successful.
FailedUntilSuccess ==
    [][CycleStatus(server.conds) = Failed
          => CycleStatus(server'.conds) \in {Failed, Success}]_vars

\* A cycle that ends in success leaves no condition of any component behind,
\* not even one that an earlier failed or interrupted cycle had written.
CleanOnSuccess ==
    pc = "return" /\ success
        => local.conds = <<Condition(LoggingServiceStatus, Success)>>

\* A cycle that fails says which component or wait failed (unless the
\* specification changed under it: then the run of Fluent Bit started before
\* the change can clear the failure that the aggregator reports under the same
\* status).
FailureIsExplained ==
    pc = "return" /\ ~success /\ ~local.mixed
        => \E i \in 1..Len(local.conds) :
              /\ local.conds[i].reason # LoggingServiceStatus
              /\ local.conds[i].type = Failed

\* Nothing is left to do: no request, no timer, and the cache is up to date.
Quiet == pc = "idle" /\ ~queued /\ ~timer /\ cache = server /\ server.exists

\* When the operator rests after a successful cycle, every installed component
\* was written from the specification that is in the API server now: an edit
\* that arrives in the middle of a cycle is never swallowed.
AppliedWhenQuiet ==
    Quiet /\ outcome = "success"
        => \A c \in Components :
              Installs(server.spec, c) => applied[c] = server.generation

\* A failed cycle is followed by another one, as long as the timeout, doubled
\* with every failed cycle in a row and never capped, does not overflow
\* time.Duration (here: 2^MaxFaults < DurationValues / 2).
FailedCycleIsRetried ==
    pc = "idle" /\ outcome = "failed" => queued \/ timer \/ ~cache.exists

\* Once edits and faults stop, every installed component is brought to the
\* current specification and stays there.
EventuallyApplied ==
    <>[](server.exists => \A c \in Components :
              Installs(server.spec, c) => applied[c] = server.generation)

\* Once edits and faults stop, and if the status can be written, the status
\* settles on a single Successful condition.
EventuallyReportsSuccess ==
    <>[](server.exists =>
            server.conds = <<Condition(LoggingServiceStatus, Success)>>)
=============================================================================
