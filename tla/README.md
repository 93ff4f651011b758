# A TLA+ verification project for the logging operator

The repository is a Kubernetes operator. It turns one custom resource, `LoggingService`, into a logging
stack: Graylog, FluentD or Fluent Bit (alone or as forwarder and aggregator) and a reader of Kubernetes
events. This directory models the parts of it whose correctness depends on the order of steps: the
reconcile cycle with its status conditions, the Kubernetes objects the component reconcilers write and delete,
the credentials rendered into them, the two kinds of writers of Graylog's credentials, and the configuration of
Graylog through its REST API.

`PROJECT.json` lists the components, the runs, the lines each definition models, the hazards and the
theorems. Everything below is about the code under `src/`.

## 1. Inventory

| Part | State it keeps | Operations | Hard behaviour |
|---|---|---|---|
| Reconcile cycle (`internal/controllers/loggingservice_controller.go`) | the object of the cycle, `TimeoutOnFailedReconcile`, the work queue and informer cache of controller-runtime | `Reconcile`, `ReconcileLoggingServiceCluster`, event predicates, `mapSecretToLoggingServices` | cached reads, edits in the middle of a cycle, retries, crashes |
| Status conditions (`internal/utils/status.go`) | `status.conditions`, in memory and in the API server | `UpdateStatus`, `RemoveStatus`, `RemoveTemporaryStatuses`, `patch` | in-place edits of a list over many cycles, failing patches, answers decoded into the object in use |
| Wait for pending components (`internal/utils/waiter.go`) | the list of pending components | `ComponentsPendingReconciler.Run` | removal by swap while iterating, timeout, error in the middle of a round |
| Component reconcilers (`internal/controllers/{graylog,fluentd,fluentbit,fluentbit-forwarder-aggregator,events-reader}`) | Kubernetes objects | `Run`: install or uninstall | one of several calls fails, errors that are only logged |
| Graylog credentials (`graylog/reconciler.go`, `graylog/handler.go`, `graylog/utils/watch-secret.go`) | a Secret, its hash key, `graylog.conf` in a ConfigMap, one goroutine per finished run | `setCredentials`, `handleConfigMap`, `SecretEventWatcher.Watch` | concurrent writers, optimistic locking, lost events, leaked goroutines |
| Object application (`internal/reconcilers`, `internal/utils/config_secret.go`) | Kubernetes objects | `createOrUpdate`, `CreateOrUpdateConfigSecret`, `DeleteLegacyConfigMap` | conflicts, half applied sets of objects |
| Graylog content (`graylog/utils/*.go`) | entities behind Graylog's REST API | `ManageGrokPatterns` ... `ManageUserAccounts` | a call fails between upload and installation; policies `only-create` and `force-update` |
| Output credentials (`internal/utils/output_credentials.go`) | values rendered into configuration Secrets | `ResolveSecretKeyValue`, `ResolveFluentbitOutputAuth` | rotation racing a cycle |
| Container runtime (`updateDynamicParameters`) | `DynamicParameters`, for the life of the process | discovery from the nodes | the first answer sticks |
| Builders, templates, process start, charts, tests | none | rendering | none that depends on order |

How they interact: a cycle is one goroutine that calls the component reconcilers one after the other on the
same in-memory object. Every status write sends `status.conditions` as a merge patch and decodes the answer,
*specification included*, back into that object. What a cycle appends to the list of pending components is
waited for at its end. Graylog's run ends by starting a watcher goroutine that keeps the object of its cycle
and writes the ConfigMap and the Secret concurrently with all later cycles.

What makes each part correct:

* cycle: an edit is never swallowed; a failed cycle is retried; the components converge;
* conditions: one per reason, the cycle's own first; a failure stays visible until a success and is explained;
  nothing stale remains after a success;
* wait: the list is never indexed out of range, and a failure of the wait is reported;
* objects: at rest they are rendered from the present specification, credentials and container runtime; no workload
  is ever without the configuration it mounts; what is removed is removed completely; what others set on a workload
  stays;
* credentials: a person's edit is never reverted, and it reaches `graylog.conf` and the hash;
* Graylog content: a run that reports no error left everything there; each deploy policy writes what it says and
  no more; what an interrupted run leaves behind never stops the next ones.

## 2. Modules

| Module | Models |
|---|---|
| `LoggingService` | which blocks the specification has, `IsInstall`, the order of the components, and `Decode`: what decoding an API answer does to a specification already in memory (blocks removed on the server stay) |
| `StatusConditions` | the list of conditions and the pure part of every operation on it |
| `ReconcileCycle` | the work queue, the cached read, the cycle call by call, the wait, the end of the cycle, and its environment |
| `CyclePromise` | what the cycle promises about the status, without queues, caches, lists and order |
| `CycleRefinement` | the mapping from `ReconcileCycle` to `CyclePromise` |
| `ComponentObjects` | the runs of the component reconcilers object by object: `createOrUpdate` and its relatives, uninstalling, output credentials, container runtime, availability |
| `RemoveTemporaryLoop` | the loop of `RemoveTemporaryStatuses` iteration by iteration, against the closed form in `StatusConditions` |
| `GraylogCredentials` | the Graylog run as far as credentials go, the watcher goroutines, and people editing the Secret |
| `GraylogContent` | `configureGraylog`: what is listed, created, updated and deleted in Graylog, request by request, under the deploy policies |
| `MC...` | instances for TLC (`GraylogContent` needs none) |
| `StatusConditionsProofs`, `RemoveTemporaryLoopProofs` | proofs about the list of conditions and about the loop |
| `ReconcileCycleProofs`, `CycleRefinementProofs`, `CycleOutcomeProofs` | proofs about the cycle, each module extending the one before: types and well-formed conditions; the refinement; what is applied, repeated and reported |
| `GraylogCredentialsProofs` | proofs about the Secret with the credentials |
| `ComponentObjectsProofs` | proofs about the objects of the components |
| `GraylogContentProofs` | proofs about the content of Graylog |

Operators called `...Always`, `...Forgets`, `...KeepsStatus` and so on and marked "Defective variant" are
plausible mistakes in the definition they precede. They are not part of any specification; each property is
checked to fail when its variant takes the place of the definition.

### ReconcileCycle

`server` is the custom resource in the API server with its generation, `cache` the informer's copy, `local` the
object of the cycle, `pc`/`at` the place in the code, `pending` the list of pending components, `applied` which
generation the objects of a component were last written from (`SomeObjects` when a failed or interrupted run
left a mixture). One step is one call that other actors can observe: a status patch, a component's handlers, a
poll. `local.mixed` records that a patch changed the specification under the running cycle; objects written
after that belong to no single generation.

* `UpdateStatus` writes nothing when the same Failed message is already there (`same`), and a failed patch
  leaves the changed list in memory (`PatchStatus`).
* `Run` of a component is `RunBegin`, then one of `RunInstalls`, `RunFails`, `NotStarted` (the StatefulSets of
  Graylog and of the aggregator; the handler and the controller both report) or `RunUninstalls`, whose errors
  are only logged.
* The wait is `PendingBegin`, the polls, `RoundDone`/`RoundAgain`/`WaitExpires`, `ReportNotStarted`,
  `PendingEnd`.
* The environment edits and deletes the resource, delays the cache, rotates a referenced Secret, makes calls
  fail and kills the operator between any two steps. The predicate that drops updates without a new generation
  is in `CacheSync`.
* `Doubled` keeps the width of `time.Duration` as a parameter (`DurationValues`).

Not modelled here: the objects inside one `Run` (one step with three outcomes; `ComponentObjects` has them),
message texts, log output.

### CyclePromise and CycleRefinement

`CyclePromise` knows the status users see, the set of components a cycle has not dealt with, the set it waits for
and whether it has met an error. `Report` is the only step that publishes Successful or Failed: Successful needs
all components dealt with, no error and nothing waited for; Failed needs an error and gives way only to
Successful. A crash or the end of a cycle forgets everything but the status. `CycleRefinement` maps the position in
the loop to the set of components (`Todo`), the list of pending components to a set, and the conditions in the API
server to the status of the first of them. `KeepsPromise` is the abstract specification under this mapping. It
speaks of cycles that start from an up-to-date cache, as `FailedUntilSuccess` does.

### ComponentObjects

`objs` are the objects of the components in the API server: whether each exists, what it was rendered from
(specification, runtime, credentials), whether somebody else has set something on it (`foreign`), and for a workload
how far its pods are (`rollout`). `cached` is the informer's copy and `fresh` says whether it has the current
version. A run is a plan, the sequence of calls in `...Run` or `...Uninstall`, and `step` a position in it; one
call of a handler is one step. Errors end a run (`Abort`) except in uninstall and for two deletions of Graylog,
where they are only logged. `left` is a history variable of the model: the objects that a run went past without
making of them what it should, after an error that is only logged or because the outdated copy in the cache said
that there is nothing to do (`Leaves`). The next run that does its work on the object takes it out again.

* `createOrUpdate` creates, and if the object exists reads the cached copy, changes it and sends it back with its
  version: it fails when the copy is missing or old. `CreateOrUpdateConfigSecret` leaves an equal copy alone.
  `updateConfigMap` and `handleConfigMap` send no version.
* Credentials are read field by field (`ResolveSecretKeyValue`) from a cache of their own, while `Rotate` changes
  them; `SecretSync` delivers a change to the cache and to `mapSecretToLoggingServices`, which looks for references
  in the *cached* resource. One Auth block stands for those of the outputs of an agent (Loki, Http, Otel), which
  `resolveOutputAuth` (`output_credentials.go:81`) handles one after the other. Of the values that are refused,
  `"variable"` is refused for Fluent Bit and the aggregator only and `"line break"` for all. A refused value ends the
  run like a missing key does, so the run has no such values of its own.
* `GraylogCall` are the calls of Graylog's `Run` that write none of these objects: `setCredentials` and
  `CreateConnector` at its beginning, `configureGraylog` and `watchSecret` at its end. `DeletePods` belongs to the
  deletion of the old Deployment: the call may fail after the Deployment is gone (`HandleFails`).
* `Begin` finds caches of the objects that have caught up with the cycles before, or, as one of the `Disturbances`
  (`"lag"`), caches that have not; within a cycle they lag as they like.
* `updateDynamicParameters` keeps the runtime in memory; `Discovered` is what it makes of the nodes.
* `IsAvailable` compares the counts of the cached status with the specification, like `pod_manager.go`, and never
  looks at the generation these counts belong to.

Two simplifications. First, the components share no objects and are looked at in groups (`Groups`): a behaviour
follows the cycles of one group, and calls for other components are not steps of it. Second, what others do to an
object commutes with every step of the worker that does not look at the object; `LooksAt` and its relatives
therefore let people, watches and controllers act only when the worker is about to look (or is idle). Service
monitors and owner references are left out.

### GraylogCredentials

`secret` and `cm` carry a resource version; an `Update` made from a copy succeeds only when nobody has written
since (the reconcile's update of the ConfigMap carries no version and always wins). A watcher has its own
object (`cr`), a queue of events, the event it works on and the copy it read last. A hash is represented by
the password it is the hash of. The Secret is assumed to carry the label `graylog=secret`, as
`docs/user-guides/password-change.md` asks (the chart's own Secret only has it when `graylog.labels` sets it).
The rest of a Graylog run is the step from `"configure"`. `watchSecret` may fail before it starts the goroutine, which
is only logged: the run ends well and has no watcher.

### GraylogContent

`store` is what Graylog has: per entity whether it exists, its id, whether somebody edited it, the ids it holds of
others and, for a stream, whether it runs. A run is at step `at` of `Steps` (the calls of `configureGraylog`), has
read `stage` of the lists the step needs and knows the ids in `seen`; `todo` is what the loop has still to handle, in
any order, as Go's maps have none. `Send` is a request: it succeeds, is lost, or is carried out and its answer
lost. Every error ends the run (`Fails`) and the next one begins again at the first step, except for the lookups
of accounts (`LookUp`), whose error the code drops.

One entity stands for those that a loop handles alike: two streams, one with the default index set, one with its own;
the rule of each and one that refers to no stream of these; one input, extractor, grok pattern, pipeline, pack with
one dashboard. `contentPackPaths` and `contentPacks` are one pass. The default stream and the default index set
exist and keep their names (so the error "default index set not found" of `index-sets.go:54` does not occur), and the
same streams are enabled all the time (`GetStreams` computes them from the specification). Whether Graylog accepts an
id that no longer exists is left open (`RefusesRefs`). A view and a content pack bring their ids along; other ids are
new at each creation. An upload of a custom pack that Graylog refuses because it has it is a failed request.

## 3. Runs

| Run | Question | Result |
|---|---|---|
| `cycle_agents` | migrations among three agents with an edit at any moment, lagging cache, failing patches, one fault | `TypeOK`, `ConditionsWellFormed`, `FailureIsExplained`, `AppliedWhenQuiet` hold |
| `cycle_failures` | Graylog, FluentD, events reader, three faults in any places, a Secret rotation | `CleanOnSuccess`, `FailedCycleIsRetried`, `FailedUntilSuccess`, `KeepsPromise` hold |
| `cycle_live` | one migration with one fault, fair operator | `EventuallyApplied`, `EventuallyReportsSuccess` hold |
| `remove_temporary_loop` | the literal loop over all lists of up to four conditions | `IndexInRange`, `LoopComputesPrefix` hold |
| `credentials_faults` | two cycles and the watcher each leaves, a person's two edits of user and password, one fault | `TypeOK`, `EditIsNeverReverted` hold |
| `credentials_watched` | two watchers, two password changes | `ChangesAreFollowed` holds |
| `password_change` | does a changed password always reach `graylog.conf`? | violated without any fault: the Secret is read at the start of a run and watched from its end |
| `objects_rotation` | Fluent Bit with token, user and password from two Secrets, which may also be missing; any two of edit, rotation, failed call, crash, late caches; fair operator | `TypeOK`, `RenderedWhenQuiet`, `RuntimeAgreed`, `EventuallyRendered` hold |
| `objects_migration` | each component installed, upgraded from an older release, removed; any two of edit, foreign label, failed call, crash, late caches | `NothingLeftBehind`, `WorkloadHasConfig`, `ForeignIsKept` hold |
| `content_faults` | both policies and `skip`, all optional parts, two faults anywhere | `TypeOK`, `CompleteOnSuccess` hold |
| `content_edits` | a person deletes or edits something at any moment, one fault, fair worker | `ForceUpdateRepairs`, `OnlyCreateKeepsEdits`, `ForceUpdateRecovers` hold |
| `only_create_stuck` | the same recovery with `only-create` | violated: an uploaded pack is taken for installed |

The violations are described, with the lines they contradict, under `findings` in `PROJECT.json`.

Bounds. Generations 1-2 allow one edit in the middle of a cycle, which is what distinguishes old from new
specifications. Three faults are enough for a failure whose report also fails, followed by a crash. Two
polling rounds make both "again" and "expired" happen, with up to two components pending. `DurationValues` is
larger than `2^(MaxFaults + 1)`, so that the doubled timeout does not wrap within the run (in the code it
would after 33 failures in a row, that is after centuries).
For the credentials, two watchers are the smallest number that can conflict, and two changes the smallest that leaves
one of them working on an outdated event. In `credentials_faults` one request lets two runs end, so that two goroutines
write next to the reconcile. `credentials_watched` keeps one user name: with two it does not hold (section 4).
For the objects, two disturbances are what it takes for an edit or a rotation in the middle of a cycle to meet a
failure or a crash, and for a rotation to fall between the reads of two fields. `objects_rotation` has one agent;
what several agents have in common (`RuntimeAgreed`) is a theorem for any of them. Fluent Bit has every kind of call but
those of StatefulSets and of the forwarder's ConfigMap; `objects_migration` has these, one component per behaviour,
with one credential-free specification per stage of `docs/migration.md` (all components' plans, one runtime). In
`objects_rotation` the nodes agree on a third runtime; nodes that disagree lead to the default, as a failed listing does.
For the content, two faults allow a half done run whose repair is interrupted too, and one change by a person
can fall before, into or behind every list. Ids only count creations; the bounds on edits, requests and faults keep
them finite. `CompleteOnSuccess` and `ForceUpdateRepairs` speak of runs during which nobody else changed anything,
and leave out what section 4 lists. `content_edits` runs without custom content packs: whether Graylog takes a pack
a second time is its own affair.

`CHECK_DEADLOCK FALSE` everywhere: an operator with an empty queue may rest forever.

Fairness. `FairSpec` of the cycle asks that the worker goroutine, the informer's watch and the timers keep
making progress, which the Go scheduler and controller-runtime provide; a poll that always says "not yet" is
a fault and bounded. Nothing is assumed of users, faults or crashes. In the credentials model the reconcile
worker, the informer and each goroutine are weakly fair; a goroutine that waits on an empty or nil channel has
no step to take. In `GraylogContent` the reconcile worker is weakly fair.
In `ComponentObjects` the worker and the timers are weakly fair, and so are the object caches together and the
workload controllers of Kubernetes together; the watches of the resource and of the Secrets are strongly fair only
because `LooksAtSecrets` lets them act at some points of a cycle: the real watches wait for nothing.
`EventuallyReportsSuccess` assumes that patches succeed
(`PatchMayFail = FALSE`): the code never repeats a failed final patch.

## 4. Where the code departs from its documents

`findings` in `PROJECT.json` has the departures that runs of their own show. The properties that hold leave out a few
more. Each is visible in the property or the configuration named here, and TLC finds it when that exception is taken
away:

* `RemoveTemporaryStatuses` cuts off the last condition instead of the one it looks at
  (`status_integration_test.go:183` says so); `LoopComputesPrefix` states what it computes, and a Failed condition
  behind a temporary one is lost.
* "If operator reconcile failed, then we keep failed status for all following reconcile cycles, before first
  success" (`loggingservice_controller.go:98`): the decision is made on the cached object. When the cache has not
  seen the operator's own patch yet, Failed is overwritten by In Progress; with `StaleReads = TRUE` TLC finds this
  for `FailedUntilSuccess` with one failure, which is why the theorem has the premise `~StaleReads`.
* "In this case `logging-operator` uninstalls all FluentD entities" (`docs/migration.md:80`): an error of a deletion
  is logged, the cycle succeeds and nothing tries again until another event; hence `left` in `NothingLeftBehind`. One
  edit and one failed deletion are enough to leave an object of FluentD. The Deployment of an old Graylog is deleted
  only by the installation of the new one.
* "The operator watches these credential Secrets and regenerates the configuration after their data changes"
  (`docs/installation-parameters.md:1750`): `CreateOrUpdateConfigSecret` compares with the cached copy before it writes.
  If a cycle begins before the cache has seen the Secret that the cycle before wrote, and what it was rendered from has
  been changed back, the old copy equals the wanted one and the newer Secret stays; hence `left` in
  `RenderedWhenQuiet`. Two rotations and one `"lag"` show it. It takes a request that is already waiting when the
  first of the two cycles ends, and is unlikely where that cycle ends with the wait for pending components, which
  begins with a pause (`InitialDelay`). For workloads `createOrUpdate`, said to read "the live copy"
  (`reconcilers.go:80`), reads the cache too, but there the version makes up for it. A deletion is skipped as well when
  the cache does not show the object yet.
* When listing the resources fails in `mapSecretToLoggingServices`, the event of a Secret is forgotten; hence `missed`
  in `Quiet`.
* The handlers delete the ConfigMap of an older release before they update the DaemonSet that mounts it; until then,
  or until a failed cycle is repeated, its pods cannot start. `WorkloadHasConfig` speaks of workloads this release
  wrote.
* "waits until its pods are updated and ready" (`fluentbit-forwarder-aggregator/handler.go:140`) and "waits until its
  pods run the new revision" (`graylog/handler.go:48`): `IsStatefulsetReplicasSynchronised` only compares the ready
  replicas, and no check looks at `observedGeneration`. In `ComponentObjects` the wait is passed in the states
  `stale` and `half`.
* The default of `containerRuntimeType` is `docker` in `docs/installation-parameters.md:50` and `containerd` in
  `updateDynamicParameters`. What was found or set once stays for the life of the process, also when the
  specification no longer sets it; `RuntimeAgreed` asks for the value of the specification only while it has one.
* With two watchers and changes of both user and password, the password update of each watcher can conflict with
  the user update of the other, and both are dropped: each watcher has already taken the password for known, and later
  events find that it "did not change". Hence one user name in `credentials_watched`; with two names and two changes
  even the password alone does not reach `graylog.conf`.
* `force-update` goes over the grok patterns that exist and creates none (`values.yaml:338`: "If the content does
  not exist, it is created"); hence the exception in `CompleteOnSuccess`.
* `only-create` overwrites the default index set, the order of the message processors, the snapshot repository
  and custom views (`values.yaml:337`: "without updating the existing content"); `AlwaysWritten` names them.
* `CreateOrUpdateRole` and `CreateOrUpdateUser` drop the error of their lookup, and a run without an error may lack
  the account; hence `skipped` in `CompleteOnSuccess`.

## 5. Proofs

Every theorem holds for all values of the constants that the named assumption of its model allows: any
specifications, any number of edits, faults, events, watchers and crashes. Three have a premise, named below. All
invariants used here were first checked with TLC on instances like those of the runs.

### The list of conditions

`StatusConditionsProofs` has what the four list operations do to a well-formed list, and what they do to it as a set
(`Listed`). `GetConditionIndex` reduces the CHOOSE of the first position to facts the provers can use.

`LoopStaysInRange` and `LoopIsRemoveTemporaryStatuses` show that the literal loop of `RemoveTemporaryStatuses`
computes the closed form that the cycle uses. The invariant says that the list is the one of the beginning without as
many conditions at its *end* as the loop has found temporary ones behind its index (`Cut`). It needs no induction
over data: each iteration adds at most one position to `Cut`, whose cardinality bounds what is cut off.

### The cycle

* `TypeCorrect` (`TypeOK`, with `poll` inside `pending`) and `ConditionsStayWellFormed`. The inductive invariant `Inv`
  adds `StatusStarted`: from the first status write of a cycle on, the list in memory begins with the status of the
  cycle. It is needed because removing a status moves the last condition into its place and
  `RemoveTemporaryStatuses` cuts off the end.
* `FailedStatusIsKept`: `~StaleReads => (Spec => FailedUntilSuccess)`. `KnowsFailure`: without stale reads, when the
  server says Failed, so does the object of the running cycle until its end; this turns the test `IsStatusFailed`
  on the local object into a statement about the server.
* `CycleKeepsPromise`: `~StaleReads => (Spec => KeepsPromise)`, the refinement of `CyclePromise`, with one lemma per
  group of actions. `RefInv` adds `Control` (nothing is pending before the first component, no component is pending
  twice, a wait that ends without an error has an empty list) and `ShowsProgress` (what the local object shows
  between the first and the last status write). The premise is the one of `FailedStatusIsKept`; section 4 says what
  happens without it.
* `EditIsNeverSwallowed` (`AppliedWhenQuiet`), stale reads included. `SameGeneration`: a copy is never newer than the
  resource, and equal generations mean equal specifications. `OutdatedIsRepeated`: a cycle that works on an older
  generation has a request or an undelivered update behind it. `DealtIsApplied` and `SuccessIsApplied` carry what the
  cycle has written from the loop to the rest after it.
* `FailedCycleIsTriedAgain` (`FailedCycleIsRetried`), with the premise `TimeoutFits(power)`: for `power[n] = 2^n`,
  `2 * power[n]` is below `DurationValues` for every number of faults. The code doubles the timeout after every failure
  and never caps it, so some such premise is necessary; it is stated with a function because the provers know no
  powers. `EveryFailureIsAFault` bounds the timeout by the faults so far.
* `SuccessIsClean` (`CleanOnSuccess`) and `FailureIsReported` (`FailureIsExplained`). `Unfinished` is the set of
  statuses that the rest of the cycle may still remove. `OnlyUnfinished`: without an error the list holds the status of
  the cycle and unfinished ones only. `FailureStays`: after an error some Failed condition is on the list that is
  neither; the cycle whose wait has just expired is the one place where it is yet to be written.
  `NoMonitoringStatus` is needed because nobody would remove that status.

### Graylog credentials

`CredentialsType` (`TypeOK`) and `EditsSurvive` (`EditIsNeverReverted`) for any number of watchers. `CopyOfSecret` is
the point: a copy of the Secret that the informer or a watcher holds is not newer than the Secret, and if it has the
current version it has the current user and password, so the API server lets a goroutine write only what is there.

### The objects of the components

* `ObjectsType` (`TypeOK`). `TypeInv` adds how many credentials a run has read at each step, and that an object that is
  not there carries nobody's labels.
* `ForeignLabelsAreKept` (`ForeignIsKept`): from `fresh`, the copy with the current version is the object.
* `AgentsHaveConfig` (`WorkloadHasConfig`). `ConfigWritten` and `UninstalledSoFar` say what the run at hand has come
  past; that the configuration comes before the workload in `...Run` and after it in `...Uninstall` is proved of the
  plans (`ConfigBeforeWorkload`, `WorkloadBeforeConfig`).
* `RestingMeansRendered` (`RenderedWhenQuiet`), `AgentsAgreeOnRuntime` (`RuntimeAgreed`) and `UninstallIsComplete`
  (`NothingLeftBehind`), from one invariant `CycleInv`. `NoNews` says that no request, no unseen generation and no
  forgotten event has come since the cycle began; then the object of the cycle is the specification
  (`SpecIsCurrent`, through all status patches), the credentials read so far are those in the cache
  (`CredsAreCurrent`: an event of a Secret that an installed agent uses always brings a request), the objects of the
  run up to now are settled (`SettledSoFar`), and so are the components before it (`DealtSoFar`). An object is settled
  when it is as the run should leave it or is in `left`. Nothing is assumed of the caches: a call that goes on without an
  error has either written the object, or has found a copy with the current version that needs no change, or has put
  the object into `left` (`HandlerSettles`). It stays settled because no later call of the cycle is about the same
  object (`SettledStays`, `CallWrites`) and others change nothing of what it is rendered from.

### The content of Graylog

All four safety properties of `GraylogContent` hold with and without the auth proxy and custom content, for any
number of faults, edits and requests.

Every step of a run is shown to be of one of a few kinds (`StepKinds`): it starts or fails, gets a list, makes something
of *one* entity or leaves it alone for a reason (`HandlesOne`, `Makes`, `Keeps`), removes the old extractor or a custom
view, looks for an account in vain, or works on the content pack. The proofs below go over these kinds, not over the
two dozen actions.

* `ContentType` (`TypeOK`) and `OnlyCreateIsKind` (`OnlyCreateKeepsEdits`), from `ContentInv`, which holds whatever
  people do. `MissingIsMissing`: what a list did not show does not exist when the run acts on it, as nobody but the run
  creates anything; so a creation never overwrites. It needs `Looked`, which of the lists the run may still act on, since
  lists are handed on from one step to the next (`SharesLists`) and grow old when an entity has been handled.
  `PackStages` and `StoreShape` (a dashboard comes with an installation and that with the pack) say the same of the
  content pack, which is not looked up between its deletion and its upload. `SearchFirst`: where a view is, its search
  is, so the list of views may decide on the search. `RoleIsChecked`: a role is not written without the ids it needs.
* `ContentIsComplete` (`CompleteOnSuccess`) and `ContentIsRepaired` (`ForceUpdateRepairs`), from `RunInv`, which adds
  what holds while nobody disturbs the run. `SeenIsCurrent`: what a list showed is there under that id. `Progress`: an
  entity that has been handled is as the step should leave it (`Present`, `Repaired`). That it stays so is the order of
  the calls of `configureGraylog`: `Rank` is the place of a call and `Home(c)` that of the call that makes `c`;
  the entities whose ids `c` holds have an earlier home (`RefsHome`), so later calls touch neither `c` nor these
  (`Apart`, `ApartPack`, `OverRests`). The exception is `resume`, which handles the streams again and only starts them.
  The dashboards are part of `Present` for the role of the operator and not for the pack: with `only-create`, a pack
  without an installation passes the step of the dashboards, and only the role finds out (`DashboardThere`).

The order of the steps enters as facts about the four sequences that `AuthProxy` and `CustomContent` can make of `Steps`
(`StepsRank`, `RanksGrow`, `HasStep`).

### Only model-checked

The liveness properties (`EventuallyApplied`, `EventuallyReportsSuccess`, `EventuallyRendered`, `ChangesAreFollowed`,
`ForceUpdateRecovers`): fairness and ENABLED are out of the prover's reach. Every invariant and every action
property of the passing runs is a theorem.

## 6. Not modelled, and the plan

Not modelled for good: manifest builders, templates, labels, process start, charts, tools and tests; they
keep no state and make no choice that depends on order.

`updateDynamicParameters` over nodes is modelled by what the nodes report as a set; the choice of required streams
(`GetStreams`, `ManageRequiredStreams`) is a function of the specification that `GraylogContent` takes as given; the
HTTP client of `CreateConnector`, service monitors and owner references are left out.

Left to do: the choice of required streams as a function of the specification, so that the set of streams may change
between runs of `GraylogContent`; and the watches that `SecretEventWatcher` leaves behind, for which the code states no
promise to check.
