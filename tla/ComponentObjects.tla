-------------------------- MODULE ComponentObjects --------------------------
(***************************************************************************)
(* What the runs of the component reconcilers do to the Kubernetes objects *)
(* of their components, object by object and over many cycles: credentials *)
(* read from Secrets, configuration Secrets, workloads, Services and what  *)
(* uninstalling deletes.  Every read is answered by an informer cache that *)
(* may lag behind the API server; people edit the custom resource, rotate  *)
(* credentials and label objects at any moment; any call may fail and the  *)
(* operator may die between two of them.                                   *)
(*                                                                         *)
(* The conditions of the status are the subject of ReconcileCycle, the     *)
(* credentials and the content of Graylog have modules of their own.       *)
(***************************************************************************)
EXTENDS LoggingService, Integers, Sequences, FiniteSets

CONSTANTS
    Groups,        \* which components' objects are looked at together
    UserSpecs,     \* the specifications a user may write
    Secrets,       \* names of credential Secrets
    Values,        \* what the key of a credential Secret may hold
    Reports,       \* what listing the nodes may answer: sets of runtimes
    Disturbances,  \* which kinds of events may come from outside (below)
    MaxEvents      \* bound: how many of them, of all kinds together

\* The fields of an Auth block in the order resolveAuthValues reads them.
Fields == <<"token", "user", "password">>

\* The components whose configuration holds credentials.
Agents == {"Fluentd", "Fluentbit", "HAFluent"}

NoSecret  == "no secret"     \* a nil selector
Missing   == "missing"       \* no Secret, no such key, or an empty value
NoValue   == "no value"
NoRuntime == "no runtime"    \* the empty string
DefaultContainerRuntimeType == "containerd"

\* A specification: its blocks, which Secret each credential of an agent's
\* enabled output comes from, containerRuntimeType, whether the Graylog output
\* of the aggregator has the host and port it needs, and the rest of it.
Auth == [Agents -> [{"token", "user", "password"} -> Secrets \cup {NoSecret}]]

ASSUME ConstantsAssumption ==
    /\ Groups # {} /\ \A g \in Groups : g # {} /\ g \subseteq Components
    /\ UserSpecs # {}
    /\ \A s \in UserSpecs : /\ s.parts \in LoggingServiceSpec
                            /\ s.auth \in Auth
                            /\ s.complete \in BOOLEAN
    /\ NoSecret \notin Secrets
    /\ Values # {}
    /\ Missing \notin Values /\ NoValue \notin Values
    /\ Disturbances \subseteq {"edit", "rotation", "touch", "fault", "crash", "lag"}
    /\ MaxEvents \in Nat

VARIABLES
    managed,               \* the group of this behaviour
    spec, specCache,       \* the custom resource and its cached copy
    behind,                \* the cached copy has an older generation
    secrets, secretCache,  \* the credential Secrets and their cached copies
    objs, cached,          \* the objects of the components, and cached copies
    fresh,                 \* per object: the cached copy has the current version
    queued, timer,         \* a request waits; a delayed request is pending
    memory,                \* DynamicParameters.ContainerRuntimeType
    pc, at, step,          \* the worker: phase, component, position in its plan
    local,                 \* the object of the cycle
    creds,                 \* the credentials resolved so far
    pending, success,      \* pendingComponents, isDeployServiceSuccess
    outcome,               \* how the last finished cycle ended
    left,                  \* objects a run went past without doing its work (Leaves)
    missed,                \* an event of a referenced Secret led to no request
    events                 \* how many disturbances there were

world    == <<managed, spec, secrets>>
copies   == <<specCache, behind, secretCache>>
objects  == <<objs, cached, fresh>>
requests == <<queued, timer, missed>>
worker   == <<pc, at, step, local, creds, pending, success, outcome, memory, left>>
vars     == <<world, copies, objects, requests, worker, events>>

\* Something happens from outside: the user edits the resource, somebody changes a
\* credential or labels an object, a call fails or a wait expires, the operator dies,
\* the caches are late.
Happens(kind) ==
    /\ kind \in Disturbances
    /\ events < MaxEvents
    /\ events' = events + 1
-----------------------------------------------------------------------------
(***************************************************************************)
(* The objects of a component, in the order its Run and its uninstall      *)
(* handle them.  "token", "user" and "password" are the reads of the       *)
(* output credentials.  Others are calls that write none of these objects: *)
(* "started" is the wait for a StatefulSet, "credentials" setCredentials   *)
(* and CreateConnector, "content" configureGraylog and watchSecret.        *)
(***************************************************************************)
Reads == {"token", "user", "password"}
Others == {"started", "credentials", "content"}
Workloads == {"daemonset", "statefulset", "deployment"}

\* What an older release or the chart left and the operator only deletes.
OnlyDeleted == {"legacy", "oldDeployment", "upgradeJobs", "graylogClaim", "mongoClaim"}

\* handleConfigSecret and handleAggregatorConfigSecret: resolve the credentials,
\* write the configuration, delete the ConfigMap that held it before.
HandleConfigSecret == Fields \o <<"config", "legacy">>

FluentdRun   == HandleConfigSecret \o <<"daemonset", "service">>
FluentbitRun == HandleConfigSecret \o <<"daemonset", "service">>
HAFluentRun  == HandleConfigSecret \o <<"statefulset", "started", "aggregatorService",
                                        "configMap", "daemonset", "service">>
EventsReaderRun == <<"deployment", "service">>
GraylogRun == <<"credentials", "serviceAccount", "graylogConf", "oldDeployment",
                "upgradeJobs", "statefulset", "started", "service", "content">>

\* deleteConfigSecret of FluentD deletes the old ConfigMap too, and so does uninstall.
FluentdUninstall      == <<"daemonset", "config", "legacy", "legacy", "service">>
FluentbitUninstall    == <<"daemonset", "config", "legacy", "service">>
\* Defective variant: the configuration goes before the workload that mounts it.
HAFluentUninstallConfigFirst ==
    <<"config", "daemonset", "configMap", "service", "statefulset", "legacy",
      "aggregatorService">>
\* Defective variant: the old ConfigMap stays.
HAFluentUninstallKeepsLegacy ==
    <<"daemonset", "configMap", "service", "statefulset", "config", "aggregatorService">>
HAFluentUninstall     == <<"daemonset", "configMap", "service", "statefulset", "config",
                           "legacy", "aggregatorService">>
EventsReaderUninstall == <<"deployment", "service", "serviceAccount">>
GraylogUninstall      == <<"graylogClaim", "mongoClaim", "statefulset", "service",
                           "graylogConf", "serviceAccount", "upgradeJobs">>

Install(c) ==
    CASE c = "Fluentd"      -> FluentdRun
      [] c = "Fluentbit"    -> FluentbitRun
      [] c = "HAFluent"     -> HAFluentRun
      [] c = "EventsReader" -> EventsReaderRun
      [] c = "Graylog"      -> GraylogRun

Uninstall(c) ==
    CASE c = "Fluentd"      -> FluentdUninstall
      [] c = "Fluentbit"    -> FluentbitUninstall
      [] c = "HAFluent"     -> HAFluentUninstall
      [] c = "EventsReader" -> EventsReaderUninstall
      [] c = "Graylog"      -> GraylogUninstall

Elements(s) == {s[i] : i \in 1..Len(s)}

Kinds(c) == (Elements(Install(c)) \cup Elements(Uninstall(c))) \ (Reads \cup Others)

Objects == UNION {{c} \X Kinds(c) : c \in managed}

\* The managed components in the order the controller runs them.
IfManaged(c) == IF c \in managed THEN <<c>> ELSE <<>>

Runs == IfManaged("Graylog") \o IfManaged("Fluentd") \o IfManaged("Fluentbit")
           \o IfManaged("HAFluent") \o IfManaged("EventsReader")

\* The workload the end of the cycle waits for; Graylog waits for its own.
Awaited(c) == <<c, IF c = "EventsReader" THEN "deployment" ELSE "daemonset">>

\* What an object is rendered from: the specification, the runtime, credentials.
Rendering(v, r, cs) == [variant |-> v, runtime |-> r, creds |-> cs]
Older == Rendering("older", NoRuntime, <<>>)

\* Only the agents' configuration and DaemonSets depend on the container runtime,
\* and only the configuration Secrets carry credentials.
DependsOnRuntime(c, k) == c \in Agents /\ k \in {"config", "configMap", "daemonset"}
CarriesCredentials(k)  == k = "config"

\* The manifest of one object.
Manifest(c, k, v, r, cs) ==
    Rendering(v, IF DependsOnRuntime(c, k) THEN r ELSE NoRuntime,
              IF CarriesCredentials(k) THEN cs ELSE <<>>)

NoObject == [exists |-> FALSE, from |-> Older, foreign |-> FALSE, rollout |-> "done"]

\* How far the pods of a workload are, as its status shows it.
\*   new      no pod counted yet       stale  the counts of the template before
\*   rolling  some pod is not ready    half   all are ready, some of them old
Rollouts == {"new", "stale", "rolling", "half", "last", "done"}
-----------------------------------------------------------------------------
(***************************************************************************)
(* Calls of the API.  Each returns the object afterwards and whether the   *)
(* handler goes on without an error.                                       *)
(***************************************************************************)
Ok(obj)  == [ok |-> TRUE, obj |-> obj]
Error(o) == [ok |-> FALSE, obj |-> objs[o]]

Created(o, m) ==
    [exists |-> TRUE, from |-> m, foreign |-> FALSE,
     rollout |-> IF o[2] \in Workloads THEN "new" ELSE "done"]

\* The mutate functions: what the operator owns is replaced.  Workloads keep the
\* labels and pod annotations of others, and their pods are replaced when the
\* template changes; of Services and service accounts the labels are replaced.
MutatedWorkload(existing, m) ==
    [existing EXCEPT !.from = m, !.rollout = IF existing.from # m THEN "stale" ELSE @]

MutatedService(existing, m) == [existing EXCEPT !.from = m, !.foreign = FALSE]

Mutated(existing, k, m) ==
    IF k \in Workloads THEN MutatedWorkload(existing, m) ELSE MutatedService(existing, m)

\* Defective variant: the update carries no version and overwrites what others
\* have written since the copy was read.
createOrUpdateUnversioned(o, m) ==
    CASE ~objs[o].exists -> Ok(Created(o, m))
      [] objs[o].exists /\ cached[o].exists -> Ok(Mutated(cached[o], o[2], m))
      [] OTHER -> Error(o)

\* Create; if it exists, read the copy in the cache, change it and send it back
\* with its version.
createOrUpdate(o, m) ==
    CASE ~objs[o].exists -> Ok(Created(o, m))
      [] objs[o].exists /\ cached[o].exists /\ fresh[o] -> Ok(Mutated(cached[o], o[2], m))
      [] OTHER -> Error(o)

\* EqualConfigSecret and Equal: same data and same labels.
Equal(existing, m) == existing.from = m /\ ~existing.foreign

\* The object is left alone when the copy in the cache equals it.
CreateOrUpdateConfigSecret(o, m) ==
    CASE ~objs[o].exists -> Ok(Created(o, m))
      [] objs[o].exists /\ cached[o].exists /\ Equal(cached[o], m) -> Ok(objs[o])
      [] objs[o].exists /\ cached[o].exists /\ ~Equal(cached[o], m) /\ fresh[o] ->
            Ok(Mutated(cached[o], o[2], m))
      [] OTHER -> Error(o)

\* updateConfigMap of the forwarder: the same, with an update that carries no
\* version.
updateConfigMap(o, m) ==
    CASE ~objs[o].exists -> Ok(Created(o, m))
      [] objs[o].exists /\ cached[o].exists /\ Equal(cached[o], m) -> Ok(objs[o])
      [] objs[o].exists /\ cached[o].exists /\ ~Equal(cached[o], m) ->
            Ok(Mutated(objs[o], o[2], m))
      [] OTHER -> Error(o)

\* handleConfigMap of Graylog always sends its own manifest.
handleConfigMap(o, m) ==
    IF objs[o].exists THEN Ok(Mutated(objs[o], o[2], m)) ELSE Ok(Created(o, m))

\* Read, and delete what was found.
deleteIfExists(o) ==
    CASE ~cached[o].exists -> Ok(objs[o])
      [] cached[o].exists /\ objs[o].exists -> Ok(NoObject)
      [] OTHER -> Error(o)

\* The availability checks compare counts of the cached status and do not look at
\* the generation these were observed for.  A DaemonSet nobody has counted yet has zero
\* wanted and zero available pods; a StatefulSet is asked for ready pods, not for
\* updated ones.
IsDaemonSetAvailable(o)              == cached[o].rollout \in {"new", "stale", "done"}
IsStatefulsetReplicasSynchronised(o) == cached[o].rollout \in {"stale", "half", "done"}
IsDeploymentReplicasSynchronised(o)  == cached[o].rollout \in {"stale", "done"}

IsAvailable(o) ==
    CASE o[2] = "daemonset"   -> IsDaemonSetAvailable(o)
      [] o[2] = "statefulset" -> IsStatefulsetReplicasSynchronised(o)
      [] o[2] = "deployment"  -> IsDeploymentReplicasSynchronised(o)

\* The API server gives a new version to an object that really changes.
Write(o, obj) ==
    /\ objs' = [objs EXCEPT ![o] = obj]
    /\ fresh' = [fresh EXCEPT ![o] = @ /\ obj = objs[o]]
    /\ UNCHANGED cached
-----------------------------------------------------------------------------
\* Between two cycles there is no object of the cycle.
NoLocal == [parts |-> NoSpec, auth |-> [c \in Agents |-> [f \in Reads |-> NoSecret]],
            runtime |-> NoRuntime, complete |-> FALSE, variant |-> "none"]

Idle ==
    /\ at = 1 /\ step = 1
    /\ creds = <<>>
    /\ pending = {}
    /\ success = TRUE

\* Either nothing is there yet, or an older release, which kept configurations in
\* ConfigMaps, has installed what is wanted.
Init ==
    /\ managed \in Groups
    /\ spec \in UserSpecs
    /\ specCache = spec
    /\ behind = FALSE
    /\ \E v \in Values \cup {Missing} : secrets = [n \in Secrets |-> v]
    /\ secretCache = secrets
    /\ \E upgrade \in BOOLEAN :
          objs = [o \in Objects |->
                    IF upgrade /\ Installs(spec.parts, o[1]) /\ o[2] # "config"
                    THEN [NoObject EXCEPT !.exists = TRUE] ELSE NoObject]
    /\ cached = objs
    /\ fresh = [o \in Objects |-> TRUE]
    /\ queued = TRUE /\ timer = FALSE /\ missed = FALSE
    /\ memory = NoRuntime
    /\ pc = "idle"
    /\ local = NoLocal
    /\ Idle
    /\ outcome = "none"
    /\ left = {}
    /\ events = 0

(***************************************************************************)
(* The worker: one cycle over the components.                              *)
(***************************************************************************)
\* The cached read of the resource.  Nothing makes a cycle wait for the caches of the
\* other objects: they have caught up with the cycles before, or they are late.
Begin ==
    /\ pc = "idle"
    /\ queued
    /\ \/ /\ cached' = objs
          /\ fresh' = [o \in Objects |-> TRUE]
          /\ UNCHANGED <<objs, events>>
       \/ /\ Happens("lag")
          /\ UNCHANGED objects
    /\ queued' = FALSE
    /\ missed' = FALSE
    /\ local' = specCache
    /\ pc' = "parameters"
    /\ UNCHANGED <<world, copies, timer, at, step, creds, pending, success,
                   outcome, memory, left>>

\* What a status patch leaves in the object of the cycle: the server's answer
\* decoded into it.  Empty strings and nil selectors are not sent.
Decoded ==
    [parts    |-> Decode(local.parts, spec.parts),
     auth     |-> [c \in Agents |-> [f \in Reads |->
                     IF spec.auth[c][f] = NoSecret THEN local.auth[c][f]
                                                   ELSE spec.auth[c][f]]],
     runtime  |-> IF spec.runtime = NoRuntime THEN local.runtime ELSE spec.runtime,
     complete |-> local.complete \/ spec.complete,
     variant  |-> spec.variant]

\* A status is written, or not (it is Failed already, or the patch fails).
AfterPatch == {local, Decoded}

NoNodes == {"no nodes"}

\* The runtime the nodes report: one and the same on all that report one.
Discovered(report) ==
    IF report = NoNodes \/ Cardinality(report) > 1 THEN DefaultContainerRuntimeType
    ELSE IF report = {} THEN NoRuntime
    ELSE CHOOSE r \in report : TRUE

\* Defective variant: a runtime that is known is not overridden by the
\* specification.
updateDynamicParametersOnce ==
    /\ pc = "parameters"
    /\ local' \in AfterPatch
    /\ \/ /\ local'.runtime # NoRuntime /\ memory = NoRuntime
          /\ memory' = local'.runtime
          /\ UNCHANGED events
       \/ /\ memory # NoRuntime
          /\ UNCHANGED <<memory, events>>
       \/ /\ local'.runtime = NoRuntime /\ memory = NoRuntime
          /\ \E report \in Reports : memory' = Discovered(report)
          /\ UNCHANGED events
    /\ pc' = "begin"
    /\ UNCHANGED <<world, copies, objects, requests, at, step, creds, pending, success,
                   outcome, left>>

\* updateDynamicParameters, after the status writes at the start of the cycle:
\* the specification decides; else what is in memory; else the nodes are listed,
\* which may fail.  What is found is also written into the object of the cycle, where
\* every handler replaces it by what is in memory before it renders anything.
updateDynamicParameters ==
    /\ pc = "parameters"
    /\ local' \in AfterPatch
    /\ \/ /\ local'.runtime # NoRuntime
          /\ memory' = local'.runtime
          /\ UNCHANGED events
       \/ /\ local'.runtime = NoRuntime /\ memory # NoRuntime
          /\ UNCHANGED <<memory, events>>
       \/ /\ local'.runtime = NoRuntime /\ memory = NoRuntime
          /\ \E report \in Reports : memory' = Discovered(report)
          /\ UNCHANGED events
       \/ /\ local'.runtime = NoRuntime /\ memory = NoRuntime
          /\ Happens("fault")
          /\ memory' = DefaultContainerRuntimeType
    /\ pc' = "begin"
    /\ UNCHANGED <<world, copies, objects, requests, at, step, creds, pending, success,
                   outcome, left>>

Component == Runs[at]
Plan == IF pc = "install" THEN Install(Component) ELSE Uninstall(Component)
Entry == Plan[step]
Object == <<Component, Entry>>

NextRun ==
    /\ step' = 1
    /\ creds' = <<>>
    /\ IF at < Len(Runs) THEN pc' = "begin" /\ at' = at + 1 ELSE pc' = "wait" /\ at' = 1

\* Defective variant: the end of the run is missed by one.
ContinueTooFar(cs) ==
    /\ IF step <= Len(Plan)
       THEN step' = step + 1 /\ creds' = cs /\ UNCHANGED <<pc, at, pending>>
       ELSE /\ NextRun
            /\ pending' = IF pc = "install" /\ Component # "Graylog"
                          THEN pending \cup {Component} ELSE pending
    /\ UNCHANGED success

\* The next call of the run.  After the last one the component is pending, except
\* for Graylog and for a component that has been uninstalled.
Continue(cs) ==
    /\ IF step < Len(Plan)
       THEN step' = step + 1 /\ creds' = cs /\ UNCHANGED <<pc, at, pending>>
       ELSE /\ NextRun
            /\ pending' = IF pc = "install" /\ Component # "Graylog"
                          THEN pending \cup {Component} ELSE pending
    /\ UNCHANGED success

\* A failed deletion in uninstall.
SkipOne ==
    IF Component = "Fluentd" /\ Entry = "config"
    THEN step' = step + 2 /\ UNCHANGED <<pc, at, creds, pending, success>>
    ELSE Continue(creds)

\* Run returns an error.
Abort == NextRun /\ success' = FALSE /\ UNCHANGED pending

\* The variables no call of a run changes.
beyond == <<world, copies, requests, local, outcome, memory>>

\* The head of Run: a status write, then the decision.  The aggregator refuses a
\* Graylog output without host or port.
RunBegin ==
    /\ pc = "begin"
    /\ local' \in AfterPatch
    /\ IF Installs(local'.parts, Component)
       THEN IF Component = "HAFluent" /\ ~local'.complete
            THEN Abort
            ELSE pc' = "install" /\ UNCHANGED <<at, step, creds, pending, success>>
       ELSE pc' = "uninstall" /\ UNCHANGED <<at, step, creds, pending, success>>
    /\ UNCHANGED <<world, copies, objects, requests, outcome, memory, left, events>>

\* A value that can be rendered: not empty, one line, and for Fluent Bit without
\* the start of a variable reference.
Renders(c, value) ==
    /\ value \notin {Missing, "line break"}
    /\ c # "Fluentd" => value # "variable"

\* resolveAuthValues, one read of one field.
ResolveSecretKeyValue ==
    /\ pc = "install"
    /\ Entry \in Reads
    /\ LET n == local.auth[Component][Entry] IN
          \/ n = NoSecret /\ Continue(Append(creds, NoValue))
          \/ /\ n # NoSecret
             /\ Renders(Component, secretCache[n])
             /\ Continue(Append(creds, secretCache[n]))
          \/ /\ n # NoSecret
             /\ ~Renders(Component, secretCache[n])
             /\ Abort
    /\ UNCHANGED <<objects, left, events, beyond>>

Desired == Manifest(Component, Entry, local.variant, memory, creds)

\* The handler of the object at hand.
Handle ==
    CASE Entry \in OnlyDeleted -> deleteIfExists(Object)
      [] Entry = "config"      -> CreateOrUpdateConfigSecret(Object, Desired)
      [] Entry = "configMap"   -> updateConfigMap(Object, Desired)
      [] Entry = "graylogConf" -> handleConfigMap(Object, Desired)
      [] OTHER                 -> createOrUpdate(Object, Desired)

\* The errors of these deletions are only logged, as all errors of uninstall are.
OnlyLogged == Entry \in {"oldDeployment", "upgradeJobs"}

\* What the run is there to make of the object.
Reached(obj) ==
    IF pc = "uninstall" \/ Entry \in OnlyDeleted
    THEN ~obj.exists ELSE obj.exists /\ obj.from = Desired

\* The run goes on without it: after an error that is only logged, or because the
\* outdated copy in the cache says that there is nothing to do.
Leaves(obj, failed) ==
    left' = IF ~Reached(obj) /\ (failed \/ ~fresh[Object])
            THEN left \cup {Object} ELSE left \ {Object}

HandleObject ==
    /\ pc = "install"
    /\ Entry \notin Reads \cup Others
    /\ \/ /\ Handle.ok
          /\ Write(Object, Handle.obj)
          /\ Leaves(Handle.obj, FALSE)
          /\ Continue(creds)
       \/ /\ ~Handle.ok
          /\ UNCHANGED objects
          /\ IF OnlyLogged THEN Continue(creds) /\ Leaves(Handle.obj, TRUE)
                           ELSE Abort /\ UNCHANGED left
    /\ UNCHANGED <<events, beyond>>

\* The call fails, before or after the server has carried it out.  (DeletePods, which
\* follows the deletion of the old Deployment, fails like the latter.)
HandleFails ==
    /\ pc = "install"
    /\ Entry \notin Reads \cup Others
    /\ Happens("fault")
    /\ \E obj \in {objs[Object], Handle.obj} :
          /\ Write(Object, obj)
          /\ IF OnlyLogged THEN Continue(creds) /\ Leaves(obj, TRUE)
             ELSE Abort /\ UNCHANGED left
    /\ UNCHANGED beyond

\* WaitForStatefulsetUpdated: the reads repeat until the counts agree.
Started ==
    /\ pc = "install"
    /\ Entry = "started"
    /\ LET o == <<Component, "statefulset">> IN
          \/ cached[o].exists /\ IsAvailable(o) /\ Continue(creds) /\ UNCHANGED events
          \/ ~cached[o].exists /\ Abort /\ UNCHANGED events
          \/ Happens("fault") /\ Abort
    /\ UNCHANGED <<objects, left, beyond>>

\* The calls of Graylog's Run before and after its objects.  What they do is the
\* subject of GraylogCredentials and GraylogContent; an error ends the run.
GraylogCall ==
    /\ pc = "install"
    /\ Entry \in {"credentials", "content"}
    /\ \/ Continue(creds) /\ UNCHANGED events
       \/ Happens("fault") /\ Abort
    /\ UNCHANGED <<objects, left, beyond>>

\* One deletion of uninstall.  deleteConfigSecret of FluentD returns at its first
\* error; the other deletions are tried whatever happens to those before.
UninstallObject ==
    /\ pc = "uninstall"
    /\ Write(Object, deleteIfExists(Object).obj)
    /\ Leaves(deleteIfExists(Object).obj, ~deleteIfExists(Object).ok)
    /\ IF deleteIfExists(Object).ok THEN Continue(creds) ELSE SkipOne
    /\ UNCHANGED <<events, beyond>>

UninstallFails ==
    /\ pc = "uninstall"
    /\ Happens("fault")
    /\ \E obj \in {objs[Object], deleteIfExists(Object).obj} :
          Write(Object, obj) /\ Leaves(obj, TRUE)
    /\ SkipOne
    /\ UNCHANGED beyond

(***************************************************************************)
(* The wait at the end of the cycle, and its result.                       *)
(***************************************************************************)
WaitAvailable ==
    /\ pc = "wait"
    /\ \E c \in pending : /\ cached[Awaited(c)].exists
                          /\ IsAvailable(Awaited(c))
                          /\ pending' = pending \ {c}
    /\ UNCHANGED <<world, copies, objects, requests, pc, at, step, local, creds, success,
                   outcome, memory, left, events>>

\* A workload that is not in the cache is an error; one that does not become
\* available in time ends the wait.
WaitFails ==
    /\ pc = "wait"
    /\ pending # {}
    /\ \/ (\E c \in pending : ~cached[Awaited(c)].exists) /\ UNCHANGED events
       \/ Happens("fault")
    /\ pending' = {}
    /\ success' = FALSE
    /\ UNCHANGED <<world, copies, objects, requests, pc, at, step, local, creds, outcome,
                   memory, left>>

\* Defective variant: a failed cycle asks for no other one.
ReturnWithoutRequeue ==
    /\ pc = "wait"
    /\ pending = {}
    /\ pc' = "idle"
    /\ success' = TRUE
    /\ local' = NoLocal
    /\ outcome' = IF success THEN "success" ELSE "failed"
    /\ UNCHANGED <<world, copies, objects, requests, at, step, creds, pending, memory, left,
                   events>>

Return ==
    /\ pc = "wait"
    /\ pending = {}
    /\ pc' = "idle"
    /\ success' = TRUE
    /\ local' = NoLocal
    /\ outcome' = IF success THEN "success" ELSE "failed"
    /\ timer' = (timer \/ ~success)
    /\ UNCHANGED <<world, copies, objects, queued, missed, at, step, creds, pending,
                   memory, left, events>>
-----------------------------------------------------------------------------
(***************************************************************************)
(* The environment.  What others do to an object commutes with the steps   *)
(* of the worker that do not look at that object, and they leave the       *)
(* worker's next look to see it or not.  These steps are therefore taken   *)
(* only when the worker is about to look.  A deletion looks at nothing but *)
(* whether the object is there.                                            *)
(***************************************************************************)
LooksInto(o) ==
    \/ /\ pc = "install"
       /\ \/ o = Object
          \/ Entry = "started" /\ o = <<Component, "statefulset">>
    \/ pc = "wait" /\ \E c \in pending : o = Awaited(c)

LooksAt(o) == LooksInto(o) \/ (pc = "uninstall" /\ o = Object)

LooksAtSpec == pc \in {"idle", "parameters", "begin"}

LooksAtSecrets == pc = "idle" \/ (pc = "install" /\ Entry \in Reads)

EditSpec ==
    /\ LooksAtSpec
    /\ Happens("edit")
    /\ spec' \in UserSpecs \ {spec}
    /\ behind' = TRUE
    /\ UNCHANGED <<managed, secrets, specCache, secretCache, objects, requests, worker>>

\* The watch delivers the resource; every edit has a generation of its own.
SpecSync ==
    /\ LooksAtSecrets
    /\ behind
    /\ behind' = FALSE
    /\ specCache' = spec
    /\ queued' = TRUE
    /\ UNCHANGED <<world, secretCache, objects, timer, missed, worker, events>>

\* A credential Secret is created, changed or deleted.
Rotate ==
    /\ LooksAtSecrets
    /\ Happens("rotation")
    /\ \E n \in Secrets : \E v \in (Values \cup {Missing}) \ {secrets[n]} :
          secrets' = [secrets EXCEPT ![n] = v]
    /\ UNCHANGED <<managed, spec, copies, objects, requests, worker>>

\* Defective variant: the password is not looked at.
AuthReferencesToken(auth, n) == auth["token"] = n \/ auth["user"] = n

authReferencesSecret(auth, n) == \E f \in Reads : auth[f] = n

fluentbitReferencesSecret(s, n) ==
    /\ s.parts["Fluentbit"] # "absent"
    /\ \/ authReferencesSecret(s.auth["Fluentbit"], n)
       \/ s.parts["Aggregator"] # "absent" /\ authReferencesSecret(s.auth["HAFluent"], n)

fluentdReferencesSecret(s, n) ==
    /\ s.parts["Fluentd"] # "absent"
    /\ authReferencesSecret(s.auth["Fluentd"], n)

References(s, n) == fluentbitReferencesSecret(s, n) \/ fluentdReferencesSecret(s, n)

\* The watch delivers a change of a Secret's data: first to the cache, then to
\* mapSecretToLoggingServices, which looks for the resource in the cache and
\* forgets the event when that fails.
SecretSync(n) ==
    /\ LooksAtSecrets
    /\ secretCache[n] # secrets[n]
    /\ secretCache' = [secretCache EXCEPT ![n] = secrets[n]]
    /\ \/ /\ queued' = (queued \/ References(specCache, n))
          /\ UNCHANGED <<missed, events>>
       \/ /\ References(specCache, n)
          /\ Happens("fault")
          /\ missed' = TRUE
          /\ UNCHANGED queued
    /\ UNCHANGED <<world, specCache, behind, objects, timer, worker>>

\* Somebody sets a label or an annotation of his own.
Touch ==
    /\ Happens("touch")
    /\ \E o \in Objects : /\ LooksInto(o)
                          /\ objs[o].exists /\ ~objs[o].foreign
                          /\ Write(o, [objs[o] EXCEPT !.foreign = TRUE])
    /\ UNCHANGED <<world, copies, requests, worker>>

NextRollout(o) ==
    CASE objs[o].rollout \in {"new", "stale"} -> "rolling"
      [] objs[o].rollout = "rolling" -> IF o[2] = "statefulset" THEN "half" ELSE "done"
      [] objs[o].rollout = "half"    -> "last"
      [] objs[o].rollout = "last"    -> "done"

\* The workload controllers of Kubernetes bring the pods to the template, and a
\* StatefulSet one pod after the other (two of them here).
RollOut(o) ==
    /\ LooksInto(o)
    /\ objs[o].exists
    /\ objs[o].rollout # "done"
    /\ Write(o, [objs[o] EXCEPT !.rollout = NextRollout(o)])
    /\ UNCHANGED <<world, copies, requests, worker, events>>

ObjectSync(o) ==
    /\ LooksAt(o)
    /\ ~fresh[o]
    /\ fresh' = [fresh EXCEPT ![o] = TRUE]
    /\ cached' = [cached EXCEPT ![o] = objs[o]]
    /\ UNCHANGED <<world, copies, objs, requests, worker, events>>

TimerFires ==
    /\ timer
    /\ timer' = FALSE
    /\ queued' = TRUE
    /\ UNCHANGED <<world, copies, objects, missed, worker, events>>

\* The operator dies and comes back with new caches and an empty memory.
Restart ==
    /\ Happens("crash")
    /\ specCache' = spec /\ behind' = FALSE
    /\ secretCache' = secrets
    /\ cached' = objs
    /\ fresh' = [o \in Objects |-> TRUE]
    /\ queued' = TRUE /\ timer' = FALSE /\ missed' = FALSE
    /\ memory' = NoRuntime
    /\ pc' = "idle"
    /\ at' = 1 /\ step' = 1 /\ creds' = <<>> /\ pending' = {} /\ success' = TRUE
    /\ outcome' = "none" /\ local' = NoLocal
    /\ UNCHANGED <<world, objs, left>>

Worker ==
    \/ Begin \/ updateDynamicParameters \/ RunBegin \/ ResolveSecretKeyValue
    \/ HandleObject \/ HandleFails \/ Started \/ GraylogCall
    \/ UninstallObject \/ UninstallFails
    \/ WaitAvailable \/ WaitFails \/ Return

Next ==
    \/ Worker
    \/ EditSpec \/ SpecSync \/ Rotate \/ Touch \/ TimerFires \/ Restart
    \/ \E n \in Secrets : SecretSync(n)
    \/ \E o \in Objects : RollOut(o) \/ ObjectSync(o)

Spec == Init /\ [][Next]_vars

\* The worker goroutine, the watches, timers and the controllers of Kubernetes
\* keep running.  A watch delivers at any time, here whenever the worker is about to
\* look, hence the strong fairness.  Nothing is assumed of people or of faults.
FairSpec ==
    /\ Spec
    /\ WF_vars(Worker)
    /\ WF_vars(TimerFires)
    /\ SF_vars(SpecSync)
    /\ SF_vars(\E n \in Secrets : SecretSync(n))
    /\ WF_vars(\E o \in Objects : RollOut(o))
    /\ WF_vars(\E o \in Objects : ObjectSync(o))
-----------------------------------------------------------------------------
(***************************************************************************)
(* Properties.                                                             *)
(***************************************************************************)
KubeObject == [exists : BOOLEAN,
               from : [variant : {"older"} \cup {s.variant : s \in UserSpecs},
                       runtime : {NoRuntime, DefaultContainerRuntimeType}
                                    \cup {s.runtime : s \in UserSpecs} \cup UNION Reports,
                       creds : {<<>>} \cup [1..3 -> Values \cup {NoValue}]],
               foreign : BOOLEAN, rollout : Rollouts]

\* The type invariant.
TypeOK ==
    /\ spec \in UserSpecs /\ specCache \in UserSpecs
    /\ secrets \in [Secrets -> Values \cup {Missing}]
    /\ secretCache \in [Secrets -> Values \cup {Missing}]
    /\ \A o \in Objects : objs[o] \in KubeObject /\ cached[o] \in KubeObject
    /\ \A o \in Objects : fresh[o] => cached[o] = objs[o]
    /\ {queued, timer, missed, success, behind} \subseteq BOOLEAN
    /\ pc \in {"idle", "parameters", "begin", "install", "uninstall", "wait"}
    /\ at \in 1..Len(Runs)
    /\ pc \in {"install", "uninstall"} => step \in 1..Len(Plan)
    /\ pending \subseteq managed
    /\ left \subseteq Objects
    /\ outcome \in {"none", "success", "failed"}

\* Nothing is left to do: no request, no timer, no event on its way.
Quiet ==
    /\ pc = "idle" /\ ~queued /\ ~timer /\ ~missed
    /\ ~behind /\ secretCache = secrets

\* The credentials an agent should be using now.
CurrentCreds(c) ==
    [i \in 1..3 |-> LET n == spec.auth[c][Fields[i]]
                    IN  IF n = NoSecret THEN NoValue ELSE secrets[n]]

Wanted(o) ==
    Manifest(o[1], o[2], spec.variant, memory,
             IF o[1] \in Agents THEN CurrentCreds(o[1]) ELSE <<>>)

\* The object is what its component needs, rendered from the specification and the
\* credentials of now, or it is gone, if others have replaced it.
IsAsWanted(o) ==
    IF o[2] \in OnlyDeleted THEN ~objs[o].exists
    ELSE objs[o].exists /\ objs[o].from = Wanted(o)

\* What the run of a component handles.
ObjectsOf(c) == {c} \X (Elements(Install(c)) \ (Reads \cup Others))

Rendered(c) == \A o \in ObjectsOf(c) : IsAsWanted(o) \/ o \in left

\* "The operator watches these credential Secrets and regenerates the
\* configuration after their data changes" (installation-parameters.md): when the
\* operator rests after a successful cycle, every object of every installed
\* component is rendered from the current specification and credentials,
\* although these are read one by one from lagging caches while they change, and
\* although a change reaches the operator through events of two informers in any
\* order.  Left out is what a run took for done because of an outdated copy.
RenderedWhenQuiet ==
    Quiet /\ outcome = "success"
        => \A c \in managed : Installs(spec.parts, c) => Rendered(c)

\* Whatever the specification, the nodes and a new process say about the
\* container runtime, the agents agree on one, and on the one that is set in the
\* specification if there is one (updateDynamicParameters).  What an outdated copy hid
\* from a run is left out.
RuntimeAgreed ==
    Quiet /\ outcome = "success"
        => \A o, p \in {x \in Objects : /\ x[1] \in Agents /\ Installs(spec.parts, x[1])
                                        /\ x[2] \in {"config", "configMap", "daemonset"}
                                        /\ x \notin left} :
              /\ objs[o].from.runtime = objs[p].from.runtime
              /\ spec.runtime # NoRuntime => objs[o].from.runtime = spec.runtime

\* Uninstalling leaves nothing behind, neither from an older release nor from a run
\* that failed or crashed half way, other than what the server refused to delete
\* (those errors are only logged), what the cache did not show yet, and the
\* Deployment of an old Graylog, which only the installation of the new one deletes.
NothingLeftBehind ==
    Quiet /\ outcome = "success"
        => \A o \in Objects \ {<<"Graylog", "oldDeployment">>} :
              ~Installs(spec.parts, o[1]) => ~objs[o].exists \/ o \in left

\* What the pods of an agent's workload mount.
ConfigOf(o) ==
    <<o[1], IF o = <<"HAFluent", "daemonset">> THEN "configMap" ELSE "config">>

\* An agent that this release has installed always finds its configuration: it is
\* written before and deleted after the workload, across crashes and failing
\* calls; a workload that could not be deleted is the exception.
WorkloadHasConfig ==
    \A o \in Objects :
        /\ o[1] \in Agents /\ o[2] \in Workloads
        /\ objs[o].exists /\ objs[o].from # Older
        => objs[ConfigOf(o)].exists \/ o \in left

\* "Labels on the object are merged into the existing labels", "Pod template
\* annotations ... are kept" (reconcilers.go): no update of a workload loses what
\* somebody else has set, even if it was set after the operator read its copy.
ForeignIsKept ==
    [][\A o \in Objects :
          o[2] \in Workloads /\ objs[o].foreign /\ objs'[o].exists => objs'[o].foreign]_vars

\* The credentials the specification refers to are there and can be rendered.
Resolvable ==
    \A c \in Agents \cap managed : Installs(spec.parts, c) =>
        /\ \A i \in 1..3 : CurrentCreds(c)[i] # NoValue => Renders(c, CurrentCreds(c)[i])
        /\ c = "HAFluent" => spec.complete

\* Once people and faults leave it alone, the operator brings all components to
\* the specification and the credentials, however often it had to start again.
EventuallyRendered ==
    <>[](Resolvable /\ ~missed =>
            \A c \in managed : Installs(spec.parts, c) => Rendered(c))
=============================================================================
