------------------------- MODULE GraylogCredentials -------------------------
(***************************************************************************)
(* The credentials of Graylog's root user.  They live in a Secret that     *)
(* people edit, and the operator keeps two things derived from it: the     *)
(* hash of the password in the same Secret and the file graylog.conf in    *)
(* the ConfigMap graylog-service.  Two kinds of actors write them: the     *)
(* reconcile of Graylog, which reads the Secret through the informer       *)
(* cache, and the goroutines of SecretEventWatcher.Watch, one more of      *)
(* which is started by every successful run and none of which is stopped.  *)
(*                                                                         *)
(* The Secret has the label graylog=secret, and user and password are not  *)
(* empty.  A hash is represented by the password it is the hash of.        *)
(***************************************************************************)
EXTENDS Naturals, Sequences, FiniteSets

CONSTANTS
    Users, Passwords,
    Watchers,       \* the goroutines there may be at one time
    MaxChanges,     \* bound: edits of the Secret
    MaxRequests,    \* bound: edits of the custom resource, each runs a cycle
    MaxFaults       \* bound: failed calls, closed watches, foreign events, crashes

\* There are goroutines enough for every cycle that may succeed.
ASSUME CredentialsAssumption ==
    /\ Users # {} /\ Passwords # {}
    /\ MaxChanges \in Nat /\ MaxRequests \in Nat /\ MaxFaults \in Nat
    /\ IsFiniteSet(Watchers) /\ Cardinality(Watchers) > MaxRequests + MaxFaults

VARIABLES
    secret,     \* the Secret in the API server; rv is its resourceVersion
    cached,     \* the copy in the informer cache
    cm,         \* the ConfigMap: what graylog.conf says
    requested,  \* the work queue holds a request
    run,        \* where GraylogReconciler.Run is
    held,       \* cr.Spec.Graylog.User and Password of the cycle
    watch,      \* the watcher goroutines
    changes, requests, faults

vars == <<secret, cached, cm, requested, run, held, watch, changes, requests, faults>>

Credentials(o) == [user |-> o.user, password |-> o.password]

SomeCredentials == [user : Users, password : Passwords]

\* The watcher's pc: it has no goroutine, the goroutine has not asked for a
\* watch yet, it blocks forever on a nil channel, it waits for an event, or it
\* is between two calls of updateUser, updatePassword and
\* syncRootPasswordSHA2SecretKey.
WatcherPCs == {"none", "starting", "blocked", "idle", "saveUser", "password",
               "savePassword", "hash", "saveHash"}

RunPCs == {"idle", "credentials", "configMap", "writeConfigMap", "configure"}

\* Its channel is open.
Open(w) == watch[w].pc \notin {"none", "starting", "blocked"}

\* A value for the fields that are not in use.
NoWatcher == [pc |-> "none", cr |-> <<>>, event |-> <<>>, queue |-> <<>>, copy |-> <<>>]

\* The API server sends an event to every open watch.
Notified(kind, s) ==
    [w \in Watchers |->
        IF Open(w)
        THEN [watch[w] EXCEPT !.queue = Append(@, [kind |-> kind, data |-> Credentials(s)])]
        ELSE watch[w]]

\* The goroutine goes on at pc, or with all fields of r.
Goes(w, pc) == watch' = [watch EXCEPT ![w].pc = pc]
Becomes(w, r) == watch' = [watch EXCEPT ![w] = r]

Fault == faults < MaxFaults /\ faults' = faults + 1

\* EnsureSecretRootPasswordSHA2: the Secret with the hash of the password.
EnsureSecretRootPasswordSHA2(s, password) == [s EXCEPT !.sha = password]

\* An Update of the Secret: the API server takes it when nobody has written the
\* Secret since the caller read it.
UpdateAccepted(s) == s.rv = secret.rv

Updated(o) == [o EXCEPT !.rv = @ + 1]
-----------------------------------------------------------------------------
Init ==
    /\ \E c \in SomeCredentials :
          secret = [user |-> c.user, password |-> c.password, sha |-> c.password, rv |-> 1]
    /\ cached = secret
    /\ cm = [exists |-> FALSE, data |-> Credentials(secret), rv |-> 1]
    /\ requested = TRUE
    /\ run = "idle"
    /\ held = Credentials(secret)
    /\ watch = [w \in Watchers |-> NoWatcher]
    /\ changes = 0 /\ requests = 0 /\ faults = 0

(***************************************************************************)
(* GraylogReconciler.Run.                                                  *)
(***************************************************************************)

StartRun ==
    /\ run = "idle"
    /\ requested
    /\ requested' = FALSE
    /\ run' = "credentials"
    /\ UNCHANGED <<secret, cached, cm, held, watch, changes, requests, faults>>

\* setCredentials: take the credentials from the cached Secret and write the
\* hash if it is missing or of another password.  A conflict ends the run.
SetCredentials(next) ==
    LET s == EnsureSecretRootPasswordSHA2(cached, cached.password) IN
    /\ held' = Credentials(cached)
    /\ \/ /\ s = cached
          /\ run' = next
          /\ UNCHANGED <<secret, watch, requested>>
       \/ /\ s # cached
          /\ UpdateAccepted(cached)
          /\ secret' = Updated(s)
          /\ watch' = Notified("modified", s)
          /\ run' = next
          /\ UNCHANGED requested
       \/ /\ s # cached
          /\ ~UpdateAccepted(cached)
          /\ run' = "idle"
          /\ requested' = TRUE
          /\ UNCHANGED <<secret, watch>>
    /\ UNCHANGED <<cached, cm, changes, requests, faults>>

\* Run calls it first, and handleConfigMap again.
RunSetsCredentials == run = "credentials" /\ SetCredentials("configMap")

HandleConfigMap == run = "configMap" /\ SetCredentials("writeConfigMap")

\* The rest of handleConfigMap: create the ConfigMap, or overwrite whatever is
\* there (the new object has no resourceVersion).
WriteConfigMap ==
    /\ run = "writeConfigMap"
    /\ cm' = [exists |-> TRUE, data |-> held, rv |-> cm.rv + 1]
    /\ run' = "configure"
    /\ UNCHANGED <<secret, cached, requested, held, watch, changes, requests, faults>>

\* Defective variant: the goroutine is started without the object of the cycle.
WatchSecretWithoutObject ==
    /\ run = "configure"
    /\ \E w \in Watchers :
          /\ watch[w].pc = "none"
          /\ watch' = [watch EXCEPT ![w].pc = "starting"]
    /\ run' = "idle"
    /\ UNCHANGED <<secret, cached, cm, requested, held, changes, requests, faults>>

\* The StatefulSet starts, Graylog is configured, and watchSecret starts a
\* goroutine with the object of this cycle.  Its error is only logged.
WatchSecret ==
    /\ run = "configure"
    /\ \/ /\ \E w \in Watchers :
                /\ watch[w].pc = "none"
                /\ Becomes(w, [NoWatcher EXCEPT !.pc = "starting", !.cr = held])
          /\ UNCHANGED faults
       \/ Fault /\ UNCHANGED watch
    /\ run' = "idle"
    /\ UNCHANGED <<secret, cached, cm, requested, held, changes, requests>>

\* Any call on the way fails; the cycle fails and is run again.
RunFails ==
    /\ run # "idle"
    /\ Fault
    /\ run' = "idle"
    /\ requested' = TRUE
    /\ UNCHANGED <<secret, cached, cm, held, watch, changes, requests>>

\* The cycle finds Graylog not installed and deletes the ConfigMap.
Uninstall ==
    /\ run = "idle"
    /\ requested
    /\ requested' = FALSE
    /\ cm' = [cm EXCEPT !.exists = FALSE]
    /\ UNCHANGED <<secret, cached, run, held, watch, changes, requests, faults>>

(***************************************************************************)
(* SecretEventWatcher.Watch.  cr is the object of the cycle that started   *)
(* the goroutine, event the event it works on, copy what it read last.     *)
(***************************************************************************)
RunUnchanged == UNCHANGED <<cached, requested, run, held, changes, requests>>

Waits(w) == Becomes(w, [watch[w] EXCEPT !.pc = "idle", !.event = <<>>, !.copy = <<>>])

\* prepareWatchChannel: a watch begins with an Added event for the Secret.  When
\* it fails, the goroutine goes on with a nil channel.
OpenWatch(w) ==
    /\ watch[w].pc = "starting"
    /\ \/ /\ Becomes(w, [watch[w] EXCEPT
                 !.pc = "idle", !.queue = <<[kind |-> "added", data |-> Credentials(secret)]>>])
          /\ UNCHANGED faults
       \/ Fault /\ Goes(w, "blocked")
    /\ RunUnchanged
    /\ UNCHANGED <<secret, cm>>

\* An Added event is ignored, and an event of another Secret ends the loop.
IgnoreEvent(w) ==
    /\ watch[w].pc = "idle"
    /\ watch[w].queue # <<>>
    /\ Head(watch[w].queue).kind # "modified"
    /\ IF Head(watch[w].queue).kind = "other"
       THEN Becomes(w, NoWatcher)
       ELSE Becomes(w, [watch[w] EXCEPT !.queue = Tail(@)])
    /\ RunUnchanged
    /\ UNCHANGED <<secret, cm, faults>>

\* updateUser up to the read of the ConfigMap.  The object in memory takes the
\* new user before anything else is known to work.
UpdateUser(w) ==
    /\ watch[w].pc = "idle"
    /\ watch[w].queue # <<>>
    /\ Head(watch[w].queue).kind = "modified"
    /\ LET e == Head(watch[w].queue).data
           r == [watch[w] EXCEPT !.queue = Tail(@), !.event = e, !.cr.user = e.user]
       IN  IF e.user = watch[w].cr.user
           THEN Becomes(w, [r EXCEPT !.pc = "password"]) /\ UNCHANGED faults
           ELSE \/ /\ Becomes(w, IF cm.exists THEN [r EXCEPT !.pc = "saveUser", !.copy = cm]
                                            ELSE [r EXCEPT !.pc = "password"])
                   /\ UNCHANGED faults
                \/ Fault /\ Becomes(w, [r EXCEPT !.pc = "password"])
    /\ RunUnchanged
    /\ UNCHANGED <<secret, cm>>

\* The Update of the ConfigMap: a conflict is an error, and errors are logged.
ConfigMapAccepted(w) == cm.exists /\ watch[w].copy.rv = cm.rv

SaveUser(w) ==
    /\ watch[w].pc = "saveUser"
    /\ \/ /\ ConfigMapAccepted(w)
          /\ cm' = Updated([watch[w].copy EXCEPT !.data.user = watch[w].event.user])
          /\ UNCHANGED faults
       \/ ~ConfigMapAccepted(w) /\ UNCHANGED <<cm, faults>>
       \/ Fault /\ UNCHANGED cm
    /\ Becomes(w, [watch[w] EXCEPT !.pc = "password", !.copy = <<>>])
    /\ RunUnchanged
    /\ UNCHANGED secret

\* updatePassword up to the read of the ConfigMap.
UpdatePassword(w) ==
    /\ watch[w].pc = "password"
    /\ LET p == watch[w].event.password
           r == [watch[w] EXCEPT !.cr.password = p]
       IN  IF p = watch[w].cr.password
           THEN Goes(w, "hash") /\ UNCHANGED faults
           ELSE \/ /\ Becomes(w, IF cm.exists
                                 THEN [r EXCEPT !.pc = "savePassword", !.copy = cm]
                                 ELSE [r EXCEPT !.pc = "idle", !.event = <<>>])
                   /\ UNCHANGED faults
                \/ Fault /\ Becomes(w, [r EXCEPT !.pc = "idle", !.event = <<>>])
    /\ RunUnchanged
    /\ UNCHANGED <<secret, cm>>

\* Defective variant: graylog.conf is updated and the hash is forgotten.
SavePasswordForgetsHash(w) ==
    /\ watch[w].pc = "savePassword"
    /\ cm' = IF ConfigMapAccepted(w)
             THEN Updated([watch[w].copy EXCEPT !.data.password = watch[w].event.password])
             ELSE cm
    /\ Waits(w)
    /\ RunUnchanged
    /\ UNCHANGED <<secret, faults>>

SavePassword(w) ==
    /\ watch[w].pc = "savePassword"
    /\ \/ /\ ConfigMapAccepted(w)
          /\ cm' = Updated([watch[w].copy EXCEPT !.data.password = watch[w].event.password])
          /\ Becomes(w, [watch[w] EXCEPT !.pc = "hash", !.copy = <<>>])
          /\ UNCHANGED faults
       \/ ~ConfigMapAccepted(w) /\ Waits(w) /\ UNCHANGED <<cm, faults>>
       \/ Fault /\ Waits(w) /\ UNCHANGED cm
    /\ RunUnchanged
    /\ UNCHANGED secret

\* syncRootPasswordSHA2SecretKey: read the Secret as it is now, and put the hash
\* of the password of the EVENT into it.
SyncHash(w) ==
    /\ watch[w].pc = "hash"
    /\ LET s == EnsureSecretRootPasswordSHA2(secret, watch[w].event.password) IN
       \/ s = secret /\ Waits(w) /\ UNCHANGED faults
       \/ s # secret /\ UNCHANGED faults
             /\ Becomes(w, [watch[w] EXCEPT !.pc = "saveHash", !.copy = s])
       \/ Fault /\ Waits(w)
    /\ RunUnchanged
    /\ UNCHANGED <<secret, cm>>

\* Defective variant: the Secret is written whatever its version is.
SaveHashAnyVersion(w) ==
    /\ watch[w].pc = "saveHash"
    /\ secret' = [watch[w].copy EXCEPT !.rv = secret.rv + 1]
    /\ watch' = [Notified("modified", watch[w].copy) EXCEPT
                    ![w].pc = "idle", ![w].event = <<>>, ![w].copy = <<>>]
    /\ RunUnchanged
    /\ UNCHANGED <<cm, faults>>

SaveHash(w) ==
    /\ watch[w].pc = "saveHash"
    /\ \/ /\ UpdateAccepted(watch[w].copy)
          /\ secret' = Updated(watch[w].copy)
          /\ watch' = [Notified("modified", watch[w].copy) EXCEPT
                          ![w].pc = "idle", ![w].event = <<>>, ![w].copy = <<>>]
          /\ UNCHANGED faults
       \/ ~UpdateAccepted(watch[w].copy) /\ Waits(w) /\ UNCHANGED <<secret, faults>>
       \/ Fault /\ Waits(w) /\ UNCHANGED secret
    /\ RunUnchanged
    /\ UNCHANGED cm
-----------------------------------------------------------------------------
(***************************************************************************)
(* The environment.                                                        *)
(***************************************************************************)

\* Somebody edits user or password; the hash stays as it is.
ChangeSecret ==
    /\ changes < MaxChanges
    /\ changes' = changes + 1
    /\ \E c \in SomeCredentials \ {Credentials(secret)} :
          LET s == [secret EXCEPT !.user = c.user, !.password = c.password] IN
          /\ secret' = Updated(s)
          /\ watch' = Notified("modified", s)
    /\ UNCHANGED <<cached, cm, requested, run, held, requests, faults>>

CacheSync ==
    /\ cached # secret
    /\ cached' = secret
    /\ UNCHANGED <<secret, cm, requested, run, held, watch, changes, requests, faults>>

\* The custom resource is edited.
Request ==
    /\ requests < MaxRequests
    /\ requests' = requests + 1
    /\ requested' = TRUE
    /\ UNCHANGED <<secret, cached, cm, run, held, watch, changes, faults>>

\* Another Secret with the label is created or written.
OtherSecret ==
    /\ Fault
    /\ watch' = Notified("other", secret)
    /\ UNCHANGED <<secret, cached, cm, requested, run, held, changes, requests>>

\* The API server ends a watch, as it does after some minutes.
CloseWatch(w) ==
    /\ watch[w].pc = "idle"
    /\ Fault
    /\ Becomes(w, NoWatcher)
    /\ RunUnchanged
    /\ UNCHANGED <<secret, cm>>

Restart ==
    /\ Fault
    /\ requested' = TRUE
    /\ run' = "idle"
    /\ watch' = [w \in Watchers |-> NoWatcher]
    /\ cached' = secret
    /\ UNCHANGED <<secret, cm, held, changes, requests>>

Reconcile ==
    \/ StartRun \/ RunSetsCredentials \/ HandleConfigMap \/ WriteConfigMap
    \/ WatchSecret \/ RunFails \/ Uninstall

Watch(w) ==
    \/ OpenWatch(w) \/ IgnoreEvent(w) \/ UpdateUser(w) \/ SaveUser(w)
    \/ UpdatePassword(w) \/ SavePassword(w) \/ SyncHash(w) \/ SaveHash(w)

Next ==
    \/ Reconcile
    \/ \E w \in Watchers : Watch(w) \/ CloseWatch(w)
    \/ ChangeSecret \/ CacheSync \/ Request \/ OtherSecret \/ Restart

Spec == Init /\ [][Next]_vars

\* The reconcile worker, every goroutine and the informer keep running.
FairSpec ==
    /\ Spec
    /\ WF_vars(Reconcile)
    /\ WF_vars(CacheSync)
    /\ \A w \in Watchers : WF_vars(Watch(w))
-----------------------------------------------------------------------------
(***************************************************************************)
(* Properties.                                                             *)
(***************************************************************************)
Secrets == [user : Users, password : Passwords, sha : Passwords, rv : Nat]

Events == [kind : {"added", "modified", "other"}, data : SomeCredentials]

\* The type invariant.
TypeOK ==
    /\ secret \in Secrets
    /\ cached \in Secrets
    /\ cm \in [exists : BOOLEAN, data : SomeCredentials, rv : Nat]
    /\ requested \in BOOLEAN
    /\ run \in RunPCs
    /\ held \in SomeCredentials
    /\ \A w \in Watchers :
          /\ watch[w].pc \in WatcherPCs
          /\ watch[w].pc # "none" => watch[w].cr \in SomeCredentials
          /\ watch[w].queue \in Seq(Events)
          /\ ~Open(w) => watch[w].queue = <<>>
    /\ changes \in 0..MaxChanges
    /\ requests \in 0..MaxRequests
    /\ faults \in 0..MaxFaults

\* The operator writes the whole Secret back when it stores the hash, and it
\* never undoes an edit of user or password by that: they change only when
\* somebody changes them.
EditIsNeverReverted ==
    [][Credentials(secret') # Credentials(secret) => changes' = changes + 1]_vars

\* No goroutine has anything left to do.
Settled == \A w \in Watchers : watch[w].pc \in {"none", "blocked", "idle"} /\ watch[w].queue = <<>>

InSync == cm.data = Credentials(secret) /\ secret.sha = secret.password

\* No cycle runs or is due.
Resting == run = "idle" /\ ~requested

\* Everything agrees with the Secret, and somebody watches it: the open watchers
\* remember the credentials it holds.
Followed ==
    /\ Resting /\ Settled /\ InSync /\ cm.exists
    /\ \E w \in Watchers : Open(w)
    /\ \A w \in Watchers : Open(w) => watch[w].cr = Credentials(secret)

\* From there on, and until another cycle starts, every change ends up in
\* the ConfigMap and in the hash, although several watchers write both, each at
\* its own pace, and conflicting writes are dropped (and as long as no call
\* fails and no watch ends: nothing is ever tried again).
ChangesAreFollowed == [](Followed => <>[]InSync \/ <>(~Resting))

\* "If password in the secret was changed, logging-operator updates graylog.conf
\* in the ConfigMap": once nobody edits the Secret any more, graylog.conf holds
\* its password.
PasswordChangeIsApplied ==
    <>[](cm.exists => cm.data.password = secret.password)
=============================================================================
