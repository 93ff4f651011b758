---------------------- MODULE GraylogCredentialsProofs ----------------------
(***************************************************************************)
(* The operator never undoes an edit of the Secret with the credentials,   *)
(* for any number of watchers, users, passwords, edits and faults.         *)
(***************************************************************************)
EXTENDS GraylogCredentials, TLAPS

ConfigMaps == [exists : BOOLEAN, data : SomeCredentials, rv : Nat]

WatcherRecord ==
    [pc : WatcherPCs,
     cr : SomeCredentials \cup {<<>>},
     event : SomeCredentials \cup {<<>>},
     queue : Seq(Events),
     copy : ConfigMaps \cup Secrets \cup {<<>>}]

\* A copy of the Secret s: it is not newer, and unless somebody has written the
\* Secret since, it has the same user and password.
CopyOfSecret(o, s) ==
    /\ o \in Secrets
    /\ o.rv <= s.rv
    /\ o.rv = s.rv => Credentials(o) = Credentials(s)

\* What a watcher holds at the places it can be at, when the Secret is s.
GoodWatcher(r, s) ==
    /\ r \in WatcherRecord
    /\ r.pc # "none" => r.cr \in SomeCredentials
    /\ r.pc \in {"none", "starting", "blocked"} => r.queue = <<>>
    /\ r.pc \in {"saveUser", "password", "savePassword", "hash", "saveHash"} =>
          r.event \in SomeCredentials
    /\ r.pc \in {"saveUser", "savePassword"} => r.copy \in ConfigMaps
    /\ r.pc = "saveHash" => CopyOfSecret(r.copy, s)

GoodWatchers ==
    /\ watch = [w \in Watchers |-> watch[w]]
    /\ \A w \in Watchers : GoodWatcher(watch[w], secret)

GoodData ==
    /\ secret \in Secrets
    /\ CopyOfSecret(cached, secret)
    /\ cm \in ConfigMaps
    /\ requested \in BOOLEAN
    /\ run \in RunPCs
    /\ held \in SomeCredentials
    /\ changes \in 0..MaxChanges
    /\ requests \in 0..MaxRequests
    /\ faults \in 0..MaxFaults

\* The inductive invariant.
CredentialsInv == GoodData /\ GoodWatchers
-----------------------------------------------------------------------------
(***************************************************************************)
(* What keeps the watchers good.                                           *)
(***************************************************************************)

\* One watcher goes on, and the Secret stays as it is.
LEMMA WatcherGoesOn ==
    ASSUME GoodWatchers, NEW w \in Watchers, NEW r,
           GoodWatcher(r, secret), Becomes(w, r), UNCHANGED secret
    PROVE  GoodWatchers'
BY DEF GoodWatchers, Becomes

\* Nobody moves.
LEMMA WatchersStay ==
    ASSUME GoodWatchers, UNCHANGED <<watch, secret>>
    PROVE  GoodWatchers'
BY DEF GoodWatchers

\* A watcher that is in no goroutine, and one that waits for the next event.
LEMMA NoWatcherIsGood == GoodWatcher(NoWatcher, secret)
<1>1. NoWatcher \in WatcherRecord
  BY DEF NoWatcher, WatcherRecord, WatcherPCs
<1> QED
  BY <1>1 DEF NoWatcher, GoodWatcher

LEMMA WatcherWaits ==
    ASSUME GoodWatchers, NEW w \in Watchers, watch[w].pc # "none", Open(w),
           Waits(w), UNCHANGED secret
    PROVE  GoodWatchers'
<1> DEFINE r == [watch[w] EXCEPT !.pc = "idle", !.event = <<>>, !.copy = <<>>]
<1>1. GoodWatcher(watch[w], secret)
  BY DEF GoodWatchers
<1>2. GoodWatcher(r, secret)
  BY <1>1 DEF GoodWatcher, WatcherRecord, WatcherPCs
<1>3. Becomes(w, r)
  BY DEF Waits
<1> HIDE DEF r
<1> QED
  BY <1>2, <1>3, WatcherGoesOn

\* A copy of the Secret is still one after the Secret was written.
LEMMA CopyAfterWrite ==
    ASSUME NEW s \in Secrets, NEW t \in Secrets, t.rv = s.rv, NEW o, CopyOfSecret(o, s)
    PROVE  CopyOfSecret(o, Updated(t)) /\ Updated(t) \in Secrets
BY DEF CopyOfSecret, Updated, Secrets

\* An event is put into the queues of the open watches.
LEMMA NotifiedIsGood ==
    ASSUME GoodWatchers, NEW kind \in {"modified", "other"}, NEW s, NEW t,
           Credentials(s) \in SomeCredentials,
           \A o : CopyOfSecret(o, secret) => CopyOfSecret(o, t)
    PROVE  /\ Notified(kind, s) = [w \in Watchers |-> Notified(kind, s)[w]]
           /\ \A w \in Watchers :
                 /\ GoodWatcher(Notified(kind, s)[w], t)
                 /\ Notified(kind, s)[w].pc = watch[w].pc
                 /\ Notified(kind, s)[w].cr = watch[w].cr
<1> DEFINE e == [kind |-> kind, data |-> Credentials(s)]
<1>1. Notified(kind, s) = [w \in Watchers |-> Notified(kind, s)[w]]
  BY DEF Notified
<1>2. e \in Events
  BY DEF Events
<1> HIDE DEF e
<1>3. ASSUME NEW w \in Watchers
      PROVE  /\ GoodWatcher(Notified(kind, s)[w], t)
             /\ Notified(kind, s)[w].pc = watch[w].pc
             /\ Notified(kind, s)[w].cr = watch[w].cr
  <2> DEFINE r == watch[w]
             a == [r EXCEPT !.queue = Append(@, e)]
  <2>1. GoodWatcher(r, secret)
    BY DEF GoodWatchers
  <2>2. Notified(kind, s)[w] = IF Open(w) THEN a ELSE r
    BY DEF Notified, e
  <2>3. GoodWatcher(r, t)
    BY <2>1 DEF GoodWatcher
  <2>4. ASSUME Open(w)
        PROVE  GoodWatcher(a, t) /\ a.pc = r.pc /\ a.cr = r.cr
    <3>1. Append(r.queue, e) \in Seq(Events)
      BY <1>2, <2>1 DEF GoodWatcher, WatcherRecord
    <3>2. a \in WatcherRecord
      BY <2>1, <3>1 DEF GoodWatcher, WatcherRecord
    <3>3. /\ a.pc = r.pc /\ a.cr = r.cr /\ a.event = r.event /\ a.copy = r.copy
          /\ r.pc \notin {"none", "starting", "blocked"}
      BY <2>1, <2>4 DEF GoodWatcher, WatcherRecord, Open
    <3> HIDE DEF a, r
    <3> QED
      BY <2>3, <3>2, <3>3 DEF GoodWatcher
  <2> HIDE DEF a
  <2> QED
    BY <2>2, <2>3, <2>4
<1> QED
  BY <1>1, <1>3

\* The Secret is written: whoever has a copy of it has an old one.
LEMMA SecretIsWritten ==
    ASSUME GoodData, GoodWatchers, NEW s \in Secrets, s.rv = secret.rv,
           secret' = Updated(s), watch' = Notified("modified", s)
    PROVE  /\ secret' \in Secrets
           /\ CopyOfSecret(cached, secret')
           /\ GoodWatchers'
<1>1. secret \in Secrets /\ CopyOfSecret(cached, secret)
  BY DEF GoodData
<1>2. \A o : CopyOfSecret(o, secret) => CopyOfSecret(o, Updated(s))
  BY <1>1, CopyAfterWrite
<1>3. Credentials(s) \in SomeCredentials
  BY DEF Credentials, SomeCredentials, Secrets
<1>4. Updated(s) \in Secrets
  BY <1>1, CopyAfterWrite
<1>5. /\ watch' = [w \in Watchers |-> watch'[w]]
      /\ \A w \in Watchers : GoodWatcher(watch'[w], secret')
  BY <1>2, <1>3, NotifiedIsGood
<1> QED
  BY <1>1, <1>2, <1>4, <1>5 DEF GoodWatchers
-----------------------------------------------------------------------------
(***************************************************************************)
(* The invariant, action by action.                                        *)
(***************************************************************************)

LEMMA CredentialsInit == Init => CredentialsInv
<1> SUFFICES ASSUME Init PROVE CredentialsInv
  OBVIOUS
<1>1. PICK c \in SomeCredentials :
         secret = [user |-> c.user, password |-> c.password, sha |-> c.password, rv |-> 1]
  BY DEF Init
<1>2. secret \in Secrets /\ Credentials(secret) \in SomeCredentials
  BY <1>1 DEF Secrets, SomeCredentials, Credentials
<1>3. CopyOfSecret(cached, secret)
  BY <1>2 DEF Init, CopyOfSecret, Secrets
<1>4. GoodData
  BY <1>2, <1>3, CredentialsAssumption DEF Init, GoodData, ConfigMaps, RunPCs
<1>5. GoodWatchers
  BY NoWatcherIsGood DEF Init, GoodWatchers
<1> QED
  BY <1>4, <1>5 DEF CredentialsInv

\* A fault is counted.
LEMMA FaultIsCounted ==
    ASSUME faults \in 0..MaxFaults, Fault
    PROVE  faults' \in 0..MaxFaults
BY CredentialsAssumption DEF Fault

\* The steps of the cycle that write neither the Secret nor a watcher.
LEMMA CycleKeepsInv ==
    ASSUME CredentialsInv,
           StartRun \/ WriteConfigMap \/ RunFails \/ Uninstall \/ CacheSync \/ Request
    PROVE  CredentialsInv'
<1>1. UNCHANGED <<watch, secret>>
  BY DEF StartRun, WriteConfigMap, RunFails, Uninstall, CacheSync, Request
<1>2. GoodWatchers'
  BY <1>1, WatchersStay DEF CredentialsInv
<1> SUFFICES GoodData'
  BY <1>2 DEF CredentialsInv
<1>3. GoodData /\ secret \in Secrets /\ secret' = secret
  BY <1>1 DEF CredentialsInv, GoodData
<1>4. CASE StartRun
  BY <1>3, <1>4 DEF StartRun, GoodData, RunPCs
<1>5. CASE WriteConfigMap
  BY <1>3, <1>5 DEF WriteConfigMap, GoodData, RunPCs, ConfigMaps
<1>6. CASE RunFails
  BY <1>3, <1>6, FaultIsCounted DEF RunFails, GoodData, RunPCs
<1>7. CASE Uninstall
  BY <1>3, <1>7 DEF Uninstall, GoodData, ConfigMaps
<1>8. CASE CacheSync
  <2>1. CopyOfSecret(secret, secret)
    BY <1>3 DEF CopyOfSecret, Secrets
  <2> QED
    BY <1>3, <1>8, <2>1 DEF CacheSync, GoodData
<1>9. CASE Request
  <2>1. requests' \in 0..MaxRequests
    BY <1>3, <1>9, CredentialsAssumption DEF Request, GoodData
  <2> QED
    BY <1>3, <1>9, <2>1 DEF Request, GoodData
<1> QED
  BY <1>4, <1>5, <1>6, <1>7, <1>8, <1>9

\* setCredentials, called at either place.
LEMMA SetCredentialsKeepsInv ==
    ASSUME CredentialsInv, NEW next \in RunPCs, SetCredentials(next)
    PROVE  CredentialsInv'
<1> DEFINE s == EnsureSecretRootPasswordSHA2(cached, cached.password)
<1>1. GoodData /\ GoodWatchers
  BY DEF CredentialsInv
<1>2. cached \in Secrets
  BY <1>1 DEF GoodData, CopyOfSecret
<1>3. Credentials(cached) \in SomeCredentials
  BY <1>2 DEF Credentials, SomeCredentials, Secrets
<1>4. s \in Secrets /\ s.rv = cached.rv
  BY <1>2 DEF EnsureSecretRootPasswordSHA2, Secrets
<1>5. /\ held' = Credentials(cached)
      /\ run' \in RunPCs /\ requested' \in BOOLEAN
      /\ UNCHANGED <<cached, cm, changes, requests, faults>>
  BY <1>1 DEF SetCredentials, GoodData, RunPCs
<1>6. CASE UNCHANGED <<secret, watch>>
  <2>1. GoodWatchers'
    BY <1>1, <1>6, WatchersStay
  <2>2. GoodData'
    BY <1>1, <1>3, <1>5, <1>6 DEF GoodData
  <2> QED
    BY <2>1, <2>2 DEF CredentialsInv
<1>7. CASE /\ UpdateAccepted(cached)
           /\ secret' = Updated(s) /\ watch' = Notified("modified", s)
  <2> HIDE DEF s
  <2>1. s.rv = secret.rv
    BY <1>4, <1>7 DEF UpdateAccepted
  <2>2. secret' \in Secrets /\ CopyOfSecret(cached, secret') /\ GoodWatchers'
    BY <1>1, <1>4, <1>7, <2>1, SecretIsWritten
  <2>3. GoodData'
    BY <1>1, <1>3, <1>5, <2>2 DEF GoodData
  <2> QED
    BY <2>2, <2>3 DEF CredentialsInv
<1> QED
  BY <1>6, <1>7 DEF SetCredentials

\* The start of a goroutine.
LEMMA WatchSecretKeepsInv ==
    ASSUME CredentialsInv, WatchSecret
    PROVE  CredentialsInv'
<1> DEFINE r == [NoWatcher EXCEPT !.pc = "starting", !.cr = held]
<1>1. GoodData /\ GoodWatchers
  BY DEF CredentialsInv
<1>2. held \in SomeCredentials
  BY <1>1 DEF GoodData
<1>3. GoodWatcher(r, secret)
  <2>1. NoWatcher \in WatcherRecord /\ NoWatcher.queue = <<>>
    BY NoWatcherIsGood DEF GoodWatcher, NoWatcher
  <2>2. /\ r \in WatcherRecord
        /\ r.pc = "starting" /\ r.cr = held /\ r.queue = <<>>
    BY <1>2, <2>1 DEF WatcherRecord, WatcherPCs
  <2> QED
    BY <1>2, <2>2 DEF GoodWatcher
<1> HIDE DEF r
<1>4. UNCHANGED secret /\ (UNCHANGED watch \/ \E w \in Watchers : Becomes(w, r))
  BY DEF WatchSecret, r
<1>5. GoodWatchers'
  BY <1>1, <1>3, <1>4, WatcherGoesOn, WatchersStay
<1>6. GoodData'
  <2>1. faults' \in 0..MaxFaults
    BY <1>1, FaultIsCounted DEF WatchSecret, GoodData
  <2> QED
    BY <1>1, <2>1 DEF WatchSecret, GoodData, RunPCs
<1> QED
  BY <1>5, <1>6 DEF CredentialsInv

\* The environment writes the Secret, or another one, or ends the operator.
LEMMA ChangeSecretKeepsInv ==
    ASSUME CredentialsInv, ChangeSecret
    PROVE  CredentialsInv'
<1>1. GoodData /\ GoodWatchers /\ secret \in Secrets
  BY DEF CredentialsInv, GoodData
<1>2. PICK c \in SomeCredentials :
         LET s == [secret EXCEPT !.user = c.user, !.password = c.password]
         IN  secret' = Updated(s) /\ watch' = Notified("modified", s)
  BY DEF ChangeSecret
<1> DEFINE s == [secret EXCEPT !.user = c.user, !.password = c.password]
<1>3. s \in Secrets /\ s.rv = secret.rv
  BY <1>1, <1>2 DEF Secrets, SomeCredentials
<1>4. secret' = Updated(s) /\ watch' = Notified("modified", s)
  BY <1>2
<1> HIDE DEF s
<1>5. secret' \in Secrets /\ CopyOfSecret(cached, secret') /\ GoodWatchers'
  BY <1>1, <1>3, <1>4, SecretIsWritten
<1>6. changes' \in 0..MaxChanges
  BY <1>1, CredentialsAssumption DEF ChangeSecret, GoodData
<1>7. GoodData'
  BY <1>1, <1>5, <1>6 DEF ChangeSecret, GoodData
<1> QED
  BY <1>5, <1>7 DEF CredentialsInv

LEMMA OtherSecretKeepsInv ==
    ASSUME CredentialsInv, OtherSecret
    PROVE  CredentialsInv'
<1>1. GoodData /\ GoodWatchers /\ secret \in Secrets
  BY DEF CredentialsInv, GoodData
<1>2. Credentials(secret) \in SomeCredentials
  BY <1>1 DEF Credentials, SomeCredentials, Secrets
<1>3. /\ watch' = [w \in Watchers |-> watch'[w]]
      /\ \A w \in Watchers : GoodWatcher(watch'[w], secret)
  BY <1>1, <1>2, NotifiedIsGood DEF OtherSecret
<1>4. GoodWatchers'
  BY <1>3 DEF GoodWatchers, OtherSecret
<1>5. GoodData'
  BY <1>1, FaultIsCounted DEF OtherSecret, GoodData
<1> QED
  BY <1>4, <1>5 DEF CredentialsInv

LEMMA RestartKeepsInv ==
    ASSUME CredentialsInv, Restart
    PROVE  CredentialsInv'
<1>1. GoodData /\ secret \in Secrets
  BY DEF CredentialsInv, GoodData
<1>2. CopyOfSecret(secret, secret)
  BY <1>1 DEF CopyOfSecret, Secrets
<1>3. GoodData'
  BY <1>1, <1>2, FaultIsCounted DEF Restart, GoodData, RunPCs
<1>4. GoodWatchers'
  <2>1. watch' = [w \in Watchers |-> NoWatcher] /\ secret' = secret
    BY DEF Restart
  <2> HIDE DEF NoWatcher
  <2> QED
    BY <2>1, NoWatcherIsGood DEF GoodWatchers
<1> QED
  BY <1>3, <1>4 DEF CredentialsInv

\* The steps of a watcher that leave the Secret alone: what is left to show is
\* that the record it becomes is good, and what it does to the ConfigMap.
LEMMA WatcherStepKeepsInv ==
    ASSUME CredentialsInv, NEW w \in Watchers, NEW r,
           GoodWatcher(r, secret), Becomes(w, r), cm' \in ConfigMaps,
           UNCHANGED faults \/ Fault, RunUnchanged, UNCHANGED secret
    PROVE  CredentialsInv'
<1>1. GoodData /\ GoodWatchers
  BY DEF CredentialsInv
<1>2. GoodWatchers'
  BY <1>1, WatcherGoesOn
<1>3. faults' \in 0..MaxFaults
  BY <1>1, FaultIsCounted DEF GoodData
<1>4. GoodData'
  BY <1>1, <1>3 DEF GoodData, RunUnchanged
<1> QED
  BY <1>2, <1>4 DEF CredentialsInv

\* Where all of them start from.
LEMMA WatcherBefore ==
    ASSUME CredentialsInv, NEW w \in Watchers
    PROVE  /\ GoodWatcher(watch[w], secret)
           /\ secret \in Secrets
           /\ cm \in ConfigMaps
           /\ Credentials(secret) \in SomeCredentials
BY DEF CredentialsInv, GoodWatchers, GoodData, Credentials, SomeCredentials, Secrets

\* The goroutine goes back to its channel.
LEMMA WaitsKeepsInv ==
    ASSUME CredentialsInv, NEW w \in Watchers, Open(w), Waits(w), UNCHANGED <<secret, cm>>,
           UNCHANGED faults \/ Fault, RunUnchanged
    PROVE  CredentialsInv'
<1> DEFINE r == [watch[w] EXCEPT !.pc = "idle", !.event = <<>>, !.copy = <<>>]
<1>1. GoodWatcher(watch[w], secret) /\ cm \in ConfigMaps
  BY WatcherBefore
<1>2. GoodWatcher(r, secret)
  BY <1>1 DEF GoodWatcher, WatcherRecord, WatcherPCs, Open
<1>3. Becomes(w, r)
  BY DEF Waits
<1> HIDE DEF r
<1> QED
  BY <1>1, <1>2, <1>3, WatcherStepKeepsInv

LEMMA OpenWatchKeepsInv ==
    ASSUME CredentialsInv, NEW w \in Watchers, OpenWatch(w)
    PROVE  CredentialsInv'
<1> DEFINE q == <<[kind |-> "added", data |-> Credentials(secret)]>>
           a == [watch[w] EXCEPT !.pc = "idle", !.queue = q]
           b == [watch[w] EXCEPT !.pc = "blocked"]
<1>1. GoodWatcher(watch[w], secret) /\ cm \in ConfigMaps /\ watch[w].pc = "starting"
  BY WatcherBefore DEF OpenWatch
<1>2. q \in Seq(Events)
  BY WatcherBefore DEF Events
<1> HIDE DEF q
<1>3. GoodWatcher(a, secret)
  BY <1>1, <1>2 DEF GoodWatcher, WatcherRecord, WatcherPCs
<1>4. GoodWatcher(b, secret)
  BY <1>1 DEF GoodWatcher, WatcherRecord, WatcherPCs
<1>5. /\ RunUnchanged /\ UNCHANGED <<secret, cm>>
      /\ \/ Becomes(w, a) /\ UNCHANGED faults
         \/ Becomes(w, b) /\ Fault
  BY DEF OpenWatch, Becomes, Goes, q, GoodWatchers, CredentialsInv
<1> HIDE DEF a, b
<1> QED
  BY <1>1, <1>3, <1>4, <1>5, WatcherStepKeepsInv

LEMMA IgnoreEventKeepsInv ==
    ASSUME CredentialsInv, NEW w \in Watchers, IgnoreEvent(w)
    PROVE  CredentialsInv'
<1> DEFINE a == [watch[w] EXCEPT !.queue = Tail(@)]
<1>1. GoodWatcher(watch[w], secret) /\ cm \in ConfigMaps /\ watch[w].pc = "idle"
  BY WatcherBefore DEF IgnoreEvent
<1>2. Tail(watch[w].queue) \in Seq(Events)
  BY <1>1 DEF GoodWatcher, WatcherRecord, IgnoreEvent
<1>3. GoodWatcher(a, secret)
  BY <1>1, <1>2 DEF GoodWatcher, WatcherRecord
<1>4. /\ RunUnchanged /\ UNCHANGED <<secret, cm, faults>>
      /\ Becomes(w, NoWatcher) \/ Becomes(w, a)
  BY DEF IgnoreEvent
<1> HIDE DEF a
<1> QED
  BY <1>1, <1>3, <1>4, NoWatcherIsGood, WatcherStepKeepsInv

LEMMA UpdateUserKeepsInv ==
    ASSUME CredentialsInv, NEW w \in Watchers, UpdateUser(w)
    PROVE  CredentialsInv'
<1> DEFINE e == Head(watch[w].queue).data
           r == [watch[w] EXCEPT !.queue = Tail(@), !.event = e, !.cr.user = e.user]
           a == [r EXCEPT !.pc = "password"]
           b == [r EXCEPT !.pc = "saveUser", !.copy = cm]
<1>1. GoodWatcher(watch[w], secret) /\ cm \in ConfigMaps /\ watch[w].pc = "idle"
  BY WatcherBefore DEF UpdateUser
<1>2. Tail(watch[w].queue) \in Seq(Events) /\ e \in SomeCredentials
  <2>1. watch[w].queue \in Seq(Events) /\ watch[w].queue # <<>>
    BY <1>1 DEF GoodWatcher, WatcherRecord, UpdateUser
  <2>2. Head(watch[w].queue) \in Events
    BY <2>1
  <2> QED
    BY <2>1, <2>2 DEF Events
<1> HIDE DEF e
<1>3. /\ r \in WatcherRecord /\ r.cr \in SomeCredentials /\ r.event \in SomeCredentials
  <2>1. watch[w] \in WatcherRecord /\ watch[w].cr \in SomeCredentials
    BY <1>1 DEF GoodWatcher
  <2>2. [watch[w].cr EXCEPT !.user = e.user] \in SomeCredentials
    BY <1>2, <2>1 DEF SomeCredentials
  <2> QED
    BY <1>2, <2>1, <2>2 DEF WatcherRecord
<1>4. /\ RunUnchanged /\ UNCHANGED <<secret, cm>> /\ (UNCHANGED faults \/ Fault)
      /\ Becomes(w, a) \/ Becomes(w, b)
  BY DEF UpdateUser, e
<1> HIDE DEF r
<1>5. GoodWatcher(a, secret)
  BY <1>3 DEF GoodWatcher, WatcherRecord, WatcherPCs
<1>6. GoodWatcher(b, secret)
  BY <1>1, <1>3 DEF GoodWatcher, WatcherRecord, WatcherPCs
<1> HIDE DEF a, b
<1> QED
  BY <1>1, <1>4, <1>5, <1>6, WatcherStepKeepsInv

\* What the watchers write to the ConfigMap.
LEMMA ConfigMapIsWritten ==
    ASSUME NEW m \in ConfigMaps, NEW c \in SomeCredentials
    PROVE  /\ Updated([m EXCEPT !.data.user = c.user]) \in ConfigMaps
           /\ Updated([m EXCEPT !.data.password = c.password]) \in ConfigMaps
<1>1. /\ [m.data EXCEPT !.user = c.user] \in SomeCredentials
      /\ [m.data EXCEPT !.password = c.password] \in SomeCredentials
  BY DEF SomeCredentials, ConfigMaps
<1>2. /\ [m EXCEPT !.data.user = c.user] \in ConfigMaps
      /\ [m EXCEPT !.data.password = c.password] \in ConfigMaps
  BY <1>1 DEF ConfigMaps
<1>3. ASSUME NEW o \in ConfigMaps PROVE Updated(o) \in ConfigMaps
  BY DEF ConfigMaps, Updated
<1> QED
  BY <1>2, <1>3

LEMMA SaveUserKeepsInv ==
    ASSUME CredentialsInv, NEW w \in Watchers, SaveUser(w)
    PROVE  CredentialsInv'
<1> DEFINE r == [watch[w] EXCEPT !.pc = "password", !.copy = <<>>]
           c == Updated([watch[w].copy EXCEPT !.data.user = watch[w].event.user])
<1>1. GoodWatcher(watch[w], secret) /\ cm \in ConfigMaps /\ watch[w].pc = "saveUser"
  BY WatcherBefore DEF SaveUser
<1>2. watch[w].copy \in ConfigMaps /\ watch[w].event \in SomeCredentials
  BY <1>1 DEF GoodWatcher
<1>3. c \in ConfigMaps
  BY <1>2, ConfigMapIsWritten
<1>4. GoodWatcher(r, secret)
  BY <1>1, <1>2 DEF GoodWatcher, WatcherRecord, WatcherPCs
<1>5. /\ RunUnchanged /\ UNCHANGED secret /\ (UNCHANGED faults \/ Fault) /\ Becomes(w, r)
      /\ cm' = c \/ cm' = cm
  BY DEF SaveUser
<1> HIDE DEF r, c
<1> QED
  BY <1>1, <1>3, <1>4, <1>5, WatcherStepKeepsInv

LEMMA UpdatePasswordKeepsInv ==
    ASSUME CredentialsInv, NEW w \in Watchers, UpdatePassword(w)
    PROVE  CredentialsInv'
<1> DEFINE p == watch[w].event.password
           r == [watch[w] EXCEPT !.cr.password = p]
           a == [watch[w] EXCEPT !.pc = "hash"]
           b == [r EXCEPT !.pc = "savePassword", !.copy = cm]
           d == [r EXCEPT !.pc = "idle", !.event = <<>>]
<1>1. GoodWatcher(watch[w], secret) /\ cm \in ConfigMaps /\ watch[w].pc = "password"
  BY WatcherBefore DEF UpdatePassword
<1>2. /\ watch[w].event \in SomeCredentials /\ watch[w].cr \in SomeCredentials
      /\ watch[w] \in WatcherRecord
  BY <1>1 DEF GoodWatcher
<1>3. /\ r \in WatcherRecord /\ r.cr \in SomeCredentials /\ r.event \in SomeCredentials
  <2>1. [watch[w].cr EXCEPT !.password = p] \in SomeCredentials
    BY <1>2 DEF SomeCredentials
  <2> QED
    BY <1>2, <2>1 DEF WatcherRecord
<1>4. /\ RunUnchanged /\ UNCHANGED <<secret, cm>> /\ (UNCHANGED faults \/ Fault)
      /\ Becomes(w, a) \/ Becomes(w, b) \/ Becomes(w, d)
  BY DEF UpdatePassword, Goes, Becomes, CredentialsInv, GoodWatchers
<1>5. GoodWatcher(a, secret)
  BY <1>1, <1>2 DEF GoodWatcher, WatcherRecord, WatcherPCs
<1> HIDE DEF r
<1>6. GoodWatcher(b, secret)
  BY <1>1, <1>3 DEF GoodWatcher, WatcherRecord, WatcherPCs
<1>7. GoodWatcher(d, secret)
  BY <1>1, <1>3 DEF GoodWatcher, WatcherRecord, WatcherPCs
<1> HIDE DEF a, b, d
<1> QED
  BY <1>1, <1>4, <1>5, <1>6, <1>7, WatcherStepKeepsInv

LEMMA SavePasswordKeepsInv ==
    ASSUME CredentialsInv, NEW w \in Watchers, SavePassword(w)
    PROVE  CredentialsInv'
<1> DEFINE r == [watch[w] EXCEPT !.pc = "hash", !.copy = <<>>]
           c == Updated([watch[w].copy EXCEPT !.data.password = watch[w].event.password])
<1>1. GoodWatcher(watch[w], secret) /\ cm \in ConfigMaps /\ watch[w].pc = "savePassword"
  BY WatcherBefore DEF SavePassword
<1>2. watch[w].copy \in ConfigMaps /\ watch[w].event \in SomeCredentials
  BY <1>1 DEF GoodWatcher
<1>3. c \in ConfigMaps
  BY <1>2, ConfigMapIsWritten
<1>4. GoodWatcher(r, secret)
  BY <1>1, <1>2 DEF GoodWatcher, WatcherRecord, WatcherPCs
<1>5. /\ RunUnchanged /\ UNCHANGED secret /\ (UNCHANGED faults \/ Fault) /\ Open(w)
      /\ \/ Becomes(w, r) /\ cm' = c
         \/ Waits(w) /\ UNCHANGED cm
  BY DEF SavePassword, Open
<1> HIDE DEF r, c
<1> QED
  BY <1>1, <1>3, <1>4, <1>5, WatcherStepKeepsInv, WaitsKeepsInv

\* The copy that SyncHash takes is one of the Secret as it is now.
LEMMA SyncHashKeepsInv ==
    ASSUME CredentialsInv, NEW w \in Watchers, SyncHash(w)
    PROVE  CredentialsInv'
<1> DEFINE s == EnsureSecretRootPasswordSHA2(secret, watch[w].event.password)
           r == [watch[w] EXCEPT !.pc = "saveHash", !.copy = s]
<1>1. /\ GoodWatcher(watch[w], secret) /\ cm \in ConfigMaps /\ secret \in Secrets
      /\ watch[w].pc = "hash"
  BY WatcherBefore DEF SyncHash
<1>2. watch[w].event \in SomeCredentials
  BY <1>1 DEF GoodWatcher
<1>3. CopyOfSecret(s, secret)
  BY <1>1, <1>2
     DEF CopyOfSecret, EnsureSecretRootPasswordSHA2, Secrets, SomeCredentials, Credentials
<1>4. /\ RunUnchanged /\ UNCHANGED <<secret, cm>> /\ (UNCHANGED faults \/ Fault) /\ Open(w)
      /\ Becomes(w, r) \/ Waits(w)
  BY DEF SyncHash, Open
<1> HIDE DEF s
<1>5. GoodWatcher(r, secret)
  <2>1. s \in Secrets
    BY <1>3 DEF CopyOfSecret
  <2>2. r \in WatcherRecord
    BY <1>1, <2>1 DEF GoodWatcher, WatcherRecord, WatcherPCs
  <2>3. /\ r.pc = "saveHash" /\ r.copy = s /\ r.cr = watch[w].cr
        /\ r.event = watch[w].event
    BY <1>1 DEF GoodWatcher, WatcherRecord
  <2> HIDE DEF r
  <2> QED
    BY <1>1, <1>2, <1>3, <2>2, <2>3 DEF GoodWatcher
<1> HIDE DEF r
<1> QED
  BY <1>1, <1>4, <1>5, WatcherStepKeepsInv, WaitsKeepsInv

\* The Update of the Secret: every other watcher is notified, this one waits.
LEMMA SaveHashKeepsInv ==
    ASSUME CredentialsInv, NEW w \in Watchers, SaveHash(w)
    PROVE  CredentialsInv'
<1> DEFINE s == watch[w].copy
           N == Notified("modified", s)
<1>1. /\ GoodWatcher(watch[w], secret) /\ cm \in ConfigMaps /\ secret \in Secrets
      /\ watch[w].pc = "saveHash" /\ GoodData /\ GoodWatchers
  BY WatcherBefore DEF SaveHash, CredentialsInv
<1>2. CopyOfSecret(s, secret) /\ s \in Secrets
  BY <1>1 DEF GoodWatcher, CopyOfSecret
<1>3. RunUnchanged /\ UNCHANGED cm /\ Open(w)
  BY DEF SaveHash, Open
<1>4. CASE Waits(w) /\ UNCHANGED secret /\ (UNCHANGED faults \/ Fault)
  BY <1>3, <1>4, WaitsKeepsInv
<1>5. CASE /\ UpdateAccepted(s) /\ secret' = Updated(s)
           /\ watch' = [N EXCEPT ![w].pc = "idle", ![w].event = <<>>, ![w].copy = <<>>]
           /\ UNCHANGED faults
  <2> HIDE DEF s
  <2>1. s.rv = secret.rv /\ Credentials(s) \in SomeCredentials
    BY <1>2, <1>5 DEF UpdateAccepted, Credentials, SomeCredentials, Secrets
  <2>2. /\ \A o : CopyOfSecret(o, secret) => CopyOfSecret(o, Updated(s))
        /\ Updated(s) \in Secrets
    BY <1>1, <1>2, <2>1, CopyAfterWrite
  <2>3. /\ N = [v \in Watchers |-> N[v]]
        /\ \A v \in Watchers : /\ GoodWatcher(N[v], Updated(s))
                               /\ N[v].pc = watch[v].pc /\ N[v].cr = watch[v].cr
    BY <1>1, <2>1, <2>2, NotifiedIsGood
  <2> DEFINE r == [N[w] EXCEPT !.pc = "idle", !.event = <<>>, !.copy = <<>>]
  <2> HIDE DEF N
  <2>4. GoodWatcher(r, Updated(s))
    BY <1>1, <2>3 DEF GoodWatcher, WatcherRecord, WatcherPCs
  <2>5. watch' = [N EXCEPT ![w] = r]
    BY <1>5, <2>3
  <2> HIDE DEF r
  <2>6. GoodWatchers'
    BY <1>5, <2>3, <2>4, <2>5 DEF GoodWatchers
  <2>7. GoodData'
    BY <1>1, <1>3, <1>5, <2>2 DEF GoodData, RunUnchanged
  <2> QED
    BY <2>6, <2>7 DEF CredentialsInv
<1> QED
  BY <1>4, <1>5 DEF SaveHash

LEMMA CloseWatchKeepsInv ==
    ASSUME CredentialsInv, NEW w \in Watchers, CloseWatch(w)
    PROVE  CredentialsInv'
<1>1. cm' \in ConfigMaps
  BY WatcherBefore DEF CloseWatch
<1> QED
  BY <1>1, NoWatcherIsGood, WatcherStepKeepsInv DEF CloseWatch

LEMMA CredentialsNext == CredentialsInv /\ [Next]_vars => CredentialsInv'
<1> SUFFICES ASSUME CredentialsInv, [Next]_vars PROVE CredentialsInv'
  OBVIOUS
<1>1. CASE Reconcile
  <2>1. CASE StartRun \/ WriteConfigMap \/ RunFails \/ Uninstall
    BY <2>1, CycleKeepsInv
  <2>2. CASE RunSetsCredentials \/ HandleConfigMap
    BY <2>2, SetCredentialsKeepsInv DEF RunSetsCredentials, HandleConfigMap, RunPCs
  <2>3. CASE WatchSecret
    BY <2>3, WatchSecretKeepsInv
  <2> QED
    BY <1>1, <2>1, <2>2, <2>3 DEF Reconcile
<1>2. ASSUME NEW w \in Watchers, Watch(w) PROVE CredentialsInv'
  BY <1>2, OpenWatchKeepsInv, IgnoreEventKeepsInv, UpdateUserKeepsInv, SaveUserKeepsInv,
     UpdatePasswordKeepsInv, SavePasswordKeepsInv, SyncHashKeepsInv, SaveHashKeepsInv
     DEF Watch
<1>3. CASE UNCHANGED vars
  <2>1. GoodWatchers'
    BY <1>3, WatchersStay DEF vars, CredentialsInv
  <2>2. GoodData'
    BY <1>3 DEF vars, CredentialsInv, GoodData
  <2> QED
    BY <2>1, <2>2 DEF CredentialsInv
<1> QED
  BY <1>1, <1>2, <1>3, CloseWatchKeepsInv, CycleKeepsInv, ChangeSecretKeepsInv,
     OtherSecretKeepsInv, RestartKeepsInv DEF Next

LEMMA CredentialsAlways == Spec => []CredentialsInv
BY CredentialsInit, CredentialsNext, PTL DEF Spec

\* The type invariant of the Secret, its cached copy, the ConfigMap and the
\* goroutines of SecretEventWatcher.Watch.
THEOREM CredentialsType == Spec => []TypeOK
<1>1. CredentialsInv => TypeOK
  <2> SUFFICES ASSUME CredentialsInv PROVE TypeOK
    OBVIOUS
  <2>1. ASSUME NEW w \in Watchers
        PROVE  /\ watch[w].pc \in WatcherPCs
               /\ watch[w].pc # "none" => watch[w].cr \in SomeCredentials
               /\ watch[w].queue \in Seq(Events)
               /\ ~Open(w) => watch[w].queue = <<>>
    BY WatcherBefore DEF GoodWatcher, WatcherRecord, Open
  <2>2. GoodData /\ cached \in Secrets
    BY DEF CredentialsInv, GoodData, CopyOfSecret
  <2> QED
    BY <2>1, <2>2 DEF TypeOK, GoodData, ConfigMaps
<1> QED
  BY <1>1, CredentialsAlways, PTL

\* Only a person changes user and password: where the operator writes the whole
\* Secret back to store the hash (setCredentials from the informer's copy,
\* syncRootPasswordSHA2SecretKey from the copy it read), the API server takes only a
\* copy that nobody has written since, and that one has the credentials of the Secret.
THEOREM EditsSurvive == Spec => EditIsNeverReverted
<1> DEFINE A == Credentials(secret') # Credentials(secret) => changes' = changes + 1
<1>1. CredentialsInv /\ [Next]_vars => [A]_vars
  <2> SUFFICES ASSUME CredentialsInv, Next, Credentials(secret') # Credentials(secret)
               PROVE  changes' = changes + 1
    OBVIOUS
  <2>1. secret' # secret
    OBVIOUS
  <2>2. ASSUME NEW s \in Secrets, secret' = Updated(s), Credentials(s) = Credentials(secret)
        PROVE  FALSE
    BY <2>2 DEF Updated, Credentials, Secrets
  <2>3. ~RunSetsCredentials /\ ~HandleConfigMap
    <3> SUFFICES ASSUME NEW next, SetCredentials(next) PROVE FALSE
      BY DEF RunSetsCredentials, HandleConfigMap
    <3> DEFINE s == EnsureSecretRootPasswordSHA2(cached, cached.password)
    <3>1. CopyOfSecret(cached, secret)
      BY DEF CredentialsInv, GoodData
    <3>2. UpdateAccepted(cached) /\ secret' = Updated(s)
      BY <2>1 DEF SetCredentials
    <3>3. Credentials(cached) = Credentials(secret) /\ cached \in Secrets
      BY <3>1, <3>2 DEF CopyOfSecret, UpdateAccepted
    <3>4. s \in Secrets /\ Credentials(s) = Credentials(cached)
      BY <3>3 DEF EnsureSecretRootPasswordSHA2, Secrets, Credentials
    <3> QED
      BY <2>2, <3>2, <3>3, <3>4
  <2>4. ASSUME NEW w \in Watchers, Watch(w) PROVE FALSE
    <3>1. SaveHash(w)
      BY <2>1, <2>4 DEF Watch, OpenWatch, IgnoreEvent, UpdateUser, SaveUser,
                        UpdatePassword, SavePassword, SyncHash
    <3>2. CopyOfSecret(watch[w].copy, secret)
      BY <3>1, WatcherBefore DEF GoodWatcher, SaveHash
    <3>3. UpdateAccepted(watch[w].copy) /\ secret' = Updated(watch[w].copy)
      BY <2>1, <3>1 DEF SaveHash
    <3> QED
      BY <2>2, <3>2, <3>3 DEF CopyOfSecret, UpdateAccepted
  <2>5. ChangeSecret
    BY <2>1, <2>3, <2>4 DEF Next, Reconcile, StartRun, WriteConfigMap, WatchSecret,
       RunFails, Uninstall, CloseWatch, CacheSync, Request, OtherSecret, Restart
  <2> QED
    BY <2>5 DEF ChangeSecret
<1> QED
  BY <1>1, CredentialsAlways, PTL DEF Spec, EditIsNeverReverted
=============================================================================
