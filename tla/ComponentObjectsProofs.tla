----------------------- MODULE ComponentObjectsProofs -----------------------
(***************************************************************************)
(* What the runs of the component reconcilers keep, for any specifications *)
(* a user may write, any Secrets and values, and any number of edits,      *)
(* rotations, failing calls and crashes.                                   *)
(***************************************************************************)
EXTENDS ComponentObjects, TLAPS

Variants == {s.variant : s \in UserSpecs}

Runtimes == {NoRuntime, DefaultContainerRuntimeType}
               \cup {s.runtime : s \in UserSpecs} \cup UNION Reports

Credential == Values \cup {NoValue}

Renderings == [variant : {"older"} \cup Variants, runtime : Runtimes,
               creds : {<<>>} \cup [1..3 -> Credential]]

\* The object of a cycle holds a specification.
GoodLocal ==
    /\ local.parts \in LoggingServiceSpec
    /\ local.auth \in Auth
    /\ local.complete \in BOOLEAN
    /\ local.runtime \in {NoRuntime} \cup {s.runtime : s \in UserSpecs}
    /\ local.variant \in Variants

GoodWorld ==
    /\ managed \in Groups
    /\ spec \in UserSpecs /\ specCache \in UserSpecs
    /\ secrets \in [Secrets -> Values \cup {Missing}]
    /\ secretCache \in [Secrets -> Values \cup {Missing}]
    /\ behind \in BOOLEAN /\ queued \in BOOLEAN /\ timer \in BOOLEAN /\ missed \in BOOLEAN

\* A copy with the current version is the object, and an object that is not there
\* has no labels of anybody.
GoodObjects ==
    /\ objs \in [Objects -> KubeObject]
    /\ cached \in [Objects -> KubeObject]
    /\ fresh \in [Objects -> BOOLEAN]
    /\ \A o \in Objects : fresh[o] => cached[o] = objs[o]
    /\ \A o \in Objects : ~objs[o].exists => ~objs[o].foreign

Planned == pc \in {"install", "uninstall"}

\* How many credentials a run has read before its step n.
ReadBefore(c, n) == IF c \notin Agents THEN 0 ELSE IF n <= 3 THEN n - 1 ELSE 3

GoodWorker ==
    /\ pc \in {"idle", "parameters", "begin", "install", "uninstall", "wait"}
    /\ at \in 1..Len(Runs)
    /\ step \in Nat
    /\ Planned => step \in 1..Len(Plan)
    /\ ~Planned => step = 1 /\ creds = <<>>
    /\ creds \in Seq(Credential)
    /\ pc = "install" => Len(creds) = ReadBefore(Component, step)
    /\ pc # "idle" => GoodLocal
    /\ memory \in Runtimes
    /\ pending \subseteq managed
    /\ success \in BOOLEAN
    /\ outcome \in {"none", "success", "failed"}
    /\ left \subseteq Objects

TypeInv == GoodWorld /\ GoodObjects /\ GoodWorker

\* The entries of the plan that the run has dealt with.
Gone(o) == ~objs[o].exists \/ o \in left

\* The configuration that the run has written is there.
ConfigWritten ==
    pc = "install" =>
        \A i \in 1..(step - 1) : Plan[i] \in {"config", "configMap"} =>
            objs[<<Component, Plan[i]>>].exists

\* What uninstall has been through is deleted, or known to be left.  (An error of
\* deleteConfigSecret skips an entry that comes again.)
UninstalledSoFar ==
    pc = "uninstall" =>
        \A i \in 1..(step - 1) : Plan[i] = Entry \/ Gone(<<Component, Plan[i]>>)

ConfigInv == ConfigWritten /\ UninstalledSoFar /\ WorkloadHasConfig
-----------------------------------------------------------------------------
(***************************************************************************)
(* The plans.                                                              *)
(***************************************************************************)
LEMMA Positions ==
    \A i \in 1..11 : i \in {1, 2, 3, 4, 5, 6, 7, 8, 9, 10, 11}
OBVIOUS

\* What Run goes through.
LEMMA InstallFluentd ==
    LET s == Install("Fluentd") IN
    /\ Len(s) = 7 /\ s[1] = "token" /\ s[2] = "user" /\ s[3] = "password"
    /\ s[4] = "config" /\ s[5] = "legacy" /\ s[6] = "daemonset"
    /\ s[7] = "service"
    /\ \A i \in 1..7 : \/ i = 1 /\ s[i] = "token"
                       \/ i = 2 /\ s[i] = "user"
                       \/ i = 3 /\ s[i] = "password"
                       \/ i = 4 /\ s[i] = "config"
                       \/ i = 5 /\ s[i] = "legacy"
                       \/ i = 6 /\ s[i] = "daemonset"
                       \/ i = 7 /\ s[i] = "service"
<1> DEFINE s == Install("Fluentd")
<1>1. /\ Len(s) = 7 /\ s[1] = "token" /\ s[2] = "user" /\ s[3] = "password"
      /\ s[4] = "config" /\ s[5] = "legacy" /\ s[6] = "daemonset"
      /\ s[7] = "service"
  BY DEF Install, FluentdRun, HandleConfigSecret, Fields
<1> HIDE DEF s
<1> QED
  BY <1>1, Positions DEF s

LEMMA InstallFluentbit ==
    LET s == Install("Fluentbit") IN
    /\ Len(s) = 7 /\ s[1] = "token" /\ s[2] = "user" /\ s[3] = "password"
    /\ s[4] = "config" /\ s[5] = "legacy" /\ s[6] = "daemonset"
    /\ s[7] = "service"
    /\ \A i \in 1..7 : \/ i = 1 /\ s[i] = "token"
                       \/ i = 2 /\ s[i] = "user"
                       \/ i = 3 /\ s[i] = "password"
                       \/ i = 4 /\ s[i] = "config"
                       \/ i = 5 /\ s[i] = "legacy"
                       \/ i = 6 /\ s[i] = "daemonset"
                       \/ i = 7 /\ s[i] = "service"
<1> DEFINE s == Install("Fluentbit")
<1>1. /\ Len(s) = 7 /\ s[1] = "token" /\ s[2] = "user" /\ s[3] = "password"
      /\ s[4] = "config" /\ s[5] = "legacy" /\ s[6] = "daemonset"
      /\ s[7] = "service"
  BY DEF Install, FluentbitRun, HandleConfigSecret, Fields
<1> HIDE DEF s
<1> QED
  BY <1>1, Positions DEF s

LEMMA InstallHAFluent ==
    LET s == Install("HAFluent") IN
    /\ Len(s) = 11 /\ s[1] = "token" /\ s[2] = "user" /\ s[3] = "password"
    /\ s[4] = "config" /\ s[5] = "legacy" /\ s[6] = "statefulset"
    /\ s[7] = "started" /\ s[8] = "aggregatorService" /\ s[9] = "configMap"
    /\ s[10] = "daemonset" /\ s[11] = "service"
    /\ \A i \in 1..11 : \/ i = 1 /\ s[i] = "token"
                        \/ i = 2 /\ s[i] = "user"
                        \/ i = 3 /\ s[i] = "password"
                        \/ i = 4 /\ s[i] = "config"
                        \/ i = 5 /\ s[i] = "legacy"
                        \/ i = 6 /\ s[i] = "statefulset"
                        \/ i = 7 /\ s[i] = "started"
                        \/ i = 8 /\ s[i] = "aggregatorService"
                        \/ i = 9 /\ s[i] = "configMap"
                        \/ i = 10 /\ s[i] = "daemonset"
                        \/ i = 11 /\ s[i] = "service"
<1> DEFINE s == Install("HAFluent")
<1>1. /\ Len(s) = 11 /\ s[1] = "token" /\ s[2] = "user" /\ s[3] = "password"
      /\ s[4] = "config" /\ s[5] = "legacy" /\ s[6] = "statefulset"
      /\ s[7] = "started" /\ s[8] = "aggregatorService" /\ s[9] = "configMap"
      /\ s[10] = "daemonset" /\ s[11] = "service"
  BY DEF Install, HAFluentRun, HandleConfigSecret, Fields
<1> HIDE DEF s
<1> QED
  BY <1>1, Positions DEF s

LEMMA InstallEventsReader ==
    LET s == Install("EventsReader") IN
    /\ Len(s) = 2 /\ s[1] = "deployment" /\ s[2] = "service"
    /\ \A i \in 1..2 : \/ i = 1 /\ s[i] = "deployment"
                       \/ i = 2 /\ s[i] = "service"
<1> DEFINE s == Install("EventsReader")
<1>1. /\ Len(s) = 2 /\ s[1] = "deployment" /\ s[2] = "service"
  BY DEF Install, EventsReaderRun
<1> HIDE DEF s
<1> QED
  BY <1>1, Positions DEF s

LEMMA InstallGraylog ==
    LET s == Install("Graylog") IN
    /\ Len(s) = 9 /\ s[1] = "credentials" /\ s[2] = "serviceAccount"
    /\ s[3] = "graylogConf" /\ s[4] = "oldDeployment" /\ s[5] = "upgradeJobs"
    /\ s[6] = "statefulset" /\ s[7] = "started" /\ s[8] = "service"
    /\ s[9] = "content"
    /\ \A i \in 1..9 : \/ i = 1 /\ s[i] = "credentials"
                       \/ i = 2 /\ s[i] = "serviceAccount"
                       \/ i = 3 /\ s[i] = "graylogConf"
                       \/ i = 4 /\ s[i] = "oldDeployment"
                       \/ i = 5 /\ s[i] = "upgradeJobs"
                       \/ i = 6 /\ s[i] = "statefulset"
                       \/ i = 7 /\ s[i] = "started"
                       \/ i = 8 /\ s[i] = "service"
                       \/ i = 9 /\ s[i] = "content"
<1> DEFINE s == Install("Graylog")
<1>1. /\ Len(s) = 9 /\ s[1] = "credentials" /\ s[2] = "serviceAccount"
      /\ s[3] = "graylogConf" /\ s[4] = "oldDeployment" /\ s[5] = "upgradeJobs"
      /\ s[6] = "statefulset" /\ s[7] = "started" /\ s[8] = "service"
      /\ s[9] = "content"
  BY DEF Install, GraylogRun
<1> HIDE DEF s
<1> QED
  BY <1>1, Positions DEF s

\* What uninstall goes through.
LEMMA UninstallFluentd ==
    LET s == Uninstall("Fluentd") IN
    /\ Len(s) = 5 /\ s[1] = "daemonset" /\ s[2] = "config" /\ s[3] = "legacy"
    /\ s[4] = "legacy" /\ s[5] = "service"
    /\ \A i \in 1..5 : \/ i = 1 /\ s[i] = "daemonset"
                       \/ i = 2 /\ s[i] = "config"
                       \/ i = 3 /\ s[i] = "legacy"
                       \/ i = 4 /\ s[i] = "legacy"
                       \/ i = 5 /\ s[i] = "service"
<1> DEFINE s == Uninstall("Fluentd")
<1>1. /\ Len(s) = 5 /\ s[1] = "daemonset" /\ s[2] = "config" /\ s[3] = "legacy"
      /\ s[4] = "legacy" /\ s[5] = "service"
  BY DEF Uninstall, FluentdUninstall
<1> HIDE DEF s
<1> QED
  BY <1>1, Positions DEF s

LEMMA UninstallFluentbit ==
    LET s == Uninstall("Fluentbit") IN
    /\ Len(s) = 4 /\ s[1] = "daemonset" /\ s[2] = "config" /\ s[3] = "legacy"
    /\ s[4] = "service"
    /\ \A i \in 1..4 : \/ i = 1 /\ s[i] = "daemonset"
                       \/ i = 2 /\ s[i] = "config"
                       \/ i = 3 /\ s[i] = "legacy"
                       \/ i = 4 /\ s[i] = "service"
<1> DEFINE s == Uninstall("Fluentbit")
<1>1. /\ Len(s) = 4 /\ s[1] = "daemonset" /\ s[2] = "config" /\ s[3] = "legacy"
      /\ s[4] = "service"
  BY DEF Uninstall, FluentbitUninstall
<1> HIDE DEF s
<1> QED
  BY <1>1, Positions DEF s

LEMMA UninstallHAFluent ==
    LET s == Uninstall("HAFluent") IN
    /\ Len(s) = 7 /\ s[1] = "daemonset" /\ s[2] = "configMap"
    /\ s[3] = "service" /\ s[4] = "statefulset" /\ s[5] = "config"
    /\ s[6] = "legacy" /\ s[7] = "aggregatorService"
    /\ \A i \in 1..7 : \/ i = 1 /\ s[i] = "daemonset"
                       \/ i = 2 /\ s[i] = "configMap"
                       \/ i = 3 /\ s[i] = "service"
                       \/ i = 4 /\ s[i] = "statefulset"
                       \/ i = 5 /\ s[i] = "config"
                       \/ i = 6 /\ s[i] = "legacy"
                       \/ i = 7 /\ s[i] = "aggregatorService"
<1> DEFINE s == Uninstall("HAFluent")
<1>1. /\ Len(s) = 7 /\ s[1] = "daemonset" /\ s[2] = "configMap"
      /\ s[3] = "service" /\ s[4] = "statefulset" /\ s[5] = "config"
      /\ s[6] = "legacy" /\ s[7] = "aggregatorService"
  BY DEF Uninstall, HAFluentUninstall
<1> HIDE DEF s
<1> QED
  BY <1>1, Positions DEF s

LEMMA UninstallEventsReader ==
    LET s == Uninstall("EventsReader") IN
    /\ Len(s) = 3 /\ s[1] = "deployment" /\ s[2] = "service"
    /\ s[3] = "serviceAccount"
    /\ \A i \in 1..3 : \/ i = 1 /\ s[i] = "deployment"
                       \/ i = 2 /\ s[i] = "service"
                       \/ i = 3 /\ s[i] = "serviceAccount"
<1> DEFINE s == Uninstall("EventsReader")
<1>1. /\ Len(s) = 3 /\ s[1] = "deployment" /\ s[2] = "service"
      /\ s[3] = "serviceAccount"
  BY DEF Uninstall, EventsReaderUninstall
<1> HIDE DEF s
<1> QED
  BY <1>1, Positions DEF s

LEMMA UninstallGraylog ==
    LET s == Uninstall("Graylog") IN
    /\ Len(s) = 7 /\ s[1] = "graylogClaim" /\ s[2] = "mongoClaim"
    /\ s[3] = "statefulset" /\ s[4] = "service" /\ s[5] = "graylogConf"
    /\ s[6] = "serviceAccount" /\ s[7] = "upgradeJobs"
    /\ \A i \in 1..7 : \/ i = 1 /\ s[i] = "graylogClaim"
                       \/ i = 2 /\ s[i] = "mongoClaim"
                       \/ i = 3 /\ s[i] = "statefulset"
                       \/ i = 4 /\ s[i] = "service"
                       \/ i = 5 /\ s[i] = "graylogConf"
                       \/ i = 6 /\ s[i] = "serviceAccount"
                       \/ i = 7 /\ s[i] = "upgradeJobs"
<1> DEFINE s == Uninstall("Graylog")
<1>1. /\ Len(s) = 7 /\ s[1] = "graylogClaim" /\ s[2] = "mongoClaim"
      /\ s[3] = "statefulset" /\ s[4] = "service" /\ s[5] = "graylogConf"
      /\ s[6] = "serviceAccount" /\ s[7] = "upgradeJobs"
  BY DEF Uninstall, GraylogUninstall
<1> HIDE DEF s
<1> QED
  BY <1>1, Positions DEF s

\* The credentials are read first, then the configuration is written.
LEMMA InstallReads ==
    ASSUME NEW c \in Components
    PROVE  /\ Len(Install(c)) \in Nat /\ Len(Install(c)) >= 1
           /\ c \in Agents => Len(Install(c)) >= 5
           /\ \A i \in 1..Len(Install(c)) :
                 /\ Install(c)[i] \in Reads <=> c \in Agents /\ i <= 3
                 /\ Install(c)[i] = "config" => c \in Agents /\ i = 4
           /\ c \in Agents => \A i \in 1..3 : Install(c)[i] = Fields[i]
<1>1. CASE c = "Fluentd"
  BY <1>1, InstallFluentd DEF Agents, Reads, Fields
<1>2. CASE c = "Fluentbit"
  BY <1>2, InstallFluentbit DEF Agents, Reads, Fields
<1>3. CASE c = "HAFluent"
  <2>1. Len(Install(c)) = 11 /\ c \in Agents
    BY <1>3, InstallHAFluent DEF Agents
  <2>2. ASSUME NEW i \in 1..11
        PROVE  /\ Install(c)[i] \in Reads <=> i <= 3
               /\ Install(c)[i] = "config" => i = 4
    BY <1>3, InstallHAFluent DEF Reads
  <2>3. \A i \in 1..3 : Install(c)[i] = Fields[i]
    BY <1>3, InstallHAFluent DEF Fields
  <2> QED
    BY <2>1, <2>2, <2>3
<1>4. CASE c = "EventsReader"
  BY <1>4, InstallEventsReader DEF Agents, Reads, Fields
<1>5. CASE c = "Graylog"
  <2>1. Len(Install(c)) = 9 /\ c \notin Agents
    BY <1>5, InstallGraylog DEF Agents
  <2>2. ASSUME NEW i \in 1..9
        PROVE  Install(c)[i] \notin Reads /\ Install(c)[i] # "config"
    BY <1>5, InstallGraylog DEF Reads
  <2> QED
    BY <2>1, <2>2
<1> QED
  BY <1>1, <1>2, <1>3, <1>4, <1>5 DEF Components

LEMMA UninstallPlanType ==
    ASSUME NEW c \in Components
    PROVE  /\ Len(Uninstall(c)) \in Nat /\ Len(Uninstall(c)) >= 1
           /\ \A i \in 1..Len(Uninstall(c)) : Uninstall(c)[i] \notin Reads \cup Others
<1>1. CASE c = "Fluentd"
  BY <1>1, UninstallFluentd DEF Reads, Others
<1>2. CASE c = "Fluentbit"
  BY <1>2, UninstallFluentbit DEF Reads, Others
<1>3. CASE c = "HAFluent"
  BY <1>3, UninstallHAFluent DEF Reads, Others
<1>4. CASE c = "EventsReader"
  BY <1>4, UninstallEventsReader DEF Reads, Others
<1>5. CASE c = "Graylog"
  BY <1>5, UninstallGraylog DEF Reads, Others
<1> QED
  BY <1>1, <1>2, <1>3, <1>4, <1>5 DEF Components

\* The entry that deleteConfigSecret of FluentD skips comes again.
LEMMA SkippedComesAgain ==
    ASSUME NEW i \in 1..Len(Uninstall("Fluentd")), Uninstall("Fluentd")[i] = "config"
    PROVE  /\ i + 2 \in 1..Len(Uninstall("Fluentd"))
           /\ Uninstall("Fluentd")[i + 1] = Uninstall("Fluentd")[i + 2]
<1>1. i = 2
  BY UninstallFluentd
<1> QED
  BY <1>1, UninstallFluentd

\* The kind of the configuration that the workload of kind k mounts.
ConfigKind(c, k) == IF c = "HAFluent" /\ k = "daemonset" THEN "configMap" ELSE "config"

\* The configuration comes before the workload that mounts it.
LEMMA ConfigBeforeWorkload ==
    ASSUME NEW c \in Agents, NEW i \in 1..Len(Install(c)), Install(c)[i] \in Workloads
    PROVE  \E j \in 1..(i - 1) : Install(c)[j] = ConfigKind(c, Install(c)[i])
<1>1. CASE c = "Fluentd"
  BY <1>1, InstallFluentd DEF Workloads, ConfigKind
<1>2. CASE c = "Fluentbit"
  BY <1>2, InstallFluentbit DEF Workloads, ConfigKind
<1>3. CASE c = "HAFluent"
  BY <1>3, InstallHAFluent, SMTT(30) DEF Workloads, ConfigKind
<1> QED
  BY <1>1, <1>2, <1>3 DEF Agents

\* The kinds of objects of each component.
LEMMA KindsOfComponents ==
    /\ Kinds("Fluentd") = {"config", "legacy", "daemonset", "service"}
    /\ Kinds("Fluentbit") = {"config", "legacy", "daemonset", "service"}
    /\ Kinds("HAFluent") = {"config", "legacy", "statefulset", "aggregatorService",
                            "configMap", "daemonset", "service"}
    /\ Kinds("EventsReader") = {"deployment", "service", "serviceAccount"}
    /\ Kinds("Graylog") = {"serviceAccount", "graylogConf", "oldDeployment",
                           "upgradeJobs", "statefulset", "service", "graylogClaim",
                           "mongoClaim"}
<1>1. Kinds("Fluentd") = {"config", "legacy", "daemonset", "service"}
  BY InstallFluentd, UninstallFluentd, SMTT(30) DEF Kinds, Elements, Reads, Others
<1>2. Kinds("Fluentbit") = {"config", "legacy", "daemonset", "service"}
  BY InstallFluentbit, UninstallFluentbit, SMTT(30) DEF Kinds, Elements, Reads, Others
<1>3. Kinds("HAFluent") = {"config", "legacy", "statefulset", "aggregatorService",
                           "configMap", "daemonset", "service"}
  <2>1. Elements(Install("HAFluent")) =
           {"token", "user", "password", "config", "legacy", "statefulset", "started",
            "aggregatorService", "configMap", "daemonset", "service"}
    <3> DEFINE s == Install("HAFluent")
    <3>1. \A i \in 1..11 : s[i] \in Elements(s)
      BY InstallHAFluent DEF Elements
    <3>2. \A e \in Elements(s) : \E i \in 1..11 : e = s[i]
      BY InstallHAFluent DEF Elements
    <3>3. ASSUME NEW e \in Elements(s)
          PROVE  e \in {"token", "user", "password", "config", "legacy", "statefulset",
                        "started", "aggregatorService", "configMap", "daemonset", "service"}
      BY <3>2, InstallHAFluent
    <3>4. /\ s[1] \in Elements(s) /\ s[2] \in Elements(s) /\ s[3] \in Elements(s)
          /\ s[4] \in Elements(s) /\ s[5] \in Elements(s) /\ s[6] \in Elements(s)
          /\ s[7] \in Elements(s) /\ s[8] \in Elements(s) /\ s[9] \in Elements(s)
          /\ s[10] \in Elements(s) /\ s[11] \in Elements(s)
      BY <3>1
    <3> QED
      BY <3>3, <3>4, InstallHAFluent
  <2>2. Elements(Uninstall("HAFluent")) =
           {"daemonset", "configMap", "service", "statefulset", "config", "legacy",
            "aggregatorService"}
    BY UninstallHAFluent DEF Elements
  <2> QED
    BY <2>1, <2>2 DEF Kinds, Reads, Others
<1>4. Kinds("EventsReader") = {"deployment", "service", "serviceAccount"}
  BY InstallEventsReader, UninstallEventsReader DEF Kinds, Elements, Reads, Others
<1>5. Kinds("Graylog") = {"serviceAccount", "graylogConf", "oldDeployment",
                          "upgradeJobs", "statefulset", "service", "graylogClaim",
                          "mongoClaim"}
  <2>1. Elements(Install("Graylog")) =
           {"credentials", "serviceAccount", "graylogConf", "oldDeployment", "upgradeJobs",
            "statefulset", "started", "service", "content"}
    <3> DEFINE s == Install("Graylog")
    <3>1. \A i \in 1..9 : s[i] \in Elements(s)
      BY InstallGraylog DEF Elements
    <3>2. \A e \in Elements(s) : \E i \in 1..9 : e = s[i]
      BY InstallGraylog DEF Elements
    <3>3. ASSUME NEW e \in Elements(s)
          PROVE  e \in {"credentials", "serviceAccount", "graylogConf", "oldDeployment",
                        "upgradeJobs", "statefulset", "started", "service", "content"}
      BY <3>2, InstallGraylog
    <3>4. /\ s[1] \in Elements(s) /\ s[2] \in Elements(s) /\ s[3] \in Elements(s)
          /\ s[4] \in Elements(s) /\ s[5] \in Elements(s) /\ s[6] \in Elements(s)
          /\ s[7] \in Elements(s) /\ s[8] \in Elements(s) /\ s[9] \in Elements(s)
      BY <3>1
    <3> QED
      BY <3>3, <3>4, InstallGraylog
  <2>2. Elements(Uninstall("Graylog")) =
           {"graylogClaim", "mongoClaim", "statefulset", "service", "graylogConf",
            "serviceAccount", "upgradeJobs"}
    BY UninstallGraylog DEF Elements
  <2> QED
    BY <2>1, <2>2 DEF Kinds, Reads, Others
<1> QED
  BY <1>1, <1>2, <1>3, <1>4, <1>5

\* All of them but the Deployment of an old Graylog are entries of uninstall.
LEMMA KindsAreUninstalled ==
    ASSUME NEW c \in Components, NEW k \in Kinds(c), <<c, k>> # <<"Graylog", "oldDeployment">>
    PROVE  \E i \in 1..Len(Uninstall(c)) : Uninstall(c)[i] = k
<1>1. CASE c = "Fluentd"
  BY <1>1, KindsOfComponents, UninstallFluentd
<1>2. CASE c = "Fluentbit"
  BY <1>2, KindsOfComponents, UninstallFluentbit
<1>3. CASE c = "HAFluent"
  BY <1>3, KindsOfComponents, UninstallHAFluent
<1>4. CASE c = "EventsReader"
  BY <1>4, KindsOfComponents, UninstallEventsReader
<1>5. CASE c = "Graylog"
  BY <1>5, KindsOfComponents, UninstallGraylog
<1> QED
  BY <1>1, <1>2, <1>3, <1>4, <1>5 DEF Components

\* A workload goes before the configuration that it mounts.
LEMMA WorkloadBeforeConfig ==
    ASSUME NEW c \in Agents, NEW i \in 1..Len(Uninstall(c)), NEW k \in Kinds(c) \cap Workloads,
           Uninstall(c)[i] = ConfigKind(c, k)
    PROVE  \E j \in 1..(i - 1) : Uninstall(c)[j] = k
<1>1. CASE c = "Fluentd"
  BY <1>1, KindsOfComponents, UninstallFluentd DEF Workloads, ConfigKind
<1>2. CASE c = "Fluentbit"
  BY <1>2, KindsOfComponents, UninstallFluentbit DEF Workloads, ConfigKind
<1>3. CASE c = "HAFluent"
  BY <1>3, KindsOfComponents, UninstallHAFluent DEF Workloads, ConfigKind
<1> QED
  BY <1>1, <1>2, <1>3 DEF Agents

\* Every agent has the configuration its workloads mount.
LEMMA ConfigIsAnObject ==
    ASSUME NEW c \in Agents, NEW k \in Kinds(c) \cap Workloads
    PROVE  ConfigKind(c, k) \in Kinds(c)
BY KindsOfComponents DEF Agents, ConfigKind

Has(s, c) == \E i \in 1..Len(s) : s[i] = c

LEMMA ConcatHas ==
    ASSUME NEW S, NEW s \in Seq(S), NEW t \in Seq(S)
    PROVE  /\ s \o t \in Seq(S) /\ Len(s \o t) = Len(s) + Len(t)
           /\ \A c : Has(s, c) \/ Has(t, c) => Has(s \o t, c)
<1>1. s \o t \in Seq(S) /\ Len(s \o t) = Len(s) + Len(t)
  OBVIOUS
<1>2. ASSUME NEW c, Has(s, c) PROVE Has(s \o t, c)
  <2>1. PICK i \in 1..Len(s) : s[i] = c
    BY <1>2 DEF Has
  <2>2. i \in 1..Len(s \o t) /\ (s \o t)[i] = c
    BY <2>1
  <2> QED
    BY <2>2 DEF Has
<1>3. ASSUME NEW c, Has(t, c) PROVE Has(s \o t, c)
  <2>1. PICK i \in 1..Len(t) : t[i] = c
    BY <1>3 DEF Has
  <2>2. Len(s) + i \in 1..Len(s \o t) /\ (s \o t)[Len(s) + i] = c
    BY <2>1
  <2> QED
    BY <2>2 DEF Has
<1> QED
  BY <1>1, <1>2, <1>3

\* The components of the group, in the order of the controller, each once.
LEMMA RunsType ==
    ASSUME managed \in Groups
    PROVE  /\ Runs \in Seq(managed)
           /\ Len(Runs) \in Nat /\ Len(Runs) >= 1
           /\ managed \subseteq Components
           /\ \A c \in managed : \E i \in 1..Len(Runs) : Runs[i] = c
<1>1. managed # {} /\ managed \subseteq Components
  BY ConstantsAssumption
<1>2. ASSUME NEW c
      PROVE  IfManaged(c) \in Seq(managed) /\ (c \in managed => Has(IfManaged(c), c))
  BY DEF IfManaged, Has
<1> DEFINE s1 == IfManaged("Graylog") \o IfManaged("Fluentd")
           s2 == s1 \o IfManaged("Fluentbit")
           s3 == s2 \o IfManaged("HAFluent")
           s4 == s3 \o IfManaged("EventsReader")
<1>3. /\ s1 \in Seq(managed)
      /\ \A c \in managed \cap {"Graylog", "Fluentd"} : Has(s1, c)
  BY <1>2, ConcatHas
<1> HIDE DEF s1
<1>4. /\ s2 \in Seq(managed)
      /\ \A c \in managed \cap {"Graylog", "Fluentd", "Fluentbit"} : Has(s2, c)
  BY <1>2, <1>3, ConcatHas
<1> HIDE DEF s2
<1>5. /\ s3 \in Seq(managed)
      /\ \A c \in managed \cap {"Graylog", "Fluentd", "Fluentbit", "HAFluent"} : Has(s3, c)
  BY <1>2, <1>4, ConcatHas
<1> HIDE DEF s3
<1>6. s4 \in Seq(managed) /\ \A c \in managed : Has(s4, c)
  BY <1>1, <1>2, <1>5, ConcatHas DEF Components
<1> HIDE DEF s4
<1>7. Runs = s4
  BY DEF Runs, s1, s2, s3, s4
<1> QED
  BY <1>1, <1>6, <1>7 DEF Has

Once(s) == \A i, j \in 1..Len(s) : s[i] = s[j] => i = j

\* Two sequences without repetition, of elements from disjoint sets.
LEMMA ConcatOnce ==
    ASSUME NEW S, NEW T, S \cap T = {}, NEW s \in Seq(S), NEW t \in Seq(T),
           Once(s), Once(t)
    PROVE  s \o t \in Seq(S \cup T) /\ Once(s \o t)
<1>1. /\ Len(s) \in Nat /\ Len(t) \in Nat /\ Len(s \o t) = Len(s) + Len(t)
      /\ \A i \in 1..Len(s) : s[i] \in S
      /\ \A i \in 1..Len(t) : t[i] \in T
  OBVIOUS
<1>2. \A i \in 1..Len(s \o t) :
         (s \o t)[i] = IF i <= Len(s) THEN s[i] ELSE t[i - Len(s)]
  OBVIOUS
<1>3. s \o t \in Seq(S \cup T)
  <2>1. s \in Seq(S \cup T) /\ t \in Seq(S \cup T)
    OBVIOUS
  <2> QED
    BY <2>1
<1>4. ASSUME NEW i \in 1..Len(s \o t), NEW j \in 1..Len(s \o t), (s \o t)[i] = (s \o t)[j]
      PROVE  i = j
  <2>1. CASE i <= Len(s) /\ j <= Len(s)
    BY <1>1, <1>2, <1>4, <2>1 DEF Once
  <2>2. CASE i > Len(s) /\ j > Len(s)
    <3>1. /\ i - Len(s) \in 1..Len(t) /\ j - Len(s) \in 1..Len(t)
          /\ t[i - Len(s)] = t[j - Len(s)]
      BY <1>1, <1>2, <1>4, <2>2
    <3>2. i - Len(s) = j - Len(s)
      BY <3>1 DEF Once
    <3> QED
      BY <1>1, <3>2
  <2>3. CASE i <= Len(s) /\ j > Len(s)
    <3>1. i \in 1..Len(s) /\ j - Len(s) \in 1..Len(t) /\ s[i] = t[j - Len(s)]
      BY <1>1, <1>2, <1>4, <2>3
    <3> QED
      BY <1>1, <3>1
  <2>4. CASE i > Len(s) /\ j <= Len(s)
    <3>1. j \in 1..Len(s) /\ i - Len(s) \in 1..Len(t) /\ s[j] = t[i - Len(s)]
      BY <1>1, <1>2, <1>4, <2>4
    <3> QED
      BY <1>1, <3>1
  <2> QED
    BY <1>1, <2>1, <2>2, <2>3, <2>4
<1> QED
  BY <1>3, <1>4 DEF Once

LEMMA RunsOnce ==
    ASSUME managed \in Groups, NEW i \in 1..Len(Runs), NEW j \in 1..Len(Runs),
           Runs[i] = Runs[j]
    PROVE  i = j
<1> DEFINE s1 == IfManaged("Graylog") \o IfManaged("Fluentd")
           s2 == s1 \o IfManaged("Fluentbit")
           s3 == s2 \o IfManaged("HAFluent")
           s4 == s3 \o IfManaged("EventsReader")
<1>1. ASSUME NEW c
      PROVE  IfManaged(c) \in Seq({c}) /\ Once(IfManaged(c))
  <2>1. <<c>> \in Seq({c}) /\ << >> \in Seq({c}) /\ Len(<<c>>) = 1 /\ Len(<< >>) = 0
    OBVIOUS
  <2>2. Once(<<c>>)
    BY <2>1 DEF Once
  <2>3. Once(<< >>)
    BY <2>1 DEF Once
  <2>4. IfManaged(c) = <<c>> \/ IfManaged(c) = << >>
    BY DEF IfManaged
  <2> QED
    BY <2>1, <2>2, <2>3, <2>4
<1>2. s1 \in Seq({"Graylog"} \cup {"Fluentd"}) /\ Once(s1)
  <2>1. {"Graylog"} \cap {"Fluentd"} = {}
    OBVIOUS
  <2> QED
    BY <1>1, <2>1, ConcatOnce
<1> HIDE DEF s1
<1>3. s2 \in Seq(({"Graylog"} \cup {"Fluentd"}) \cup {"Fluentbit"}) /\ Once(s2)
  <2>1. ({"Graylog"} \cup {"Fluentd"}) \cap {"Fluentbit"} = {}
    OBVIOUS
  <2> QED
    BY <1>1, <1>2, <2>1, ConcatOnce
<1> HIDE DEF s2
<1>4. /\ s3 \in Seq((({"Graylog"} \cup {"Fluentd"}) \cup {"Fluentbit"}) \cup {"HAFluent"})
      /\ Once(s3)
  <2>1. (({"Graylog"} \cup {"Fluentd"}) \cup {"Fluentbit"}) \cap {"HAFluent"} = {}
    OBVIOUS
  <2> QED
    BY <1>1, <1>3, <2>1, ConcatOnce
<1> HIDE DEF s3
<1>5. Once(s4)
  <2>1. ((({"Graylog"} \cup {"Fluentd"}) \cup {"Fluentbit"}) \cup {"HAFluent"})
           \cap {"EventsReader"} = {}
    OBVIOUS
  <2> QED
    BY <1>1, <1>4, <2>1, ConcatOnce
<1> HIDE DEF s4
<1>6. Runs = s4
  BY DEF Runs, s1, s2, s3, s4
<1> QED
  BY <1>5, <1>6 DEF Once

\* The objects are pairs.
LEMMA ObjectsArePairs ==
    /\ \A o \in Objects : o = <<o[1], o[2]>> /\ o[1] \in managed /\ o[2] \in Kinds(o[1])
    /\ \A c \in managed : \A k \in Kinds(c) : <<c, k>> \in Objects
BY DEF Objects
-----------------------------------------------------------------------------
(***************************************************************************)
(* Types of the parts.                                                     *)
(***************************************************************************)
LEMMA KubeObjectType ==
    KubeObject = [exists : BOOLEAN, from : Renderings, foreign : BOOLEAN, rollout : Rollouts]
BY DEF KubeObject, Renderings, Variants, Runtimes, Credential

LEMMA OlderType == Older \in Renderings /\ NoObject \in KubeObject
<1>1. Older \in Renderings
  BY DEF Older, Rendering, Renderings, Runtimes
<1> QED
  BY <1>1, KubeObjectType DEF NoObject, Rollouts

\* The component at hand, and its plan.
LEMMA ComponentType ==
    ASSUME TypeInv
    PROVE  /\ Component \in managed /\ Component \in Components
           /\ managed \in Groups /\ managed \subseteq Components
           /\ at \in 1..Len(Runs) /\ Len(Runs) \in Nat
           /\ Len(Plan) \in Nat /\ Len(Plan) >= 1
<1>1. managed \in Groups /\ at \in 1..Len(Runs)
  BY DEF TypeInv, GoodWorld, GoodWorker
<1>2. Component \in managed /\ managed \subseteq Components /\ Len(Runs) \in Nat
  BY <1>1, RunsType DEF Component
<1> QED
  BY <1>1, <1>2, InstallReads, UninstallPlanType DEF Plan

LEMMA ObjectType ==
    ASSUME TypeInv, Planned, Entry \notin Reads \cup Others
    PROVE  /\ Object \in Objects /\ Object = <<Component, Entry>>
           /\ Object[1] = Component /\ Object[2] = Entry
<1>1. Component \in managed /\ step \in 1..Len(Plan)
  BY ComponentType DEF TypeInv, GoodWorker
<1>2. Entry \in Kinds(Component)
  BY <1>1 DEF Entry, Plan, Kinds, Elements, Planned
<1> QED
  BY <1>1, <1>2, ObjectsArePairs DEF Object

\* Nothing of uninstall is a read.
LEMMA UninstallEntry ==
    ASSUME TypeInv, pc = "uninstall"
    PROVE  Entry \notin Reads \cup Others
<1>1. step \in 1..Len(Uninstall(Component)) /\ Component \in Components
  BY ComponentType DEF TypeInv, GoodWorker, Planned, Plan
<1> QED
  BY <1>1, UninstallPlanType DEF Entry, Plan

LEMMA SpecType ==
    ASSUME NEW s \in UserSpecs
    PROVE  /\ s.parts \in LoggingServiceSpec /\ s.auth \in Auth /\ s.complete \in BOOLEAN
           /\ s.runtime \in {t.runtime : t \in UserSpecs}
           /\ s.variant \in Variants
BY ConstantsAssumption DEF Variants

\* A status patch leaves a specification in the object of the cycle.
LEMMA AfterPatchType ==
    ASSUME GoodWorld, GoodLocal, local' \in AfterPatch, UNCHANGED spec
    PROVE  GoodLocal'
<1>1. CASE local' = local
  BY <1>1 DEF GoodLocal
<1>2. CASE local' = Decoded
  <2>1. spec \in UserSpecs
    BY DEF GoodWorld
  <2>2. Decoded.parts \in LoggingServiceSpec
    BY <2>1, SpecType DEF Decoded, Decode, GoodLocal, LoggingServiceSpec
  <2>3. Decoded.auth \in Auth
    BY <2>1, SpecType DEF Decoded, GoodLocal, Auth, Reads
  <2>4. /\ Decoded.complete \in BOOLEAN
        /\ Decoded.runtime \in {NoRuntime} \cup {s.runtime : s \in UserSpecs}
        /\ Decoded.variant \in Variants
    BY <2>1, SpecType DEF Decoded, GoodLocal
  <2> HIDE DEF Decoded
  <2> QED
    BY <1>2, <2>2, <2>3, <2>4 DEF GoodLocal
<1> QED
  BY <1>1, <1>2 DEF AfterPatch

\* What a handler renders.
LEMMA DesiredType ==
    ASSUME TypeInv, pc = "install", Entry \notin Reads \cup Others
    PROVE  Desired \in Renderings
<1>1. /\ local.variant \in Variants /\ memory \in Runtimes /\ NoRuntime \in Runtimes
  BY DEF TypeInv, GoodWorker, GoodLocal, Runtimes
<1>2. ASSUME Entry = "config" PROVE creds \in [1..3 -> Credential]
  <2>1. Component \in Components /\ step \in 1..Len(Install(Component))
    BY ComponentType DEF TypeInv, GoodWorker, Planned, Plan
  <2>2. Component \in Agents /\ step = 4
    BY <1>2, <2>1, InstallReads DEF Entry, Plan
  <2>3. Len(creds) = 3 /\ creds \in Seq(Credential)
    BY <2>2 DEF TypeInv, GoodWorker, ReadBefore
  <2> QED
    BY <2>3
<1> QED
  BY <1>1, <1>2 DEF Desired, Manifest, Rendering, Renderings, CarriesCredentials
-----------------------------------------------------------------------------
(***************************************************************************)
(* The calls.                                                              *)
(***************************************************************************)
LEMMA CreatedType ==
    ASSUME NEW o, NEW m \in Renderings
    PROVE  /\ Created(o, m) \in KubeObject
           /\ Created(o, m).exists /\ Created(o, m).from = m /\ ~Created(o, m).foreign
BY KubeObjectType DEF Created, Rollouts

LEMMA MutatedType ==
    ASSUME NEW x \in KubeObject, NEW k, NEW m \in Renderings
    PROVE  /\ Mutated(x, k, m) \in KubeObject
           /\ Mutated(x, k, m).exists = x.exists
           /\ Mutated(x, k, m).from = m
           /\ k \in Workloads => Mutated(x, k, m).foreign = x.foreign
           /\ ~x.foreign => ~Mutated(x, k, m).foreign
BY KubeObjectType DEF Mutated, MutatedWorkload, MutatedService, Rollouts

\* What every handler promises of the object o it is called with.
Promise(r, o) ==
    /\ r.ok \in BOOLEAN
    /\ r.obj \in KubeObject
    /\ ~r.obj.exists => ~r.obj.foreign
    /\ ~r.ok => r.obj = objs[o]

LEMMA DeletePromise ==
    ASSUME GoodObjects, NEW o \in Objects
    PROVE  /\ Promise(deleteIfExists(o), o)
           /\ deleteIfExists(o).obj \in {objs[o], NoObject}
<1>1. objs[o] \in KubeObject /\ (~objs[o].exists => ~objs[o].foreign)
  BY DEF GoodObjects
<1>2. objs[o].exists \in BOOLEAN /\ cached[o].exists \in BOOLEAN
  BY KubeObjectType DEF GoodObjects
<1>3. /\ deleteIfExists(o).ok \in BOOLEAN
      /\ deleteIfExists(o).obj \in {objs[o], NoObject}
      /\ ~deleteIfExists(o).ok => deleteIfExists(o).obj = objs[o]
  BY <1>2 DEF deleteIfExists, Ok, Error
<1>4. ~NoObject.foreign
  BY DEF NoObject
<1> QED
  BY <1>1, <1>3, <1>4, OlderType DEF Promise

\* Create and update: after a success the object is there, and the labels that
\* others set on a workload are still there.
WritePromise(r, o) ==
    /\ Promise(r, o)
    /\ r.ok => r.obj.exists
    /\ o[2] \in Workloads /\ objs[o].foreign => r.obj.foreign

LEMMA OkPromise ==
    ASSUME NEW o, o[2] \notin Workloads, NEW x \in KubeObject, x.exists, NEW r, r = Ok(x)
    PROVE  WritePromise(r, o)
<1>1. r.ok = TRUE /\ r.obj = x
  BY DEF Ok
<1> QED
  BY <1>1 DEF WritePromise, Promise

LEMMA ErrorPromise ==
    ASSUME GoodObjects, NEW o \in Objects, o[2] \notin Workloads, NEW r, r = Error(o)
    PROVE  WritePromise(r, o)
<1>1. r.ok = FALSE /\ r.obj = objs[o]
  BY DEF Error
<1>2. objs[o] \in KubeObject /\ (~objs[o].exists => ~objs[o].foreign)
  BY DEF GoodObjects
<1> QED
  BY <1>1, <1>2 DEF WritePromise, Promise

LEMMA HandlersPromise ==
    ASSUME GoodObjects, NEW o \in Objects, NEW m \in Renderings
    PROVE  /\ WritePromise(createOrUpdate(o, m), o)
           /\ o[2] \notin Workloads => WritePromise(CreateOrUpdateConfigSecret(o, m), o)
           /\ o[2] \notin Workloads => WritePromise(updateConfigMap(o, m), o)
           /\ o[2] \notin Workloads => WritePromise(handleConfigMap(o, m), o)
<1>1. /\ objs[o] \in KubeObject /\ cached[o] \in KubeObject
      /\ (~objs[o].exists => ~objs[o].foreign) /\ (fresh[o] => cached[o] = objs[o])
      /\ fresh[o] \in BOOLEAN
  BY DEF GoodObjects
<1>2. /\ objs[o].exists \in BOOLEAN /\ cached[o].exists \in BOOLEAN
  BY <1>1, KubeObjectType
<1> DEFINE new == Created(o, m)
           mine == Mutated(cached[o], o[2], m)
           theirs == Mutated(objs[o], o[2], m)
<1>3. /\ new \in KubeObject /\ new.exists /\ ~new.foreign
      /\ mine \in KubeObject /\ mine.exists = cached[o].exists
      /\ theirs \in KubeObject /\ theirs.exists = objs[o].exists
      /\ o[2] \in Workloads => mine.foreign = cached[o].foreign
  BY <1>1, CreatedType, MutatedType
<1> HIDE DEF new, mine, theirs
<1>4. WritePromise(createOrUpdate(o, m), o)
  <2>1. createOrUpdate(o, m) =
          CASE ~objs[o].exists -> Ok(new)
            [] objs[o].exists /\ cached[o].exists /\ fresh[o] -> Ok(mine)
            [] OTHER -> Error(o)
    BY DEF createOrUpdate, new, mine
  <2> QED
    BY <1>1, <1>2, <1>3, <2>1 DEF WritePromise, Promise, Ok, Error
<1>5. ASSUME o[2] \notin Workloads
      PROVE  WritePromise(CreateOrUpdateConfigSecret(o, m), o)
  <2>1. \/ CreateOrUpdateConfigSecret(o, m) = Error(o)
        \/ CreateOrUpdateConfigSecret(o, m) = Ok(new)
        \/ CreateOrUpdateConfigSecret(o, m) = Ok(objs[o]) /\ objs[o].exists
        \/ CreateOrUpdateConfigSecret(o, m) = Ok(mine) /\ cached[o].exists
    BY <1>2 DEF CreateOrUpdateConfigSecret, new, mine
  <2> QED
    BY <1>1, <1>2, <1>3, <1>5, <2>1, OkPromise, ErrorPromise
<1>6. ASSUME o[2] \notin Workloads
      PROVE  WritePromise(updateConfigMap(o, m), o)
  <2>1. \/ updateConfigMap(o, m) = Error(o)
        \/ updateConfigMap(o, m) = Ok(new)
        \/ updateConfigMap(o, m) \in {Ok(objs[o]), Ok(theirs)} /\ objs[o].exists
    BY <1>2 DEF updateConfigMap, new, theirs
  <2> QED
    BY <1>1, <1>2, <1>3, <1>6, <2>1, OkPromise, ErrorPromise
<1>7. ASSUME o[2] \notin Workloads
      PROVE  WritePromise(handleConfigMap(o, m), o)
  <2>1. \/ handleConfigMap(o, m) = Ok(new)
        \/ handleConfigMap(o, m) = Ok(theirs) /\ objs[o].exists
    BY <1>2 DEF handleConfigMap, new, theirs
  <2> QED
    BY <1>1, <1>2, <1>3, <1>7, <2>1, OkPromise
<1> QED
  BY <1>4, <1>5, <1>6, <1>7

LEMMA HandlePromise ==
    ASSUME TypeInv, pc = "install", Entry \notin Reads \cup Others
    PROVE  /\ Promise(Handle, Object)
           /\ Handle.ok /\ Entry \notin OnlyDeleted => Handle.obj.exists
           /\ Entry \in Workloads /\ objs[Object].foreign => Handle.obj.foreign
<1>1. GoodObjects /\ Object \in Objects /\ Object[2] = Entry /\ Desired \in Renderings
  BY ObjectType, DesiredType DEF TypeInv, Planned
<1> HIDE DEF Desired, Object, Entry
<1>2. CASE Entry \in OnlyDeleted
  <2>1. Handle = deleteIfExists(Object) /\ Entry \notin Workloads
    BY <1>2 DEF Handle, OnlyDeleted, Workloads
  <2> QED
    BY <1>1, <1>2, <2>1, DeletePromise
<1>3. CASE Entry \notin OnlyDeleted
  <2>1. WritePromise(Handle, Object)
    <3>1. CASE Entry = "config"
      <4>1. Handle = CreateOrUpdateConfigSecret(Object, Desired) /\ Entry \notin Workloads
        BY <1>3, <3>1 DEF Handle, Workloads
      <4> QED
        BY <1>1, <4>1, HandlersPromise
    <3>2. CASE Entry = "configMap"
      <4>1. Handle = updateConfigMap(Object, Desired) /\ Entry \notin Workloads
        BY <1>3, <3>2 DEF Handle, Workloads
      <4> QED
        BY <1>1, <4>1, HandlersPromise
    <3>3. CASE Entry = "graylogConf"
      <4>1. Handle = handleConfigMap(Object, Desired) /\ Entry \notin Workloads
        BY <1>3, <3>3 DEF Handle, Workloads
      <4> QED
        BY <1>1, <4>1, HandlersPromise
    <3>4. CASE Entry \notin {"config", "configMap", "graylogConf"}
      <4>1. Handle = createOrUpdate(Object, Desired)
        BY <1>3, <3>4 DEF Handle
      <4> QED
        BY <1>1, <4>1, HandlersPromise
    <3> QED
      BY <3>1, <3>2, <3>3, <3>4
  <2> QED
    BY <1>1, <1>3, <2>1 DEF WritePromise
<1> QED
  BY <1>2, <1>3

\* An object is written.
LEMMA WriteKeepsObjects ==
    ASSUME GoodObjects, NEW o \in Objects, NEW x \in KubeObject, ~x.exists => ~x.foreign,
           Write(o, x), UNCHANGED managed
    PROVE  GoodObjects'
<1>1. Objects' = Objects
  BY DEF Objects
<1>2. objs' \in [Objects -> KubeObject] /\ cached' = cached /\ fresh' \in [Objects -> BOOLEAN]
  BY DEF Write, GoodObjects
<1>3. ASSUME NEW p \in Objects
      PROVE  (fresh'[p] => cached'[p] = objs'[p]) /\ (~objs'[p].exists => ~objs'[p].foreign)
  <2>1. objs'[p] = IF p = o THEN x ELSE objs[p]
    BY DEF Write, GoodObjects
  <2>2. fresh'[p] = IF p = o THEN fresh[o] /\ x = objs[o] ELSE fresh[p]
    BY DEF Write, GoodObjects
  <2>3. (fresh[p] => cached[p] = objs[p]) /\ (~objs[p].exists => ~objs[p].foreign)
    BY DEF GoodObjects
  <2> QED
    BY <1>2, <2>1, <2>2, <2>3
<1> QED
  BY <1>1, <1>2, <1>3 DEF GoodObjects

LEMMA ObjectsStay ==
    ASSUME GoodObjects, UNCHANGED <<objects, managed>>
    PROVE  GoodObjects'
BY DEF GoodObjects, objects, Objects

\* New copies of everything.
LEMMA NewCopiesKeepObjects ==
    ASSUME GoodObjects, UNCHANGED <<objs, managed>>, cached' = objs,
           fresh' = [o \in Objects |-> TRUE]
    PROVE  GoodObjects'
BY DEF GoodObjects, Objects

LEMMA WorldStays ==
    ASSUME GoodWorld, UNCHANGED <<world, copies, requests>>
    PROVE  GoodWorld'
BY DEF GoodWorld, world, copies, requests
-----------------------------------------------------------------------------
(***************************************************************************)
(* How a run goes on.                                                      *)
(***************************************************************************)

\* The run comes to a later entry of its plan, or to its end.
Moves ==
    \/ /\ UNCHANGED <<pc, at, pending>>
       /\ step' \in 1..Len(Plan)
       /\ \/ step' = step + 1
          \/ pc = "uninstall" /\ step' = step + 2 /\ Plan[step + 1] = Plan[step + 2]
    \/ /\ pc' \in {"begin", "wait"}
       /\ at' \in 1..Len(Runs)
       /\ step' = 1
       /\ creds' = <<>>
       /\ pending' \subseteq managed

LEMMA NextRunMoves ==
    ASSUME TypeInv, NextRun
    PROVE  pc' \in {"begin", "wait"} /\ at' \in 1..Len(Runs) /\ step' = 1 /\ creds' = <<>>
BY ComponentType DEF NextRun

LEMMA ContinueMoves ==
    ASSUME TypeInv, Planned, NEW cs, Continue(cs)
    PROVE  Moves /\ (pc' = pc => creds' = cs) /\ UNCHANGED success
<1>1. /\ step \in 1..Len(Plan) /\ Len(Plan) \in Nat /\ pending \subseteq managed
      /\ Component \in managed
  BY ComponentType DEF TypeInv, GoodWorker
<1>2. CASE step < Len(Plan)
  BY <1>1, <1>2 DEF Continue, Moves
<1>3. CASE ~(step < Len(Plan))
  <2>1. NextRun /\ pending' \subseteq managed /\ UNCHANGED success
    BY <1>1, <1>3 DEF Continue
  <2>2. pc' # pc
    BY <2>1, NextRunMoves DEF Planned
  <2> QED
    BY <2>1, <2>2, NextRunMoves DEF Moves
<1> QED
  BY <1>2, <1>3

LEMMA AbortMoves ==
    ASSUME TypeInv, Planned, Abort
    PROVE  Moves /\ pc' # pc /\ success' = FALSE
BY NextRunMoves DEF Abort, Moves, TypeInv, GoodWorker, Planned

LEMMA SkipOneMoves ==
    ASSUME TypeInv, pc = "uninstall", SkipOne
    PROVE  Moves /\ (pc' = pc => creds' = creds) /\ UNCHANGED success
<1>1. CASE Component = "Fluentd" /\ Entry = "config"
  <2>1. step \in 1..Len(Uninstall("Fluentd")) /\ Uninstall("Fluentd")[step] = "config"
    BY <1>1 DEF TypeInv, GoodWorker, Planned, Plan, Entry
  <2>2. /\ step + 2 \in 1..Len(Plan)
        /\ Plan[step + 1] = Plan[step + 2]
    BY <1>1, <2>1, SkippedComesAgain DEF Plan
  <2> QED
    BY <1>1, <2>2 DEF SkipOne, Moves
<1>2. CASE ~(Component = "Fluentd" /\ Entry = "config")
  BY <1>2, ContinueMoves DEF SkipOne, Planned
<1> QED
  BY <1>1, <1>2

LEMMA MovesKeepWorker ==
    ASSUME TypeInv, Planned, Moves, UNCHANGED <<managed, local, memory, outcome>>,
           success' \in BOOLEAN, left' \subseteq Objects,
           pc' = "install" => /\ creds' \in Seq(Credential)
                              /\ Len(creds') = ReadBefore(Component, step'),
           pc' = "uninstall" => creds' = creds
    PROVE  GoodWorker'
<1>1. GoodWorker /\ Runs' = Runs /\ Objects' = Objects
  BY DEF TypeInv, Runs, IfManaged, Objects
<1>2. GoodLocal'
  BY <1>1 DEF GoodWorker, GoodLocal, Planned
<1>3. CASE /\ UNCHANGED <<pc, at, pending>> /\ step' \in 1..Len(Plan)
  <2>1. Component' = Component /\ Plan' = Plan
    BY <1>1, <1>3 DEF Component, Plan
  <2>2. Len(Plan) \in Nat
    BY ComponentType
  <2>3. creds' \in Seq(Credential)
    BY <1>1, <1>3 DEF GoodWorker, Planned
  <2>4. Planned'
    BY <1>3 DEF Planned
  <2> QED
    BY <1>1, <1>2, <1>3, <2>1, <2>2, <2>3, <2>4 DEF GoodWorker
<1>4. CASE /\ pc' \in {"begin", "wait"} /\ at' \in 1..Len(Runs) /\ step' = 1
           /\ creds' = <<>> /\ pending' \subseteq managed
  <2>1. ~Planned' /\ <<>> \in Seq(Credential)
    BY <1>4 DEF Planned
  <2> QED
    BY <1>1, <1>2, <1>4, <2>1 DEF GoodWorker
<1> QED
  BY <1>3, <1>4 DEF Moves

\* Behind the reads no credential is added.
LEMMA ReadsAreOver ==
    ASSUME TypeInv, pc = "install", Entry \notin Reads, Moves, pc' = pc => creds' = creds
    PROVE  /\ pc' = "install" => /\ creds' \in Seq(Credential)
                                 /\ Len(creds') = ReadBefore(Component, step')
           /\ pc' # "uninstall"
<1>1. /\ step \in 1..Len(Install(Component)) /\ Component \in Components
      /\ creds \in Seq(Credential) /\ Len(creds) = ReadBefore(Component, step)
  BY ComponentType DEF TypeInv, GoodWorker, Planned, Plan
<1>2. ~(Component \in Agents /\ step <= 3)
  BY <1>1, InstallReads DEF Entry, Plan
<1>3. ReadBefore(Component, step + 1) = ReadBefore(Component, step)
  BY <1>1, <1>2 DEF ReadBefore
<1>4. pc' = "install" => step' = step + 1
  BY DEF Moves
<1> QED
  BY <1>1, <1>3, <1>4 DEF Moves

\* What every call of a run leaves alone.
LEMMA BeyondType ==
    ASSUME TypeInv, UNCHANGED beyond
    PROVE  GoodWorld' /\ UNCHANGED <<managed, spec, local, memory, outcome>>
BY WorldStays DEF TypeInv, beyond, world

LEMMA LeavesType ==
    ASSUME TypeInv, Object \in Objects, NEW x, NEW f, Leaves(x, f) \/ UNCHANGED left
    PROVE  left' \subseteq Objects
BY DEF TypeInv, GoodWorker, Leaves
-----------------------------------------------------------------------------
(***************************************************************************)
(* Types are kept, action by action.                                       *)
(***************************************************************************)
LEMMA ResolveKeepsType ==
    ASSUME TypeInv, ResolveSecretKeyValue
    PROVE  TypeInv'
<1> DEFINE n == local.auth[Component][Entry]
<1>1. /\ pc = "install" /\ Planned /\ Entry \in Reads /\ UNCHANGED beyond
      /\ UNCHANGED objects /\ UNCHANGED left
  BY DEF ResolveSecretKeyValue, Planned
<1>2. /\ GoodWorld' /\ UNCHANGED <<managed, spec, local, memory, outcome>>
      /\ GoodObjects'
  BY <1>1, BeyondType, ObjectsStay DEF TypeInv
<1>3. /\ step \in 1..Len(Install(Component)) /\ Component \in Components
      /\ creds \in Seq(Credential) /\ Len(creds) = ReadBefore(Component, step)
      /\ success \in BOOLEAN /\ left \subseteq Objects /\ GoodLocal
      /\ secretCache \in [Secrets -> Values \cup {Missing}]
  BY <1>1, ComponentType DEF TypeInv, GoodWorker, GoodWorld, Planned, Plan
<1>4. Component \in Agents /\ step <= 3
  BY <1>1, <1>3, InstallReads DEF Entry, Plan
<1>5. n \in Secrets \cup {NoSecret}
  BY <1>1, <1>3, <1>4 DEF GoodLocal, Auth, Reads
<1>6. ASSUME n # NoSecret, Renders(Component, secretCache[n])
      PROVE  secretCache[n] \in Credential
  BY <1>3, <1>5, <1>6 DEF Renders, Credential
<1>7. CASE \E v \in Credential : Continue(Append(creds, v))
  <2>1. PICK v \in Credential : Continue(Append(creds, v))
    BY <1>7
  <2>2. Moves /\ (pc' = pc => creds' = Append(creds, v)) /\ UNCHANGED success
    BY <1>1, <2>1, ContinueMoves
  <2>3. Append(creds, v) \in Seq(Credential) /\ Len(Append(creds, v)) = step
    BY <1>3, <1>4 DEF ReadBefore
  <2>4. ReadBefore(Component, step + 1) = step
    BY <1>3, <1>4 DEF ReadBefore
  <2>5. pc' = "install" => /\ creds' \in Seq(Credential)
                           /\ Len(creds') = ReadBefore(Component, step')
    BY <1>1, <2>2, <2>3, <2>4 DEF Moves
  <2>6. pc' # "uninstall"
    BY <1>1, <2>2 DEF Moves
  <2> QED
    BY <1>1, <1>2, <1>3, <2>2, <2>5, <2>6, MovesKeepWorker DEF TypeInv
<1>8. CASE Abort
  <2>1. Moves /\ pc' # pc /\ success' = FALSE
    BY <1>1, <1>8, AbortMoves
  <2>2. pc' \notin {"install", "uninstall"}
    BY <1>1, <2>1 DEF Moves
  <2> QED
    BY <1>1, <1>2, <1>3, <2>1, <2>2, MovesKeepWorker DEF TypeInv
<1>9. NoValue \in Credential
  BY DEF Credential
<1> QED
  BY <1>6, <1>7, <1>8, <1>9 DEF ResolveSecretKeyValue

\* A call of Run: the object is written or not, and the run goes on or ends.
LEMMA CallKeepsType ==
    ASSUME TypeInv, Planned, Entry \notin Reads, UNCHANGED beyond,
           Continue(creds) \/ Abort \/ (pc = "uninstall" /\ SkipOne),
           GoodObjects', left' \subseteq Objects
    PROVE  TypeInv'
<1>1. GoodWorld' /\ UNCHANGED <<managed, spec, local, memory, outcome>>
  BY BeyondType
<1>2. Moves /\ (pc' = pc => creds' = creds) /\ success' \in BOOLEAN
  BY ContinueMoves, AbortMoves, SkipOneMoves DEF TypeInv, GoodWorker
<1>3. CASE pc = "install"
  BY <1>1, <1>2, <1>3, ReadsAreOver, MovesKeepWorker DEF TypeInv
<1>4. CASE pc = "uninstall"
  <2>1. pc' # "install" /\ (pc' = "uninstall" => creds' = creds)
    BY <1>2, <1>4 DEF Moves
  <2> QED
    BY <1>1, <1>2, <2>1, MovesKeepWorker DEF TypeInv
<1> QED
  BY <1>3, <1>4 DEF Planned

\* The step writes the object at hand, or nothing.
WritesGood ==
    \/ UNCHANGED objects
    \/ \E x \in KubeObject : (~x.exists => ~x.foreign) /\ Write(Object, x)

LEMMA WritesGoodKeepsObjects ==
    ASSUME TypeInv, Object \in Objects, WritesGood, UNCHANGED managed
    PROVE  GoodObjects'
BY WriteKeepsObjects, ObjectsStay DEF WritesGood, TypeInv

LEMMA RunCallsKeepType ==
    ASSUME TypeInv, HandleObject \/ HandleFails \/ UninstallObject \/ UninstallFails
    PROVE  TypeInv' /\ WritesGood /\ Moves
<1>1. Planned /\ UNCHANGED beyond
  BY DEF HandleObject, HandleFails, UninstallObject, UninstallFails, Planned
<1>2. Entry \notin Reads \cup Others
  BY UninstallEntry DEF HandleObject, HandleFails, UninstallObject, UninstallFails
<1>3. Object \in Objects /\ GoodObjects /\ UNCHANGED managed
  BY <1>1, <1>2, ObjectType, BeyondType DEF TypeInv
<1>4. objs[Object] \in KubeObject /\ (~objs[Object].exists => ~objs[Object].foreign)
  BY <1>3 DEF GoodObjects
<1>5. CASE HandleObject \/ HandleFails
  <2>1. pc = "install"
    BY <1>5 DEF HandleObject, HandleFails
  <2>2. Promise(Handle, Object)
    BY <1>2, <2>1, HandlePromise
  <2>3. WritesGood
    BY <1>4, <1>5, <2>2 DEF HandleObject, HandleFails, WritesGood, Promise
  <2>4. (\E x, f : Leaves(x, f)) \/ UNCHANGED left
    BY <1>5 DEF HandleObject, HandleFails
  <2>5. Continue(creds) \/ Abort
    BY <1>5 DEF HandleObject, HandleFails
  <2>6. GoodObjects' /\ left' \subseteq Objects
    BY <1>3, <2>3, <2>4, WritesGoodKeepsObjects, LeavesType
  <2> QED
    BY <1>1, <1>2, <2>3, <2>5, <2>6, CallKeepsType, ContinueMoves, AbortMoves
<1>6. CASE UninstallObject \/ UninstallFails
  <2>1. pc = "uninstall"
    BY <1>6 DEF UninstallObject, UninstallFails
  <2>2. Promise(deleteIfExists(Object), Object)
    BY <1>3, DeletePromise
  <2>3. WritesGood
    BY <1>4, <1>6, <2>2 DEF UninstallObject, UninstallFails, WritesGood, Promise
  <2>4. \E x, f : Leaves(x, f)
    BY <1>6 DEF UninstallObject, UninstallFails
  <2>5. Continue(creds) \/ SkipOne
    BY <1>6 DEF UninstallObject, UninstallFails
  <2>6. GoodObjects' /\ left' \subseteq Objects
    BY <1>3, <2>3, <2>4, WritesGoodKeepsObjects, LeavesType
  <2> QED
    BY <1>1, <1>2, <2>1, <2>3, <2>5, <2>6, CallKeepsType, ContinueMoves, SkipOneMoves
<1> QED
  BY <1>5, <1>6 DEF Once

\* The calls that write nothing here.
LEMMA StartedKeepsType ==
    ASSUME TypeInv, Started \/ GraylogCall
    PROVE  TypeInv' /\ Moves /\ Planned
<1>1. Planned /\ Entry \notin Reads /\ UNCHANGED beyond /\ UNCHANGED objects /\ UNCHANGED left
  BY DEF Started, GraylogCall, Planned, Reads
<1>2. Continue(creds) \/ Abort
  BY DEF Started, GraylogCall
<1>3. GoodObjects' /\ left' \subseteq Objects
  BY <1>1, BeyondType, ObjectsStay DEF TypeInv, GoodWorker
<1> QED
  BY <1>1, <1>2, <1>3, CallKeepsType, ContinueMoves, AbortMoves

\* The steps of the worker between the runs.
LEMMA BeginKeepsType ==
    ASSUME TypeInv, Begin
    PROVE  TypeInv'
<1>1. GoodWorld /\ GoodObjects /\ GoodWorker
  BY DEF TypeInv
<1>2. GoodWorld'
  BY <1>1 DEF Begin, GoodWorld, world, copies
<1>3. GoodObjects'
  <2>1. CASE UNCHANGED objects
    BY <1>1, <2>1, ObjectsStay DEF Begin, world
  <2>2. CASE UNCHANGED objs /\ cached' = objs /\ fresh' = [o \in Objects |-> TRUE]
    BY <1>1, <2>2, NewCopiesKeepObjects DEF Begin, world
  <2> QED
    BY <2>1, <2>2 DEF Begin
<1>4. GoodLocal'
  BY <1>1, SpecType DEF Begin, GoodLocal, GoodWorld
<1>5. Runs' = Runs /\ Objects' = Objects /\ ~Planned' /\ ~Planned /\ managed' = managed
  BY DEF Begin, world, Runs, IfManaged, Objects, Planned
<1>6. GoodWorker'
  BY <1>1, <1>4, <1>5 DEF Begin, GoodWorker
<1> QED
  BY <1>2, <1>3, <1>6 DEF TypeInv

LEMMA ParametersKeepType ==
    ASSUME TypeInv, updateDynamicParameters
    PROVE  TypeInv'
<1>1. GoodWorld /\ GoodObjects /\ GoodWorker
  BY DEF TypeInv
<1>2. /\ GoodWorld' /\ GoodObjects' /\ UNCHANGED <<managed, spec>>
  BY <1>1, WorldStays, ObjectsStay DEF updateDynamicParameters, world
<1>3. GoodLocal'
  BY <1>1, <1>2, AfterPatchType DEF updateDynamicParameters, GoodWorker
<1>4. \A report \in Reports : Discovered(report) \in Runtimes
  BY DEF Discovered, Runtimes
<1>5. memory' \in Runtimes
  BY <1>1, <1>3, <1>4 DEF updateDynamicParameters, GoodLocal, GoodWorker, Runtimes
<1>6. Runs' = Runs /\ Objects' = Objects /\ ~Planned' /\ ~Planned
  BY <1>2 DEF updateDynamicParameters, Runs, IfManaged, Objects, Planned
<1>7. GoodWorker'
  BY <1>1, <1>2, <1>3, <1>5, <1>6 DEF updateDynamicParameters, GoodWorker
<1> QED
  BY <1>2, <1>7 DEF TypeInv

LEMMA RunBeginKeepsType ==
    ASSUME TypeInv, RunBegin
    PROVE  TypeInv'
<1>1. GoodWorld /\ GoodObjects /\ GoodWorker /\ pc = "begin" /\ ~Planned
  BY DEF TypeInv, RunBegin, Planned
<1>2. /\ GoodWorld' /\ GoodObjects' /\ UNCHANGED <<managed, spec>>
  BY <1>1, WorldStays, ObjectsStay DEF RunBegin, world
<1>3. GoodLocal'
  BY <1>1, <1>2, AfterPatchType DEF RunBegin, GoodWorker
<1>4. Runs' = Runs /\ Objects' = Objects
  BY <1>2 DEF Runs, IfManaged, Objects
<1>5. CASE Abort
  <2>1. /\ pc' \in {"begin", "wait"} /\ at' \in 1..Len(Runs) /\ step' = 1 /\ creds' = <<>>
        /\ success' = FALSE /\ UNCHANGED pending /\ ~Planned'
    BY <1>5, NextRunMoves DEF Abort, Planned
  <2>2. GoodWorker'
    BY <1>1, <1>2, <1>3, <1>4, <2>1 DEF RunBegin, GoodWorker
  <2> QED
    BY <1>2, <2>2 DEF TypeInv
<1>6. CASE pc' \in {"install", "uninstall"} /\ UNCHANGED <<at, step, creds, pending, success>>
  <2>1. Component' = Component /\ step = 1 /\ creds = <<>>
    BY <1>1, <1>4, <1>6 DEF GoodWorker, Component
  <2>2. /\ Component \in Components
        /\ Len(Install(Component)) >= 1 /\ Len(Uninstall(Component)) >= 1
        /\ Len(Install(Component)) \in Nat /\ Len(Uninstall(Component)) \in Nat
    BY ComponentType, InstallReads, UninstallPlanType
  <2>3. step' \in 1..Len(Plan')
    BY <1>6, <2>1, <2>2 DEF Plan
  <2>4. Len(creds') = ReadBefore(Component', step')
    BY <1>6, <2>1 DEF ReadBefore
  <2>5. Planned'
    BY <1>6 DEF Planned
  <2>6. GoodWorker'
    BY <1>1, <1>2, <1>3, <1>4, <1>6, <2>1, <2>3, <2>4, <2>5 DEF RunBegin, GoodWorker
  <2> QED
    BY <1>2, <2>6 DEF TypeInv
<1> QED
  BY <1>5, <1>6 DEF RunBegin

LEMMA WaitKeepsType ==
    ASSUME TypeInv, WaitAvailable \/ WaitFails \/ Return
    PROVE  TypeInv'
<1>1. GoodWorld /\ GoodObjects /\ GoodWorker /\ pc = "wait" /\ ~Planned
  BY DEF TypeInv, WaitAvailable, WaitFails, Return, Planned
<1>2. managed' = managed /\ UNCHANGED <<world, copies, objects, memory, left>>
  BY DEF WaitAvailable, WaitFails, Return, world
<1>3. Runs' = Runs /\ Objects' = Objects
  BY <1>2 DEF Runs, IfManaged, Objects
<1>4. GoodObjects'
  BY <1>1, <1>2, ObjectsStay
<1>5. GoodWorld'
  BY <1>1 DEF WaitAvailable, WaitFails, Return, GoodWorld, world, copies, requests, GoodWorker
<1>6. CASE WaitAvailable \/ WaitFails
  <2>1. GoodLocal' /\ ~Planned'
    BY <1>1, <1>6 DEF WaitAvailable, WaitFails, GoodWorker, GoodLocal, Planned
  <2>2. GoodWorker'
    BY <1>1, <1>2, <1>3, <1>6, <2>1 DEF WaitAvailable, WaitFails, GoodWorker
  <2> QED
    BY <1>4, <1>5, <2>2 DEF TypeInv
<1>7. CASE Return
  <2>1. ~Planned' /\ pc' = "idle"
    BY <1>7 DEF Return, Planned
  <2>2. GoodWorker'
    BY <1>1, <1>2, <1>3, <1>7, <2>1 DEF Return, GoodWorker
  <2> QED
    BY <1>4, <1>5, <2>2 DEF TypeInv
<1> QED
  BY <1>6, <1>7

\* What happens outside leaves the worker alone.
LEMMA WorkerStays ==
    ASSUME GoodWorker, UNCHANGED <<managed, worker>>
    PROVE  GoodWorker'
<1>1. /\ Component' = Component /\ Plan' = Plan /\ Runs' = Runs /\ Objects' = Objects
      /\ Planned' = Planned
  BY DEF Component, Plan, Runs, IfManaged, Objects, worker, Planned
<1>2. GoodLocal => GoodLocal'
  BY DEF GoodLocal, worker
<1> QED
  BY <1>1, <1>2 DEF GoodWorker, worker

LEMMA NewsKeepType ==
    ASSUME TypeInv,
           EditSpec \/ SpecSync \/ Rotate \/ TimerFires \/ \E n \in Secrets : SecretSync(n)
    PROVE  TypeInv'
<1>1. UNCHANGED <<managed, worker>> /\ UNCHANGED <<objects, managed>>
  BY DEF EditSpec, SpecSync, Rotate, TimerFires, SecretSync, world
<1>2. GoodWorker' /\ GoodObjects'
  BY <1>1, WorkerStays, ObjectsStay DEF TypeInv
<1>3. GoodWorld
  BY DEF TypeInv
<1>4. CASE EditSpec \/ SpecSync \/ Rotate \/ TimerFires
  BY <1>2, <1>3, <1>4
     DEF TypeInv, EditSpec, SpecSync, Rotate, TimerFires, GoodWorld, world, copies, requests
<1>5. ASSUME NEW n \in Secrets, SecretSync(n)
      PROVE  TypeInv'
  <2>1. GoodWorld'
    BY <1>3, <1>5 DEF SecretSync, GoodWorld, world
  <2> QED
    BY <1>2, <2>1 DEF TypeInv
<1> QED
  BY <1>4, <1>5

\* Others write an object, or a copy of it arrives.
LEMMA OthersKeepType ==
    ASSUME TypeInv, Touch \/ \E o \in Objects : RollOut(o) \/ ObjectSync(o)
    PROVE  TypeInv'
<1>1. UNCHANGED <<world, copies, requests>> /\ UNCHANGED <<managed, worker>> /\ UNCHANGED managed
  BY DEF Touch, RollOut, ObjectSync, world
<1>2. GoodWorker' /\ GoodWorld'
  BY <1>1, WorkerStays, WorldStays DEF TypeInv
<1>3. GoodObjects
  BY DEF TypeInv
<1>4. ASSUME NEW o \in Objects
      PROVE  /\ objs[o] \in KubeObject /\ (~objs[o].exists => ~objs[o].foreign)
             /\ [objs[o] EXCEPT !.foreign = TRUE] \in KubeObject
             /\ [objs[o] EXCEPT !.foreign = TRUE].exists = objs[o].exists
  BY <1>3, KubeObjectType DEF GoodObjects
<1>5. CASE Touch
  <2>1. PICK o \in Objects : objs[o].exists /\ Write(o, [objs[o] EXCEPT !.foreign = TRUE])
    BY <1>5 DEF Touch
  <2>2. GoodObjects'
    BY <1>1, <1>3, <1>4, <2>1, WriteKeepsObjects
  <2> QED
    BY <1>2, <2>2 DEF TypeInv
<1>6. ASSUME NEW o \in Objects, RollOut(o)
      PROVE  TypeInv'
  <2> DEFINE x == [objs[o] EXCEPT !.rollout = NextRollout(o)]
  <2>1. objs[o] \in KubeObject /\ objs[o].exists /\ objs[o].rollout # "done"
    BY <1>4, <1>6 DEF RollOut
  <2>2. NextRollout(o) \in Rollouts
    BY <2>1, KubeObjectType DEF NextRollout, Rollouts
  <2>3. x \in KubeObject /\ x.exists
    BY <2>1, <2>2, KubeObjectType
  <2>4. Write(o, x)
    BY <1>6 DEF RollOut
  <2> HIDE DEF x
  <2>5. GoodObjects'
    BY <1>1, <1>3, <2>3, <2>4, WriteKeepsObjects
  <2> QED
    BY <1>2, <2>5 DEF TypeInv
<1>7. ASSUME NEW o \in Objects, ObjectSync(o)
      PROVE  TypeInv'
  <2>1. GoodObjects'
    BY <1>1, <1>3, <1>7 DEF ObjectSync, GoodObjects, Objects
  <2> QED
    BY <1>2, <2>1 DEF TypeInv
<1> QED
  BY <1>5, <1>6, <1>7

LEMMA RestartKeepsType ==
    ASSUME TypeInv, Restart
    PROVE  TypeInv'
<1>1. GoodWorld /\ GoodObjects /\ GoodWorker
  BY DEF TypeInv
<1>2. GoodWorld' /\ managed' = managed
  BY <1>1 DEF Restart, GoodWorld, world
<1>3. GoodObjects'
  BY <1>1, <1>2, NewCopiesKeepObjects DEF Restart
<1>4. Runs' = Runs /\ Objects' = Objects /\ ~Planned' /\ pc' = "idle"
  BY <1>2 DEF Restart, Runs, IfManaged, Objects, Planned
<1>5. 1 \in 1..Len(Runs) /\ <<>> \in Seq(Credential) /\ NoRuntime \in Runtimes
  BY <1>1, RunsType DEF GoodWorld, Runtimes
<1>6. GoodWorker'
  BY <1>1, <1>4, <1>5 DEF Restart, GoodWorker
<1> QED
  BY <1>2, <1>3, <1>6 DEF TypeInv

LEMMA TypeInit == Init => TypeInv
<1> SUFFICES ASSUME Init PROVE TypeInv
  OBVIOUS
<1>1. GoodWorld
  BY DEF Init, GoodWorld
<1>2. GoodObjects
  <2>1. [NoObject EXCEPT !.exists = TRUE] \in KubeObject
    BY OlderType, KubeObjectType
  <2>2. ~NoObject.foreign /\ [NoObject EXCEPT !.exists = TRUE].foreign = FALSE
    BY DEF NoObject
  <2>3. /\ objs \in [Objects -> {NoObject, [NoObject EXCEPT !.exists = TRUE]}]
        /\ cached = objs /\ fresh = [o \in Objects |-> TRUE]
    BY DEF Init
  <2> HIDE DEF NoObject
  <2> QED
    BY <2>1, <2>2, <2>3, OlderType DEF GoodObjects
<1>3. ~Planned /\ 1 \in 1..Len(Runs) /\ <<>> \in Seq(Credential) /\ NoRuntime \in Runtimes
  BY <1>1, RunsType DEF Init, Planned, GoodWorld, Runtimes
<1>4. GoodWorker
  BY <1>3 DEF Init, Idle, GoodWorker
<1> QED
  BY <1>1, <1>2, <1>4 DEF TypeInv

LEMMA TypeNext == TypeInv /\ [Next]_vars => TypeInv'
<1> SUFFICES ASSUME TypeInv, [Next]_vars PROVE TypeInv'
  OBVIOUS
<1>1. CASE Worker
  BY <1>1, BeginKeepsType, ParametersKeepType, RunBeginKeepsType, ResolveKeepsType,
     RunCallsKeepType, StartedKeepsType, WaitKeepsType DEF Worker
<1>2. CASE UNCHANGED vars
  BY <1>2, WorldStays, ObjectsStay, WorkerStays DEF TypeInv, vars, world
<1> QED
  BY <1>1, <1>2, NewsKeepType, OthersKeepType, RestartKeepsType DEF Next

LEMMA TypeAlways == Spec => []TypeInv
BY TypeInit, TypeNext, PTL DEF Spec

\* The type invariant, which says that the runs stay inside their plans and that a
\* cached copy with the current version is the object, for every group of
\* components, every specification and any number of disturbances.
THEOREM ObjectsType == Spec => []TypeOK
<1>1. TypeInv => TypeOK
  <2> SUFFICES ASSUME TypeInv PROVE TypeOK
    OBVIOUS
  <2>1. GoodWorld /\ GoodObjects /\ GoodWorker
    BY DEF TypeInv
  <2> QED
    BY <2>1 DEF TypeOK, GoodWorld, GoodObjects, GoodWorker, Planned
<1> QED
  BY <1>1, TypeAlways, PTL
-----------------------------------------------------------------------------
(***************************************************************************)
(* Labels of others, and the configuration of the agents.                  *)
(***************************************************************************)

\* No update of a workload loses the labels and annotations that others have set:
\* createOrUpdate sends back a changed copy with its version, and the API server takes it
\* only if the copy is still the object.
THEOREM ForeignLabelsAreKept == Spec => ForeignIsKept
<1> DEFINE A == \A o \in Objects :
          o[2] \in Workloads /\ objs[o].foreign /\ objs'[o].exists => objs'[o].foreign
<1>1. TypeInv /\ [Next]_vars => [A]_vars
  <2> SUFFICES ASSUME TypeInv, Next, NEW o \in Objects,
                      o[2] \in Workloads, objs[o].foreign, objs'[o].exists
               PROVE  objs'[o].foreign
    OBVIOUS
  <2>1. GoodObjects /\ objs \in [Objects -> KubeObject]
    BY DEF TypeInv, GoodObjects
  <2>2. CASE UNCHANGED objs
    BY <2>2
  <2>3. CASE HandleObject \/ HandleFails
    <3>1. pc = "install" /\ Entry \notin Reads \cup Others /\ Object \in Objects
      BY <2>3, ObjectType DEF HandleObject, HandleFails, Planned
    <3>2. Object[2] = Entry
      BY <3>1, ObjectType DEF Planned
    <3>3. Entry \in Workloads /\ objs[Object].foreign => Handle.obj.foreign
      BY <3>1, HandlePromise
    <3>4. UNCHANGED objs \/ \E x \in {objs[Object], Handle.obj} : Write(Object, x)
      BY <2>3 DEF HandleObject, HandleFails, objects
    <3> HIDE DEF Object, Handle, Entry
    <3> QED
      BY <2>1, <2>2, <3>1, <3>2, <3>3, <3>4 DEF Write
  <2>4. CASE UninstallObject \/ UninstallFails
    <3>1. pc = "uninstall" /\ Object \in Objects
      BY <2>4, ObjectType, UninstallEntry DEF UninstallObject, UninstallFails, Planned
    <3>2. deleteIfExists(Object).obj \in {objs[Object], NoObject}
      BY <2>1, <3>1, DeletePromise
    <3>3. \E x \in {objs[Object], NoObject} : Write(Object, x)
      BY <2>4, <3>2 DEF UninstallObject, UninstallFails
    <3>4. ~NoObject.exists
      BY DEF NoObject
    <3> HIDE DEF Object, NoObject
    <3> QED
      BY <2>1, <3>1, <3>3, <3>4 DEF Write
  <2>5. CASE Touch \/ \E p \in Objects : RollOut(p)
    <3>1. PICK p \in Objects :
             \E x \in {[objs[p] EXCEPT !.foreign = TRUE],
                       [objs[p] EXCEPT !.rollout = NextRollout(p)]} : Write(p, x)
      BY <2>5 DEF Touch, RollOut
    <3>2. PICK x \in {[objs[p] EXCEPT !.foreign = TRUE],
                      [objs[p] EXCEPT !.rollout = NextRollout(p)]} : Write(p, x)
      BY <3>1
    <3>3. objs[p].foreign => x.foreign
      BY <2>1, <3>2, KubeObjectType
    <3> QED
      BY <2>1, <3>2, <3>3 DEF Write
  <2>6. CASE UNCHANGED objects \/ UNCHANGED objs
    BY <2>2, <2>6 DEF objects
  <2>7. ~HandleObject /\ ~HandleFails /\ ~UninstallObject /\ ~UninstallFails /\ ~Touch
        /\ ~(\E p \in Objects : RollOut(p)) => UNCHANGED objects \/ UNCHANGED objs
    BY DEF Next, Worker, Begin, updateDynamicParameters, RunBegin, ResolveSecretKeyValue,
       Started, GraylogCall, WaitAvailable, WaitFails, Return, EditSpec, SpecSync, Rotate,
       TimerFires, Restart, SecretSync, ObjectSync
  <2> QED
    BY <2>3, <2>4, <2>5, <2>6, <2>7
<1> QED
  BY <1>1, TypeAlways, PTL DEF Spec, ForeignIsKept

\* What the step is to the objects that the configuration is about.
SameShape ==
    /\ \A o \in Objects : objs'[o].exists = objs[o].exists /\ objs'[o].from = objs[o].from
    /\ UNCHANGED <<managed, left>>

LEMMA ConfigOfType ==
    ASSUME managed \in Groups, NEW o \in Objects, o[1] \in Agents, o[2] \in Workloads
    PROVE  /\ ConfigOf(o) \in Objects
           /\ ConfigOf(o) = <<o[1], ConfigKind(o[1], o[2])>>
           /\ ConfigKind(o[1], o[2]) \in {"config", "configMap"}
           /\ ConfigOf(o) # o /\ o = <<o[1], o[2]>>
<1>1. o = <<o[1], o[2]>> /\ o[1] \in managed /\ o[2] \in Kinds(o[1])
  BY ObjectsArePairs
<1>2. ConfigOf(o) = <<o[1], ConfigKind(o[1], o[2])>>
  BY <1>1 DEF ConfigOf, ConfigKind
<1>3. ConfigKind(o[1], o[2]) \in Kinds(o[1])
  BY <1>1, ConfigIsAnObject
<1>4. ConfigKind(o[1], o[2]) \in {"config", "configMap"}
  BY DEF ConfigKind
<1>5. ConfigOf(o) # o
  BY <1>1, <1>2, <1>4 DEF Workloads
<1> QED
  BY <1>1, <1>2, <1>3, <1>4, <1>5, ObjectsArePairs

\* The objects of the entries a run has been through.
LEMMA EarlierObjects ==
    ASSUME TypeInv, Planned, NEW i \in 1..Len(Plan), Plan[i] \notin Reads \cup Others
    PROVE  <<Component, Plan[i]>> \in Objects
<1>1. Plan[i] \in Kinds(Component)
  BY DEF Plan, Planned, Kinds, Elements
<1> QED
  BY <1>1, ComponentType, ObjectsArePairs

\* Steps that leave the shape of the objects and the place of the run.
LEMMA ShapeKeepsConfig ==
    ASSUME TypeInv, ConfigInv, SameShape
    PROVE  /\ WorkloadHasConfig'
           /\ UNCHANGED <<pc, at, step>> => ConfigInv'
           /\ ~Planned' \/ step' = 1 => ConfigInv'
<1>1. Objects' = Objects /\ managed \in Groups
  BY DEF SameShape, Objects, TypeInv, GoodWorld
<1>2. WorkloadHasConfig'
  <2> SUFFICES ASSUME NEW o \in Objects, o[1] \in Agents, o[2] \in Workloads,
                      objs'[o].exists, objs'[o].from # Older
               PROVE  objs'[ConfigOf(o)].exists \/ o \in left'
    BY <1>1 DEF WorkloadHasConfig
  <2>1. ConfigOf(o) \in Objects
    BY <1>1, ConfigOfType
  <2>2. objs[ConfigOf(o)].exists \/ o \in left
    BY DEF SameShape, ConfigInv, WorkloadHasConfig
  <2> QED
    BY <2>1, <2>2 DEF SameShape
<1>3. ASSUME UNCHANGED <<pc, at, step>>
      PROVE  ConfigInv'
  <2>1. /\ Component' = Component /\ Plan' = Plan /\ Entry' = Entry /\ pc' = pc
        /\ step' = step /\ left' = left
    BY <1>3 DEF SameShape, Component, Plan, Entry, Runs, IfManaged
  <2>2. ConfigWritten'
    <3> SUFFICES ASSUME pc = "install", NEW i \in 1..(step - 1),
                        Plan[i] \in {"config", "configMap"}
                 PROVE  objs'[<<Component, Plan[i]>>].exists
      BY <2>1 DEF ConfigWritten
    <3>1. i \in 1..Len(Plan) /\ Len(Plan) \in Nat
      BY ComponentType DEF TypeInv, GoodWorker, Planned
    <3>2. <<Component, Plan[i]>> \in Objects
      BY <3>1, EarlierObjects DEF Planned, Reads, Others
    <3> QED
      BY <3>2 DEF ConfigInv, ConfigWritten, SameShape
  <2>3. UninstalledSoFar'
    <3> SUFFICES ASSUME pc = "uninstall", NEW i \in 1..(step - 1), Plan[i] # Entry
                 PROVE  Gone(<<Component, Plan[i]>>)'
      BY <2>1 DEF UninstalledSoFar
    <3>1. i \in 1..Len(Plan) /\ Len(Plan) \in Nat
      BY ComponentType DEF TypeInv, GoodWorker, Planned
    <3>2. Plan[i] \notin Reads \cup Others
      BY <3>1, ComponentType, UninstallPlanType DEF Plan
    <3>3. <<Component, Plan[i]>> \in Objects
      BY <3>1, <3>2, EarlierObjects DEF Planned
    <3> QED
      BY <2>1, <3>3 DEF ConfigInv, UninstalledSoFar, SameShape, Gone
  <2> QED
    BY <1>2, <2>2, <2>3 DEF ConfigInv
<1>4. ASSUME ~Planned' \/ step' = 1
      PROVE  ConfigInv'
  <2>1. ConfigWritten' /\ UninstalledSoFar'
    BY <1>4 DEF ConfigWritten, UninstalledSoFar, Planned
  <2> QED
    BY <1>2, <2>1 DEF ConfigInv
<1> QED
  BY <1>2, <1>3, <1>4

\* A run that goes on stays in its plan.
LEMMA PlanStays ==
    ASSUME TypeInv, Planned, Moves, UNCHANGED managed, Planned'
    PROVE  /\ pc' = pc /\ Component' = Component /\ Plan' = Plan /\ Entry' = Plan[step']
           /\ step \in 1..Len(Plan) /\ Len(Plan) \in Nat /\ step' \in 1..Len(Plan)
           /\ \A i \in 1..(step' - 1) :
                  \/ i \in 1..(step - 1) \/ i = step
                  \/ pc = "uninstall" /\ i = step + 1 /\ Plan[i] = Plan[step']
           /\ pc = "install" => step' = step + 1
<1>1. step \in 1..Len(Plan) /\ Len(Plan) \in Nat
  BY ComponentType DEF TypeInv, GoodWorker
<1>2. pc' = pc /\ at' = at /\ step' \in 1..Len(Plan)
      /\ \/ step' = step + 1
         \/ pc = "uninstall" /\ step' = step + 2 /\ Plan[step + 1] = Plan[step + 2]
  BY DEF Moves, Planned
<1>3. Component' = Component /\ Plan' = Plan
  BY <1>2 DEF Component, Plan, Runs, IfManaged
<1>4. Entry' = Plan[step']
  BY <1>3 DEF Entry
<1>5. pc = "install" => step' = step + 1
  BY <1>2
<1> HIDE DEF Plan
<1>6. ASSUME NEW i \in 1..(step' - 1)
      PROVE  \/ i \in 1..(step - 1) \/ i = step
             \/ pc = "uninstall" /\ i = step + 1 /\ Plan[i] = Plan[step']
  <2>1. CASE step' = step + 1
    BY <1>1, <2>1
  <2>2. CASE pc = "uninstall" /\ step' = step + 2 /\ Plan[step + 1] = Plan[step + 2]
    <3>1. i \in 1..(step - 1) \/ i = step \/ i = step + 1
      BY <1>1, <2>2
    <3> QED
      BY <2>2, <3>1
  <2> QED
    BY <1>2, <2>1, <2>2
<1> QED
  BY <1>1, <1>2, <1>3, <1>4, <1>5, <1>6

\* The reads of the credentials and the wait for a StatefulSet.
LEMMA ReadsKeepConfig ==
    ASSUME TypeInv, ConfigInv, Planned, Moves, SameShape,
           pc = "install", Entry \in Reads \cup Others
    PROVE  ConfigInv'
<1>1. WorkloadHasConfig' /\ (~Planned' => ConfigInv')
  BY ShapeKeepsConfig
<1>2. CASE Planned'
  <2>1. /\ pc' = pc /\ Component' = Component /\ Plan' = Plan
        /\ step \in 1..Len(Plan) /\ Len(Plan) \in Nat /\ step' = step + 1
    BY <1>2, PlanStays DEF SameShape
  <2>2. ConfigWritten'
    <3> SUFFICES ASSUME NEW i \in 1..step, Plan[i] \in {"config", "configMap"}
                 PROVE  objs'[<<Component, Plan[i]>>].exists
      BY <2>1 DEF ConfigWritten
    <3>1. i # step
      BY DEF Entry, Reads, Others
    <3>2. i \in 1..(step - 1) /\ i \in 1..Len(Plan)
      BY <2>1, <3>1
    <3>3. <<Component, Plan[i]>> \in Objects
      BY <3>2, EarlierObjects DEF Reads, Others
    <3> QED
      BY <3>2, <3>3 DEF ConfigInv, ConfigWritten, SameShape
  <2>3. UninstalledSoFar'
    BY <2>1 DEF UninstalledSoFar
  <2> QED
    BY <1>1, <2>2, <2>3 DEF ConfigInv
<1> QED
  BY <1>1, <1>2

\* A call of Run: what is written exists, and a workload is written after its
\* configuration.
LEMMA HandlersKeepConfig ==
    ASSUME TypeInv, ConfigInv, HandleObject \/ HandleFails
    PROVE  ConfigInv'
<1>1. pc = "install" /\ Planned /\ Entry \notin Reads \cup Others /\ UNCHANGED beyond
  BY DEF HandleObject, HandleFails, Planned
<1>2. /\ Object \in Objects /\ Object = <<Component, Entry>>
      /\ Object[1] = Component /\ Object[2] = Entry
      /\ UNCHANGED managed /\ Objects' = Objects /\ managed \in Groups
      /\ objs \in [Objects -> KubeObject] /\ Moves
  BY <1>1, ObjectType, BeyondType, RunCallsKeepType
     DEF Objects, TypeInv, GoodWorld, GoodObjects
<1>3. /\ Promise(Handle, Object)
      /\ Handle.ok /\ Entry \notin OnlyDeleted => Handle.obj.exists
  BY <1>1, HandlePromise
<1>4. \E x : /\ objs' = [objs EXCEPT ![Object] = x]
             /\ Entry \notin OnlyDeleted => x.exists \/ x = objs[Object]
             /\ Planned' /\ Entry \notin OnlyDeleted => x.exists
  <2>1. CASE HandleObject /\ Handle.ok
    BY <1>3, <2>1 DEF HandleObject, Write
  <2>2. CASE HandleObject /\ ~Handle.ok
    <3>1. objs' = [objs EXCEPT ![Object] = objs[Object]]
      BY <1>2, <2>2 DEF HandleObject, objects
    <3>2. OnlyLogged \/ Abort
      BY <2>2 DEF HandleObject
    <3>3. Planned' => Entry \in OnlyDeleted
      BY <1>1, <3>2, AbortMoves DEF OnlyLogged, OnlyDeleted, Abort, NextRun, Planned
    <3> QED
      BY <3>1, <3>3
  <2>3. CASE HandleFails
    <3>1. PICK x \in {objs[Object], Handle.obj} : Write(Object, x)
      BY <2>3 DEF HandleFails
    <3>2. OnlyLogged \/ Abort
      BY <2>3 DEF HandleFails
    <3>3. Planned' => Entry \in OnlyDeleted
      BY <1>1, <3>2, AbortMoves DEF OnlyLogged, OnlyDeleted, Abort, NextRun, Planned
    <3>4. Entry \notin OnlyDeleted => x.exists \/ x = objs[Object]
      BY <1>3, <3>1 DEF Promise
    <3> QED
      BY <3>1, <3>3, <3>4 DEF Write
  <2> QED
    BY <2>1, <2>2, <2>3
<1>5. \A o \in Objects : o # Object => (o \in left' <=> o \in left)
  BY DEF HandleObject, HandleFails, Leaves
<1>6. PICK x : /\ objs' = [objs EXCEPT ![Object] = x]
               /\ Entry \notin OnlyDeleted => x.exists \/ x = objs[Object]
               /\ Planned' /\ Entry \notin OnlyDeleted => x.exists
  BY <1>4
<1>7. \A o \in Objects : objs'[o] = IF o = Object THEN x ELSE objs[o]
  BY <1>2, <1>6
<1>8. step \in 1..Len(Plan) /\ Len(Plan) \in Nat /\ Plan = Install(Component)
  BY <1>1, ComponentType DEF TypeInv, GoodWorker, Plan
<1>9. ConfigWritten'
  <2>1. CASE Planned'
    <3>1. /\ pc' = pc /\ Component' = Component /\ Plan' = Plan /\ step' = step + 1
      BY <1>1, <1>2, <2>1, PlanStays
    <3> SUFFICES ASSUME NEW i \in 1..step, Plan[i] \in {"config", "configMap"}
                 PROVE  objs'[<<Component, Plan[i]>>].exists
      BY <1>8, <3>1 DEF ConfigWritten
    <3>2. CASE i = step
      <4>1. Object = <<Component, Plan[i]>> /\ Entry \notin OnlyDeleted
        BY <1>2, <3>2 DEF Entry, OnlyDeleted
      <4> QED
        BY <1>2, <1>6, <1>7, <2>1, <4>1
    <3>3. CASE i # step
      <4>1. i \in 1..(step - 1) /\ i \in 1..Len(Plan)
        BY <1>8, <3>3
      <4>2. <<Component, Plan[i]>> \in Objects
        BY <1>1, <4>1, EarlierObjects DEF Reads, Others
      <4>3. objs[<<Component, Plan[i]>>].exists
        BY <1>1, <4>1 DEF ConfigInv, ConfigWritten
      <4>4. CASE <<Component, Plan[i]>> = Object
        <5>1. Entry = Plan[i]
          BY <1>2, <4>4
        <5> QED
          BY <1>6, <1>7, <2>1, <4>2, <4>4, <5>1 DEF OnlyDeleted
      <4> QED
        BY <1>7, <4>2, <4>3, <4>4
    <3> QED
      BY <3>2, <3>3
  <2> QED
    BY <2>1 DEF Planned, ConfigWritten
<1>10. UninstalledSoFar'
  BY <1>1, <1>2 DEF Moves, UninstalledSoFar
<1>11. WorkloadHasConfig'
  <2> SUFFICES ASSUME NEW o \in Objects, o[1] \in Agents, o[2] \in Workloads,
                      objs'[o].exists, objs'[o].from # Older
               PROVE  objs'[ConfigOf(o)].exists \/ o \in left'
    BY <1>2 DEF WorkloadHasConfig
  <2>1. /\ ConfigOf(o) \in Objects /\ ConfigOf(o) # o /\ o = <<o[1], o[2]>>
        /\ ConfigOf(o) = <<o[1], ConfigKind(o[1], o[2])>>
        /\ ConfigKind(o[1], o[2]) \in {"config", "configMap"}
    BY <1>2, ConfigOfType
  <2>2. CASE o = Object
    <3>1. o[1] = Component /\ o[2] = Entry
      BY <1>2, <2>2
    <3>2. PICK j \in 1..(step - 1) : Plan[j] = ConfigKind(Component, Entry)
      BY <1>8, <3>1, ConfigBeforeWorkload DEF Entry
    <3>3. objs[<<Component, Plan[j]>>].exists
      BY <1>1, <2>1, <3>1, <3>2 DEF ConfigInv, ConfigWritten
    <3> QED
      BY <1>7, <2>1, <2>2, <3>1, <3>2, <3>3
  <2>3. CASE o # Object
    <3>1. objs[ConfigOf(o)].exists \/ o \in left
      BY <1>7, <2>3 DEF ConfigInv, WorkloadHasConfig
    <3>2. CASE ConfigOf(o) = Object
      <4>1. Entry \notin OnlyDeleted
        BY <1>2, <2>1, <3>2 DEF OnlyDeleted
      <4> QED
        BY <1>5, <1>6, <1>7, <2>1, <2>3, <3>1, <3>2, <4>1
    <3> QED
      BY <1>5, <1>7, <2>1, <2>3, <3>1, <3>2
  <2> QED
    BY <2>2, <2>3
<1> QED
  BY <1>9, <1>10, <1>11 DEF ConfigInv

\* A deletion of uninstall: what it does not delete is known to be left.
LEMMA UninstallWrites ==
    ASSUME TypeInv, UninstallObject \/ UninstallFails, Object \in Objects
    PROVE  \E x \in {objs[Object], NoObject} :
              /\ Write(Object, x)
              /\ \E f : Leaves(x, f)
              /\ x.exists => Object \in left'
<1>1. pc = "uninstall" /\ GoodObjects
  BY DEF UninstallObject, UninstallFails, TypeInv
<1> DEFINE r == deleteIfExists(Object)
<1>2. r.obj \in {objs[Object], NoObject} /\ r.ok \in BOOLEAN
  BY <1>1, DeletePromise DEF Promise
<1>3. ASSUME NEW x, NEW f, Leaves(x, f), x.exists, f \/ ~fresh[Object]
      PROVE  Object \in left'
  BY <1>1, <1>3 DEF Leaves, Reached
<1>4. CASE UninstallObject
  <2>1. Write(Object, r.obj) /\ Leaves(r.obj, ~r.ok)
    BY <1>4 DEF UninstallObject
  <2>2. r.ok /\ fresh[Object] => ~r.obj.exists
    <3>1. fresh[Object] => cached[Object] = objs[Object]
      BY <1>1 DEF GoodObjects
    <3>2. objs[Object].exists \in BOOLEAN
      BY <1>1, KubeObjectType DEF GoodObjects
    <3> HIDE DEF Object
    <3> QED
      BY <3>1, <3>2 DEF deleteIfExists, Ok, Error, NoObject
  <2> HIDE DEF r
  <2> QED
    BY <1>2, <1>3, <2>1, <2>2
<1>5. CASE UninstallFails
  <2>1. PICK x \in {objs[Object], r.obj} : Write(Object, x) /\ Leaves(x, TRUE)
    BY <1>5 DEF UninstallFails
  <2> HIDE DEF r
  <2> QED
    BY <1>2, <1>3, <2>1
<1> QED
  BY <1>4, <1>5

\* A deletion of uninstall: a workload goes before its configuration, or is known
\* to be left.
LEMMA UninstallKeepsConfig ==
    ASSUME TypeInv, ConfigInv, UninstallObject \/ UninstallFails
    PROVE  ConfigInv'
<1>1. pc = "uninstall" /\ Planned /\ UNCHANGED beyond
  BY DEF UninstallObject, UninstallFails, Planned
<1>2. /\ Object \in Objects /\ Object = <<Component, Entry>>
      /\ Object[1] = Component /\ Object[2] = Entry
      /\ UNCHANGED managed /\ Objects' = Objects /\ managed \in Groups
      /\ objs \in [Objects -> KubeObject] /\ Moves /\ GoodObjects
  BY <1>1, ObjectType, UninstallEntry, BeyondType, RunCallsKeepType
     DEF Objects, TypeInv, GoodWorld, GoodObjects
<1>3. PICK x \in {objs[Object], NoObject} :
         Write(Object, x) /\ (\E f : Leaves(x, f)) /\ (x.exists => Object \in left')
  BY <1>2, UninstallWrites
<1>4. ~NoObject.exists
  BY DEF NoObject
<1>5. \A o \in Objects : o # Object => (o \in left' <=> o \in left)
  BY <1>3 DEF Leaves
<1>6. \A o \in Objects : objs'[o] = IF o = Object THEN x ELSE objs[o]
  BY <1>2, <1>3 DEF Write
<1>7. x.exists => Object \in left'
  BY <1>3
<1>8. step \in 1..Len(Plan) /\ Len(Plan) \in Nat /\ Plan = Uninstall(Component)
      /\ Component \in Components
  BY <1>1, ComponentType DEF TypeInv, GoodWorker, Plan
<1> DEFINE GoneAfter(o) == ~objs'[o].exists \/ o \in left'
<1>9. ASSUME NEW o \in Objects, Gone(o) \/ o = Object
      PROVE  GoneAfter(o)
  BY <1>5, <1>6, <1>7, <1>9 DEF Gone
<1> HIDE DEF GoneAfter
<1>10. ASSUME NEW i \in 1..(step - 1)
       PROVE  <<Component, Plan[i]>> \in Objects /\ GoneAfter(<<Component, Plan[i]>>)
  <2>1. i \in 1..Len(Plan)
    BY <1>8
  <2>2. <<Component, Plan[i]>> \in Objects
    BY <1>1, <1>8, <2>1, EarlierObjects, UninstallPlanType
  <2>3. Gone(<<Component, Plan[i]>>) \/ <<Component, Plan[i]>> = Object
    BY <1>1, <1>2 DEF ConfigInv, UninstalledSoFar
  <2> QED
    BY <1>9, <2>2, <2>3
<1>11. ConfigWritten'
  BY <1>1, <1>2 DEF Moves, ConfigWritten
<1>12. UninstalledSoFar'
  <2>1. CASE Planned'
    <3>1. /\ pc' = pc /\ Component' = Component /\ Plan' = Plan /\ Entry' = Plan[step']
          /\ \A i \in 1..(step' - 1) :
                 \/ i \in 1..(step - 1) \/ i = step
                 \/ pc = "uninstall" /\ i = step + 1 /\ Plan[i] = Plan[step']
      BY <1>1, <1>2, <2>1, PlanStays
    <3> SUFFICES ASSUME NEW i \in 1..(step' - 1), Plan[i] # Plan[step']
                 PROVE  GoneAfter(<<Component, Plan[i]>>)
      BY <3>1 DEF UninstalledSoFar, Gone, GoneAfter
    <3>2. i \in 1..(step - 1) \/ i = step
      BY <3>1
    <3>3. CASE i = step
      <4>1. <<Component, Plan[i]>> = Object
        BY <1>2, <3>3 DEF Entry
      <4> QED
        BY <1>2, <1>9, <4>1
    <3> QED
      BY <1>10, <3>2, <3>3
  <2> QED
    BY <2>1 DEF Planned, UninstalledSoFar
<1>13. WorkloadHasConfig'
  <2> SUFFICES ASSUME NEW o \in Objects, o[1] \in Agents, o[2] \in Workloads,
                      objs'[o].exists, objs'[o].from # Older
               PROVE  objs'[ConfigOf(o)].exists \/ o \in left'
    BY <1>2 DEF WorkloadHasConfig
  <2>1. /\ ConfigOf(o) \in Objects /\ ConfigOf(o) # o /\ o = <<o[1], o[2]>>
        /\ ConfigOf(o) = <<o[1], ConfigKind(o[1], o[2])>>
        /\ o[2] \in Kinds(o[1])
    BY <1>2, ConfigOfType, ObjectsArePairs
  <2>2. CASE o = Object
    BY <1>6, <1>7, <2>2
  <2>3. CASE o # Object
    <3>1. objs[ConfigOf(o)].exists \/ o \in left
      BY <1>6, <2>3 DEF ConfigInv, WorkloadHasConfig
    <3>2. CASE ConfigOf(o) = Object
      <4>1. o[1] = Component /\ Entry = ConfigKind(o[1], o[2])
        BY <1>2, <2>1, <3>2
      <4>2. PICK j \in 1..(step - 1) : Plan[j] = o[2]
        BY <1>8, <2>1, <4>1, WorkloadBeforeConfig DEF Entry
      <4>3. GoneAfter(o)
        BY <1>10, <2>1, <4>1, <4>2
      <4> QED
        BY <4>3 DEF GoneAfter
    <3> QED
      BY <1>5, <1>6, <2>1, <2>3, <3>1, <3>2
  <2> QED
    BY <2>2, <2>3
<1> QED
  BY <1>11, <1>12, <1>13 DEF ConfigInv

\* What others do to the objects, and the steps that do nothing to them.
LEMMA OthersKeepShape ==
    ASSUME TypeInv, [Next]_vars,
           ~HandleObject, ~HandleFails, ~UninstallObject, ~UninstallFails
    PROVE  SameShape
<1>1. GoodObjects /\ objs \in [Objects -> KubeObject]
  BY DEF TypeInv, GoodObjects
<1>2. CASE Touch \/ \E p \in Objects : RollOut(p)
  <2>1. PICK p \in Objects :
           \E x \in {[objs[p] EXCEPT !.foreign = TRUE],
                     [objs[p] EXCEPT !.rollout = NextRollout(p)]} : Write(p, x)
    BY <1>2 DEF Touch, RollOut
  <2>2. PICK x \in {[objs[p] EXCEPT !.foreign = TRUE],
                    [objs[p] EXCEPT !.rollout = NextRollout(p)]} : Write(p, x)
    BY <2>1
  <2>3. objs[p].exists = x.exists /\ objs[p].from = x.from
    BY <1>1, <2>2, KubeObjectType
  <2>4. UNCHANGED <<managed, left>>
    BY <1>2 DEF Touch, RollOut, world, worker
  <2> QED
    BY <1>1, <2>2, <2>3, <2>4 DEF Write, SameShape
<1>3. CASE ~Touch /\ ~(\E p \in Objects : RollOut(p))
  <2>1. UNCHANGED <<objs, managed, left>>
    BY <1>3 DEF Next, Worker, Begin, updateDynamicParameters, RunBegin,
       ResolveSecretKeyValue, Started, GraylogCall, WaitAvailable, WaitFails, Return,
       EditSpec, SpecSync, Rotate, TimerFires, Restart, SecretSync, ObjectSync, vars,
       objects, world, worker, beyond
  <2> QED
    BY <2>1 DEF SameShape
<1> QED
  BY <1>2, <1>3

LEMMA ConfigNext == TypeInv /\ ConfigInv /\ [Next]_vars => ConfigInv'
<1> SUFFICES ASSUME TypeInv, ConfigInv, [Next]_vars PROVE ConfigInv'
  OBVIOUS
<1>1. CASE HandleObject \/ HandleFails
  BY <1>1, HandlersKeepConfig
<1>2. CASE UninstallObject \/ UninstallFails
  BY <1>2, UninstallKeepsConfig
<1>3. CASE ~(HandleObject \/ HandleFails) /\ ~(UninstallObject \/ UninstallFails)
  <2>1. SameShape
    BY <1>3, OthersKeepShape
  <2>2. CASE ResolveSecretKeyValue \/ Started \/ GraylogCall
    <3>1. pc = "install" /\ Planned /\ Entry \in Reads \cup Others
      BY <2>2 DEF ResolveSecretKeyValue, Started, GraylogCall, Planned, Others
    <3>2. (\E cs : Continue(cs)) \/ Abort
      BY <2>2 DEF ResolveSecretKeyValue, Started, GraylogCall
    <3>3. Moves
      BY <3>1, <3>2, ContinueMoves, AbortMoves
    <3> QED
      BY <2>1, <3>1, <3>3, ReadsKeepConfig
  <2>3. CASE RunBegin
    <3>1. step' = 1
      BY <2>3 DEF RunBegin, Abort, NextRun, TypeInv, GoodWorker, Planned
    <3> QED
      BY <2>1, <3>1, ShapeKeepsConfig
  <2>4. CASE Begin \/ updateDynamicParameters \/ WaitAvailable \/ WaitFails \/ Return
             \/ Restart
    <3>1. ~Planned'
      BY <2>4 DEF Begin, updateDynamicParameters, WaitAvailable, WaitFails, Return,
         Restart, Planned
    <3> QED
      BY <2>1, <3>1, ShapeKeepsConfig
  <2>5. CASE EditSpec \/ SpecSync \/ Rotate \/ Touch \/ TimerFires \/ UNCHANGED vars
             \/ (\E n \in Secrets : SecretSync(n))
             \/ (\E o \in Objects : RollOut(o) \/ ObjectSync(o))
    <3>1. UNCHANGED <<pc, at, step>>
      BY <2>5 DEF EditSpec, SpecSync, Rotate, Touch, TimerFires, SecretSync, RollOut,
         ObjectSync, worker, vars
    <3> QED
      BY <2>1, <3>1, ShapeKeepsConfig
  <2> QED
    BY <1>3, <2>2, <2>3, <2>4, <2>5 DEF Next, Worker
<1> QED
  BY <1>1, <1>2, <1>3

LEMMA ConfigInit == Init => ConfigInv
<1> SUFFICES ASSUME Init PROVE ConfigInv
  OBVIOUS
<1>1. \A o \in Objects : objs[o].from = Older
  BY DEF Init, NoObject
<1> QED
  BY <1>1 DEF Init, ConfigInv, ConfigWritten, UninstalledSoFar, WorkloadHasConfig

\* An agent that this release has installed always finds its configuration: every
\* handler writes the configuration before the workload and uninstall deletes it after
\* the workload, whatever fails and whenever the operator dies.
THEOREM AgentsHaveConfig == Spec => []WorkloadHasConfig
<1>1. ConfigInv => WorkloadHasConfig
  BY DEF ConfigInv
<1> QED
  BY <1>1, ConfigInit, ConfigNext, TypeAlways, PTL DEF Spec
-----------------------------------------------------------------------------
(***************************************************************************)
(* What a successful cycle has done, as long as no news has come since it  *)
(* began.  The specification and the credentials that it reads are then    *)
(* those its beginning found; a copy of an object it comes to is current,  *)
(* or the object is known to be left when the copy has misled the run.     *)
(***************************************************************************)

\* Nothing that the cycle has read has changed since without a new request, and
\* no such change is on its way.
NoNews == ~behind /\ ~queued /\ ~missed

\* The object of the cycle holds the specification.
Agrees ==
    /\ local.parts = spec.parts /\ local.auth = spec.auth /\ local.runtime = spec.runtime
    /\ local.complete = spec.complete /\ local.variant = spec.variant

\* The credentials of an agent in the cache.
CachedCreds(c) ==
    [i \in 1..3 |-> LET n == spec.auth[c][Fields[i]]
                    IN  IF n = NoSecret THEN NoValue ELSE secretCache[n]]

\* An object of an installed component is dealt with when it is rendered, or when
\* it is gone; of a component that is not installed everything is gone.  What a run
\* has gone past without that is known to be left.
Settled(o) ==
    \/ o \in left
    \/ o[2] \in OnlyDeleted /\ ~objs[o].exists
    \/ /\ o[2] \notin OnlyDeleted
       /\ objs[o].exists
       /\ objs[o].from = Manifest(o[1], o[2], spec.variant, memory,
                                  IF o[1] \in Agents THEN CachedCreds(o[1]) ELSE <<>>)

Dealt(o) ==
    IF Installs(spec.parts, o[1]) THEN o[2] \in Elements(Install(o[1])) => Settled(o)
    ELSE o # <<"Graylog", "oldDeployment">> => Gone(o)

\* A cycle goes over the components once.
StartsAtFirst == pc \in {"idle", "parameters", "wait"} => at = 1

SpecIsCurrent ==
    /\ ~behind => specCache = spec
    /\ pc # "idle" /\ ~behind /\ ~queued => Agrees

\* The runtime in memory is the one the specification sets.
RuntimeIsSet ==
    /\ \/ pc \in {"begin", "install", "uninstall", "wait"}
       \/ pc = "idle" /\ outcome = "success"
    /\ ~behind /\ ~queued /\ spec.runtime # NoRuntime
    => memory = spec.runtime

Decided ==
    /\ pc = "install" => Installs(local.parts, Component)
    /\ pc = "uninstall" => ~Installs(local.parts, Component)

\* The credentials that the run has read are still those in the cache.
CredsAreCurrent ==
    pc = "install" /\ NoNews =>
        \A c \in Agents : c = Component =>
            \A i \in 1..Len(creds) : creds[i] = CachedCreds(c)[i]

\* The objects that the run has come past.
Handled(o) ==
    pc = "install" /\ o[1] = Component /\ \E i \in 1..(step - 1) : Plan[i] = o[2]

SettledSoFar == NoNews => \A o \in Objects : Handled(o) => Settled(o)

\* The components that the cycle has come past.
Past(c) ==
    \/ pc = "idle" /\ outcome = "success"
    \/ pc = "wait" /\ success
    \/ (Planned \/ pc = "begin") /\ success /\ \E j \in 1..(at - 1) : Runs[j] = c

DealtSoFar == NoNews => \A o \in Objects : Past(o[1]) => Dealt(o)

CycleInv ==
    /\ StartsAtFirst /\ SpecIsCurrent /\ RuntimeIsSet /\ Decided
    /\ CredsAreCurrent /\ SettledSoFar /\ DealtSoFar

\* How a call of a run ends: the run goes on, it is over, or it has failed.
GoesOn == step < Len(Plan) /\ UNCHANGED <<pc, at, success>> /\ step' \in 1..Len(Plan)
IsOver == step = Len(Plan) /\ NextRun /\ UNCHANGED success
HasFailed == NextRun /\ success' = FALSE

Call == ResolveSecretKeyValue \/ HandleObject \/ HandleFails \/ Started \/ GraylogCall
           \/ UninstallObject \/ UninstallFails

LEMMA ContinueEnds ==
    ASSUME TypeInv, Planned, NEW cs, Continue(cs)
    PROVE  (GoesOn /\ step' = step + 1 /\ creds' = cs) \/ IsOver
BY ComponentType DEF Continue, TypeInv, GoodWorker, GoesOn, IsOver

LEMMA SkipOneEnds ==
    ASSUME TypeInv, pc = "uninstall", SkipOne
    PROVE  GoesOn \/ IsOver
<1>1. CASE Component = "Fluentd" /\ Entry = "config"
  <2>1. step \in 1..Len(Uninstall("Fluentd")) /\ Uninstall("Fluentd")[step] = "config"
    BY <1>1 DEF TypeInv, GoodWorker, Planned, Plan, Entry
  <2>2. step + 2 \in 1..Len(Plan)
    BY <1>1, <2>1, SkippedComesAgain DEF Plan
  <2>3. step \in 1..Len(Plan) /\ Len(Plan) \in Nat
    BY ComponentType DEF TypeInv, GoodWorker, Planned
  <2> HIDE DEF Plan
  <2> QED
    BY <1>1, <2>2, <2>3 DEF SkipOne, GoesOn
<1>2. CASE ~(Component = "Fluentd" /\ Entry = "config")
  BY <1>2, ContinueEnds DEF SkipOne, Planned
<1> QED
  BY <1>1, <1>2

LEMMA CallEnds ==
    ASSUME TypeInv, Call
    PROVE  /\ Planned /\ UNCHANGED beyond
           /\ GoesOn \/ IsOver \/ HasFailed
           /\ Moves
<1>1. Planned /\ UNCHANGED beyond
  BY DEF Call, ResolveSecretKeyValue, HandleObject, HandleFails, Started, GraylogCall,
     UninstallObject, UninstallFails, Planned
<1>2. (\E cs : Continue(cs)) \/ Abort \/ (pc = "uninstall" /\ SkipOne)
  BY DEF Call, ResolveSecretKeyValue, HandleObject, HandleFails, Started, GraylogCall,
     UninstallObject, UninstallFails
<1>3. Moves
  BY <1>1, <1>2, ContinueMoves, AbortMoves, SkipOneMoves
<1> QED
  BY <1>1, <1>2, <1>3, ContinueEnds, SkipOneEnds DEF Abort, HasFailed

\* The steps by what they do to the worker.
LEMMA StepKinds ==
    ASSUME [Next]_vars
    PROVE  \/ Begin \/ updateDynamicParameters \/ RunBegin \/ Call
           \/ WaitAvailable \/ WaitFails \/ Return \/ Restart
           \/ UNCHANGED worker /\ (EditSpec \/ SpecSync \/ Rotate \/ Touch \/ TimerFires
                 \/ (\E n \in Secrets : SecretSync(n))
                 \/ (\E o \in Objects : RollOut(o) \/ ObjectSync(o)) \/ UNCHANGED vars)
BY DEF Next, Worker, Call, EditSpec, SpecSync, Rotate, Touch, TimerFires, SecretSync,
   RollOut, ObjectSync, vars

LEMMA GroupStays ==
    ASSUME [Next]_vars
    PROVE  UNCHANGED managed /\ Objects' = Objects /\ Runs' = Runs
<1>1. UNCHANGED managed
  BY DEF Next, Worker, Begin, updateDynamicParameters, RunBegin, ResolveSecretKeyValue,
     HandleObject, HandleFails, Started, GraylogCall, UninstallObject, UninstallFails,
     WaitAvailable,
     WaitFails, Return, EditSpec, SpecSync, Rotate, Touch, TimerFires, Restart,
     SecretSync, RollOut, ObjectSync, vars, world, beyond
<1> QED
  BY <1>1 DEF Objects, Runs, IfManaged

LEMMA StartNext ==
    ASSUME TypeInv, StartsAtFirst, [Next]_vars
    PROVE  StartsAtFirst'
<1>1. CASE Call
  <2>1. Planned /\ (GoesOn \/ NextRun)
    BY <1>1, CallEnds DEF IsOver, HasFailed
  <2> QED
    BY <2>1 DEF GoesOn, NextRun, StartsAtFirst, Planned
<1>2. CASE Begin \/ updateDynamicParameters \/ WaitAvailable \/ WaitFails \/ Return \/ Restart
  BY <1>2 DEF Begin, updateDynamicParameters, WaitAvailable, WaitFails, Return, Restart,
     StartsAtFirst
<1>3. CASE RunBegin
  BY <1>3 DEF RunBegin, Abort, NextRun, StartsAtFirst
<1>4. CASE UNCHANGED worker
  BY <1>4 DEF worker, StartsAtFirst
<1> QED
  BY <1>1, <1>2, <1>3, <1>4, StepKinds

\* A status patch changes nothing in an object that holds the specification.
LEMMA PatchAgrees ==
    ASSUME GoodWorld, Agrees, local' \in AfterPatch, UNCHANGED spec
    PROVE  Agrees'
<1>1. CASE local' = local
  BY <1>1 DEF Agrees
<1>2. CASE local' = Decoded
  <2>1. spec \in UserSpecs
    BY DEF GoodWorld
  <2>2. Decoded.parts = spec.parts
    BY <2>1, SpecType DEF Decoded, Decode, Agrees, LoggingServiceSpec
  <2>3. Decoded.auth = spec.auth
    <3>1. spec.auth \in Auth /\ local.auth = spec.auth
      BY <2>1, SpecType DEF Agrees
    <3>2. Decoded.auth = [c \in Agents |-> [f \in Reads |-> spec.auth[c][f]]]
      BY <3>1 DEF Decoded
    <3>3. ASSUME NEW c \in Agents
          PROVE  [f \in Reads |-> spec.auth[c][f]] = spec.auth[c]
      BY <3>1 DEF Auth, Reads
    <3>4. spec.auth = [c \in Agents |-> spec.auth[c]]
      BY <3>1 DEF Auth
    <3> QED
      BY <3>2, <3>3, <3>4
  <2>4. Decoded.complete = spec.complete
    BY <2>1, SpecType DEF Decoded, Agrees
  <2>5. Decoded.runtime = spec.runtime /\ Decoded.variant = spec.variant
    BY DEF Decoded, Agrees
  <2> HIDE DEF Decoded
  <2> QED
    BY <1>2, <2>2, <2>3, <2>4, <2>5 DEF Agrees
<1> QED
  BY <1>1, <1>2 DEF AfterPatch

LEMMA SpecNext ==
    ASSUME TypeInv, SpecIsCurrent, [Next]_vars
    PROVE  SpecIsCurrent'
<1>1. CASE Call
  <2>1. Planned /\ UNCHANGED <<spec, specCache, behind, queued, local>>
    BY <1>1, CallEnds DEF beyond, world, copies, requests
  <2> QED
    BY <2>1 DEF SpecIsCurrent, Agrees, Planned
<1>2. CASE updateDynamicParameters \/ RunBegin
  <2>1. /\ local' \in AfterPatch /\ pc # "idle"
        /\ UNCHANGED <<spec, specCache, behind, queued>>
    BY <1>2 DEF updateDynamicParameters, RunBegin, world, copies, requests
  <2>2. Agrees => Agrees'
    BY <2>1, PatchAgrees DEF TypeInv
  <2> QED
    BY <2>1, <2>2 DEF SpecIsCurrent
<1>3. CASE Begin
  BY <1>3 DEF Begin, SpecIsCurrent, Agrees, copies, world
<1>4. CASE WaitAvailable \/ WaitFails
  BY <1>4 DEF WaitAvailable, WaitFails, SpecIsCurrent, Agrees, copies, world, requests
<1>5. CASE Return \/ Restart
  BY <1>5 DEF Return, Restart, SpecIsCurrent, copies, world
<1>6. CASE EditSpec \/ SpecSync \/ TimerFires
  BY <1>6 DEF EditSpec, SpecSync, TimerFires, SpecIsCurrent, copies, world
<1>7. CASE Rotate \/ Touch \/ (\E n \in Secrets : SecretSync(n)) \/ UNCHANGED vars
           \/ (\E o \in Objects : RollOut(o) \/ ObjectSync(o))
  <2>1. UNCHANGED <<spec, specCache, behind, local, pc>> /\ (~queued' => ~queued)
    BY <1>7 DEF Rotate, Touch, SecretSync, RollOut, ObjectSync, vars, world, copies,
       requests, worker, TypeInv, GoodWorld
  <2> QED
    BY <2>1 DEF SpecIsCurrent, Agrees
<1> QED
  BY <1>1, <1>2, <1>3, <1>4, <1>5, <1>6, <1>7, StepKinds

LEMMA RuntimeNext ==
    ASSUME TypeInv, SpecIsCurrent, SpecIsCurrent', RuntimeIsSet, [Next]_vars
    PROVE  RuntimeIsSet'
<1>1. CASE Call
  <2>1. Planned /\ UNCHANGED <<spec, behind, queued, memory>>
    BY <1>1, CallEnds DEF beyond, world, copies, requests
  <2> QED
    BY <2>1 DEF RuntimeIsSet, Planned
<1>2. CASE updateDynamicParameters
  <2>1. pc' = "begin" /\ (local'.runtime # NoRuntime => memory' = local'.runtime)
    BY <1>2 DEF updateDynamicParameters
  <2> QED
    BY <2>1 DEF RuntimeIsSet, SpecIsCurrent, Agrees
<1>3. CASE Begin
  BY <1>3 DEF Begin, RuntimeIsSet
<1>4. CASE RunBegin \/ WaitAvailable \/ WaitFails \/ Return
  <2>1. pc \in {"begin", "wait"} /\ UNCHANGED <<spec, behind, queued, memory>>
    BY <1>4 DEF RunBegin, WaitAvailable, WaitFails, Return, copies, world, requests
  <2> QED
    BY <2>1 DEF RuntimeIsSet
<1>5. CASE EditSpec \/ SpecSync \/ TimerFires \/ Restart
  BY <1>5 DEF EditSpec, SpecSync, TimerFires, Restart, RuntimeIsSet
<1>6. CASE Rotate \/ Touch \/ (\E n \in Secrets : SecretSync(n)) \/ UNCHANGED vars
           \/ (\E o \in Objects : RollOut(o) \/ ObjectSync(o))
  <2>1. UNCHANGED <<spec, behind, memory, pc, outcome>> /\ (~queued' => ~queued)
    BY <1>6 DEF Rotate, Touch, SecretSync, RollOut, ObjectSync, vars, world, copies,
       requests, worker, TypeInv, GoodWorld
  <2> QED
    BY <2>1 DEF RuntimeIsSet
<1> QED
  BY <1>1, <1>2, <1>3, <1>4, <1>5, <1>6, StepKinds

LEMMA DecidedNext ==
    ASSUME TypeInv, Decided, [Next]_vars
    PROVE  Decided'
<1>1. CASE Call
  <2>1. Planned /\ Moves /\ UNCHANGED <<local, managed>>
    BY <1>1, CallEnds DEF beyond, world
  <2>2. Planned' => pc' = pc /\ Component' = Component
    BY <2>1, PlanStays
  <2> QED
    BY <2>1, <2>2 DEF Decided, Planned
<1>2. CASE RunBegin
  <2>1. CASE Planned'
    <3>1. Component' = Component
      BY <1>2, <2>1 DEF RunBegin, Abort, NextRun, Planned, Component, Runs, IfManaged, world
    <3> HIDE DEF Component
    <3> QED
      BY <1>2, <2>1, <3>1 DEF RunBegin, Abort, NextRun, Planned, Decided
  <2> QED
    BY <2>1 DEF Planned, Decided
<1>3. CASE Begin \/ updateDynamicParameters \/ WaitAvailable \/ WaitFails \/ Return \/ Restart
  BY <1>3 DEF Begin, updateDynamicParameters, WaitAvailable, WaitFails, Return, Restart,
     Decided
<1>4. CASE UNCHANGED worker
  <2>1. UNCHANGED managed
    BY GroupStays
  <2>2. UNCHANGED <<Component, pc, local>>
    BY <1>4, <2>1 DEF worker, Component, Runs, IfManaged
  <2> HIDE DEF Component
  <2> QED
    BY <2>2 DEF Decided
<1> QED
  BY <1>1, <1>2, <1>3, <1>4, StepKinds

\* An event of a Secret leads to a request if an installed agent uses the Secret.
LEMMA InstalledIsReferenced ==
    ASSUME NEW c \in Agents, Installs(spec.parts, c), NEW f \in Reads
    PROVE  References(spec, spec.auth[c][f])
BY DEF Agents, Installs, IsInstall, AggregatorInstalled, References,
   fluentbitReferencesSecret, fluentdReferencesSecret, authReferencesSecret

\* The credentials that the installed agents use are as before.
SameCreds ==
    \A c \in Agents : Installs(spec.parts, c) => CachedCreds(c)' = CachedCreds(c)

LEMMA SecretSyncKeepsCreds ==
    ASSUME TypeInv, SpecIsCurrent, NEW n \in Secrets, SecretSync(n), NoNews'
    PROVE  SameCreds
<1>1. /\ UNCHANGED <<spec, specCache, behind>> /\ ~queued' /\ ~missed' /\ ~behind
      /\ secretCache' = [secretCache EXCEPT ![n] = secrets[n]]
  BY DEF SecretSync, world, NoNews
<1>2. ~References(specCache, n)
  BY <1>1 DEF SecretSync
<1>3. specCache = spec
  BY <1>1 DEF SpecIsCurrent
<1> SUFFICES ASSUME NEW c \in Agents, Installs(spec.parts, c)
             PROVE  CachedCreds(c)' = CachedCreds(c)
  BY DEF SameCreds
<1>4. \A i \in 1..3 : Fields[i] \in Reads
  BY DEF Fields, Reads
<1>5. \A i \in 1..3 : spec.auth[c][Fields[i]] # n
  BY <1>2, <1>3, <1>4, InstalledIsReferenced
<1>6. spec.auth \in Auth /\ secretCache \in [Secrets -> Values \cup {Missing}]
  BY SpecType DEF TypeInv, GoodWorld
<1>7. \A i \in 1..3 : spec.auth[c][Fields[i]] \in Secrets \cup {NoSecret}
  BY <1>4, <1>6 DEF Auth, Reads
<1>8. \A i \in 1..3 : spec.auth[c][Fields[i]] # NoSecret =>
          secretCache'[spec.auth[c][Fields[i]]] = secretCache[spec.auth[c][Fields[i]]]
  BY <1>1, <1>5, <1>6, <1>7
<1> QED
  BY <1>1, <1>8 DEF CachedCreds

\* No news after a step means none before it, and that what the cycle has read is
\* what it was; only the beginning of a cycle forgets the news.
LEMMA NoNewsBefore ==
    ASSUME TypeInv, SpecIsCurrent, [Next]_vars, NoNews', ~Begin
    PROVE  /\ NoNews /\ UNCHANGED spec /\ SameCreds
           /\ ~updateDynamicParameters => UNCHANGED memory
<1>1. CASE Call
  <2>1. UNCHANGED <<spec, behind, queued, missed, memory, secretCache>>
    BY <1>1, CallEnds DEF beyond, world, copies, requests
  <2> QED
    BY <2>1 DEF NoNews, SameCreds, CachedCreds
<1>2. CASE updateDynamicParameters \/ RunBegin \/ WaitAvailable \/ WaitFails \/ Return
  <2>1. UNCHANGED <<spec, behind, queued, missed, secretCache>>
        /\ (~updateDynamicParameters => UNCHANGED memory)
    BY <1>2 DEF updateDynamicParameters, RunBegin, WaitAvailable, WaitFails, Return, copies,
       world, requests
  <2> QED
    BY <2>1 DEF NoNews, SameCreds, CachedCreds
<1>3. CASE EditSpec \/ SpecSync \/ TimerFires \/ Restart
  BY <1>3 DEF EditSpec, SpecSync, TimerFires, Restart, NoNews
<1>4. CASE Rotate \/ Touch \/ UNCHANGED vars
           \/ (\E o \in Objects : RollOut(o) \/ ObjectSync(o))
  <2>1. UNCHANGED <<spec, behind, queued, missed, memory, secretCache>>
    BY <1>4 DEF Rotate, Touch, RollOut, ObjectSync, vars, world, copies, requests, worker
  <2> QED
    BY <2>1 DEF NoNews, SameCreds, CachedCreds
<1>5. CASE \E n \in Secrets : SecretSync(n)
  <2>1. UNCHANGED <<spec, behind, memory>> /\ (~queued' => ~queued) /\ (~missed' => ~missed)
    BY <1>5 DEF SecretSync, world, worker, Happens, TypeInv, GoodWorld
  <2> QED
    BY <1>5, <2>1, SecretSyncKeepsCreds DEF NoNews
<1> QED
  BY <1>1, <1>2, <1>3, <1>4, <1>5, StepKinds

\* What a read adds to the credentials of the run.
LEMMA ReadIsCurrent ==
    ASSUME TypeInv, SpecIsCurrent, NoNews, ResolveSecretKeyValue, pc' = "install",
           NEW c, c = Component
    PROVE  /\ c \in Agents /\ step \in 1..3 /\ Len(creds) = step - 1
           /\ creds' = Append(creds, CachedCreds(c)[step])
<1>1. pc = "install" /\ Planned /\ Entry \in Reads
  BY DEF ResolveSecretKeyValue, Planned
<1>2. /\ step \in 1..Len(Install(c)) /\ c \in Components
      /\ creds \in Seq(Credential) /\ Len(creds) = ReadBefore(c, step)
      /\ Entry = Install(c)[step]
  BY <1>1, ComponentType DEF TypeInv, GoodWorker, Planned, Plan, Entry
<1>3. c \in Agents /\ step \in 1..3 /\ Entry = Fields[step]
  BY <1>1, <1>2, InstallReads
<1>4. Len(creds) = step - 1
  BY <1>2, <1>3 DEF ReadBefore
<1>5. local.auth = spec.auth
  BY <1>1 DEF SpecIsCurrent, NoNews, Agrees
<1> DEFINE n == local.auth[c][Entry]
<1>6. CachedCreds(c)[step] = IF n = NoSecret THEN NoValue ELSE secretCache[n]
  BY <1>3, <1>5 DEF CachedCreds
<1>7. \/ n = NoSecret /\ Continue(Append(creds, NoValue))
      \/ n # NoSecret /\ Continue(Append(creds, secretCache[n]))
      \/ Abort
  BY DEF ResolveSecretKeyValue
<1>8. ~Abort
  BY DEF Abort, NextRun
<1>9. Continue(Append(creds, CachedCreds(c)[step]))
  BY <1>6, <1>7, <1>8
<1>10. creds' = Append(creds, CachedCreds(c)[step])
  BY <1>1, <1>9, ContinueMoves
<1> QED
  BY <1>3, <1>4, <1>10

LEMMA CredsNext ==
    ASSUME TypeInv, SpecIsCurrent, CredsAreCurrent, [Next]_vars, SpecIsCurrent', Decided'
    PROVE  CredsAreCurrent'
<1> SUFFICES ASSUME pc' = "install", NoNews', NEW c \in Agents, c = Component',
                    NEW i \in 1..Len(creds')
             PROVE  creds'[i] = CachedCreds(c)'[i]
  BY DEF CredsAreCurrent
<1>1. ~Begin
  BY DEF Begin
<1>2. NoNews /\ UNCHANGED spec /\ SameCreds
  BY <1>1, NoNewsBefore
<1>3. Installs(spec.parts, c)
  BY <1>2 DEF Decided, SpecIsCurrent, NoNews, Agrees
<1>4. CachedCreds(c)' = CachedCreds(c)
  BY <1>2, <1>3 DEF SameCreds
<1>5. ASSUME pc = "install", c = Component, NEW j \in 1..Len(creds)
      PROVE  creds[j] = CachedCreds(c)[j]
  BY <1>2, <1>5 DEF CredsAreCurrent
<1>6. creds \in Seq(Credential)
  BY DEF TypeInv, GoodWorker
<1>7. CASE Call
  <2>1. pc = "install" /\ c = Component /\ Planned
    BY <1>7, CallEnds, PlanStays DEF Planned, beyond, world
  <2>2. CASE ResolveSecretKeyValue
    <3>1. step \in 1..3 /\ Len(creds) = step - 1
          /\ creds' = Append(creds, CachedCreds(c)[step])
      BY <1>2, <2>1, <2>2, ReadIsCurrent
    <3>2. Len(creds') = step
      BY <1>6, <3>1
    <3>3. CASE i = step
      BY <1>4, <1>6, <3>1, <3>3
    <3>4. CASE i # step
      <4>1. i \in 1..Len(creds)
        BY <3>1, <3>2, <3>4
      <4>2. creds'[i] = creds[i]
        BY <1>6, <3>1, <4>1
      <4> QED
        BY <1>4, <1>5, <2>1, <4>1, <4>2
    <3> QED
      BY <3>3, <3>4
  <2>3. CASE HandleObject \/ HandleFails \/ Started \/ GraylogCall
    <3>1. Continue(creds) \/ Abort
      BY <2>3 DEF HandleObject, HandleFails, Started, GraylogCall
    <3>2. creds' = creds
      BY <2>1, <3>1, ContinueMoves, AbortMoves
    <3> QED
      BY <1>4, <1>5, <2>1, <3>2
  <2> QED
    BY <1>7, <2>1, <2>2, <2>3 DEF Call, UninstallObject, UninstallFails
<1>8. CASE RunBegin
  <2>1. creds = <<>> /\ creds' = creds
    BY <1>8 DEF RunBegin, Abort, NextRun, TypeInv, GoodWorker, Planned
  <2>2. Len(creds') = 0
    BY <2>1
  <2> QED
    BY <2>2
<1>9. CASE UNCHANGED worker
  <2>1. UNCHANGED <<pc, creds, at>>
    BY <1>9 DEF worker
  <2>2. UNCHANGED managed
    BY GroupStays
  <2>3. c = Component
    BY <2>1, <2>2 DEF Component, Runs, IfManaged
  <2> QED
    BY <1>4, <1>5, <2>1, <2>3
<1>10. ~updateDynamicParameters /\ ~WaitAvailable /\ ~WaitFails /\ ~Return /\ ~Restart
  BY DEF updateDynamicParameters, WaitAvailable, WaitFails, Return, Restart
<1> QED
  BY <1>1, <1>7, <1>8, <1>9, <1>10, StepKinds

\* A call writes the object at hand and nothing else.
LEMMA CallWrites ==
    ASSUME TypeInv, Call
    PROVE  /\ UNCHANGED cached
           /\ \A o \in Objects : o # Object =>
                 objs'[o] = objs[o] /\ (o \in left' <=> o \in left)
<1>1. objs \in [Objects -> KubeObject]
  BY DEF TypeInv, GoodObjects
<1>2. CASE ResolveSecretKeyValue \/ Started \/ GraylogCall
  BY <1>2 DEF ResolveSecretKeyValue, Started, GraylogCall, objects
<1>3. CASE HandleObject \/ HandleFails
  <2>1. UNCHANGED objects \/ \E x : Write(Object, x)
    BY <1>3 DEF HandleObject, HandleFails
  <2>2. (\E x, f : Leaves(x, f)) \/ UNCHANGED left
    BY <1>3 DEF HandleObject, HandleFails
  <2> HIDE DEF Object
  <2> QED
    BY <1>1, <2>1, <2>2 DEF Write, Leaves, objects
<1>4. CASE UninstallObject \/ UninstallFails
  <2>1. \E x, f : Write(Object, x) /\ Leaves(x, f)
    BY <1>4 DEF UninstallObject, UninstallFails
  <2> HIDE DEF Object
  <2> QED
    BY <1>1, <2>1 DEF Write, Leaves
<1> QED
  BY <1>2, <1>3, <1>4 DEF Call

\* With a current copy of the object, a handler that succeeds has rendered it.
LEMMA HandlersRender ==
    ASSUME GoodObjects, NEW o \in Objects, NEW m \in Renderings, fresh[o]
    PROVE  /\ createOrUpdate(o, m).ok => createOrUpdate(o, m).obj.from = m
           /\ CreateOrUpdateConfigSecret(o, m).ok =>
                 CreateOrUpdateConfigSecret(o, m).obj.from = m
           /\ updateConfigMap(o, m).ok => updateConfigMap(o, m).obj.from = m
           /\ handleConfigMap(o, m).obj.from = m
           /\ deleteIfExists(o).ok => ~deleteIfExists(o).obj.exists
<1>1. objs[o] \in KubeObject /\ cached[o] = objs[o]
  BY DEF GoodObjects
<1>2. objs[o].exists \in BOOLEAN /\ cached[o].exists \in BOOLEAN /\ fresh[o] \in BOOLEAN
  BY <1>1, KubeObjectType DEF GoodObjects
<1> DEFINE new == Created(o, m)
           mine == Mutated(cached[o], o[2], m)
           theirs == Mutated(objs[o], o[2], m)
<1>3. new.from = m /\ mine.from = m /\ theirs.from = m
  BY <1>1, CreatedType, MutatedType
<1>4. \A x : Ok(x).ok = TRUE /\ Ok(x).obj = x
  BY DEF Ok
<1>5. Error(o).ok = FALSE
  BY DEF Error
<1> HIDE DEF new, mine, theirs
<1>6. createOrUpdate(o, m) \in {Ok(new), Ok(mine), Error(o)}
  BY <1>2 DEF createOrUpdate, new, mine
<1>7. \/ CreateOrUpdateConfigSecret(o, m) \in {Ok(new), Ok(mine), Error(o)}
      \/ CreateOrUpdateConfigSecret(o, m) = Ok(objs[o]) /\ objs[o].from = m
  BY <1>1, <1>2 DEF CreateOrUpdateConfigSecret, new, mine, Equal
<1>8. \/ updateConfigMap(o, m) \in {Ok(new), Ok(theirs), Error(o)}
      \/ updateConfigMap(o, m) = Ok(objs[o]) /\ objs[o].from = m
  BY <1>1, <1>2 DEF updateConfigMap, new, theirs, Equal
<1>9. handleConfigMap(o, m) \in {Ok(new), Ok(theirs)}
  BY <1>2 DEF handleConfigMap, new, theirs
<1>10. \/ deleteIfExists(o) = Ok(objs[o]) /\ ~objs[o].exists
       \/ deleteIfExists(o) \in {Ok(NoObject), Error(o)}
  BY <1>1, <1>2 DEF deleteIfExists
<1>11. ~NoObject.exists
  BY DEF NoObject
<1> HIDE DEF Ok, Error, NoObject
<1>12. createOrUpdate(o, m).ok => createOrUpdate(o, m).obj.from = m
  BY <1>3, <1>4, <1>5, <1>6
<1>13. CreateOrUpdateConfigSecret(o, m).ok => CreateOrUpdateConfigSecret(o, m).obj.from = m
  BY <1>3, <1>4, <1>5, <1>7
<1>14. updateConfigMap(o, m).ok => updateConfigMap(o, m).obj.from = m
  BY <1>3, <1>4, <1>5, <1>8
<1>15. handleConfigMap(o, m).obj.from = m
  BY <1>3, <1>4, <1>9
<1>16. deleteIfExists(o).ok => ~deleteIfExists(o).obj.exists
  BY <1>4, <1>5, <1>10, <1>11
<1> QED
  BY <1>12, <1>13, <1>14, <1>15, <1>16

LEMMA HandleRenders ==
    ASSUME TypeInv, pc = "install", Entry \notin Reads \cup Others, fresh[Object],
           Handle.ok
    PROVE  IF Entry \in OnlyDeleted THEN ~Handle.obj.exists
           ELSE Handle.obj.exists /\ Handle.obj.from = Desired
<1>1. GoodObjects /\ Object \in Objects /\ Desired \in Renderings
  BY ObjectType, DesiredType DEF TypeInv, Planned
<1>2. Entry \notin OnlyDeleted => Handle.obj.exists
  BY HandlePromise
<1> HIDE DEF Desired, Object, Entry
<1>3. CASE Entry \in OnlyDeleted
  <2>1. Handle = deleteIfExists(Object)
    BY <1>3 DEF Handle, OnlyDeleted
  <2> QED
    BY <1>1, <1>3, <2>1, HandlersRender
<1>4. CASE Entry \notin OnlyDeleted
  <2>1. Handle \in {CreateOrUpdateConfigSecret(Object, Desired),
                    updateConfigMap(Object, Desired), handleConfigMap(Object, Desired),
                    createOrUpdate(Object, Desired)}
    BY <1>4 DEF Handle
  <2>2. Handle.obj.from = Desired
    BY <1>1, <2>1, HandlersRender
  <2> QED
    BY <1>2, <1>4, <2>2
<1> QED
  BY <1>3, <1>4

\* What a handler renders is what the object should be, if there is no news.
LEMMA DesiredIsWanted ==
    ASSUME TypeInv, SpecIsCurrent, CredsAreCurrent, NoNews, pc = "install",
           Entry \notin Reads \cup Others
    PROVE  Desired = Manifest(Component, Entry, spec.variant, memory,
                              IF Component \in Agents THEN CachedCreds(Component) ELSE <<>>)
<1>1. local.variant = spec.variant
  BY DEF SpecIsCurrent, NoNews, Agrees
<1>2. ASSUME Entry = "config"
      PROVE  Component \in Agents /\ creds = CachedCreds(Component)
  <2>1. Component \in Components /\ step \in 1..Len(Install(Component))
    BY ComponentType DEF TypeInv, GoodWorker, Planned, Plan
  <2>2. Component \in Agents /\ step = 4
    BY <1>2, <2>1, InstallReads DEF Entry, Plan
  <2>3. Len(creds) = 3 /\ creds \in Seq(Credential)
    BY <2>2 DEF TypeInv, GoodWorker, ReadBefore
  <2>4. \A i \in 1..3 : creds[i] = CachedCreds(Component)[i]
    BY <2>2, <2>3 DEF CredsAreCurrent
  <2>5. creds = [i \in 1..3 |-> creds[i]]
    BY <2>3
  <2>6. CachedCreds(Component) = [i \in 1..3 |-> CachedCreds(Component)[i]]
    BY DEF CachedCreds
  <2> QED
    BY <2>2, <2>4, <2>5, <2>6
<1> QED
  BY <1>1, <1>2 DEF Desired, Manifest, CarriesCredentials

\* What is dealt with stays so while its object, the specification and the
\* credentials stay.
Stays(o) ==
    /\ objs'[o].exists = objs[o].exists /\ objs'[o].from = objs[o].from
    /\ o \in left' <=> o \in left

LEMMA SettledStays ==
    ASSUME NEW o \in Objects, Stays(o), UNCHANGED <<spec, memory>>, SameCreds,
           Installs(spec.parts, o[1]), Settled(o)
    PROVE  Settled(o)'
<1>1. CASE o[2] \in OnlyDeleted
  BY <1>1 DEF Settled, Stays
<1>2. CASE o[2] \notin OnlyDeleted
  <2>1. o[1] \in Agents => CachedCreds(o[1])' = CachedCreds(o[1])
    BY DEF SameCreds
  <2> QED
    BY <1>2, <2>1 DEF Settled, Stays
<1> QED
  BY <1>1, <1>2

LEMMA DealtStays ==
    ASSUME NEW o \in Objects, Stays(o), UNCHANGED <<spec, memory>>, SameCreds, Dealt(o)
    PROVE  Dealt(o)'
<1>1. CASE Installs(spec.parts, o[1])
  BY <1>1, SettledStays DEF Dealt
<1>2. CASE ~Installs(spec.parts, o[1])
  BY <1>2 DEF Dealt, Gone, Stays
<1> QED
  BY <1>1, <1>2

\* The handler leaves its object settled when the run goes on.
LEMMA HandlerSettles ==
    ASSUME TypeInv, SpecIsCurrent, CredsAreCurrent, NoNews,
           HandleObject \/ HandleFails, ~HasFailed, NEW o \in Objects, o = Object
    PROVE  Settled(o)'
<1>1. /\ pc = "install" /\ Planned /\ Entry \notin Reads \cup Others
      /\ UNCHANGED <<spec, memory, secretCache>>
  BY DEF HandleObject, HandleFails, Planned, beyond, world, copies
<1>2. /\ o[1] = Component /\ o[2] = Entry /\ objs \in [Objects -> KubeObject]
      /\ step \in 1..Len(Plan) /\ Len(Plan) \in Nat
  BY <1>1, ObjectType, ComponentType DEF TypeInv, GoodObjects, GoodWorker
<1>3. Desired = Manifest(o[1], o[2], spec.variant, memory,
                         IF o[1] \in Agents THEN CachedCreds(o[1]) ELSE <<>>)
  BY <1>1, <1>2, DesiredIsWanted
<1>4. ~Abort
  BY DEF Abort, HasFailed
<1>5. ASSUME NEW x, objs'[o] = x, Reached(x)
      PROVE  Settled(o)'
  <2>1. IF o[2] \in OnlyDeleted THEN ~x.exists ELSE x.exists /\ x.from = Desired
    BY <1>1, <1>2, <1>5 DEF Reached
  <2>2. CachedCreds(o[1])' = CachedCreds(o[1])
    BY <1>1 DEF CachedCreds
  <2> QED
    BY <1>1, <1>3, <1>5, <2>1, <2>2 DEF Settled
<1>6. ASSUME NEW x, objs'[o] = x, NEW f, Leaves(x, f), f \/ ~fresh[Object]
      PROVE  Settled(o)'
  <2>1. Reached(x) \/ o \in left'
    BY <1>6 DEF Leaves
  <2> QED
    BY <1>5, <1>6, <2>1 DEF Settled
<1>7. CASE HandleObject /\ Handle.ok
  <2>1. Write(Object, Handle.obj) /\ Leaves(Handle.obj, FALSE)
    BY <1>7 DEF HandleObject
  <2>2. objs'[o] = Handle.obj
    BY <1>2, <2>1 DEF Write
  <2>3. ASSUME fresh[Object] PROVE Reached(Handle.obj)
    BY <1>1, <1>7, <2>3, HandleRenders DEF Reached
  <2> QED
    BY <1>5, <1>6, <2>1, <2>2, <2>3
<1>8. CASE HandleObject /\ ~Handle.ok
  <2>1. Leaves(Handle.obj, TRUE) /\ objs' = objs
    BY <1>4, <1>8 DEF HandleObject, objects
  <2>2. Handle.obj = objs[o]
    BY <1>1, <1>8, HandlePromise DEF Promise
  <2> QED
    BY <1>6, <2>1, <2>2
<1>9. CASE HandleFails
  <2>1. PICK x : Leaves(x, TRUE) /\ Write(Object, x)
    BY <1>4, <1>9 DEF HandleFails
  <2>2. objs'[o] = x
    BY <1>2, <2>1 DEF Write
  <2> QED
    BY <1>6, <2>1, <2>2
<1> QED
  BY <1>7, <1>8, <1>9

\* The kinds of objects are neither reads nor waits.
LEMMA KindIsNoRead ==
    ASSUME NEW o \in Objects
    PROVE  o[2] \notin Reads \cup Others
<1>1. o[2] \in Kinds(o[1])
  BY ObjectsArePairs
<1> QED
  BY <1>1 DEF Kinds

\* After a call of Run, all that the run has come past is settled, the object at
\* hand included.
LEMMA InstallCallSettles ==
    ASSUME TypeInv, CycleInv, [Next]_vars, Call, pc = "install", NoNews', ~HasFailed,
           NEW o \in Objects, o[1] = Component, NEW i \in 1..step, Plan[i] = o[2]
    PROVE  Settled(o)' /\ Installs(spec.parts, o[1]) /\ UNCHANGED spec
<1>1. ~Begin /\ ~updateDynamicParameters
  BY DEF Begin, updateDynamicParameters
<1>2. NoNews /\ UNCHANGED <<spec, memory>> /\ SameCreds
  BY <1>1, NoNewsBefore DEF CycleInv
<1>3. Installs(spec.parts, o[1])
  BY <1>2 DEF CycleInv, Decided, SpecIsCurrent, NoNews, Agrees
<1>4. o = <<o[1], o[2]>> /\ step \in 1..Len(Plan) /\ Planned
  BY ObjectsArePairs DEF TypeInv, GoodWorker, Planned
<1>5. CASE o = Object
  <2>1. Entry = o[2] /\ Entry \notin Reads \cup Others
    BY <1>5, KindIsNoRead DEF Object
  <2>2. HandleObject \/ HandleFails
    BY <2>1 DEF Call, ResolveSecretKeyValue, Started, GraylogCall, Others,
       UninstallObject, UninstallFails
  <2> QED
    BY <1>2, <1>3, <1>5, <2>2, HandlerSettles DEF CycleInv
<1>6. CASE o # Object
  <2>1. i # step
    BY <1>4, <1>6 DEF Object, Entry
  <2>2. i \in 1..(step - 1)
    BY <1>4, <2>1, ComponentType
  <2>3. Settled(o)
    BY <1>2, <2>2 DEF CycleInv, SettledSoFar, Handled
  <2>4. Stays(o)
    BY <1>6, CallWrites DEF Stays
  <2> QED
    BY <1>2, <1>3, <2>3, <2>4, SettledStays
<1> QED
  BY <1>5, <1>6 DEF Once

\* After a deletion of uninstall, all that the run has come past is gone, or known to be
\* left.
LEMMA UninstallCallDeletes ==
    ASSUME TypeInv, ConfigInv, Call, pc = "uninstall",
           NEW o \in Objects, o[1] = Component, NEW i \in 1..step, Plan[i] = o[2]
    PROVE  Gone(o)'
<1>1. UninstallObject \/ UninstallFails
  BY DEF Call, ResolveSecretKeyValue, HandleObject, HandleFails, Started, GraylogCall
<1>2. o = <<o[1], o[2]>> /\ step \in 1..Len(Plan) /\ Planned
      /\ objs \in [Objects -> KubeObject] /\ GoodObjects
  BY ObjectsArePairs DEF TypeInv, GoodWorker, Planned, GoodObjects
<1>3. CASE o = Object
  <2>1. PICK x : Write(Object, x) /\ (x.exists => Object \in left')
    BY <1>1, <1>3, UninstallWrites
  <2>2. objs'[o] = x /\ (x.exists => o \in left')
    BY <1>2, <1>3, <2>1 DEF Write
  <2> QED
    BY <2>2 DEF Gone
<1>4. CASE o # Object
  <2>1. i # step /\ Plan[i] # Entry
    BY <1>2, <1>4 DEF Object, Entry
  <2>2. i \in 1..(step - 1)
    BY <1>2, <2>1, ComponentType
  <2>3. Gone(o)
    BY <1>2, <2>1, <2>2 DEF ConfigInv, UninstalledSoFar
  <2>4. Stays(o)
    BY <1>4, CallWrites DEF Stays
  <2> QED
    BY <2>3, <2>4 DEF Gone, Stays
<1> QED
  BY <1>3, <1>4

\* The objects at the end of a run.
LEMMA RunDeals ==
    ASSUME TypeInv, ConfigInv, CycleInv, [Next]_vars, Call, NoNews', IsOver, ~HasFailed,
           NEW o \in Objects, o[1] = Component
    PROVE  Dealt(o)'
<1>1. ~Begin /\ ~updateDynamicParameters /\ Planned
  BY CallEnds DEF Begin, updateDynamicParameters, Planned
<1>2. NoNews /\ UNCHANGED <<spec, memory>>
  BY <1>1, NoNewsBefore DEF CycleInv
<1>3. step = Len(Plan) /\ Component \in Components /\ Len(Plan) \in Nat
  BY ComponentType DEF IsOver
<1>4. CASE pc = "install"
  <2>1. Installs(spec.parts, o[1])
    BY <1>2, <1>4 DEF CycleInv, Decided, SpecIsCurrent, NoNews, Agrees
  <2>2. ASSUME o[2] \in Elements(Install(o[1]))
        PROVE  Settled(o)'
    <3>1. PICK i \in 1..Len(Plan) : Plan[i] = o[2]
      BY <1>4, <2>2 DEF Elements, Plan
    <3> QED
      BY <1>3, <1>4, <3>1, InstallCallSettles
  <2> QED
    BY <1>2, <2>1, <2>2 DEF Dealt
<1>5. CASE pc = "uninstall"
  <2>1. ~Installs(spec.parts, o[1])
    BY <1>2, <1>5 DEF CycleInv, Decided, SpecIsCurrent, NoNews, Agrees
  <2>2. ASSUME o # <<"Graylog", "oldDeployment">>
        PROVE  Gone(o)'
    <3>1. o[2] \in Kinds(o[1]) /\ o = <<o[1], o[2]>>
      BY ObjectsArePairs
    <3>2. PICK i \in 1..Len(Plan) : Plan[i] = o[2]
      BY <1>3, <1>5, <2>2, <3>1, KindsAreUninstalled DEF Plan
    <3> QED
      BY <1>3, <1>5, <3>2, UninstallCallDeletes
  <2> QED
    BY <1>2, <2>1, <2>2 DEF Dealt
<1> QED
  BY <1>1, <1>4, <1>5 DEF Planned

LEMMA ShapeStays ==
    ASSUME SameShape, NEW o \in Objects
    PROVE  Stays(o)
BY DEF SameShape, Stays

LEMMA SettledNext ==
    ASSUME TypeInv, CycleInv, [Next]_vars
    PROVE  SettledSoFar'
<1>1. UNCHANGED managed /\ Objects' = Objects /\ Runs' = Runs
  BY GroupStays
<1> SUFFICES ASSUME NoNews', NEW o \in Objects, Handled(o)'
             PROVE  Settled(o)'
  BY <1>1 DEF SettledSoFar
<1>2. pc' = "install"
  BY DEF Handled
<1>3. CASE Call
  <2>1. Planned /\ Planned' /\ Moves /\ ~HasFailed
    BY <1>2, <1>3, CallEnds DEF Planned, HasFailed, NextRun
  <2>2. pc = "install" /\ Component' = Component /\ Plan' = Plan /\ step' = step + 1
        /\ step \in 1..Len(Plan) /\ Len(Plan) \in Nat
    BY <1>1, <1>2, <2>1, PlanStays
  <2>3. o[1] = Component /\ \E i \in 1..step : Plan[i] = o[2]
    BY <2>2 DEF Handled
  <2> QED
    BY <1>3, <2>1, <2>2, <2>3, InstallCallSettles
<1>4. CASE RunBegin
  <2>1. step' = 1
    BY <1>4 DEF RunBegin, Abort, NextRun, TypeInv, GoodWorker, Planned
  <2> QED
    BY <2>1 DEF Handled
<1>5. CASE UNCHANGED worker /\ ~Call
  <2>1. Handled(o) /\ pc = "install" /\ o[1] = Component
    BY <1>1, <1>5 DEF worker, Handled, Component, Plan
  <2>2. ~Begin /\ ~updateDynamicParameters
    BY <2>1 DEF Begin, updateDynamicParameters
  <2>3. NoNews /\ UNCHANGED <<spec, memory>> /\ SameCreds
    BY <2>2, NoNewsBefore DEF CycleInv
  <2>4. Installs(spec.parts, o[1])
    BY <2>1, <2>3 DEF CycleInv, Decided, SpecIsCurrent, NoNews, Agrees
  <2>5. Settled(o)
    BY <2>1, <2>3 DEF CycleInv, SettledSoFar
  <2>6. Stays(o)
    BY <1>5, OthersKeepShape, ShapeStays DEF Call
  <2> QED
    BY <2>3, <2>4, <2>5, <2>6, SettledStays
<1>6. ~Begin /\ ~updateDynamicParameters /\ ~WaitAvailable /\ ~WaitFails /\ ~Return /\ ~Restart
  BY <1>2 DEF Begin, updateDynamicParameters, WaitAvailable, WaitFails, Return, Restart
<1> QED
  BY <1>3, <1>4, <1>5, <1>6, StepKinds

LEMMA DealtNext ==
    ASSUME TypeInv, ConfigInv, CycleInv, [Next]_vars
    PROVE  DealtSoFar'
<1>1. UNCHANGED managed /\ Objects' = Objects /\ Runs' = Runs
  BY GroupStays
<1> SUFFICES ASSUME NoNews', NEW o \in Objects, Past(o[1])'
             PROVE  Dealt(o)'
  BY <1>1 DEF DealtSoFar
<1>2. /\ at \in 1..Len(Runs) /\ Len(Runs) \in Nat /\ managed \in Groups
      /\ o[1] \in managed
  BY ComponentType, ObjectsArePairs
<1>3. ~Begin /\ ~Restart
  BY DEF Begin, Restart, Past, Planned, NoNews
<1>4. ~updateDynamicParameters
  BY <1>1 DEF updateDynamicParameters, Past, Planned, CycleInv, StartsAtFirst
<1>5. NoNews /\ UNCHANGED <<spec, memory>> /\ SameCreds
  BY <1>3, <1>4, NoNewsBefore DEF CycleInv
<1>6. ASSUME Past(o[1]), Stays(o)
      PROVE  Dealt(o)'
  BY <1>5, <1>6, DealtStays DEF CycleInv, DealtSoFar
<1>7. CASE Call
  <2>1. Planned /\ (GoesOn \/ IsOver \/ HasFailed)
    BY <1>7, CallEnds
  <2>2. ~HasFailed /\ success'
    BY <2>1 DEF HasFailed, NextRun, Past, Planned, GoesOn, IsOver
  <2>3. success /\ (o[1] = Component \/ Past(o[1]))
    <3>1. success
      BY <2>1, <2>2 DEF GoesOn, IsOver
    <3>2. CASE GoesOn
      BY <1>1, <2>1, <3>1, <3>2 DEF GoesOn, Past, Planned
    <3>3. CASE NextRun
      <4>1. \E j \in 1..at : Runs[j] = o[1]
        <5>1. CASE at < Len(Runs)
          BY <1>1, <1>2, <3>3, <5>1 DEF NextRun, Past, Planned
        <5>2. CASE ~(at < Len(Runs))
          <6>1. at = Len(Runs)
            BY <1>2, <5>2
          <6> QED
            BY <1>2, <6>1, RunsType
        <5> QED
          BY <5>1, <5>2
      <4>2. PICK j \in 1..at : Runs[j] = o[1]
        BY <4>1
      <4>3. j = at \/ j \in 1..(at - 1)
        BY <1>2
      <4> QED
        BY <2>1, <3>1, <4>2, <4>3 DEF Past, Component
    <3> QED
      BY <2>1, <2>2, <3>1, <3>2, <3>3 DEF IsOver
  <2>4. CASE o[1] = Component
    <3>1. ~GoesOn
      <4>1. ASSUME GoesOn PROVE FALSE
        <5>1. PICK j \in 1..(at - 1) : Runs[j] = Component
          BY <1>1, <2>1, <2>4, <4>1 DEF GoesOn, Past, Planned
        <5>2. j \in 1..Len(Runs) /\ j # at
          BY <1>2
        <5> QED
          BY <1>2, <5>1, <5>2, RunsOnce DEF Component
      <4> QED
        BY <4>1
    <3> QED
      BY <1>7, <2>1, <2>2, <2>4, <3>1, RunDeals
  <2>5. CASE o[1] # Component
    <3>1. o # Object
      BY <2>5 DEF Object
    <3>2. Stays(o)
      BY <1>7, <3>1, CallWrites DEF Stays
    <3> QED
      BY <1>6, <2>3, <2>5, <3>2
  <2> QED
    BY <2>4, <2>5
<1>8. CASE ~Call /\ (RunBegin \/ WaitAvailable \/ WaitFails \/ Return \/ UNCHANGED worker)
  <2>1. Stays(o)
    BY <1>8, OthersKeepShape, ShapeStays DEF Call
  <2>2. CASE RunBegin
    <3>1. ~Abort
      BY <2>2 DEF Abort, NextRun, Past, Planned
    <3>2. Past(o[1])
      BY <1>1, <2>2, <3>1 DEF RunBegin, Past, Planned
    <3> QED
      BY <1>6, <2>1, <3>2
  <2>3. CASE WaitAvailable \/ WaitFails \/ Return
    <3>1. Past(o[1])
      BY <2>3 DEF WaitAvailable, WaitFails, Return, Past, Planned
    <3> QED
      BY <1>6, <2>1, <3>1
  <2>4. CASE UNCHANGED worker
    <3>1. Past(o[1])
      BY <1>1, <2>4 DEF worker, Past, Planned
    <3> QED
      BY <1>6, <2>1, <3>1
  <2> QED
    BY <1>8, <2>2, <2>3, <2>4
<1> QED
  BY <1>3, <1>4, <1>7, <1>8, StepKinds

LEMMA CycleNext == TypeInv /\ ConfigInv /\ CycleInv /\ [Next]_vars => CycleInv'
<1> SUFFICES ASSUME TypeInv, ConfigInv, CycleInv, [Next]_vars PROVE CycleInv'
  OBVIOUS
<1>1. StartsAtFirst /\ SpecIsCurrent /\ RuntimeIsSet /\ Decided /\ CredsAreCurrent
  BY DEF CycleInv
<1>2. StartsAtFirst' /\ SpecIsCurrent' /\ Decided'
  BY <1>1, StartNext, SpecNext, DecidedNext
<1>3. RuntimeIsSet' /\ CredsAreCurrent'
  BY <1>1, <1>2, RuntimeNext, CredsNext
<1>4. SettledSoFar' /\ DealtSoFar'
  BY SettledNext, DealtNext
<1> QED
  BY <1>2, <1>3, <1>4 DEF CycleInv

LEMMA CycleAlways == Spec => [](TypeInv /\ CycleInv)
<1>1. Init => CycleInv
  <2> SUFFICES ASSUME Init PROVE CycleInv
    OBVIOUS
  <2>1. pc = "idle" /\ outcome = "none" /\ at = 1 /\ specCache = spec
    BY DEF Init, Idle
  <2> QED
    BY <2>1 DEF CycleInv, StartsAtFirst, SpecIsCurrent, RuntimeIsSet, Decided,
       CredsAreCurrent, SettledSoFar, Handled, DealtSoFar, Past, Planned
<1>2. Init => ConfigInv
  BY ConfigInit
<1> QED
  BY <1>1, <1>2, CycleNext, ConfigNext, TypeAlways, PTL DEF Spec

\* At rest after a success every object is dealt with, for the credentials of now.
LEMMA RestIsDealt ==
    ASSUME TypeInv, CycleInv, Quiet, outcome = "success"
    PROVE  /\ \A o \in Objects : Dealt(o)
           /\ \A c \in Agents : CachedCreds(c) = CurrentCreds(c)
           /\ spec.runtime # NoRuntime => memory = spec.runtime
<1>1. NoNews /\ pc = "idle" /\ secretCache = secrets /\ ~behind /\ ~queued
  BY DEF Quiet, NoNews
<1>2. \A o \in Objects : Dealt(o)
  BY <1>1 DEF CycleInv, DealtSoFar, Past
<1>3. \A c \in Agents : CachedCreds(c) = CurrentCreds(c)
  BY <1>1 DEF CachedCreds, CurrentCreds
<1>4. spec.runtime # NoRuntime => memory = spec.runtime
  BY <1>1 DEF CycleInv, RuntimeIsSet
<1> QED
  BY <1>2, <1>3, <1>4

LEMMA RestIsRendered ==
    ASSUME TypeInv, CycleInv, Quiet, outcome = "success",
           NEW c \in managed, Installs(spec.parts, c)
    PROVE  Rendered(c)
<1> SUFFICES ASSUME NEW o \in ObjectsOf(c)
             PROVE  IsAsWanted(o) \/ o \in left
  BY DEF Rendered
<1>1. o \in Objects /\ o[1] = c /\ o[2] \in Elements(Install(c))
  BY ObjectsArePairs DEF ObjectsOf, Kinds
<1>2. Dealt(o) /\ (c \in Agents => CachedCreds(c) = CurrentCreds(c))
  BY <1>1, RestIsDealt
<1>3. Settled(o)
  BY <1>1, <1>2 DEF Dealt
<1> QED
  BY <1>1, <1>2, <1>3 DEF Settled, IsAsWanted, Wanted

\* When the operator rests after a successful cycle, every object of every
\* installed component is rendered from the specification, the credentials and the
\* runtime of now, but for those that an outdated copy in the cache hid from a run.
\* Whatever changes after a cycle has read it brings a request, so at rest nothing
\* has changed; nothing is assumed of how late the caches are.
THEOREM RestingMeansRendered == Spec => []RenderedWhenQuiet
<1>1. TypeInv /\ CycleInv => RenderedWhenQuiet
  BY RestIsRendered DEF RenderedWhenQuiet
<1> QED
  BY <1>1, CycleAlways, PTL

\* Whatever the nodes, the memory of the process and earlier specifications said,
\* at rest after a success all agents are rendered for one container runtime, the one
\* in the specification if it sets one, as far as the cached copies were current.
THEOREM AgentsAgreeOnRuntime == Spec => []RuntimeAgreed
<1>1. ASSUME TypeInv, CycleInv, Quiet, outcome = "success",
             NEW o \in Objects, o[1] \in Agents, Installs(spec.parts, o[1]),
             o[2] \in {"config", "configMap", "daemonset"}, o \notin left
      PROVE  objs[o].from.runtime = memory
  <2>1. o[1] \in managed /\ o[2] \in Kinds(o[1])
    BY ObjectsArePairs
  <2>2. o[2] \in Elements(Install(o[1]))
    <3>1. CASE o[1] = "Fluentd"
      BY <1>1, <2>1, <3>1, KindsOfComponents, InstallFluentd DEF Elements
    <3>2. CASE o[1] = "Fluentbit"
      BY <1>1, <2>1, <3>2, KindsOfComponents, InstallFluentbit DEF Elements
    <3>3. CASE o[1] = "HAFluent"
      BY <1>1, <2>1, <3>3, KindsOfComponents, InstallHAFluent DEF Elements
    <3> QED
      BY <1>1, <3>1, <3>2, <3>3 DEF Agents
  <2>3. Dealt(o)
    BY <1>1, RestIsDealt
  <2>4. objs[o].from = Manifest(o[1], o[2], spec.variant, memory, CachedCreds(o[1]))
    BY <1>1, <2>2, <2>3 DEF Dealt, Settled, OnlyDeleted
  <2> QED
    BY <1>1, <2>4 DEF Manifest, Rendering, DependsOnRuntime
<1>2. TypeInv /\ CycleInv => RuntimeAgreed
  BY <1>1, RestIsDealt DEF RuntimeAgreed
<1> QED
  BY <1>2, CycleAlways, PTL

\* Uninstalling leaves nothing behind but what the server refused to delete and what
\* the cache did not show: uninstall goes through every kind of object of its
\* component, and with a current copy a deletion without error has deleted.
THEOREM UninstallIsComplete == Spec => []NothingLeftBehind
<1>1. TypeInv /\ CycleInv => NothingLeftBehind
  <2> SUFFICES ASSUME TypeInv, CycleInv, Quiet, outcome = "success",
                      NEW o \in Objects \ {<<"Graylog", "oldDeployment">>},
                      ~Installs(spec.parts, o[1])
               PROVE  ~objs[o].exists \/ o \in left
    BY DEF NothingLeftBehind
  <2>1. Dealt(o)
    BY RestIsDealt
  <2> QED
    BY <2>1 DEF Dealt, Gone
<1> QED
  BY <1>1, CycleAlways, PTL
=============================================================================
