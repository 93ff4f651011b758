--------------------------- MODULE GraylogContent ---------------------------
(***************************************************************************)
(* GraylogReconciler.configureGraylog: the operator brings the content it  *)
(* ships (index sets, streams, rules, dashboards, accounts and so on) into *)
(* Graylog, one REST request after the other, while people work with       *)
(* Graylog.  A run that fails is repeated by the next reconcile, from the  *)
(* start.                                                                  *)
(*                                                                         *)
(* Every Manage... function lists what exists, and then creates or updates *)
(* entity by entity, by the deploy policy and by what the list said.  An   *)
(* entity is found by its title and referred to by its id.  One entity     *)
(* stands for those that are handled alike in one loop.                    *)
(***************************************************************************)
EXTENDS Naturals, Sequences

CONSTANTS
    AuthProxy,      \* spec.graylog.authProxy.install
    CustomContent,  \* spec.graylog.contentPackPaths or contentPacks is set
    Policies,       \* the deploy policies that users set
    MaxEdits,       \* bound: changes people make in Graylog
    MaxRequests,    \* bound: edits of the custom resource
    MaxFaults       \* bound: failed requests and crashes

ASSUME ContentAssumption ==
    /\ AuthProxy \in BOOLEAN /\ CustomContent \in BOOLEAN
    /\ Policies # {} /\ Policies \subseteq {"only-create", "force-update", "skip"}
    /\ MaxEdits \in Nat /\ MaxRequests \in Nat /\ MaxFaults \in Nat

VARIABLES
    store,      \* the entities in Graylog
    policy,     \* contentDeployPolicy of the custom resource
    due,        \* a reconcile is requested
    at,         \* the step of the run, 0 when none runs
    stage,      \* how far the step is
    todo,       \* the entities the step still has to handle
    seen,       \* the ids the step knows from its lists
    running,    \* contentDeployPolicy of the run
    outcome,    \* of the last run
    disturbed,  \* history: somebody changed something in Graylog since the run began
    skipped,    \* history: the accounts whose lookup failed in the run
    edits, requests, faults

control == <<due, at, stage, todo, seen, running, outcome>>
others == <<policy, disturbed, skipped, edits, requests>>
vars == <<store, control, others, faults>>
-----------------------------------------------------------------------------
(***************************************************************************)
(* What is shipped.                                                        *)
(***************************************************************************)
Streams == {"auditStream", "systemStream"}
IndexSets == {"defaultIndexSet", "auditIndexSet"}
Rules == {"removeKubernetesRule", "routeAudit", "routeSystem"}
Roles == {"operatorRole", "auditViewerRole"}
Users == {"operatorUser", "auditViewerUser", "trustedHeaderUser"}
Accounts == Roles \cup Users

\* The calls of configureGraylog in their order.  Streams, pipelines, saved
\* searches and user accounts are made of several.
Steps ==
    (IF AuthProxy THEN <<"authHeader">> ELSE <<>>)
    \o <<"grok", "indexSets", "inputs", "extractors", "processors", "streams", "resume",
         "rules", "pipeline", "connection", "dashboards">>
    \o (IF CustomContent THEN <<"contentPacks", "opensearchConfigs">> ELSE <<>>)
    \o <<"archives", "searches", "views">>
    \o (IF CustomContent THEN <<"customViews">> ELSE <<>>)
    \o <<"operatorRole", "auditViewerRole", "operatorUser", "auditViewerUser",
         "trustedHeaderUser">>

\* The entities a step handles.
Titles(step) ==
    CASE step = "indexSets"  -> IndexSets
      [] step = "inputs"     -> {"input"}
      [] step = "extractors" -> {"extractor", "os_extractor"}
      [] step \in {"streams", "resume"} -> Streams
      [] step = "rules"      -> Rules
      [] step = "dashboards" -> {"pack"}
      [] step = "searches"   -> {"search"}
      [] step = "views"      -> {"view"}
      [] step = "customViews" -> {"customView"}
      [] OTHER -> {step}

Contents == (UNION {Titles(Steps[i]) : i \in 1..Len(Steps)}) \cup {"installation", "dashboard"}

\* The lists a step asks for before it handles the first entity.
Lists(step) ==
    CASE step \in {"grok", "indexSets", "inputs", "resume", "pipeline", "dashboards",
                   "customViews"} -> <<Titles(step)>>
      [] step = "extractors" -> <<{"input"}, Titles(step)>>
      [] step = "streams"    -> <<Streams, IndexSets>>
      [] step = "rules"      -> <<Rules, Streams>>
      [] step = "connection" -> <<{"pipeline"}, Streams>>
      [] step = "searches"   -> <<{"view"}>>
      [] step = "operatorRole" -> <<{"dashboard"}, Streams>>
      [] step = "auditViewerRole" -> <<Streams>>
      [] OTHER -> <<>>

\* Steps that go on with the lists of the step before.
SharesLists == {"views", "auditViewerRole"}

\* The entities whose ids an entity holds.
RefsOf(c) ==
    CASE c = "auditStream"  -> {"auditIndexSet"}
      [] c = "systemStream" -> {"defaultIndexSet"}
      [] c = "routeAudit"   -> {"auditStream"}
      [] c = "routeSystem"  -> {"systemStream"}
      [] c = "connection"   -> {"pipeline"}
      [] c = "operatorRole" -> {"systemStream", "dashboard"}
      [] c = "auditViewerRole" -> {"systemStream", "auditStream", "dashboard"}
      [] OTHER -> {}

\* Settings that Graylog always has.
Settings == Contents \cap {"authHeader", "processors", "archives", "defaultIndexSet",
                           "opensearchConfigs"}

\* Entities that a step writes without asking.
Blind == Contents \cap {"authHeader", "processors", "connection", "archives",
                        "contentPacks", "opensearchConfigs"}

\* Sending these again replaces them.
Overwritten == Blind \cup {"search"}

\* What may not be there, and what people delete.
Deletable == Contents \ (Settings \cup {"connection", "pack", "installation", "search",
                                        "contentPacks"})
-----------------------------------------------------------------------------
Step == Steps[at]

ForceUpdate == running = "force-update"

\* GetIdByTitle on a fresh list; 0 stands for the empty string.
IdOf(c) == IF store[c].exists THEN store[c].id ELSE 0

NoIds == [c \in Contents |-> 0]

\* The list still tells the truth about c.
Current(c) == store[c].exists /\ store[c].id = seen[c]

\* The id of a new entity.  Views and content packs bring theirs along.
NewId(c) == IF c \in {"view", "customView", "pack"} THEN 1 ELSE store[c].id + 1

\* Defective variant: the body lacks the ids of other entities.
CreatedWithoutRefs(c) ==
    [exists |-> TRUE, id |-> NewId(c), edited |-> FALSE, on |-> c \notin Streams,
     refs |-> <<>>]

\* What a POST makes of c: a new id, and the ids it refers to by the lists.  A
\* stream does not run before it is resumed.
Created(c) ==
    [exists |-> TRUE, id |-> NewId(c), edited |-> FALSE, on |-> c \notin Streams,
     refs |-> [d \in RefsOf(c) |-> seen[d]]]

\* Defective variant: the ids are left as they are.
UpdatedKeepsRefs(c) == [store[c] EXCEPT !.edited = FALSE]

\* What a PUT makes of c.
Updated(c) == [store[c] EXCEPT !.edited = FALSE, !.refs = [d \in RefsOf(c) |-> seen[d]]]

Without(C) == [c \in Contents |-> IF c \in C THEN [store[c] EXCEPT !.exists = FALSE]
                                             ELSE store[c]]

Init ==
    /\ \E legacy \in BOOLEAN :
          store = [c \in Contents |->
                     [exists  |-> c \in Settings \/ (legacy /\ c \in {"input", "os_extractor"}),
                      id      |-> IF c \in Settings \/ (legacy /\ c \in {"input", "os_extractor"})
                                  THEN 1 ELSE 0,
                      edited  |-> FALSE,
                      on      |-> c \notin Streams,
                      refs    |-> [d \in RefsOf(c) |-> 0]]]
    /\ policy \in Policies
    /\ due = TRUE
    /\ at = 0 /\ stage = 0 /\ todo = {} /\ seen = NoIds
    /\ running = policy
    /\ outcome = "none"
    /\ disturbed = FALSE /\ skipped = {}
    /\ edits = 0 /\ requests = 0 /\ faults = 0
-----------------------------------------------------------------------------
(***************************************************************************)
(* How a run goes on.                                                      *)
(***************************************************************************)

\* An error ends the run, and the reconcile is tried again.
Fails ==
    /\ at' = 0 /\ stage' = 0 /\ todo' = {} /\ seen' = NoIds
    /\ outcome' = "failed"
    /\ due' = TRUE
    /\ UNCHANGED running

Fault == faults < MaxFaults /\ faults' = faults + 1

Stays == UNCHANGED <<due, at, todo, running, outcome>>

Advance ==
    /\ stage' = 0
    /\ UNCHANGED <<due, running>>
    /\ IF at = Len(Steps)
       THEN at' = 0 /\ todo' = {} /\ seen' = NoIds /\ outcome' = "success"
       ELSE /\ at' = at + 1
            /\ todo' = Titles(Steps[at + 1])
            /\ seen' = IF Steps[at + 1] \in SharesLists THEN seen ELSE NoIds
            /\ UNCHANGED outcome

\* c is done.
Continue(c) ==
    IF todo = {c}
    THEN Advance
    ELSE todo' = todo \ {c} /\ UNCHANGED <<due, at, stage, seen, running, outcome>>

\* A request that changes Graylog to s: it succeeds, it is lost, or its answer is
\* lost.
Send(s, then) ==
    \/ store' = s /\ then /\ UNCHANGED faults
    \/ Fault /\ store' \in {store, s} /\ Fails

\* Graylog may refuse ids of entities that do not exist.
RefusesRefs(c) == (\E d \in RefsOf(c) : ~Current(d)) /\ Fails /\ UNCHANGED <<store, faults>>
-----------------------------------------------------------------------------
\* ContentDeployPolicy "skip" leaves Graylog alone.
SkipContent ==
    /\ at = 0 /\ due
    /\ policy = "skip"
    /\ due' = FALSE
    /\ running' = policy
    /\ outcome' = "none"
    /\ UNCHANGED <<store, at, stage, todo, seen, others, faults>>

StartRun ==
    /\ at = 0 /\ due
    /\ policy # "skip"
    /\ due' = FALSE
    /\ running' = policy
    /\ at' = 1 /\ stage' = 0 /\ todo' = Titles(Steps[1]) /\ seen' = NoIds
    /\ outcome' = "none"
    /\ disturbed' = FALSE /\ skipped' = {}
    /\ UNCHANGED <<store, policy, edits, requests, faults>>

\* The step has its lists.
Ready == at # 0 /\ stage = Len(Lists(Step))

Listed(C) == [c \in Contents |-> IF c \in C THEN IdOf(c) ELSE seen[c]]

\* Defective variant: the ids for the body of a role are not checked.
ListUnchecked ==
    /\ at # 0
    /\ stage < Len(Lists(Step))
    /\ seen' = Listed(Lists(Step)[stage + 1])
    /\ stage' = stage + 1
    /\ Stays
    /\ UNCHANGED <<store, others, faults>>

\* GetData.  An answer that is not the list is an error: the extractors of an
\* input that is gone.  CreateOperatorData and CreateAuditViewerData refuse ids
\* that are missing.
List ==
    /\ at # 0
    /\ stage < Len(Lists(Step))
    /\ \/ LET next == Listed(Lists(Step)[stage + 1])
              last == stage + 1 = Len(Lists(Step))
          IN  /\ IF \/ Step = "extractors" /\ last /\ ~Current("input")
                    \/ Step \in Roles /\ last /\ \E d \in RefsOf(Step) : next[d] = 0
                 THEN Fails
                 ELSE seen' = next /\ stage' = stage + 1 /\ Stays
              /\ UNCHANGED faults
       \/ Fault /\ Fails
    /\ UNCHANGED <<store, others>>

\* A POST, or a PUT that needs no id.
CreateContent(c) ==
    /\ \/ Send([store EXCEPT ![c] = IF c \in Overwritten /\ store[c].exists
                                    THEN Updated(c) ELSE Created(c)], Continue(c))
       \/ RefusesRefs(c)
    /\ UNCHANGED others

\* A PUT for an id that does not exist is an error.
UpdateContent(c) ==
    /\ \/ Current(c) /\ Send([store EXCEPT ![c] = Updated(c)], Continue(c))
       \/ ~Current(c) /\ Fails /\ UNCHANGED <<store, faults>>
       \/ RefusesRefs(c)
    /\ UNCHANGED others

KeepContent(c) == Continue(c) /\ UNCHANGED <<store, others, faults>>

\* Defective variant: what exists is always updated.
CreateOrUpdateAlways(c, updates) == IF seen[c] = 0 THEN CreateContent(c) ELSE UpdateContent(c)

\* Create what the list does not show, update the others if the policy says so.
CreateOrUpdate(c, updates) ==
    IF seen[c] = 0 THEN CreateContent(c)
    ELSE IF updates THEN UpdateContent(c)
    ELSE KeepContent(c)

\* c is next in the loop of the step.  The loops go over maps, in any order.
Handles(step, c) == Ready /\ Step = step /\ c \in todo
-----------------------------------------------------------------------------
(***************************************************************************)
(* The loops.                                                              *)
(***************************************************************************)

\* force-update goes over the patterns that exist and only-create over the ones
\* that are shipped.
ManageGrokPatterns(c) ==
    /\ Handles("grok", c)
    /\ IF ForceUpdate /\ seen[c] = 0 THEN KeepContent(c) ELSE CreateOrUpdate(c, ForceUpdate)

\* The default index set is updated by every policy.
ManageIndexSets(c) ==
    Handles("indexSets", c) /\ CreateOrUpdate(c, ForceUpdate \/ c = "defaultIndexSet")

ManageInputs(c) == Handles("inputs", c) /\ CreateOrUpdate(c, ForceUpdate)

\* Extractors are addressed through the id of their input.
ManageExtractors(c) ==
    /\ Handles("extractors", c) /\ c # "os_extractor"
    /\ IF Current("input") THEN CreateOrUpdate(c, ForceUpdate)
                          ELSE Fails /\ UNCHANGED <<store, others, faults>>

\* The end of UpdateAllExtractors.
DeleteOsExtractor ==
    /\ Ready
    /\ todo = {"os_extractor"}
    /\ IF ForceUpdate /\ seen["os_extractor"] # 0
       THEN \/ Current("os_extractor") /\ Send(Without(todo), Advance)
            \/ ~Current("os_extractor") /\ Fails /\ UNCHANGED <<store, faults>>
       ELSE Advance /\ UNCHANGED <<store, faults>>
    /\ UNCHANGED others

ManageStreams(c) == Handles("streams", c) /\ CreateOrUpdate(c, ForceUpdate)

ManageProcessingRules(c) == Handles("rules", c) /\ CreateOrUpdate(c, ForceUpdate)

ManagePipelines(c) == Handles("pipeline", c) /\ CreateOrUpdate(c, ForceUpdate)

(***************************************************************************)
(* What is sent without looking at what is there.                          *)
(***************************************************************************)
Sends(c) == Handles(c, c) /\ CreateContent(c)

ManageAuthHeaderConfig == Sends("authHeader")
UpdateMessageProcessorsOrder == Sends("processors")
ConnectPipeline == Sends("connection")
ManageOpensearchConfigs == Sends("opensearchConfigs")
ManageArchivesDirectory == Sends("archives")

\* The packs are uploaded by every run; that Graylog
\* refuses one is a failed request.
ManageContentPacks == Sends("contentPacks")

\* The streams are listed again, and each is started, old or new.
ResumeStream(c) ==
    /\ Handles("resume", c)
    /\ \/ Current(c) /\ Send([store EXCEPT ![c].on = TRUE], Continue(c))
       \/ ~Current(c) /\ Fails /\ UNCHANGED <<store, faults>>
    /\ UNCHANGED others
-----------------------------------------------------------------------------
(***************************************************************************)
(* ManageDashboards: the default content pack.  Stage 1: the packs are     *)
(* listed.  2: its installations are listed.  3: they are deleted.  4: the *)
(* pack is not there.  5: it is uploaded.                                  *)
(***************************************************************************)
Goes(n) == stage' = n /\ UNCHANGED seen /\ Stays

FindPack ==
    /\ at # 0 /\ Step = "dashboards" /\ stage = 1
    /\ IF seen["pack"] = 0
       THEN Goes(4) /\ UNCHANGED faults
       ELSE IF ~ForceUpdate
       THEN Advance /\ UNCHANGED faults
       ELSE \/ /\ stage' = 2 /\ seen' = Listed({"installation"}) /\ Stays
               /\ UNCHANGED faults
            \/ Fault /\ Fails
    /\ UNCHANGED <<store, others>>

\* Defective variant: the installations are left.
DeleteInstallationsNot ==
    /\ at # 0 /\ Step = "dashboards" /\ stage = 2
    /\ Goes(3)
    /\ UNCHANGED <<store, others, faults>>

DeleteInstallations ==
    /\ at # 0 /\ Step = "dashboards" /\ stage = 2
    /\ IF seen["installation"] = 0
       THEN Goes(3) /\ UNCHANGED <<store, faults>>
       ELSE Send(Without({"installation", "dashboard"}), Goes(3))
    /\ UNCHANGED others

\* A "content pack can not be deleted if installations exist".
DeletePack ==
    /\ at # 0 /\ Step = "dashboards" /\ stage = 3
    /\ IF store["installation"].exists
       THEN Fails /\ UNCHANGED <<store, faults>>
       ELSE Send(Without({"pack"}), Goes(4))
    /\ UNCHANGED others

UploadPack ==
    /\ at # 0 /\ Step = "dashboards" /\ stage = 4
    /\ Send([store EXCEPT !["pack"] = Created("pack")], Goes(5))
    /\ UNCHANGED others

InstallPack ==
    /\ at # 0 /\ Step = "dashboards" /\ stage = 5
    /\ Send([store EXCEPT !["installation"] = Created("installation"),
                          !["dashboard"] = Created("dashboard")], Advance)
    /\ UNCHANGED others

(***************************************************************************)
(* ManageSavedSearches.  The same list of views decides on the search and  *)
(* on the view.                                                            *)
(***************************************************************************)
UploadSearch ==
    /\ Handles("searches", "search")
    /\ IF ForceUpdate \/ seen["view"] = 0 THEN CreateContent("search")
                                          ELSE KeepContent("search")

CreateView ==
    /\ Handles("views", "view")
    /\ CreateOrUpdate("view", FALSE)

\* UploadCustomSavedSearch replaces a view: delete it, whatever the answer says,
\* then create it.
ReplaceCustomView ==
    /\ Handles("customViews", "customView")
    /\ IF seen["customView"] = 0
       THEN CreateContent("customView")
       ELSE /\ Send(Without({"customView"}),
                    seen' = [seen EXCEPT !["customView"] = 0] /\ UNCHANGED stage /\ Stays)
            /\ UNCHANGED others

(***************************************************************************)
(* CreateOrUpdateRole and CreateOrUpdateUser ask for one account by name.  *)
(* An error of this request is ignored, and the account is left as it is.  *)
(***************************************************************************)
LookUp(c) ==
    /\ Handles(c, c)
    /\ \/ seen' = Listed({c}) /\ stage' = stage + 1 /\ Stays /\ UNCHANGED <<skipped, faults>>
       \/ Fault /\ Continue(c) /\ skipped' = skipped \cup {c}
    /\ UNCHANGED <<store, policy, disturbed, edits, requests>>

LookedUp(c) == at # 0 /\ Step = c /\ stage = Len(Lists(c)) + 1

GetRole == \E c \in Roles : LookUp(c)
GetUser == \E c \in Users : LookUp(c)
CreateOrUpdateRole == \E c \in Roles : LookedUp(c) /\ CreateOrUpdate(c, ForceUpdate)
CreateOrUpdateUser == \E c \in Users : LookedUp(c) /\ CreateOrUpdate(c, ForceUpdate)
-----------------------------------------------------------------------------
(***************************************************************************)
(* The environment.                                                        *)
(***************************************************************************)
PersonUnchanged == UNCHANGED <<control, policy, skipped, requests, faults>>

Changes(s) ==
    /\ edits < MaxEdits
    /\ edits' = edits + 1
    /\ store' = s
    /\ disturbed' = TRUE
    /\ PersonUnchanged

\* Somebody deletes an entity; the extractors go with their input.
DeleteContent(c) ==
    /\ c \in Deletable
    /\ store[c].exists
    /\ Changes(Without(IF c = "input" THEN {c, "extractor", "os_extractor"} ELSE {c}))

\* Somebody edits an entity that exists, or stops a stream.
EditContent(c) ==
    /\ store[c].exists
    /\ ~store[c].edited
    /\ c \notin {"pack", "installation", "search"}
    /\ Changes([store EXCEPT ![c].edited = TRUE, ![c].on = c \notin Streams])

Request ==
    /\ requests < MaxRequests
    /\ requests' = requests + 1
    /\ policy' \in Policies
    /\ due' = TRUE
    /\ UNCHANGED <<store, at, stage, todo, seen, running, outcome, disturbed, skipped, edits, faults>>

Restart ==
    /\ at # 0
    /\ Fault
    /\ Fails
    /\ UNCHANGED <<store, others>>

Run ==
    \/ SkipContent \/ StartRun \/ List
    \/ \E c \in todo : \/ ManageGrokPatterns(c) \/ ManageIndexSets(c) \/ ManageInputs(c)
                        \/ ManageExtractors(c) \/ ManageStreams(c) \/ ResumeStream(c)
                        \/ ManageProcessingRules(c) \/ ManagePipelines(c)
    \/ ManageAuthHeaderConfig \/ DeleteOsExtractor \/ UpdateMessageProcessorsOrder
    \/ ConnectPipeline \/ ManageContentPacks \/ ManageOpensearchConfigs
    \/ ManageArchivesDirectory
    \/ FindPack \/ DeleteInstallations \/ DeletePack \/ UploadPack \/ InstallPack
    \/ UploadSearch \/ CreateView \/ ReplaceCustomView
    \/ GetRole \/ CreateOrUpdateRole \/ GetUser \/ CreateOrUpdateUser

Next ==
    \/ Run
    \/ \E c \in Contents : DeleteContent(c) \/ EditContent(c)
    \/ Request
    \/ Restart

Spec == Init /\ [][Next]_vars

\* The reconcile worker goes on.
FairSpec == Spec /\ WF_vars(Run)
-----------------------------------------------------------------------------
(***************************************************************************)
(* Properties.                                                             *)
(***************************************************************************)

\* The type invariant.
TypeOK ==
    /\ \A c \in Contents :
          /\ store[c].exists \in BOOLEAN
          /\ store[c].id \in Nat
          /\ store[c].edited \in BOOLEAN
          /\ store[c].on \in BOOLEAN
          /\ store[c].refs \in [RefsOf(c) -> Nat]
    /\ policy \in Policies
    /\ due \in BOOLEAN
    /\ at \in 0..Len(Steps)
    /\ stage \in 0..5
    /\ todo \subseteq Contents
    /\ seen \in [Contents -> Nat]
    /\ running \in Policies
    /\ outcome \in {"none", "success", "failed"}
    /\ disturbed \in BOOLEAN /\ skipped \subseteq Accounts
    /\ edits \in 0..MaxEdits /\ requests \in 0..MaxRequests /\ faults \in 0..MaxFaults

\* A run that ended without an error, while nobody else changed anything.
Succeeded == outcome = "success" /\ ~disturbed

Shipped == Contents \ {"os_extractor"}

\* A run that ends without an error has left every entity in Graylog, and every
\* stream running, whatever earlier runs left half done: what only-create does
\* not install again (the dashboards) makes the accounts fail.  Left out
\* are the accounts whose lookup failed, and grok patterns with force-update.
CompleteOnSuccess ==
    Succeeded => \A c \in Shipped \ skipped :
                    (c = "grok" => ~ForceUpdate) => store[c].exists /\ store[c].on

\* A run with force-update that ends without an error has repaired what people
\* changed: nothing but a view is as somebody edited it, and every id an entity holds
\* is the id of the entity that has that title now, although streams and
\* dashboards get new ids when they are made again.
ForceUpdateRepairs ==
    Succeeded /\ ForceUpdate =>
        \A c \in Shipped \ skipped :
           /\ store[c].exists /\ c # "view" => ~store[c].edited
           /\ \A d \in RefsOf(c) : store[c].refs[d] = IdOf(d)

\* What the operator writes with either policy.
AlwaysWritten == Overwritten \cup {"defaultIndexSet", "customView"}

\* With only-create the operator does not overwrite what people changed, even if
\* it deletes, lists and creates other entities at the same time (but for the
\* settings it always writes).
OnlyCreateKeepsEdits ==
    [][\A c \in Contents \ AlwaysWritten :
          store[c].exists /\ store[c].edited /\ store'[c].exists /\ ~store'[c].edited
             => ForceUpdate]_vars

\* Under force-update, whatever fails or is changed on the way, a run that is due
\* ends without an error sooner or later: every state that an interrupted run
\* leaves behind can be taken up by the next one.
ForceUpdateRecovers ==
    (due /\ policy = "force-update") ~> (outcome = "success" \/ policy # "force-update")

\* "only-create - Only the creation of missing content, without updating the
\* existing content" (values.yaml): a run that is due ends without an error and has
\* created what was missing, also when an earlier one was interrupted.
OnlyCreateRecovers ==
    (due /\ policy = "only-create") ~> (outcome = "success" \/ policy # "only-create")
=============================================================================
