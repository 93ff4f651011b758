------------------------ MODULE GraylogContentProofs ------------------------
(***************************************************************************)
(* A run that ends without an error has brought all content into Graylog,  *)
(* a run with force-update has also repaired it, and a run with            *)
(* only-create overwrites nothing that people changed.                     *)
(*                                                                         *)
(* The argument follows the order of the steps.  A step handles entities   *)
(* that no later step touches, and that the entities of later steps refer  *)
(* to by their ids; so what is true of an entity when it has been handled  *)
(* stays true until the run ends, if nobody else changes Graylog.          *)
(***************************************************************************)
EXTENDS GraylogContent, TLAPS

\* What the store holds under a title.
Entity(c) ==
    [exists : BOOLEAN, id : Nat, edited : BOOLEAN, on : BOOLEAN, refs : [RefsOf(c) -> Nat]]

IsStore(s) == s = [c \in Contents |-> s[c]] /\ \A c \in Contents : s[c] \in Entity(c)

\* The last stage of a step.
LastStage(step) ==
    IF step = "dashboards" THEN 5
    ELSE IF step \in Accounts THEN Len(Lists(step)) + 1
    ELSE Len(Lists(step))

ControlType ==
    /\ at \in 0..Len(Steps)
    /\ stage \in 0..5
    /\ seen \in [Contents -> Nat]
    /\ at = 0 => todo = {} /\ stage = 0 /\ seen = NoIds
    /\ at # 0 => /\ todo # {} /\ todo \subseteq Titles(Step)
                 /\ stage <= LastStage(Step)
                 /\ outcome = "none"
    /\ due \in BOOLEAN
    /\ running \in Policies
    /\ outcome \in {"none", "success", "failed"}

HistoryType ==
    /\ policy \in Policies
    /\ disturbed \in BOOLEAN /\ skipped \subseteq Accounts
    /\ edits \in 0..MaxEdits /\ requests \in 0..MaxRequests /\ faults \in 0..MaxFaults

TypeInv == IsStore(store) /\ ControlType /\ HistoryType
-----------------------------------------------------------------------------
(***************************************************************************)
(* What Graylog holds, whoever changed it.                                 *)
(***************************************************************************)

\* An entity has an id, only streams stop, and content packs go in order:
\* the dashboard comes with an installation and that with the pack.
StoreShape ==
    /\ \A c \in Contents : store[c].exists => store[c].id # 0
    /\ \A c \in Contents \ Streams : store[c].on
    /\ store["dashboard"].exists => store["installation"].exists
    /\ store["installation"].exists => store["pack"].exists

\* The step of the dashboards.
PackStages ==
    at # 0 /\ Step = "dashboards" =>
       /\ stage \in {4, 5} => ~store["installation"].exists
       /\ stage = 4 => ~store["pack"].exists
       /\ stage = 5 => store["pack"].exists /\ ~store["pack"].edited

\* A search is uploaded before its view.
SearchFirst ==
    /\ store["view"].exists \/ seen["view"] # 0 => store["search"].exists
    /\ at # 0 /\ Step = "views" => store["search"].exists

\* The run has asked for c and may still act on the answer.
Looked(c) ==
    /\ \/ \E k \in 1..Len(Lists(Step)) : k <= stage /\ c \in Lists(Step)[k]
       \/ Step = "views" /\ c = "view"
       \/ Step \in Accounts /\ c = Step /\ stage = Len(Lists(Step)) + 1
    /\ c \in Titles(Step) => c \in todo

\* The pack is deleted and made again in one step.
Replaces == Step = "dashboards" /\ stage > 1

\* What a list did not show does not exist: nobody but the run creates anything.
MissingIsMissing ==
    at # 0 /\ ~Replaces =>
       \A c \in Contents : Looked(c) /\ seen[c] = 0 => ~store[c].exists

\* A role is written with ids that were there.
RoleIsChecked ==
    at # 0 /\ Step \in Roles /\ stage >= Len(Lists(Step)) =>
       \A d \in RefsOf(Step) : seen[d] # 0

ContentInv ==
    TypeInv /\ StoreShape /\ PackStages /\ SearchFirst /\ MissingIsMissing /\ RoleIsChecked
-----------------------------------------------------------------------------
(***************************************************************************)
(* What holds as long as nobody else changes Graylog.                      *)
(***************************************************************************)

\* What a list showed is there.
SeenIsCurrent ==
    ~disturbed /\ at # 0 /\ ~Replaces =>
       \A c \in Contents : seen[c] # 0 => Current(c)

\* The i-th step has handled c.
Over(i, c) ==
    IF at = 0 THEN outcome = "success" ELSE i < at \/ (i = at /\ c \notin todo)

\* What the i-th step, by either policy, has seen to.
Present(i, c) ==
    /\ c \notin skipped /\ (c = "grok" => ~ForceUpdate) /\ c # "os_extractor" =>
          store[c].exists /\ (Steps[i] = "resume" => store[c].on)
    /\ c = "operatorRole" => store["dashboard"].exists

\* What it has seen to with force-update.
Repaired(i, c) ==
    ForceUpdate /\ c \notin skipped /\ c # "os_extractor" /\ Steps[i] # "resume" =>
       /\ store[c].exists /\ c # "view" => ~store[c].edited
       /\ \A d \in RefsOf(c) : store[c].refs[d] = IdOf(d)
       /\ c = "pack" => ~store["dashboard"].edited /\ ~store["installation"].edited

Progress ==
    ~disturbed =>
       \A i \in 1..Len(Steps) : \A c \in Titles(Steps[i]) :
          Over(i, c) => Present(i, c) /\ Repaired(i, c)

RunInv == ContentInv /\ SeenIsCurrent /\ Progress
-----------------------------------------------------------------------------
(***************************************************************************)
(* The steps and what they handle.                                         *)
(***************************************************************************)

\* The place of a step among all steps there are.
Rank(s) ==
    CASE s = "authHeader" -> 1 [] s = "grok" -> 2 [] s = "indexSets" -> 3
      [] s = "inputs" -> 4 [] s = "extractors" -> 5 [] s = "processors" -> 6
      [] s = "streams" -> 7 [] s = "resume" -> 8 [] s = "rules" -> 9
      [] s = "pipeline" -> 10 [] s = "connection" -> 11 [] s = "dashboards" -> 12
      [] s = "contentPacks" -> 13 [] s = "opensearchConfigs" -> 14
      [] s = "archives" -> 15 [] s = "searches" -> 16 [] s = "views" -> 17
      [] s = "customViews" -> 18 [] s = "operatorRole" -> 19
      [] s = "auditViewerRole" -> 20 [] s = "operatorUser" -> 21
      [] s = "auditViewerUser" -> 22 [] s = "trustedHeaderUser" -> 23
      [] OTHER -> 0

Required ==
    {"grok", "indexSets", "inputs", "extractors", "processors", "streams", "resume",
     "rules", "pipeline", "connection", "dashboards", "archives", "searches", "views",
     "operatorRole", "auditViewerRole", "operatorUser", "auditViewerUser",
     "trustedHeaderUser"}

StepNames ==
    Required \cup {"authHeader", "contentPacks", "opensearchConfigs", "customViews"}

\* How many steps there are, and the rank of the i-th.
Count ==
    IF AuthProxy THEN IF CustomContent THEN 23 ELSE 20
    ELSE IF CustomContent THEN 22 ELSE 19

RankAt(i) ==
    IF CustomContent THEN IF AuthProxy THEN i ELSE i + 1
    ELSE IF AuthProxy THEN IF i <= 12 THEN i ELSE IF i <= 15 THEN i + 2 ELSE i + 3
    ELSE IF i <= 11 THEN i + 1 ELSE IF i <= 14 THEN i + 3 ELSE i + 4

\* The number of the step with rank r.
NumberOf(r) ==
    IF CustomContent THEN IF AuthProxy THEN r ELSE r - 1
    ELSE IF AuthProxy THEN IF r <= 12 THEN r ELSE IF r <= 17 THEN r - 2 ELSE r - 3
    ELSE IF r <= 12 THEN r - 1 ELSE IF r <= 17 THEN r - 3 ELSE r - 4

LEMMA StepsCount == Len(Steps) = Count /\ Count \in 19..23
  <1>1. Len(Steps) = Count
    BY ContentAssumption DEF Steps, Count
  <1>2. QED
    BY <1>1 DEF Count

LEMMA StepsRank ==
    ASSUME NEW i \in 1..Count
    PROVE  Rank(Steps[i]) = RankAt(i)
  <1>1. CASE AuthProxy /\ CustomContent
    <2>1. Count = 23
      BY <1>1 DEF Count
    <2>2. /\ Steps[1] = "authHeader" /\ Steps[2] = "grok" /\ Steps[3] = "indexSets"
          /\ Steps[4] = "inputs" /\ Steps[5] = "extractors" /\ Steps[6] = "processors"
          /\ Steps[7] = "streams" /\ Steps[8] = "resume" /\ Steps[9] = "rules"
          /\ Steps[10] = "pipeline" /\ Steps[11] = "connection"
          /\ Steps[12] = "dashboards"
      BY <1>1 DEF Steps
    <2>3. /\ Steps[13] = "contentPacks" /\ Steps[14] = "opensearchConfigs"
          /\ Steps[15] = "archives" /\ Steps[16] = "searches" /\ Steps[17] = "views"
          /\ Steps[18] = "customViews" /\ Steps[19] = "operatorRole"
          /\ Steps[20] = "auditViewerRole" /\ Steps[21] = "operatorUser"
          /\ Steps[22] = "auditViewerUser" /\ Steps[23] = "trustedHeaderUser"
      BY <1>1 DEF Steps
    <2>4. CASE i <= 12
      <3>1. RankAt(i) = i
        BY <1>1, <2>4 DEF RankAt
      <3> QED
        BY <2>2, <2>4, <3>1 DEF Rank
    <2>5. CASE i > 12
      <3>1. RankAt(i) = i
        BY <1>1, <2>1, <2>5 DEF RankAt
      <3>2. i \in 13..23
        BY <2>1, <2>5
      <3> QED
        BY <2>3, <3>1, <3>2 DEF Rank
    <2> QED
      BY <2>4, <2>5
  <1>2. CASE ~AuthProxy /\ CustomContent
    <2>1. Count = 22
      BY <1>2 DEF Count
    <2>2. /\ Steps[1] = "grok" /\ Steps[2] = "indexSets" /\ Steps[3] = "inputs"
          /\ Steps[4] = "extractors" /\ Steps[5] = "processors" /\ Steps[6] = "streams"
          /\ Steps[7] = "resume" /\ Steps[8] = "rules" /\ Steps[9] = "pipeline"
          /\ Steps[10] = "connection" /\ Steps[11] = "dashboards"
      BY <1>2 DEF Steps
    <2>3. /\ Steps[12] = "contentPacks" /\ Steps[13] = "opensearchConfigs"
          /\ Steps[14] = "archives" /\ Steps[15] = "searches" /\ Steps[16] = "views"
          /\ Steps[17] = "customViews" /\ Steps[18] = "operatorRole"
          /\ Steps[19] = "auditViewerRole" /\ Steps[20] = "operatorUser"
          /\ Steps[21] = "auditViewerUser" /\ Steps[22] = "trustedHeaderUser"
      BY <1>2 DEF Steps
    <2>4. CASE i <= 11
      <3>1. RankAt(i) = i + 1
        BY <1>2, <2>4 DEF RankAt
      <3> QED
        BY <2>2, <2>4, <3>1 DEF Rank
    <2>5. CASE i > 11
      <3>1. RankAt(i) = i + 1
        BY <1>2, <2>1, <2>5 DEF RankAt
      <3>2. i \in 12..22
        BY <2>1, <2>5
      <3> QED
        BY <2>3, <3>1, <3>2 DEF Rank
    <2> QED
      BY <2>4, <2>5
  <1>3. CASE AuthProxy /\ ~CustomContent
    <2>1. Count = 20
      BY <1>3 DEF Count
    <2>2. /\ Steps[1] = "authHeader" /\ Steps[2] = "grok" /\ Steps[3] = "indexSets"
          /\ Steps[4] = "inputs" /\ Steps[5] = "extractors" /\ Steps[6] = "processors"
          /\ Steps[7] = "streams" /\ Steps[8] = "resume" /\ Steps[9] = "rules"
          /\ Steps[10] = "pipeline" /\ Steps[11] = "connection"
          /\ Steps[12] = "dashboards"
      BY <1>3 DEF Steps
    <2>3. /\ Steps[13] = "archives" /\ Steps[14] = "searches" /\ Steps[15] = "views"
          /\ Steps[16] = "operatorRole" /\ Steps[17] = "auditViewerRole"
          /\ Steps[18] = "operatorUser" /\ Steps[19] = "auditViewerUser"
          /\ Steps[20] = "trustedHeaderUser"
      BY <1>3 DEF Steps
    <2>4. CASE i <= 12
      <3>1. RankAt(i) = i
        BY <1>3, <2>4 DEF RankAt
      <3> QED
        BY <2>2, <2>4, <3>1 DEF Rank
    <2>5. CASE i > 12
      <3>1. RankAt(i) = IF i <= 15 THEN i + 2 ELSE i + 3
        BY <1>3, <2>1, <2>5 DEF RankAt
      <3>2. i \in 13..20
        BY <2>1, <2>5
      <3> QED
        BY <2>3, <3>1, <3>2 DEF Rank
    <2> QED
      BY <2>4, <2>5
  <1>4. CASE ~AuthProxy /\ ~CustomContent
    <2>1. Count = 19
      BY <1>4 DEF Count
    <2>2. /\ Steps[1] = "grok" /\ Steps[2] = "indexSets" /\ Steps[3] = "inputs"
          /\ Steps[4] = "extractors" /\ Steps[5] = "processors" /\ Steps[6] = "streams"
          /\ Steps[7] = "resume" /\ Steps[8] = "rules" /\ Steps[9] = "pipeline"
          /\ Steps[10] = "connection" /\ Steps[11] = "dashboards"
      BY <1>4 DEF Steps
    <2>3. /\ Steps[12] = "archives" /\ Steps[13] = "searches" /\ Steps[14] = "views"
          /\ Steps[15] = "operatorRole" /\ Steps[16] = "auditViewerRole"
          /\ Steps[17] = "operatorUser" /\ Steps[18] = "auditViewerUser"
          /\ Steps[19] = "trustedHeaderUser"
      BY <1>4 DEF Steps
    <2>4. CASE i <= 11
      <3>1. RankAt(i) = i + 1
        BY <1>4, <2>4 DEF RankAt
      <3> QED
        BY <2>2, <2>4, <3>1 DEF Rank
    <2>5. CASE i > 11
      <3>1. RankAt(i) = IF i <= 14 THEN i + 3 ELSE i + 4
        BY <1>4, <2>1, <2>5 DEF RankAt
      <3>2. i \in 12..19
        BY <2>1, <2>5
      <3> QED
        BY <2>3, <3>1, <3>2 DEF Rank
    <2> QED
      BY <2>4, <2>5
  <1> QED
    BY <1>1, <1>2, <1>3, <1>4, ContentAssumption

\* Steps go on in the order of their ranks.
LEMMA RanksGrow ==
    ASSUME NEW i \in 1..Count, NEW j \in 1..Count
    PROVE  i < j <=> Rank(Steps[i]) < Rank(Steps[j])
  BY StepsRank DEF RankAt, Count

LEMMA RankNames ==
    /\ \A s : Rank(s) \in 0..23 /\ (Rank(s) # 0 => s \in StepNames)
    /\ \A s, t \in StepNames : Rank(s) = Rank(t) => s = t
  <1>1. ASSUME NEW s PROVE Rank(s) \in 0..23 /\ (Rank(s) # 0 => s \in StepNames)
    BY DEF Rank, StepNames, Required
  <1>2. ASSUME NEW s \in StepNames, NEW t \in StepNames, Rank(s) = Rank(t) PROVE s = t
    BY <1>2 DEF Rank, StepNames, Required
  <1> QED
    BY <1>1, <1>2

LEMMA StepName ==
    ASSUME NEW i \in 1..Len(Steps)
    PROVE  Steps[i] \in StepNames
  <1>1. RankAt(i) # 0
    BY StepsCount DEF RankAt, Count
  <1> QED
    BY <1>1, StepsCount, StepsRank, RankNames

LEMMA HasStep ==
    ASSUME NEW s \in Required
    PROVE  \E i \in 1..Len(Steps) : Steps[i] = s
  <1> DEFINE i == NumberOf(Rank(s))
  <1>r. Rank(s) \in (2..12) \cup (15..17) \cup (19..23)
    BY DEF Rank, Required
  <1>n. ASSUME NEW r \in (2..12) \cup (15..17) \cup (19..23)
        PROVE  NumberOf(r) \in 1..Count /\ RankAt(NumberOf(r)) = r
    <2>1. CASE CustomContent
      BY <2>1 DEF NumberOf, RankAt, Count
    <2>2. CASE ~CustomContent /\ AuthProxy
      BY <2>2 DEF NumberOf, RankAt, Count
    <2>3. CASE ~CustomContent /\ ~AuthProxy
      BY <2>3 DEF NumberOf, RankAt, Count
    <2> QED
      BY <2>1, <2>2, <2>3
  <1>1. i \in 1..Count /\ RankAt(i) = Rank(s)
    BY <1>r, <1>n
  <1>2. Rank(Steps[i]) = Rank(s) /\ Steps[i] \in StepNames /\ s \in StepNames
    BY <1>1, StepsRank, StepName, StepsCount DEF StepNames
  <1> HIDE DEF i
  <1> QED
    BY <1>1, <1>2, RankNames, StepsCount

\* Two steps go on with lists, each with those of the one before.
LEMMA SharedBy ==
    ASSUME NEW i \in 1..Len(Steps), i + 1 \in 1..Len(Steps)
    PROVE  /\ Steps[i + 1] = "views" => Steps[i] = "searches"
           /\ Steps[i + 1] = "auditViewerRole" => Steps[i] = "operatorRole"
  <1>1. Rank(Steps[i]) = RankAt(i) /\ Rank(Steps[i + 1]) = RankAt(i + 1)
    BY StepsCount, StepsRank
  <1>2. Rank(Steps[i + 1]) = 17 => Rank(Steps[i]) = 16
    BY <1>1, StepsCount DEF RankAt, Count
  <1>3. Rank(Steps[i + 1]) = 20 => Rank(Steps[i]) = 19
    BY <1>1, StepsCount DEF RankAt, Count
  <1>4. /\ Rank("views") = 17 /\ Rank("searches") = 16 /\ "searches" \in StepNames
        /\ Rank("auditViewerRole") = 20 /\ Rank("operatorRole") = 19
        /\ "operatorRole" \in StepNames
    BY DEF Rank, StepNames, Required
  <1> QED
    BY <1>2, <1>3, <1>4, StepName, RankNames

\* The rank of the step that makes an entity.
Home(c) ==
    CASE c \in IndexSets -> 3 [] c = "input" -> 4 [] c \in {"extractor", "os_extractor"} -> 5
      [] c \in Streams -> 7 [] c \in Rules -> 9
      [] c \in {"pack", "installation", "dashboard"} -> 12
      [] c = "search" -> 16 [] c = "view" -> 17 [] c = "customView" -> 18
      [] OTHER -> Rank(c)

LEMMA HomeRange ==
    ASSUME NEW c
    PROVE  Home(c) \in 0..23
  <1>1. Rank(c) \in 0..23
    BY RankNames
  <1> QED
    BY <1>1 DEF Home

LEMMA Below ==
    ASSUME NEW g \in 0..23, NEW h \in 0..23, g < h
    PROVE  ~(h <= g) /\ g # h /\ (g = 8 => 7 < h)
  OBVIOUS

LEMMA TitlesHome ==
    ASSUME NEW s \in StepNames, NEW c \in Titles(s)
    PROVE  Home(c) = Rank(s) \/ (s = "resume" /\ c \in Streams /\ Home(c) = 7)
  BY DEF StepNames, Required, Titles, Home, Rank, IndexSets, Streams, Rules

LEMMA TitlesThere ==
    ASSUME NEW s \in StepNames
    PROVE  Titles(s) # {}
  <1>1. CASE s \in {"indexSets", "inputs", "extractors", "streams", "resume", "rules"}
    BY <1>1 DEF Titles, IndexSets, Streams, Rules
  <1>2. CASE s \in {"dashboards", "searches", "views", "customViews"}
    BY <1>2 DEF Titles
  <1>3. CASE s \notin {"indexSets", "inputs", "extractors", "streams", "resume", "rules",
                       "dashboards", "searches", "views", "customViews"}
    <2>1. Titles(s) = {s}
      BY <1>3 DEF Titles
    <2> QED
      BY <2>1
  <1> QED
    BY <1>1, <1>2, <1>3

LEMMA RefsHome ==
    ASSUME NEW c, NEW d \in RefsOf(c)
    PROVE  /\ Home(d) < Home(c)
           /\ d \in IndexSets \cup Streams \cup {"pipeline", "dashboard"}
           /\ c \in Streams \cup Rules \cup Roles \cup {"connection"}
  BY DEF RefsOf, Home, Rank, IndexSets, Streams, Rules, Roles

LEMMA InContents ==
    ASSUME NEW c
    PROVE  c \in Contents <=> \/ \E i \in 1..Len(Steps) : c \in Titles(Steps[i])
                              \/ c \in {"installation", "dashboard"}
  BY DEF Contents

LEMMA TitlesInContents ==
    ASSUME NEW i \in 1..Len(Steps)
    PROVE  Titles(Steps[i]) \subseteq Contents
  BY InContents

LEMMA Shipments ==
    /\ IndexSets \cup Streams \cup Rules \cup Accounts \subseteq Contents
    /\ {"input", "extractor", "os_extractor", "pipeline", "connection", "pack",
        "installation", "dashboard", "search", "view", "grok"} \subseteq Contents
  <1>1. ASSUME NEW s \in Required, NEW c \in Titles(s) PROVE c \in Contents
    BY HasStep, InContents
  <1>2. IndexSets \cup Streams \cup Rules \subseteq Contents
    <2>1. /\ Titles("indexSets") = IndexSets /\ Titles("streams") = Streams
          /\ Titles("rules") = Rules
      BY DEF Titles
    <2>2. {"indexSets", "streams", "rules"} \subseteq Required
      BY DEF Required
    <2> QED
      BY <1>1, <2>1, <2>2
  <1>3. ASSUME NEW c \in Accounts \cup {"pipeline", "connection", "grok"} PROVE c \in Contents
    <2>1. c \in Required /\ Titles(c) = {c}
      BY DEF Titles, Required, Accounts, Roles, Users
    <2> QED
      BY <1>1, <2>1
  <1>4. {"input", "extractor", "os_extractor", "pack", "search", "view"} \subseteq Contents
    <2>1. /\ Titles("inputs") = {"input"} /\ Titles("dashboards") = {"pack"}
          /\ Titles("extractors") = {"extractor", "os_extractor"}
          /\ Titles("searches") = {"search"} /\ Titles("views") = {"view"}
      BY DEF Titles
    <2>2. {"inputs", "dashboards", "extractors", "searches", "views"} \subseteq Required
      BY DEF Required
    <2> QED
      BY <1>1, <2>1, <2>2
  <1>5. {"installation", "dashboard"} \subseteq Contents
    BY InContents
  <1> QED
    BY <1>2, <1>3, <1>4, <1>5

LEMMA RefsInContents ==
    ASSUME NEW c, NEW d \in RefsOf(c)
    PROVE  d \in Contents
  BY RefsHome, Shipments

\* The lists of a step, one after the other.
LEMMA ListsFacts ==
    ASSUME NEW s \in StepNames
    PROVE  /\ Len(Lists(s)) \in 0..2
           /\ s \in {"views", "authHeader", "processors", "archives", "contentPacks",
                     "opensearchConfigs"} \cup Users => Len(Lists(s)) = 0
           /\ s = "dashboards" => Len(Lists(s)) = 1 /\ Lists(s)[1] = {"pack"}
           /\ s = "searches" => Len(Lists(s)) = 1 /\ Lists(s)[1] = {"view"}
           /\ s = "extractors" => Len(Lists(s)) = 2
           /\ LastStage(s) \in 0..5 /\ Len(Lists(s)) <= LastStage(s)
  <1>1. CASE s \in {"grok", "indexSets", "inputs", "resume", "pipeline", "dashboards",
                    "customViews"}
    BY <1>1 DEF Lists, Titles, LastStage, Accounts, Roles, Users
  <1>2. CASE s \in {"extractors", "streams", "rules", "connection"}
    BY <1>2 DEF Lists, Titles, LastStage, Accounts, Roles, Users
  <1>3. CASE s \in {"searches", "operatorRole", "auditViewerRole"}
    BY <1>3 DEF Lists, Titles, LastStage, Accounts, Roles, Users
  <1>4. CASE s \in {"views", "authHeader", "processors", "archives", "contentPacks",
                     "opensearchConfigs"} \cup Users
    BY <1>4 DEF Lists, Titles, LastStage, Accounts, Roles, Users
  <1> QED
    BY <1>1, <1>2, <1>3, <1>4 DEF StepNames, Required, Users
-----------------------------------------------------------------------------
(***************************************************************************)
(* What requests make of the store.                                        *)
(***************************************************************************)
LEMMA EntityFields ==
    ASSUME NEW c, NEW e \in Entity(c)
    PROVE  /\ e.exists \in BOOLEAN /\ e.id \in Nat /\ e.edited \in BOOLEAN
           /\ e.on \in BOOLEAN /\ e.refs \in [RefsOf(c) -> Nat]
  BY DEF Entity

LEMMA StoreFields ==
    ASSUME IsStore(store), NEW c \in Contents
    PROVE  /\ store[c] \in Entity(c)
           /\ store[c].exists \in BOOLEAN /\ store[c].id \in Nat
           /\ store[c].edited \in BOOLEAN /\ store[c].on \in BOOLEAN
           /\ store[c].refs \in [RefsOf(c) -> Nat]
  BY EntityFields DEF IsStore

LEMMA PutStore ==
    ASSUME IsStore(store), NEW c \in Contents, NEW e \in Entity(c),
           store' = [store EXCEPT ![c] = e]
    PROVE  /\ IsStore(store')
           /\ store'[c] = e
           /\ \A d \in Contents : d # c => store'[d] = store[d]
  <1>1. DOMAIN store = Contents
    BY DEF IsStore
  <1>2. store' = [d \in Contents |-> IF d = c THEN e ELSE store[d]]
    BY <1>1
  <1>3. \A d \in Contents : store'[d] = IF d = c THEN e ELSE store[d]
    BY <1>2
  <1>4. store' = [d \in Contents |-> store'[d]]
    BY <1>2, <1>3
  <1> QED
    BY <1>3, <1>4 DEF IsStore

LEMMA SeenRefs ==
    ASSUME seen \in [Contents -> Nat], NEW c
    PROVE  [d \in RefsOf(c) |-> seen[d]] \in [RefsOf(c) -> Nat]
  BY RefsInContents

LEMMA CreatedEntity ==
    ASSUME IsStore(store), seen \in [Contents -> Nat], NEW c \in Contents
    PROVE  /\ Created(c) \in Entity(c)
           /\ Created(c).exists /\ Created(c).id # 0 /\ ~Created(c).edited
           /\ Created(c).on = (c \notin Streams)
           /\ Created(c).refs = [d \in RefsOf(c) |-> seen[d]]
  <1>1. NewId(c) \in Nat /\ NewId(c) # 0
    BY StoreFields DEF NewId
  <1> QED
    BY <1>1, SeenRefs DEF Created, Entity

LEMMA UpdatedEntity ==
    ASSUME IsStore(store), seen \in [Contents -> Nat], NEW c \in Contents
    PROVE  /\ Updated(c) \in Entity(c)
           /\ Updated(c).exists = store[c].exists /\ Updated(c).id = store[c].id
           /\ Updated(c).on = store[c].on /\ ~Updated(c).edited
           /\ Updated(c).refs = [d \in RefsOf(c) |-> seen[d]]
  BY StoreFields, SeenRefs DEF Updated, Entity

\* A stream that is resumed, or an entity that somebody edits.
Marked(c, edited, on) == [store[c] EXCEPT !.edited = edited, !.on = on]

LEMMA MarkedEntity ==
    ASSUME IsStore(store), NEW c \in Contents, NEW edited \in BOOLEAN, NEW on \in BOOLEAN
    PROVE  /\ Marked(c, edited, on) \in Entity(c)
           /\ Marked(c, edited, on).exists = store[c].exists
           /\ Marked(c, edited, on).id = store[c].id
           /\ Marked(c, edited, on).edited = edited /\ Marked(c, edited, on).on = on
           /\ Marked(c, edited, on).refs = store[c].refs
  BY StoreFields DEF Marked, Entity

LEMMA ResumedStore ==
    ASSUME IsStore(store), NEW c \in Contents
    PROVE  [store EXCEPT ![c].on = TRUE] = [store EXCEPT ![c] = Marked(c, store[c].edited, TRUE)]
  <1>1. [store[c] EXCEPT !.on = TRUE] = Marked(c, store[c].edited, TRUE)
    BY StoreFields DEF Marked, Entity
  <1> QED
    BY <1>1

LEMMA EditedStore ==
    ASSUME IsStore(store), NEW c \in Contents
    PROVE  [store EXCEPT ![c].edited = TRUE, ![c].on = c \notin Streams]
              = [store EXCEPT ![c] = Marked(c, TRUE, c \notin Streams)]
  BY DEF Marked, IsStore

LEMMA WithoutStore ==
    ASSUME IsStore(store), NEW C, store' = Without(C)
    PROVE  /\ IsStore(store')
           /\ \A c \in Contents : IF c \in C
                THEN /\ ~store'[c].exists /\ store'[c].on = store[c].on
                     /\ store'[c].edited = store[c].edited
                ELSE store'[c] = store[c]
  <1>1. ASSUME NEW c \in Contents
        PROVE  /\ [store[c] EXCEPT !.exists = FALSE] \in Entity(c)
               /\ ~[store[c] EXCEPT !.exists = FALSE].exists
               /\ [store[c] EXCEPT !.exists = FALSE].on = store[c].on
               /\ [store[c] EXCEPT !.exists = FALSE].edited = store[c].edited
    BY StoreFields DEF Entity
  <1>2. \A c \in Contents : store'[c] = IF c \in C THEN [store[c] EXCEPT !.exists = FALSE]
                                        ELSE store[c]
    BY DEF Without
  <1>3. store' = [c \in Contents |-> store'[c]]
    BY <1>2 DEF Without
  <1>4. \A c \in Contents : store'[c] \in Entity(c)
    BY <1>1, <1>2 DEF IsStore
  <1> QED
    BY <1>1, <1>2, <1>3, <1>4 DEF IsStore
-----------------------------------------------------------------------------
(***************************************************************************)
(* The kinds of steps a run takes.                                         *)
(***************************************************************************)

\* The run has the lists it needs to handle c.
Acting(c) ==
    /\ at # 0 /\ c \in todo
    /\ Step # "dashboards"
    /\ stage >= Len(Lists(Step))
    /\ Step \in Accounts => stage = Len(Lists(Step)) + 1

\* What a request makes of c.
Makes(c, e) ==
    \/ Step # "resume" /\ e = Created(c) /\ ~store[c].exists
    \/ /\ Step # "resume" /\ e = Updated(c) /\ store[c].exists
       /\ ForceUpdate \/ c \in AlwaysWritten
    \/ Step = "resume" /\ e = Marked(c, store[c].edited, TRUE) /\ store[c].exists

\* The steps that ask for what they handle.
Asking ==
    {"grok", "indexSets", "inputs", "extractors", "streams", "resume", "rules", "pipeline",
     "customViews", "views"} \cup Accounts

\* Why c is left alone.
Keeps(c) ==
    /\ Step # "resume"
    /\ \/ Step \in Asking /\ seen[c] # 0 /\ (ForceUpdate => c = "view")
       \/ c = "grok" /\ ForceUpdate /\ ~store["grok"].exists
       \/ c = "search" /\ ~ForceUpdate /\ store["search"].exists
       \/ c = "os_extractor"

Breaks == Fault /\ Fails

FailsAlone ==
    at # 0 /\ Fails /\ (Fault \/ UNCHANGED faults) /\ UNCHANGED <<store, others>>

HandlesOne(c) ==
    /\ Acting(c)
    /\ \/ \E e : /\ Makes(c, e)
                 /\ store' = [store EXCEPT ![c] = e]
                 /\ Breaks \/ (Continue(c) /\ UNCHANGED faults)
       \/ Keeps(c) /\ Continue(c) /\ UNCHANGED <<store, faults>>
    /\ UNCHANGED others

DropsExtractor ==
    /\ Acting("os_extractor") /\ Step = "extractors" /\ todo = {"os_extractor"}
    /\ store' = Without({"os_extractor"})
    /\ Breaks \/ (Continue("os_extractor") /\ UNCHANGED faults)
    /\ UNCHANGED others

DropsView ==
    /\ Acting("customView") /\ Step = "customViews"
    /\ store' = Without({"customView"})
    /\ \/ Breaks
       \/ seen' = [seen EXCEPT !["customView"] = 0] /\ UNCHANGED <<stage, faults>> /\ Stays
    /\ UNCHANGED others

Answers ==
    /\ at # 0 /\ stage < Len(Lists(Step))
    /\ seen' = Listed(Lists(Step)[stage + 1])
    /\ Step \in Roles /\ stage + 1 = Len(Lists(Step)) => \A d \in RefsOf(Step) : seen'[d] # 0
    /\ stage' = stage + 1
    /\ Stays
    /\ UNCHANGED <<store, others, faults>>

Looks(c) ==
    /\ Handles(c, c)
    /\ seen' = Listed({c}) /\ stage' = stage + 1 /\ Stays
    /\ UNCHANGED <<store, others, faults>>

Misses(c) ==
    /\ Handles(c, c)
    /\ Fault /\ Continue(c) /\ skipped' = skipped \cup {c}
    /\ UNCHANGED <<store, policy, disturbed, edits, requests>>

DashboardStep == FindPack \/ DeleteInstallations \/ DeletePack \/ UploadPack \/ InstallPack

Kinds ==
    \/ SkipContent \/ StartRun \/ FailsAlone \/ Answers
    \/ \E c \in Contents : HandlesOne(c)
    \/ DropsExtractor \/ DropsView
    \/ \E c \in Accounts : Looks(c) \/ Misses(c)
    \/ DashboardStep

\* The step of a run, and what it has to do.
LEMMA AtStep ==
    ASSUME TypeInv, at # 0
    PROVE  /\ at \in 1..Len(Steps) /\ Step = Steps[at] /\ Step \in StepNames
           /\ Titles(Step) \subseteq Contents
           /\ todo \subseteq Titles(Step) /\ todo # {}
           /\ stage \in 0..5
  <1>1. at \in 1..Len(Steps)
    BY StepsCount DEF TypeInv, ControlType
  <1> QED
    BY <1>1, StepName, TitlesInContents DEF TypeInv, ControlType, Step

LEMMA ListsTitles ==
    ASSUME NEW s \in Asking \ (Accounts \cup {"views"})
    PROVE  \E k \in 1..Len(Lists(s)) : Lists(s)[k] = Titles(s)
  <1>1. CASE s \in {"grok", "indexSets", "inputs", "resume", "pipeline", "customViews"}
    <2>1. Lists(s) = <<Titles(s)>>
      BY <1>1 DEF Lists
    <2> QED
      BY <2>1
  <1>2. CASE s = "extractors"
    <2>1. Lists(s) = <<{"input"}, Titles(s)>>
      BY <1>2 DEF Lists
    <2> QED
      BY <2>1
  <1>3. CASE s \in {"streams", "rules"}
    <2>1. Len(Lists(s)) = 2 /\ Lists(s)[1] = Titles(s)
      BY <1>3 DEF Lists, Titles
    <2> QED
      BY <2>1
  <1> QED
    BY <1>1, <1>2, <1>3 DEF Asking, Accounts, Roles, Users

LEMMA ActingLooked ==
    ASSUME TypeInv, NEW c, Acting(c), Step \in Asking
    PROVE  Looked(c) /\ c \in Contents
  <1>1. /\ Step \in StepNames /\ c \in Titles(Step) /\ c \in todo /\ stage \in 0..5
        /\ stage >= Len(Lists(Step)) /\ c \in Contents
    BY AtStep DEF Acting
  <1>2. CASE Step \in Accounts
    <2>1. Titles(Step) = {Step}
      BY <1>2 DEF Titles, Accounts, Roles, Users
    <2> QED
      BY <1>1, <1>2, <2>1 DEF Looked, Acting
  <1>3. CASE Step = "views"
    <2>1. Titles(Step) = {"view"}
      BY <1>3 DEF Titles
    <2> QED
      BY <1>1, <1>3, <2>1 DEF Looked
  <1>4. CASE Step \notin Accounts \cup {"views"}
    <2>1. PICK k \in 1..Len(Lists(Step)) : Lists(Step)[k] = Titles(Step)
      BY <1>4, ListsTitles
    <2>2. k <= stage
      BY <1>1, <2>1, ListsFacts
    <2> QED
      BY <1>1, <2>1, <2>2 DEF Looked
  <1> QED
    BY <1>2, <1>3, <1>4

\* What a step that asks has not seen is not there.
LEMMA UnseenIsMissing ==
    ASSUME ContentInv, NEW c, Acting(c), Step \in Asking, seen[c] = 0
    PROVE  ~store[c].exists
  BY ActingLooked DEF ContentInv, MissingIsMissing, Replaces, Acting

\* A request for c: it makes something of c, or the run fails.
LEMMA SendKind ==
    ASSUME NEW c \in Contents, Acting(c), NEW e, Makes(c, e), UNCHANGED others,
           Send([store EXCEPT ![c] = e], Continue(c))
    PROVE  HandlesOne(c) \/ FailsAlone
  <1>1. CASE store' = [store EXCEPT ![c] = e] /\ Continue(c) /\ UNCHANGED faults
    BY <1>1 DEF HandlesOne
  <1>2. CASE Fault /\ store' = [store EXCEPT ![c] = e] /\ Fails
    BY <1>2 DEF HandlesOne, Breaks
  <1>3. CASE Fault /\ store' = store /\ Fails
    BY <1>3 DEF FailsAlone, Acting
  <1> QED
    BY <1>1, <1>2, <1>3 DEF Send

LEMMA RefusesKind ==
    ASSUME NEW c, NEW d, Acting(c), RefusesRefs(d), UNCHANGED others
    PROVE  FailsAlone
  BY DEF RefusesRefs, FailsAlone, Acting

LEMMA CreateKind ==
    ASSUME NEW c \in Contents, Acting(c), Step # "resume",
           c \in Overwritten \/ ~store[c].exists, CreateContent(c)
    PROVE  HandlesOne(c) \/ FailsAlone
  <1> DEFINE e == IF c \in Overwritten /\ store[c].exists THEN Updated(c) ELSE Created(c)
  <1>1. Makes(c, e)
    BY DEF Makes, AlwaysWritten
  <1>2. UNCHANGED others /\ (Send([store EXCEPT ![c] = e], Continue(c)) \/ RefusesRefs(c))
    BY DEF CreateContent
  <1> HIDE DEF e
  <1> QED
    BY <1>1, <1>2, SendKind, RefusesKind

LEMMA UpdateKind ==
    ASSUME NEW c \in Contents, Acting(c), Step # "resume",
           ForceUpdate \/ c \in AlwaysWritten, UpdateContent(c)
    PROVE  HandlesOne(c) \/ FailsAlone
  <1>1. CASE Current(c) /\ Send([store EXCEPT ![c] = Updated(c)], Continue(c))
    <2>1. Makes(c, Updated(c))
      BY <1>1 DEF Makes, Current
    <2> QED
      BY <1>1, <2>1, SendKind DEF UpdateContent
  <1>2. CASE Fails /\ UNCHANGED <<store, faults>>
    BY <1>2 DEF FailsAlone, Acting, UpdateContent
  <1>3. CASE RefusesRefs(c)
    BY <1>3, RefusesKind DEF UpdateContent
  <1> QED
    BY <1>1, <1>2, <1>3 DEF UpdateContent

LEMMA CreateOrUpdateKind ==
    ASSUME ContentInv, NEW c, Acting(c), Step \in Asking \ {"resume"},
           \/ seen[c] = 0 /\ CreateContent(c)
           \/ seen[c] # 0 /\ (ForceUpdate \/ c \in AlwaysWritten) /\ UpdateContent(c)
           \/ seen[c] # 0 /\ (ForceUpdate => c = "view") /\ KeepContent(c)
    PROVE  FailsAlone \/ \E x \in Contents : HandlesOne(x)
  <1>1. c \in Contents
    BY ActingLooked DEF ContentInv
  <1>2. CASE seen[c] = 0 /\ CreateContent(c)
    BY <1>1, <1>2, UnseenIsMissing, CreateKind
  <1>3. CASE seen[c] # 0 /\ (ForceUpdate \/ c \in AlwaysWritten) /\ UpdateContent(c)
    BY <1>1, <1>3, UpdateKind
  <1>4. CASE seen[c] # 0 /\ (ForceUpdate => c = "view") /\ KeepContent(c)
    BY <1>1, <1>4 DEF KeepContent, HandlesOne, Keeps
  <1> QED
    BY <1>2, <1>3, <1>4

LEMMA HandlesActing ==
    ASSUME TypeInv, NEW s, NEW c, Handles(s, c), s \notin Accounts \cup {"dashboards"}
    PROVE  Acting(c) /\ c \in Contents /\ Step = s /\ at # 0
  <1>1. at # 0 /\ Step = s /\ c \in todo /\ stage = Len(Lists(Step))
    BY DEF Handles, Ready
  <1>2. stage \in 0..5 /\ c \in Contents
    BY <1>1, AtStep
  <1> QED
    BY <1>1, <1>2 DEF Acting

LEMMA SendsKind ==
    ASSUME TypeInv, NEW c \in {"authHeader", "processors", "connection", "opensearchConfigs",
                               "archives", "contentPacks"},
           Sends(c)
    PROVE  Kinds
  <1>1. Acting(c) /\ c \in Contents /\ Step = c
    BY HandlesActing DEF Sends, Accounts, Roles, Users
  <1>2. c \in Overwritten
    BY <1>1 DEF Overwritten, Blind
  <1> QED
    BY <1>1, <1>2, CreateKind DEF Sends, Kinds

LEMMA ListKind ==
    ASSUME List
    PROVE  FailsAlone \/ Answers
  <1> DEFINE next == Listed(Lists(Step)[stage + 1])
  <1>1. CASE Fault /\ Fails
    BY <1>1 DEF List, FailsAlone
  <1>2. CASE Fails /\ UNCHANGED faults
    BY <1>2 DEF List, FailsAlone
  <1>3. CASE /\ seen' = next /\ stage' = stage + 1 /\ Stays /\ UNCHANGED faults
             /\ ~(Step \in Roles /\ stage + 1 = Len(Lists(Step)) /\ \E d \in RefsOf(Step) : next[d] = 0)
    BY <1>3 DEF List, Answers
  <1> QED
    BY <1>1, <1>2, <1>3 DEF List

LEMMA LoopKind ==
    ASSUME ContentInv, NEW c \in todo,
           \/ ManageGrokPatterns(c) \/ ManageIndexSets(c) \/ ManageInputs(c)
           \/ ManageExtractors(c) \/ ManageStreams(c) \/ ResumeStream(c)
           \/ ManageProcessingRules(c) \/ ManagePipelines(c)
    PROVE  Kinds
  <1> SUFFICES FailsAlone \/ \E x \in Contents : HandlesOne(x)
    BY DEF Kinds
  <1>t. TypeInv
    BY DEF ContentInv
  <1>s. /\ {"grok", "indexSets", "inputs", "extractors", "streams", "rules", "pipeline"}
              \subseteq Asking \ {"resume"}
        /\ \A s \in {"grok", "indexSets", "inputs", "extractors", "streams", "resume", "rules",
                     "pipeline"} : s \notin Accounts \cup {"dashboards"}
    BY DEF Asking, Accounts, Roles, Users
  <1>1. CASE ManageGrokPatterns(c)
    <2>1. Acting(c) /\ c \in Contents /\ Step = "grok" /\ at # 0
      BY <1>t, <1>s, <1>1, HandlesActing DEF ManageGrokPatterns
    <2>2. c = "grok"
      BY <2>1, <1>t, AtStep DEF Titles
    <2>3. CASE ForceUpdate /\ seen[c] = 0
      <3>1. ~store["grok"].exists
        BY <1>s, <2>1, <2>2, <2>3, UnseenIsMissing
      <3> QED
        BY <1>1, <2>1, <2>2, <2>3, <3>1 DEF ManageGrokPatterns, KeepContent, HandlesOne, Keeps, ForceUpdate
    <2>4. CASE ~(ForceUpdate /\ seen[c] = 0)
      BY <1>1, <1>s, <2>1, <2>4, CreateOrUpdateKind DEF CreateOrUpdate, ForceUpdate, ManageGrokPatterns
    <2> QED
      BY <2>3, <2>4
  <1>2. CASE ManageIndexSets(c)
    <2>1. Acting(c) /\ Step = "indexSets"
      BY <1>t, <1>s, <1>2, HandlesActing DEF ManageIndexSets
    <2> QED
      BY <1>2, <1>s, <2>1, CreateOrUpdateKind DEF CreateOrUpdate, ForceUpdate, ManageIndexSets, AlwaysWritten
  <1>3. CASE ManageInputs(c)
    <2>1. Acting(c) /\ Step = "inputs"
      BY <1>t, <1>s, <1>3, HandlesActing DEF ManageInputs
    <2> QED
      BY <1>3, <1>s, <2>1, CreateOrUpdateKind DEF CreateOrUpdate, ForceUpdate, ManageInputs
  <1>4. CASE ManageExtractors(c)
    <2>1. Acting(c) /\ Step = "extractors"
      BY <1>t, <1>s, <1>4, HandlesActing DEF ManageExtractors
    <2>2. CASE CreateOrUpdate(c, ForceUpdate)
      BY <2>2, <1>s, <2>1, CreateOrUpdateKind DEF CreateOrUpdate, ForceUpdate
    <2>3. CASE Fails /\ UNCHANGED <<store, others, faults>>
      BY <2>1, <2>3 DEF FailsAlone, Acting
    <2> QED
      BY <1>4, <2>2, <2>3 DEF ManageExtractors
  <1>5. CASE ManageStreams(c)
    <2>1. Acting(c) /\ Step = "streams"
      BY <1>t, <1>s, <1>5, HandlesActing DEF ManageStreams
    <2> QED
      BY <1>5, <1>s, <2>1, CreateOrUpdateKind DEF CreateOrUpdate, ForceUpdate, ManageStreams
  <1>6. CASE ManageProcessingRules(c)
    <2>1. Acting(c) /\ Step = "rules"
      BY <1>t, <1>s, <1>6, HandlesActing DEF ManageProcessingRules
    <2> QED
      BY <1>6, <1>s, <2>1, CreateOrUpdateKind DEF CreateOrUpdate, ForceUpdate, ManageProcessingRules
  <1>7. CASE ManagePipelines(c)
    <2>1. Acting(c) /\ Step = "pipeline"
      BY <1>t, <1>s, <1>7, HandlesActing DEF ManagePipelines
    <2> QED
      BY <1>7, <1>s, <2>1, CreateOrUpdateKind DEF CreateOrUpdate, ForceUpdate, ManagePipelines
  <1>8. CASE ResumeStream(c)
    <2>1. Acting(c) /\ c \in Contents /\ Step = "resume"
      BY <1>t, <1>s, <1>8, HandlesActing DEF ResumeStream
    <2>2. CASE Current(c) /\ Send([store EXCEPT ![c].on = TRUE], Continue(c))
      <3>1. Makes(c, Marked(c, store[c].edited, TRUE))
        BY <2>1, <2>2 DEF Makes, Current
      <3>2. Send([store EXCEPT ![c] = Marked(c, store[c].edited, TRUE)], Continue(c))
        BY <1>t, <2>1, <2>2, ResumedStore DEF TypeInv
      <3> QED
        BY <1>8, <2>1, <3>1, <3>2, SendKind DEF ResumeStream
    <2>3. CASE Fails /\ UNCHANGED <<store, faults>>
      BY <1>8, <2>1, <2>3 DEF FailsAlone, Acting, ResumeStream
    <2> QED
      BY <1>8, <2>2, <2>3 DEF ResumeStream
  <1> QED
    BY <1>1, <1>2, <1>3, <1>4, <1>5, <1>6, <1>7, <1>8

LEMMA OsExtractorKind ==
    ASSUME ContentInv, DeleteOsExtractor
    PROVE  Kinds
  <1> SUFFICES FailsAlone \/ DropsExtractor \/ \E x \in Contents : HandlesOne(x)
    BY DEF Kinds
  <1>1. at # 0 /\ stage = Len(Lists(Step)) /\ todo = {"os_extractor"} /\ UNCHANGED others
    BY DEF DeleteOsExtractor, Ready
  <1>2. /\ Step \in StepNames /\ "os_extractor" \in Titles(Step) /\ stage \in 0..5
        /\ "os_extractor" \in Contents
    BY <1>1, AtStep DEF ContentInv
  <1>3. Step = "extractors"
    BY <1>2 DEF StepNames, Required, Titles, IndexSets, Streams, Rules
  <1>4. Acting("os_extractor") /\ Step # "resume"
    BY <1>1, <1>2, <1>3 DEF Acting, Accounts, Roles, Users
  <1>5. Advance => Continue("os_extractor")
    BY <1>1 DEF Continue
  <1>6. CASE Send(Without(todo), Advance)
    <2>1. CASE store' = Without(todo) /\ Advance /\ UNCHANGED faults
      BY <1>1, <1>3, <1>4, <1>5, <2>1 DEF DropsExtractor
    <2>2. CASE Fault /\ store' = Without(todo) /\ Fails
      BY <1>1, <1>3, <1>4, <2>2 DEF DropsExtractor, Breaks
    <2>3. CASE Fault /\ store' = store /\ Fails
      BY <1>1, <2>3 DEF FailsAlone
    <2> QED
      BY <1>6, <2>1, <2>2, <2>3 DEF Send
  <1>7. CASE Fails /\ UNCHANGED <<store, faults>>
    BY <1>1, <1>7 DEF FailsAlone
  <1>8. CASE Advance /\ UNCHANGED <<store, faults>>
    <2>1. Keeps("os_extractor")
      BY <1>4 DEF Keeps
    <2> QED
      BY <1>1, <1>2, <1>4, <1>5, <1>8, <2>1 DEF HandlesOne
  <1> QED
    BY <1>6, <1>7, <1>8 DEF DeleteOsExtractor

LEMMA SearchKind ==
    ASSUME ContentInv, UploadSearch \/ CreateView
    PROVE  Kinds
  <1> SUFFICES FailsAlone \/ \E x \in Contents : HandlesOne(x)
    BY DEF Kinds
  <1>t. TypeInv /\ SearchFirst
    BY DEF ContentInv
  <1>1. CASE UploadSearch
    <2>1. Acting("search") /\ "search" \in Contents /\ Step = "searches"
      BY <1>t, <1>1, HandlesActing DEF UploadSearch, Accounts, Roles, Users
    <2>2. CASE CreateContent("search")
      BY <2>1, <2>2, CreateKind DEF Overwritten
    <2>3. CASE ~ForceUpdate /\ seen["view"] # 0 /\ KeepContent("search")
      BY <1>t, <2>1, <2>3 DEF SearchFirst, Keeps, KeepContent, HandlesOne
    <2> QED
      BY <1>1, <2>2, <2>3 DEF UploadSearch
  <1>2. CASE CreateView
    <2>1. Acting("view") /\ Step = "views" /\ "views" \in Asking \ {"resume"}
      BY <1>t, <1>2, HandlesActing DEF CreateView, Accounts, Roles, Users, Asking
    <2> QED
      BY <1>2, <2>1, CreateOrUpdateKind DEF CreateView, CreateOrUpdate
  <1> QED
    BY <1>1, <1>2

LEMMA CustomViewKind ==
    ASSUME ContentInv, ReplaceCustomView
    PROVE  Kinds
  <1> SUFFICES FailsAlone \/ DropsView \/ \E x \in Contents : HandlesOne(x)
    BY DEF Kinds
  <1>1. /\ Acting("customView") /\ "customView" \in Contents /\ Step = "customViews" /\ at # 0
        /\ "customViews" \in Asking \ {"resume"}
    BY HandlesActing DEF ReplaceCustomView, Accounts, Roles, Users, Asking, ContentInv
  <1>2. CASE seen["customView"] = 0
    BY <1>1, <1>2, CreateOrUpdateKind DEF ReplaceCustomView
  <1>3. CASE seen["customView"] # 0
    <2> DEFINE then == seen' = [seen EXCEPT !["customView"] = 0] /\ UNCHANGED stage /\ Stays
    <2>1. Send(Without({"customView"}), then) /\ UNCHANGED others
      BY <1>3 DEF ReplaceCustomView
    <2>2. CASE store' = Without({"customView"}) /\ then /\ UNCHANGED faults
      BY <1>1, <2>1, <2>2 DEF DropsView
    <2>3. CASE Fault /\ store' = Without({"customView"}) /\ Fails
      BY <1>1, <2>1, <2>3 DEF DropsView, Breaks
    <2>4. CASE Fault /\ store' = store /\ Fails
      BY <1>1, <2>1, <2>4 DEF FailsAlone
    <2> QED
      BY <2>1, <2>2, <2>3, <2>4 DEF Send
  <1> QED
    BY <1>2, <1>3

LEMMA AccountKind ==
    ASSUME ContentInv, NEW c \in Accounts,
           LookUp(c) \/ (LookedUp(c) /\ CreateOrUpdate(c, ForceUpdate))
    PROVE  Kinds
  <1>1. CASE LookUp(c)
    BY <1>1 DEF LookUp, Looks, Misses, Kinds, others
  <1>2. CASE LookedUp(c) /\ CreateOrUpdate(c, ForceUpdate)
    <2>1. at # 0 /\ Step = c /\ stage = Len(Lists(Step)) + 1
      BY <1>2 DEF LookedUp
    <2>2. Step \in StepNames /\ todo # {} /\ todo \subseteq Titles(Step)
      BY <2>1, AtStep DEF ContentInv
    <2>3. Titles(Step) = {c} /\ c \in Asking \ {"resume"} /\ c # "dashboards"
      BY <2>1 DEF Titles, Accounts, Roles, Users, Asking
    <2>4. stage >= Len(Lists(Step))
      BY <2>1, <2>2, ListsFacts
    <2>5. Acting(c)
      BY <2>1, <2>2, <2>3, <2>4 DEF Acting
    <2> QED
      BY <1>2, <2>1, <2>3, <2>5, CreateOrUpdateKind DEF CreateOrUpdate, Kinds
  <1> QED
    BY <1>1, <1>2

LEMMA RunKinds ==
    ASSUME ContentInv, Run
    PROVE  Kinds
  <1>1. CASE SkipContent \/ StartRun \/ DashboardStep
    BY <1>1 DEF Kinds
  <1>2. CASE List
    BY <1>2, ListKind DEF Kinds
  <1>3. CASE \E c \in todo :
                \/ ManageGrokPatterns(c) \/ ManageIndexSets(c) \/ ManageInputs(c)
                \/ ManageExtractors(c) \/ ManageStreams(c) \/ ResumeStream(c)
                \/ ManageProcessingRules(c) \/ ManagePipelines(c)
    BY <1>3, LoopKind
  <1>4. CASE \/ ManageAuthHeaderConfig \/ UpdateMessageProcessorsOrder \/ ConnectPipeline
             \/ ManageContentPacks \/ ManageOpensearchConfigs \/ ManageArchivesDirectory
    BY <1>4, SendsKind
       DEF ManageAuthHeaderConfig, UpdateMessageProcessorsOrder, ConnectPipeline,
           ManageContentPacks, ManageOpensearchConfigs, ManageArchivesDirectory, ContentInv
  <1>5. CASE DeleteOsExtractor \/ UploadSearch \/ CreateView \/ ReplaceCustomView
    BY <1>5, OsExtractorKind, SearchKind, CustomViewKind
  <1>6. CASE GetRole \/ CreateOrUpdateRole \/ GetUser \/ CreateOrUpdateUser
    BY <1>6, AccountKind DEF GetRole, CreateOrUpdateRole, GetUser, CreateOrUpdateUser, Accounts
  <1> QED
    BY <1>1, <1>2, <1>3, <1>4, <1>5, <1>6 DEF Run, DashboardStep
-----------------------------------------------------------------------------
(***************************************************************************)
(* Types.                                                                  *)
(***************************************************************************)
LEMMA NoIdsType == NoIds \in [Contents -> Nat]
  BY DEF NoIds

LEMMA ListedType ==
    ASSUME TypeInv, NEW C
    PROVE  /\ Listed(C) \in [Contents -> Nat]
           /\ \A c \in Contents : Listed(C)[c] = IF c \in C THEN IdOf(c) ELSE seen[c]
  <1>1. \A c \in Contents : IdOf(c) \in Nat /\ seen[c] \in Nat
    BY StoreFields DEF IdOf, TypeInv, ControlType
  <1> QED
    BY <1>1 DEF Listed

LEMMA FailsType ==
    ASSUME TypeInv, Fails
    PROVE  ControlType'
  BY NoIdsType, StepsCount DEF TypeInv, ControlType, Fails

LEMMA AdvanceType ==
    ASSUME TypeInv, at # 0, Advance
    PROVE  ControlType'
  <1>1. at \in 1..Len(Steps) /\ Len(Steps) \in 19..23
    BY AtStep, StepsCount
  <1>2. CASE at = Len(Steps)
    BY <1>1, <1>2, NoIdsType DEF Advance, TypeInv, ControlType
  <1>3. CASE at # Len(Steps)
    <2>1. at + 1 \in 1..Len(Steps) /\ at' = at + 1
      BY <1>1, <1>3 DEF Advance
    <2>2. Steps[at + 1] \in StepNames /\ Step' = Steps[at + 1]
      BY <2>1, StepName DEF Step
    <2>3. todo' = Titles(Step') /\ todo' # {}
      BY <1>3, <2>2, TitlesThere DEF Advance
    <2>4. stage' = 0 /\ 0 <= LastStage(Step')
      BY <2>2, ListsFacts DEF Advance
    <2>5. seen' \in [Contents -> Nat]
      BY <1>3, NoIdsType DEF Advance, TypeInv, ControlType
    <2>6. UNCHANGED <<due, running, outcome>>
      BY <1>3 DEF Advance
    <2>7. at' \in 0..Len(Steps) /\ at' # 0
      BY <1>1, <2>1
    <2> QED
      BY <2>3, <2>4, <2>5, <2>6, <2>7 DEF TypeInv, ControlType
  <1> QED
    BY <1>2, <1>3

LEMMA ContinueType ==
    ASSUME TypeInv, at # 0, NEW c \in todo, Continue(c)
    PROVE  ControlType'
  <1>1. CASE todo = {c}
    BY <1>1, AdvanceType DEF Continue
  <1>2. CASE todo # {c}
    <2>1. todo' = todo \ {c} /\ UNCHANGED <<due, at, stage, seen, running, outcome>>
      BY <1>2 DEF Continue
    <2>2. todo' # {} /\ todo' \subseteq todo /\ Step' = Step
      BY <1>2, <2>1 DEF Step
    <2> QED
      BY <2>1, <2>2 DEF TypeInv, ControlType
  <1> QED
    BY <1>1, <1>2

\* The step goes on to stage n.
LEMMA StaysType ==
    ASSUME TypeInv, at # 0, stage' \in 0..5, stage' <= LastStage(Step), Stays,
           seen' \in [Contents -> Nat]
    PROVE  ControlType'
  <1>1. UNCHANGED <<due, at, todo, running, outcome>> /\ Step' = Step
    BY DEF Stays, Step
  <1> QED
    BY <1>1 DEF TypeInv, ControlType

LEMMA FaultType ==
    ASSUME TypeInv, Fault \/ UNCHANGED faults
    PROVE  faults' \in 0..MaxFaults
  BY ContentAssumption DEF TypeInv, HistoryType, Fault

LEMMA HistoryKept ==
    ASSUME TypeInv, Fault \/ UNCHANGED faults, UNCHANGED others
    PROVE  HistoryType'
  BY FaultType DEF TypeInv, HistoryType, others

\* What is put into the store has the type of what was there.
LEMMA MakesEntity ==
    ASSUME TypeInv, NEW c \in Contents, NEW e, Makes(c, e)
    PROVE  e \in Entity(c)
  <1>1. IsStore(store) /\ seen \in [Contents -> Nat] /\ store[c].edited \in BOOLEAN
    BY StoreFields DEF TypeInv, ControlType
  <1>2. Created(c) \in Entity(c) /\ Updated(c) \in Entity(c)
    BY <1>1, CreatedEntity, UpdatedEntity
  <1>3. Marked(c, store[c].edited, TRUE) \in Entity(c)
    BY <1>1, MarkedEntity
  <1> QED
    BY <1>2, <1>3 DEF Makes

LEMMA HandlesOneType ==
    ASSUME TypeInv, NEW c \in Contents, HandlesOne(c)
    PROVE  TypeInv'
  <1>1. at # 0 /\ c \in todo /\ UNCHANGED others
    BY DEF HandlesOne, Acting
  <1>2. IsStore(store')
    BY MakesEntity, PutStore DEF HandlesOne, TypeInv
  <1>3. Fault \/ UNCHANGED faults
    BY DEF HandlesOne, Breaks
  <1>4. ControlType'
    BY <1>1, FailsType, ContinueType DEF HandlesOne, Breaks
  <1> QED
    BY <1>1, <1>2, <1>3, <1>4, HistoryKept DEF TypeInv

LEMMA DropsType ==
    ASSUME TypeInv, DropsExtractor \/ DropsView
    PROVE  TypeInv'
  <1>1. IsStore(store')
    BY WithoutStore DEF DropsExtractor, DropsView, TypeInv
  <1>2. (Fault \/ UNCHANGED faults) /\ UNCHANGED others
    BY DEF DropsExtractor, DropsView, Breaks
  <1>3. CASE Fails
    BY <1>1, <1>2, <1>3, FailsType, HistoryKept DEF TypeInv
  <1>4. CASE DropsExtractor /\ Continue("os_extractor")
    BY <1>1, <1>2, <1>4, ContinueType, HistoryKept DEF TypeInv, DropsExtractor, Acting
  <1>5. CASE /\ DropsView
             /\ seen' = [seen EXCEPT !["customView"] = 0] /\ UNCHANGED <<stage, faults>> /\ Stays
    <2>1. at # 0 /\ stage' = stage
      BY <1>5 DEF DropsView, Acting
    <2>2. stage' \in 0..5 /\ stage' <= LastStage(Step) /\ seen' \in [Contents -> Nat]
      BY <1>5, <2>1 DEF TypeInv, ControlType
    <2> QED
      BY <1>1, <1>2, <1>5, <2>1, <2>2, StaysType, HistoryKept DEF TypeInv
  <1> QED
    BY <1>3, <1>4, <1>5 DEF DropsExtractor, DropsView, Breaks

LEMMA ListingType ==
    ASSUME TypeInv, Answers \/ \E c \in Accounts : Looks(c)
    PROVE  TypeInv'
  <1>1. UNCHANGED <<store, others, faults>> /\ Stays /\ at # 0 /\ stage' = stage + 1
    BY DEF Answers, Looks, Handles, Ready
  <1>2. Step \in StepNames /\ stage \in 0..5
    BY <1>1, AtStep
  <1>3. stage' <= LastStage(Step)
    <2>1. CASE Answers
      BY <1>1, <1>2, <2>1, ListsFacts DEF Answers
    <2>2. ASSUME NEW c \in Accounts, Looks(c) PROVE stage' <= LastStage(Step)
      <3>1. Step \in Accounts /\ stage = Len(Lists(Step)) /\ Step # "dashboards"
        BY <2>2 DEF Looks, Handles, Ready, Accounts, Roles, Users
      <3> QED
        BY <1>1, <1>2, <3>1, ListsFacts DEF LastStage
    <2> QED
      BY <2>1, <2>2
  <1>4. stage' \in 0..5
    BY <1>1, <1>2, <1>3, ListsFacts
  <1>5. seen' \in [Contents -> Nat]
    <2>1. CASE Answers
      BY <2>1, ListedType DEF Answers
    <2>2. ASSUME NEW c \in Accounts, Looks(c) PROVE seen' \in [Contents -> Nat]
      BY <2>2, ListedType DEF Looks
    <2> QED
      BY <2>1, <2>2
  <1> QED
    BY <1>1, <1>3, <1>4, <1>5, StaysType, HistoryKept DEF TypeInv

LEMMA MissesType ==
    ASSUME TypeInv, NEW c \in Accounts, Misses(c)
    PROVE  TypeInv'
  <1>1. at # 0 /\ c \in todo /\ Continue(c) /\ Fault /\ UNCHANGED store
    BY DEF Misses, Handles, Ready
  <1>2. HistoryType'
    BY <1>1, FaultType DEF Misses, TypeInv, HistoryType
  <1> QED
    BY <1>1, <1>2, ContinueType DEF TypeInv

LEMMA GoesType ==
    ASSUME TypeInv, at # 0, Step = "dashboards", NEW n \in 0..5, Goes(n)
    PROVE  ControlType'
  <1>1. LastStage(Step) = 5
    BY DEF LastStage
  <1>2. stage' = n /\ stage' \in 0..5 /\ stage' <= 5 /\ Stays /\ seen' = seen
    BY DEF Goes
  <1> QED
    BY <1>1, <1>2, StaysType DEF TypeInv, ControlType

LEMMA PackEntities ==
    ASSUME TypeInv,
           store' = [store EXCEPT !["installation"] = Created("installation"),
                                  !["dashboard"] = Created("dashboard")]
    PROVE  /\ IsStore(store')
           /\ store'["installation"] = Created("installation")
           /\ store'["dashboard"] = Created("dashboard")
           /\ \A c \in Contents \ {"installation", "dashboard"} : store'[c] = store[c]
  <1>1. "installation" \in Contents /\ "dashboard" \in Contents
    BY Shipments
  <1>2. /\ Created("installation") \in Entity("installation")
        /\ Created("dashboard") \in Entity("dashboard")
    BY <1>1, CreatedEntity DEF TypeInv, ControlType
  <1>3. DOMAIN store = Contents
    BY DEF TypeInv, IsStore
  <1>4. store' = [c \in Contents |-> IF c = "dashboard" THEN Created("dashboard")
                                     ELSE IF c = "installation" THEN Created("installation")
                                     ELSE store[c]]
    BY <1>3
  <1>5. \A c \in Contents : store'[c] = IF c = "dashboard" THEN Created("dashboard")
                                        ELSE IF c = "installation" THEN Created("installation")
                                        ELSE store[c]
    BY <1>4
  <1>6. store' = [c \in Contents |-> store'[c]]
    BY <1>4, <1>5
  <1> QED
    BY <1>1, <1>2, <1>5, <1>6 DEF TypeInv, IsStore

LEMMA DashboardType ==
    ASSUME TypeInv, DashboardStep
    PROVE  TypeInv'
  <1>1. at # 0 /\ Step = "dashboards" /\ UNCHANGED others
    BY DEF DashboardStep, FindPack, DeleteInstallations, DeletePack, UploadPack, InstallPack
  <1>2. /\ Fault \/ UNCHANGED faults
        /\ \/ Fails \/ Advance \/ Goes(3) \/ Goes(4) \/ Goes(5)
           \/ stage' = 2 /\ seen' = Listed({"installation"}) /\ Stays
    BY DEF DashboardStep, FindPack, DeleteInstallations, DeletePack, UploadPack, InstallPack, Send
  <1>3. ControlType'
    <2>1. CASE stage' = 2 /\ seen' = Listed({"installation"}) /\ Stays
      BY <1>1, <2>1, ListedType, StaysType DEF LastStage
    <2>2. CASE Goes(3) \/ Goes(4) \/ Goes(5)
      BY <1>1, <2>2, GoesType
    <2> QED
      BY <1>1, <1>2, <2>1, <2>2, FailsType, AdvanceType
  <1>4. IsStore(store')
    <2>1. CASE UNCHANGED store
      BY <2>1 DEF TypeInv
    <2>2. CASE \/ store' = Without({"installation", "dashboard"}) \/ store' = Without({"pack"})
      BY <2>2, WithoutStore DEF TypeInv
    <2>3. CASE store' = [store EXCEPT !["pack"] = Created("pack")]
      BY <2>3, Shipments, CreatedEntity, PutStore DEF TypeInv, ControlType
    <2>4. CASE store' = [store EXCEPT !["installation"] = Created("installation"),
                                      !["dashboard"] = Created("dashboard")]
      BY <2>4, PackEntities
    <2> QED
      BY <2>1, <2>2, <2>3, <2>4
         DEF DashboardStep, FindPack, DeleteInstallations, DeletePack, UploadPack, InstallPack, Send
  <1> QED
    BY <1>1, <1>2, <1>3, <1>4, HistoryKept DEF TypeInv

LEMMA StartType ==
    ASSUME TypeInv, SkipContent \/ StartRun
    PROVE  TypeInv'
  <1>1. CASE SkipContent
    BY <1>1 DEF SkipContent, TypeInv, ControlType, HistoryType, others, Step
  <1>2. CASE StartRun
    <2>1. 1 \in 1..Len(Steps) /\ Steps[1] \in StepNames /\ Step' = Steps[1] /\ at' = 1
      BY <1>2, StepsCount, StepName DEF StartRun, Step
    <2>2. todo' = Titles(Step') /\ todo' # {} /\ stage' = 0 /\ 0 <= LastStage(Step')
      BY <1>2, <2>1, TitlesThere, ListsFacts DEF StartRun
    <2>3. seen' \in [Contents -> Nat] /\ outcome' = "none"
      BY <1>2, NoIdsType DEF StartRun
    <2>a. at' \in 0..Len(Steps) /\ at' # 0 /\ policy \in Policies
      BY <2>1, StepsCount DEF TypeInv, HistoryType
    <2>b. due' \in BOOLEAN /\ running' \in Policies
      BY <1>2, <2>a DEF StartRun
    <2>4. ControlType'
      BY <2>a, <2>b, <2>2, <2>3 DEF ControlType
    <2>5. HistoryType' /\ UNCHANGED store
      BY <1>2 DEF StartRun, TypeInv, HistoryType
    <2> QED
      BY <2>4, <2>5 DEF TypeInv
  <1> QED
    BY <1>1, <1>2

\* What people do leaves the run as it is.
Outside ==
    \/ \E c \in Contents : DeleteContent(c) \/ EditContent(c)
    \/ Request

Deleted(c) == IF c = "input" THEN {c, "extractor", "os_extractor"} ELSE {c}

LEMMA OutsideType ==
    ASSUME TypeInv, Outside
    PROVE  TypeInv'
  <1>1. ASSUME NEW c \in Contents, DeleteContent(c) \/ EditContent(c) PROVE TypeInv'
    <2>1. /\ edits < MaxEdits /\ edits' = edits + 1 /\ disturbed' = TRUE
          /\ UNCHANGED control /\ UNCHANGED <<policy, skipped, requests, faults>>
      BY <1>1 DEF DeleteContent, EditContent, Changes, PersonUnchanged
    <2>2. HistoryType' /\ ControlType'
      BY <2>1, ContentAssumption DEF TypeInv, HistoryType, ControlType, control, Step
    <2>3. IsStore(store')
      <3>1. CASE DeleteContent(c)
        <4>1. store' = Without(Deleted(c))
          BY <3>1 DEF DeleteContent, Changes, Deleted
        <4> QED
          BY <4>1, WithoutStore DEF TypeInv
      <3>2. CASE EditContent(c)
        <4>1. store' = [store EXCEPT ![c] = Marked(c, TRUE, c \notin Streams)]
          BY <3>2, EditedStore DEF EditContent, Changes, TypeInv
        <4>2. Marked(c, TRUE, c \notin Streams) \in Entity(c)
          BY MarkedEntity DEF TypeInv
        <4> QED
          BY <4>1, <4>2, PutStore DEF TypeInv
      <3> QED
        BY <1>1, <3>1, <3>2
    <2> QED
      BY <2>2, <2>3 DEF TypeInv
  <1>2. CASE Request
    BY <1>2, ContentAssumption DEF Request, TypeInv, ControlType, HistoryType, Step
  <1> QED
    BY <1>1, <1>2 DEF Outside

\* Every step is of one of these kinds.
LEMMA StepKinds ==
    ASSUME ContentInv, [Next]_vars
    PROVE  Kinds \/ Outside \/ UNCHANGED vars
  <1>1. CASE Run
    BY <1>1, RunKinds
  <1>2. CASE Restart
    BY <1>2 DEF Restart, FailsAlone, Kinds
  <1> QED
    BY <1>1, <1>2 DEF Next, Outside

LEMMA TypeNext ==
    ASSUME ContentInv, [Next]_vars
    PROVE  TypeInv'
  <1>t. TypeInv
    BY DEF ContentInv
  <1>1. CASE SkipContent \/ StartRun \/ DashboardStep \/ Outside
    BY <1>t, <1>1, StartType, DashboardType, OutsideType
  <1>2. CASE FailsAlone
    BY <1>t, <1>2, FailsType, HistoryKept DEF FailsAlone, TypeInv
  <1>3. CASE Answers \/ \E c \in Accounts : Looks(c)
    BY <1>t, <1>3, ListingType
  <1>4. CASE DropsExtractor \/ DropsView
    BY <1>t, <1>4, DropsType
  <1>5. ASSUME NEW c \in Contents, HandlesOne(c) PROVE TypeInv'
    BY <1>t, <1>5, HandlesOneType
  <1>6. ASSUME NEW c \in Accounts, Misses(c) PROVE TypeInv'
    BY <1>t, <1>6, MissesType
  <1>7. CASE UNCHANGED vars
    BY <1>t, <1>7 DEF vars, control, others, TypeInv, ControlType, HistoryType, Step
  <1> QED
    BY <1>1, <1>2, <1>3, <1>4, <1>5, <1>6, <1>7, StepKinds DEF Kinds
-----------------------------------------------------------------------------
(***************************************************************************)
(* What Graylog holds, whoever changed it.                                 *)
(***************************************************************************)

\* Only the step of the dashboards handles the pack and what comes with it.
LEMMA ActingTitle ==
    ASSUME TypeInv, NEW c, Acting(c)
    PROVE  /\ c \in Contents /\ c \notin {"pack", "installation", "dashboard"}
           /\ c = "view" => Step = "views"
           /\ c = "search" => Step = "searches"
           /\ c \in Accounts => Step = c
           /\ Step = "searches" => c = "search"
  <1>1. Step \in StepNames /\ c \in Titles(Step) /\ c \in Contents /\ Step # "dashboards"
    BY AtStep DEF Acting
  <1> QED
    BY <1>1 DEF StepNames, Required, Titles, IndexSets, Streams, Rules, Accounts, Roles, Users

\* What is handled has an id if it exists, and runs if it is not a stream.
LEMMA HandlesOneStore ==
    ASSUME TypeInv, NEW c \in Contents, HandlesOne(c)
    PROVE  /\ \A d \in Contents : d # c => store'[d] = store[d]
           /\ \/ UNCHANGED store
              \/ store'[c].exists /\ store'[c].id # 0
              \/ store'[c].exists = store[c].exists /\ store'[c].id = store[c].id
           /\ store[c].exists => store'[c].exists
           /\ c \notin Streams => store'[c].on = store[c].on \/ store'[c].on
  <1>1. CASE UNCHANGED store
    BY <1>1
  <1>2. ASSUME NEW e, Makes(c, e), store' = [store EXCEPT ![c] = e]
        PROVE  /\ \A d \in Contents : d # c => store'[d] = store[d]
               /\ store'[c] = e
    BY <1>2, MakesEntity, PutStore DEF TypeInv
  <1>3. IsStore(store) /\ seen \in [Contents -> Nat] /\ store[c].edited \in BOOLEAN
    BY StoreFields DEF TypeInv, ControlType
  <1>4. ASSUME NEW e, Makes(c, e)
        PROVE  /\ \/ e.exists /\ e.id # 0
                  \/ e.exists = store[c].exists /\ e.id = store[c].id
               /\ store[c].exists => e.exists
               /\ c \notin Streams => e.on = store[c].on \/ e.on
    <2>1. CASE e = Created(c)
      BY <1>3, <2>1, CreatedEntity
    <2>2. CASE e = Updated(c)
      BY <1>3, <2>2, UpdatedEntity
    <2>3. CASE e = Marked(c, store[c].edited, TRUE)
      BY <1>3, <2>3, MarkedEntity
    <2> QED
      BY <1>4, <2>1, <2>2, <2>3 DEF Makes
  <1> QED
    BY <1>1, <1>2, <1>4 DEF HandlesOne

LEMMA ShapeNext ==
    ASSUME ContentInv, [Next]_vars
    PROVE  StoreShape'
  <1>t. TypeInv /\ StoreShape /\ IsStore(store) /\ seen \in [Contents -> Nat]
    BY DEF ContentInv, TypeInv, ControlType
  <1>s. {"pack", "installation", "dashboard"} \subseteq Contents \ Streams
    BY Shipments DEF Streams
  <1>1. CASE UNCHANGED store
    BY <1>1, <1>t DEF StoreShape
  <1>2. ASSUME NEW c \in Contents, HandlesOne(c) PROVE StoreShape'
    <2>1. c \notin {"pack", "installation", "dashboard"}
      BY <1>t, <1>2, ActingTitle DEF HandlesOne
    <2>2. \A d \in Contents : d # c => store'[d] = store[d]
      BY <1>t, <1>2, HandlesOneStore
    <2>3. store'[c].exists => store'[c].id # 0
      BY <1>t, <1>2, HandlesOneStore DEF StoreShape
    <2>4. c \notin Streams => store'[c].on
      BY <1>t, <1>2, HandlesOneStore DEF StoreShape
    <2> QED
      BY <1>t, <1>s, <2>1, <2>2, <2>3, <2>4 DEF StoreShape
  <1>3. ASSUME NEW C, store' = Without(C),
               "installation" \in C => "dashboard" \in C,
               "pack" \in C => ~store["installation"].exists
        PROVE  StoreShape'
    <2>1. \A c \in Contents : IF c \in C
                THEN ~store'[c].exists /\ store'[c].on = store[c].on
                ELSE store'[c] = store[c]
      BY <1>t, <1>3, WithoutStore
    <2> QED
      BY <1>t, <1>s, <1>3, <2>1 DEF StoreShape
  <1>4. CASE DropsExtractor \/ DropsView
    BY <1>3, <1>4 DEF DropsExtractor, DropsView
  <1>5. CASE DashboardStep
    <2>1. CASE store' = Without({"installation", "dashboard"})
      BY <1>3, <2>1
    <2>2. CASE DeletePack /\ store' = Without({"pack"})
      BY <1>1, <1>3, <2>2 DEF DeletePack
    <2>3. CASE store' = [store EXCEPT !["pack"] = Created("pack")]
      <3>1. /\ Created("pack") \in Entity("pack") /\ Created("pack").exists
            /\ Created("pack").id # 0 /\ Created("pack").on
        BY <1>t, <1>s, CreatedEntity
      <3>2. store'["pack"] = Created("pack") /\ \A c \in Contents : c # "pack" => store'[c] = store[c]
        BY <1>t, <1>s, <2>3, <3>1, PutStore
      <3> QED
        BY <1>t, <1>s, <3>1, <3>2 DEF StoreShape
    <2>4. CASE InstallPack /\ store' = [store EXCEPT !["installation"] = Created("installation"),
                                                      !["dashboard"] = Created("dashboard")]
      <3>1. store["pack"].exists
        BY <2>4 DEF InstallPack, ContentInv, PackStages
      <3>2. \A c \in {"installation", "dashboard"} :
               Created(c).exists /\ Created(c).id # 0 /\ Created(c).on
        BY <1>t, <1>s, CreatedEntity
      <3>3. /\ store'["installation"] = Created("installation")
            /\ store'["dashboard"] = Created("dashboard")
            /\ \A c \in Contents \ {"installation", "dashboard"} : store'[c] = store[c]
        BY <1>t, <2>4, PackEntities
      <3> QED
        BY <1>t, <1>s, <3>1, <3>2, <3>3 DEF StoreShape
    <2> QED
      BY <1>1, <1>5, <2>1, <2>2, <2>3, <2>4
         DEF DashboardStep, FindPack, DeleteInstallations, DeletePack, UploadPack, InstallPack, Send
  <1>6. ASSUME NEW c \in Contents, DeleteContent(c) PROVE StoreShape'
    <2>1. store' = Without(Deleted(c)) /\ c \notin {"pack", "installation"}
      BY <1>6 DEF DeleteContent, Changes, Deleted, Deletable
    <2>2. "pack" \notin Deleted(c) /\ "installation" \notin Deleted(c)
      BY <2>1 DEF Deleted
    <2> QED
      BY <1>3, <2>1, <2>2
  <1>7. ASSUME NEW c \in Contents, EditContent(c) PROVE StoreShape'
    <2> DEFINE e == Marked(c, TRUE, c \notin Streams)
    <2>1. /\ e \in Entity(c) /\ e.exists = store[c].exists /\ e.id = store[c].id
          /\ e.on = (c \notin Streams)
      BY <1>t, MarkedEntity
    <2>2. store' = [store EXCEPT ![c] = e]
      BY <1>t, <1>7, EditedStore DEF EditContent, Changes
    <2> HIDE DEF e
    <2>3. store'[c] = e /\ \A d \in Contents : d # c => store'[d] = store[d]
      BY <1>t, <2>1, <2>2, PutStore
    <2> QED
      BY <1>t, <1>s, <2>1, <2>3 DEF StoreShape
  <1> QED
    BY <1>1, <1>2, <1>4, <1>5, <1>6, <1>7, StepKinds
       DEF Kinds, Outside, SkipContent, StartRun, FailsAlone, Answers, Looks, Misses, Request, vars
-----------------------------------------------------------------------------
(***************************************************************************)
(* How the run goes on.                                                    *)
(***************************************************************************)
LEMMA FirstStep == Steps[1] \in {"authHeader", "grok"}
  <1>1. Rank(Steps[1]) = RankAt(1) /\ RankAt(1) \in {1, 2}
    BY StepsCount, StepsRank DEF RankAt
  <1>2. Steps[1] \in StepNames
    BY StepsCount, StepName
  <1> QED
    BY <1>1, <1>2 DEF Rank, StepNames, Required

\* The next step starts, or the run is over.
Moves ==
    \/ at' = 0 /\ at = Len(Steps) /\ outcome' = "success" /\ seen' = NoIds
    \/ /\ at' = at + 1 /\ at + 1 \in 1..Len(Steps) /\ Step' = Steps[at + 1]
       /\ Step' \in StepNames /\ at' # 0
       /\ stage' = 0 /\ todo' = Titles(Step') /\ outcome' = outcome
       /\ Step' = "views" => Step = "searches"
       /\ Step' = "auditViewerRole" => Step = "operatorRole"
       /\ IF Step' \in {"views", "auditViewerRole"} THEN seen' = seen ELSE seen' = NoIds

LEMMA AdvanceMoves ==
    ASSUME TypeInv, at # 0, Advance
    PROVE  Moves /\ running' = running
  <1>1. at \in 1..Len(Steps) /\ Len(Steps) \in 19..23 /\ Step = Steps[at]
    BY AtStep, StepsCount
  <1>2. CASE at = Len(Steps)
    BY <1>2 DEF Advance, Moves
  <1>3. CASE at # Len(Steps)
    <2>1. at + 1 \in 1..Len(Steps) /\ at' = at + 1
      BY <1>1, <1>3 DEF Advance
    <2>2. Steps[at + 1] \in StepNames /\ Step' = Steps[at + 1] /\ at' # 0
      BY <1>1, <2>1, StepName DEF Step
    <2>3. /\ Step' = "views" => Step = "searches"
          /\ Step' = "auditViewerRole" => Step = "operatorRole"
      BY <1>1, <2>1, <2>2, SharedBy
    <2>4. /\ stage' = 0 /\ todo' = Titles(Step') /\ outcome' = outcome /\ running' = running
          /\ IF Step' \in {"views", "auditViewerRole"} THEN seen' = seen ELSE seen' = NoIds
      BY <1>3, <2>2 DEF Advance, SharesLists
    <2> QED
      BY <2>1, <2>2, <2>3, <2>4 DEF Moves
  <1> QED
    BY <1>2, <1>3

\* The entity c is handled.
Passes(c) ==
    \/ todo = {c} /\ Moves
    \/ /\ todo' = todo \ {c} /\ Step' = Step
       /\ UNCHANGED <<at, stage, seen, outcome>>

LEMMA ContinuePasses ==
    ASSUME TypeInv, at # 0, NEW c \in todo, Continue(c)
    PROVE  Passes(c) /\ running' = running
  <1>1. CASE todo = {c}
    BY <1>1, AdvanceMoves DEF Continue, Passes
  <1>2. CASE todo # {c}
    BY <1>2 DEF Continue, Passes, Step
  <1> QED
    BY <1>1, <1>2

\* The step of the dashboards handles nothing but the pack.
LEMMA DashboardPasses ==
    ASSUME TypeInv, at # 0, Step = "dashboards"
    PROVE  todo = {"pack"} /\ (Advance => Passes("pack") /\ running' = running)
  <1>1. todo = {"pack"}
    BY AtStep DEF Titles
  <1> QED
    BY <1>1, AdvanceMoves DEF Passes

\* What is listed after a step was already listed in it.
LEMMA LookedBefore ==
    ASSUME TypeInv, at # 0, NEW c \in todo, Passes(c), stage >= Len(Lists(Step)),
           at' # 0, NEW d \in Contents, Looked(d)'
    PROVE  Looked(d) /\ seen'[d] = seen[d] /\ d # c /\ Step # "dashboards"
  <1>1. Step \in StepNames /\ c \in Titles(Step) /\ stage \in 0..5
    BY AtStep
  <1>2. CASE todo' = todo \ {c} /\ Step' = Step /\ UNCHANGED <<at, stage, seen, outcome>>
    <2>1. Looked(d) /\ d # c
      BY <1>1, <1>2 DEF Looked
    <2>2. Step # "dashboards"
      <3>1. SUFFICES ASSUME Step = "dashboards" PROVE FALSE
        OBVIOUS
      <3>2. Titles(Step) = {"pack"} /\ Len(Lists(Step)) = 1 /\ Lists(Step)[1] = {"pack"}
        BY <1>1, <3>1, ListsFacts DEF Titles
      <3> QED
        BY <1>1, <2>1, <3>1, <3>2 DEF Looked, Accounts, Roles, Users
    <2> QED
      BY <1>2, <2>1, <2>2
  <1>3. CASE todo = {c} /\ Moves
    <2>1. stage' = 0 /\ Step' \in StepNames
      BY <1>3 DEF Moves
    <2>2. Len(Lists(Step')) \in 0..2
      BY <2>1, ListsFacts
    <2>3. Step' = "views" /\ d = "view"
      BY <2>1, <2>2 DEF Looked
    <2>4. Step = "searches" /\ seen' = seen
      BY <1>3, <2>3 DEF Moves
    <2>5. Len(Lists(Step)) = 1 /\ Lists(Step)[1] = {"view"} /\ Titles(Step) = {"search"}
      BY <1>1, <2>4, ListsFacts DEF Titles
    <2>6. \E k \in 1..Len(Lists(Step)) : k <= stage /\ d \in Lists(Step)[k]
      BY <1>1, <2>3, <2>5
    <2> QED
      BY <1>1, <2>3, <2>4, <2>5, <2>6 DEF Looked
  <1> QED
    BY <1>2, <1>3 DEF Passes

\* How a step of any kind changes the run: it starts, it ends, it goes on to another
\* stage, or it passes an entity.
Course ==
    \/ at' = 0
    \/ StartRun
    \/ at # 0 /\ UNCHANGED <<at, stage, todo, seen, outcome, running>> /\ Step' = Step
    \/ Answers
    \/ \E c \in Accounts : Looks(c)
    \/ DropsView /\ seen' = [seen EXCEPT !["customView"] = 0] /\ UNCHANGED stage /\ Stays
    \/ at # 0 /\ Step = "dashboards" /\ Step' = Step /\ stage' > 1 /\ Stays
       /\ (seen' = seen \/ seen' = Listed({"installation"}))
    \/ /\ at # 0 /\ stage >= Len(Lists(Step))
       /\ \E c \in todo : Passes(c) /\ running' = running

LEMMA CourseNext ==
    ASSUME ContentInv, [Next]_vars
    PROVE  Course
  <1>t. TypeInv
    BY DEF ContentInv
  <1>0. ASSUME at # 0 PROVE Step \in StepNames /\ stage \in 0..5 /\ Len(Lists(Step)) \in 0..2
    BY <1>0, <1>t, AtStep, ListsFacts
  <1>1. CASE at' = 0
    BY <1>1 DEF Course
  <1>2. CASE SkipContent \/ StartRun \/ FailsAlone \/ Answers \/ \E c \in Accounts : Looks(c)
    BY <1>2 DEF Course, SkipContent, FailsAlone, Fails
  <1>3. CASE UNCHANGED <<at, stage, todo, seen, outcome, running>>
    BY <1>1, <1>3 DEF Course, Step
  <1>4. ASSUME NEW c \in Contents, HandlesOne(c) PROVE Course
    <2>1. at # 0 /\ c \in todo /\ stage >= Len(Lists(Step))
      BY <1>4 DEF HandlesOne, Acting
    <2>2. CASE Breaks
      BY <1>1, <2>2 DEF Breaks, Fails
    <2>3. CASE Continue(c)
      BY <1>t, <2>1, <2>3, ContinuePasses DEF Course
    <2> QED
      BY <1>4, <2>2, <2>3 DEF HandlesOne
  <1>5. CASE DropsExtractor
    <2>1. at # 0 /\ "os_extractor" \in todo /\ stage >= Len(Lists(Step))
      BY <1>5 DEF DropsExtractor, Acting
    <2>2. CASE Breaks
      BY <1>1, <2>2 DEF Breaks, Fails
    <2>3. CASE Continue("os_extractor")
      BY <1>t, <2>1, <2>3, ContinuePasses DEF Course
    <2> QED
      BY <1>5, <2>2, <2>3 DEF DropsExtractor
  <1>6. CASE DropsView
    BY <1>1, <1>6 DEF DropsView, Breaks, Fails, Course
  <1>7. ASSUME NEW c \in Accounts, Misses(c) PROVE Course
    <2>1. at # 0 /\ c \in todo /\ stage = Len(Lists(Step)) /\ Continue(c)
      BY <1>7 DEF Misses, Handles, Ready
    <2>2. stage >= Len(Lists(Step))
      BY <1>0, <2>1
    <2> QED
      BY <1>t, <2>1, <2>2, ContinuePasses DEF Course
  <1>8. CASE DashboardStep
    <2>1. at # 0 /\ Step = "dashboards" /\ stage \in 1..5
      BY <1>8 DEF DashboardStep, FindPack, DeleteInstallations, DeletePack, UploadPack, InstallPack
    <2>a. Step \in StepNames
      BY <1>0, <2>1
    <2>b. Len(Lists(Step)) = 1
      BY <2>1, <2>a, ListsFacts
    <2>c. stage \in 1..5
      BY <2>1
    <2>2. stage >= Len(Lists(Step))
      BY <2>b, <2>c
    <2>3. CASE Advance
      BY <1>t, <2>1, <2>2, <2>3, DashboardPasses DEF Course
    <2>4. CASE Fails
      BY <1>1, <2>4 DEF Fails
    <2>5. CASE Goes(3) \/ Goes(4) \/ Goes(5)
      BY <2>1, <2>5 DEF Goes, Course, Stays, Step
    <2>6. CASE stage' = 2 /\ seen' = Listed({"installation"}) /\ Stays
      BY <2>1, <2>6 DEF Course, Stays, Step
    <2> QED
      BY <1>8, <2>3, <2>4, <2>5, <2>6
         DEF DashboardStep, FindPack, DeleteInstallations, DeletePack, UploadPack, InstallPack, Send
  <1>9. CASE Outside \/ UNCHANGED vars
    BY <1>3, <1>9
       DEF Outside, Request, DeleteContent, EditContent, Changes, PersonUnchanged, vars, control
  <1> QED
    BY <1>2, <1>4, <1>5, <1>6, <1>7, <1>8, <1>9, StepKinds DEF Kinds

\* What is in Graylog after a step and was not before it was made by the run.
LEMMA Appears ==
    ASSUME ContentInv, [Next]_vars, NEW d \in Contents, store'[d].exists, ~store[d].exists
    PROVE  \/ HandlesOne(d)
           \/ DashboardStep /\ d \in {"pack", "installation", "dashboard"}
  <1>t. TypeInv /\ IsStore(store)
    BY DEF ContentInv, TypeInv
  <1>1. CASE UNCHANGED store
    BY <1>1
  <1>2. ASSUME NEW c \in Contents, HandlesOne(c) PROVE HandlesOne(d)
    BY <1>t, <1>2, HandlesOneStore
  <1>3. ASSUME NEW C, store' = Without(C) PROVE FALSE
    BY <1>t, <1>3, WithoutStore
  <1>4. CASE DropsExtractor \/ DropsView
    BY <1>3, <1>4 DEF DropsExtractor, DropsView
  <1>5. CASE DashboardStep /\ d \notin {"pack", "installation", "dashboard"}
    <2>1. CASE store' = [store EXCEPT !["pack"] = Created("pack")]
      <3>1. Created("pack") \in Entity("pack") /\ "pack" \in Contents
        BY <1>t, Shipments, CreatedEntity DEF TypeInv, ControlType
      <3> QED
        BY <1>t, <1>5, <2>1, <3>1, PutStore
    <2>2. CASE store' = [store EXCEPT !["installation"] = Created("installation"),
                                      !["dashboard"] = Created("dashboard")]
      BY <1>t, <1>5, <2>2, PackEntities
    <2> QED
      BY <1>1, <1>3, <1>5, <2>1, <2>2
         DEF DashboardStep, FindPack, DeleteInstallations, DeletePack, UploadPack, InstallPack, Send
  <1>6. ASSUME NEW c \in Contents, DeleteContent(c) PROVE FALSE
    BY <1>3, <1>6 DEF DeleteContent, Changes
  <1>7. ASSUME NEW c \in Contents, EditContent(c) PROVE FALSE
    <2> DEFINE e == Marked(c, TRUE, c \notin Streams)
    <2>1. e \in Entity(c) /\ e.exists = store[c].exists
      BY <1>t, MarkedEntity
    <2>2. store' = [store EXCEPT ![c] = e]
      BY <1>t, <1>7, EditedStore DEF EditContent, Changes
    <2> HIDE DEF e
    <2> QED
      BY <1>t, <2>1, <2>2, PutStore
  <1> QED
    BY <1>1, <1>2, <1>4, <1>5, <1>6, <1>7, StepKinds
       DEF Kinds, Outside, SkipContent, StartRun, FailsAlone, Answers, Looks, Misses, Request, vars

LEMMA MissingNext ==
    ASSUME ContentInv, [Next]_vars
    PROVE  MissingIsMissing'
  <1>t. TypeInv /\ StoreShape /\ MissingIsMissing /\ TypeInv'
    BY TypeNext DEF ContentInv
  <1> SUFFICES ASSUME at' # 0, ~Replaces', NEW d \in Contents, Looked(d)', seen'[d] = 0,
                      store'[d].exists
               PROVE  FALSE
    BY DEF MissingIsMissing
  <1>0. Step' \in StepNames /\ Len(Lists(Step')) \in 0..2
    <2>1. at' \in 1..Len(Steps) /\ Step' = Steps[at']
      BY <1>t, StepsCount DEF TypeInv, ControlType, Step
    <2> QED
      BY <2>1, StepName, ListsFacts
  \* It was there before, or the run is just handling it.
  <1>1. ASSUME at # 0, ~Replaces, Looked(d), seen[d] = 0
        PROVE  HandlesOne(d) /\ Step # "dashboards"
    <2>1. ~store[d].exists
      BY <1>t, <1>1 DEF MissingIsMissing
    <2>2. CASE DashboardStep /\ d \in {"pack", "installation", "dashboard"}
      <3>1. Step = "dashboards" /\ stage = 1
        BY <1>1, <2>2
           DEF DashboardStep, FindPack, DeleteInstallations, DeletePack, UploadPack, InstallPack,
               Replaces
      <3>2. UNCHANGED store
        BY <2>2, <3>1
           DEF DashboardStep, FindPack, DeleteInstallations, DeletePack, UploadPack, InstallPack
      <3> QED
        BY <2>1, <3>2
    <2> QED
      BY <2>1, <2>2, Appears DEF HandlesOne, Acting
  <1>2. ASSUME at # 0, NEW C, seen' = Listed(C), d \in C, UNCHANGED store PROVE FALSE
    <2>1. IdOf(d) = 0
      BY <1>2, <1>t, ListedType
    <2> QED
      BY <1>2, <2>1, <1>t DEF IdOf, StoreShape
  <1>3. CASE StartRun
    <2>1. stage' = 0 /\ Step' \in {"authHeader", "grok"}
      BY <1>3, FirstStep DEF StartRun, Step
    <2> QED
      BY <1>0, <2>1 DEF Looked
  <1>4. CASE at # 0 /\ UNCHANGED <<at, stage, todo, seen, outcome, running>> /\ Step' = Step
    <2>1. HandlesOne(d)
      BY <1>1, <1>4 DEF Looked, Replaces
    <2>2. at = at' /\ d \in todo /\ todo' = todo
      BY <1>4, <2>1 DEF HandlesOne, Acting
    <2>3. Continue(d)
      BY <1>4, <2>1 DEF HandlesOne, Breaks, Fails
    <2> QED
      BY <1>t, <1>4, <2>2, <2>3, ContinuePasses, StepsCount
         DEF Passes, Moves, TypeInv, ControlType
  <1>5. CASE Answers
    <2> DEFINE C == Lists(Step)[stage + 1]
    <2>1. at # 0 /\ seen' = Listed(C) /\ UNCHANGED store /\ d \notin C
      BY <1>2, <1>5 DEF Answers
    <2>2. Step' = Step /\ stage' = stage + 1 /\ todo' = todo /\ stage < Len(Lists(Step))
      BY <1>5 DEF Answers, Stays, Step
    <2>3. seen[d] = 0
      BY <1>t, <2>1, ListedType
    <2>4. stage \in 0..5 /\ Step \in StepNames /\ Len(Lists(Step)) \in 0..2
      BY <1>t, <2>1, AtStep, ListsFacts
    <2>5. Looked(d)
      BY <2>1, <2>2, <2>4 DEF Looked
    <2>6. ~Replaces
      BY <2>2, <2>4, ListsFacts DEF Replaces
    <2> QED
      BY <1>t, <2>1, <2>3, <2>5, <2>6 DEF MissingIsMissing
  <1>6. ASSUME NEW c \in Accounts, Looks(c) PROVE FALSE
    <2>1. at # 0 /\ seen' = Listed({c}) /\ UNCHANGED store /\ d # c
      BY <1>2, <1>6 DEF Looks, Handles, Ready
    <2>2. Step' = Step /\ stage' = stage + 1 /\ todo' = todo /\ stage = Len(Lists(Step)) /\ Step = c
      BY <1>6 DEF Looks, Handles, Ready, Stays, Step
    <2>3. seen[d] = 0
      BY <1>t, <2>1, ListedType
    <2>4. stage \in 0..5 /\ Step \in StepNames
      BY <1>t, <2>1, AtStep
    <2>5. Looked(d)
      BY <2>1, <2>2, <2>4 DEF Looked
    <2>6. ~Replaces
      BY <2>2 DEF Replaces, Accounts, Roles, Users
    <2> QED
      BY <1>t, <2>1, <2>3, <2>5, <2>6 DEF MissingIsMissing
  <1>7. CASE DropsView /\ seen' = [seen EXCEPT !["customView"] = 0] /\ UNCHANGED stage /\ Stays
    <2>1. at # 0 /\ Step = "customViews" /\ store' = Without({"customView"})
      BY <1>7 DEF DropsView, Acting
    <2>2. d # "customView" /\ store[d].exists
      BY <1>t, <2>1, WithoutStore DEF TypeInv
    <2>3. seen[d] = 0
      BY <1>t, <1>7, <2>2 DEF TypeInv, ControlType
    <2>4. Step' = Step /\ todo' = todo /\ stage' = stage
      BY <1>7 DEF Stays, Step
    <2>5. Looked(d) /\ ~Replaces
      BY <2>1, <2>4 DEF Looked, Replaces
    <2> QED
      BY <1>t, <2>1, <2>2, <2>3, <2>5 DEF MissingIsMissing
  <1>8. CASE at # 0 /\ Step = "dashboards" /\ Step' = Step /\ stage' > 1
    BY <1>8 DEF Replaces
  <1>9. ASSUME at # 0, stage >= Len(Lists(Step)), NEW c \in todo, Passes(c) PROVE FALSE
    <2>1. Looked(d) /\ seen[d] = 0 /\ d # c /\ Step # "dashboards"
      BY <1>t, <1>9, LookedBefore
    <2>2. HandlesOne(d) /\ d \in todo
      BY <1>1, <1>9, <2>1 DEF Replaces, HandlesOne, Acting
    <2>3. Continue(d)
      BY <2>2 DEF HandlesOne, Breaks, Fails
    <2>4. Passes(d)
      BY <1>t, <1>9, <2>2, <2>3, ContinuePasses
    <2> QED
      BY <1>t, <1>9, <2>1, <2>2, <2>4, StepsCount DEF Passes, Moves, TypeInv, ControlType
  <1> QED
    BY <1>3, <1>4, <1>5, <1>6, <1>7, <1>8, <1>9, CourseNext DEF Course

LEMMA PackNext ==
    ASSUME ContentInv, [Next]_vars
    PROVE  PackStages'
  <1>t. TypeInv /\ StoreShape /\ PackStages /\ MissingIsMissing /\ IsStore(store)
    BY DEF ContentInv, TypeInv
  <1>s. {"pack", "installation", "dashboard"} \subseteq Contents
    BY Shipments
  <1> SUFFICES ASSUME at' # 0, Step' = "dashboards"
               PROVE  /\ stage' \in {4, 5} => ~store'["installation"].exists
                      /\ stage' = 4 => ~store'["pack"].exists
                      /\ stage' = 5 => store'["pack"].exists /\ ~store'["pack"].edited
    BY DEF PackStages
  <1>1. CASE stage' \notin {4, 5}
    BY <1>1
  <1>2. CASE DashboardStep
    <2>1. at # 0 /\ Step = "dashboards"
      BY <1>2 DEF DashboardStep, FindPack, DeleteInstallations, DeletePack, UploadPack, InstallPack
    <2>2. CASE Advance
      BY <1>1, <1>t, <2>1, <2>2, AdvanceMoves DEF Moves
    <2>3. CASE FindPack /\ Goes(4)
      <3>1. seen["pack"] = 0 /\ stage = 1 /\ UNCHANGED store
        <4>1. stage' = 4 /\ stage = 1 /\ UNCHANGED store
          BY <2>3 DEF FindPack, Goes
        <4>2. ~Advance /\ ~Fails /\ stage' # 2
          BY <4>1 DEF Advance, Fails
        <4> QED
          BY <2>3, <4>1, <4>2 DEF FindPack
      <3>2. Looked("pack") /\ ~Replaces
        <4>1. /\ Len(Lists(Step)) = 1 /\ Lists(Step)[1] = {"pack"} /\ Titles(Step) = {"pack"}
              /\ todo = {"pack"}
          BY <1>t, <2>1, AtStep, ListsFacts DEF Titles
        <4> QED
          BY <3>1, <4>1 DEF Looked, Replaces
      <3>3. ~store["pack"].exists
        BY <1>t, <1>s, <2>1, <3>1, <3>2 DEF MissingIsMissing
      <3> QED
        BY <1>t, <2>3, <3>1, <3>3 DEF StoreShape, Goes
    <2>4. CASE DeletePack /\ Goes(4) /\ store' = Without({"pack"})
      <3>1. ~store["installation"].exists
        BY <2>4 DEF DeletePack, Fails, Goes, Stays
      <3>2. ~store'["pack"].exists /\ store'["installation"] = store["installation"]
        BY <1>t, <1>s, <2>4, WithoutStore
      <3> QED
        BY <2>4, <3>1, <3>2 DEF Goes
    <2>5. CASE UploadPack /\ Goes(5) /\ store' = [store EXCEPT !["pack"] = Created("pack")]
      <3>1. Created("pack") \in Entity("pack") /\ Created("pack").exists /\ ~Created("pack").edited
        BY <1>t, <1>s, CreatedEntity DEF TypeInv, ControlType
      <3>2. /\ store'["pack"].exists /\ ~store'["pack"].edited
            /\ store'["installation"] = store["installation"]
        BY <1>t, <1>s, <2>5, <3>1, PutStore
      <3>3. ~store["installation"].exists
        BY <1>t, <2>5 DEF UploadPack, PackStages
      <3> QED
        BY <2>5, <3>2, <3>3 DEF Goes
    <2>6. /\ ~Fails
          /\ Goes(3) => stage' \notin {4, 5}
          /\ stage' = 2 => stage' \notin {4, 5}
      BY DEF Goes, Fails
    <2>7. CASE FindPack
      BY <1>1, <2>2, <2>3, <2>6, <2>7 DEF FindPack
    <2>8. CASE DeleteInstallations
      BY <1>1, <2>6, <2>8 DEF DeleteInstallations, Send
    <2>9. CASE DeletePack
      BY <2>4, <2>6, <2>9 DEF DeletePack, Send
    <2>10. CASE UploadPack
      BY <2>5, <2>6, <2>10 DEF UploadPack, Send
    <2>11. CASE InstallPack
      BY <2>2, <2>6, <2>11 DEF InstallPack, Send
    <2> QED
      BY <1>2, <2>7, <2>8, <2>9, <2>10, <2>11 DEF DashboardStep
  <1>3. CASE Outside
    <2>1. UNCHANGED <<at, stage>> /\ Step' = Step
      BY <1>3 DEF Outside, Request, DeleteContent, EditContent, Changes, PersonUnchanged, control,
                  Step
    <2>2. ASSUME NEW d \in {"pack", "installation"}
          PROVE  store'[d] = store[d]
      <3>1. ASSUME NEW c \in Contents, DeleteContent(c) PROVE store'[d] = store[d]
        <4>1. store' = Without(Deleted(c)) /\ d \notin Deleted(c)
          BY <3>1 DEF DeleteContent, Changes, Deleted, Deletable
        <4> QED
          BY <1>t, <1>s, <4>1, WithoutStore
      <3>2. ASSUME NEW c \in Contents, EditContent(c) PROVE store'[d] = store[d]
        <4>1. store' = [store EXCEPT ![c] = Marked(c, TRUE, c \notin Streams)] /\ c # d
          BY <1>t, <3>2, EditedStore DEF EditContent, Changes
        <4>2. Marked(c, TRUE, c \notin Streams) \in Entity(c)
          BY <1>t, MarkedEntity
        <4> QED
          BY <1>t, <1>s, <4>1, <4>2, PutStore
      <3> QED
        BY <1>3, <3>1, <3>2 DEF Outside, Request
    <2> QED
      BY <1>t, <2>1, <2>2 DEF PackStages
  <1>4. CASE UNCHANGED vars
    BY <1>t, <1>4 DEF vars, control, PackStages, Step
  <1>5. CASE Answers
    <2>1. at # 0 /\ Step = "dashboards" /\ stage' = stage + 1 /\ stage < Len(Lists(Step))
      BY <1>5 DEF Answers, Stays, Step
    <2>2. stage \in 0..5 /\ Step \in StepNames
      BY <1>t, <2>1, AtStep
    <2>3. Len(Lists(Step)) = 1
      BY <2>1, <2>2, ListsFacts
    <2>4. stage < Len(Lists(Step)) /\ stage' = stage + 1
      BY <2>1
    <2>5. stage' = 1
      BY <2>2, <2>3, <2>4
    <2> QED
      BY <1>1, <2>5
  <1>6. ASSUME NEW c \in Accounts, Looks(c) PROVE FALSE
    BY <1>6 DEF Looks, Handles, Stays, Step, Accounts, Roles, Users
  <1>7. CASE SkipContent \/ FailsAlone \/ StartRun
    BY <1>7, <1>1 DEF SkipContent, FailsAlone, Fails, StartRun
  <1>8. CASE DropsView
    BY <1>8 DEF DropsView, Breaks, Fails, Stays, Step
  <1>9. ASSUME NEW c \in todo, at # 0, Step # "dashboards", Continue(c)
        PROVE  stage' \notin {4, 5}
    BY <1>t, <1>9, ContinuePasses DEF Passes, Moves
  <1>10. ASSUME NEW c \in Contents, HandlesOne(c) PROVE stage' \notin {4, 5}
    BY <1>9, <1>10 DEF HandlesOne, Acting, Breaks, Fails
  <1>11. CASE DropsExtractor
    BY <1>1, <1>9, <1>11 DEF DropsExtractor, Acting, Breaks, Fails
  <1>12. ASSUME NEW c \in Accounts, Misses(c) PROVE stage' \notin {4, 5}
    BY <1>9, <1>12 DEF Misses, Handles, Ready, Accounts, Roles, Users
  <1> QED
    BY <1>1, <1>2, <1>3, <1>4, <1>5, <1>6, <1>7, <1>8, <1>10, <1>11, <1>12, StepKinds DEF Kinds

LEMMA RoleNext ==
    ASSUME ContentInv, [Next]_vars
    PROVE  RoleIsChecked'
  <1>t. TypeInv /\ RoleIsChecked
    BY DEF ContentInv
  <1> SUFFICES ASSUME at' # 0, Step' \in Roles, stage' >= Len(Lists(Step')),
                      NEW d \in RefsOf(Step')
               PROVE  seen'[d] # 0
    BY DEF RoleIsChecked
  <1>0. Len(Lists(Step')) >= 1 /\ Step' \notin {"dashboards", "customViews"} /\ d \in Contents
    BY RefsInContents DEF Roles, Lists
  <1>1. CASE StartRun
    BY <1>1, FirstStep DEF StartRun, Step, Roles
  <1>2. CASE at # 0 /\ UNCHANGED <<at, stage, todo, seen, outcome, running>> /\ Step' = Step
    BY <1>t, <1>2 DEF RoleIsChecked
  <1>3. CASE Answers
    <2>1. at # 0 /\ Step' = Step /\ stage' = stage + 1 /\ stage < Len(Lists(Step))
      BY <1>3 DEF Answers, Stays, Step
    <2>2. stage \in 0..5 /\ Step \in StepNames
      BY <1>t, <2>1, AtStep
    <2>3. stage + 1 = Len(Lists(Step))
      BY <2>1, <2>2, ListsFacts
    <2> QED
      BY <1>3, <2>1, <2>3 DEF Answers
  <1>4. ASSUME NEW c \in Accounts, Looks(c) PROVE seen'[d] # 0
    <2>1. at # 0 /\ Step' = Step /\ stage = Len(Lists(Step)) /\ Step = c /\ seen' = Listed({c})
      BY <1>4 DEF Looks, Handles, Ready, Stays, Step
    <2>2. stage \in 0..5
      BY <1>t, <2>1, AtStep
    <2>3. seen[d] # 0
      BY <1>t, <2>1, <2>2 DEF RoleIsChecked
    <2>4. d # c
      BY <2>1 DEF RefsOf, Roles
    <2> QED
      BY <1>0, <1>t, <2>1, <2>3, <2>4, ListedType
  <1>5. CASE DropsView /\ Stays
    BY <1>0, <1>5 DEF DropsView, Stays, Step
  <1>6. ASSUME NEW c \in todo, at # 0, Passes(c) PROVE seen'[d] # 0
    <2>1. CASE Moves
      BY <1>0, <2>1 DEF Moves
    <2>2. CASE Step' = Step /\ UNCHANGED <<at, stage, seen>>
      BY <1>t, <1>6, <2>2 DEF RoleIsChecked
    <2> QED
      BY <1>6, <2>1, <2>2 DEF Passes
  <1> QED
    BY <1>0, <1>1, <1>2, <1>3, <1>4, <1>5, <1>6, CourseNext DEF Course

LEMMA SearchStays ==
    ASSUME ContentInv, [Next]_vars, store["search"].exists
    PROVE  store'["search"].exists
  <1>t. TypeInv /\ IsStore(store) /\ "search" \in Contents
    BY Shipments DEF ContentInv, TypeInv
  <1>1. CASE UNCHANGED store
    BY <1>1
  <1>2. ASSUME NEW c \in Contents, HandlesOne(c) PROVE store'["search"].exists
    BY <1>t, <1>2, HandlesOneStore
  <1>3. ASSUME NEW C, store' = Without(C), "search" \notin C PROVE store'["search"].exists
    BY <1>t, <1>3, WithoutStore
  <1>4. CASE DropsExtractor \/ DropsView
    BY <1>3, <1>4 DEF DropsExtractor, DropsView
  <1>5. CASE DashboardStep
    <2>1. CASE store' = [store EXCEPT !["pack"] = Created("pack")]
      <3>1. Created("pack") \in Entity("pack") /\ "pack" \in Contents
        BY <1>t, Shipments, CreatedEntity DEF TypeInv, ControlType
      <3> QED
        BY <1>t, <2>1, <3>1, PutStore
    <2>2. CASE store' = [store EXCEPT !["installation"] = Created("installation"),
                                      !["dashboard"] = Created("dashboard")]
      BY <1>t, <2>2, PackEntities
    <2> QED
      BY <1>1, <1>3, <1>5, <2>1, <2>2
         DEF DashboardStep, FindPack, DeleteInstallations, DeletePack, UploadPack, InstallPack, Send
  <1>6. ASSUME NEW c \in Contents, DeleteContent(c) PROVE store'["search"].exists
    <2>1. store' = Without(Deleted(c)) /\ "search" \notin Deleted(c)
      BY <1>6 DEF DeleteContent, Changes, Deleted, Deletable
    <2> QED
      BY <1>3, <2>1
  <1>7. ASSUME NEW c \in Contents, EditContent(c) PROVE store'["search"].exists
    <2>1. store' = [store EXCEPT ![c] = Marked(c, TRUE, c \notin Streams)] /\ c # "search"
      BY <1>t, <1>7, EditedStore DEF EditContent, Changes
    <2>2. Marked(c, TRUE, c \notin Streams) \in Entity(c)
      BY <1>t, MarkedEntity
    <2> QED
      BY <1>t, <2>1, <2>2, PutStore
  <1> QED
    BY <1>1, <1>2, <1>4, <1>5, <1>6, <1>7, StepKinds
       DEF Kinds, Outside, SkipContent, StartRun, FailsAlone, Answers, Looks, Misses, Request, vars

\* A run that has handled the search leaves one.
LEMMA SearchIsMade ==
    ASSUME ContentInv, NEW c \in Contents, HandlesOne(c), Step = "searches", at' # 0
    PROVE  store'["search"].exists
  <1>t. TypeInv /\ IsStore(store) /\ seen \in [Contents -> Nat] /\ Acting(c)
    BY DEF ContentInv, TypeInv, ControlType, HandlesOne
  <1>1. c = "search" /\ Step # "resume" /\ Step \notin Asking
    BY <1>t, ActingTitle DEF Asking, Accounts, Roles, Users
  <1>2. CASE Keeps(c) /\ UNCHANGED store
    BY <1>1, <1>2 DEF Keeps
  <1>3. ASSUME NEW e, Makes(c, e), store' = [store EXCEPT ![c] = e]
        PROVE  store'["search"].exists
    <2>1. store'["search"] = e
      BY <1>t, <1>1, <1>3, MakesEntity, PutStore
    <2>2. e.exists
      BY <1>t, <1>1, <1>3, CreatedEntity, UpdatedEntity DEF Makes
    <2> QED
      BY <2>1, <2>2
  <1> QED
    BY <1>2, <1>3 DEF HandlesOne

LEMMA SearchNext ==
    ASSUME ContentInv, [Next]_vars
    PROVE  SearchFirst'
  <1>t. TypeInv /\ SearchFirst
    BY DEF ContentInv
  <1>v. "view" \in Contents /\ "search" \in Contents
    BY Shipments
  <1>1. ASSUME store'["view"].exists PROVE store'["search"].exists
    <2>1. CASE store["view"].exists
      BY <1>t, <2>1, SearchStays DEF SearchFirst
    <2>2. CASE ~store["view"].exists
      <3>1. HandlesOne("view")
        BY <1>1, <1>v, <2>2, Appears
      <3>2. at # 0 /\ Step = "views"
        BY <1>t, <3>1, ActingTitle DEF HandlesOne, Acting
      <3> QED
        BY <1>t, <3>2, SearchStays DEF SearchFirst
    <2> QED
      BY <2>1, <2>2
  <1>2. ASSUME seen'["view"] # 0 PROVE store'["search"].exists
    <2>1. CASE seen["view"] # 0
      BY <1>t, <2>1, SearchStays DEF SearchFirst
    <2>2. ASSUME NEW C, seen' = Listed(C) PROVE store'["search"].exists
      <3>1. seen["view"] # 0 \/ IdOf("view") # 0
        BY <1>t, <1>v, <1>2, <2>2, ListedType
      <3>2. seen["view"] # 0 \/ store["view"].exists
        BY <3>1 DEF IdOf
      <3> QED
        BY <1>t, <3>2, SearchStays DEF SearchFirst
    <2>3. CASE seen' = NoIds
      BY <1>2, <1>v, <2>3 DEF NoIds
    <2>4. CASE seen' = [seen EXCEPT !["customView"] = 0]
      BY <1>t, <1>2, <1>v, <2>1, <2>4 DEF TypeInv, ControlType
    <2>5. CASE seen' = seen
      BY <1>2, <2>1, <2>5
    <2>6. CASE at' = 0
      BY <2>3, <2>6, TypeNext DEF TypeInv, ControlType
    <2>7. ASSUME NEW c \in todo, Passes(c) PROVE seen' = NoIds \/ seen' = seen
      BY <2>7 DEF Passes, Moves
    <2> QED
      BY <2>2, <2>3, <2>4, <2>5, <2>6, <2>7, CourseNext DEF Course, StartRun, Answers, Looks
  <1>3. ASSUME at' # 0, Step' = "views" PROVE store'["search"].exists
    <2>1. CASE at # 0 /\ Step = "views"
      BY <1>t, <2>1, SearchStays DEF SearchFirst
    <2>2. CASE at # 0 /\ Step = "searches" /\ \E c \in todo : Passes(c)
      <3>1. todo = {"search"}
        BY <1>t, <2>2, AtStep DEF Titles
      <3>2. CASE \E c \in Contents : HandlesOne(c)
        BY <1>3, <2>2, <3>2, SearchIsMade
      <3>3. CASE Outside \/ UNCHANGED vars
        BY <1>3, <2>2, <3>3
           DEF Outside, Request, DeleteContent, EditContent, Changes, PersonUnchanged, vars, control,
               Step
      <3>4. ~SkipContent /\ ~StartRun /\ ~FailsAlone /\ ~DropsExtractor /\ ~DropsView
        BY <1>3, <2>2 DEF SkipContent, StartRun, FailsAlone, Fails, DropsExtractor, DropsView
      <3>5. ~DashboardStep
        BY <2>2 DEF DashboardStep, FindPack, DeleteInstallations, DeletePack, UploadPack, InstallPack
      <3>6. ~Answers /\ \A c \in Accounts : ~Looks(c) /\ ~Misses(c)
        BY <1>3, <2>2 DEF Answers, Looks, Misses, Handles, Stays, Step, Accounts, Roles, Users
      <3> QED
        BY <3>2, <3>3, <3>4, <3>5, <3>6, StepKinds DEF Kinds
    <2>3. ASSUME at # 0, NEW c \in todo, Passes(c)
          PROVE  Step = "views" \/ Step = "searches"
      BY <1>3, <2>3 DEF Passes, Moves
    <2>4. CASE StartRun
      BY <1>3, <2>4, FirstStep DEF StartRun, Step
    <2>5. CASE at # 0 /\ Step' = Step
      BY <1>3, <2>1, <2>5
    <2> QED
      BY <1>3, <2>2, <2>1, <2>3, <2>4, <2>5, CourseNext
         DEF Course, Answers, Looks, DropsView, Handles, Ready, Acting, Stays, Step
  <1> QED
    BY <1>1, <1>2, <1>3 DEF SearchFirst
-----------------------------------------------------------------------------
(***************************************************************************)
(* What is true of every state.                                            *)
(***************************************************************************)
LEMMA InitStore ==
    ASSUME Init
    PROVE  /\ IsStore(store)
           /\ \A c \in Contents : /\ store[c].exists => store[c].id = 1
                                  /\ c \notin Streams => store[c].on
                                  /\ store[c].exists =>
                                       c \in Settings \cup {"input", "os_extractor"}
  <1>1. PICK legacy \in BOOLEAN :
          store = [c \in Contents |->
                     [exists  |-> c \in Settings \/ (legacy /\ c \in {"input", "os_extractor"}),
                      id      |-> IF c \in Settings \/ (legacy /\ c \in {"input", "os_extractor"})
                                  THEN 1 ELSE 0,
                      edited  |-> FALSE,
                      on      |-> c \notin Streams,
                      refs    |-> [d \in RefsOf(c) |-> 0]]]
    BY DEF Init
  <1> DEFINE there(c) == c \in Settings \/ (legacy /\ c \in {"input", "os_extractor"})
             e(c) == [exists |-> there(c), id |-> IF there(c) THEN 1 ELSE 0, edited |-> FALSE,
                      on |-> c \notin Streams, refs |-> [d \in RefsOf(c) |-> 0]]
  <1>2. store = [c \in Contents |-> e(c)]
    BY <1>1
  <1>3. ASSUME NEW c \in Contents
        PROVE  /\ e(c) \in Entity(c)
               /\ e(c).exists => e(c).id = 1 /\ c \in Settings \cup {"input", "os_extractor"}
               /\ c \notin Streams => e(c).on
    <2> DEFINE t == there(c)
               r == [d \in RefsOf(c) |-> 0]
    <2>1. t \in BOOLEAN /\ (c \notin Streams) \in BOOLEAN /\ r \in [RefsOf(c) -> Nat]
      OBVIOUS
    <2>2. t => c \in Settings \cup {"input", "os_extractor"}
      OBVIOUS
    <2> HIDE DEF t, r
    <2>3. e(c) = [exists |-> t, id |-> IF t THEN 1 ELSE 0, edited |-> FALSE,
                  on |-> c \notin Streams, refs |-> r]
      BY DEF t, r
    <2> HIDE DEF e
    <2>4. /\ e(c).exists = t /\ e(c).id = IF t THEN 1 ELSE 0
          /\ e(c).on = (c \notin Streams)
      BY <2>3
    <2>5. CASE t
      <3>1. e(c) = [exists |-> TRUE, id |-> 1, edited |-> FALSE, on |-> c \notin Streams,
                    refs |-> r]
        BY <2>3, <2>5
      <3>2. e(c) \in Entity(c)
        BY <2>1, <3>1 DEF Entity
      <3> QED
        BY <2>2, <2>4, <2>5, <3>2
    <2>6. CASE ~t
      <3>1. e(c) = [exists |-> FALSE, id |-> 0, edited |-> FALSE, on |-> c \notin Streams,
                    refs |-> r]
        BY <2>1, <2>3, <2>6
      <3>2. e(c) \in Entity(c)
        BY <2>1, <3>1 DEF Entity
      <3> QED
        BY <2>4, <2>6, <3>2
    <2> QED
      BY <2>5, <2>6
  <1> HIDE DEF e
  <1>4. \A c \in Contents : store[c] = e(c)
    BY <1>2
  <1>5. store = [c \in Contents |-> store[c]]
    BY <1>2, <1>4
  <1> QED
    BY <1>3, <1>4, <1>5 DEF IsStore

LEMMA RunInit ==
    ASSUME Init
    PROVE  RunInv
  <1>1. /\ policy \in Policies /\ due = TRUE /\ at = 0 /\ stage = 0 /\ todo = {}
        /\ seen = NoIds /\ running = policy /\ outcome = "none" /\ disturbed = FALSE
        /\ skipped = {} /\ edits = 0 /\ requests = 0 /\ faults = 0
    BY DEF Init
  <1>2. disturbed \in BOOLEAN /\ skipped \subseteq Accounts
    BY <1>1
  <1>3. edits \in 0..MaxEdits /\ requests \in 0..MaxRequests /\ faults \in 0..MaxFaults
    BY <1>1, ContentAssumption
  <1>4. HistoryType
    BY <1>1, <1>2, <1>3 DEF HistoryType
  <1>5. at \in 0..Len(Steps) /\ stage \in 0..5 /\ seen \in [Contents -> Nat]
    BY <1>1, NoIdsType, StepsCount
  <1>6. due \in BOOLEAN /\ running \in Policies /\ outcome \in {"none", "success", "failed"}
    BY <1>1
  <1>7. ControlType
    BY <1>1, <1>5, <1>6 DEF ControlType
  <1>8. ASSUME NEW c \in {"pack", "installation", "dashboard", "view"} PROVE ~store[c].exists
    <2>1. c \in Contents /\ c \notin Settings \cup {"input", "os_extractor"}
      BY Shipments DEF Settings
    <2> QED
      BY <2>1, InitStore
  <1>9. StoreShape
    BY <1>8, InitStore DEF StoreShape
  <1>10. SearchFirst
    <2>1. seen["view"] = 0
      BY <1>1, Shipments DEF NoIds
    <2> QED
      BY <1>1, <1>8, <2>1 DEF SearchFirst
  <1>11. PackStages /\ MissingIsMissing /\ RoleIsChecked /\ SeenIsCurrent /\ Progress
    BY <1>1 DEF PackStages, MissingIsMissing, RoleIsChecked, SeenIsCurrent, Progress, Over
  <1> QED
    BY <1>4, <1>7, <1>9, <1>10, <1>11, InitStore DEF RunInv, ContentInv, TypeInv

LEMMA ContentNext ==
    ASSUME ContentInv, [Next]_vars
    PROVE  ContentInv'
  BY TypeNext, ShapeNext, PackNext, SearchNext, MissingNext, RoleNext DEF ContentInv

LEMMA ContentAlways == Spec => []ContentInv
  <1>1. Init => ContentInv
    BY RunInit DEF RunInv
  <1>2. ContentInv /\ [Next]_vars => ContentInv'
    BY ContentNext
  <1> QED
    BY <1>1, <1>2, PTL DEF Spec

\* Type correctness: Graylog holds entities, and configureGraylog is between two of its
\* calls, with a stage of the call, the entities it still has to handle and the ids it
\* has seen.
THEOREM ContentType == Spec => []TypeOK
  <1>1. ContentInv => TypeOK
    <2> SUFFICES ASSUME ContentInv PROVE TypeOK
      OBVIOUS
    <2>1. TypeInv
      BY DEF ContentInv
    <2>2. todo \subseteq Contents
      BY <2>1, AtStep DEF TypeInv, ControlType
    <2>3. \A c \in Contents :
             /\ store[c].exists \in BOOLEAN /\ store[c].id \in Nat
             /\ store[c].edited \in BOOLEAN /\ store[c].on \in BOOLEAN
             /\ store[c].refs \in [RefsOf(c) -> Nat]
      BY <2>1, StoreFields DEF TypeInv
    <2> QED
      BY <2>1, <2>2, <2>3 DEF TypeOK, TypeInv, ControlType, HistoryType
  <1> QED
    BY <1>1, ContentAlways, PTL
-----------------------------------------------------------------------------
(***************************************************************************)
(* What people changed.                                                    *)
(***************************************************************************)
LEMMA EditsKept ==
    ASSUME ContentInv, [Next]_vars, NEW c \in Contents \ AlwaysWritten,
           store[c].exists, store[c].edited, store'[c].exists, ~store'[c].edited
    PROVE  ForceUpdate
  <1>t. /\ TypeInv /\ StoreShape /\ PackStages /\ IsStore(store)
        /\ seen \in [Contents -> Nat] /\ c \in Contents
    BY DEF ContentInv, TypeInv, ControlType
  <1>1. CASE UNCHANGED store
    BY <1>1
  <1>2. ASSUME NEW d \in Contents, HandlesOne(d) PROVE ForceUpdate
    <2>1. d = c
      BY <1>t, <1>2, HandlesOneStore
    <2>2. PICK e : Makes(c, e) /\ store' = [store EXCEPT ![c] = e]
      BY <1>1, <1>2, <2>1 DEF HandlesOne
    <2>3. store'[c] = e
      BY <1>t, <2>2, MakesEntity, PutStore
    <2>4. CASE e = Marked(c, store[c].edited, TRUE)
      <3>1. store[c].edited \in BOOLEAN
        BY <1>t, StoreFields
      <3>2. Marked(c, store[c].edited, TRUE).edited = store[c].edited
        BY <1>t, <3>1, MarkedEntity
      <3> QED
        BY <2>3, <2>4, <3>2
    <2> QED
      BY <2>2, <2>4 DEF Makes
  <1>3. ASSUME NEW C, store' = Without(C) PROVE FALSE
    BY <1>t, <1>3, WithoutStore
  <1>4. CASE DropsExtractor \/ DropsView
    BY <1>3, <1>4 DEF DropsExtractor, DropsView
  <1>5. CASE DashboardStep
    <2>1. CASE UploadPack /\ store' = [store EXCEPT !["pack"] = Created("pack")]
      <3>1. Created("pack") \in Entity("pack") /\ "pack" \in Contents
        BY <1>t, Shipments, CreatedEntity
      <3>2. c = "pack"
        BY <1>t, <2>1, <3>1, PutStore
      <3> QED
        BY <1>t, <2>1, <3>2 DEF UploadPack, PackStages
    <2>2. CASE InstallPack /\ store' = [store EXCEPT !["installation"] = Created("installation"),
                                                      !["dashboard"] = Created("dashboard")]
      <3>1. c \in {"installation", "dashboard"}
        BY <1>t, <2>2, PackEntities
      <3> QED
        BY <1>t, <2>2, <3>1 DEF InstallPack, PackStages, StoreShape
    <2> QED
      BY <1>1, <1>3, <1>5, <2>1, <2>2
         DEF DashboardStep, FindPack, DeleteInstallations, DeletePack, UploadPack, InstallPack, Send
  <1>6. ASSUME NEW d \in Contents, DeleteContent(d) PROVE FALSE
    BY <1>3, <1>6 DEF DeleteContent, Changes
  <1>7. ASSUME NEW d \in Contents, EditContent(d) PROVE FALSE
    <2> DEFINE e == Marked(d, TRUE, d \notin Streams)
    <2>1. e \in Entity(d) /\ e.edited = TRUE
      BY <1>t, MarkedEntity
    <2>2. store' = [store EXCEPT ![d] = e]
      BY <1>t, <1>7, EditedStore DEF EditContent, Changes
    <2> HIDE DEF e
    <2>3. store'[d] = e /\ \A x \in Contents : x # d => store'[x] = store[x]
      BY <1>t, <2>1, <2>2, PutStore
    <2> QED
      BY <1>t, <2>1, <2>3
  <1> QED
    BY <1>1, <1>2, <1>4, <1>5, <1>6, <1>7, StepKinds
       DEF Kinds, Outside, SkipContent, StartRun, FailsAlone, Answers, Looks, Misses, Request, vars

\* With only-create no request of configureGraylog overwrites what somebody changed in
\* Graylog, whatever was deleted, listed or created in between (but for the settings
\* that it always writes): the only requests that put an entity as shipped in the
\* place of one that exists are the updates of force-update.
THEOREM OnlyCreateIsKind == Spec => OnlyCreateKeepsEdits
  <1>1. ContentInv /\ [Next]_vars =>
          [\A c \in Contents \ AlwaysWritten :
              store[c].exists /\ store[c].edited /\ store'[c].exists /\ ~store'[c].edited
                 => ForceUpdate]_vars
    BY EditsKept
  <1> QED
    BY <1>1, ContentAlways, PTL DEF Spec, OnlyCreateKeepsEdits
-----------------------------------------------------------------------------
(***************************************************************************)
(* What a run has seen.                                                    *)
(***************************************************************************)

\* While nobody else changes Graylog, an entity keeps its id, unless the run removes it.
LEMMA Lasts ==
    ASSUME ContentInv, [Next]_vars, ~disturbed', at # 0, ~Replaces,
           NEW d \in Contents, store[d].exists
    PROVE  \/ store'[d].exists /\ store'[d].id = store[d].id
           \/ DropsExtractor /\ d = "os_extractor"
           \/ DropsView /\ d = "customView"
  <1>t. TypeInv /\ IsStore(store) /\ seen \in [Contents -> Nat]
    BY DEF ContentInv, TypeInv, ControlType
  <1>1. CASE UNCHANGED store
    BY <1>1
  <1>2. ASSUME NEW c \in Contents, HandlesOne(c)
        PROVE  store'[d].exists /\ store'[d].id = store[d].id
    <2>1. CASE c # d
      BY <1>t, <1>2, <2>1, HandlesOneStore
    <2>2. CASE c = d /\ ~UNCHANGED store
      <3>1. PICK e : Makes(c, e) /\ store' = [store EXCEPT ![c] = e]
        BY <1>2, <2>2 DEF HandlesOne
      <3>2. store'[c] = e
        BY <1>t, <3>1, MakesEntity, PutStore
      <3>3. ASSUME e = Updated(c) PROVE e.exists = store[c].exists /\ e.id = store[c].id
        BY <1>t, <3>3, UpdatedEntity
      <3>4. ASSUME e = Marked(c, store[c].edited, TRUE)
            PROVE  e.exists = store[c].exists /\ e.id = store[c].id
        <4>1. store[c].edited \in BOOLEAN
          BY <1>t, StoreFields
        <4> QED
          BY <1>t, <3>4, <4>1, MarkedEntity
      <3>5. e.exists = store[c].exists /\ e.id = store[c].id
        BY <2>2, <3>1, <3>3, <3>4 DEF Makes
      <3> QED
        BY <2>2, <3>2, <3>5
    <2> QED
      BY <1>1, <2>1, <2>2
  <1>3. CASE DropsExtractor \/ DropsView
    BY <1>t, <1>3, WithoutStore DEF DropsExtractor, DropsView
  <1>4. CASE DashboardStep
    BY <1>1, <1>4
       DEF DashboardStep, FindPack, DeleteInstallations, DeletePack, UploadPack, InstallPack,
           Replaces
  <1>5. ASSUME NEW c \in Contents, DeleteContent(c) \/ EditContent(c) PROVE FALSE
    BY <1>5 DEF DeleteContent, EditContent, Changes
  <1> QED
    BY <1>1, <1>2, <1>3, <1>4, <1>5, StepKinds
       DEF Kinds, Outside, SkipContent, StartRun, FailsAlone, Answers, Looks, Misses, Request, vars

\* Nobody disturbed the run before.
LEMMA CalmBefore ==
    ASSUME ContentInv, [Next]_vars, ~disturbed', at # 0
    PROVE  ~disturbed
  <1>1. CASE UNCHANGED disturbed
    BY <1>1
  <1>2. CASE Kinds
    BY <1>1, <1>2
       DEF Kinds, SkipContent, StartRun, FailsAlone, Answers, HandlesOne, DropsExtractor,
           DropsView, Looks, Misses, DashboardStep, FindPack, DeleteInstallations, DeletePack,
           UploadPack, InstallPack, others
  <1>3. CASE Outside
    BY <1>1, <1>3 DEF Outside, DeleteContent, EditContent, Changes, Request
  <1> QED
    BY <1>1, <1>2, <1>3, StepKinds DEF vars, others

LEMMA SeenNext ==
    ASSUME ContentInv, SeenIsCurrent, [Next]_vars
    PROVE  SeenIsCurrent'
  <1> SUFFICES ASSUME ~disturbed', at' # 0, ~Replaces', NEW d \in Contents, seen'[d] # 0
               PROVE  store'[d].exists /\ store'[d].id = seen'[d]
    BY DEF SeenIsCurrent, Current
  <1>t. TypeInv /\ TypeInv' /\ IsStore(store) /\ seen \in [Contents -> Nat]
    BY TypeNext DEF ContentInv, TypeInv, ControlType
  <1>1. ASSUME at # 0, ~Replaces, seen[d] # 0
        PROVE  store[d].exists /\ store[d].id = seen[d]
    BY <1>1, CalmBefore DEF SeenIsCurrent, Current
  <1>2. ASSUME at # 0, NEW C, seen' = Listed(C), UNCHANGED store, ~Replaces
        PROVE  store'[d].exists /\ store'[d].id = seen'[d]
    <2>1. seen'[d] = IF d \in C THEN IdOf(d) ELSE seen[d]
      BY <1>t, <1>2, ListedType
    <2>2. CASE d \in C
      BY <1>2, <2>1, <2>2 DEF IdOf
    <2>3. CASE d \notin C
      BY <1>1, <1>2, <2>1, <2>3
    <2> QED
      BY <2>2, <2>3
  <1>3. CASE StartRun
    BY <1>3 DEF StartRun, NoIds
  <1>4. ASSUME at # 0, ~Replaces, seen' = seen, ~(DropsExtractor /\ d = "os_extractor")
        PROVE  store'[d].exists /\ store'[d].id = seen'[d]
    <2>1. ~(DropsView /\ d = "customView")
      <3>1. SUFFICES ASSUME DropsView, d = "customView" PROVE FALSE
        OBVIOUS
      <3>2. seen' = [seen EXCEPT !["customView"] = 0]
        BY <3>1 DEF DropsView, Breaks, Fails
      <3> QED
        BY <1>t, <3>1, <3>2
    <2>2. store[d].exists /\ store[d].id = seen[d]
      BY <1>1, <1>4
    <2> QED
      BY <1>4, <2>1, <2>2, Lasts
  <1>5. ASSUME DropsExtractor
        PROVE  at # 0 /\ Passes("os_extractor") /\ todo = {"os_extractor"} /\ Step = "extractors"
    <2>1. at # 0 /\ todo = {"os_extractor"} /\ Continue("os_extractor") /\ Step = "extractors"
      BY <1>5 DEF DropsExtractor, Acting, Breaks, Fails
    <2> QED
      BY <1>t, <2>1, ContinuePasses
  <1>6. ASSUME DropsExtractor PROVE seen'[d] = 0
    <2>1. todo' # {}
      BY <1>t DEF TypeInv, ControlType
    <2>2. Moves
      BY <1>5, <1>6, <2>1 DEF Passes
    <2>3. seen' = NoIds
      BY <1>5, <1>6, <2>2 DEF Moves
    <2> QED
      BY <2>3 DEF NoIds
  <1>7. CASE at # 0 /\ UNCHANGED <<at, stage, todo, seen, outcome, running>> /\ Step' = Step
    <2>1. ~Replaces
      BY <1>7 DEF Replaces
    <2> QED
      BY <1>4, <1>6, <1>7, <2>1
  <1>8. CASE Answers
    <2>1. at # 0 /\ stage < Len(Lists(Step)) /\ UNCHANGED store
      BY <1>8 DEF Answers
    <2>2. Step \in StepNames /\ stage \in 0..5
      BY <1>t, <2>1, AtStep
    <2>3. ~Replaces
      <3>1. SUFFICES ASSUME Step = "dashboards", stage > 1 PROVE FALSE
        BY DEF Replaces
      <3>2. Len(Lists(Step)) = 1
        BY <2>2, <3>1, ListsFacts
      <3>3. stage > 1 /\ stage < Len(Lists(Step))
        BY <2>1, <3>1
      <3> QED
        BY <2>2, <3>2, <3>3
    <2> QED
      BY <1>2, <1>8, <2>1, <2>3 DEF Answers
  <1>9. ASSUME NEW c \in Accounts, Looks(c)
        PROVE  store'[d].exists /\ store'[d].id = seen'[d]
    <2>1. at # 0 /\ ~Replaces /\ seen' = Listed({c}) /\ UNCHANGED store
      BY <1>9 DEF Looks, Handles, Ready, Replaces, Accounts, Roles, Users
    <2> QED
      BY <1>2, <2>1
  <1>10. CASE DropsView /\ seen' = [seen EXCEPT !["customView"] = 0] /\ UNCHANGED stage /\ Stays
    <2>1. at # 0 /\ ~Replaces /\ store' = Without({"customView"})
      BY <1>10 DEF DropsView, Acting, Replaces
    <2>2. d # "customView" /\ seen'[d] = seen[d]
      BY <1>t, <1>10
    <2>3. store'[d] = store[d]
      BY <1>t, <2>1, <2>2, WithoutStore
    <2> QED
      BY <1>1, <2>1, <2>2, <2>3
  <1>11. CASE at # 0 /\ Step = "dashboards" /\ Step' = Step /\ stage' > 1
    BY <1>11 DEF Replaces
  <1>12. ASSUME at # 0, NEW c \in todo, Passes(c)
         PROVE  store'[d].exists /\ store'[d].id = seen'[d]
    <2>1. CASE Moves
      <3>1. seen' = seen /\ Step' \in {"views", "auditViewerRole"}
        BY <2>1 DEF Moves, NoIds
      <3>2. Step \in {"searches", "operatorRole"}
        BY <2>1, <3>1 DEF Moves
      <3> QED
        BY <1>4, <1>6, <1>12, <3>1, <3>2 DEF Replaces
    <2>2. CASE Step' = Step /\ UNCHANGED <<at, stage, seen>>
      BY <1>4, <1>6, <1>12, <2>2 DEF Replaces
    <2> QED
      BY <1>12, <2>1, <2>2 DEF Passes
  <1> QED
    BY <1>3, <1>7, <1>8, <1>9, <1>10, <1>11, <1>12, CourseNext DEF Course
-----------------------------------------------------------------------------
(***************************************************************************)
(* What a run has handled.                                                 *)
(***************************************************************************)

\* What is said of c when it has been handled is about these.
Watched(c) ==
    {c} \cup RefsOf(c) \cup (IF c = "pack" THEN {"installation", "dashboard"} ELSE {})

\* The step leaves the entity x as it is, but for a stream that is resumed.
Rests(x) ==
    /\ store'[x].exists = store[x].exists /\ store'[x].id = store[x].id
    /\ store'[x].edited = store[x].edited /\ store'[x].refs = store[x].refs
    /\ store[x].on => store'[x].on

LEMMA WatchedHome ==
    ASSUME NEW c, NEW x \in Watched(c)
    PROVE  /\ Home(x) <= Home(c)
           /\ x # c => Home(x) < Home(c) \/ (c = "pack" /\ x \in {"installation", "dashboard"})
  <1>0. Home(c) \in 0..23 /\ Home(x) \in 0..23
    BY HomeRange
  <1>1. CASE x = c
    BY <1>0, <1>1
  <1>2. CASE x \in RefsOf(c)
    <2>1. Home(x) < Home(c)
      BY <1>2, RefsHome
    <2> QED
      BY <1>0, <2>1
  <1>3. CASE c = "pack" /\ x \in {"installation", "dashboard"}
    <2>1. Home(x) = 12 /\ Home(c) = 12
      BY <1>3 DEF Home, IndexSets, Streams, Rules
    <2> QED
      BY <1>3, <2>1
  <1> QED
    BY <1>1, <1>2, <1>3 DEF Watched

\* The steps before: what they have handled comes before what is handled now.
LEMMA HandledBefore ==
    ASSUME TypeInv, at # 0, NEW i \in 1..Len(Steps), NEW c \in Titles(Steps[i]), Over(i, c)
    PROVE  \/ i < at /\ Home(c) < Rank(Step)
           \/ i = at /\ c \notin todo /\ c \in Titles(Step)
  <1>1. at \in 1..Len(Steps) /\ Step = Steps[at] /\ Len(Steps) = Count /\ Count \in 19..23
    BY AtStep, StepsCount
  <1>2. i < at \/ (i = at /\ c \notin todo)
    BY DEF Over
  <1>3. CASE i < at
    <2>1. Rank(Steps[i]) < Rank(Step) /\ Steps[i] \in StepNames
      BY <1>1, <1>3, RanksGrow, StepName
    <2>2. Rank(Step) \in 0..23 /\ Rank(Steps[i]) \in 0..23
      BY RankNames
    <2>3. Home(c) = Rank(Steps[i]) \/ (Steps[i] = "resume" /\ Home(c) = 7)
      BY <2>1, TitlesHome
    <2>4. Steps[i] = "resume" => Rank(Steps[i]) = 8
      BY DEF Rank
    <2>5. Home(c) = Rank(Steps[i]) \/ (Home(c) = 7 /\ Rank(Steps[i]) = 8)
      BY <2>3, <2>4
    <2>6. Rank(Steps[i]) < Rank(Step)
      BY <2>1
    <2>7. Home(c) < Rank(Step)
      <3>1. Rank(Steps[i]) = 8 => 7 < Rank(Step)
        BY <2>2, <2>6, Below, Zenon
      <3> QED
        BY <2>5, <2>6, <3>1, Zenon
    <2> QED
      BY <1>3, <2>7
  <1> QED
    BY <1>1, <1>2, <1>3

LEMMA Apart ==
    ASSUME TypeInv, at # 0, NEW i \in 1..Len(Steps), NEW c \in Titles(Steps[i]), Over(i, c),
           NEW x \in todo, Step \notin {"resume", "dashboards"}
    PROVE  x \notin Watched(c)
  <1>1. Step \in StepNames /\ x \in Titles(Step) /\ Rank(Step) \in 0..23
    BY AtStep, RankNames
  <1>2. Home(x) = Rank(Step)
    BY <1>1, TitlesHome
  <1>3. CASE Home(c) < Rank(Step)
    <2>1. Home(c) \in 0..23 /\ Home(x) \in 0..23 /\ Home(c) < Home(x)
      BY <1>2, <1>3, HomeRange, Zenon
    <2>2. ~(Home(x) <= Home(c))
      BY <2>1, Below, Zenon
    <2> QED
      BY <2>2, WatchedHome, Zenon
  <1>4. CASE c \notin todo /\ c \in Titles(Step)
    <2>1. Home(c) = Rank(Step) /\ c # x
      BY <1>1, <1>4, TitlesHome
    <2>2. c # "pack"
      BY <1>1, <1>4 DEF StepNames, Required, Titles, IndexSets, Streams, Rules
    <2>3. ~(Home(x) < Home(c))
      BY <1>2, <2>1, HomeRange, Below, Zenon
    <2> QED
      BY <2>1, <2>2, <2>3, WatchedHome, Zenon
  <1> QED
    BY <1>3, <1>4, HandledBefore

LEMMA ApartPack ==
    ASSUME TypeInv, at # 0, NEW i \in 1..Len(Steps), NEW c \in Titles(Steps[i]), Over(i, c),
           Step = "dashboards", NEW x \in {"pack", "installation", "dashboard"}
    PROVE  x \notin Watched(c)
  <1>1. todo = {"pack"} /\ Titles(Step) = {"pack"}
    BY AtStep DEF Titles
  <1>2. Rank(Step) = 12 /\ Home(x) = 12
    BY DEF Rank, Home, IndexSets, Streams, Rules
  <1>3. Home(c) < 12
    BY <1>1, <1>2, HandledBefore
  <1>4. Home(c) < Home(x)
    BY <1>2, <1>3, Zenon
  <1>5. ~(Home(x) <= Home(c))
    BY <1>4, HomeRange, Below, Zenon
  <1> QED
    BY <1>5, WatchedHome, Zenon

\* What is left as it is stays as it should be.
LEMMA Frame ==
    ASSUME NEW i \in 1..Len(Steps), NEW c \in Titles(Steps[i]), Present(i, c), Repaired(i, c),
           running' = running, skipped \subseteq skipped', \A x \in Watched(c) : Rests(x)
    PROVE  Present(i, c)' /\ Repaired(i, c)'
  <1>1. Rests(c) /\ \A d \in RefsOf(c) : Rests(d)
    BY DEF Watched
  <1>2. ForceUpdate' <=> ForceUpdate
    BY DEF ForceUpdate
  <1>3. Present(i, c)'
    <2>1. c = "operatorRole" => "dashboard" \in RefsOf(c)
      BY DEF RefsOf
    <2>2. c = "operatorRole" => store'["dashboard"].exists
      BY <1>1, <2>1 DEF Rests, Present
    <2>3. ASSUME c \notin skipped', c = "grok" => ~ForceUpdate', c # "os_extractor"
          PROVE  store'[c].exists /\ (Steps[i] = "resume" => store'[c].on)
      <3>1. store[c].exists /\ (Steps[i] = "resume" => store[c].on)
        BY <1>2, <2>3 DEF Present
      <3> QED
        BY <1>1, <3>1 DEF Rests
    <2> QED
      BY <2>2, <2>3 DEF Present
  <1>4. \A d \in RefsOf(c) : IdOf(d)' = IdOf(d)
    BY <1>1 DEF Rests, IdOf
  <1>5. Repaired(i, c)'
    <2> SUFFICES ASSUME ForceUpdate', c \notin skipped', c # "os_extractor", Steps[i] # "resume"
                 PROVE  /\ store'[c].exists /\ c # "view" => ~store'[c].edited
                        /\ \A d \in RefsOf(c) : store'[c].refs[d] = IdOf(d)'
                        /\ c = "pack" => /\ ~store'["dashboard"].edited
                                         /\ ~store'["installation"].edited
      BY DEF Repaired
    <2>1. /\ store[c].exists /\ c # "view" => ~store[c].edited
          /\ \A d \in RefsOf(c) : store[c].refs[d] = IdOf(d)
          /\ c = "pack" => ~store["dashboard"].edited /\ ~store["installation"].edited
      BY <1>2 DEF Repaired
    <2>2. store'[c].exists /\ c # "view" => ~store'[c].edited
      BY <1>1, <2>1 DEF Rests
    <2>3. \A d \in RefsOf(c) : store'[c].refs[d] = IdOf(d)'
      BY <1>1, <1>4, <2>1 DEF Rests
    <2>4. c = "pack" => Rests("dashboard") /\ Rests("installation")
      BY DEF Watched
    <2>5. c = "pack" => ~store'["dashboard"].edited /\ ~store'["installation"].edited
      BY <2>1, <2>4 DEF Rests
    <2> QED
      BY <2>2, <2>3, <2>5
  <1> QED
    BY <1>3, <1>5

\* The ids that a step puts into an entity are the ids that there are.
LEMMA RefsSeen ==
    ASSUME ContentInv, SeenIsCurrent, ~disturbed, NEW c, Acting(c), Step # "resume",
           NEW d \in RefsOf(c)
    PROVE  seen[d] = IdOf(d) /\ d # c /\ d \in Contents
  <1>t. TypeInv /\ MissingIsMissing /\ RoleIsChecked /\ at # 0 /\ ~Replaces
    BY DEF ContentInv, Acting, Replaces
  <1>1. /\ Step \in StepNames /\ c \in Titles(Step) /\ d \in Contents /\ stage \in 0..5
        /\ stage >= Len(Lists(Step))
    BY <1>t, AtStep, RefsInContents DEF Acting
  <1>2. d # c
    BY DEF RefsOf
  <1>3. ASSUME seen[d] # 0 PROVE seen[d] = IdOf(d)
    BY <1>t, <1>1, <1>3 DEF SeenIsCurrent, Current, IdOf
  <1>4. ASSUME Looked(d) PROVE seen[d] = IdOf(d)
    BY <1>t, <1>1, <1>3, <1>4 DEF MissingIsMissing, IdOf
  <1>5. CASE c \in Roles
    <2>1. Step = c
      BY <1>t, <1>5, ActingTitle DEF Accounts
    <2> QED
      BY <1>t, <1>1, <1>2, <1>3, <1>5, <2>1 DEF RoleIsChecked
  <1>6. CASE c \notin Roles
    <2>1. \/ Step = "streams" /\ d \in IndexSets
          \/ Step = "rules" /\ d \in Streams
          \/ Step = "connection" /\ d = "pipeline"
      <3>1. \/ c \in Streams /\ d \in IndexSets
            \/ c \in Rules /\ d \in Streams
            \/ c = "connection" /\ d = "pipeline"
        BY <1>6 DEF RefsOf, Roles, Streams, Rules, IndexSets
      <3> QED
        BY <1>1, <3>1 DEF StepNames, Required, Titles, IndexSets, Streams, Rules
    <2>2. d \notin Titles(Step)
      BY <2>1 DEF Titles, IndexSets, Streams, Rules
    <2>3. Len(Lists(Step)) = 2 /\ \E k \in {1, 2} : d \in Lists(Step)[k]
      BY <2>1 DEF Lists
    <2>4. \E k \in 1..Len(Lists(Step)) : k <= stage /\ d \in Lists(Step)[k]
      <3>1. stage \in 0..5 /\ stage >= Len(Lists(Step))
        BY <1>1
      <3> QED
        BY <2>3, <3>1
    <2>5. Looked(d)
      BY <2>2, <2>4 DEF Looked
    <2> QED
      BY <1>1, <1>2, <1>4, <2>5
  <1> QED
    BY <1>5, <1>6

\* The role of the operator is not reached without the dashboard.
LEMMA DashboardThere ==
    ASSUME ContentInv, SeenIsCurrent, ~disturbed, at # 0, Step = "operatorRole",
           stage >= Len(Lists(Step))
    PROVE  store["dashboard"].exists
  <1>1. Step \in Roles /\ "dashboard" \in RefsOf(Step) /\ ~Replaces /\ "dashboard" \in Contents
    BY Shipments DEF Roles, RefsOf, Replaces
  <1>2. seen["dashboard"] # 0
    BY <1>1 DEF ContentInv, RoleIsChecked
  <1> QED
    BY <1>1, <1>2 DEF SeenIsCurrent, Current

\* A request that succeeds does what the step is for.
LEMMA MadeIsDone ==
    ASSUME ContentInv, SeenIsCurrent, ~disturbed, NEW c \in Contents, Acting(c), NEW e,
           Makes(c, e), store' = [store EXCEPT ![c] = e], NEW i, i = at
    PROVE  Present(i, c)' /\ Repaired(i, c)'
  <1>t. TypeInv /\ IsStore(store) /\ seen \in [Contents -> Nat] /\ at # 0 /\ Step = Steps[i]
    BY DEF ContentInv, TypeInv, ControlType, Acting, Step
  <1>s. Step \in StepNames /\ c \in Titles(Step) /\ c \notin {"pack", "installation", "dashboard"}
    BY <1>t, AtStep, ActingTitle DEF Acting
  <1>1. store'[c] = e /\ \A x \in Contents : x # c => store'[x] = store[x]
    BY <1>t, MakesEntity, PutStore
  <1>2. CASE Step = "resume"
    <2>1. e = Marked(c, store[c].edited, TRUE) /\ store[c].exists /\ c # "operatorRole"
      BY <1>s, <1>2 DEF Makes, Titles, Streams
    <2>2. store[c].edited \in BOOLEAN
      BY <1>t, StoreFields
    <2>3. e.exists = store[c].exists /\ e.on = TRUE
      BY <1>t, <2>1, <2>2, MarkedEntity
    <2>4. store'[c].exists /\ store'[c].on
      BY <1>1, <2>1, <2>3
    <2> QED
      BY <1>t, <1>2, <2>1, <2>4 DEF Present, Repaired
  <1>3. CASE Step # "resume"
    <2>1. e.exists /\ ~e.edited /\ e.refs = [d \in RefsOf(c) |-> seen[d]]
      <3>1. CASE e = Created(c)
        BY <1>t, <3>1, CreatedEntity
      <3>2. CASE e = Updated(c) /\ store[c].exists
        <4>1. /\ e.exists = store[c].exists /\ ~e.edited
              /\ e.refs = [d \in RefsOf(c) |-> seen[d]]
          BY <1>t, <3>2, UpdatedEntity
        <4> QED
          BY <3>2, <4>1
      <3> QED
        BY <1>3, <3>1, <3>2 DEF Makes
    <2>2. ASSUME NEW d \in RefsOf(c) PROVE store'[c].refs[d] = IdOf(d)'
      <3>1. seen[d] = IdOf(d) /\ d # c /\ d \in Contents
        BY <1>3, RefsSeen
      <3>2. store'[d] = store[d]
        BY <1>1, <3>1
      <3>3. IdOf(d)' = IdOf(d)
        BY <3>2 DEF IdOf
      <3> QED
        BY <1>1, <2>1, <3>1, <3>3
    <2>3. c = "operatorRole" => store'["dashboard"].exists
      <3>1. SUFFICES ASSUME c = "operatorRole" PROVE store'["dashboard"].exists
        OBVIOUS
      <3>2. Step = "operatorRole" /\ stage >= Len(Lists(Step))
        BY <1>t, <3>1, ActingTitle DEF Acting, Accounts, Roles
      <3> QED
        BY <1>1, <1>s, <1>t, <3>1, <3>2, DashboardThere, Shipments
    <2>4. store'[c].exists /\ ~store'[c].edited
      BY <1>1, <2>1
    <2>5. Present(i, c)'
      BY <1>t, <1>3, <2>3, <2>4 DEF Present
    <2>6. Repaired(i, c)'
      BY <1>s, <2>2, <2>4 DEF Repaired
    <2> QED
      BY <2>5, <2>6
  <1> QED
    BY <1>2, <1>3

\* So is what a step leaves alone.
LEMMA KeptIsDone ==
    ASSUME ContentInv, SeenIsCurrent, ~disturbed, NEW c \in Contents, Acting(c), Keeps(c),
           UNCHANGED <<store, running>>, NEW i, i = at
    PROVE  Present(i, c)' /\ Repaired(i, c)'
  <1>t. TypeInv /\ at # 0 /\ ~Replaces /\ Step = Steps[i] /\ Step # "resume"
    BY DEF ContentInv, Acting, Step, Keeps, Replaces
  <1>s. c \notin {"pack", "installation", "dashboard"} /\ store' = store
    BY <1>t, ActingTitle
  <1>f. ForceUpdate' <=> ForceUpdate
    BY DEF ForceUpdate
  <1>1. c = "operatorRole" => store'["dashboard"].exists
    <2>1. SUFFICES ASSUME c = "operatorRole" PROVE store["dashboard"].exists
      BY <1>s
    <2>2. Step = "operatorRole" /\ stage >= Len(Lists(Step))
      BY <1>t, <2>1, ActingTitle DEF Acting, Accounts, Roles
    <2> QED
      BY <1>t, <2>2, DashboardThere
  <1>2. CASE seen[c] # 0 /\ (ForceUpdate => c = "view")
    <2>1. store'[c].exists
      BY <1>s, <1>t, <1>2 DEF SeenIsCurrent, Current
    <2>2. RefsOf("view") = {}
      BY DEF RefsOf
    <2>3. Present(i, c)'
      BY <1>1, <1>t, <2>1 DEF Present
    <2>4. Repaired(i, c)'
      BY <1>2, <1>f, <1>s, <2>2 DEF Repaired
    <2> QED
      BY <2>3, <2>4
  <1>3. CASE c = "grok" /\ ForceUpdate /\ ~store["grok"].exists
    <2>1. RefsOf("grok") = {}
      BY DEF RefsOf
    <2>2. Present(i, c)'
      BY <1>3, <1>f DEF Present
    <2>3. Repaired(i, c)'
      BY <1>3, <1>s, <2>1 DEF Repaired
    <2> QED
      BY <2>2, <2>3
  <1>4. CASE c = "search" /\ ~ForceUpdate /\ store["search"].exists
    BY <1>4, <1>f, <1>s, <1>t DEF Present, Repaired
  <1>5. CASE c = "os_extractor"
    BY <1>5 DEF Present, Repaired
  <1> QED
    BY <1>2, <1>3, <1>4, <1>5 DEF Keeps

\* When x is passed, nothing else is over than what was.
LEMMA PassesOver ==
    ASSUME TypeInv, at # 0, NEW x \in todo, Passes(x), NEW i \in 1..Len(Steps),
           NEW c \in Titles(Steps[i]), Over(i, c)'
    PROVE  Over(i, c) \/ (i = at /\ c = x)
  <1>1. at \in 1..Len(Steps) /\ Len(Steps) \in Nat
    BY AtStep, StepsCount
  <1>2. CASE todo' = todo \ {x} /\ at' = at
    BY <1>2 DEF Over
  <1>3. CASE todo = {x} /\ at' = 0 /\ at = Len(Steps)
    BY <1>1, <1>3 DEF Over
  <1>4. CASE todo = {x} /\ at' = at + 1 /\ Step' = Steps[at + 1] /\ todo' = Titles(Step')
    <2>1. i < at + 1 \/ (i = at + 1 /\ c \notin todo')
      BY <1>1, <1>4 DEF Over
    <2>2. i # at + 1
      BY <1>4, <2>1
    <2>3. i <= at
      BY <1>1, <2>1, <2>2
    <2> QED
      BY <1>1, <1>4, <2>3 DEF Over
  <1> QED
    BY <1>2, <1>3, <1>4 DEF Passes, Moves

\* A step of the dashboards that goes on to the next step leaves the pack, installed.
LEMMA PackIsDone ==
    ASSUME ContentInv, SeenIsCurrent, ~disturbed, DashboardStep, at' # at, outcome' # "failed",
           NEW i, i = at
    PROVE  Present(i, "pack")' /\ Repaired(i, "pack")'
  <1>t. TypeInv /\ PackStages /\ IsStore(store) /\ seen \in [Contents -> Nat]
    BY DEF ContentInv, TypeInv, ControlType
  <1>s. {"pack", "installation", "dashboard"} \subseteq Contents
    BY Shipments
  <1>1. at # 0 /\ Step = "dashboards" /\ Steps[i] = "dashboards"
    BY DEF DashboardStep, FindPack, DeleteInstallations, DeletePack, UploadPack, InstallPack, Step
  <1>2. ~Fails /\ ~Stays /\ \A n : ~Goes(n)
    BY DEF Fails, Stays, Goes
  <1>3. ~DeleteInstallations /\ ~DeletePack /\ ~UploadPack
    BY <1>2 DEF DeleteInstallations, DeletePack, UploadPack, Send
  <1>4. CASE FindPack
    <2>1. seen["pack"] # 0 /\ ~ForceUpdate /\ Advance /\ UNCHANGED store /\ stage = 1
      BY <1>2, <1>4 DEF FindPack
    <2>2. ~Replaces
      BY <2>1 DEF Replaces
    <2>3. store'["pack"].exists
      BY <1>1, <1>s, <2>1, <2>2 DEF SeenIsCurrent, Current
    <2>4. ~ForceUpdate'
      BY <2>1 DEF Advance, ForceUpdate
    <2> QED
      BY <1>1, <2>3, <2>4 DEF Present, Repaired
  <1>5. CASE InstallPack
    <2>1. /\ store' = [store EXCEPT !["installation"] = Created("installation"),
                                    !["dashboard"] = Created("dashboard")]
          /\ stage = 5
      BY <1>2, <1>5 DEF InstallPack, Send
    <2>2. /\ store'["installation"] = Created("installation")
          /\ store'["dashboard"] = Created("dashboard")
          /\ store'["pack"] = store["pack"]
      BY <1>t, <1>s, <2>1, PackEntities
    <2>3. store'["pack"].exists /\ ~store'["pack"].edited
      BY <1>t, <1>1, <2>1, <2>2 DEF PackStages
    <2>4. ~store'["installation"].edited /\ ~store'["dashboard"].edited
      BY <1>t, <1>s, <2>2, CreatedEntity
    <2>5. RefsOf("pack") = {}
      BY DEF RefsOf
    <2> QED
      BY <1>1, <2>3, <2>4, <2>5 DEF Present, Repaired
  <1> QED
    BY <1>3, <1>4, <1>5 DEF DashboardStep

\* What was over before the step is as it was.
LEMMA OverRests ==
    ASSUME ContentInv, [Next]_vars, ~disturbed', at # 0, NEW i \in 1..Len(Steps),
           NEW c \in Titles(Steps[i]), Over(i, c), NEW x \in Watched(c)
    PROVE  Rests(x)
  <1>t. TypeInv /\ IsStore(store) /\ c \in Contents
    BY TitlesInContents DEF ContentInv, TypeInv
  <1>x. x \in Contents
    BY <1>t, RefsInContents, Shipments DEF Watched
  <1>1. ASSUME store'[x] = store[x] PROVE Rests(x)
    BY <1>1 DEF Rests
  <1>2. ASSUME NEW d \in Contents, HandlesOne(d) PROVE Rests(x)
    <2>1. \A y \in Contents : y # d => store'[y] = store[y]
      BY <1>t, <1>2, HandlesOneStore
    <2>2. CASE x # d
      BY <1>1, <1>x, <2>1, <2>2
    <2>3. CASE x = d /\ ~UNCHANGED store
      <3>1. Acting(d) /\ Step = "resume"
        BY <1>t, <1>2, <2>3, Apart DEF HandlesOne, Acting
      <3>2. store' = [store EXCEPT ![d] = Marked(d, store[d].edited, TRUE)]
        BY <1>2, <2>3, <3>1 DEF HandlesOne, Makes
      <3>3. store[d].edited \in BOOLEAN
        BY <1>t, StoreFields
      <3> DEFINE e == Marked(d, store[d].edited, TRUE)
      <3>4. /\ e \in Entity(d) /\ e.exists = store[d].exists /\ e.id = store[d].id
            /\ e.edited = store[d].edited /\ e.on = TRUE /\ e.refs = store[d].refs
        BY <1>t, <3>3, MarkedEntity
      <3> HIDE DEF e
      <3>5. store'[d] = e
        BY <1>t, <3>2, <3>4, PutStore DEF e
      <3> QED
        BY <2>3, <3>4, <3>5 DEF Rests
    <2> QED
      BY <1>1, <2>2, <2>3
  <1>3. ASSUME NEW d \in todo, Step \notin {"resume", "dashboards"}, store' = Without({d})
        PROVE  Rests(x)
    <2>1. x # d
      BY <1>t, <1>3, Apart
    <2>2. store'[x] = store[x]
      BY <1>t, <1>x, <1>3, <2>1, WithoutStore
    <2> QED
      BY <1>1, <2>2
  <1>4. CASE DropsExtractor \/ DropsView
    BY <1>3, <1>4 DEF DropsExtractor, DropsView, Acting
  <1>5. CASE DashboardStep
    <2>1. Step = "dashboards"
      BY <1>5 DEF DashboardStep, FindPack, DeleteInstallations, DeletePack, UploadPack, InstallPack
    <2>2. x \notin {"pack", "installation", "dashboard"}
      BY <1>t, <2>1, ApartPack
    <2>3. CASE \/ store' = Without({"installation", "dashboard"}) \/ store' = Without({"pack"})
      BY <1>1, <1>t, <1>x, <2>2, <2>3, WithoutStore
    <2>4. CASE store' = [store EXCEPT !["pack"] = Created("pack")]
      <3>1. Created("pack") \in Entity("pack") /\ "pack" \in Contents
        BY <1>t, Shipments, CreatedEntity DEF TypeInv, ControlType
      <3> QED
        BY <1>1, <1>t, <1>x, <2>2, <2>4, <3>1, PutStore
    <2>5. CASE store' = [store EXCEPT !["installation"] = Created("installation"),
                                      !["dashboard"] = Created("dashboard")]
      BY <1>1, <1>t, <1>x, <2>2, <2>5, PackEntities
    <2> QED
      BY <1>1, <1>5, <2>3, <2>4, <2>5
         DEF DashboardStep, FindPack, DeleteInstallations, DeletePack, UploadPack, InstallPack, Send
  <1>6. ASSUME NEW d \in Contents, DeleteContent(d) \/ EditContent(d) PROVE FALSE
    BY <1>6 DEF DeleteContent, EditContent, Changes
  <1> QED
    BY <1>1, <1>2, <1>4, <1>5, <1>6, StepKinds
       DEF Kinds, Outside, SkipContent, StartRun, FailsAlone, Answers, Looks, Misses, Request, vars

LEMMA RunKeeps ==
    ASSUME ContentInv, [Next]_vars, at # 0
    PROVE  running' = running /\ skipped \subseteq skipped'
  <1>t. TypeInv
    BY DEF ContentInv
  <1>1. ASSUME NEW c \in todo, Continue(c) PROVE running' = running
    BY <1>t, <1>1, ContinuePasses
  <1>2. Fails \/ Stays \/ Advance \/ (\E n : Goes(n)) => running' = running
    BY DEF Fails, Stays, Advance, Goes
  <1>3. ASSUME NEW c \in Contents, HandlesOne(c) PROVE running' = running /\ skipped' = skipped
    BY <1>1, <1>2, <1>3 DEF HandlesOne, Acting, Breaks, others
  <1>4. CASE DropsExtractor \/ DropsView
    BY <1>1, <1>2, <1>4 DEF DropsExtractor, DropsView, Acting, Breaks, others
  <1>5. CASE FailsAlone \/ Answers \/ \E c \in Accounts : Looks(c)
    BY <1>2, <1>5 DEF FailsAlone, Answers, Looks, others
  <1>6. ASSUME NEW c \in Accounts, Misses(c) PROVE running' = running /\ skipped \subseteq skipped'
    BY <1>1, <1>6 DEF Misses, Handles
  <1>7. CASE DashboardStep
    BY <1>2, <1>7
       DEF DashboardStep, FindPack, DeleteInstallations, DeletePack, UploadPack, InstallPack, Send,
           others
  <1>8. CASE Outside \/ UNCHANGED vars
    BY <1>8
       DEF Outside, Request, DeleteContent, EditContent, Changes, PersonUnchanged, vars, control,
           others
  <1> QED
    BY <1>3, <1>4, <1>5, <1>6, <1>7, <1>8, StepKinds DEF Kinds, SkipContent, StartRun

\* What a step finishes is as it should be.
LEMMA FinishedIsDone ==
    ASSUME ContentInv, SeenIsCurrent, [Next]_vars, ~disturbed, ~disturbed', at # 0,
           NEW i \in 1..Len(Steps), NEW c \in Titles(Steps[i]), Over(i, c)', ~Over(i, c)
    PROVE  Present(i, c)' /\ Repaired(i, c)'
  <1>t. TypeInv /\ running' = running /\ c \in Contents
    BY RunKeeps, TitlesInContents DEF ContentInv
  <1>1. ~Fails
    BY DEF Fails, Over
  <1>2. ~(UNCHANGED <<at, todo, outcome>>)
    BY DEF Over
  <1>3. ~Stays /\ \A n : ~Goes(n)
    BY <1>2 DEF Stays, Goes
  <1>4. ASSUME NEW x \in todo, Continue(x) PROVE i = at /\ c = x
    BY <1>t, <1>4, ContinuePasses, PassesOver
  <1>5. ASSUME NEW x \in Contents, HandlesOne(x) PROVE Present(i, c)' /\ Repaired(i, c)'
    <2>1. x \in todo /\ Acting(x) /\ Continue(x)
      BY <1>1, <1>5 DEF HandlesOne, Acting, Breaks
    <2>2. i = at /\ c = x
      BY <1>4, <2>1
    <2>3. ASSUME NEW e, Makes(x, e), store' = [store EXCEPT ![x] = e]
          PROVE  Present(i, c)' /\ Repaired(i, c)'
      BY <2>1, <2>2, <2>3, MadeIsDone
    <2>4. CASE Keeps(x) /\ UNCHANGED store
      BY <1>t, <2>1, <2>2, <2>4, KeptIsDone
    <2> QED
      BY <1>5, <2>3, <2>4 DEF HandlesOne
  <1>6. CASE DropsExtractor
    <2>1. "os_extractor" \in todo /\ Continue("os_extractor")
      BY <1>1, <1>6 DEF DropsExtractor, Acting, Breaks
    <2>2. c = "os_extractor"
      BY <1>4, <2>1
    <2> QED
      BY <2>2 DEF Present, Repaired
  <1>7. ASSUME NEW x \in Accounts, Misses(x) PROVE Present(i, c)' /\ Repaired(i, c)'
    <2>1. /\ x \in todo /\ Continue(x) /\ Step = x /\ stage = Len(Lists(Step))
          /\ x \in skipped' /\ store' = store
      BY <1>7 DEF Misses, Handles, Ready
    <2>2. c = x
      BY <1>4, <2>1
    <2>3. c = "operatorRole" => store'["dashboard"].exists
      <3>1. Step \in StepNames /\ stage \in 0..5
        BY <1>t, AtStep
      <3>2. stage >= Len(Lists(Step))
        BY <2>1, <3>1
      <3> QED
        BY <2>1, <2>2, <3>2, DashboardThere
    <2> QED
      BY <2>1, <2>2, <2>3 DEF Present, Repaired
  <1>8. CASE DashboardStep
    <2>1. Step = "dashboards"
      BY <1>8 DEF DashboardStep, FindPack, DeleteInstallations, DeletePack, UploadPack, InstallPack
    <2>2. Advance
      BY <1>1, <1>3, <1>8
         DEF DashboardStep, FindPack, DeleteInstallations, DeletePack, UploadPack, InstallPack, Send
    <2>3. todo = {"pack"} /\ Continue("pack") /\ Moves
      BY <1>t, <2>1, <2>2, DashboardPasses, AdvanceMoves DEF Continue
    <2>4. i = at /\ c = "pack"
      BY <1>4, <2>3
    <2>5. outcome = "none" /\ at \in 1..Len(Steps)
      BY <1>t, AtStep DEF TypeInv, ControlType
    <2>6. at' # at /\ outcome' # "failed"
      BY <2>3, <2>5 DEF Moves
    <2> QED
      BY <1>8, <2>4, <2>6, PackIsDone
  <1>9. CASE Outside \/ UNCHANGED vars
    BY <1>2, <1>9
       DEF Outside, Request, DeleteContent, EditContent, Changes, PersonUnchanged, vars, control
  <1>10. ~SkipContent /\ ~StartRun /\ ~FailsAlone /\ ~Answers /\ \A x \in Accounts : ~Looks(x)
    BY <1>1, <1>3 DEF SkipContent, StartRun, FailsAlone, Answers, Looks
  <1>11. ~DropsView
    BY <1>1, <1>3 DEF DropsView, Breaks
  <1> QED
    BY <1>5, <1>6, <1>7, <1>8, <1>9, <1>10, <1>11, StepKinds DEF Kinds

\* A finished run stays as it ended until the next one.
LEMMA RestsBetween ==
    ASSUME ContentInv, [Next]_vars, ~disturbed', at = 0, NEW i \in 1..Len(Steps),
           NEW c \in Titles(Steps[i]), Over(i, c)'
    PROVE  UNCHANGED <<store, at, todo, outcome, running, skipped, disturbed>>
  <1>1. ~SkipContent
    BY DEF SkipContent, Over
  <1>2. ~StartRun
    <2>1. SUFFICES ASSUME StartRun PROVE FALSE
      OBVIOUS
    <2>2. at' = 1 /\ todo' = Titles(Steps[1])
      BY <2>1 DEF StartRun
    <2>3. i = 1 /\ c \notin todo'
      BY <2>2 DEF Over
    <2> QED
      BY <2>2, <2>3
  <1>3. /\ ~FailsAlone /\ ~Answers /\ (\A x \in Contents : ~HandlesOne(x)) /\ ~DropsExtractor
        /\ ~DropsView /\ (\A x \in Accounts : ~Looks(x) /\ ~Misses(x))
    BY DEF FailsAlone, Answers, HandlesOne, DropsExtractor, DropsView, Looks, Misses, Acting,
           Handles, Ready
  <1>4. ~DashboardStep
    BY DEF DashboardStep, FindPack, DeleteInstallations, DeletePack, UploadPack, InstallPack
  <1>5. CASE Outside
    BY <1>5 DEF Outside, Request, DeleteContent, EditContent, Changes
  <1>6. CASE UNCHANGED vars
    BY <1>6 DEF vars, control, others
  <1> QED
    BY <1>1, <1>2, <1>3, <1>4, <1>5, <1>6, StepKinds DEF Kinds

LEMMA ProgressNext ==
    ASSUME RunInv, [Next]_vars
    PROVE  Progress'
  <1>t. ContentInv /\ SeenIsCurrent /\ Progress
    BY DEF RunInv
  <1> SUFFICES ASSUME ~disturbed', NEW i \in 1..Len(Steps), NEW c \in Titles(Steps[i]),
                      Over(i, c)'
               PROVE  Present(i, c)' /\ Repaired(i, c)'
    BY DEF Progress
  <1>1. CASE at = 0
    <2>1. UNCHANGED <<store, at, todo, outcome, running, skipped, disturbed>>
      BY <1>t, <1>1, RestsBetween
    <2>2. Over(i, c) /\ ~disturbed
      BY <2>1 DEF Over
    <2>3. Present(i, c) /\ Repaired(i, c)
      BY <1>t, <2>2 DEF Progress
    <2>4. \A x \in Watched(c) : Rests(x)
      BY <2>1 DEF Rests
    <2> QED
      BY <2>1, <2>3, <2>4, Frame
  <1>2. CASE at # 0 /\ Over(i, c)
    <2>1. ~disturbed /\ running' = running /\ skipped \subseteq skipped'
      BY <1>t, <1>2, CalmBefore, RunKeeps
    <2>2. Present(i, c) /\ Repaired(i, c)
      BY <1>t, <1>2, <2>1 DEF Progress
    <2>3. \A x \in Watched(c) : Rests(x)
      BY <1>t, <1>2, OverRests
    <2> QED
      BY <2>1, <2>2, <2>3, Frame
  <1>3. CASE at # 0 /\ ~Over(i, c)
    BY <1>t, <1>3, CalmBefore, FinishedIsDone
  <1> QED
    BY <1>1, <1>2, <1>3

LEMMA RunAlways == Spec => []RunInv
  <1>1. Init => RunInv
    BY RunInit
  <1>2. RunInv /\ [Next]_vars => RunInv'
    <2>1. SUFFICES ASSUME RunInv, [Next]_vars PROVE RunInv'
      OBVIOUS
    <2>2. ContentInv' /\ SeenIsCurrent'
      BY <2>1, ContentNext, SeenNext DEF RunInv
    <2> QED
      BY <2>1, <2>2, ProgressNext DEF RunInv
  <1> QED
    BY <1>1, <1>2, PTL DEF Spec
-----------------------------------------------------------------------------
(***************************************************************************)
(* What a run has achieved.                                                *)
(***************************************************************************)

\* A run that succeeded has handled everything.
LEMMA SuccessIsOver ==
    ASSUME RunInv, Succeeded, NEW i \in 1..Len(Steps), NEW c \in Titles(Steps[i])
    PROVE  Present(i, c) /\ Repaired(i, c)
  <1>1. at = 0 /\ outcome = "success" /\ ~disturbed
    BY DEF RunInv, ContentInv, TypeInv, ControlType, Succeeded
  <1> QED
    BY <1>1 DEF RunInv, Progress, Over

LEMMA SuccessOf ==
    ASSUME RunInv, Succeeded, NEW s \in Required, NEW c \in Titles(s)
    PROVE  \E i \in 1..Len(Steps) : Steps[i] = s /\ Present(i, c) /\ Repaired(i, c)
  BY HasStep, SuccessIsOver

\* A run of configureGraylog that ends without an error, while nobody else changes
\* anything, has left every entity it ships in Graylog and every stream running,
\* whatever interrupted runs left behind: also the dashboards, which only-create does
\* not install again, because the role of the operator is refused without them.
THEOREM ContentIsComplete == Spec => []CompleteOnSuccess
  <1>1. RunInv => CompleteOnSuccess
    <2> SUFFICES ASSUME RunInv, Succeeded, NEW c \in Shipped \ skipped, c = "grok" => ~ForceUpdate
                 PROVE  store[c].exists /\ store[c].on
      BY DEF CompleteOnSuccess
    <2>t. StoreShape /\ c \in Contents /\ c # "os_extractor" /\ c \notin skipped
      BY DEF RunInv, ContentInv, Shipped
    <2>s. {"streams", "resume", "operatorRole"} \subseteq Required
      BY DEF Required
    <2>1. CASE c \in Streams
      <3>1. Titles("resume") = Streams
        BY DEF Titles
      <3>2. PICK i \in 1..Len(Steps) : Steps[i] = "resume" /\ Present(i, c)
        BY <2>s, <2>1, <3>1, SuccessOf
      <3> QED
        BY <2>t, <3>2 DEF Present
    <2>2. CASE c \in {"installation", "dashboard"}
      <3>1. "operatorRole" \in Titles("operatorRole")
        BY DEF Titles
      <3>2. PICK i \in 1..Len(Steps) : Present(i, "operatorRole")
        BY <2>s, <3>1, SuccessOf
      <3>3. store["dashboard"].exists
        BY <3>2 DEF Present
      <3>4. c \notin Streams
        BY <2>2 DEF Streams
      <3> QED
        BY <2>t, <2>2, <3>3, <3>4 DEF StoreShape
    <2>3. CASE c \notin Streams \cup {"installation", "dashboard"}
      <3>1. PICK i \in 1..Len(Steps) : c \in Titles(Steps[i])
        BY <2>t, <2>3, InContents
      <3>2. Present(i, c)
        BY <3>1, SuccessIsOver
      <3>3. store[c].exists
        BY <2>t, <3>2 DEF Present
      <3> QED
        BY <2>t, <2>3, <3>3 DEF StoreShape
    <2> QED
      BY <2>1, <2>2, <2>3
  <1> QED
    BY <1>1, RunAlways, PTL

\* A run of configureGraylog with force-update that ends without an error has repaired
\* what people changed before it began: no entity but a view is as somebody edited it,
\* and every id that a stream, a rule, a connection or a role holds is the id of the
\* entity which has that title now.
THEOREM ContentIsRepaired == Spec => []ForceUpdateRepairs
  <1>1. RunInv => ForceUpdateRepairs
    <2> SUFFICES ASSUME RunInv, Succeeded, ForceUpdate, NEW c \in Shipped \ skipped
                 PROVE  /\ store[c].exists /\ c # "view" => ~store[c].edited
                        /\ \A d \in RefsOf(c) : store[c].refs[d] = IdOf(d)
      BY DEF ForceUpdateRepairs
    <2>t. /\ c \in Contents /\ c # "os_extractor" /\ c \notin skipped
          /\ skipped \subseteq Accounts
      BY DEF RunInv, ContentInv, TypeInv, HistoryType, Shipped
    <2>s. {"streams", "dashboards"} \subseteq Required
      BY DEF Required
    <2>1. CASE c \in Streams
      <3>1. Titles("streams") = Streams
        BY DEF Titles
      <3>2. PICK i \in 1..Len(Steps) : Steps[i] = "streams" /\ Repaired(i, c)
        BY <2>s, <2>1, <3>1, SuccessOf
      <3> QED
        BY <2>t, <3>2 DEF Repaired
    <2>2. CASE c \in {"installation", "dashboard"}
      <3>1. "pack" \in Titles("dashboards") /\ "pack" \notin Accounts
        BY DEF Titles, Accounts, Roles, Users
      <3>2. PICK i \in 1..Len(Steps) : Steps[i] = "dashboards" /\ Repaired(i, "pack")
        BY <2>s, <3>1, SuccessOf
      <3>3. ~store["dashboard"].edited /\ ~store["installation"].edited
        BY <2>t, <3>1, <3>2 DEF Repaired
      <3>4. RefsOf(c) = {}
        BY <2>2 DEF RefsOf
      <3> QED
        BY <2>2, <3>3, <3>4
    <2>3. CASE c \notin Streams \cup {"installation", "dashboard"}
      <3>1. PICK i \in 1..Len(Steps) : c \in Titles(Steps[i])
        BY <2>t, <2>3, InContents
      <3>2. Repaired(i, c) /\ Steps[i] # "resume"
        BY <2>3, <3>1, SuccessIsOver DEF Titles
      <3> QED
        BY <2>t, <3>2 DEF Repaired
    <2> QED
      BY <2>1, <2>2, <2>3
  <1> QED
    BY <1>1, RunAlways, PTL
=============================================================================
