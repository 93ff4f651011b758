------------------------- MODULE CycleOutcomeProofs -------------------------
(***************************************************************************)
(* What a cycle leaves behind.  An edit is never swallowed and a failed    *)
(* cycle is never forgotten: what the reconcile loop owes the user when it *)
(* comes to rest.  And what a cycle reports: nothing but Successful when   *)
(* it succeeds, and what failed when it fails.                             *)
(***************************************************************************)
EXTENDS CycleRefinementProofs

\* A copy of the resource is never newer than the resource, and a copy of the
\* same generation has the same specification.
CopyOf(object) ==
    /\ object.generation <= server.generation
    /\ object.generation = server.generation => object.spec = server.spec

SameGeneration ==
    /\ CopyOf(cache)
    /\ pc # "idle" /\ ~local.mixed => CopyOf(local)
    /\ ~cache.exists => ~server.exists

\* The cycle works on the specification that is in the API server now.
Current == ~local.mixed /\ local.generation = server.generation

\* A cycle that works on an older one will be followed by another.
OutdatedIsRepeated ==
    pc # "idle" => Current \/ queued \/ cache.generation # server.generation

\* What a current cycle without an error has dealt with is written from its
\* specification.
DealtIsApplied ==
    pc # "idle" /\ Current /\ success =>
       \A c \in Components \ Todo :
          Installs(local.spec, c) => applied[c] = local.generation

AllApplied ==
    \A c \in Components : Installs(server.spec, c) => applied[c] = server.generation

\* After a success everything is applied, or another cycle is on its way.
SuccessIsApplied ==
    pc = "idle" /\ outcome = "success" =>
       \/ AllApplied \/ queued \/ timer \/ ~cache.exists
       \/ cache.generation # server.generation

AppliedInv ==
    Inv /\ SameGeneration /\ OutdatedIsRepeated /\ DealtIsApplied /\ SuccessIsApplied
-----------------------------------------------------------------------------
(***************************************************************************)
(* What a status write does to everything but the conditions.              *)
(***************************************************************************)

\* The object of the cycle stays as it is, or takes in the answer of the server;
\* f counts the faults of the step before the write.
Refreshes(f) ==
    /\ server'.exists = server.exists
    /\ server'.spec = server.spec
    /\ server'.generation = server.generation
    /\ \/ /\ local'.spec = local.spec
          /\ local'.generation = local.generation
          /\ local'.mixed = local.mixed
       \/ /\ local'.spec = Decode(local.spec, server.spec)
          /\ local'.generation = server.generation
          /\ local'.mixed = (local.mixed \/ local.generation # server.generation)
    /\ faults' \in {f, f + 1}

\* A patch.
LEMMA PatchRefreshes ==
    ASSUME TypeOK, NEW conds, NEW f, PatchStatus(conds, f)
    PROVE  Refreshes(f)
<1>1. server \in Resources /\ local \in LocalObjects
  BY DEF TypeOK
<1>2. CASE /\ server' = [server EXCEPT !.conds = conds]
           /\ local' = Refreshed(conds)
           /\ faults' = f
  BY <1>1, <1>2 DEF Refreshes, Refreshed, Resources
<1>3. CASE /\ local' = [local EXCEPT !.conds = conds]
           /\ faults' = IF server.exists THEN f + 1 ELSE f
           /\ UNCHANGED server
  BY <1>1, <1>3 DEF Refreshes, LocalObjects
<1> QED
  BY <1>2, <1>3 DEF PatchStatus

\* No patch.
LEMMA NoPatchRefreshes ==
    ASSUME NEW f, NoPatch(f)
    PROVE  Refreshes(f)
BY DEF NoPatch, Refreshes

\* The writes that the steps use.
LEMMA WriteRefreshes ==
    ASSUME TypeOK, NEW reason, NEW f
    PROVE  /\ \A type, same : SetStatus(reason, type, same, f) => Refreshes(f)
           /\ ClearStatus(reason, f) => Refreshes(f)
           /\ BeginStatus(reason) => Refreshes(faults)
<1>1. ASSUME NEW type, NEW same, NEW g, SetStatus(reason, type, same, g)
      PROVE  Refreshes(g)
  BY <1>1, PatchRefreshes, NoPatchRefreshes DEF SetStatus
<1>2. ClearStatus(reason, f) => Refreshes(f)
  BY PatchRefreshes, NoPatchRefreshes DEF ClearStatus
<1>3. BeginStatus(reason) => Refreshes(faults)
  BY <1>1, NoPatchRefreshes DEF BeginStatus
<1> QED
  BY <1>1, <1>2, <1>3

\* Every step that writes a status takes in at most the answers of the server.
LEMMA StepRefreshes ==
    ASSUME Inv, StartStatus \/ ComponentStep \/ Finish
    PROVE  /\ \E f \in {faults, faults + 1} : Refreshes(f)
           /\ RunFails \/ NotStarted \/ PollFails => Refreshes(faults + 1)
<1>0. TypeOK
  BY DEF Inv
<1>1. CASE StartStatus \/ RunBegin \/ PendingBegin
  <2>1. Refreshes(faults)
    BY <1>0, <1>1, WriteRefreshes DEF StartStatus, RunBegin, PendingBegin
  <2>2. ~(RunFails \/ NotStarted \/ PollFails)
    BY <1>1 DEF StartStatus, RunBegin, PendingBegin, RunFails, NotStarted, PollFails
  <2> QED
    BY <2>1, <2>2
<1>2. CASE RemoveTemporary
  <2>1. Refreshes(faults)
    BY <1>0, <1>2, PatchRefreshes, NoPatchRefreshes DEF RemoveTemporary
  <2>2. ~(RunFails \/ NotStarted \/ PollFails)
    BY <1>2 DEF RemoveTemporary, RunFails, NotStarted, PollFails
  <2> QED
    BY <2>1, <2>2
<1>3. CASE RunFails \/ NotStarted \/ PollFails
  <2>1. Refreshes(faults + 1)
    BY <1>0, <1>3, WriteRefreshes DEF RunFails, NotStarted, PollFails
  <2> QED
    BY <2>1
<1>4. CASE ~(RunFails \/ NotStarted \/ PollFails)
           /\ (RunInstalls \/ RunUninstalls \/ PollAvailable \/ PendingEnd)
  <2>1. Refreshes(faults) \/ Refreshes(faults + 1)
    BY <1>0, <1>4, WriteRefreshes, NoPatchRefreshes
       DEF RunInstalls, RunUninstalls, PollAvailable, PendingEnd
  <2> QED
    BY <1>4, <2>1
<1>5. CASE ~(RunFails \/ NotStarted \/ PollFails)
           /\ (NotStartedReported \/ ReportNotStarted \/ Finish)
  <2>1. Refreshes(faults)
    BY <1>0, <1>5, WriteRefreshes DEF NotStartedReported, ReportNotStarted, Finish
  <2> QED
    BY <1>5, <2>1
<1> QED
  BY <1>1, <1>2, <1>3, <1>4, <1>5 DEF ComponentStep

\* Decoding an answer of the same generation changes nothing.
LEMMA DecodeSame ==
    ASSUME NEW s \in LoggingServiceSpec
    PROVE  Decode(s, s) = s
BY DEF Decode, LoggingServiceSpec

\* As long as the object of the cycle belongs to one generation, it keeps its
\* specification; and whether it is the current one does not change.
LEMMA RefreshKeeps ==
    ASSUME TypeOK, SameGeneration, pc # "idle", NEW f, Refreshes(f)
    PROVE  /\ ~local'.mixed => /\ ~local.mixed
                               /\ local'.spec = local.spec
                               /\ local'.generation = local.generation
           /\ Current' <=> Current
<1>1. /\ local.mixed \in BOOLEAN /\ local'.mixed \in BOOLEAN
      /\ local.spec \in LoggingServiceSpec
  BY DEF TypeOK, LocalObjects, Refreshes
<1>2. CASE /\ local'.spec = Decode(local.spec, server.spec)
           /\ local'.generation = server.generation
           /\ local'.mixed = (local.mixed \/ local.generation # server.generation)
  <2>1. ~local'.mixed <=> Current
    BY <1>1, <1>2 DEF Current
  <2>2. Current => local.spec = server.spec
    BY DEF Current, SameGeneration, CopyOf
  <2>3. Current => local'.spec = local.spec
    BY <1>1, <1>2, <2>2, DecodeSame
  <2>4. server'.generation = server.generation
    BY DEF Refreshes
  <2> QED
    BY <1>2, <2>1, <2>3, <2>4 DEF Current
<1>3. CASE /\ local'.spec = local.spec
           /\ local'.generation = local.generation
           /\ local'.mixed = local.mixed
  BY <1>3 DEF Refreshes, Current
<1> QED
  BY <1>2, <1>3 DEF Refreshes
-----------------------------------------------------------------------------
\* The wait sleeps, or gives up.
WaitStep == PollNotYet \/ RoundDone \/ RoundAgain \/ WaitExpires

WriteStep == StartStatus \/ ComponentStep \/ Finish

\* A step is one of these.
LEMMA StepKinds ==
    Next <=> \/ WriteStep \/ WaitStep \/ BeginCycle \/ Return \/ Restart \/ AsideStep
BY DEF Next, Operator, Environment, WriteStep, WaitStep, AsideStep, ComponentStep

\* A status write happens in a cycle and leaves requests and the cache alone.
LEMMA WriteStepFrame ==
    ASSUME WriteStep
    PROVE  /\ pc # "idle" /\ pc' # "idle"
           /\ UNCHANGED <<cache, queued, timer, timeout, outcome, rotations>>
BY OrderFacts
   DEF WriteStep, ComponentStep, StartStatus, Finish, RemoveTemporary, RunBegin,
       RunInstalls, RunFails, NotStarted, NotStartedReported, RunUninstalls,
       PendingBegin, PollAvailable, PollFails, ReportNotStarted, PendingEnd, rest,
       NextComponent, AfterPoll

\* The steps of the wait write nothing at all.
LEMMA WaitStepFrame ==
    ASSUME WaitStep
    PROVE  /\ pc \in {"poll", "roundEnd"}
           /\ pc' \in {"poll", "roundEnd", "pendingEnd", "expired"}
           /\ UNCHANGED <<server, local, at, pending, applied>>
           /\ UNCHANGED <<cache, queued, timer, timeout, outcome, rotations>>
           /\ success' \in {success, FALSE}
           /\ UNCHANGED <<success, faults>> \/ faults' = faults + 1
BY DEF WaitStep, PollNotYet, RoundDone, RoundAgain, WaitExpires, rest, AfterPoll

\* Editing gives the resource a new generation.
LEMMA EditSpecEffect ==
    ASSUME TypeOK, EditSpec
    PROVE  /\ server'.generation = server.generation + 1
           /\ server'.exists = server.exists
           /\ UNCHANGED <<cache, queued, timer>>
<1>1. PICK s \in UserSpecs : server' = [server EXCEPT !.spec = s, !.generation = @ + 1]
  BY DEF EditSpec
<1> QED
  BY <1>1 DEF EditSpec, TypeOK, Resources

\* Every step keeps copies apart from what they are copies of.
LEMMA SameGenerationNext ==
    ASSUME Inv, SameGeneration, [Next]_vars
    PROVE  SameGeneration'
<1> USE DEF Inv
<1>0. /\ server.generation \in Nat /\ cache.generation \in Nat
      /\ local.generation \in Nat /\ local.mixed \in BOOLEAN
  BY DEF TypeOK, Resources, LocalObjects
<1>1. CASE UNCHANGED vars
  BY <1>1 DEF vars, SameGeneration, CopyOf
<1>2. CASE WriteStep
  <2>1. PICK f \in {faults, faults + 1} : Refreshes(f)
    BY <1>2, StepRefreshes DEF WriteStep
  <2>2. pc # "idle" /\ cache' = cache
    BY <1>2, WriteStepFrame
  <2>3. ~local'.mixed => /\ ~local.mixed
                         /\ local'.spec = local.spec
                         /\ local'.generation = local.generation
    BY <2>1, <2>2, RefreshKeeps
  <2>4. /\ server'.exists = server.exists /\ server'.spec = server.spec
        /\ server'.generation = server.generation
    BY <2>1 DEF Refreshes
  <2> QED
    BY <2>2, <2>3, <2>4 DEF SameGeneration, CopyOf
<1>3. CASE WaitStep
  BY <1>3, WaitStepFrame DEF SameGeneration, CopyOf
<1>4. CASE BeginCycle
  BY <1>4 DEF BeginCycle, SameGeneration, CopyOf
<1>5. CASE Return
  BY <1>5 DEF Return, ReturnIdle, SameGeneration, CopyOf
<1>6. CASE Restart
  <2>1. pc' = "idle" /\ cache' = server /\ server' = server
    BY <1>6 DEF Restart
  <2> QED
    BY <1>0, <2>1 DEF SameGeneration, CopyOf
<1>7. CASE AsideStep
  <2>1. UNCHANGED <<pc, local>>
    BY <1>7, AsideEffect
  <2>2. CASE EditSpec
    BY <1>0, <2>1, <2>2, EditSpecEffect DEF SameGeneration, CopyOf
  <2>3. CASE DeleteCR
    <3>1. /\ server'.generation = server.generation /\ server'.spec = server.spec
          /\ ~server'.exists /\ cache' = cache
      BY <2>3 DEF DeleteCR, TypeOK, Resources
    <3> QED
      BY <2>1, <3>1 DEF SameGeneration, CopyOf
  <2>4. CASE CacheSync
    BY <1>0, <2>1, <2>4 DEF CacheSync, SameGeneration, CopyOf
  <2>5. CASE GetNotFound \/ GetFails \/ TimerFires \/ SecretEvent
    BY <2>1, <2>5
       DEF GetNotFound, GetFails, TimerFires, SecretEvent, SameGeneration, CopyOf
  <2> QED
    BY <1>7, <2>2, <2>3, <2>4, <2>5 DEF AsideStep
<1> QED
  BY <1>1, <1>2, <1>3, <1>4, <1>5, <1>6, <1>7, StepKinds

\* An outdated cycle is followed by another one.
LEMMA OutdatedNext ==
    ASSUME AppliedInv, [Next]_vars
    PROVE  OutdatedIsRepeated'
<1> USE DEF AppliedInv, Inv
<1>0. /\ server.generation \in Nat /\ cache.generation \in Nat
      /\ local.generation \in Nat
  BY DEF TypeOK, Resources, LocalObjects
<1>1. CASE UNCHANGED vars
  BY <1>1 DEF vars, OutdatedIsRepeated, Current
<1>2. CASE WriteStep
  <2>1. PICK f \in {faults, faults + 1} : Refreshes(f)
    BY <1>2, StepRefreshes DEF WriteStep
  <2>2. pc # "idle" /\ UNCHANGED <<cache, queued>>
    BY <1>2, WriteStepFrame
  <2>3. Current' <=> Current
    BY <2>1, <2>2, RefreshKeeps
  <2>4. server'.generation = server.generation
    BY <2>1 DEF Refreshes
  <2> QED
    BY <2>2, <2>3, <2>4 DEF OutdatedIsRepeated
<1>3. CASE WaitStep
  BY <1>3, WaitStepFrame DEF OutdatedIsRepeated, Current
<1>4. CASE BeginCycle
  BY <1>4 DEF BeginCycle, OutdatedIsRepeated, Current
<1>5. CASE Return \/ Restart
  BY <1>5 DEF Return, ReturnIdle, Restart, OutdatedIsRepeated
<1>7. CASE AsideStep
  <2>1. UNCHANGED <<pc, local>>
    BY <1>7, AsideEffect
  <2>2. CASE EditSpec
    BY <1>0, <2>1, <2>2, EditSpecEffect DEF SameGeneration, CopyOf, OutdatedIsRepeated
  <2>3. CASE DeleteCR
    <3>1. server'.generation = server.generation /\ UNCHANGED <<cache, queued>>
      BY <2>3 DEF DeleteCR, TypeOK, Resources
    <3> QED
      BY <2>1, <3>1 DEF OutdatedIsRepeated, Current
  <2>4. CASE CacheSync
    BY <2>1, <2>4 DEF CacheSync, OutdatedIsRepeated, Current
  <2>5. CASE GetNotFound \/ GetFails
    BY <2>1, <2>5 DEF GetNotFound, GetFails, OutdatedIsRepeated
  <2>6. CASE TimerFires \/ SecretEvent
    BY <2>1, <2>6 DEF TimerFires, SecretEvent, OutdatedIsRepeated
  <2> QED
    BY <1>7, <2>2, <2>3, <2>4, <2>5, <2>6 DEF AsideStep
<1> QED
  BY <1>1, <1>2, <1>3, <1>4, <1>5, <1>7, StepKinds

\* What the writing steps do to the components.
LEMMA WriteStepDeals ==
    ASSUME Inv, WriteStep
    PROVE  \/ success' = FALSE
           \/ Todo' = Components
           \/ /\ success' = success
              /\ \/ UNCHANGED <<Todo, applied>>
                 \/ /\ Order[at] \in Todo /\ UNCHANGED Todo
                    /\ \E a : applied' = [applied EXCEPT ![Order[at]] = a]
                 \/ /\ Todo' = Todo \ {Order[at]}
                    /\ \/ /\ Installs(local.spec, Order[at])
                          /\ applied' = [applied EXCEPT ![Order[at]] = MadeFrom]
                       \/ /\ ~Installs(local.spec, Order[at])
                          /\ \E a : applied' = [applied EXCEPT ![Order[at]] = a]
<1>1. CASE StartStatus
  BY <1>1, MappedNext DEF StartStatus
<1>2. CASE RemoveTemporary
  BY <1>2, MappedNext, OrderListsComponents DEF RemoveTemporary
<1>3. CASE RunBegin
  <2>1. /\ pc = "begin" /\ pc' = "work"
        /\ UNCHANGED <<at, applied, success>>
    BY <1>3 DEF RunBegin
  <2> QED
    BY <2>1, MappedState, MappedNext
<1>4. CASE NotStarted
  <2>1. /\ pc = "work" /\ pc' = "notStarted" /\ at' = at
        /\ UNCHANGED success
        /\ applied' = [applied EXCEPT ![Order[at]] = SomeObjects]
    BY <1>4 DEF NotStarted
  <2>2. Todo = {Order[i] : i \in at..5} /\ Todo' = Todo
    BY <2>1, MappedState, MappedNext
  <2>3. at \in at..5
    BY OrderFacts DEF Inv, TypeOK
  <2> QED
    BY <2>1, <2>2, <2>3
<1>5. CASE RunFails \/ NotStartedReported \/ PollFails
  BY <1>5 DEF RunFails, NotStartedReported, PollFails
<1>6. CASE RunInstalls \/ RunUninstalls
  <2>1. pc = "work" /\ NextComponent /\ UNCHANGED success
    BY <1>6 DEF RunInstalls, RunUninstalls
  <2>2. Todo' = Todo \ {Order[at]}
    BY <2>1, NextComponentTodo DEF Inv
  <2>3. \/ /\ Installs(local.spec, Order[at])
           /\ applied' = [applied EXCEPT ![Order[at]] = MadeFrom]
        \/ /\ ~Installs(local.spec, Order[at])
           /\ \E a : applied' = [applied EXCEPT ![Order[at]] = a]
    BY <1>6 DEF RunInstalls, RunUninstalls
  <2> QED
    BY <2>1, <2>2, <2>3
<1>7. CASE PendingBegin \/ PollAvailable \/ ReportNotStarted \/ PendingEnd \/ Finish
  <2>1. /\ pc \in {"pendingBegin", "poll", "expired", "pendingEnd", "finish"}
        /\ pc' \in {"poll", "roundEnd", "expired", "pendingEnd", "finish", "return"}
        /\ UNCHANGED <<applied, success>>
    BY <1>7 DEF PendingBegin, PollAvailable, ReportNotStarted, PendingEnd, Finish, AfterPoll
  <2> QED
    BY <2>1, MappedState, MappedNext
<1> QED
  BY <1>1, <1>2, <1>3, <1>4, <1>5, <1>6, <1>7 DEF WriteStep, ComponentStep

\* What a current cycle has dealt with stays written from its specification.
LEMMA DealtNext ==
    ASSUME AppliedInv, [Next]_vars
    PROVE  DealtIsApplied'
<1> USE DEF AppliedInv
<1>0. TypeOK /\ applied \in [Components -> {SomeObjects, NoObjects} \cup 1..MaxGeneration]
  BY DEF Inv, TypeOK
<1>1. CASE UNCHANGED vars
  BY <1>1 DEF vars, DealtIsApplied, Current, Todo
<1>2. CASE WriteStep
  <2> SUFFICES ASSUME Current', success', NEW c \in Components, c \notin Todo',
                      Installs(local'.spec, c)
               PROVE  applied'[c] = local'.generation
    BY DEF DealtIsApplied
  <2>1. PICK f \in {faults, faults + 1} : Refreshes(f)
    BY <1>2, StepRefreshes DEF WriteStep
  <2>2. pc # "idle"
    BY <1>2, WriteStepFrame
  <2>3. /\ Current /\ ~local.mixed
        /\ local'.spec = local.spec
        /\ local'.generation = local.generation
    BY <1>0, <2>1, <2>2, RefreshKeeps DEF Current
  <2>4. success => (c \notin Todo => applied[c] = local.generation)
    BY <2>2, <2>3 DEF DealtIsApplied
  <2>5. MadeFrom = local.generation
    BY <2>3 DEF MadeFrom
  <2> QED
    BY <1>0, <1>2, <2>3, <2>4, <2>5, WriteStepDeals
<1>3. CASE WaitStep
  BY <1>3, WaitStepFrame, MappedState, MappedNext DEF DealtIsApplied, Current
<1>4. CASE BeginCycle
  BY <1>4, MappedNext DEF BeginCycle, DealtIsApplied
<1>5. CASE Return \/ Restart
  BY <1>5 DEF Return, ReturnIdle, Restart, DealtIsApplied
<1>6. CASE AsideStep
  <2>1. UNCHANGED <<pc, at, local, success, applied, Todo>>
    BY <1>6, AsideEffect DEF Todo
  <2>2. pc # "idle" /\ Current' => Current
    <3>1. CASE EditSpec
      <4>1. /\ server'.generation = server.generation + 1
            /\ server.generation \in Nat /\ local.generation \in Nat
        BY <1>0, <3>1, EditSpecEffect DEF TypeOK, Resources, LocalObjects
      <4> QED
        BY <2>1, <4>1 DEF Current, SameGeneration, CopyOf
    <3>2. CASE ~EditSpec
      <4>1. server'.generation = server.generation
        BY <1>0, <1>6, <3>2
           DEF AsideStep, GetNotFound, GetFails, DeleteCR, CacheSync, TimerFires,
               SecretEvent, TypeOK, Resources
      <4> QED
        BY <2>1, <4>1 DEF Current
    <3> QED
      BY <3>1, <3>2
  <2> QED
    BY <2>1, <2>2 DEF DealtIsApplied
<1> QED
  BY <1>1, <1>2, <1>3, <1>4, <1>5, <1>6, StepKinds

\* After a success everything is applied, or another cycle will come.
LEMMA SuccessNext ==
    ASSUME AppliedInv, [Next]_vars
    PROVE  SuccessIsApplied'
<1> USE DEF AppliedInv
<1>0. TypeOK /\ server.generation \in Nat /\ cache.generation \in Nat
  BY DEF Inv, TypeOK, Resources
<1>1. CASE UNCHANGED vars
  BY <1>1 DEF vars, SuccessIsApplied, AllApplied
<1>2. CASE WriteStep \/ WaitStep \/ BeginCycle
  <2>1. pc' # "idle"
    BY <1>2, WriteStepFrame, WaitStepFrame DEF BeginCycle
  <2> QED
    BY <2>1 DEF SuccessIsApplied
<1>3. CASE Restart
  BY <1>3 DEF Restart, SuccessIsApplied
<1>4. CASE Return
  <2> SUFFICES ASSUME outcome' = "success"
               PROVE  AllApplied' \/ queued' \/ cache'.generation # server'.generation
    BY DEF SuccessIsApplied
  <2>1. pc = "return" /\ success /\ UNCHANGED <<server, cache, queued, applied>>
    BY <1>4 DEF Return, ReturnIdle, Succeeded
  <2>2. CASE Current
    <3>1. local.spec = server.spec /\ local.generation = server.generation
      BY <2>1, <2>2 DEF Current, SameGeneration, CopyOf
    <3>2. Todo = {}
      BY <2>1, MappedState
    <3>3. AllApplied
      BY <2>1, <2>2, <3>1, <3>2 DEF AllApplied, DealtIsApplied
    <3> QED
      BY <2>1, <3>3 DEF AllApplied
  <2>3. CASE ~Current
    BY <2>1, <2>3 DEF OutdatedIsRepeated
  <2> QED
    BY <2>2, <2>3
<1>5. CASE AsideStep
  <2>1. UNCHANGED <<pc, applied>>
    BY <1>5, AsideEffect
  <2>2. UNCHANGED outcome
    BY <1>5 DEF AsideStep, GetNotFound, GetFails, EditSpec, DeleteCR, CacheSync,
                TimerFires, SecretEvent, EnvUnchanged
  <2>3. CASE EditSpec
    BY <1>0, <2>3, EditSpecEffect DEF SameGeneration, CopyOf, SuccessIsApplied
  <2>4. CASE DeleteCR
    <3>1. /\ server'.generation = server.generation /\ server'.spec = server.spec
          /\ UNCHANGED <<cache, queued, timer>>
      BY <1>0, <2>4 DEF DeleteCR, TypeOK, Resources
    <3> QED
      BY <2>1, <2>2, <3>1 DEF SuccessIsApplied, AllApplied
  <2>5. CASE CacheSync
    BY <2>1, <2>2, <2>5 DEF CacheSync, SuccessIsApplied, AllApplied
  <2>6. CASE GetNotFound \/ GetFails
    BY <2>6 DEF GetNotFound, GetFails, SuccessIsApplied
  <2>7. CASE TimerFires \/ SecretEvent
    BY <2>7 DEF TimerFires, SecretEvent, SuccessIsApplied
  <2> QED
    BY <1>5, <2>3, <2>4, <2>5, <2>6, <2>7 DEF AsideStep
<1> QED
  BY <1>1, <1>2, <1>3, <1>4, <1>5, StepKinds

\* The initial states.
LEMMA AppliedInvInit == Init => AppliedInv
<1> SUFFICES ASSUME Init PROVE AppliedInv
  OBVIOUS
<1>1. Inv
  BY InvInit
<1>2. /\ pc = "idle" /\ cache = server /\ server.exists /\ outcome = "none"
      /\ server.generation \in Nat
  BY <1>1 DEF Init, Inv, TypeOK, Resources
<1> QED
  BY <1>1, <1>2 DEF AppliedInv, SameGeneration, CopyOf, OutdatedIsRepeated,
                    DealtIsApplied, SuccessIsApplied

\* Every step preserves the invariant.
LEMMA AppliedInvNext == AppliedInv /\ [Next]_vars => AppliedInv'
<1> SUFFICES ASSUME AppliedInv, [Next]_vars PROVE AppliedInv'
  OBVIOUS
<1>1. Inv' /\ SameGeneration'
  BY InvNext, SameGenerationNext DEF AppliedInv
<1>2. OutdatedIsRepeated' /\ DealtIsApplied' /\ SuccessIsApplied'
  BY OutdatedNext, DealtNext, SuccessNext
<1> QED
  BY <1>1, <1>2 DEF AppliedInv

\* An edit is never swallowed, for every set of specifications and any number of
\* edits, faults, Secret events and restarts, stale caches included: when the
\* operator rests after a success, what it installed was made from the
\* specification that is in the API server (Reconcile and the predicate of the
\* controller on generations).
THEOREM EditIsNeverSwallowed == Spec => []AppliedWhenQuiet
<1>1. AppliedInv => AppliedWhenQuiet
  BY DEF AppliedInv, SuccessIsApplied, AllApplied, AppliedWhenQuiet, Quiet
<1> QED
  BY <1>1, AppliedInvInit, AppliedInvNext, PTL DEF Spec
-----------------------------------------------------------------------------
(***************************************************************************)
(* A failed cycle is tried again.                                          *)
(***************************************************************************)

\* power[n] is two to the power n, and the timeout after as many failed cycles
\* in a row as there may be faults is less than half of the values of
\* time.Duration: it is a positive duration.
TimeoutFits(power) ==
    /\ power \in [0..MaxFaults -> Nat \ {0}]
    /\ power[0] = InitialTimeoutOnFailedReconcile
    /\ \A n \in 0..MaxFaults :
          /\ n # 0 => power[n] = 2 * power[n - 1]
          /\ 2 * power[n] < DurationValues

\* The timeout has been doubled once for every failed cycle in a row, and each of
\* them, the one under way included, has met a fault.
EveryFailureIsAFault(power) ==
    \E k \in 0..faults :
       /\ timeout = power[k]
       /\ ~success \/ pc = "notStarted" => k + 1 \in 0..faults

RetryInv(power) ==
    Inv /\ SameGeneration /\ EveryFailureIsAFault(power) /\ FailedCycleIsRetried

\* Doubling a timeout that fits gives the next power of two.
LEMMA DoubledFits ==
    ASSUME NEW power, TimeoutFits(power), NEW k \in Nat, k + 1 \in 0..MaxFaults
    PROVE  Doubled(power[k]) = power[k + 1] /\ power[k] > 0
<1>1. /\ power[k] \in Nat \ {0} /\ power[k + 1] \in Nat \ {0}
      /\ power[k + 1] = 2 * power[k]
      /\ 2 * power[k + 1] < DurationValues
      /\ DurationValues \in Nat \ {0}
  BY ConstantsAssumption DEF TimeoutFits
<1>2. (2 * power[k]) % DurationValues = 2 * power[k]
  BY <1>1
<1> QED
  BY <1>1, <1>2 DEF Doubled

\* More faults, and no new failure without one.
LEMMA FaultsOnly ==
    ASSUME TypeOK, TypeOK', NEW power, EveryFailureIsAFault(power), timeout' = timeout,
           faults' >= faults,
           \/ faults' >= faults + 1
           \/ (~success' \/ pc' = "notStarted") => (~success \/ pc = "notStarted")
    PROVE  EveryFailureIsAFault(power)'
<1>1. faults \in Nat /\ faults' \in Nat
  BY ConstantsAssumption DEF TypeOK
<1>2. PICK k \in 0..faults :
         /\ timeout = power[k]
         /\ ~success \/ pc = "notStarted" => k + 1 \in 0..faults
  BY DEF EveryFailureIsAFault
<1>3. /\ k \in 0..faults' /\ timeout' = power[k]
      /\ ~success' \/ pc' = "notStarted" => k + 1 \in 0..faults'
  BY <1>1, <1>2
<1> QED
  BY <1>3 DEF EveryFailureIsAFault

\* Every step keeps the count.
LEMMA FailureIsAFaultNext ==
    ASSUME NEW power, TimeoutFits(power), Inv, Inv', EveryFailureIsAFault(power), [Next]_vars
    PROVE  EveryFailureIsAFault(power)'
<1> USE DEF Inv
<1>0. faults \in Nat /\ faults' \in Nat /\ success \in BOOLEAN
  BY ConstantsAssumption DEF TypeOK
<1>1. CASE UNCHANGED vars
  BY <1>0, <1>1, FaultsOnly DEF vars
<1>2. CASE WriteStep
  <2>1. PICK f \in {faults, faults + 1} : Refreshes(f)
    BY <1>2, StepRefreshes DEF WriteStep
  <2>2. faults' >= faults /\ timeout' = timeout
    BY <1>0, <1>2, <2>1, WriteStepFrame DEF Refreshes
  <2>3. CASE RunFails \/ NotStarted \/ PollFails
    <3>1. Refreshes(faults + 1)
      BY <1>2, <2>3, StepRefreshes DEF WriteStep
    <3>2. faults' >= faults + 1
      BY <1>0, <3>1 DEF Refreshes
    <3> QED
      BY <2>2, <3>2, FaultsOnly
  <2>4. CASE ~(RunFails \/ NotStarted \/ PollFails)
    <3>1. ~success' \/ pc' = "notStarted" => ~success \/ pc = "notStarted"
      BY <1>2, <2>4
         DEF WriteStep, ComponentStep, StartStatus, Finish, RemoveTemporary, RunBegin,
             RunInstalls, NotStartedReported, RunUninstalls, PendingBegin,
             PollAvailable, ReportNotStarted, PendingEnd, NextComponent, AfterPoll
    <3> QED
      BY <2>2, <3>1, FaultsOnly
  <2> QED
    BY <2>3, <2>4
<1>3. CASE WaitStep
  <2>1. /\ timeout' = timeout /\ faults' >= faults /\ pc' # "notStarted"
        /\ faults' >= faults + 1 \/ success' = success
    BY <1>0, <1>3, WaitStepFrame
  <2> QED
    BY <2>1, FaultsOnly
<1>4. CASE BeginCycle
  <2>1. timeout' = timeout /\ faults' >= faults /\ success' /\ pc' # "notStarted"
    BY <1>0, <1>4 DEF BeginCycle
  <2> QED
    BY <2>1, FaultsOnly
<1>5. CASE timeout' = InitialTimeoutOnFailedReconcile /\ success' /\ pc' = "idle"
  <2>1. 0 \in 0..faults' /\ timeout' = power[0]
    BY <1>0, <1>5 DEF TimeoutFits
  <2> QED
    BY <1>5, <2>1 DEF EveryFailureIsAFault
<1>6. CASE Return
  <2>1. /\ success' /\ pc' = "idle" /\ faults' = faults
        /\ success => timeout' = InitialTimeoutOnFailedReconcile
        /\ ~success => timeout' = Doubled(timeout)
    BY <1>6 DEF Return, ReturnIdle, Succeeded
  <2>2. CASE ~success
    <3>1. PICK k \in 0..faults : timeout = power[k] /\ k + 1 \in 0..faults
      BY <2>2 DEF EveryFailureIsAFault
    <3>2. k + 1 \in 0..MaxFaults /\ k \in Nat
      BY <1>0, <3>1, ConstantsAssumption DEF TypeOK
    <3>3. timeout' = power[k + 1]
      BY <2>1, <2>2, <3>1, <3>2, DoubledFits
    <3> QED
      BY <2>1, <3>1, <3>3 DEF EveryFailureIsAFault
  <2> QED
    BY <1>5, <2>1, <2>2
<1>7. CASE Restart
  BY <1>5, <1>7 DEF Restart
<1>8. CASE AsideStep
  <2>1. UNCHANGED <<pc, success, timeout>>
    BY <1>8 DEF AsideStep, GetNotFound, GetFails, EditSpec, DeleteCR, CacheSync,
                TimerFires, SecretEvent, EnvUnchanged
  <2>2. faults' = faults \/ faults' = faults + 1
    BY <1>8 DEF AsideStep, GetNotFound, GetFails, EditSpec, DeleteCR, CacheSync,
                TimerFires, SecretEvent
  <2>3. faults' >= faults
    BY <1>0, <2>2
  <2> QED
    BY <2>1, <2>3, FaultsOnly
<1> QED
  BY <1>1, <1>2, <1>3, <1>4, <1>6, <1>7, <1>8, StepKinds

\* A failed cycle leaves a request behind, and it is not lost.
LEMMA RetriedNext ==
    ASSUME NEW power, TimeoutFits(power), RetryInv(power), [Next]_vars
    PROVE  FailedCycleIsRetried'
<1> USE DEF RetryInv
<1>1. CASE UNCHANGED vars
  BY <1>1 DEF vars, FailedCycleIsRetried
<1>2. CASE WriteStep \/ WaitStep \/ BeginCycle
  <2>1. pc' # "idle"
    BY <1>2, WriteStepFrame, WaitStepFrame DEF BeginCycle
  <2> QED
    BY <2>1 DEF FailedCycleIsRetried
<1>3. CASE Restart
  BY <1>3 DEF Restart, FailedCycleIsRetried
<1>4. CASE Return
  <2>1. CASE success
    BY <1>4, <2>1 DEF Return, Succeeded, FailedCycleIsRetried
  <2>2. CASE ~success
    <3>1. PICK k \in 0..faults : timeout = power[k] /\ k + 1 \in 0..faults
      BY <2>2 DEF EveryFailureIsAFault
    <3>2. k + 1 \in 0..MaxFaults /\ k \in Nat
      BY <3>1, ConstantsAssumption DEF Inv, TypeOK
    <3>3. timeout > 0
      BY <3>1, <3>2, DoubledFits
    <3>4. timer' = (timer \/ timeout > 0)
      BY <1>4, <2>2 DEF Return, Succeeded
    <3> QED
      BY <3>3, <3>4 DEF FailedCycleIsRetried
  <2> QED
    BY <2>1, <2>2
<1>5. CASE AsideStep
  <2>1. UNCHANGED <<pc, outcome>>
    BY <1>5 DEF AsideStep, GetNotFound, GetFails, EditSpec, DeleteCR, CacheSync,
                TimerFires, SecretEvent, EnvUnchanged
  <2>2. CASE EditSpec \/ DeleteCR
    BY <2>1, <2>2 DEF EditSpec, DeleteCR, FailedCycleIsRetried
  <2>3. CASE CacheSync
    BY <2>1, <2>3 DEF CacheSync, SameGeneration, FailedCycleIsRetried
  <2>4. CASE GetNotFound \/ GetFails \/ TimerFires \/ SecretEvent
    BY <2>1, <2>4 DEF GetNotFound, GetFails, TimerFires, SecretEvent, FailedCycleIsRetried
  <2> QED
    BY <1>5, <2>2, <2>3, <2>4 DEF AsideStep
<1> QED
  BY <1>1, <1>2, <1>3, <1>4, <1>5, StepKinds

\* A cycle that failed is followed by another one, for any number of faults for
\* which the doubled timeout still fits: TimeoutOnFailedReconcile is never capped,
\* and the proof uses exactly that it stays below half of the values of
\* time.Duration (Reconcile).
THEOREM FailedCycleIsTriedAgain ==
    ASSUME NEW power, TimeoutFits(power)
    PROVE  Spec => []FailedCycleIsRetried
<1>1. Init => RetryInv(power)
  <2> SUFFICES ASSUME Init PROVE RetryInv(power)
    OBVIOUS
  <2>1. Inv /\ SameGeneration
    BY InvInit, AppliedInvInit DEF AppliedInv
  <2>2. EveryFailureIsAFault(power)
    BY DEF Init, EveryFailureIsAFault, TimeoutFits
  <2>3. FailedCycleIsRetried
    BY DEF Init, FailedCycleIsRetried
  <2> QED
    BY <2>1, <2>2, <2>3 DEF RetryInv
<1>2. RetryInv(power) /\ [Next]_vars => RetryInv(power)'
  <2> SUFFICES ASSUME RetryInv(power), [Next]_vars PROVE RetryInv(power)'
    OBVIOUS
  <2>1. Inv' /\ SameGeneration'
    BY InvNext, SameGenerationNext DEF RetryInv
  <2>2. EveryFailureIsAFault(power)'
    BY <2>1, FailureIsAFaultNext DEF RetryInv
  <2> QED
    BY <2>1, <2>2, RetriedNext DEF RetryInv
<1>3. RetryInv(power) => FailedCycleIsRetried
  BY DEF RetryInv
<1> QED
  BY <1>1, <1>2, <1>3, PTL DEF Spec
-----------------------------------------------------------------------------
(***************************************************************************)
(* What a cycle reports.                                                   *)
(***************************************************************************)

PendingSet == {pending[i] : i \in 1..Len(pending)}

\* The statuses that the rest of the cycle may still remove or overwrite: those of
\* the components to do, of the pending ones until the wait is over, and that of
\* the wait.
Unfinished ==
    {StatusOf(c) : c \in Todo}
    \cup (IF pc \in {"expired", "pendingEnd", "finish", "return"}
          THEN {} ELSE {StatusOf(c) : c \in PendingSet})
    \cup (IF pc \in {"finish", "return"} THEN {} ELSE {ComponentPendingStatus})

\* No one writes the status of the monitoring agent, which no one would remove.
NoMonitoringStatus ==
    \A c \in Listed(server.conds) \cup Listed(cache.conds) \cup Listed(local.conds) :
       c.reason # MonitoringAgentStatus

\* As long as nothing has failed, the list holds nothing but the status of the
\* cycle and what will be removed.
OnlyUnfinished ==
    pc # "idle" /\ success =>
       \A c \in Listed(local.conds) : c.reason \in {LoggingServiceStatus} \cup Unfinished

\* The last status write of a cycle without an error.
ReportsSuccess == pc = "return" /\ success => local.conds[1].type = Success

\* A component that is pending, or that did not start, in a cycle on a single
\* specification is installed by that specification.
PendingInstalled ==
    pc # "idle" /\ ~local.mixed =>
       /\ \A c \in PendingSet : Installs(local.spec, c)
       /\ pc = "notStarted" => Installs(local.spec, Order[at])

\* A failure is on the list under a status that nobody will remove any more.  Only
\* the cycle whose wait has just expired is yet to write it.
FailureStays ==
    pc # "idle" /\ ~success /\ ~local.mixed /\ ~(pc = "expired" /\ poll = 1) =>
       \E r \in Reasons :
          /\ r \notin {LoggingServiceStatus} \cup Unfinished
          /\ Condition(r, Failed) \in Listed(local.conds)

ReportInv ==
    RefInv /\ SameGeneration /\ NoMonitoringStatus /\ OnlyUnfinished /\ ReportsSuccess
    /\ PendingInstalled /\ FailureStays
-----------------------------------------------------------------------------
(***************************************************************************)
(* What a status write does to the list as a set.                          *)
(***************************************************************************)

\* Every condition with another reason stays, and no other one appears.
Touches(r) ==
    /\ \A c \in Listed(local.conds) : c.reason # r => c \in Listed(local'.conds)
    /\ \A c \in Listed(local'.conds) : c.reason # r => c \in Listed(local.conds)

Removes(r) == Touches(r) /\ \A c \in Listed(local'.conds) : c.reason # r

Fails(r) == Touches(r) /\ Condition(r, Failed) \in Listed(local'.conds)

\* A patch writes its list into the object of the cycle.
LEMMA PatchConds ==
    ASSUME TypeOK, NEW conds, NEW f, PatchStatus(conds, f)
    PROVE  local'.conds = conds
BY DEF PatchStatus, Refreshed, TypeOK, LocalObjects

\* In a well-formed list there is one condition for a reason.
LEMMA OneCondition ==
    ASSUME NEW conds \in Seq(LoggingServiceCondition), WellFormed(conds),
           NEW c \in Listed(conds), NEW d \in Listed(conds), c.reason = d.reason
    PROVE  c = d
BY DEF Listed, WellFormed

\* UpdateStatus touches one reason; with Failed, that reason is then failed.
LEMMA SetStatusTouches ==
    ASSUME TypeOK, WellFormed(local.conds), NEW reason \in Reasons, NEW type \in Types,
           NEW same, NEW f, SetStatus(reason, type, same, f)
    PROVE  Touches(reason) /\ (type = Failed => Fails(reason))
<1>0. local.conds \in Seq(LoggingServiceCondition)
  BY DEF TypeOK, LocalObjects
<1>1. CASE type = Failed /\ IsStatusFailed(local.conds, reason) /\ same
  <2>1. local'.conds = local.conds
    BY <1>1 DEF SetStatus, NoPatch
  <2> DEFINE i == GetCondition(local.conds, reason)
  <2>2. i # 0 /\ local.conds[i].type = Failed
    BY <1>1 DEF IsStatusFailed
  <2>3. i \in 1..Len(local.conds) /\ local.conds[i].reason = reason
    BY <1>0, <2>2, GetConditionIndex
  <2> HIDE DEF i
  <2>4. local.conds[i] \in LoggingServiceCondition
    BY <1>0, <2>3
  <2>5. local.conds[i] = Condition(reason, Failed)
    BY <2>2, <2>3, <2>4 DEF LoggingServiceCondition, Condition
  <2> QED
    BY <2>1, <2>3, <2>5 DEF Touches, Fails, Listed
<1>2. CASE ~(type = Failed /\ IsStatusFailed(local.conds, reason) /\ same)
  <2>1. local'.conds = UpdateStatus(local.conds, reason, type)
    BY <1>2, PatchConds DEF SetStatus
  <2>2. Listed(local'.conds) = {c \in Listed(local.conds) : c.reason # reason}
                               \cup {Condition(reason, type)}
    BY <1>0, <2>1, UpdateStatusLists
  <2>3. Condition(reason, type).reason = reason
    BY DEF Condition
  <2> QED
    BY <2>2, <2>3 DEF Touches, Fails
<1> QED
  BY <1>1, <1>2

\* RemoveStatus.
LEMMA ClearStatusRemoves ==
    ASSUME TypeOK, WellFormed(local.conds), NEW reason, NEW f, ClearStatus(reason, f)
    PROVE  Removes(reason)
<1>0. local.conds \in Seq(LoggingServiceCondition)
  BY DEF TypeOK, LocalObjects
<1>1. CASE GetCondition(local.conds, reason) = 0
  <2>1. local'.conds = local.conds
    BY <1>1 DEF ClearStatus, NoPatch
  <2>2. \A j \in 1..Len(local.conds) : local.conds[j].reason # reason
    BY <1>0, <1>1, GetConditionIndex
  <2> QED
    BY <2>1, <2>2 DEF Removes, Touches, Listed
<1>2. CASE GetCondition(local.conds, reason) # 0
  <2>1. local'.conds = RemoveStatus(local.conds, reason)
    BY <1>2, PatchConds DEF ClearStatus
  <2>2. Listed(local'.conds) = {c \in Listed(local.conds) : c.reason # reason}
    BY <1>0, <2>1, RemoveStatusLists
  <2> QED
    BY <2>2 DEF Removes, Touches
<1> QED
  BY <1>1, <1>2

\* The status at the head of a run.
LEMMA BeginStatusTouches ==
    ASSUME TypeOK, WellFormed(local.conds), NEW reason \in Reasons, BeginStatus(reason)
    PROVE  Touches(reason)
<1>1. CASE IsStatusFailed(local.conds, reason)
  BY <1>1 DEF BeginStatus, NoPatch, Touches
<1>2. CASE ~IsStatusFailed(local.conds, reason)
  BY <1>2, SetStatusTouches, OtherReasons DEF BeginStatus
<1> QED
  BY <1>1, <1>2

\* The components have different statuses, and these are all that is left of the
\* reasons besides the cycle, the wait and the monitoring agent.
LEMMA StatusOfCovers ==
    /\ \A c, d \in Components : StatusOf(c) = StatusOf(d) => c = d
    /\ \A c \in Components : StatusOf(c) \in Reasons \ {LoggingServiceStatus,
                                ComponentPendingStatus, MonitoringAgentStatus}
    /\ \A r \in Reasons : \/ r \in {LoggingServiceStatus, ComponentPendingStatus,
                                    MonitoringAgentStatus}
                          \/ \E c \in Components : r = StatusOf(c)
    /\ StatusOf("Graylog") = GraylogStatus
    /\ StatusOf("Fluentbit") = FluentbitStatus
    /\ ComponentPendingStatus # LoggingServiceStatus
    /\ ComponentPendingStatus # MonitoringAgentStatus
    /\ LoggingServiceStatus # MonitoringAgentStatus
<1> USE DEF Components, StatusOf, Reasons, LoggingServiceStatus, GraylogStatus,
        FluentdStatus, FluentbitStatus, HAFluentStatus, EventsReaderStatus,
        MonitoringAgentStatus, ComponentPendingStatus
<1>1. \A c, d \in Components : StatusOf(c) = StatusOf(d) => c = d
  OBVIOUS
<1>2. \A c \in Components : StatusOf(c) \in Reasons \ {LoggingServiceStatus,
                                ComponentPendingStatus, MonitoringAgentStatus}
  OBVIOUS
<1>3. \A r \in Reasons : \/ r \in {LoggingServiceStatus, ComponentPendingStatus,
                                   MonitoringAgentStatus}
                         \/ \E c \in Components : r = StatusOf(c)
  OBVIOUS
<1> QED
  BY <1>1, <1>2, <1>3
-----------------------------------------------------------------------------
\* Which status each step touches.
LEMMA StepTouches ==
    ASSUME Inv
    PROVE  /\ StartStatus => Touches(LoggingServiceStatus)
           /\ RemoveTemporary => Listed(local'.conds) \subseteq Listed(local.conds)
           /\ RunBegin => Touches(StatusOf(Order[at]))
           /\ RunInstalls => \/ Order[at] = "Graylog" /\ Removes(StatusOf(Order[at]))
                             \/ Order[at] # "Graylog" /\ Touches(LoggingServiceStatus)
           /\ RunFails => Fails(FailureStatusOf(Order[at]))
           /\ NotStarted => Touches(StatusOf(Order[at]))
           /\ NotStartedReported => Fails(FailureStatusOf(Order[at]))
           /\ RunUninstalls => Removes(StatusOf(Order[at]))
           /\ PendingBegin => Touches(ComponentPendingStatus)
           /\ PollAvailable => Removes(StatusOf(pending[poll]))
           /\ PollFails => Fails(ComponentPendingStatus)
           /\ ReportNotStarted => Fails(StatusOf(pending[poll]))
           /\ PendingEnd => Removes(ComponentPendingStatus)
           /\ Finish => Touches(LoggingServiceStatus)
<1> USE InvFacts, OtherReasons, StatusOfFacts
<1>0. pc \in {"poll", "expired"} => pending[poll] \in Components
  BY DEF TypeOK
<1>1. StartStatus => Touches(LoggingServiceStatus)
  BY BeginStatusTouches DEF StartStatus
<1>2. RemoveTemporary => Listed(local'.conds) \subseteq Listed(local.conds)
  <2> SUFFICES ASSUME RemoveTemporary PROVE Listed(local'.conds) \subseteq Listed(local.conds)
    OBVIOUS
  <2>1. local'.conds \in {local.conds, RemoveTemporaryStatuses(local.conds, local.spec)}
    BY PatchConds DEF RemoveTemporary, NoPatch
  <2> QED
    BY <2>1, RemoveTemporaryStatusesLists
<1>3. RunBegin => Touches(StatusOf(Order[at]))
  BY BeginStatusTouches DEF RunBegin
<1>4. RunInstalls => \/ Order[at] = "Graylog" /\ Removes(StatusOf(Order[at]))
                     \/ Order[at] # "Graylog" /\ Touches(LoggingServiceStatus)
  <2> SUFFICES ASSUME RunInstalls
               PROVE  \/ Order[at] = "Graylog" /\ Removes(StatusOf(Order[at]))
                      \/ Order[at] # "Graylog" /\ Touches(LoggingServiceStatus)
    OBVIOUS
  <2>1. CASE Order[at] = "Graylog"
    <3>1. ClearStatus(StatusOf(Order[at]), faults)
      BY <2>1, StatusOfCovers DEF RunInstalls
    <3> QED
      BY <2>1, <3>1, ClearStatusRemoves
  <2>2. CASE Order[at] # "Graylog"
    BY <2>2 DEF RunInstalls, NoPatch, Touches
  <2> QED
    BY <2>1, <2>2
<1>5. RunFails => Fails(FailureStatusOf(Order[at]))
  BY SetStatusTouches DEF RunFails
<1>6. NotStarted => Touches(StatusOf(Order[at]))
  BY SetStatusTouches DEF NotStarted
<1>7. NotStartedReported => Fails(FailureStatusOf(Order[at]))
  BY SetStatusTouches DEF NotStartedReported
<1>8. RunUninstalls => Removes(StatusOf(Order[at]))
  BY ClearStatusRemoves DEF RunUninstalls
<1>9. PendingBegin => Touches(ComponentPendingStatus)
  BY BeginStatusTouches DEF PendingBegin
<1>10. PollAvailable => Removes(StatusOf(pending[poll]))
  BY ClearStatusRemoves DEF PollAvailable
<1>11. PollFails => Fails(ComponentPendingStatus)
  BY SetStatusTouches DEF PollFails
<1>12. ReportNotStarted => Fails(StatusOf(pending[poll]))
  BY <1>0, SetStatusTouches DEF ReportNotStarted
<1>13. PendingEnd => Removes(ComponentPendingStatus)
  BY ClearStatusRemoves DEF PendingEnd
<1>14. Finish => Touches(LoggingServiceStatus)
  BY SetStatusTouches DEF Finish
<1> QED
  BY <1>1, <1>2, <1>3, <1>4, <1>5, <1>6, <1>7, <1>8, <1>9, <1>10, <1>11, <1>12,
     <1>13, <1>14

\* No step writes the status of the monitoring agent.
LEMMA NoMonitoringNext ==
    ASSUME Inv, NoMonitoringStatus, [Next]_vars
    PROVE  NoMonitoringStatus'
<1>1. CASE UNCHANGED vars
  BY <1>1 DEF vars, NoMonitoringStatus
<1>2. CASE WriteStep
  <2>1. /\ cache' = cache
        /\ server'.conds \in {server.conds, local'.conds}
    <3>1. Writes
      <4>1. CASE StartStatus
        BY <4>1, InvFacts, BeginStatusEffect, OtherReasons DEF StartStatus
      <4>2. CASE ComponentStep
        BY <4>2, ComponentStepWrites DEF ComponentWrite
      <4>3. CASE Finish
        BY <4>3, FinishEffect
      <4> QED
        BY <1>2, <4>1, <4>2, <4>3 DEF WriteStep
    <3> QED
      BY <1>2, <3>1, WriteStepFrame DEF Writes
  <2>2. ASSUME NEW c \in Listed(local'.conds)
        PROVE  c.reason # MonitoringAgentStatus
    <3>1. FailureStatusOf(Order[at]) # MonitoringAgentStatus
          /\ StatusOf(Order[at]) # MonitoringAgentStatus
      BY InvFacts, StatusOfCovers DEF FailureStatusOf, Components
    <3>2. pc \in {"poll", "expired"} => StatusOf(pending[poll]) # MonitoringAgentStatus
      BY StatusOfCovers DEF Inv, TypeOK
    <3>3. PollAvailable \/ ReportNotStarted => pc \in {"poll", "expired"}
      BY DEF PollAvailable, ReportNotStarted
    <3>4. \/ Listed(local'.conds) \subseteq Listed(local.conds)
          \/ \E r \in {LoggingServiceStatus, ComponentPendingStatus,
                       FailureStatusOf(Order[at]), StatusOf(Order[at])} : Touches(r)
          \/ /\ PollAvailable \/ ReportNotStarted
             /\ Touches(StatusOf(pending[poll]))
      BY <1>2, StepTouches DEF WriteStep, ComponentStep, Removes, Fails
    <3> QED
      BY <3>1, <3>2, <3>3, <3>4, StatusOfCovers DEF NoMonitoringStatus, Touches
  <2> QED
    BY <2>1, <2>2 DEF NoMonitoringStatus
<1>3. CASE WaitStep
  BY <1>3, WaitStepFrame DEF NoMonitoringStatus
<1>4. CASE BeginCycle
  BY <1>4 DEF BeginCycle, NoMonitoringStatus
<1>5. CASE Return \/ Restart
  <2>1. local'.conds = <<>> /\ server' = server /\ cache' \in {cache, server}
    BY <1>5, NoLocalFacts DEF Return, ReturnIdle, Restart
  <2>2. Listed(local'.conds) = {}
    BY <2>1 DEF Listed
  <2> QED
    BY <2>1, <2>2 DEF NoMonitoringStatus
<1>6. CASE AsideStep
  <2>1. local' = local /\ server'.conds = server.conds
    BY <1>6, AsideEffect
  <2>2. cache' \in {cache, server}
    BY <1>6 DEF AsideStep, GetNotFound, GetFails, EditSpec, DeleteCR, CacheSync,
                TimerFires, SecretEvent
  <2> QED
    BY <2>1, <2>2 DEF NoMonitoringStatus
<1> QED
  BY <1>1, <1>2, <1>3, <1>4, <1>5, <1>6, StepKinds
-----------------------------------------------------------------------------
\* What is unfinished at each place of the worker.
LEMMA UnfinishedAt ==
    /\ pc \in {"begin", "work", "notStarted", "pendingBegin", "poll", "roundEnd"} =>
          Unfinished = {StatusOf(c) : c \in Todo \cup PendingSet}
                       \cup {ComponentPendingStatus}
    /\ pc \in {"expired", "pendingEnd"} => Unfinished = {ComponentPendingStatus}
    /\ pc \in {"finish", "return"} => Unfinished = {}
BY MappedState DEF Unfinished

\* The same of the next state.
LEMMA UnfinishedNext ==
    /\ pc' \in {"begin", "work", "notStarted", "pendingBegin", "poll", "roundEnd"} =>
          Unfinished' = {StatusOf(c) : c \in Todo' \cup PendingSet'}
                        \cup {ComponentPendingStatus}
    /\ pc' \in {"expired", "pendingEnd"} => Unfinished' = {ComponentPendingStatus}
    /\ pc' \in {"finish", "return"} => Unfinished' = {}
BY MappedNext DEF Unfinished

\* A step touches an unfinished status, and what it finishes it removes.
Progresses(r) ==
    /\ Touches(r)
    /\ r \in {LoggingServiceStatus} \cup Unfinished
    /\ Unfinished' \subseteq Unfinished
    /\ Unfinished \subseteq Unfinished' \cup {r}
    /\ Removes(r) \/ r \in {LoggingServiceStatus} \cup Unfinished'

\* Such a step keeps the list as it should be.
LEMMA ProgressKeeps ==
    ASSUME OnlyUnfinished, FailureStays, NEW r, Progresses(r), pc # "idle",
           success' = success, ~local'.mixed => ~local.mixed,
           ~(pc = "expired" /\ poll = 1)
    PROVE  OnlyUnfinished' /\ FailureStays'
<1>1. OnlyUnfinished'
  BY DEF OnlyUnfinished, Progresses, Removes, Touches
<1>2. FailureStays'
  <2> SUFFICES ASSUME ~success, ~local.mixed PROVE FailureStays'
    BY DEF FailureStays
  <2>1. PICK q \in Reasons : /\ q \notin {LoggingServiceStatus} \cup Unfinished
                             /\ Condition(q, Failed) \in Listed(local.conds)
    BY DEF FailureStays
  <2>2. Condition(q, Failed).reason = q /\ q # r
    BY <2>1 DEF Condition, Progresses
  <2>3. Condition(q, Failed) \in Listed(local'.conds)
    BY <2>1, <2>2 DEF Progresses, Touches
  <2>4. q \notin {LoggingServiceStatus} \cup Unfinished'
    BY <2>1 DEF Progresses
  <2> QED
    BY <2>1, <2>3, <2>4 DEF FailureStays
<1> QED
  BY <1>1, <1>2

\* A failure that is written under a status that is finished stays.
LEMMA NewFailureStays ==
    ASSUME NEW r \in Reasons, Fails(r), success' = FALSE,
           ~local'.mixed => r \notin {LoggingServiceStatus} \cup Unfinished'
    PROVE  OnlyUnfinished' /\ FailureStays'
BY DEF OnlyUnfinished, FailureStays, Fails

\* Taking a component off those to do leaves its status with the pending ones or
\* finishes it.
LEMMA DealtUnfinished ==
    ASSUME RefInv, pc \in {"work", "notStarted"}, NextComponent,
           \/ PendingSet' = PendingSet
           \/ PendingSet' = PendingSet \cup {Order[at]}
    PROVE  /\ StatusOf(Order[at]) \in Unfinished
           /\ Unfinished' \subseteq Unfinished
           /\ Unfinished \subseteq Unfinished' \cup {StatusOf(Order[at])}
           /\ PendingSet' = PendingSet \cup {Order[at]} => Unfinished' = Unfinished
<1>1. Order[at] \in Todo /\ Todo' = Todo \ {Order[at]}
  BY NextComponentTodo DEF RefInv, Inv
<1>2. pc' \in {"begin", "pendingBegin"}
  BY DEF NextComponent
<1>3. Unfinished = {StatusOf(c) : c \in Todo \cup PendingSet} \cup {ComponentPendingStatus}
  BY UnfinishedAt
<1>4. Unfinished' = {StatusOf(c) : c \in Todo' \cup PendingSet'} \cup {ComponentPendingStatus}
  BY <1>2, UnfinishedNext
<1>5. Todo \cup PendingSet = (Todo' \cup PendingSet') \cup {Order[at]}
  BY <1>1
<1>6. PendingSet' = PendingSet \cup {Order[at]} => Todo \cup PendingSet = Todo' \cup PendingSet'
  BY <1>1
<1> QED
  BY <1>1, <1>3, <1>4, <1>5, <1>6

\* The status under which the failure of a component is reported is finished: no
\* pending component has it, because the aggregator and Fluent Bit are never
\* installed by the same specification.
LEMMA FailureStatusFinished ==
    ASSUME RefInv, PendingInstalled, pc \in {"work", "notStarted"}, NextComponent,
           PendingSet' = PendingSet, ~local.mixed, Installs(local.spec, Order[at])
    PROVE  FailureStatusOf(Order[at]) \notin {LoggingServiceStatus} \cup Unfinished'
<1> DEFINE c == Order[at]
           d == IF c = "HAFluent" THEN "Fluentbit" ELSE c
<1>0. at \in 1..5 /\ c \in Components /\ d \in Components
  BY OrderFacts DEF RefInv, Inv, TypeOK, Components
<1>1. FailureStatusOf(c) = StatusOf(d)
  BY StatusOfCovers DEF FailureStatusOf
<1>2. Todo' = {Order[i] : i \in (at + 1)..5}
  <2>1. Todo = {Order[i] : i \in at..5} /\ Todo' = Todo \ {c}
    BY MappedState, NextComponentTodo DEF RefInv, Inv
  <2>2. at..5 = {at} \cup (at + 1)..5
    BY <1>0
  <2>3. \A i \in (at + 1)..5 : Order[i] # c
    BY <1>0, OrderListsComponents
  <2> QED
    BY <2>1, <2>2, <2>3
<1>3. d \notin Todo'
  <2>1. \E k \in 1..at : d = Order[k]
    <3>1. c = "HAFluent" => at = 4 /\ Order[3] = "Fluentbit"
      BY <1>0 DEF Order
    <3> QED
      BY <1>0, <3>1
  <2> QED
    BY <1>0, <1>2, <2>1, OrderListsComponents
<1>4. d \notin PendingSet
  <2>1. CASE c = "HAFluent"
    <3>1. ~Installs(local.spec, "Fluentbit")
      BY <2>1 DEF Installs
    <3> QED
      BY <2>1, <3>1 DEF PendingInstalled
  <2>2. CASE c # "HAFluent"
    <3> SUFFICES ASSUME NEW i \in 1..Len(pending), pending[i] = c PROVE FALSE
      BY <2>2 DEF PendingSet
    <3>1. PICK k \in 1..(at - 1) : pending[i] = Order[k]
      BY DEF RefInv, Control, PendingOnce
    <3>2. k \in 1..5 /\ k # at /\ Order[k] = Order[at]
      BY <1>0, <3>1
    <3> QED
      BY <1>0, <3>2, OrderListsComponents
  <2> QED
    BY <2>1, <2>2
<1>5. Todo' \cup PendingSet' \subseteq Components
  <2>1. PendingSet \subseteq Components
    BY DEF RefInv, Inv, TypeOK, PendingSet
  <2>2. Todo' \subseteq Components
    BY <1>0, <1>2, OrderFacts
  <2> QED
    BY <2>1, <2>2
<1>6. pc' \in {"begin", "pendingBegin"}
  BY DEF NextComponent
<1>7. Unfinished' = {StatusOf(e) : e \in Todo' \cup PendingSet'} \cup {ComponentPendingStatus}
  BY <1>6, UnfinishedNext
<1>8. StatusOf(d) \notin {StatusOf(e) : e \in Todo' \cup PendingSet'}
  BY <1>0, <1>3, <1>4, <1>5, StatusOfCovers
<1> QED
  BY <1>0, <1>1, <1>7, <1>8, StatusOfCovers

\* The list of pending components as a set, after each step that changes it.
LEMMA PendingSetNext ==
    ASSUME RefInv
    PROVE  /\ RunInstalls => PendingSet' = IF Order[at] = "Graylog" THEN PendingSet
                                           ELSE PendingSet \cup {Order[at]}
           /\ PollAvailable => PendingSet' = PendingSet \ {pending[poll]}
           /\ pending' = pending => PendingSet' = PendingSet
<1>0. pending \in Seq(Components) /\ Order[at] \in Components
  BY InvFacts DEF RefInv, TypeOK
<1>1. ASSUME RunInstalls
      PROVE  PendingSet' = IF Order[at] = "Graylog" THEN PendingSet
                           ELSE PendingSet \cup {Order[at]}
  <2>1. CASE Order[at] = "Graylog"
    BY <1>1, <2>1 DEF RunInstalls, PendingSet
  <2>2. CASE Order[at] # "Graylog"
    <3>1. pending' = Append(pending, Order[at])
      BY <1>1, <2>2 DEF RunInstalls
    <3>2. /\ Len(pending') = Len(pending) + 1
          /\ \A i \in 1..Len(pending) : pending'[i] = pending[i]
          /\ pending'[Len(pending) + 1] = Order[at]
          /\ Len(pending) \in Nat
      BY <1>0, <3>1
    <3>3. 1..(Len(pending) + 1) = 1..Len(pending) \cup {Len(pending) + 1}
      BY <3>2
    <3>4. PendingSet' = PendingSet \cup {Order[at]}
      BY <3>2, <3>3 DEF PendingSet
    <3> QED
      BY <2>2, <3>4
  <2> QED
    BY <2>1, <2>2
<1>2. ASSUME PollAvailable
      PROVE  PendingSet' = PendingSet \ {pending[poll]}
  <2>1. /\ poll \in 1..Len(pending)
        /\ pending' = SubSeq([pending EXCEPT ![poll] = pending[Len(pending)]],
                             1, Len(pending) - 1)
        /\ \A i, j \in 1..Len(pending) : pending[i] = pending[j] => i = j
    BY <1>2 DEF PollAvailable, RefInv, Inv, TypeOK, Control, PendingOnce
  <2> QED
    BY <1>0, <2>1, TakeOff DEF PendingSet
<1>3. pending' = pending => PendingSet' = PendingSet
  BY DEF PendingSet
<1> QED
  BY <1>1, <1>2, <1>3

\* What the writing steps do to the unfinished statuses, and how.
LEMMA WriteStepProgresses ==
    ASSUME ReportInv, ComponentStep \/ Finish,
           ~(RemoveTemporary \/ RunFails \/ NotStartedReported \/ PollFails
             \/ ReportNotStarted)
    PROVE  (\E r : Progresses(r)) /\ success' = success /\ pc # "expired"
<1> USE DEF ReportInv
<1>0. Inv /\ TypeOK /\ Order[at] \in Components
  BY InvFacts DEF RefInv
<1>1. CASE RunBegin \/ NotStarted
  <2>1. /\ pc \in {"begin", "work"} /\ pc' \in {"work", "notStarted"}
        /\ UNCHANGED <<at, success, pending>>
    BY <1>1 DEF RunBegin, NotStarted
  <2>2. Todo = {Order[i] : i \in at..5} /\ Todo' = Todo /\ PendingSet' = PendingSet
    BY <2>1, MappedState, MappedNext, PendingSetNext
  <2>3. Order[at] \in Todo
    BY <1>0, <2>2, OrderFacts DEF TypeOK
  <2>4. Unfinished' = Unfinished /\ StatusOf(Order[at]) \in Unfinished
    BY <2>1, <2>2, <2>3, UnfinishedAt, UnfinishedNext
  <2>5. Progresses(StatusOf(Order[at]))
    BY <1>0, <1>1, <2>4, StepTouches DEF Progresses
  <2> QED
    BY <2>1, <2>5
<1>2. CASE RunInstalls
  <2>1. pc = "work" /\ NextComponent /\ success' = success
    BY <1>2 DEF RunInstalls
  <2>2. CASE Order[at] = "Graylog"
    <3>1. Removes(StatusOf(Order[at])) /\ PendingSet' = PendingSet
      BY <1>0, <1>2, <2>2, StepTouches, PendingSetNext
    <3>2. Progresses(StatusOf(Order[at]))
      BY <2>1, <3>1, DealtUnfinished DEF Progresses, Removes
    <3> QED
      BY <2>1, <3>2
  <2>3. CASE Order[at] # "Graylog"
    <3>1. /\ Touches(LoggingServiceStatus)
          /\ PendingSet' = PendingSet \cup {Order[at]}
      BY <1>0, <1>2, <2>3, StepTouches, PendingSetNext
    <3>2. Unfinished' = Unfinished
      BY <2>1, <3>1, DealtUnfinished
    <3>3. Progresses(LoggingServiceStatus)
      BY <3>1, <3>2 DEF Progresses
    <3> QED
      BY <2>1, <3>3
  <2> QED
    BY <2>2, <2>3
<1>3. CASE RunUninstalls
  <2>1. /\ pc = "work" /\ NextComponent /\ success' = success
        /\ PendingSet' = PendingSet
    BY <1>3, PendingSetNext DEF RunUninstalls
  <2>2. Progresses(StatusOf(Order[at]))
    BY <1>0, <1>3, <2>1, StepTouches, DealtUnfinished DEF Progresses, Removes
  <2> QED
    BY <2>1, <2>2
<1>4. CASE PendingBegin
  <2>1. /\ pc = "pendingBegin" /\ UNCHANGED <<success, pending>>
        /\ pc' = IF pending = <<>> THEN "pendingEnd" ELSE "poll"
    BY <1>4 DEF PendingBegin
  <2>2. PendingSet' = PendingSet /\ (pending = <<>> => PendingSet = {})
    BY <2>1, PendingSetNext DEF PendingSet
  <2>3. Todo = {} /\ Todo' = {}
    BY <2>1, MappedState, MappedNext
  <2>4. Unfinished' = Unfinished /\ ComponentPendingStatus \in Unfinished
    BY <2>1, <2>2, <2>3, UnfinishedAt, UnfinishedNext
  <2>5. Progresses(ComponentPendingStatus)
    BY <1>0, <1>4, <2>4, StepTouches DEF Progresses
  <2> QED
    BY <2>1, <2>5
<1>5. CASE PollAvailable
  <2>1. pc = "poll" /\ pc' \in {"poll", "roundEnd"} /\ success' = success
    BY <1>5 DEF PollAvailable, AfterPoll
  <2>2. /\ PendingSet' = PendingSet \ {pending[poll]}
        /\ pending[poll] \in PendingSet
        /\ Todo = {} /\ Todo' = {}
    BY <1>0, <1>5, <2>1, MappedState, MappedNext, PendingSetNext DEF TypeOK, PendingSet
  <2>3. /\ StatusOf(pending[poll]) \in Unfinished
        /\ Unfinished' \subseteq Unfinished
        /\ Unfinished \subseteq Unfinished' \cup {StatusOf(pending[poll])}
    BY <2>1, <2>2, UnfinishedAt, UnfinishedNext
  <2>4. Progresses(StatusOf(pending[poll]))
    BY <1>0, <1>5, <2>3, StepTouches DEF Progresses, Removes
  <2> QED
    BY <2>1, <2>4
<1>6. CASE PendingEnd
  <2>1. pc = "pendingEnd" /\ pc' = "finish" /\ success' = success
    BY <1>6 DEF PendingEnd
  <2>2. Unfinished = {ComponentPendingStatus} /\ Unfinished' = {}
    BY <2>1, UnfinishedAt, UnfinishedNext
  <2>3. Progresses(ComponentPendingStatus)
    BY <1>0, <1>6, <2>2, StepTouches DEF Progresses, Removes
  <2> QED
    BY <2>1, <2>3
<1>7. CASE Finish
  <2>1. pc = "finish" /\ pc' = "return" /\ success' = success
    BY <1>7 DEF Finish
  <2>2. Unfinished = {} /\ Unfinished' = {}
    BY <2>1, UnfinishedAt, UnfinishedNext
  <2>3. Progresses(LoggingServiceStatus)
    BY <1>0, <1>7, <2>2, StepTouches DEF Progresses
  <2> QED
    BY <2>1, <2>3
<1> QED
  BY <1>1, <1>2, <1>3, <1>4, <1>5, <1>6, <1>7 DEF ComponentStep

\* Before the first component everything is unfinished.
LEMMA StartUnfinished ==
    ASSUME Inv', NoMonitoringStatus', success',
           pc' \in {"start", "temporary"} \/ (pc' = "begin" /\ at' = 1)
    PROVE  OnlyUnfinished' /\ FailureStays'
<1>1. Todo' = Components
  BY MappedNext, OrderListsComponents
<1>2. /\ {StatusOf(c) : c \in Components} \subseteq Unfinished'
      /\ ComponentPendingStatus \in Unfinished'
  BY <1>1 DEF Unfinished
<1>3. ASSUME NEW c \in Listed(local'.conds)
      PROVE  c.reason \in {LoggingServiceStatus} \cup Unfinished'
  <2>1. c.reason \in Reasons
    <3>1. local'.conds \in Seq(LoggingServiceCondition)
      BY DEF Inv, TypeOK, LocalObjects
    <3>2. c \in LoggingServiceCondition
      BY <3>1 DEF Listed
    <3> QED
      BY <3>2 DEF LoggingServiceCondition
  <2>2. c.reason # MonitoringAgentStatus
    BY DEF NoMonitoringStatus
  <2> QED
    BY <1>2, <2>1, <2>2, StatusOfCovers
<1> QED
  BY <1>3 DEF OnlyUnfinished, FailureStays

\* Every step keeps the list as it should be.
LEMMA ListNext ==
    ASSUME ReportInv, RefInv', NoMonitoringStatus', [Next]_vars
    PROVE  OnlyUnfinished' /\ FailureStays'
<1> USE DEF ReportInv
<1>0. Inv /\ Inv' /\ TypeOK /\ Order[at] \in Components
  BY InvFacts DEF RefInv
<1>1. CASE UNCHANGED vars
  BY <1>1 DEF vars, OnlyUnfinished, FailureStays, Unfinished, Todo, PendingSet
<1>2. CASE WriteStep
  <2>1. PICK f \in {faults, faults + 1} : Refreshes(f)
    BY <1>0, <1>2, StepRefreshes DEF WriteStep
  <2>2. ~local'.mixed => ~local.mixed
    BY <1>0, <1>2, <2>1, RefreshKeeps, WriteStepFrame
  <2>3. CASE StartStatus \/ RemoveTemporary
    <3>1. /\ pc \in {"start", "temporary"} /\ success' = success
          /\ pc' = "temporary" \/ (pc' = "begin" /\ at' = 1)
      BY <2>3 DEF StartStatus, RemoveTemporary
    <3>2. success
      BY <3>1 DEF RefInv, Control, FreshStart
    <3> QED
      BY <1>0, <3>1, <3>2, StartUnfinished
  <2>4. CASE RunFails \/ NotStartedReported
    <3>1. /\ pc \in {"work", "notStarted"} /\ NextComponent
          /\ success' = FALSE /\ pending' = pending
          /\ pc = "work" => Installs(local.spec, Order[at])
      BY <2>4 DEF RunFails, NotStartedReported
    <3>2. Fails(FailureStatusOf(Order[at])) /\ FailureStatusOf(Order[at]) \in Reasons
      BY <1>0, <2>4, StepTouches, StatusOfFacts
    <3>3. ~local.mixed => Installs(local.spec, Order[at])
      BY <3>1 DEF PendingInstalled
    <3>4. ~local'.mixed =>
             FailureStatusOf(Order[at]) \notin {LoggingServiceStatus} \cup Unfinished'
      BY <2>2, <3>1, <3>3, PendingSetNext, FailureStatusFinished
    <3> QED
      BY <3>1, <3>2, <3>4, NewFailureStays
  <2>5. CASE PollFails
    <3>1. pc' = "finish" /\ success' = FALSE
      BY <2>5 DEF PollFails
    <3>2. Fails(ComponentPendingStatus) /\ Unfinished' = {}
      BY <1>0, <2>5, <3>1, StepTouches, UnfinishedNext
    <3> QED
      BY <3>1, <3>2, OtherReasons, NewFailureStays
  <2>6. CASE ReportNotStarted
    <3>1. /\ pc = "expired" /\ pc' \in {"expired", "pendingEnd"}
          /\ success' = success
      BY <2>6 DEF ReportNotStarted
    <3>2. pending[poll] \in Components /\ pending # <<>>
      BY <1>0, <3>1 DEF TypeOK
    <3>3. ~success
      BY <3>1, <3>2 DEF RefInv, Control, WaitOver
    <3>4. success' = FALSE
      BY <1>0, <3>1, <3>3 DEF TypeOK
    <3>5. Fails(StatusOf(pending[poll])) /\ Unfinished' = {ComponentPendingStatus}
      BY <1>0, <2>6, <3>1, StepTouches, UnfinishedNext
    <3> QED
      BY <3>2, <3>4, <3>5, StatusOfCovers, NewFailureStays
  <2>7. CASE ~(StartStatus \/ RemoveTemporary \/ RunFails \/ NotStartedReported
               \/ PollFails \/ ReportNotStarted)
    BY <1>2, <2>2, <2>7, WriteStepProgresses, WriteStepFrame, ProgressKeeps DEF WriteStep
  <2> QED
    BY <2>3, <2>4, <2>5, <2>6, <2>7
<1>3. CASE WaitStep
  <2>1. CASE WaitExpires
    BY <2>1 DEF WaitExpires, OnlyUnfinished, FailureStays
  <2>2. CASE PollNotYet \/ RoundDone \/ RoundAgain
    <3>1. /\ pc \in {"poll", "roundEnd"}
          /\ pc' \in {"poll", "roundEnd", "pendingEnd"}
          /\ pc' = "pendingEnd" => pending = <<>>
          /\ UNCHANGED <<local, pending, success>>
      BY <2>2 DEF PollNotYet, RoundDone, RoundAgain, AfterPoll
    <3>2. PendingSet' = PendingSet /\ (pending = <<>> => PendingSet = {})
      BY <3>1 DEF PendingSet
    <3>3. Todo = {} /\ Todo' = {}
      BY <3>1, MappedState, MappedNext
    <3>4. Unfinished' = Unfinished
      BY <3>1, <3>2, <3>3, UnfinishedAt, UnfinishedNext
    <3>5. Progresses(LoggingServiceStatus)
      BY <3>1, <3>4 DEF Progresses, Touches
    <3> QED
      BY <3>1, <3>5, ProgressKeeps
  <2> QED
    BY <1>3, <2>1, <2>2 DEF WaitStep
<1>4. CASE BeginCycle
  <2>1. pc' = "start" /\ success'
    BY <1>4 DEF BeginCycle
  <2> QED
    BY <1>0, <2>1, StartUnfinished
<1>5. CASE Return \/ Restart
  BY <1>5 DEF Return, ReturnIdle, Restart, OnlyUnfinished, FailureStays
<1>6. CASE AsideStep
  <2>1. UNCHANGED <<pc, at, local, success, pending, poll>>
    BY <1>0, <1>6, AsideEffect
  <2>2. Unfinished' = Unfinished
    BY <2>1 DEF Unfinished, Todo, PendingSet
  <2> QED
    BY <2>1, <2>2 DEF OnlyUnfinished, FailureStays
<1> QED
  BY <1>1, <1>2, <1>3, <1>4, <1>5, <1>6, StepKinds

\* Pending components stay installed by the specification of the cycle.
LEMMA PendingInstalledNext ==
    ASSUME ReportInv, [Next]_vars
    PROVE  PendingInstalled'
<1> USE DEF ReportInv
<1>0. Inv /\ TypeOK
  BY DEF RefInv, Inv
<1>1. CASE UNCHANGED vars
  BY <1>1 DEF vars, PendingInstalled, PendingSet
<1>2. CASE WriteStep
  <2>1. PICK f \in {faults, faults + 1} : Refreshes(f)
    BY <1>0, <1>2, StepRefreshes DEF WriteStep
  <2>2. pc # "idle"
    BY <1>2, WriteStepFrame
  <2>3. ~local'.mixed => ~local.mixed /\ local'.spec = local.spec
    BY <1>0, <2>1, <2>2, RefreshKeeps
  <2>4. CASE RunInstalls
    <3>1. /\ Installs(local.spec, Order[at])
          /\ PendingSet' \subseteq PendingSet \cup {Order[at]}
          /\ pc' # "notStarted"
      BY <2>4, PendingSetNext DEF RunInstalls, NextComponent
    <3> QED
      BY <2>2, <2>3, <3>1 DEF PendingInstalled
  <2>5. CASE PollAvailable
    <3>1. PendingSet' \subseteq PendingSet /\ pc' # "notStarted"
      BY <2>5, PendingSetNext DEF PollAvailable, AfterPoll
    <3> QED
      BY <2>2, <2>3, <3>1 DEF PendingInstalled
  <2>6. CASE NotStarted
    <3>1. Installs(local.spec, Order[at]) /\ UNCHANGED <<at, pending>>
      BY <2>6 DEF NotStarted
    <3> QED
      BY <2>2, <2>3, <3>1, PendingSetNext DEF PendingInstalled
  <2>7. CASE ~(RunInstalls \/ PollAvailable \/ NotStarted)
    <3>1. pending' = pending /\ pc' # "notStarted"
      BY <1>2, <2>7
         DEF WriteStep, ComponentStep, StartStatus, Finish, RemoveTemporary, RunBegin,
             RunFails, NotStartedReported, RunUninstalls, PendingBegin, PollFails,
             ReportNotStarted, PendingEnd, NextComponent
    <3> QED
      BY <2>2, <2>3, <3>1, PendingSetNext DEF PendingInstalled
  <2> QED
    BY <2>4, <2>5, <2>6, <2>7
<1>3. CASE WaitStep
  BY <1>3, WaitStepFrame DEF PendingInstalled, PendingSet
<1>4. CASE BeginCycle
  <2>1. pc' = "start" /\ pending' = <<>>
    BY <1>4 DEF BeginCycle
  <2>2. PendingSet' = {}
    BY <2>1 DEF PendingSet
  <2> QED
    BY <2>1, <2>2 DEF PendingInstalled
<1>5. CASE Return \/ Restart
  BY <1>5 DEF Return, ReturnIdle, Restart, PendingInstalled
<1>6. CASE AsideStep
  <2>1. UNCHANGED <<pc, at, local, pending>>
    BY <1>0, <1>6, AsideEffect
  <2> QED
    BY <2>1 DEF PendingInstalled, PendingSet
<1> QED
  BY <1>1, <1>2, <1>3, <1>4, <1>5, <1>6, StepKinds

\* The last status write is right.
LEMMA ReportsSuccessNext ==
    ASSUME ReportInv, [Next]_vars
    PROVE  ReportsSuccess'
<1>0. Inv
  BY DEF ReportInv, RefInv
<1>1. CASE Finish
  <2> SUFFICES ASSUME success PROVE local'.conds[1].type = Success
    BY <1>1 DEF Finish, ReportsSuccess
  <2>1. SetStatus(LoggingServiceStatus, Success, TRUE, faults)
    BY <1>1 DEF Finish
  <2> QED
    BY <1>0, <2>1, InvFacts, OtherReasons, SetStatusEffect
<1>2. CASE UNCHANGED <<pc, success, local>>
  BY <1>2 DEF ReportInv, ReportsSuccess
<1>3. CASE pc' # "return"
  BY <1>3 DEF ReportsSuccess
<1>4. Finish \/ UNCHANGED <<pc, success, local>> \/ pc' # "return"
  <2>1. CASE UNCHANGED vars
    BY <2>1 DEF vars
  <2>2. CASE WriteStep
    BY <2>2 DEF WriteStep, ComponentStep, StartStatus, RemoveTemporary, RunBegin,
           RunInstalls, NotStarted, PollAvailable, AfterPoll,
           RunFails, NotStartedReported, RunUninstalls, PendingBegin, PollFails,
           ReportNotStarted, PendingEnd, NextComponent
  <2>3. CASE WaitStep
    BY <2>3, WaitStepFrame
  <2>4. CASE BeginCycle \/ Return \/ Restart
    BY <2>4 DEF BeginCycle, Return, ReturnIdle, Restart
  <2>5. CASE AsideStep
    BY <1>0, <2>5, AsideEffect
  <2> QED
    BY <2>1, <2>2, <2>3, <2>4, <2>5, StepKinds
<1> QED
  BY <1>1, <1>2, <1>3, <1>4

\* The initial states.
LEMMA ReportInvInit == Init => ReportInv
<1> SUFFICES ASSUME Init PROVE ReportInv
  OBVIOUS
<1>1. RefInv /\ SameGeneration
  BY RefInvInit, AppliedInvInit DEF AppliedInv
<1>2. pc = "idle" /\ server.conds = <<>> /\ cache.conds = <<>> /\ local.conds = <<>>
  BY NoLocalFacts DEF Init
<1>3. Listed(<<>>) = {}
  BY DEF Listed
<1> QED
  BY <1>1, <1>2, <1>3 DEF ReportInv, NoMonitoringStatus, OnlyUnfinished, ReportsSuccess,
                          PendingInstalled, FailureStays

\* Every step preserves the invariant.
LEMMA ReportInvNext == ReportInv /\ [Next]_vars => ReportInv'
<1> SUFFICES ASSUME ReportInv, [Next]_vars PROVE ReportInv'
  OBVIOUS
<1>1. RefInv' /\ SameGeneration' /\ NoMonitoringStatus'
  BY RefInvNext, SameGenerationNext, NoMonitoringNext DEF ReportInv, RefInv
<1>2. OnlyUnfinished' /\ FailureStays' /\ PendingInstalled' /\ ReportsSuccess'
  BY <1>1, ListNext, PendingInstalledNext, ReportsSuccessNext
<1> QED
  BY <1>1, <1>2 DEF ReportInv
-----------------------------------------------------------------------------
\* A cycle that succeeds leaves the status of the cycle as the only condition, for
\* every specification and whatever earlier cycles, failed patches, edits and
\* restarts have left on the list: every status is removed by the run or by the
\* wait that it belongs to (Reconcile, ComponentsPendingReconciler.Run).
THEOREM SuccessIsClean == Spec => []CleanOnSuccess
<1>1. ReportInv => CleanOnSuccess
  <2> SUFFICES ASSUME ReportInv, pc = "return", success
               PROVE  local.conds = <<Condition(LoggingServiceStatus, Success)>>
    BY DEF CleanOnSuccess
  <2>1. /\ local.conds \in Seq(LoggingServiceCondition) /\ WellFormed(local.conds)
        /\ local.conds # <<>>
    BY InvFacts DEF ReportInv, RefInv
  <2>2. Unfinished = {}
    BY UnfinishedAt
  <2>3. \A i \in 1..Len(local.conds) : local.conds[i].reason = LoggingServiceStatus
    BY <2>2 DEF ReportInv, OnlyUnfinished, Listed
  <2>4. Len(local.conds) = 1
    <3>1. 1 \in 1..Len(local.conds) /\ Len(local.conds) \in 1..Len(local.conds)
      BY <2>1
    <3> QED
      BY <2>3, <3>1, <2>1 DEF WellFormed
  <2>5. local.conds[1].type = Success
    BY DEF ReportInv, ReportsSuccess
  <2>6. local.conds[1] = Condition(LoggingServiceStatus, Success)
    <3>1. local.conds[1] \in LoggingServiceCondition
      BY <2>1, <2>4
    <3> QED
      BY <2>3, <2>4, <2>5, <3>1 DEF LoggingServiceCondition, Condition
  <2> QED
    BY <2>1, <2>4, <2>6
<1> QED
  BY <1>1, ReportInvInit, ReportInvNext, PTL DEF Spec

\* A cycle that fails on a single specification says which component or which wait
\* failed, for every number of edits, faults and restarts: no later step of the
\* cycle removes the condition, although the aggregator reports under the status of
\* Fluent Bit (Reconcile).
THEOREM FailureIsReported == Spec => []FailureIsExplained
<1>1. ReportInv => FailureIsExplained
  <2> SUFFICES ASSUME ReportInv, pc = "return", ~success, ~local.mixed
               PROVE  \E i \in 1..Len(local.conds) :
                         /\ local.conds[i].reason # LoggingServiceStatus
                         /\ local.conds[i].type = Failed
    BY DEF FailureIsExplained
  <2>1. PICK r \in Reasons : /\ r # LoggingServiceStatus
                             /\ Condition(r, Failed) \in Listed(local.conds)
    BY DEF ReportInv, FailureStays
  <2>2. PICK i \in 1..Len(local.conds) : local.conds[i] = Condition(r, Failed)
    BY <2>1 DEF Listed
  <2> QED
    BY <2>1, <2>2 DEF Condition
<1> QED
  BY <1>1, ReportInvInit, ReportInvNext, PTL DEF Spec
=============================================================================
