-------------------------- MODULE CycleRefinement --------------------------
(***************************************************************************)
(* The reconcile cycle implements CyclePromise.                            *)
(***************************************************************************)
EXTENDS ReconcileCycle

\* The components of Order that the cycle has not dealt with: all of them until the
\* loop over them begins, none once it waits.
Todo ==
    CASE pc \in {"start", "temporary"} -> Components
      [] pc \in {"begin", "work", "notStarted"} -> {Order[i] : i \in at..Len(Order)}
      [] OTHER -> {}

Phase ==
    CASE pc = "idle"   -> "rest"
      [] pc = "return" -> "reported"
      [] OTHER         -> "busy"

Promise == INSTANCE CyclePromise WITH
    status  <- CycleStatus(server.conds),
    phase   <- Phase,
    todo    <- Todo,
    waiting <- {pending[i] : i \in 1..Len(pending)},
    clean   <- success

\* Successful is published only by a cycle that has dealt with every component,
\* met no error, and taken every pending component off its list because its
\* workload runs; Failed only after an error, and it stays until a success.  This
\* survives removal by swapping in the list, failed patches, edits in the middle of
\* a cycle and crashes (Reconcile, ComponentsPendingReconciler.Run).
KeepsPromise == Promise!Spec
=============================================================================
