---------------------------- MODULE CyclePromise ----------------------------
(***************************************************************************)
(* What the reconcile loop promises about the status of a LoggingService,  *)
(* without requests, caches, lists of conditions or the order of           *)
(* components: Successful is published only at the end of a cycle that has *)
(* dealt with every component, met no error and seen every workload it     *)
(* waits for; Failed only at the end of a cycle that met an error, and it  *)
(* stays until a success.  Between the two a cycle may only announce that  *)
(* it is in progress, and it may die at any moment.                        *)
(***************************************************************************)
EXTENDS StatusConditions

VARIABLES
    status,     \* the status of the service as its users see it
    phase,      \* "rest", or "busy" with a cycle, or "reported" at its end
    todo,       \* the components this cycle has not dealt with
    waiting,    \* the components whose workloads it waits for
    clean       \* it has met no error

cycle == <<phase, todo, waiting, clean>>
vars  == <<status, cycle>>

Resting ==
    /\ phase' = "rest"
    /\ todo' = {}
    /\ waiting' = {}
    /\ clean' = TRUE

Init ==
    /\ status = "none"
    /\ phase = "rest"
    /\ todo = {}
    /\ waiting = {}
    /\ clean = TRUE

\* Writing conditions in the middle of a cycle shows In Progress, but not over a
\* failure.
Publishes ==
    \/ UNCHANGED status
    \/ status # Failed /\ status' = InProgress

Start ==
    /\ phase = "rest"
    /\ phase' = "busy"
    /\ todo' = Components
    /\ UNCHANGED <<status, waiting, clean>>

Announce ==
    /\ phase = "busy"
    /\ status # Failed
    /\ status' = InProgress
    /\ UNCHANGED cycle

\* One component: removed or started by itself, to be waited for, or failed.
Deal(c) ==
    /\ phase = "busy"
    /\ c \in todo
    /\ todo' = todo \ {c}
    /\ \/ UNCHANGED <<waiting, clean>>
       \/ waiting' = waiting \cup {c} /\ UNCHANGED clean
       \/ clean' = FALSE /\ UNCHANGED waiting
    /\ Publishes
    /\ UNCHANGED phase

\* After the last component, a workload is seen running, or the wait is given up.
Runs(c) ==
    /\ phase = "busy"
    /\ todo = {}
    /\ c \in waiting
    /\ waiting' = waiting \ {c}
    /\ Publishes
    /\ UNCHANGED <<phase, todo, clean>>

GiveUp ==
    /\ phase = "busy"
    /\ todo = {}
    /\ waiting # {}
    /\ clean' = FALSE
    /\ Publishes
    /\ UNCHANGED <<phase, todo, waiting>>

\* The result of the cycle, if it can be written.
Report ==
    /\ phase = "busy"
    /\ todo = {}
    /\ clean => waiting = {}
    /\ status' \in {status, IF clean THEN Success ELSE Failed}
    /\ phase' = "reported"
    /\ UNCHANGED <<todo, waiting, clean>>

End == phase = "reported" /\ Resting /\ UNCHANGED status

Crash == Resting /\ UNCHANGED status

Next ==
    \/ Start \/ Announce \/ GiveUp \/ Report \/ End \/ Crash
    \/ \E c \in Components : Deal(c) \/ Runs(c)

Spec == Init /\ [][Next]_vars
=============================================================================
