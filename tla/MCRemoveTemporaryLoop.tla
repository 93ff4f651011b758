----------------------- MODULE MCRemoveTemporaryLoop -----------------------
(***************************************************************************)
(* The loop over every list of up to MaxLength conditions.                 *)
(***************************************************************************)
EXTENDS RemoveTemporaryLoop

\* Nothing installed, a usual installation, and everything installed.
LoopSpecs ==
    {NoSpec,
     [p \in Parts |-> IF p \in {"Fluentd", "Graylog"} THEN "on" ELSE "absent"],
     [p \in Parts |-> "on"]}
=============================================================================
