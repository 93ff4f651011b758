-------------------------- MODULE MCReconcileCycle --------------------------
(***************************************************************************)
(* Instances of ReconcileCycle for TLC.                                    *)
(***************************************************************************)
EXTENDS CycleRefinement, TLC

Blocks(on) == [p \in Parts |-> IF p \in on THEN "on" ELSE "absent"]

\* The migrations of docs/migration.md: FluentD, Fluent Bit, and Fluent Bit with
\* the aggregator, which a user may also switch off in place.
AgentSpecs ==
    {Blocks({"Fluentd"}),
     Blocks({"Fluentbit", "Aggregator"}),
     [Blocks({"Fluentbit"}) EXCEPT !["Aggregator"] = "off"]}

\* Graylog and the events reader come and go next to FluentD.
ServerSpecs ==
    {Blocks({"Graylog", "Fluentd"}),
     Blocks({"Fluentd", "CloudEventsReader"})}

\* One migration, for the liveness properties.
MigrationSpecs == {Blocks({"Fluentd"}), Blocks({"Fluentbit"})}
=============================================================================
