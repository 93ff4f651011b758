--------------------------- MODULE LoggingService ---------------------------
(***************************************************************************)
(* The LoggingService custom resource as far as the control flow of the    *)
(* operator reads it: which blocks of the specification are there, which   *)
(* components they install, and what decoding an API answer into an        *)
(* existing Go value does to a specification.                              *)
(***************************************************************************)

\* The optional blocks of LoggingServiceSpec.  A block is a Go pointer: "absent"
\* is nil.  "off" is a block whose install flag is false, which only the
\* aggregator block (field Install) and the monitoring plugin have.
Parts == {"Graylog", "Fluentd", "Fluentbit", "Aggregator", "CloudEventsReader",
          "MonitoringAgentLoggingPlugin"}

PartStates == {"absent", "off", "on"}

LoggingServiceSpec == [Parts -> PartStates]

NoSpec == [p \in Parts |-> "absent"]

\* (in *Graylog) IsInstall() and its siblings: the block is there, and for the
\* plugin also switched on.
IsInstall(spec, part) ==
    /\ spec[part] # "absent"
    /\ part = "MonitoringAgentLoggingPlugin" => spec[part] = "on"

\* The component reconcilers, in the order the controller runs them.
Order == <<"Graylog", "Fluentd", "Fluentbit", "HAFluent", "EventsReader">>

Components == {"Graylog", "Fluentd", "Fluentbit", "HAFluent", "EventsReader"}

AggregatorInstalled(spec) == spec["Aggregator"] = "on"

\* The condition at the head of each Run: install the component, or delete what
\* is left of it.
Installs(spec, c) ==
    CASE c = "Graylog"      -> IsInstall(spec, "Graylog")
      [] c = "Fluentd"      -> IsInstall(spec, "Fluentd")
      [] c = "Fluentbit"    -> IsInstall(spec, "Fluentbit") /\ ~AggregatorInstalled(spec)
      [] c = "HAFluent"     -> IsInstall(spec, "Fluentbit") /\ AggregatorInstalled(spec)
      [] c = "EventsReader" -> IsInstall(spec, "CloudEventsReader")

\* A successful status patch decodes the server's answer into the object the
\* operator holds.  JSON decoding sets the fields that are present and leaves
\* the others alone: a block added on the server appears, a block removed on
\* the server stays.
Decode(held, answer) ==
    [p \in Parts |-> IF answer[p] = "absent" THEN held[p] ELSE answer[p]]
=============================================================================
