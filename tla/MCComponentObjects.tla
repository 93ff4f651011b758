------------------------- MODULE MCComponentObjects -------------------------
(* Instances of ComponentObjects for TLC. *)
EXTENDS ComponentObjects

\* Specifications by their blocks, the Secrets of token, user and password, the
\* runtime and the variant of the rest.
MCSpec(on, token, user, password, runtime, variant) ==
    [parts    |-> [p \in Parts |-> IF p \in on THEN "on" ELSE "absent"],
     auth     |-> [c \in Agents |-> [token |-> token, user |-> user, password |-> password]],
     runtime  |-> runtime,
     complete |-> TRUE,
     variant  |-> variant]

\* One agent: the rest of the specification changes, a token takes the place of user
\* and password, the runtime is set or not.
AgentSpecs ==
    LET agents == {"Fluentd", "Fluentbit"}
    IN  {MCSpec(agents, NoSecret, "s1", "s2", NoRuntime, "a"),
         MCSpec(agents, "s2", NoSecret, NoSecret, "docker", "b")}

\* From FluentD, Fluent Bit and Graylog to Fluent Bit as forwarder and aggregator and the
\* events reader, also with a Graylog output that lacks its host.
MigrationSpecs ==
    LET target == MCSpec({"Fluentbit", "Aggregator", "CloudEventsReader"}, NoSecret,
                         NoSecret, NoSecret, "docker", "b")
    IN  {MCSpec({"Fluentd", "Fluentbit", "Graylog"}, NoSecret, NoSecret, NoSecret,
                "docker", "a"),
         target, [target EXCEPT !.complete = FALSE]}

\* The nodes agree on a runtime that is neither the default nor in a specification.
OneRuntime == {{"cri-o"}}
=============================================================================
