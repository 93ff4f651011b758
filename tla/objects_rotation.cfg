SPECIFICATION FairSpec
CONSTANTS
  Groups = {{"Fluentbit"}}
  UserSpecs <- AgentSpecs
  Secrets = {"s1", "s2"}
  Values = {"v1", "v2"}
  Reports <- OneRuntime
  Disturbances = {"edit", "rotation", "fault", "crash", "lag"}
  MaxEvents = 2
INVARIANTS
  TypeOK
  RenderedWhenQuiet
  RuntimeAgreed
PROPERTIES
  EventuallyRendered
CHECK_DEADLOCK FALSE
