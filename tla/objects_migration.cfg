SPECIFICATION Spec
CONSTANTS
  Groups = {{"HAFluent"}, {"Fluentd"}, {"EventsReader"}, {"Graylog"}, {"Fluentbit"}}
  UserSpecs <- MigrationSpecs
  Secrets = {}
  Values = {"v1"}
  Reports <- OneRuntime
  Disturbances = {"edit", "touch", "fault", "crash", "lag"}
  MaxEvents = 2
INVARIANTS
  NothingLeftBehind
  WorkloadHasConfig
PROPERTIES
  ForeignIsKept
CHECK_DEADLOCK FALSE
