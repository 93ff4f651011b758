SPECIFICATION Spec
CONSTANTS
  UserSpecs <- AgentSpecs
  MaxGeneration = 2
  MaxFaults = 1
  MaxRotations = 0
  PendingRounds = 2
  DurationValues = 16
  PatchMayFail = TRUE
  StaleReads = TRUE
INVARIANTS
  TypeOK
  ConditionsWellFormed
  FailureIsExplained
  AppliedWhenQuiet
CHECK_DEADLOCK FALSE
