SPECIFICATION Spec
CONSTANTS
  UserSpecs <- ServerSpecs
  MaxGeneration = 1
  MaxFaults = 3
  MaxRotations = 1
  PendingRounds = 2
  DurationValues = 32
  PatchMayFail = TRUE
  StaleReads = FALSE
INVARIANTS
  CleanOnSuccess
  FailedCycleIsRetried
PROPERTIES
  FailedUntilSuccess
  KeepsPromise
CHECK_DEADLOCK FALSE
