SPECIFICATION FairSpec
CONSTANTS
  UserSpecs <- MigrationSpecs
  MaxGeneration = 2
  MaxFaults = 1
  MaxRotations = 0
  PendingRounds = 1
  DurationValues = 16
  PatchMayFail = FALSE
  StaleReads = TRUE
PROPERTIES
  EventuallyApplied
  EventuallyReportsSuccess
CHECK_DEADLOCK FALSE
