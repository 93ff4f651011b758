SPECIFICATION FairSpec
CONSTANTS
  AuthProxy = FALSE
  CustomContent = FALSE
  Policies = {"only-create", "force-update"}
  MaxEdits = 1
  MaxRequests = 0
  MaxFaults = 1
INVARIANTS
  ForceUpdateRepairs
PROPERTIES
  OnlyCreateKeepsEdits
  ForceUpdateRecovers
CHECK_DEADLOCK FALSE
