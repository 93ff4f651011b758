SPECIFICATION Spec
CONSTANTS
  AuthProxy = TRUE
  CustomContent = TRUE
  Policies = {"only-create", "force-update", "skip"}
  MaxEdits = 0
  MaxRequests = 1
  MaxFaults = 2
INVARIANTS
  TypeOK
  CompleteOnSuccess
CHECK_DEADLOCK FALSE
