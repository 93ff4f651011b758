SPECIFICATION FairSpec
CONSTANTS
  AuthProxy = FALSE
  CustomContent = FALSE
  Policies = {"only-create"}
  MaxEdits = 0
  MaxRequests = 0
  MaxFaults = 1
PROPERTIES
  OnlyCreateRecovers
CHECK_DEADLOCK FALSE
