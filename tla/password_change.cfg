SPECIFICATION FairSpec
CONSTANTS
  Users = {"admin"}
  Passwords = {"p1", "p2"}
  w1 = w1
  w2 = w2
  w3 = w3
  Watchers <- TwoWatchers
  MaxChanges = 1
  MaxRequests = 1
  MaxFaults = 0
PROPERTIES
  PasswordChangeIsApplied
CHECK_DEADLOCK FALSE
