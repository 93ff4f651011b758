SPECIFICATION FairSpec
CONSTANTS
  Users = {"admin"}
  Passwords = {"p1", "p2"}
  w1 = w1
  w2 = w2
  w3 = w3
  Watchers <- TwoWatchers
  MaxChanges = 2
  MaxRequests = 1
  MaxFaults = 0
PROPERTIES
  ChangesAreFollowed
CHECK_DEADLOCK FALSE
