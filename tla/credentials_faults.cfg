SPECIFICATION Spec
CONSTANTS
  Users = {"admin", "root"}
  Passwords = {"p1", "p2"}
  w1 = w1
  w2 = w2
  w3 = w3
  Watchers <- ThreeWatchers
  MaxChanges = 2
  MaxRequests = 1
  MaxFaults = 1
SYMMETRY WatcherSymmetry
INVARIANTS
  TypeOK
PROPERTIES
  EditIsNeverReverted
CHECK_DEADLOCK FALSE
