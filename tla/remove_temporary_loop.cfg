SPECIFICATION Spec
CONSTANTS
  Specs <- LoopSpecs
  MaxLength = 4
INVARIANTS
  IndexInRange
  LoopComputesPrefix
CHECK_DEADLOCK FALSE
