SPECIFICATION Spec
CONSTANTS
  NSources = 2
  NLives = 2
  MaxFailures = 1
  MaxMoves = 2
INVARIANTS
  RepairIsCurrent
CHECK_DEADLOCK FALSE
