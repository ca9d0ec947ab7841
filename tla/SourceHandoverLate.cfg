SPECIFICATION Spec
CONSTANTS
  NSources = 2
  NLives = 1
  MaxFailures = 0
  MaxMoves = 3
INVARIANT
  SwitchOffReturnsTheSources
CHECK_DEADLOCK FALSE
