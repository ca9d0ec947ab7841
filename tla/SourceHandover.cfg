SPECIFICATION Spec
CONSTANTS
  NSources = 2
  NLives = 1
  MaxFailures = 1
  MaxMoves = 3
INVARIANTS
  TypeOK
  Accounted
  RepairIsCurrent
PROPERTIES
  HandsBack
  TakesOver
  ReenabledGoesOff
CHECK_DEADLOCK FALSE
