SPECIFICATION Spec
CONSTANTS
  Nets <- MCNets
  Contexts <- MCContexts
  BoundUnits = 1
  MaxEntries = 2
  MaxRuns = 1
  MinEvents = 3
  MaxEra = 1
  MaxFacts = 3
  MaxMoves = 5
INVARIANTS TypeOK SteppedAsOne CountsOnce ResetStands AppliedIsBacked
PROPERTIES StepsTouchTheirOwn KeepsTheBaseline
CHECK_DEADLOCK FALSE
