SPECIFICATION Spec
CONSTANTS
  Tasks = {evaluation, service}
  Sources = {s1, s2}
  Temps = {1, 2}
  LogLen = 2
  Match = 2
  Timeout = 3
  ReloadGrace = 1
  SourceGrace = 1
  Coalesce = 1
  NextBoundary <- MCNextBoundary
  MaxClock = 4
  MaxMoves = 3
SYMMETRY Alike
INVARIANTS TypeOK EchoIsNobody RestoreIsNobody PersonIsHeard SlotIsTakenBack
CHECK_DEADLOCK FALSE
