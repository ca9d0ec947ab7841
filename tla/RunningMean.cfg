SPECIFICATION Spec
CONSTANTS
  LastDay = 4
  Slots = 3
  RollAt = 1
  Interval = 2
  Stale = 1
  MaxMoves = 5
INVARIANTS TypeOK EachDayOnce HeldWhileStale
PROPERTY NoDayIsLost
CHECK_DEADLOCK FALSE
