SPECIFICATION Spec
CONSTANTS
  Slots = 3
  Schedules <- MCSchedules
  Calendars <- MCCalendars
  FirstDay = 12
  LastDay = 28
  MaxMoves = 3
INVARIANTS TypeOK InForce
PROPERTY BoundaryIsHonest
CHECK_DEADLOCK FALSE
