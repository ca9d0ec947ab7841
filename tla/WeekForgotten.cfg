SPECIFICATION Spec
CONSTANTS
  Slots = 3
  Schedules <- MCSchedules
  Calendars <- MCCalendars
  FirstDay = 12
  LastDay = 28
  MaxMoves = 0
PROPERTY StandsUntilTheBoundary
CHECK_DEADLOCK FALSE
