SPECIFICATION Spec
CONSTANTS
  Entry = {a, b}
  Caller = {p}
  Nobody = nobody
  Stored = {"on"}
  MaxMoves = 4
PROPERTY
  ObservedRoomIsNotWritten
CHECK_DEADLOCK FALSE
