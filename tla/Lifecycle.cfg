SPECIFICATION Spec
CONSTANTS
  Entry = {a, b}
  Caller = {p, q}
  Nobody = nobody
  Stored = {"new"}
  MaxMoves = 4
INVARIANTS
  TypeOK
  RoomsAreServed
  OwnerIsThere
  GlobalReachesEveryRoom
PROPERTIES
  CallsReturn
CHECK_DEADLOCK FALSE
