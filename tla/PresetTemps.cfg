SPECIFICATION Spec
CONSTANTS
  Base <- MCBase
  Offsets = {0, 1}
  EcoAtFirst = 1
  Edits <- MCEdits
  Wishes = {8}
  Reduction = 1
  MaxTime = 2
  MaxMoves = 3
INVARIANTS
  TypeOK
  EcoIsGivenBack
  BoostIsGivenBack
  TargetIsWritten
PROPERTIES
  EditStands
CHECK_DEADLOCK FALSE
