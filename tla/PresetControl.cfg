SPECIFICATION Spec
CONSTANTS
  Horizon = 3
  At <- MCAt
  PresetOf <- MCPresetOf
  WarmBy <- MCWarmBy
  Skippable <- MCSkippable
  SkipAt = 0
  SkipEnd = 3
  Late = 0
  MaxLead = 1
  Bridge = 2
  Timeout = 2
  MaxBoost = 1
  MaxMoves = 4
INVARIANTS
  TypeOK
  ScheduleObeyed
  SkipLeavesNothingBehind
PROPERTIES
  PreheatIsNotUndone
CHECK_DEADLOCK FALSE
