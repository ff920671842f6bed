SPECIFICATION Spec
CONSTANTS
  Conditions <- Closed
  Witnesses <- Grid
  Unit = 4
  MaxConditions = 3
  INT32_MAX = 7
  UINT32_MAX = 15
  MaxRange = 6
  Density = 2
INVARIANTS
  ClauseMatches
  NoOverlap
  NoFalseAlarm
CHECK_DEADLOCK FALSE
