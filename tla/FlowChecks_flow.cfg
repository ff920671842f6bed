SPECIFICATION Spec
CONSTANTS
  Vars = {x}
  Signatures <- AtMostOne
  ReturnsValue = TRUE
  MaxDepth = 2
INVARIANTS
  ReadsInitialised
  NoFallOff
PROPERTIES
  ChecksLeave
  OutParameterAssigned
CHECK_DEADLOCK FALSE
