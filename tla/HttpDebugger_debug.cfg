SPECIFICATION Spec
CONSTANTS
  Clients = {"c1", "c2"}
  Places <- Code
  Lines <- SourceLines
  MaxDepth = 2
  Asked <- Some
  Pieces = 2
INVARIANTS
  ConnectionsMatch
PROPERTIES
  KeepsPromise
  RequestsAnswered
CHECK_DEADLOCK FALSE
