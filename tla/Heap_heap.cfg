SPECIFICATION Spec
CONSTANTS
  Objects = {o1, o2}
  NFields = 1
  Globals = {"g"}
  Locals = {"p"}
  Interval = 2
  MaxStack = 2
  MaxFrames = 1
INVARIANTS
  NoDanglingPointer
PROPERTIES
  FreesTheUnreachable
  CollectionEnds
CHECK_DEADLOCK FALSE
