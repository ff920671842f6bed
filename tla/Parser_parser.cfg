SPECIFICATION Spec
CONSTANTS
  Topics <- MCTopics
  MaxDepth = 3
INVARIANTS
  AcceptsTheGrammar
  OneReading
CHECK_DEADLOCK FALSE
