SPECIFICATION Spec
CONSTANTS
  Programs <- CallThenTry
  RecursionLimit = 5
  MaxInterrupts = 0
INVARIANT
  HandlerIsEnclosing
