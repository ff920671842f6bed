SPECIFICATION Spec
CONSTANTS
  Programs <- Core
  RecursionLimit = 5
  StackCells = 9
  JavaCalls = 6
INVARIANT
  EndsLikeExec
PROPERTY
  StepsLikeExec
