SPECIFICATION Spec
CONSTANTS
  Names = {"a", "b", "c"}
  Functions = {"f", "g"}
  Texts <- Some
  None = None
  Main = "main"
INVARIANTS
  NoObjectWhileCompiling
  InitAfterImports
  NoCallBeforeInit
PROPERTIES
  ImportsAreFresh
  CyclesEnd
