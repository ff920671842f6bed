SPECIFICATION Spec
CONSTANTS
  Sources <- AllSources
INVARIANTS
  ContractKept
  ReadBack
  InnermostFirst
