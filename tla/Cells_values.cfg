\* Copy-on-write implements value semantics.
SPECIFICATION Spec
CONSTANTS
  Vars <- Names
  Declarations <- Declared
  MaxNumber = 1
  MaxKey <- KeyBound
  MaxStack = 2
  WhileHeld = "numbers"
INVARIANTS AddressesLive DetachedFromCopies
PROPERTY ImplementsValues
CHECK_DEADLOCK FALSE
