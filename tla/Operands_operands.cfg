\* The generated code against the types, and the functions of cnex against their declarations.
SPECIFICATION Spec
CONSTANT Below = 2
INVARIANT AsDeclared
PROPERTY RaiseIsFinal
\* A call ends.
CHECK_DEADLOCK FALSE
