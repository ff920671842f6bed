----------------------------- MODULE Containers -----------------------------
(***************************************************************************)
(* What the operations on std::vector and std::map do to the contents of   *)
(* an array or a dictionary.  Contents are a function from keys to         *)
(* elements; the keys of an array are 0 .. size - 1.                       *)
(***************************************************************************)
EXTENDS Integers, FiniteSets, Sequences

\* A type is the sequence of the kinds of its nested containers, outermost
\* first; <<>> is Number.
Element(type) == Tail(type)
IsContainer(type) == type # <<>>
IsArray(type) == IsContainer(type) /\ Head(type) = "Array"

\* The types of containers that occur in the declarations of the variables.
ContainerTypes(types) ==
  UNION {{SubSeq(types[v], n, Len(types[v])) : n \in 1 .. Len(types[v])} : v \in DOMAIN types}

\* A subscript that is negative or not an integer.
NoIndex == -1
Subscripts(type, keys) == IF IsArray(type) THEN keys \cup {NoIndex} ELSE keys

Size(contents) == Cardinality(DOMAIN contents)

\* vector::resize, operator[] of a map: the keys that are added hold blank.
Grown(contents, type, key, blank) ==
  [k \in DOMAIN contents \cup (IF IsArray(type) THEN 0 .. key ELSE {key}) |->
     IF k \in DOMAIN contents THEN contents[k] ELSE blank]

\* vector::push_back
Appended(contents, x) ==
  [k \in 0 .. Size(contents) |-> IF k \in DOMAIN contents THEN contents[k] ELSE x]

\* vector::resize
Resized(contents, size, blank) ==
  [k \in 0 .. size - 1 |-> IF k \in DOMAIN contents THEN contents[k] ELSE blank]

\* vector::erase moves the later elements down; map::erase does not.
Removed(contents, type, key) ==
  IF IsArray(type)
  THEN [k \in 0 .. Size(contents) - 2 |-> contents[IF k < key THEN k ELSE k + 1]]
  ELSE [k \in DOMAIN contents \ {key} |-> contents[k]]

=============================================================================
