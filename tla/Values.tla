------------------------------- MODULE Values -------------------------------
(***************************************************************************)
(* What the code generated for assignments, subscripts, array methods and  *)
(* INOUT arguments promises: a variable holds a value, an array inside an  *)
(* array is part of it, and assigning it copies it.  A reference is the    *)
(* path of subscripts that leads to the element from the variable.         *)
(*                                                                         *)
(* The operand stack holds values and references, each with the static     *)
(* type by which the compiler chose the instruction.  The program is any   *)
(* sequence of instructions that respects these types.                     *)
(***************************************************************************)
EXTENDS Containers

CONSTANTS
  Vars,           \* the variables
  Declarations,   \* the types they may be declared with, a set of functions
  MaxNumber,      \* bound: numbers are 0 .. MaxNumber
  MaxKey(_),      \* bound: with variables of these types, subscripts are 0 .. MaxKey
  MaxStack        \* bound: depth of the operand stack

VARIABLES
  types,   \* the declared type of each variable
  vars,    \* the value of each variable
  stack    \* the operand stack, the top last

state == <<types, vars, stack>>

Numbers == 0 .. MaxNumber
Keys == 0 .. MaxKey(types)

\* A variable never assigned, or an element that an assignment skipped.
Blank(type) == IF IsContainer(type) THEN << >> ELSE 0

Value(type, v) == [kind |-> "value", type |-> type, value |-> v]
Reference(type, var, keys) ==
  [kind |-> "reference", type |-> type, var |-> var, keys |-> keys]

Depth == Len(stack)
Operand(i) == stack[Depth - i]
Below(n) == SubSeq(stack, 1, Depth - n)
IsValue(i) == Depth > i /\ Operand(i).kind = "value"
IsReference(i) == Depth > i /\ Operand(i).kind = "reference"

\* The value at each length of the path keys, from x down.
Along(x, keys) ==
  LET at[i \in 0 .. Len(keys)] == IF i = 0 THEN x ELSE at[i - 1][keys[i]]
  IN  at
Get(r) == Along(vars[r.var], r.keys)[Len(r.keys)]

\* x when what keys lead to is replaced with y.
Updated(x, keys, y) ==
  LET up[i \in 0 .. Len(keys)] ==
        IF i = Len(keys) THEN y ELSE [Along(x, keys)[i] EXCEPT ![keys[i + 1]] = up[i + 1]]
  IN  up[0]
Set(r, y) == [vars EXCEPT ![r.var] = Updated(@, r.keys, y)]

Sub(r, key) == Reference(Element(r.type), r.var, Append(r.keys, key))

-----------------------------------------------------------------------------
Init ==
  /\ types \in Declarations
  /\ vars = [v \in Vars |-> Blank(types[v])]
  /\ stack = << >>

Stack(s) == stack' = s /\ UNCHANGED <<types, vars>>
Both(x, s) == vars' = x /\ stack' = s /\ UNCHANGED types
Push(e) == Depth < MaxStack /\ Stack(Append(stack, e))

\* An exception is caught by a TRY that began with some part of the stack.
Raise(operands) == \E n \in operands .. Depth : Stack(Below(n))

PushReference == \E v \in Vars : Push(Reference(types[v], v, << >>))
PushNumber == \E n \in Numbers : Push(Value(<<>>, n))

\* The reference held by an INOUT parameter, whose argument is at i.
PushParameter == \E i \in 0 .. Depth - 1 : IsReference(i) /\ Push(Operand(i))

Duplicate == IsValue(0) /\ Push(Operand(0))
Drop == Depth > 0 /\ Stack(Below(1))

Literal ==
  \/ \E t \in ContainerTypes(types) : Push(Value(t, << >>))
  \/ /\ IsValue(0) /\ <<"Array">> \o Operand(0).type \in ContainerTypes(types)
     /\ Stack(Append(Below(1), Value(<<"Array">> \o Operand(0).type,
                                     Appended(<< >>, Operand(0).value))))

Load ==
  /\ IsReference(0)
  /\ Stack(Append(Below(1), Value(Operand(0).type, Get(Operand(0)))))

Store ==
  /\ IsReference(0) /\ IsValue(1)
  /\ Operand(0).type = Operand(1).type
  /\ Both(Set(Operand(0), Operand(1).value), Below(2))

\* A subscript of a reference that is read: the element must exist.
IndexRead ==
  /\ IsReference(0) /\ IsContainer(Operand(0).type)
  /\ \E k \in Subscripts(Operand(0).type, Keys) :
       IF k \in DOMAIN Get(Operand(0))
       THEN Stack(Append(Below(1), Sub(Operand(0), k)))
       ELSE Raise(1)

\* A subscript of a reference that is assigned: the element is made.
IndexWrite ==
  /\ IsReference(0) /\ IsContainer(Operand(0).type)
  /\ \E k \in Subscripts(Operand(0).type, Keys) :
       LET r == Operand(0)
       IN  IF k = NoIndex THEN Raise(1)
           ELSE Both(Set(r, Grown(Get(r), r.type, k, Blank(Element(r.type)))),
                     Append(Below(1), Sub(r, k)))

\* A subscript of a value.
IndexValue ==
  /\ IsValue(0) /\ IsContainer(Operand(0).type)
  /\ \E k \in Subscripts(Operand(0).type, Keys) :
       IF k \in DOMAIN Operand(0).value
       THEN Stack(Append(Below(1), Value(Element(Operand(0).type), Operand(0).value[k])))
       ELSE Raise(1)

Equal ==
  /\ IsValue(0) /\ IsValue(1)
  /\ Operand(0).type = Operand(1).type
  /\ Stack(Append(Below(2),
             Value(<<>>, IF Operand(0).value = Operand(1).value THEN 1 ELSE 0)))

\* The first element of an array that equals a value.
Find ==
  /\ IsValue(0) /\ IsValue(1) /\ IsArray(Operand(1).type)
  /\ Operand(0).type = Element(Operand(1).type)
  /\ LET found == {k \in DOMAIN Operand(1).value : Operand(1).value[k] = Operand(0).value}
     IN  IF found = {} THEN Raise(2)
         ELSE \E k \in found :
                /\ \A j \in found : k <= j
                /\ Stack(Append(Below(2), Value(<<>>, k)))

Increment ==
  /\ IsReference(0) /\ ~IsContainer(Operand(0).type)
  /\ Get(Operand(0)) < MaxNumber
  /\ Both(Set(Operand(0), Get(Operand(0)) + 1), Below(1))

Add ==
  /\ IsValue(0) /\ IsReference(1) /\ IsArray(Operand(1).type)
  /\ Operand(0).type = Element(Operand(1).type)
  /\ Size(Get(Operand(1))) <= MaxKey(types)
  /\ Both(Set(Operand(1), Appended(Get(Operand(1)), Operand(0).value)), Below(2))

Resize ==
  /\ IsReference(0) /\ IsArray(Operand(0).type)
  /\ \E n \in Subscripts(Operand(0).type, 0 .. MaxKey(types) + 1) :
       LET r == Operand(0)
       IN  IF n = NoIndex THEN Raise(1)
           ELSE Both(Set(r, Resized(Get(r), n, Blank(Element(r.type)))), Below(1))

Erase ==
  /\ IsReference(0) /\ IsContainer(Operand(0).type)
  /\ \E k \in Subscripts(Operand(0).type, Keys) :
       LET r == Operand(0)
       IN  IF k \in DOMAIN Get(r) \/ ~IsArray(r.type)
           THEN Both(Set(r, Removed(Get(r), r.type, k)), Below(1))
           ELSE Raise(1)

Next ==
  \/ PushReference \/ PushNumber \/ PushParameter \/ Duplicate \/ Drop \/ Literal
  \/ Load \/ Store \/ IndexRead \/ IndexWrite \/ IndexValue
  \/ Equal \/ Find \/ Increment \/ Add \/ Resize \/ Erase

Spec == Init /\ [][Next]_state

=============================================================================
