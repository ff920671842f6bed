----------------------------- MODULE Instructions -----------------------------
(***************************************************************************)
(* The instructions of the virtual machine by what they ask of the operand *)
(* stack (exec.cpp) and of the cells on it (cell.cpp).  Every accessor of  *)
(* a Cell asserts that the cell is of the kind that it is about; a cell    *)
(* that is blank becomes of that kind.  An instruction that finds a cell   *)
(* of another kind stops the process.                                      *)
(*                                                                         *)
(* A cell is abstracted to the type of the value in it, more precise where *)
(* instructions depend on more:                                            *)
(***************************************************************************)
EXTENDS Ast, SequencesExt

Exactly(v)      == [k |-> "int", value |-> v]
Bool(is)    == [k |-> "bool", is |-> is]
Nil         == Simple("nil")
Blank       == Simple("blank")
\* An address leads to what holds values of a type, or to a tag or an alternative.
Address(of) == [k |-> "&", of |-> of]
\* A choice value whose tag is known.
Alternative(c) == [k |-> "alternative", choice |-> c]
\* Arrays and dictionaries just made, by their values.
Cells(values) == [k |-> "cells", values |-> values]
Dict(values)  == [k |-> "dict", values |-> values]
ClassInfo(class) == [k |-> "classinfo", class |-> class]
Nowhere == TypeFunctionPointerNowhere

\* Cell::Type
KindOf(cell) ==
    CASE cell.k \in {"Boolean", "bool"} -> "boolean"
      [] cell.k \in {"Number", "Enum", "int"} -> "number"
      [] cell.k = "String" -> "string"
      [] cell.k = "Bytes"  -> "bytes"
      [] cell.k = "Object" -> "object"
      [] cell.k \in {"&", "nil", "AnyPointer", "PointerNil", "Pointer", "ValidPointer"} -> "address"
      [] cell.k \in {"Dictionary", "dict"} -> "dictionary"
      [] cell.k \in {"Array", "Record", "Class", "Choice", "InterfacePointer",
                     "ValidInterfacePointer", "FunctionPointer", "FunctionPointerNowhere",
                     "alternative", "cells", "classinfo"} -> "array"
      [] OTHER -> "none"
Is(cell, kind) == cell = Blank \/ KindOf(cell) = kind

\* The places of the interface in the classes that implement it.
Instances(interface) ==
    {<<class, i>> \in {"Leaf"} \X (1..2) : Interfaces(class)[i] = interface}

\* The cells that a value of the type may be.  A cell is itself.
Shapes(type) ==
    CASE type.k \in {"Pointer"}    -> {Nil, TypeValidPointer(type.class)}
      [] type.k = "AnyPointer"     -> {Nil} \cup {TypeValidPointer("Leaf")}
      [] type.k = "PointerNil"     -> {Blank}
      [] type.k = "nullptr"        -> {}
      [] IsInterfacePointer(type) ->
           {Cells(<<TypeValidPointer(x[1]), Exactly(x[2] - 1)>>) : x \in Instances(type.interface)}
           \cup (IF type.k = "InterfacePointer" THEN {Cells(<<Nil, Exactly(0)>>)} ELSE {})
      [] type.k = "FunctionPointer" -> {Nowhere, type}
      [] type.k = "Choice" -> {Alternative(c) : c \in ChoiceTags}
      [] OTHER -> {type}

-----------------------------------------------------------------------------
(***************************************************************************)
(* Which cells are values of a type.  A variable that has not been         *)
(* assigned is blank, and is taken for the first of its type's values,     *)
(* where a blank cell read as what the type is made of is one.             *)
(***************************************************************************)
BlankIsAValue(type) ==
    type.k \in {"Boolean", "Number", "Enum", "String", "Bytes", "Object", "Array", "Dictionary",
                "AnyPointer", "PointerNil", "Pointer", "Record", "Dummy"}

RECURSIVE Holds(_, _)
AllHold(values, type) == \A i \in DOMAIN values : Holds(values[i], type)
Holds(cell, type) ==
    CASE type.k = "Dummy" -> TRUE
      [] type.k # "Dummy" /\ cell = Blank -> BlankIsAValue(type)
      [] type.k # "Dummy" /\ cell # Blank ->
         CASE type.k = "Boolean" -> KindOf(cell) = "boolean"
           [] type.k \in {"Number", "Enum"} -> KindOf(cell) = "number"
           [] type.k \in {"AnyPointer", "PointerNil"} -> cell.k \in {"nil", "ValidPointer"}
           [] type.k = "Pointer" -> cell \in {Nil, TypeValidPointer(type.class)}
           [] IsInterfacePointer(type) ->
                /\ cell.k = "cells" /\ Len(cell.values) = 2
                /\ \/ type.k = "InterfacePointer" /\ cell.values[1] \in {Nil, Blank}
                   \/ /\ cell.values[1].k = "ValidPointer"
                      /\ <<cell.values[1].class, cell.values[2].value + 1>> \in
                             Instances(type.interface)
           [] type.k = "FunctionPointer" -> cell \in {type, Nowhere}
           [] type.k = "Choice" ->
                \/ cell.k \in {"alternative", "Choice"}
                \/ /\ cell.k = "cells" /\ cell.values # <<>> /\ cell.values[1].k = "int"
                   /\ LET data == ChoiceData(cell.values[1].value)
                      IN  IF data = NoType THEN Len(cell.values) = 1
                          ELSE Len(cell.values) = 2 /\ Holds(cell.values[2], data)
           [] type.k = "Array" ->
                \/ /\ cell.k = "Array"
                   /\ type.of = NoType => cell.of = NoType
                   /\ \A element \in Shapes(cell.of) : Holds(element, type.of)
                \/ cell.k = "cells" /\ (cell.values = <<>> \/ AllHold(cell.values, type.of))
           [] type.k = "Dictionary" ->
                \/ /\ cell.k = "Dictionary"
                   /\ type.of = NoType => cell.of = NoType
                   /\ \A element \in Shapes(cell.of) : Holds(element, type.of)
                \/ cell.k = "dict" /\ (cell.values = <<>> \/ AllHold(cell.values, type.of))
           [] type.k = "Record" ->
                \/ cell = type
                \/ /\ cell.k = "cells" /\ Len(cell.values) = Len(Fields(type))
                   /\ \A i \in DOMAIN cell.values : Holds(cell.values[i], Fields(type)[i])
           [] type.k = "Class" ->
                /\ cell.k = "cells" /\ Len(cell.values) = Len(Fields(type))
                /\ cell.values[1] = ClassInfo(type.name)
                /\ \A i \in 2..Len(cell.values) : Holds(cell.values[i], Fields(type)[i])
           [] OTHER -> cell = type

\* INOUT: what the address leads to is read and written as of the type.
TypeOf(of) == IF of.k = "alternative" THEN TypeChoice ELSE of
LeadsTo(cell, type) == cell.k = "&" /\ TypeOf(cell.of) = type

-----------------------------------------------------------------------------
(***************************************************************************)
(* What is in an array, in a record, or in another cell made of cells.     *)
(***************************************************************************)
\* At a place that is there: types, or cells.  The place is known, or any.
ElementsAt(array, index) ==
    CASE array.k = "Array" -> {array.of} \ {NoType}
      [] array.k \in {"Record", "Class"} -> {Fields(array)[index.value + 1]}
      [] array.k = "alternative" ->
           IF index.value = 0 THEN {Exactly(array.choice)} ELSE {ChoiceData(array.choice)} \ {NoType}
      [] IsInterfacePointer(array) ->
           {cell.values[index.value + 1] : cell \in Shapes(array)}
      [] array.k = "cells" ->
           {array.values[i] : i \in IF index.k = "int"
                                    THEN DOMAIN array.values \cap {index.value + 1}
                                    ELSE DOMAIN array.values}
      [] OTHER -> {}
\* The parts of these have types of their own, and cannot be taken at any place.
IndexKnown(array, index) ==
    /\ array.k # "Choice"
    /\ array.k \in {"Record", "Class", "alternative", "InterfacePointer", "ValidInterfacePointer"}
        => index.k = "int"
EntriesOf(dictionary) ==
    CASE dictionary.k = "Dictionary" -> {dictionary.of} \ {NoType}
      [] dictionary.k = "dict" -> ToSet(dictionary.values)
      [] OTHER -> {}
ValuesOf(types) == UNION {Shapes(t) : t \in types}

\* What the address leads to.
Target(cell) == IF cell.k = "&" THEN cell.of
                ELSE IF cell.k = "ValidPointer" THEN TypeClass(cell.class)
                ELSE Simple("nowhere")

-----------------------------------------------------------------------------
(***************************************************************************)
(* An instruction is its operation and what it is about, and has args, the *)
(* cells it takes from the stack, the top one last.                        *)
(***************************************************************************)
Inputs(functype) == SelectSeq(functype.params, LAMBDA p : p.mode # "OUT")
Outputs(functype) == SelectSeq(functype.params, LAMBDA p : p.mode = "OUT")

Arity(i) ==
    CASE i.op \in {"PUSH", "ALLOC", "TRY", "END", "internal_error"} -> 0
      [] i.op \in {"LOAD", "JF", "JT", "DUP", "DROP", "NEGN", "NOTB", "EXCEPT"} -> 1
      [] i.op \in {"STORE", "arithmetic", "compare", "INDEXAR", "INDEXAW", "INDEXAV", "INDEXAN",
                   "INDEXDR", "INDEXDW", "INDEXDV", "INA", "IND", "DUPX1", "SWAP"} -> 2
      [] i.op = "CONSA" -> i.arg
      [] i.op = "CONSD" -> 2 * i.arg
      [] i.op = "CALL"  -> Len(Inputs(i.arg))
      [] i.op \in {"CALLI", "CALLV"} -> Len(Inputs(i.arg.functype)) + 1

\* The function finds its parameters in the cells it is given.
Given(functype, args) ==
    \A n \in DOMAIN Inputs(functype) :
        LET param == Inputs(functype)[n]
        IN  IF param.mode = "IN" THEN Holds(args[n], param.type) ELSE LeadsTo(args[n], param.type)
\* std::vector and std::map compare cell with cell, and Cell::operator== asserts that both
\* are of one kind.
RECURSIVE Alike(_, _)
Alike(a, b) ==
    \/ Blank \in {a, b}
    \/ /\ KindOf(a) = KindOf(b)
       /\ KindOf(a) = "array" => \A x \in ValuesOf(ElementsAt(a, Exactly(0))),
                                    y \in ValuesOf(ElementsAt(b, Exactly(0))) : Alike(x, y)
       /\ KindOf(a) = "dictionary" => \A x \in ValuesOf(EntriesOf(a)),
                                         y \in ValuesOf(EntriesOf(b)) : Alike(x, y)

Takes(i, args) ==
    LET top == Last(args)
        kinds(expected) == \A n \in DOMAIN expected : Is(args[n], expected[n])
        target == Target(args[1])
    IN  CASE i.op \in {"PUSH", "ALLOC", "TRY", "END", "DUP", "DUPX1", "DROP", "SWAP", "CONSA"} -> TRUE
          [] i.op = "internal_error" -> FALSE
          [] i.op = "CONSD" -> \A n \in DOMAIN args : n % 2 = 1 => Is(args[n], "string")
          [] i.op = "LOAD"  -> KindOf(Target(top)) = i.arg
          [] i.op = "STORE" -> /\ KindOf(Target(top)) = i.arg
                               /\ Holds(args[1], TypeOf(Target(top)))
          [] i.op \in {"JF", "JT", "NOTB"} -> kinds(<<"boolean">>)
          [] i.op = "NEGN" -> kinds(<<"number">>)
          [] i.op = "EXCEPT" -> kinds(<<"object">>)
          [] i.op = "arithmetic" -> kinds(<<"number", "number">>)
          [] i.op = "compare" -> kinds(<<i.arg.on, i.arg.on>>) /\ Alike(args[1], args[2])
          [] i.op \in {"INDEXAR", "INDEXAW"} ->
               KindOf(target) = "array" /\ Is(top, "number") /\ IndexKnown(target, top)
          [] i.op \in {"INDEXAV", "INDEXAN"} ->
               kinds(<<"array", "number">>) /\ IndexKnown(args[1], top)
          [] i.op \in {"INDEXDR", "INDEXDW"} -> KindOf(target) = "dictionary" /\ Is(top, "string")
          [] i.op = "INDEXDV" -> kinds(<<"dictionary", "string">>)
          [] i.op = "INA" -> /\ Is(top, "array")
                             /\ \A x \in ValuesOf(ElementsAt(top, TYPE_NUMBER)) : Alike(x, args[1])
          [] i.op = "IND" -> kinds(<<"string", "dictionary">>)
          [] i.op = "CALL" -> Given(i.arg, args)
          \* The function that the pointer leads to has parameters of its own.
          [] i.op = "CALLI" ->
               \/ top = Nowhere
               \/ top.k = "FunctionPointer" /\ Given(top.functype, Front(args))
          [] i.op = "CALLV" ->
               /\ Holds(top, TypeValidInterfacePointer(i.arg.interface))
               /\ Given(i.arg.functype, Front(args))

\* What is known of the outcome of a comparison.
Compared(i, a, b) ==
    LET ne(outcome) == IF i.arg.comp = "NE" THEN ~outcome ELSE outcome
    IN  IF i.arg.comp \in {"EQ", "NE"} /\ {a.k, b.k} = {"int"} THEN {Bool(ne(a.value = b.value))}
        ELSE IF i.arg.on = "address" /\ {a, b} \subseteq {Nil, Blank} THEN {Bool(ne(TRUE))}
        ELSE IF i.arg.on = "address" /\ {a.k, b.k} \in {{"ValidPointer", x} : x \in {"nil", "blank"}}
             THEN {Bool(ne(FALSE))}
        ELSE {TYPE_BOOLEAN}

\* A value, unless it is nothing, and below it the OUT values, the first on top.
Answers(functype) ==
    LET outs == Reverse([n \in DOMAIN Outputs(functype) |-> Outputs(functype)[n].type])
        types == (IF functype.returntype = TYPE_NOTHING THEN <<>> ELSE <<functype.returntype>>)
                 \o outs
    IN  {cells \in [DOMAIN types -> UNION {Shapes(types[n]) : n \in DOMAIN types}] :
            \A n \in DOMAIN types : cells[n] \in Shapes(types[n])}

\* What may be in the place of the args, where the instruction does not raise.
Gives(i, args) ==
    LET top  == Last(args)
        a    == args[1]
        each(cells) == {<<c>> : c \in cells}
        addresses(types) == {<<Address(t)>> : t \in types}
    IN  CASE i.op = "PUSH" -> each(i.arg)
          [] i.op = "ALLOC" -> {<<TypeValidPointer(i.arg)>>}
          [] i.op \in {"TRY", "END", "DROP", "JF", "JT", "STORE"} -> {<<>>}
          [] i.op = "DUP"   -> {<<a, a>>}
          [] i.op = "DUPX1" -> {<<top, a, top>>}
          [] i.op = "SWAP"  -> {<<top, a>>}
          [] i.op = "CONSA" -> {<<Cells(Reverse(args))>>}
          [] i.op = "CONSD" -> {<<Dict([n \in 1..i.arg |-> args[2 * n]])>>}
          [] i.op = "LOAD"  -> each(Shapes(Target(top)))
          [] i.op \in {"NEGN", "arithmetic"} -> {<<TYPE_NUMBER>>}
          [] i.op \in {"NOTB", "INA", "IND"} -> {<<TYPE_BOOLEAN>>}
          [] i.op = "compare" -> each(Compared(i, args[1], args[2]))
          [] i.op \in {"INDEXAR", "INDEXAW"} -> addresses(ElementsAt(Target(a), top))
          [] i.op = "INDEXAV" -> each(ValuesOf(ElementsAt(a, top)))
          [] i.op = "INDEXAN" -> each(IF a = Blank THEN {Blank} ELSE ValuesOf(ElementsAt(a, top)))
          [] i.op \in {"INDEXDR", "INDEXDW"} -> addresses(EntriesOf(Target(a)))
          [] i.op = "INDEXDV" -> each(ValuesOf(EntriesOf(a)))
          [] i.op = "CALL"  -> Answers(i.arg)
          [] i.op = "CALLI" -> IF top = Nowhere THEN {} ELSE Answers(top.functype)
          [] i.op = "CALLV" -> Answers(i.arg.functype)
          [] i.op = "EXCEPT" -> {}
=============================================================================
