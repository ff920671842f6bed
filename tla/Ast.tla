--------------------------------- MODULE Ast ---------------------------------
(***************************************************************************)
(* The types and the expressions of the abstract syntax tree (ast.h).      *)
(***************************************************************************)
EXTENDS Integers, Sequences

(***************************************************************************)
(* The types of a Neon program as the analyzer has them (ast.h).  The      *)
(* program whose types these are declares one type of each kind, enough    *)
(* for every rule about them to matter.                                    *)
(***************************************************************************)
Simple(kind) == [k |-> kind]

TYPE_NOTHING == Simple("Nothing")
TYPE_DUMMY   == Simple("Dummy")
TYPE_BOOLEAN == Simple("Boolean")
TYPE_NUMBER  == Simple("Number")
TYPE_STRING  == Simple("String")
TYPE_BYTES   == Simple("Bytes")
TYPE_OBJECT  == Simple("Object")

NoType == Simple("nullptr")

\* The element type of an empty literal is nullptr.
TypeArray(elementtype)      == [k |-> "Array", of |-> elementtype]
TypeDictionary(elementtype) == [k |-> "Dictionary", of |-> elementtype]
EmptyArray      == TypeArray(NoType)
EmptyDictionary == TypeDictionary(NoType)

TYPE_ARRAY_STRING      == TypeArray(TYPE_STRING)
TYPE_ARRAY_OBJECT      == TypeArray(TYPE_OBJECT)
TYPE_DICTIONARY_OBJECT == TypeDictionary(TYPE_OBJECT)

\* NIL's own type refers to no class, as does a pointer out of an interface pointer.
TypePointerNil               == Simple("PointerNil")
AnyPointer                   == Simple("AnyPointer")
TypePointer(class)           == [k |-> "Pointer", class |-> class]
TypeValidPointer(class)      == [k |-> "ValidPointer", class |-> class]
TypeInterfacePointer(i)      == [k |-> "InterfacePointer", interface |-> i]
TypeValidInterfacePointer(i) == [k |-> "ValidInterfacePointer", interface |-> i]

In(type)    == [mode |-> "IN", type |-> type]
Inout(type) == [mode |-> "INOUT", type |-> type]
Out(type)   == [mode |-> "OUT", type |-> type]
TypeFunction(returntype, params) ==
    [k |-> "Function", returntype |-> returntype, params |-> params]
TypeFunctionPointer(functype) == [k |-> "FunctionPointer", functype |-> functype]
TypeFunctionPointerNowhere    == Simple("FunctionPointerNowhere")

TypeRecord(name) == [k |-> "Record", name |-> name]
TypeClass(name)  == [k |-> "Class", name |-> name]
TypeEnum         == Simple("Enum")
TypeChoice       == Simple("Choice")

-----------------------------------------------------------------------------
(***************************************************************************)
(* The declarations of the program.                                        *)
(***************************************************************************)
\* TYPE Point IS RECORD a: Number; b: Array<Number>
\* TYPE Link IS RECORD next: POINTER TO Leaf
\* TYPE Leaf IS CLASS IMPLEMENTS Other, Shown; v: Number; w: String
\* The first field of a class is the pointer to the class, __classtype.
Fields(type) ==
    CASE type = TypeRecord("Point") -> <<TYPE_NUMBER, TypeArray(TYPE_NUMBER)>>
      [] type = TypeRecord("Link")  -> <<TypePointer("Leaf")>>
      [] type.k = "Class"           -> <<AnyPointer, TYPE_NUMBER, TYPE_STRING>>

Interfaces(class) == IF class = "Leaf" THEN <<"Other", "Shown">> ELSE <<>>

\* TYPE Shape IS CHOICE circle: Number; name: String; dot
ChoiceTags == {0, 1, 2}
ChoiceData(value) == CASE value = 0 -> TYPE_NUMBER [] value = 1 -> TYPE_STRING [] OTHER -> NoType

NumberToNumber == TypeFunction(TYPE_NUMBER, <<In(TYPE_NUMBER)>>)
NumberToObject == TypeFunction(TYPE_OBJECT, <<In(TYPE_NUMBER)>>)
ObjectToNumber == TypeFunction(TYPE_NUMBER, <<In(TYPE_OBJECT)>>)
ChangesNumber  == TypeFunction(TYPE_NOTHING, <<Inout(TYPE_NUMBER)>>)

ScalarTypes  == {TYPE_BOOLEAN, TYPE_NUMBER, TYPE_STRING, TYPE_BYTES}
PointerTypes == {TypePointerNil, TypePointer("Leaf"), TypeValidPointer("Leaf"),
                 TypePointer("Branch")}
InterfacePointerTypes == {TypeInterfacePointer("Shown"), TypeValidInterfacePointer("Shown")}
FunctionPointerTypes ==
    {TypeFunctionPointer(f) : f \in {NumberToNumber, NumberToObject, ObjectToNumber,
                                     ChangesNumber}}
    \cup {TypeFunctionPointerNowhere}
ArrayTypes ==
    {EmptyArray} \cup
    {TypeArray(t) : t \in {TYPE_NUMBER, TYPE_STRING, TYPE_OBJECT, TypePointer("Leaf"),
                           TypeValidPointer("Leaf"), TypeArray(TYPE_NUMBER)}}
DictionaryTypes ==
    {EmptyDictionary} \cup {TypeDictionary(t) : t \in {TYPE_NUMBER, TYPE_STRING, TYPE_OBJECT}}
RecordTypes == {TypeRecord("Point"), TypeRecord("Link")}

\* The types of the expressions a program has.
ExpressionTypes ==
    ScalarTypes \cup PointerTypes \cup InterfacePointerTypes \cup FunctionPointerTypes
    \cup ArrayTypes \cup DictionaryTypes \cup RecordTypes
    \cup {TYPE_OBJECT, TypeEnum, TypeChoice}

\* dynamic_cast: a pointer known to be valid is a pointer, and NIL is one too.
IsArray(t)            == t.k = "Array"
IsDictionary(t)       == t.k = "Dictionary"
IsRecord(t)           == t.k \in {"Record", "Class"}
IsPointer(t)          == t.k \in {"Pointer", "ValidPointer", "PointerNil", "AnyPointer"}
IsValidPointer(t)     == t.k = "ValidPointer"
IsInterfacePointer(t) == t.k \in {"InterfacePointer", "ValidInterfacePointer"}
IsFunctionPointer(t)  == t.k \in {"FunctionPointer", "FunctionPointerNowhere"}
HasReftype(t)         == t.k \in {"Pointer", "ValidPointer"}

-----------------------------------------------------------------------------
(***************************************************************************)
(* The expressions of the abstract syntax tree (ast.h): what each class of *)
(* node is made of, and the type its constructor gives it.  What a node    *)
(* stands for at run time is not here: code is generated from the class    *)
(* alone, so that it matters whether the type promised is the one made.    *)
(***************************************************************************)
\* args are its operands; n, where it has one, an index, a value or a name.
NodeWith(class, type, args, n) == [node |-> class, type |-> type, args |-> args, n |-> n]
Node(class, type, args) == NodeWith(class, type, args, 0)

\* nullptr, and a constructor that ended in internal_error.
NULL           == Node("nullptr", NoType, <<>>)
internal_error == Node("internal_error", NoType, <<>>)

\* Any expression of the type that is no reference.
Value(type) == Node("Value", type, <<>>)

ConstantNumberExpression(n) == NodeWith("ConstantNumber", TYPE_NUMBER, <<>>, n)
Constant(type) == Node("Constant", type, <<>>)
ConstantBooleanExpression(b)    == NodeWith("ConstantBoolean", TYPE_BOOLEAN, <<>>, b)
ConstantStringExpression        == Constant(TYPE_STRING)
ConstantBytesExpression         == Constant(TYPE_BYTES)
ConstantEnumExpression(n)       == NodeWith("ConstantEnum", TypeEnum, <<>>, n)
ConstantChoiceExpression(n, e)  == NodeWith("ConstantChoice", TypeChoice, <<e>>, n)
ConstantNilExpression     == Node("ConstantNil", TypePointerNil, <<>>)
ConstantNowhereExpression == Node("ConstantNowhere", TypeFunctionPointerNowhere, <<>>)
ConstantNilObject         == Node("ConstantNilObject", TypePointerNil, <<>>)
TypeConversionExpression(type, e) == Node("TypeConversion", type, <<e>>)

ArrayLiteralExpression(elementtype, elements) ==
    Node("ArrayLiteral", TypeArray(elementtype), elements)
DictionaryLiteralExpression(elementtype, values) ==
    Node("DictionaryLiteral", TypeDictionary(elementtype), values)
RecordLiteralExpression(type, values) == Node("RecordLiteral", type, values)
ClassLiteralExpression(type, values)  == Node("ClassLiteral", type, values)
NewClassExpression(type, value) == Node("NewClass", TypeValidPointer(type.name), <<value>>)

UnaryMinusExpression(e) == Node("UnaryMinus", TYPE_NUMBER, <<e>>)
LogicalNotExpression(e) == Node("LogicalNot", TYPE_BOOLEAN, <<e>>)
ConditionalExpression(condition, left, right) ==
    IF left.type # right.type THEN internal_error
    ELSE Node("Conditional", left.type, <<condition, left, right>>)
\* One trap, for an exception that has no name, whose handler is an expression.
TryExpression(e, handler) == Node("Try", e.type, <<e, handler>>)
Junction(class, left, right) ==
    IF {left.type, right.type} # {TYPE_BOOLEAN} THEN internal_error
    ELSE Node(class, TYPE_BOOLEAN, <<left, right>>)
DisjunctionExpression(left, right) == Junction("Disjunction", left, right)
ConjunctionExpression(left, right) == Junction("Conjunction", left, right)

TypeTestExpression(before, after)  == Node("TypeTest", TYPE_BOOLEAN, <<before, after>>)
ChoiceTestExpression(e, choice)    == NodeWith("ChoiceTest", TYPE_BOOLEAN, <<e>>, choice)
ArrayInExpression(left, right)      == Node("ArrayIn", TYPE_BOOLEAN, <<left, right>>)
DictionaryInExpression(left, right) == Node("DictionaryIn", TYPE_BOOLEAN, <<left, right>>)

\* A comparison says what it compares; comp is "EQ", "LT"...
ComparisonExpression(what, left, right, comp) ==
    [node |-> "Comparison", type |-> TYPE_BOOLEAN, args |-> <<left, right>>,
     n |-> <<what, comp>>]
ChainedComparisonExpression(comps) == Node("ChainedComparison", TYPE_BOOLEAN, comps)
ValidPointerExpression(var, ptr) ==
    Node("ValidPointerTest", TYPE_BOOLEAN, <<ptr, ConstantNilExpression, var>>)

Arithmetic(op, left, right) ==
    IF left.type # TYPE_NUMBER \/ right.type # TYPE_NUMBER THEN internal_error
    ELSE NodeWith("Arithmetic", TYPE_NUMBER, <<left, right>>, op)
AdditionExpression(left, right)    == Arithmetic("ADDN", left, right)
SubtractionExpression(left, right) == Arithmetic("SUBN", left, right)

-----------------------------------------------------------------------------
(***************************************************************************)
(* References.                                                             *)
(***************************************************************************)
VariableExpression(type) == Node("Variable", type, <<>>)
\* A variable that now holds the alternative c of its choice type.
ChoiceVariable(c) == NodeWith("ChoiceVariable", TypeChoice, <<>>, c)
\* The caller's variable, which an INOUT parameter leads to.
InoutParameter(type) == Node("InoutParameter", type, <<>>)
DummyExpression          == Node("Dummy", TYPE_DUMMY, <<>>)
PointerDereferenceExpression(type, ptr) == Node("PointerDereference", type, <<ptr>>)

ArrayReferenceIndexExpression(type, array, index) ==
    Node("ArrayReferenceIndex", type, <<array, index>>)
ArrayValueIndexExpression(type, array, index) ==
    Node("ArrayValueIndex", type, <<array, index>>)
DictionaryReferenceIndexExpression(type, dictionary, index) ==
    Node("DictionaryReferenceIndex", type, <<dictionary, index>>)
DictionaryValueIndexExpression(type, dictionary, index) ==
    Node("DictionaryValueIndex", type, <<dictionary, index>>)

\* An element or a range of a String or of Bytes, or a range of an Array, is read
\* and written by calls.
CalledIndex(class, type, ref, load, store) == Node(class, type, <<ref, load, store>>)

ObjectSubscriptExpression(obj, index) == Node("ObjectSubscript", TYPE_OBJECT, <<obj, index>>)

\* n is the field's place.
RecordReferenceFieldExpression(type, ref, field, always_create) ==
    NodeWith(IF always_create THEN "RecordReferenceCreate" ELSE "RecordReferenceField",
             type, <<ref>>, field)
RecordValueFieldExpression(type, rec, field, always_create) ==
    NodeWith(IF always_create THEN "RecordValueCreate" ELSE "RecordValueField",
             type, <<rec>>, field)
ChoiceReferenceExpression(type, e, choice) == NodeWith("ChoiceReference", type, <<e>>, choice)
ChoiceValueExpression(type, e, choice)     == NodeWith("ChoiceValue", type, <<e>>, choice)

ReferenceNodes ==
    {"Variable", "ChoiceVariable", "InoutParameter", "Dummy", "PointerDereference", "ArrayReferenceIndex",
     "DictionaryReferenceIndex", "CalledReference", "BytesReferenceIndex", "ObjectSubscript",
     "RecordReferenceCreate", "RecordReferenceField", "ChoiceReference"}
IsReference(e) == e.node \in ReferenceNodes
can_generate_address(e) ==
    IsReference(e) /\ e.node \notin {"Dummy", "CalledReference", "BytesReferenceIndex",
                                     "ObjectSubscript"}

-----------------------------------------------------------------------------
(***************************************************************************)
(* Interface pointers, calls and statements inside expressions.            *)
(***************************************************************************)
InterfacePointerConstructor(type, e, index) ==
    NodeWith("InterfacePointerConstructor", type, <<e>>, index)
InterfacePointerDeconstructor(e) == Node("InterfacePointerDeconstructor", AnyPointer, <<e>>)

\* The functype of func decides the type; a call by dispatch finds the function in it.
FunctionCall(name, functype, args) ==
    [node |-> "FunctionCall", type |-> functype.returntype, args |-> args, n |-> name,
     functype |-> functype]
DispatchedCall(how, functype, args, dispatch) ==
    [node |-> how, type |-> functype.returntype, args |-> args, n |-> dispatch,
     functype |-> functype]

StatementExpression(stmt, e) == Node("StatementExpression", e.type, <<stmt, e>>)

\* Statements have no type.
Assignment(variable, e)  == Node("Assignment", TYPE_NOTHING, <<variable, e>>)
ExpressionStatement(e)   == Node("ExpressionStatement", TYPE_NOTHING, <<e>>)
IncrementStatement(ref)  == Node("Increment", TYPE_NOTHING, <<ref>>)
CompoundStatement(stmts) == Node("Compound", TYPE_NOTHING, stmts)
\* The loop ends where the condition, the first of its statements, holds.
BaseLoopStatement(prologue, condition, body, tail) ==
    Node("BaseLoop", TYPE_NOTHING, <<prologue, condition, body, tail>>)
ChoiceCase(e, clauses) == Node("ChoiceCase", TYPE_NOTHING, <<e>> \o clauses)
\* The trap does nothing.
TryStatement(stmt)     == Node("TryStatement", TYPE_NOTHING, <<stmt>>)
=============================================================================
