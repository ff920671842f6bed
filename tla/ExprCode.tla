------------------------------- MODULE ExprCode -------------------------------
(***************************************************************************)
(* The code generator's part for expressions (compiler.cpp): the           *)
(* instructions that each class of node becomes, in their order.           *)
(*                                                                         *)
(* A jump carries the code of the two ways it may go, up to where they     *)
(* meet again; a loop is gone through once or not at all.  Guarded code    *)
(* carries its handler, which finds the exception on the stack.            *)
(***************************************************************************)
EXTENDS Ast, Instructions

EmitWith(op, arg) == <<[op |-> op, arg |-> arg]>>
Emit(op)          == EmitWith(op, 0)
Push(cells)       == EmitWith("PUSH", cells)
PUSHI(v)          == Push({Exactly(v)})
PUSHB(b)          == Push({Bool(b)})
CALLP(params, returntype) ==
    EmitWith("CALL", TypeFunction(returntype, [i \in DOMAIN params |-> In(params[i])]))

\* Where the jump is not taken, and where it is.
JF(next, target) == EmitWith("JF", [next |-> next, target |-> target])
JT(next, target) == EmitWith("JT", [next |-> next, target |-> target])
Try(guarded, handler) == EmitWith("TRY", [guarded |-> guarded, handler |-> handler])

-----------------------------------------------------------------------------
(***************************************************************************)
(* The types choose the instructions that load and store.                  *)
(***************************************************************************)
ScalarSuffix(type) ==
    CASE type.k = "Boolean" -> "boolean"
      [] type.k \in {"Number", "Enum"} -> "number"
      [] type.k = "String" -> "string"
      [] type.k = "Bytes"  -> "bytes"
      [] type.k = "Object" -> "object"
\* Records, choices and interface and function pointers are arrays.
CompoundSuffix(type) ==
    CASE type.k = "Dictionary" -> "dictionary" [] IsPointer(type) -> "address" [] OTHER -> "array"
Suffix(type) ==
    IF type.k \in {"Boolean", "Number", "Enum", "String", "Bytes", "Object"} THEN ScalarSuffix(type)
    ELSE CompoundSuffix(type)
generate_load(type)  == EmitWith("LOAD", Suffix(type))
generate_store(type) == EmitWith("STORE", Suffix(type))

ComparisonKind(what) ==
    CASE what = "Boolean" -> "boolean"
      [] what \in {"Numeric", "Enum"} -> "number"
      [] what = "String" -> "string"
      [] what = "Bytes"  -> "bytes"
      [] what = "Dictionary" -> "dictionary"
      [] what = "Pointer" -> "address"
      [] what \in {"Array", "Record", "Choice", "FunctionPointer"} -> "array"
generate_comparison_opcode(e) ==
    EmitWith("compare", [on |-> ComparisonKind(e.n[1]), comp |-> e.n[2]])

-----------------------------------------------------------------------------
RECURSIVE generate(_), generate_address(_, _), generate_reference_store(_),
          generate_statement(_), generate_each(_)

generate_each(nodes) ==
    IF nodes = <<>> THEN <<>> ELSE generate(Head(nodes)) \o generate_each(Tail(nodes))

\* The tag is compared with the one expected; what else there may be is not looked at.
CheckTag(choice) ==
    PUSHI(choice) \o EmitWith("compare", [on |-> "number", comp |-> "EQ"])
    \o JT(PUSHI(choice) \o CALLP(<<TYPE_NUMBER>>, TYPE_OBJECT) \o Emit("EXCEPT"), <<>>)
TestTag(choice) ==
    PUSHI(0) \o Emit("INDEXAV") \o PUSHI(choice)
    \o EmitWith("compare", [on |-> "number", comp |-> "EQ"])

(***************************************************************************)
(* Addresses: to read, or to write, where what is not there yet is made.   *)
(***************************************************************************)
Indexed(read, write, mode) == Emit(IF mode = "write" THEN write ELSE read)
address_of_variable(e) ==
    CASE e.node = "Variable" -> Push({Address(e.type)})
      [] e.node = "ChoiceVariable" -> Push({Address(Alternative(e.n))})
      [] e.node = "InoutParameter" -> Push({Address(Address(e.type))}) \o EmitWith("LOAD", "address")
address_of_element(e, mode) ==
    generate_address(e.args[1], mode) \o generate(e.args[2])
    \o (IF e.node = "ArrayReferenceIndex" THEN Indexed("INDEXAR", "INDEXAW", mode)
        ELSE Indexed("INDEXDR", "INDEXDW", mode))
\* With always_create the record is extended even if it is only read.
address_of_field(e, mode) ==
    generate_address(e.args[1], mode) \o PUSHI(e.n)
    \o Indexed("INDEXAR", "INDEXAW", IF e.node = "RecordReferenceCreate" THEN "write" ELSE mode)
address_of_alternative(e, mode) ==
    generate_address(e.args[1], "read") \o PUSHI(0) \o Emit("INDEXAR")
    \o EmitWith("LOAD", "number") \o CheckTag(e.n)
    \o generate_address(e.args[1], mode) \o PUSHI(1) \o Indexed("INDEXAR", "INDEXAW", mode)

Variables == {"Variable", "ChoiceVariable", "InoutParameter"}
Elements  == {"ArrayReferenceIndex", "DictionaryReferenceIndex"}
RecordFields == {"RecordReferenceField", "RecordReferenceCreate"}
generate_address(e, mode) ==
    CASE e.node \in Variables -> address_of_variable(e)
      [] e.node = "PointerDereference" -> generate(e.args[1])
      [] e.node \in Elements -> address_of_element(e, mode)
      [] e.node \in RecordFields -> address_of_field(e, mode)
      [] e.node = "ChoiceReference" -> address_of_alternative(e, mode)
      \* The compiler stops.
      [] OTHER -> Emit("internal_error")

generate_reference_store(e) ==
    CASE e.node = "Dummy" -> Emit("DROP")
      [] e.node = "CalledReference" -> generate(e.args[3]) \o generate_reference_store(e.args[1])
      [] e.node = "BytesReferenceIndex" ->
           generate_address(e.args[1], "write") \o generate(e.args[3])
           \o EmitWith("CALL", TypeFunction(TYPE_NOTHING,
                                  <<In(TYPE_NUMBER), Inout(TYPE_BYTES), In(TYPE_NUMBER)>>))
      [] e.node = "ObjectSubscript" ->
           generate_each(e.args) \o CALLP(<<TYPE_OBJECT, TYPE_OBJECT, TYPE_OBJECT>>, TYPE_NOTHING)
      [] OTHER -> generate_address(e, "write") \o generate_store(e.type)

(***************************************************************************)
(* Calls: the parameters in their order, then the function, then what came *)
(* out is stored, the first on top.                                        *)
(***************************************************************************)
generate_parameters(e) ==
    FlattenSeq([i \in DOMAIN e.args |->
        CASE e.functype.params[i].mode = "IN"    -> generate(e.args[i])
          [] e.functype.params[i].mode = "INOUT" -> generate_address(e.args[i], "read")
          [] e.functype.params[i].mode = "OUT"   -> <<>>])
StoreOuts(e) ==
    FlattenSeq([i \in DOMAIN e.args |->
        IF e.functype.params[i].mode = "OUT" THEN generate_reference_store(e.args[i]) ELSE <<>>])
\* These look at no element: of whatever arrays they are declared to be, they take any.
Generic == {"array__size", "array__concat"}
AnyElements(functype) ==
    [functype EXCEPT !.params = [i \in DOMAIN functype.params |-> In(TypeArray(TYPE_DUMMY))]]
generate_call(e) ==
    CASE e.node = "FunctionCall"  ->
           EmitWith("CALL", IF e.n \in Generic THEN AnyElements(e.functype) ELSE e.functype)
      [] e.node = "PointerCall"   -> generate(e.n) \o EmitWith("CALLI", [functype |-> e.functype])
      [] e.node = "InterfaceCall" ->
           generate(e.n) \o EmitWith("CALLV", [functype |-> e.functype,
                                               interface |-> e.n.type.interface])

-----------------------------------------------------------------------------
(***************************************************************************)
(* Expressions, a family of nodes at a time.                               *)
(***************************************************************************)
Of(e, i) == generate(e.args[i])

Constants == {"Constant", "ConstantNumber", "ConstantEnum", "ConstantBoolean", "ConstantChoice",
              "ConstantNil", "ConstantNowhere", "ConstantNilObject"}
generate_constant(e) ==
    CASE e.node \in {"Constant", "ConstantNumber", "ConstantEnum"} -> Push({e.type})
      [] e.node = "ConstantBoolean" -> PUSHB(e.n)
      [] e.node = "ConstantChoice" ->
           (IF e.args[1].node = "nullptr" THEN <<>> ELSE Of(e, 1)) \o PUSHI(e.n)
           \o EmitWith("CONSA", IF e.args[1].node = "nullptr" THEN 1 ELSE 2)
      [] e.node = "ConstantNil"       -> Push({Blank})
      [] e.node = "ConstantNowhere"   -> Push({Nowhere})
      [] e.node = "ConstantNilObject" -> CALLP(<<>>, TYPE_OBJECT)

Literals == {"ArrayLiteral", "RecordLiteral", "DictionaryLiteral", "ClassLiteral", "NewClass"}
generate_literal(e) ==
    CASE e.node \in {"ArrayLiteral", "RecordLiteral"} ->
           generate_each(Reverse(e.args)) \o EmitWith("CONSA", Len(e.args))
      [] e.node = "DictionaryLiteral" ->
           FlattenSeq([i \in DOMAIN e.args |-> Push({TYPE_STRING}) \o Of(e, Len(e.args) + 1 - i)])
           \o EmitWith("CONSD", Len(e.args))
      [] e.node = "ClassLiteral" ->
           generate_each(Reverse(Tail(e.args))) \o Push({ClassInfo(e.type.name)})
           \o EmitWith("CONSA", Len(e.args))
      [] e.node = "NewClass" ->
           Of(e, 1) \o EmitWith("ALLOC", e.type.class) \o Emit("DUPX1") \o EmitWith("STORE", "array")

Operators == {"UnaryMinus", "LogicalNot", "Conditional", "Try", "Disjunction", "Conjunction"}
generate_operator(e) ==
    CASE e.node = "UnaryMinus"  -> Of(e, 1) \o Emit("NEGN")
      [] e.node = "LogicalNot"  -> Of(e, 1) \o Emit("NOTB")
      [] e.node = "Conditional" -> Of(e, 1) \o JF(Of(e, 2), Of(e, 3))
      [] e.node = "Try" -> Try(Of(e, 1), Emit("DROP") \o Of(e, 2))
      [] e.node = "Disjunction" -> Of(e, 1) \o Emit("DUP") \o JT(Emit("DROP") \o Of(e, 2), <<>>)
      [] e.node = "Conjunction" -> Of(e, 1) \o Emit("DUP") \o JF(Emit("DROP") \o Of(e, 2), <<>>)

Tests == {"TypeTest", "ChoiceTest", "ArrayIn", "DictionaryIn", "ValidPointerTest"}
generate_test(e) ==
    CASE e.node = "TypeTest" ->
           IF e.args[2].node = "nullptr" THEN PUSHB(FALSE)
           ELSE Try(Of(e, 2) \o Emit("DROP") \o PUSHB(TRUE), Emit("DROP") \o PUSHB(FALSE))
      [] e.node = "ChoiceTest"   -> Of(e, 1) \o TestTag(e.n)
      [] e.node = "ArrayIn"      -> generate_each(e.args) \o Emit("INA")
      [] e.node = "DictionaryIn" -> generate_each(e.args) \o Emit("IND")
      [] e.node = "ValidPointerTest" ->
           Of(e, 1) \o Emit("DUP") \o generate_reference_store(e.args[3]) \o Of(e, 2)
           \o EmitWith("compare", [on |-> "address", comp |-> "NE"])

\* Of two comparisons in a chain, the value in the middle is taken by both.
generate_chained(c) ==
    generate(c[1].args[1]) \o generate(c[1].args[2]) \o Emit("DUPX1")
    \o generate_comparison_opcode(c[1])
    \o JF(generate(c[2].args[2]) \o generate_comparison_opcode(c[2]), Emit("DROP") \o PUSHB(FALSE))

Parts == {"ArrayValueIndex", "DictionaryValueIndex", "CalledReference", "CalledValue",
          "BytesReferenceIndex", "ObjectSubscript", "RecordValueField", "RecordValueCreate",
          "ChoiceValue", "InterfacePointerDeconstructor"}
generate_part(e) ==
    CASE e.node = "ArrayValueIndex"      -> generate_each(e.args) \o Emit("INDEXAV")
      [] e.node = "DictionaryValueIndex" -> generate_each(e.args) \o Emit("INDEXDV")
      [] e.node \in {"CalledReference", "CalledValue", "BytesReferenceIndex"} -> Of(e, 2)
      [] e.node = "ObjectSubscript" ->
           generate_each(e.args) \o CALLP(<<TYPE_OBJECT, TYPE_OBJECT>>, TYPE_OBJECT)
      [] e.node = "RecordValueField"  -> Of(e, 1) \o PUSHI(e.n) \o Emit("INDEXAV")
      [] e.node = "RecordValueCreate" -> Of(e, 1) \o PUSHI(e.n) \o Emit("INDEXAN")
      [] e.node = "ChoiceValue" ->
           Of(e, 1) \o Emit("DUP") \o PUSHI(0) \o Emit("INDEXAV") \o CheckTag(e.n)
           \o PUSHI(1) \o Emit("INDEXAV")
      [] e.node = "InterfacePointerDeconstructor" -> Of(e, 1) \o PUSHI(0) \o Emit("INDEXAV")

Calls      == {"FunctionCall", "PointerCall", "InterfaceCall"}
References == Variables \cup Elements \cup RecordFields \cup {"PointerDereference", "ChoiceReference"}
generate(e) ==
    CASE e.node = "Value" -> Push(Shapes(e.type))
      [] e.node \in Constants -> generate_constant(e)
      [] e.node \in Literals  -> generate_literal(e)
      [] e.node \in Operators -> generate_operator(e)
      [] e.node \in Tests     -> generate_test(e)
      [] e.node \in Parts     -> generate_part(e)
      [] e.node = "TypeConversion" -> Of(e, 1)
      [] e.node = "Comparison" -> generate_each(e.args) \o generate_comparison_opcode(e)
      [] e.node = "ChainedComparison" -> generate_chained(e.args)
      [] e.node = "Arithmetic" -> generate_each(e.args) \o Emit("arithmetic")
      [] e.node = "InterfacePointerConstructor" ->
           Of(e, 1) \o PUSHI(e.n) \o Emit("SWAP") \o EmitWith("CONSA", 2)
      [] e.node \in Calls -> generate_parameters(e) \o generate_call(e) \o StoreOuts(e)
      [] e.node = "StatementExpression" -> generate_statement(e.args[1]) \o Of(e, 2)
      [] e.node \in References -> generate_address(e, "read") \o generate_load(e.type)

-----------------------------------------------------------------------------
(***************************************************************************)
(* Statements.                                                             *)
(***************************************************************************)
generate_statements(stmts) ==
    FlattenSeq([i \in DOMAIN stmts |-> generate_statement(stmts[i])])

\* The clauses from the tag c on; the value stays on the stack until one is taken.
RECURSIVE generate_clauses(_, _)
generate_clauses(clauses, c) ==
    IF clauses = <<>> THEN Emit("DROP")
    ELSE Emit("DUP") \o TestTag(c)
         \o JT(generate_clauses(Tail(clauses), c + 1),
               Emit("DROP") \o generate_statement(Head(clauses)))

generate_statement(s) ==
    CASE s.node = "Assignment" -> Of(s, 2) \o generate_reference_store(s.args[1])
      [] s.node = "ExpressionStatement" ->
           Of(s, 1) \o (IF s.args[1].type = TYPE_NOTHING THEN <<>> ELSE Emit("DROP"))
      [] s.node = "Increment" ->
           generate_address(s.args[1], "write") \o Emit("DUP") \o EmitWith("LOAD", "number")
           \o Push({TYPE_NUMBER}) \o Emit("arithmetic") \o Emit("SWAP") \o EmitWith("STORE", "number")
      [] s.node = "Compound" -> generate_statements(s.args)
      [] s.node = "BaseLoop" ->
           generate_statement(s.args[1]) \o Of(s, 2)
           \o JF(<<>>, generate_statement(s.args[3]) \o generate_statement(s.args[4]))
      [] s.node = "ChoiceCase" -> Of(s, 1) \o generate_clauses(Tail(s.args), 0)
      [] s.node = "TryStatement" -> Try(generate_statement(s.args[1]), Emit("DROP"))
=============================================================================
