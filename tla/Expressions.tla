----------------------------- MODULE Expressions -----------------------------
(***************************************************************************)
(* The expressions and assignments of a program, one construct at a time:  *)
(* of every kind of expression, with operands of every type, what the      *)
(* analyzer makes of it and the code that is generated.  An operand is     *)
(* any expression of its type, which leaves some value of the type on the  *)
(* stack, or a variable: what holds for each construct, so, holds for what *)
(* is put together of them.                                                *)
(***************************************************************************)
EXTENDS Analysis, ExprCode

\* What a variable, a field, a parameter or a result may be declared as.
Undeclarable  == {TypePointerNil, EmptyArray, EmptyDictionary, TypeFunctionPointerNowhere}
DeclaredTypes == ExpressionTypes \ Undeclarable

Operand(form, type) == IF form = "variable" THEN VariableExpression(type) ELSE Value(type)
Number == Value(TYPE_NUMBER)

-----------------------------------------------------------------------------
(***************************************************************************)
(* The references: those whose parts are of any type, and others.          *)
(***************************************************************************)
Point == VariableExpression(TypeRecord("Point"))
\* A reference that is not an element of another, and what has the others as elements.
Whole(kind, type) ==
    CASE kind = "variable"   -> VariableExpression(type)
      [] kind = "parameter"  -> InoutParameter(type)
      [] kind = "dummy"      -> DummyExpression
      [] kind = "array"      -> VariableExpression(TypeArray(type))
      [] kind = "dictionary" -> VariableExpression(TypeDictionary(type))
      [] kind = "string"     -> VariableExpression(TYPE_STRING)
      [] kind = "bytes"      -> VariableExpression(TYPE_BYTES)
      [] kind = "object"     -> VariableExpression(TYPE_OBJECT)
Dotted(kind) ==
    LET dot(base, field, checked) == analyze_Dot(base, field, checked)
    IN  CASE kind = "field a"    -> dot(Point, 0, FALSE)
          [] kind = "field b"    -> dot(Point, 1, FALSE)
          [] kind = "field next" -> dot(VariableExpression(TypeRecord("Link")), 0, FALSE)
          [] kind = "circle"     -> dot(ChoiceVariable(0), 0, TRUE)
          [] kind = "name"       -> dot(ChoiceVariable(1), 1, TRUE)
          [] kind = "property"   -> dot(VariableExpression(TYPE_OBJECT), 0, FALSE)
          [] kind = "field v"    -> analyze_Arrow(Value(TypeValidPointer("Leaf")), 1)
          [] kind = "field w"    -> analyze_Arrow(Value(TypeValidPointer("Leaf")), 2)
DottedKinds ==
    {"field a", "field b", "field next", "circle", "name", "property", "field v", "field w"}

\* What each of the others is an element of.
ElementKinds ==
    ("element" :> "array" @@ "last element" :> "array" @@ "element of b" :> "field b"
       @@ "entry" :> "dictionary" @@ "of object" :> "object"
       @@ "character" :> "string" @@ "last character" :> "string" @@ "character of name" :> "name"
       @@ "byte" :> "bytes" @@ "last byte" :> "bytes")
Subscripted(kind, base) ==
    analyze_Subscript(base, IF kind \in {"entry", "of object"} THEN Value(TYPE_STRING) ELSE Number,
                      kind \in {"last element", "last character", "last byte"})
Sequence(kind, type) == IF kind \in DottedKinds THEN Dotted(kind) ELSE Whole(kind, type)
Element(kind, type)  == Subscripted(kind, Sequence(ElementKinds[kind], type))

Reference(kind, type) ==
    IF kind \in {"part", "part of element"}
    THEN analyze_RangeSubscript(IF kind = "part" THEN Whole("variable", type)
                                ELSE Subscripted("element", Whole("array", type)),
                                Number, Number)
    ELSE IF kind \in DOMAIN ElementKinds THEN Element(kind, type)
    ELSE Sequence(kind, type)

Sliced == {TYPE_STRING, TYPE_BYTES, TypeArray(TYPE_NUMBER), TypeArray(TypePointer("Leaf"))}
TheReferences ==
    ({"variable", "parameter", "element", "last element", "entry"} \X DeclaredTypes)
    \cup ({"part", "part of element"} \X Sliced)
    \cup ({"dummy", "field a", "field b", "element of b", "field next", "field v", "field w",
           "circle", "name", "character", "character of name", "last character", "byte",
           "last byte", "of object", "property"} \X {TYPE_DUMMY})

-----------------------------------------------------------------------------
(***************************************************************************)
(* The constructs, by what they are made of.                               *)
(***************************************************************************)
Forms == {"value", "variable"}
Modes == {"IN", "INOUT", "OUT"}
Types == ExpressionTypes
Simples == {TYPE_BOOLEAN, TYPE_NUMBER, TYPE_STRING, TYPE_OBJECT, TypeEnum, TypePointerNil,
            TypePointer("Leaf"), TypeArray(TYPE_OBJECT)}
Made == {TypeRecord("Point"), TypeRecord("Link"), TypeClass("Leaf")}

Operands ==
    [variable    |-> TheReferences,
     default     |-> DeclaredTypes,
     convert     |-> (DeclaredTypes \cup {TYPE_DUMMY}) \X Types,
     array       |-> Types \X Types,
     dictionary  |-> Types \X Types,
     range       |-> Types \X Types,
     dot         |-> Forms \X Types \X (0..1),
     arrow       |-> Types \X (1..2),
     subscript   |-> Forms \X Types \X Types \X BOOLEAN,
     part        |-> Forms \X Types \X Simples,
     interpolate |-> Types \X Types,
     enum        |-> {TYPE_STRING, TYPE_NUMBER} \X Types \X BOOLEAN,
     choice      |-> ChoiceTags \X Types,
     record      |-> Made \X (1..2) \X Types,
     call        |-> Modes \X DeclaredTypes \X Forms \X Types,
     results     |-> TheReferences,
     pointer     |-> Types \X Forms \X Types,
     variadic    |-> DeclaredTypes \X Types,
     method      |-> Forms \X Types \X {"IN", "INOUT"},
     invoke      |-> Types,
     arrowcall   |-> Types \X {TYPE_NOTHING, TYPE_NUMBER} \X Types,
     unary       |-> {"+", "-", "NOT"} \X Types,
     arithmetic  |-> {"ADDN", "intdiv"} \X Types \X Types,
     concat      |-> Types \X Types,
     comparison  |-> {"EQ", "NE", "LT"} \X Types \X Types,
     chained     |-> Simples \X Simples \X Simples,
     typetest    |-> Types \X (DeclaredTypes \cup {TypeClass("Leaf")}),
     choicetest  |-> Types \X ChoiceTags,
     in          |-> Types \X Types,
     junction    |-> {"Conjunction", "Disjunction"} \X Types \X Types,
     conditional |-> {TYPE_BOOLEAN, TYPE_OBJECT, TYPE_NUMBER} \X Types \X Types,
     try         |-> Types \X Types,
     valid       |-> Types,
     assign      |-> TheReferences,
     increment   |-> TheReferences]
Constructs == DOMAIN Operands

\* IN, INOUT or OUT, the type; the result is another argument's type, or nothing.
Function(mode, type) ==
    TypeFunction(IF mode = "OUT" THEN TYPE_NOTHING ELSE type, <<[mode |-> mode, type |-> type]>>)

\* The node that a construct with the reference becomes, or NULL.
ReferenceTree(construct, ref) ==
    LET type == IF ref.type = TYPE_DUMMY THEN TYPE_NUMBER ELSE ref.type
    IN  CASE construct = "variable"  -> IF ref.node = "Dummy" THEN NULL ELSE ref
          [] construct = "results"   ->
               analyze_function_call(
                 TypeFunction(TYPE_BOOLEAN, <<Out(TYPE_STRING), Inout(type), Out(type)>>),
                 <<VariableExpression(TYPE_STRING), VariableExpression(type), ref>>)
          [] construct = "assign"    -> analyze_Assignment(ref, Value(type))
          [] construct = "increment" -> analyze_Increment(ref)

\* The node that a construct of the operands of these types becomes, or NULL.
Tree(construct, of) ==
    LET value(i) == Value(of[i])
    IN
    CASE construct \in {"variable", "results", "assign", "increment"} ->
           ReferenceTree(construct, Reference(of[1], of[2]))
      [] construct = "default"  -> make_default_value(of)
      [] construct = "convert"  -> convert(of[1], value(2))
      [] construct = "array"    -> analyze_ArrayLiteral(<<value(1), value(2)>>)
      [] construct = "dictionary" -> analyze_DictionaryLiteral(<<value(1), value(2)>>)
      [] construct = "range"    -> analyze_ArrayLiteralRange(value(1), value(2), Number)
      [] construct = "dot" ->
           IF of[2] = TypeChoice THEN analyze_Dot(ChoiceVariable(of[3]), of[3], of[1] = "variable")
           ELSE IF of[2] = TypeRecord("Link") /\ of[3] = 1 THEN NULL
           ELSE analyze_Dot(Operand(of[1], of[2]), of[3], FALSE)
      [] construct = "arrow"     -> IF of[1].k = "ValidPointer" /\ of[1].class # "Leaf" THEN NULL
                                    ELSE analyze_Arrow(value(1), of[2])
      [] construct = "subscript" -> analyze_Subscript(Operand(of[1], of[2]), value(3), of[4])
      [] construct = "part" -> analyze_RangeSubscript(Operand(of[1], of[2]), value(3), Number)
      [] construct = "interpolate" -> analyze_InterpolatedString(value(1), value(2))
      [] construct = "enum" ->
           analyze_enum_call("CREATE", of[1], value(2), IF of[3] THEN Value(TypeEnum) ELSE NULL)
      [] construct = "choice" -> analyze_choice_call(of[1], value(2))
      [] construct = "record" ->
           LET literal == IF of[2] + 1 > Len(Fields(of[1])) THEN NULL
                          ELSE analyze_record_init(of[1], of[2], value(3))
           IN  IF of[1].k = "Class" THEN analyze_NewClass(of[1], literal) ELSE literal
      [] construct = "call" ->
           analyze_function_call(Function(of[1], of[2]), <<Operand(of[3], of[4])>>)
      [] construct = "pointer"  -> analyze_pointer_call(value(1), <<Operand(of[2], of[3])>>)
      [] construct = "variadic" -> analyze_variadic_call(of[1], <<value(2), Value(of[1])>>)
      [] construct = "method"   ->
           analyze_method_call(Operand(of[1], of[2]), TypeFunction(TYPE_NUMBER,
                                   <<[mode |-> of[3], type |-> of[2]]>>))
      [] construct = "invoke"    -> analyze_object_call(Value(TYPE_OBJECT), Value(of))
      [] construct = "arrowcall" -> analyze_arrow_method_call(value(1), of[2], value(3))
      [] construct = "unary" ->
           (CASE of[1] = "+" -> analyze_UnaryPlus(value(2))
              [] of[1] = "-" -> analyze_UnaryMinus(value(2))
              [] of[1] = "NOT" -> analyze_LogicalNot(value(2)))
      [] construct = "arithmetic" -> analyze_Arithmetic(of[1], value(2), value(3))
      [] construct = "concat"     -> analyze_Concatenation(value(1), value(2))
      [] construct = "comparison" ->
           analyze_comparison(IF of[2] = TypePointerNil THEN ConstantNilExpression ELSE value(2),
                              of[1],
                              IF of[3] = TypePointerNil THEN ConstantNilExpression ELSE value(3))
      [] construct = "chained" ->
           analyze_ChainedComparison(value(1), "EQ", value(2), "LE", value(3))
      [] construct = "typetest"   -> analyze_TypeTest(value(1), of[2])
      [] construct = "choicetest" -> analyze_ChoiceTest(value(1), of[2])
      [] construct = "in"         -> analyze_Membership(value(1), value(2))
      [] construct = "junction"   -> analyze_Junction(of[1], value(2), value(3))
      [] construct = "conditional" -> analyze_Conditional(value(1), value(2), value(3))
      [] construct = "try"        -> analyze_Try(value(1), value(2))
      [] construct = "valid"      -> analyze_ValidPointer(Value(of))

\* A program has the construct, and compiling it ends.
Accepted(tree) == tree.node \notin {"nullptr", "internal_error"}

Statements == {"assign", "increment"}
Code(construct, tree) == IF construct \in Statements THEN generate_statement(tree) ELSE generate(tree)
\* What the expression is used for: what it is converted to, or its own type.
ResultType(construct, of, tree) ==
    CASE construct \in Statements -> TYPE_NOTHING
      [] construct = "default" -> of
      [] construct = "convert" -> of[1]
      [] OTHER -> tree.type
=============================================================================
