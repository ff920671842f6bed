------------------------------ MODULE Analysis ------------------------------
(***************************************************************************)
(* Which expressions of a program are accepted, and the nodes that they    *)
(* become: Analyzer::analyze of the parse tree's expressions, given the    *)
(* nodes that their operands have become.  NULL stands for every error     *)
(* that the analyzer reports, which ends the compilation.                  *)
(*                                                                         *)
(* Names, and the modules they are looked up in, are left out: so are the  *)
(* checks that are only about names.  Nullptr, where the source puts the   *)
(* result of a failed conversion into a node, is NULL too, as an operand.  *)
(***************************************************************************)
EXTENDS Ast, FiniteSets

-----------------------------------------------------------------------------
(***************************************************************************)
(* Conversions: where a value of one type may stand for another (is_       *)
(* structure_compatible, make_converter), the expression it becomes there, *)
(* and the value a variable of the type has before one is assigned.  A     *)
(* type that the source compares by identity is compared by what it says.  *)
(***************************************************************************)

\* A call of a function the compiler itself looks up, all of whose parameters are IN.
Call(name, params, returntype, args) ==
    FunctionCall(name, TypeFunction(returntype, [i \in DOMAIN params |-> In(params[i])]), args)

makeObject(e)      == Call("object__make", <<e.type>>, TYPE_OBJECT, <<e>>)
getObject(type, e) == Call("object__get", <<TYPE_OBJECT>>, type, <<e>>)
makeNull           == Call("object__makeNull", <<>>, TYPE_OBJECT, <<>>)
makeArray(e)       == Call("object__makeArray", <<TYPE_ARRAY_OBJECT>>, TYPE_OBJECT, <<e>>)
makeDictionary(e) ==
    Call("object__makeDictionary", <<TYPE_DICTIONARY_OBJECT>>, TYPE_OBJECT, <<e>>)

RECURSIVE is_structure_compatible(_, _)
is_structure_compatible(type, rhs) ==
    CASE IsArray(type) \/ IsDictionary(type) ->
           /\ rhs.k = type.k
           /\ type.of = NoType \/ is_structure_compatible(type.of, rhs.of)
      [] IsPointer(type) -> /\ IsPointer(rhs)
                            /\ HasReftype(type) =>
                                  (HasReftype(rhs) /\ type.class = rhs.class)
      [] OTHER -> type = rhs

\* The place of the interface among those of the class, or -1.
InterfaceIndex(type, pointer) ==
    LET places == IF HasReftype(pointer)
                  THEN {i \in DOMAIN Interfaces(pointer.class) :
                           Interfaces(pointer.class)[i] = type.interface}
                  ELSE {}
    IN  IF places = {} THEN -1 ELSE (CHOOSE i \in places : TRUE) - 1

(***************************************************************************)
(* make_converter(from) # nullptr.                                         *)
(***************************************************************************)
PartsOf(type) ==
    IF IsRecord(type) THEN {Fields(type)[i] : i \in DOMAIN Fields(type)}
    ELSE {ChoiceData(c) : c \in ChoiceTags} \ {NoType}

\* A function of type from may be called where one of type type is.
Callable(type, from) ==
    /\ (type.returntype = TYPE_NOTHING) = (from.returntype = TYPE_NOTHING)
    /\ DOMAIN type.params = DOMAIN from.params
    /\ \A i \in DOMAIN type.params : type.params[i].mode = from.params[i].mode

RECURSIVE Convertible(_, _)
Convertible(type, from) ==
    CASE type \in ScalarTypes \cup {TypeEnum} -> from \in {type, TYPE_OBJECT}
      [] type = TYPE_OBJECT ->
           \/ from \in ScalarTypes \cup {TYPE_OBJECT, TypePointerNil, TypeEnum}
           \/ /\ IsArray(from) \/ IsDictionary(from)
              /\ from.of = NoType \/ Convertible(TYPE_OBJECT, from.of)
           \/ /\ IsRecord(from) \/ from = TypeChoice
              /\ \A t \in PartsOf(from) : Convertible(TYPE_OBJECT, t)
      [] IsArray(type) \/ IsDictionary(type) ->
           \/ is_structure_compatible(type, from)
           \/ from = TYPE_OBJECT /\ Convertible(type.of, TYPE_OBJECT)
           \/ from.k = type.k /\ (from.of = NoType \/ Convertible(type.of, from.of))
      [] type.k = "Record" \/ type = TypeChoice ->
           \/ from = type
           \/ from = TYPE_OBJECT /\ \A t \in PartsOf(type) : Convertible(t, TYPE_OBJECT)
      [] type.k = "Pointer" ->
           from = TypePointerNil \/ (HasReftype(from) /\ from.class = type.class)
      [] type.k = "InterfacePointer" ->
           \/ from = TypePointerNil
           \/ (IsInterfacePointer(from) /\ from.interface = type.interface)
           \/ InterfaceIndex(type, from) >= 0
      [] type.k = "ValidInterfacePointer" ->
           from = type \/ (IsValidPointer(from) /\ InterfaceIndex(type, from) >= 0)
      [] type.k = "FunctionPointer" ->
           \/ from = TypeFunctionPointerNowhere
           \/ /\ from.k = "FunctionPointer"
              /\ LET to == type.functype
                     f  == from.functype
                 IN  /\ Callable(to, f)
                     /\ to.returntype = TYPE_NOTHING \/ Convertible(to.returntype, f.returntype)
                     /\ \A i \in DOMAIN to.params :
                           Convertible(f.params[i].type, to.params[i].type)
      [] type \in {TYPE_NOTHING, TypeFunctionPointerNowhere} -> FALSE
      [] type = TYPE_DUMMY -> from # TYPE_NOTHING
      [] OTHER -> type = from

-----------------------------------------------------------------------------
(***************************************************************************)
(* Conversions that are loops over, or walks through, the value.           *)
(***************************************************************************)
Index == VariableExpression(TYPE_NUMBER)
Loop(prologue, statement) ==
    BaseLoopStatement(CompoundStatement(prologue),
                      ComparisonExpression("Numeric", Index, Index, "GE"),
                      statement, IncrementStatement(Index))

RECURSIVE Conversion(_, _)

make_array_conversion(from_type, from, to_type) ==
    IF from_type.of = NoType THEN from
    ELSE LET result == VariableExpression(to_type)
             array_copy == VariableExpression(from_type)
             element == ArrayReferenceIndexExpression(from_type.of, array_copy, Index)
             append  == TypeFunction(TYPE_NOTHING, <<Inout(to_type), In(to_type.of)>>)
         IN  StatementExpression(
               Loop(<<Assignment(result, ArrayLiteralExpression(NoType, <<>>)),
                      Assignment(Index, ConstantNumberExpression(0)),
                      Assignment(array_copy, from),
                      Assignment(Index, Call("array__size", <<TYPE_ARRAY_STRING>>, TYPE_NUMBER,
                                             <<array_copy>>))>>,
                    ExpressionStatement(FunctionCall("array__append", append,
                                          <<result, Conversion(to_type.of, element)>>))),
               result)

make_dictionary_conversion(from_type, from, to_type) ==
    IF from_type.of = NoType THEN from
    ELSE LET result == VariableExpression(to_type)
             keys   == VariableExpression(TYPE_ARRAY_STRING)
             key    == ArrayValueIndexExpression(TYPE_STRING, keys, Index)
             element == DictionaryValueIndexExpression(from_type.of, from, key)
         IN  StatementExpression(
               Loop(<<Assignment(result, DictionaryLiteralExpression(NoType, <<>>)),
                      Assignment(Index, ConstantNumberExpression(0)),
                      Assignment(keys, Call("dictionary__keys", <<from.type>>,
                                            TYPE_ARRAY_STRING, <<from>>)),
                      Assignment(Index, Call("array__size", <<TYPE_ARRAY_STRING>>, TYPE_NUMBER,
                                             <<keys>>))>>,
                    Assignment(DictionaryReferenceIndexExpression(to_type.of, result, key),
                               Conversion(to_type.of, element))),
               result)

ObjectResult == VariableExpression(TYPE_DICTIONARY_OBJECT)

make_object_conversion_from_record(rtype, e) ==
    LET field(i) == RecordValueFieldExpression(Fields(rtype)[i], e, i - 1, FALSE)
    IN  StatementExpression(
          CompoundStatement([i \in DOMAIN Fields(rtype) |->
              Assignment(DictionaryReferenceIndexExpression(TYPE_OBJECT, ObjectResult,
                                                            ConstantStringExpression),
                         Conversion(TYPE_OBJECT, field(i)))]),
          makeDictionary(ObjectResult))

\* A choice without data becomes NIL, which is not made an Object.
make_object_conversion_from_choice(e) ==
    LET data(c) == IF ChoiceData(c) = NoType THEN ConstantNilExpression
                   ELSE Conversion(TYPE_OBJECT, ChoiceValueExpression(ChoiceData(c), e, c))
    IN  StatementExpression(
          ChoiceCase(e, [i \in 1..3 |->
              Assignment(ObjectResult, DictionaryLiteralExpression(TYPE_OBJECT, <<data(i - 1)>>))]),
          makeDictionary(ObjectResult))

\* What the object has under the name of the part; it may have nothing.
Part(e) == ObjectSubscriptExpression(e, makeObject(ConstantStringExpression))

make_record_conversion_from_object(rtype, e) ==
    LET result == VariableExpression(rtype)
        field(i) == RecordReferenceFieldExpression(Fields(rtype)[i], result, i - 1, TRUE)
    IN  StatementExpression(
          CompoundStatement([i \in DOMAIN Fields(rtype) |->
              TryStatement(Assignment(field(i), Conversion(Fields(rtype)[i], Part(e))))]),
          result)

make_choice_conversion_from_object(e) ==
    LET result == VariableExpression(TypeChoice)
        statement(c) ==
            IF ChoiceData(c) = NoType
            THEN Assignment(result, ConstantChoiceExpression(c, NULL))
            ELSE TryStatement(Assignment(result,
                     ConstantChoiceExpression(c, Conversion(ChoiceData(c), Part(e)))))
    IN  StatementExpression(CompoundStatement([i \in 1..3 |-> statement(i - 1)]), result)

make_enum_conversion_from_object(e) ==
    Call("CREATE.name", <<TYPE_STRING, TYPE_BOOLEAN, TypeEnum>>, TypeEnum,
         <<getObject(TYPE_STRING, e), ConstantBooleanExpression(FALSE), ConstantNumberExpression(0)>>)

-----------------------------------------------------------------------------
(***************************************************************************)
(* What make_converter makes of e, where it is convertible.                *)
(***************************************************************************)
ToObject(e) ==
    LET from == e.type
    IN  CASE from = TypePointerNil -> makeNull
          [] from \in ScalarTypes  -> makeObject(e)
          [] from = TYPE_OBJECT    -> e
          [] IsArray(from) ->
               makeArray(IF from.of \in {NoType, TYPE_OBJECT} THEN e
                         ELSE make_array_conversion(from, e, TYPE_ARRAY_OBJECT))
          [] IsDictionary(from) ->
               makeDictionary(IF from.of \in {NoType, TYPE_OBJECT} THEN e
                              ELSE make_dictionary_conversion(from, e, TYPE_DICTIONARY_OBJECT))
          [] IsRecord(from)    -> make_object_conversion_from_record(from, e)
          [] from = TypeChoice -> make_object_conversion_from_choice(e)
          [] from = TypeEnum   -> makeObject(Call("enum.toString", <<TypeEnum>>, TYPE_STRING, <<e>>))

FromObject(type, e) ==
    CASE type \in ScalarTypes -> getObject(type, e)
      [] IsArray(type) ->
           make_array_conversion(TYPE_ARRAY_OBJECT, getObject(TYPE_ARRAY_OBJECT, e), type)
      [] IsDictionary(type) ->
           make_dictionary_conversion(TYPE_DICTIONARY_OBJECT, getObject(TYPE_DICTIONARY_OBJECT, e),
                                      type)
      [] IsRecord(type)    -> make_record_conversion_from_object(type, e)
      [] type = TypeChoice -> make_choice_conversion_from_object(e)
      [] type = TypeEnum   -> make_enum_conversion_from_object(e)

Conversion(type, e) ==
    IF type = TYPE_OBJECT THEN ToObject(e)
    ELSE IF type.k = "FunctionPointer" \/ type = TYPE_DUMMY THEN TypeConversionExpression(type, e)
    ELSE IF type = e.type \/ is_structure_compatible(type, e.type) THEN e
    ELSE IF e.type = TYPE_OBJECT THEN FromObject(type, e)
    ELSE CASE IsArray(type) -> make_array_conversion(e.type, e, type)
           [] IsDictionary(type) -> make_dictionary_conversion(e.type, e, type)
           [] IsInterfacePointer(type) ->
                IF e.type = TypePointerNil THEN InterfacePointerConstructor(type, ConstantNilExpression, 0)
                ELSE IF IsInterfacePointer(e.type) THEN e
                ELSE InterfacePointerConstructor(type, e, InterfaceIndex(type, e.type))
           [] OTHER -> e

\* Analyzer::convert, and convert2, which converts both or neither.
convert(type, e) == IF Convertible(type, e.type) THEN Conversion(type, e) ELSE NULL
Convertible2(type, left, right) == Convertible(type, left.type) /\ Convertible(type, right.type)

-----------------------------------------------------------------------------
RECURSIVE make_default_value(_)
make_default_value(type) ==
    CASE type = TYPE_BOOLEAN -> ConstantBooleanExpression(FALSE)
      [] type = TYPE_NUMBER  -> ConstantNumberExpression(0)
      [] type = TYPE_STRING  -> ConstantStringExpression
      [] type = TYPE_BYTES   -> ConstantBytesExpression
      [] type = TYPE_OBJECT  -> ConstantNilObject
      [] IsArray(type)       -> ArrayLiteralExpression(NoType, <<>>)
      [] IsDictionary(type)  -> DictionaryLiteralExpression(NoType, <<>>)
      [] IsRecord(type) ->
           RecordLiteralExpression(type, [i \in DOMAIN Fields(type) |->
                                             make_default_value(Fields(type)[i])])
      [] IsPointer(type)          -> ConstantNilExpression
      [] IsInterfacePointer(type) -> InterfacePointerConstructor(type, ConstantNilExpression, 0)
      [] IsFunctionPointer(type)  -> ConstantNowhereExpression
      [] type = TypeEnum   -> ConstantEnumExpression(0)
      [] type = TypeChoice ->
           ConstantChoiceExpression(0, IF ChoiceData(0) = NoType THEN NULL
                                       ELSE make_default_value(ChoiceData(0)))

-----------------------------------------------------------------------------
(* What becomes of an operand.                                             *)

Failed(e) == e.node = "nullptr"
IsNil(e)  == e.node = "ConstantNil"
IsDummy(e) == e.node = "Dummy"
Unless(error, node) == IF error THEN NULL ELSE node
\* The node made of what has been converted, if it could be.
Converted(e, Make(_)) == IF Failed(e) THEN NULL ELSE Make(e)
BothConverted(e, f, Make(_, _)) == IF Failed(e) \/ Failed(f) THEN NULL ELSE Make(e, f)
AllConverted(es, Make(_)) == IF \E i \in DOMAIN es : Failed(es[i]) THEN NULL ELSE Make(es)

-----------------------------------------------------------------------------
(***************************************************************************)
(* Literals.                                                               *)
(***************************************************************************)
\* Of none, one or two elements: the first decides, unless the second does not fit.
ElementType(elements) ==
    IF elements = <<>> THEN NoType
    ELSE IF Len(elements) = 1 \/ Convertible(elements[1].type, elements[2].type)
         THEN elements[1].type ELSE TYPE_OBJECT
\* The first has been converted to its own type before the second is seen.
LiteralElements(type, elements) ==
    [i \in DOMAIN elements |->
        convert(type, IF i = 1 /\ type # elements[1].type
                      THEN convert(elements[1].type, elements[1]) ELSE elements[i])]

\* Of a failed conversion the constructors follow the nullptr: no program comes of it.
analyze_ArrayLiteral(elements) ==
    LET type == ElementType(elements)
    IN  AllConverted(LiteralElements(type, elements), LAMBDA all : ArrayLiteralExpression(type, all))
analyze_DictionaryLiteral(values) ==
    LET type == ElementType(values)
    IN  AllConverted(LiteralElements(type, values), LAMBDA all : DictionaryLiteralExpression(type, all))

ConvertAll(type, args) == [i \in DOMAIN args |-> convert(type, args[i])]
analyze_ArrayLiteralRange(first, last, step) ==
    AllConverted(ConvertAll(TYPE_NUMBER, <<first, last, step>>), LAMBDA numbers :
        Call("array__range", [i \in 1..3 |-> TYPE_NUMBER], TypeArray(TYPE_NUMBER), numbers))

-----------------------------------------------------------------------------
(***************************************************************************)
(* Parts of values.                                                        *)
(***************************************************************************)
\* checked: the flow checks know which choice it is.
analyze_Dot(base, field, checked) ==
    CASE base.type = TYPE_OBJECT -> ObjectSubscriptExpression(base, makeObject(ConstantStringExpression))
      [] base.type = TypeChoice ->
           Unless(base.node \notin {"Variable", "ChoiceVariable"} \/ ChoiceData(field) = NoType \/ ~checked,
                  ChoiceReferenceExpression(ChoiceData(field), base, field))
      [] IsRecord(base.type) ->
           LET type == Fields(base.type)[field + 1]
           IN  IF IsReference(base) THEN RecordReferenceFieldExpression(type, base, field, TRUE)
               ELSE RecordValueFieldExpression(type, base, field, TRUE)
      [] OTHER -> NULL

analyze_Arrow(base, field) ==
    Unless(~IsValidPointer(base.type),
           LET class == TypeClass(base.type.class)
           IN  RecordReferenceFieldExpression(Fields(class)[field + 1],
                   PointerDereferenceExpression(class, base), field, FALSE))

\* s, and the index or the bounds, for the functions that read and write parts.
SplicedType(type) == [i \in 1..6 |-> IF i < 3 THEN type ELSE IF i \in {3, 5} THEN TYPE_NUMBER
                                     ELSE TYPE_BOOLEAN]
Bounds(first, last) ==
    <<first, ConstantBooleanExpression(FALSE), last, ConstantBooleanExpression(FALSE)>>
\* load reads the range, and store makes of the value on the stack, and of the args, the
\* whole that is assigned in place of ref.
RangeIndex(type, ref, first, last, load, splice) ==
    LET part == Call(load, Tail(SplicedType(type)), type, <<ref>> \o Bounds(first, last))
    IN  IF IsReference(ref)
        THEN CalledIndex("CalledReference", type, ref, part,
                         Call(splice, SplicedType(type), type, <<ref>> \o Bounds(first, last)))
        ELSE CalledIndex("CalledValue", type, ref, part, NULL)

ElementOf(ref, type, index, load, result) ==
    Call(load, <<type, TYPE_NUMBER>>, result, <<ref, index>>)
StringIndex(ref, index) ==
    LET load == ElementOf(ref, TYPE_STRING, index, "string__index", TYPE_STRING)
    IN  IF IsReference(ref)
        THEN CalledIndex("CalledReference", TYPE_STRING, ref, load,
                 Call("string__splice", SplicedType(TYPE_STRING), TYPE_STRING,
                      <<ref>> \o Bounds(index, index)))
        ELSE CalledIndex("CalledValue", TYPE_STRING, ref, load, NULL)
\* A byte is stored by an instruction of its own, which is given the index.
BytesIndex(ref, index) ==
    LET load == ElementOf(ref, TYPE_BYTES, index, "bytes__index", TYPE_NUMBER)
    IN  IF IsReference(ref) THEN CalledIndex("BytesReferenceIndex", TYPE_NUMBER, ref, load, index)
        ELSE CalledIndex("CalledValue", TYPE_NUMBER, ref, load, NULL)

Size(array) == Call("array__size", <<array.type>>, TYPE_NUMBER, <<array>>)
\* What is given for an element: its number or, with LAST, what is added to the last one's.
Place(base, number, from_last) ==
    IF from_last
    THEN AdditionExpression(SubtractionExpression(Size(base), ConstantNumberExpression(1)), number)
    ELSE number

ArrayElement(base, place) ==
    IF IsReference(base) THEN ArrayReferenceIndexExpression(base.type.of, base, place)
    ELSE ArrayValueIndexExpression(base.type.of, base, place)
DictionaryElement(base, key) ==
    IF IsReference(base) THEN DictionaryReferenceIndexExpression(base.type.of, base, key)
    ELSE DictionaryValueIndexExpression(base.type.of, base, key)

IndexType(type) ==
    CASE IsDictionary(type) -> TYPE_STRING [] type = TYPE_OBJECT -> TYPE_OBJECT
      [] OTHER -> TYPE_NUMBER
analyze_Subscript(base, index, from_last) ==
    LET type == base.type
    IN  IF ~(IsArray(type) \/ IsDictionary(type) \/ type \in {TYPE_STRING, TYPE_BYTES, TYPE_OBJECT})
        THEN NULL
        ELSE Converted(convert(IndexType(type), index), LAMBDA to :
            CASE IsArray(type)      -> ArrayElement(base, Place(base, to, from_last))
              [] IsDictionary(type) -> DictionaryElement(base, to)
              [] type = TYPE_STRING ->
                   IF from_last THEN RangeIndex(type, base, to, to, "string__substring", "string__splice")
                   ELSE StringIndex(base, to)
              [] type = TYPE_BYTES  ->
                   IF from_last THEN RangeIndex(type, base, to, to, "bytes__range", "bytes__splice")
                   ELSE BytesIndex(base, to)
              [] type = TYPE_OBJECT -> ObjectSubscriptExpression(base, to))

analyze_RangeSubscript(base, first, last) ==
    BothConverted(convert(TYPE_NUMBER, first), convert(TYPE_NUMBER, last), LAMBDA from, to :
        CASE IsArray(base.type) ->
               RangeIndex(base.type, base, from, to, "array__slice", "array__splice")
          [] base.type = TYPE_STRING ->
               RangeIndex(base.type, base, from, to, "string__substring", "string__splice")
          [] base.type = TYPE_BYTES  ->
               RangeIndex(base.type, base, from, to, "bytes__range", "bytes__splice")
          [] OTHER -> NULL)

-----------------------------------------------------------------------------
(***************************************************************************)
(* Calls, and the making of records, choices, enums and objects.           *)
(***************************************************************************)
HasToString(type) ==
    \/ type \in ScalarTypes \cup {TYPE_OBJECT, TypeEnum, TypeChoice}
    \/ IsArray(type) /\ type.of \in {TYPE_NUMBER, TYPE_STRING, TYPE_OBJECT}
    \/ IsDictionary(type) /\ type.of \in {TYPE_NUMBER, TYPE_STRING, TYPE_OBJECT}
    \/ IsPointer(type) \/ IsInterfacePointer(type) \/ IsFunctionPointer(type)
toString(e) == Call("toString", <<e.type>>, TYPE_STRING, <<e>>)

\* One part with a format and one without.
analyze_InterpolatedString(left, right) ==
    LET str(e) == IF e.type = TYPE_STRING THEN e ELSE toString(e)
        two    == <<TYPE_STRING, TYPE_STRING>>
    IN  Unless(\E e \in {left, right} : ~HasToString(e.type),
               Call("string__concat", two, TYPE_STRING,
                    <<Call("format", two, TYPE_STRING, <<str(left), ConstantStringExpression>>),
                      str(right)>>))

\* The default is optional, and NULL where there is none.
analyze_enum_call(method, param, value_or_name, default_value) ==
    LET hasdefault == ~Failed(default_value)
    IN  IF hasdefault /\ default_value.type # TypeEnum THEN NULL
        ELSE Converted(convert(param, value_or_name), LAMBDA value :
            Call(method, <<param, TYPE_BOOLEAN, TypeEnum>>, TypeEnum,
                 <<value, ConstantBooleanExpression(hasdefault),
                   IF hasdefault THEN default_value ELSE ConstantNumberExpression(0)>>))

analyze_choice_call(choice, arg) ==
    IF ChoiceData(choice) = NoType THEN NULL
    ELSE Converted(convert(ChoiceData(choice), arg),
               LAMBDA data : ConstantChoiceExpression(choice, data))

\* One field is named; the others have their defaults.
analyze_record_init(recordtype, field, e) ==
    AllConverted([i \in DOMAIN Fields(recordtype) |->
                 IF i = field + 1 THEN convert(Fields(recordtype)[i], e)
                 ELSE make_default_value(Fields(recordtype)[i])],
             LAMBDA elements :
                 IF recordtype.k = "Class" THEN ClassLiteralExpression(recordtype, elements)
                 ELSE RecordLiteralExpression(recordtype, elements))

DefaultClassLiteral(type) ==
    ClassLiteralExpression(type, [i \in DOMAIN Fields(type) |-> make_default_value(Fields(type)[i])])
\* The record init, or NULL where there is none.
analyze_NewClass(type, value) ==
    NewClassExpression(type, IF Failed(value) THEN DefaultClassLiteral(type) ELSE value)

\* The argument, or NULL.
Argument(param, e) ==
    IF param.mode = "IN" THEN Unless(IsDummy(e), convert(param.type, e))
    ELSE Unless(\/ ~IsReference(e)
                \/ e.type # TYPE_DUMMY /\ ~is_structure_compatible(param.type, e.type)
                \/ e.type = TYPE_DUMMY /\ param.mode # "OUT"
                \/ param.mode = "INOUT" /\ ~can_generate_address(e),
                e)
Arguments(ftype, args) == [i \in DOMAIN args |-> Argument(ftype.params[i], args[i])]

\* func is a function of the type, or an expression: a function pointer.
analyze_function_call(ftype, args) ==
    AllConverted(Arguments(ftype, args), LAMBDA all : FunctionCall("f", ftype, all))
analyze_pointer_call(func, args) ==
    IF func.type.k # "FunctionPointer" THEN NULL
    ELSE IF Len(args) # Len(func.type.functype.params) THEN NULL
    ELSE AllConverted(Arguments(func.type.functype, args),
                  LAMBDA all : DispatchedCall("PointerCall", func.type.functype, all, func))
\* The last parameter takes the rest of the arguments.
analyze_variadic_call(elementtype, args) ==
    AllConverted(ConvertAll(elementtype, args), LAMBDA all :
        Call("f", <<TypeArray(elementtype)>>, TYPE_NUMBER,
             <<ArrayLiteralExpression(elementtype, all)>>))

\* A method is given what it is called for as it is.
analyze_method_call(self, ftype) ==
    Unless(ftype.params[1].mode = "INOUT" /\ ~IsReference(self), FunctionCall("m", ftype, <<self>>))
analyze_object_call(base, arg) ==
    Converted(convert(TYPE_OBJECT, arg), LAMBDA object :
        Call("object__invokeMethod", <<TYPE_OBJECT, TYPE_STRING, TYPE_ARRAY_OBJECT>>, TYPE_OBJECT,
             <<base, ConstantStringExpression, ArrayLiteralExpression(TYPE_OBJECT, <<object>>)>>))
\* Of a class, or of an interface, the second of whose methods it is.
analyze_arrow_method_call(base, returntype, arg) ==
    LET ftype(self) == TypeFunction(returntype, <<In(self), In(TYPE_NUMBER)>>)
    IN  Converted(convert(TYPE_NUMBER, arg), LAMBDA number :
          CASE IsValidPointer(base.type) -> FunctionCall("m", ftype(base.type), <<base, number>>)
            [] IsInterfacePointer(base.type) ->
                 DispatchedCall("InterfaceCall", ftype(AnyPointer),
                                <<InterfacePointerDeconstructor(base), number>>, base)
            [] OTHER -> NULL)

-----------------------------------------------------------------------------
(***************************************************************************)
(* Operators.                                                              *)
(***************************************************************************)
analyze_UnaryPlus(atom)  == convert(TYPE_NUMBER, atom)
analyze_UnaryMinus(atom) == Converted(convert(TYPE_NUMBER, atom), UnaryMinusExpression)
analyze_LogicalNot(atom) == Converted(convert(TYPE_BOOLEAN, atom), LogicalNotExpression)

\* Two strings would be convertible to nothing anyway, but for the better message.
analyze_Arithmetic(op, left, right) ==
    BothConverted(convert(TYPE_NUMBER, left), convert(TYPE_NUMBER, right), LAMBDA l, r :
        IF op = "intdiv"
        THEN Call("math$intdiv", <<TYPE_NUMBER, TYPE_NUMBER>>, TYPE_NUMBER, <<l, r>>)
        ELSE Arithmetic(op, l, r))

\* Two Objects are taken for strings.
analyze_Concatenation(left, right) ==
    LET concat(name, type) ==
            BothConverted(convert(type, left), convert(type, right),
                      LAMBDA l, r : Call(name, <<type, type>>, type, <<l, r>>))
    IN  CASE Convertible2(TYPE_STRING, left, right) \/ Convertible2(TYPE_BYTES, left, right) ->
               IF Convertible2(TYPE_STRING, left, right) THEN concat("string__concat", TYPE_STRING)
               ELSE concat("bytes__concat", TYPE_BYTES)
          [] IsArray(left.type) /\ left.type = right.type ->
               Call("array__concat", <<TYPE_ARRAY_OBJECT, TYPE_ARRAY_OBJECT>>, left.type,
                    <<left, right>>)
          [] OTHER -> NULL

\* What is compared, of two values neither of which need be converted to an Object.
EqualityOnly == {"Boolean", "Array", "Dictionary", "Record", "Choice", "Pointer", "FunctionPointer"}
Comparable(what, left, right) ==
    LET compatible == is_structure_compatible(left, right)
        both(Is(_)) == Is(left) /\ Is(right)
    IN  CASE what = "Array"      -> both(IsArray) /\ (compatible \/ EmptyArray \in {left, right})
          [] what = "Dictionary" -> both(IsDictionary) /\ compatible
          [] what = "Record"     -> both(IsRecord) /\ compatible
          [] what = "Enum"       -> left = TypeEnum /\ compatible
          [] what = "Choice"     -> left = TypeChoice /\ compatible
          [] what = "Pointer"    -> /\ both(IsPointer)
                                    /\ compatible \/ ~HasReftype(left) \/ ~HasReftype(right)
          [] what = "FunctionPointer" ->
               /\ both(IsFunctionPointer)
               /\ compatible \/ TypeFunctionPointerNowhere \in {left, right}
ScalarComparison(type) ==
    CASE type = TYPE_BOOLEAN -> "Boolean" [] type = TYPE_NUMBER -> "Numeric"
      [] type = TYPE_STRING -> "String"   [] type = TYPE_BYTES -> "Bytes"

\* An interface pointer is compared by the pointer in it; with NIL only if it is written.
Instance(e) == IF IsInterfacePointer(e.type) THEN InterfacePointerDeconstructor(e) ELSE e
analyze_comparison(left, comp, right) ==
    LET scalars == {t \in ScalarTypes : Convertible2(t, left, right)}
        kinds   == {what \in (EqualityOnly \cup {"Enum"}) \ {"Boolean"} :
                       Comparable(what, left.type, right.type)}
        equality == comp \in {"EQ", "NE"}
        only(what, l, r) ==
            Unless(what \in EqualityOnly /\ ~equality, ComparisonExpression(what, l, r, comp))
        isNull(e) ==
            LET call == Call("object__isNull", <<TYPE_OBJECT>>, TYPE_BOOLEAN, <<e>>)
            IN  Unless(~equality, IF comp = "NE" THEN LogicalNotExpression(call) ELSE call)
    IN  CASE left.type = TYPE_OBJECT /\ right.type = TYPE_OBJECT -> NULL
          [] Cardinality(scalars) = 1 ->
               LET type == CHOOSE t \in scalars : TRUE
               IN  only(ScalarComparison(type), convert(type, left), convert(type, right))
          [] kinds # {} -> only(CHOOSE what \in kinds : TRUE, left, right)
          [] \E e, f \in {left, right} :
                {e, f} = {left, right} /\ IsInterfacePointer(e.type)
                /\ (IsInterfacePointer(f.type) \/ IsNil(f)) ->
               only("Pointer", Instance(left), Instance(right))
          [] left.type = TYPE_OBJECT /\ IsNil(right) -> isNull(left)
          [] IsNil(left) /\ right.type = TYPE_OBJECT -> isNull(right)
          [] OTHER -> NULL

\* a < b < c.  What b was converted to in the first comparison, it is not in the second.
analyze_ChainedComparison(a, comp1, b, comp2, c) ==
    LET chain(comps) == Unless(\/ \E i \in 1..2 : comps[i].node # "Comparison"
                               \/ ~({comp1, comp2} \subseteq {"LT", "LE", "EQ"}),
                               ChainedComparisonExpression(comps))
    IN  chain(<<analyze_comparison(a, comp1, b), analyze_comparison(b, comp2, c)>>)

\* Of a type other than a choice; where there is no conversion, the test has its answer.
analyze_TypeTest(left, target) ==
    IF ~Convertible(target, left.type) THEN ConstantBooleanExpression(FALSE)
    ELSE Converted(convert(TYPE_OBJECT, left),
               LAMBDA object : TypeTestExpression(object, convert(target, object)))
analyze_ChoiceTest(left, choice) ==
    Unless(left.type # TypeChoice, ChoiceTestExpression(left, choice))

analyze_Membership(left, right) ==
    LET two == <<TYPE_STRING, TYPE_STRING>>
    IN  CASE right.type = TYPE_STRING ->
               Unless(left.type # TYPE_STRING,
                      TryExpression(
                          ChoiceTestExpression(Call("find", two, TypeChoice, <<right, left>>), 1),
                          ConstantBooleanExpression(FALSE)))
          [] IsArray(right.type) ->
               Unless(left.type # right.type.of, ArrayInExpression(left, right))
          [] IsDictionary(right.type) ->
               Converted(convert(TYPE_STRING, left),
                     LAMBDA string : DictionaryInExpression(string, right))
          [] OTHER -> NULL

analyze_Junction(class, left, right) ==
    BothConverted(convert(TYPE_BOOLEAN, left), convert(TYPE_BOOLEAN, right),
              LAMBDA l, r : Junction(class, l, r))
analyze_Conditional(cond, left, right) ==
    IF left.type # right.type THEN NULL
    ELSE Converted(convert(TYPE_BOOLEAN, cond),
               LAMBDA bool : ConditionalExpression(bool, left, right))
\* TRY e TRAP x GIVES handler
analyze_Try(e, handler) == Unless(handler.type # e.type, TryExpression(e, handler))

-----------------------------------------------------------------------------
(***************************************************************************)
(* Statements that give a value to something.                              *)
(***************************************************************************)
analyze_Assignment(ref, e) ==
    IF ~IsReference(ref) THEN NULL
    ELSE Converted(convert(ref.type, e), LAMBDA rhs : Assignment(ref, rhs))
analyze_Increment(e) == Unless(e.type # TYPE_NUMBER \/ ~IsReference(e), IncrementStatement(e))
analyze_ExpressionStatement(e) == Unless(e.type # TYPE_NOTHING, ExpressionStatement(e))
\* IF VALID ptr AS v.  The variable is a valid pointer where the test has been passed.
analyze_ValidPointer(ptr) ==
    Unless(~HasReftype(ptr.type),
           ValidPointerExpression(VariableExpression(TypePointer(ptr.type.class)), ptr))
=============================================================================
