------------------------------- MODULE Grammar -------------------------------
(* The grammar the repository keeps beside the parser (neon.ebnf), and a     *)
(* recogniser for it. Where the parser was found to differ, the production   *)
(* follows the parser and a comment says what neon.ebnf has. Unlike the      *)
(* parser the recogniser tries every alternative, and has no order in which  *)
(* it does.                                                                  *)
EXTENDS Integers, SequencesExt

(* Elements of a production, which is a sequence of them. Its alternatives   *)
(* are a set of sequences.                                                   *)
W(S) == <<[is |-> "word", types |-> S]>>
K(t) == W({t})
Ks(ts) == [k \in DOMAIN ts |-> [is |-> "word", types |-> {ts[k]}]]
N(x) == <<[is |-> "nonterminal", name |-> x]>>
Alt(A) == <<[is |-> "choice", of |-> A]>>
Opt(p) == Alt({p, <<>>})
Rep(p) == <<[is |-> "repeat", of |-> p]>>
Before(cond) == <<[is |-> "before", cond |-> cond]>>     \* these are the next tokens
AnyWord == <<[is |-> "any word"]>>                       \* but not the end of the text
NotBefore(S) == <<[is |-> "not before", types |-> S]>>   \* the next token is none of S
Indented == <<[is |-> "indented"]>>  \* statements after this begin right of this one
ListOf(p) == p \o Rep(K("COMMA") \o p)
Brackets(p) == K("LPAREN") \o p \o K("RPAREN")

Identifier == K("IDENTIFIER")
DottedName == Identifier \o Rep(Ks(<<"DOT", "IDENTIFIER">>))
QualifiedName == Identifier \o Opt(Ks(<<"DOT", "IDENTIFIER">>))
MayBe(t, p) == Opt(K(t) \o p)
Loop == {"WHILE", "FOR", "FOREACH", "LOOP", "REPEAT"}
Relational == {"EQUAL", "NOTEQUAL", "LESS", "GREATER", "LESSEQ", "GREATEREQ"}
Arithmetical == {"PLUS", "MINUS", "TIMES", "DIVIDE", "INTDIV", "MOD", "EXP"}

-----------------------------------------------------------------------------
(* Declarations and types.                                                   *)
Types ==
  LET member == Opt(K("PRIVATE")) \o Ks(<<"IDENTIFIER", "COLON">>) \o N("Type")
  IN
  [Type |-> Alt({N("ParameterisedType"), N("RecordType"), N("ClassType"), N("EnumType"), N("ChoiceType"),
                 N("PointerType"), N("FunctionPointerType"), DottedName}),
   ParameterisedType |-> W({"ARRAY", "DICTIONARY"}) \o K("LESS") \o N("Type") \o K("GREATER"),
   RecordType |-> K("RECORD") \o Rep(member) \o Ks(<<"END", "RECORD">>),
   ClassType |-> K("CLASS") \o Rep(K("IMPLEMENTS") \o ListOf(QualifiedName)) \o Rep(member) \o Ks(<<"END", "CLASS">>),
   EnumType |-> K("ENUM") \o Rep(Identifier \o MayBe("ASSIGN", N("Expression"))) \o Ks(<<"END", "ENUM">>),
   ChoiceType |-> K("CHOICE") \o Rep(Identifier \o MayBe("COLON", N("Type"))) \o Ks(<<"END", "CHOICE">>),
   PointerType |-> Opt(K("VALID")) \o Ks(<<"POINTER", "TO">>) \o N("Type"),
   FunctionPointerType |-> K("FUNCTION") \o N("FunctionParameterList"),
   FunctionHeader |-> QualifiedName \o N("FunctionParameterList"),
   FunctionParameterList |-> Brackets(Opt(ListOf(N("FunctionParameter")))) \o MayBe("COLON", N("Type")),
   FunctionParameter |-> Opt(W({"IN", "OUT", "INOUT"})) \o ListOf(Identifier) \o K("COLON") \o N("Type")
                         \o Opt(K("ELLIPSIS")) \o MayBe("DEFAULT", Alt({N("Expression"), K("UNDERSCORE")}))]

Declarations ==
  LET typed == Ks(<<"IDENTIFIER", "COLON">>) \o N("Type")
      alias == Ks(<<"ALIAS", "IDENTIFIER">>)
      initialised == Identifier \o MayBe("COLON", N("Type")) \o K("ASSIGN") \o N("Expression")
  IN
  (* neon.ebnf has no name after the string of an import.                    *)
  [ImportDeclaration |-> K("IMPORT") \o Opt(K("OPTIONAL"))
     \o Alt({QualifiedName \o Opt(alias), K("STRING") \o Opt(Ks(<<"DOT", "IDENTIFIER">>)) \o alias}),
   TypeDeclaration |-> Ks(<<"TYPE", "IDENTIFIER", "IS">>) \o N("Type"),
   ConstantDeclaration |-> K("CONSTANT") \o initialised,
   LetDeclaration |-> K("LET") \o initialised,
   VariableDeclaration |->
     K("VAR") \o ListOf(Identifier) \o MayBe("COLON", N("Type")) \o MayBe("ASSIGN", N("Expression")),
   FunctionDeclaration |-> K("FUNCTION") \o N("FunctionHeader") \o N("Block") \o Ks(<<"END", "FUNCTION">>),
   (* neon.ebnf has an Identifier after NATIVE CONSTANT and NATIVE VAR.      *)
   ExternalDeclaration |-> K("DECLARE") \o
     Alt({W({"NATIVE", "EXTENSION"}) \o K("FUNCTION") \o N("FunctionHeader"),
          K("NATIVE") \o W({"CONSTANT", "VAR"}) \o AnyWord \o K("COLON") \o N("Type"),
          Ks(<<"EXTENSION", "CONSTANT">>) \o typed}),
   ExceptionDeclaration |-> K("EXCEPTION") \o DottedName,
   InterfaceDeclaration |-> Ks(<<"INTERFACE", "IDENTIFIER">>)
     \o Rep(Ks(<<"FUNCTION", "IDENTIFIER">>) \o N("FunctionParameterList")) \o Ks(<<"END", "INTERFACE">>),
   (* neon.ebnf does not export a native variable.                           *)
   ExportDeclaration |-> K("EXPORT") \o
     Alt({N("TypeDeclaration"), N("ConstantDeclaration"), N("VariableDeclaration"), N("LetDeclaration"),
          N("FunctionDeclaration"), N("ExternalDeclaration"), N("ExceptionDeclaration"), N("InterfaceDeclaration"),
          Identifier})]

-----------------------------------------------------------------------------
(* Statements.                                                               *)
Statements ==
  LET label == Opt(Ks(<<"LABEL", "IDENTIFIER">>))
      end(t) == Ks(<<"END", t>>)
      handler == K("TRAP") \o DottedName \o Opt(Ks(<<"AS", "IDENTIFIER">>)) \o K("DO") \o N("Block")
      import == Ks(<<"IMPORTED", "IDENTIFIER">>)
  IN
  [Block |-> Indented \o Rep(N("Statement")),
   MainBlock |-> Ks(<<"BEGIN", "MAIN">>) \o N("Block") \o end("MAIN"),
   ListStatement |-> W({"ASSERT", "DEBUG"}) \o ListOf(N("Expression")),
   (* neon.ebnf: Identifier, {CompoundExpressionTail}, ':=', Expression, or  *)
   (* Identifier, CompoundExpressionTail, {CompoundExpressionTail}.          *)
   IdentifierStatement |->
     Alt({Before(<<{"IDENTIFIER"}, {"ASSIGN", "EQUAL", "LBRACKET", "LPAREN", "DOT", "ARROW"}>>)
            \o N("Expression") \o MayBe("ASSIGN", N("Expression")),
          Ks(<<"UNDERSCORE", "ASSIGN">>) \o N("Expression")}),
   CaseStatement |-> K("CASE") \o N("Expression")
     \o Rep(K("WHEN") \o ListOf(N("WhenCondition")) \o K("DO") \o N("Block"))
     \o Opt(Ks(<<"WHEN", "OTHERS", "DO">>) \o N("Block")) \o end("CASE"),
   WhenCondition |-> Alt({W(Relational) \o N("Expression"), N("Expression") \o MayBe("TO", N("Expression")),
                          K("ISA") \o N("Type")}),
   CheckStatement |-> K("CHECK") \o N("ExpressionOrValid") \o K("ELSE") \o N("Block") \o end("CHECK"),
   ExecStatement |-> Ks(<<"EXEC", "STRING">>),
   ExitStatement |-> K("EXIT") \o
     Alt({K("FUNCTION"), K("PROCESS") \o W({"SUCCESS", "FAILURE"}), W(Loop), Identifier}),
   NextStatement |-> K("NEXT") \o W(Loop \union {"IDENTIFIER"}),
   ForStatement |-> Ks(<<"FOR", "IDENTIFIER", "ASSIGN">>) \o N("Expression") \o K("TO") \o N("Expression")
     \o MayBe("STEP", N("Expression")) \o label \o K("DO") \o N("Block") \o end("FOR"),
   ForeachStatement |-> Ks(<<"FOREACH", "IDENTIFIER", "IN">>) \o N("Expression")
     \o Opt(Ks(<<"INDEX", "IDENTIFIER">>)) \o label \o K("DO") \o N("Block") \o end("FOREACH"),
   (* neon.ebnf has IMPORTED after IF only.                                  *)
   IfStatement |-> K("IF") \o Alt({N("ExpressionOrValid"), import}) \o K("THEN") \o N("Block")
     \o Rep(K("ELSIF") \o Alt({N("ExpressionOrValid"), import}) \o K("THEN") \o N("Block"))
     \o MayBe("ELSE", N("Block")) \o end("IF"),
   ExpressionStatement |-> W({"INC", "DEC", "PANIC", "RETURN"}) \o N("Expression"),
   LoopStatement |-> K("LOOP") \o label \o N("Block") \o end("LOOP"),
   (* neon.ebnf: ['(', Expression, ')'].                                     *)
   RaiseStatement |-> K("RAISE") \o DottedName \o Opt(Before(<<{"LPAREN"}>>) \o N("Expression")),
   RepeatStatement |-> K("REPEAT") \o label \o N("Block") \o K("UNTIL") \o N("Expression"),
   (* neon.ebnf: (Identifier, {'.', Identifier}) | ('PANIC', StringLiteral). *)
   TestCaseStatement |-> LET name == Alt({Identifier, Ks(<<"PANIC", "STRING">>)})
     IN K("TESTCASE") \o N("Expression") \o MayBe("EXPECT", name \o Rep(K("DOT") \o name)),
   TryStatement |-> K("TRY") \o N("Block") \o Rep(handler) \o end("TRY"),
   UnusedStatement |-> K("UNUSED") \o ListOf(Identifier),
   WhileStatement |-> K("WHILE") \o N("ExpressionOrValid") \o label \o K("DO") \o N("Block") \o end("WHILE"),
   ExpressionOrValid |->
     Alt({N("Expression"), K("VALID") \o ListOf(Alt({Identifier, N("Expression") \o Ks(<<"AS", "IDENTIFIER">>)}))})]

-----------------------------------------------------------------------------
(* Expressions.                                                              *)
Expressions ==
  LET chain(t, x) == K(t) \o N(x) \o Rep(K(t) \o N(x))
      compound == "CompoundExpression"
      argument == Alt({N("Expression"), K("UNDERSCORE")})
      arguments == Brackets(Opt(ListOf(N("FunctionArgument"))))
  IN
  [BracketedExpression |-> Alt({N("ConditionalExpression"), N("TryExpression"), N("Expression")}),
   ConditionalExpression |->
     K("IF") \o N("Expression") \o K("THEN") \o N("Expression") \o K("ELSE") \o N("Expression"),
   (* neon.ebnf: TRAP Identifier, ['.', Identifier].                         *)
   TryExpression |-> K("TRY") \o N("Expression")
     \o Rep(K("TRAP") \o DottedName \o Opt(Ks(<<"AS", "IDENTIFIER">>))
            \o Alt({K("DO") \o Rep(N("Statement")), K("GIVES") \o N("Expression")})),
   (* In neon.ebnf a chain may follow an operand that begins with NOT.       *)
   Expression |->
     Alt({NotBefore({"NOT"}) \o N("MembershipExpression")
            \o Opt(Alt({chain("OR", "MembershipExpression"), chain("AND", "MembershipExpression")})),
          Before(<<{"NOT"}>>) \o N("MembershipExpression")}),
   MembershipExpression |-> N("TypeTestExpression") \o Opt(Opt(K("NOT")) \o K("IN") \o N("TypeTestExpression")),
   TypeTestExpression |-> N("ComparisonExpression") \o MayBe("ISA", N("Type")),
   ComparisonExpression |-> N("ArithmeticExpression") \o Rep(W(Relational) \o N("ArithmeticExpression")),
   (* In neon.ebnf any operator may follow an operand that begins with a     *)
   (* minus, and an operand may end where an operator or a tail follows.     *)
   ArithmeticExpression |->
     Alt({Before(<<{"MINUS"}>>) \o N(compound) \o Rep(K("PLUS") \o N(compound)) \o MayBe("MINUS", N(compound)),
          NotBefore({"MINUS"}) \o N(compound)
            \o Opt(Alt({chain("PLUS", compound) \o MayBe("MINUS", N(compound)), chain("CONCAT", compound),
                        chain("TIMES", compound) \o MayBe("DIVIDE", N(compound)),
                        W(Arithmetical \ {"PLUS", "TIMES"}) \o N(compound)}))}) \o NotBefore(Arithmetical),
   Atom |->
     Alt({Brackets(N("BracketedExpression")), N("ArrayLiteral"), N("ArrayRangeLiteral"), N("DictionaryLiteral"),
          W({"FALSE", "TRUE", "NUMBER", "NIL", "NOWHERE"}), N("StringLiteral"),
          W({"EMBED", "HEXBYTES"}) \o K("STRING"),
          W({"PLUS", "MINUS", "NOT"}) \o N(compound), K("NEW") \o QualifiedName \o Opt(arguments), Identifier}),
   (* The lexer's tokens of a string with expressions in it.                 *)
   StringLiteral |-> K("STRING")
     \o Rep(K("SUBBEGIN") \o N("Expression") \o Opt(Ks(<<"SUBFMT", "STRING">>)) \o Ks(<<"SUBEND", "STRING">>)),
   ArrayLiteral |-> K("LBRACKET") \o Opt(ListOf(N("Expression")) \o Opt(K("COMMA"))) \o K("RBRACKET"),
   ArrayRangeLiteral |-> K("LBRACKET") \o N("Expression") \o K("TO") \o N("Expression")
     \o MayBe("STEP", N("Expression")) \o K("RBRACKET"),
   DictionaryLiteral |->
     K("LBRACE") \o Rep(N("Expression") \o K("COLON") \o N("Expression") \o Opt(K("COMMA"))) \o K("RBRACE"),
   CompoundExpression |->
     N("Atom") \o Rep(Alt({K("LBRACKET") \o ListOf(N("ArrayIndexExpression")) \o K("RBRACKET"), arguments,
                           W({"DOT", "ARROW"}) \o Identifier}))
     \o NotBefore({"LBRACKET", "LPAREN", "DOT", "ARROW"}),
   FunctionArgument |-> Opt(W({"IN", "INOUT", "OUT"}))
     \o Alt({argument, Ks(<<"IDENTIFIER", "WITH">>) \o argument}) \o Opt(K("ELLIPSIS")),
   (* neon.ebnf: [('+' | '-'), Expression].                                  *)
   ArrayRangeBound |->
     Alt({W({"FIRST", "LAST"}) \o Opt(Before(<<{"PLUS", "MINUS"}>>) \o N("Expression")), N("Expression")}),
   ArrayIndexExpression |-> N("ArrayRangeBound") \o MayBe("TO", N("ArrayRangeBound"))]

Statement ==
  LET all == Declarations @@ Statements
  IN Alt({all[x] : x \in
       {"ImportDeclaration", "TypeDeclaration", "ConstantDeclaration", "LetDeclaration", "VariableDeclaration",
        "FunctionDeclaration", "ExternalDeclaration", "ExceptionDeclaration", "InterfaceDeclaration",
        "ExportDeclaration", "MainBlock", "ListStatement", "IdentifierStatement", "CaseStatement", "CheckStatement",
        "ExecStatement", "ExitStatement", "ForStatement", "ForeachStatement", "IfStatement", "ExpressionStatement",
        "LoopStatement", "NextStatement", "RaiseStatement", "RepeatStatement", "TestCaseStatement", "TryStatement",
        "UnusedStatement", "WhileStatement"}})

Productions == Types @@ Declarations @@ Statements @@ Expressions @@ [Statement |-> Statement]

-----------------------------------------------------------------------------
(* The recogniser. Where a text may end that has been read only in part: the *)
(* positions after what an element can stand for, and More when all that is  *)
(* left of the text is the beginning of something it can stand for.          *)
More == 0

NextAre(cond, i, ts) == \A k \in DOMAIN cond : i + k - 1 <= Len(ts) => ts[i + k - 1].type \in cond[k]

(* An alternative that begins with a word is tried where that word is.       *)
MayBegin(p, i, ts) == p # <<>> /\ i <= Len(ts) /\ p[1].is = "word" => ts[i].type \in p[1].types

(* low is the least column of a statement, start the column of the statement *)
(* around, depth how many more expressions may be nested.                    *)
RECURSIVE Ends(_, _, _, _), EndsOf(_, _, _, _), Iterated(_, _, _, _)
EndsOf(p, i, ts, env) ==
  IF p = <<>> THEN {i}
  ELSE IF Head(p).is = "indented" THEN EndsOf(Tail(p), i, ts, [env EXCEPT !.low = env.start + 1])
  ELSE UNION {IF j = More THEN {More} ELSE EndsOf(Tail(p), j, ts, env) : j \in Ends(Head(p), i, ts, env)}
Iterated(p, S, ts, env) ==
  LET further == (UNION {EndsOf(p, i, ts, env) : i \in S \ {More}}) \ S
  IN IF further = {} THEN S ELSE S \union Iterated(p, further, ts, env)
Ends(e, i, ts, env) ==
  CASE e.is = "word" -> IF i > Len(ts) THEN {More} ELSE IF ts[i].type \in e.types THEN {i + 1} ELSE {}
    [] e.is = "any word" -> IF i > Len(ts) THEN {More} ELSE IF ts[i].type = "END_OF_FILE" THEN {} ELSE {i + 1}
    [] e.is = "choice" -> UNION {EndsOf(p, i, ts, env) : p \in {q \in e.of : MayBegin(q, i, ts)}}
    [] e.is = "repeat" -> Iterated(e.of, {i}, ts, env)
    [] e.is = "before" ->
         IF ~NextAre(e.cond, i, ts) THEN {} ELSE IF i + Len(e.cond) - 1 > Len(ts) THEN {More} ELSE {i}
    [] e.is = "not before" -> IF i <= Len(ts) /\ ts[i].type \in e.types THEN {} ELSE {i}
    [] e.is = "nonterminal" /\ e.name = "Statement" ->
         IF i > Len(ts) THEN {More}
         ELSE IF ts[i].column < env.low THEN {}
         ELSE EndsOf(Productions[e.name], i, ts, [env EXCEPT !.start = ts[i].column])
    [] e.is = "nonterminal" /\ e.name = "Expression" ->
         IF env.depth = 0 THEN {} ELSE EndsOf(Productions[e.name], i, ts, [env EXCEPT !.depth = @ - 1])
    [] OTHER -> EndsOf(Productions[e.name], i, ts, env)

(* What the whole text may be: an expression, or statements, and its end.    *)
EndsOfText(start, ts, depth) ==
  EndsOf((IF start = "Expression" THEN N("Expression") ELSE Rep(N("Statement"))) \o K("END_OF_FILE"), 1, ts,
         [low |-> 1, start |-> 1, depth |-> depth])

-----------------------------------------------------------------------------
(* What an expression can mean. The documentation gives the operators an     *)
(* order of precedence (expressions.adoc, "Operator Precedence") and none    *)
(* among the arithmetic operators nor between AND and OR: a text has as many *)
(* readings as there are ways to add parentheses that the order allows.      *)
(* Operands are numbers modulo 7. Addition, multiplication and their         *)
(* inverses are arithmetic in that field, &, AND and OR are associative      *)
(* operations of it, the other operators have no law at all.                 *)
Arithmetic == {"PLUS", "MINUS", "TIMES", "DIVIDE", "INTDIV", "MOD", "EXP", "CONCAT"}
Relations == {"EQUAL", "NOTEQUAL", "LESS", "GREATER", "LESSEQ", "GREATEREQ"}
Operators == Arithmetic \union Relations \union {"IN", "NOT", "AND", "OR"}

M7 == 0..6
Power[x \in M7, n \in 0..5] == IF n = 0 THEN 1 ELSE (x * Power[x, n - 1]) % 7
(* A function with no law in particular, different for every operator.       *)
Lawless(k, x, y) == (k * x * x * y + (k + 1) * y * y + 2 * x + k * k) % 7
Numbered == [INTDIV |-> 1, MOD |-> 2, EXP |-> 3, EQUAL |-> 4, NOTEQUAL |-> 5, LESS |-> 6, GREATER |-> 8, LESSEQ |-> 9,
             GREATEREQ |-> 10]

Apply(op, x, y) ==
  CASE op = "PLUS" -> (x + y) % 7
    [] op = "MINUS" -> (x + 7 - y) % 7
    [] op \in {"TIMES", "AND"} -> (x * y) % 7
    [] op = "DIVIDE" -> (x * Power[y, 5]) % 7            \* x / 0 is 0
    [] op \in {"CONCAT", "OR"} -> (x + y + 3 * x * y) % 7
    [] op = "IN" -> Lawless(11, x, y)
    [] OTHER -> Lawless(Numbered[op], x, y)
Unary(op, x) == CASE op = "PLUS" -> x [] op = "MINUS" -> (7 - x) % 7 [] op = "NOT" -> Lawless(12, x, x)

(* The k-th token as an operand.                                             *)
Operand(seed, k) == ((seed * k + k * k) % 6) + 1

-----------------------------------------------------------------------------
(* The readings of the tokens from i to j. A comparison chain a < b < c      *)
(* compares neighbours: a reading of it is what it says so far and the last  *)
(* operand.                                                                  *)
RECURSIVE Operands(_, _, _, _), Sums(_, _, _, _), Chains(_, _, _, _), Memberships(_, _, _, _), Meanings(_, _, _, _)
Single == {"NUMBER", "IDENTIFIER", "TRUE", "FALSE", "NIL", "NOWHERE"}
Between(ops, i, j, ts) == {k \in (i + 1)..(j - 1) : ts[k].type \in ops}
Operands(seed, i, j, ts) ==
  CASE i > j -> {}
    [] i = j /\ ts[i].type \in Single -> {Operand(seed, i)}
    [] i < j /\ ts[i].type \in {"PLUS", "MINUS", "NOT"} -> {Unary(ts[i].type, x) : x \in Operands(seed, i + 1, j, ts)}
    [] i < j /\ ts[i].type = "LPAREN" /\ ts[j].type = "RPAREN" -> Meanings(seed, i + 1, j - 1, ts)
    [] OTHER -> {}
Sums(seed, i, j, ts) ==
  Operands(seed, i, j, ts) \union
  UNION {{Apply(ts[k].type, x, y) : x \in Sums(seed, i, k - 1, ts), y \in Sums(seed, k + 1, j, ts)} :
           k \in Between(Arithmetic, i, j, ts)}
Chained(op, chain, y) ==
  LET said == Apply(op, chain.last, y)
  IN [value |-> IF chain.compared THEN Apply("AND", chain.value, said) ELSE said, last |-> y, compared |-> TRUE]
Alone(x) == [value |-> x, last |-> x, compared |-> FALSE]
Chains(seed, i, j, ts) ==
  {Alone(x) : x \in Sums(seed, i, j, ts)} \union
  UNION {{Chained(ts[k].type, c, y) : c \in Chains(seed, i, k - 1, ts), y \in Sums(seed, k + 1, j, ts)} :
           k \in Between(Relations, i, j, ts)}
Memberships(seed, i, j, ts) ==
  {c.value : c \in Chains(seed, i, j, ts)} \union
  UNION {LET negated == ts[k - 1].type = "NOT"
             before == IF negated THEN k - 2 ELSE k - 1
         IN {IF negated THEN Unary("NOT", Apply("IN", x, y)) ELSE Apply("IN", x, y) :
               x \in Memberships(seed, i, before, ts), y \in Memberships(seed, k + 1, j, ts)} :
           k \in Between({"IN"}, i, j, ts)}
Meanings(seed, i, j, ts) ==
  Memberships(seed, i, j, ts) \union
  UNION {{Apply(ts[k].type, x, y) : x \in Meanings(seed, i, k - 1, ts), y \in Meanings(seed, k + 1, j, ts)} :
           k \in Between({"AND", "OR"}, i, j, ts)}

-----------------------------------------------------------------------------
(* Expressions of operators, parentheses and single operands.                *)
Understood(nodes) ==
  \A k \in DOMAIN nodes : nodes[k].node \in Operators \union {"name", "literal", "identity", "plus", "minus", "not"}

(* What the parser's nodes mean. A node comes after those of its operands.   *)
Built(seed, nodes, ts) ==
  LET step[k \in 0..Len(nodes)] ==
        IF k = 0 THEN <<>>
        ELSE LET s == step[k - 1]
                 n == nodes[k].node
                 top == s[Len(s)]
                 pop(m) == SubSeq(s, 1, Len(s) - m)
             IN CASE n \in {"name", "literal"} -> Append(s, Alone(Operand(seed, nodes[k].token)))
                  [] n = "identity" -> Append(pop(1), Alone(top.value))
                  [] n = "plus" -> s
                  [] n = "minus" -> Append(pop(1), Alone(Unary("MINUS", top.value)))
                  [] n = "not" -> Append(pop(1), Alone(Unary("NOT", top.value)))
                  [] n \in Relations ->
                       LET left == s[Len(s) - 1]
                       IN Append(pop(2), Chained(n, IF nodes[k].chained THEN left ELSE Alone(left.value), top.value))
                  [] OTHER -> Append(pop(2), Alone(Apply(n, s[Len(s) - 1].value, top.value)))
      built == step[Len(nodes)]
  IN {built[k].value : k \in DOMAIN built}
=============================================================================
