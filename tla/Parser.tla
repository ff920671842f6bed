------------------------------- MODULE Parser --------------------------------
(* The recursive descent parser (parser.cpp), fed one token at a time. Each  *)
(* parse function is a sequence of commands, which say what it looks at,     *)
(* what it takes, which functions it calls and which nodes it makes. Run     *)
(* executes commands until one needs a token that has not been read yet, so  *)
(* the tokens are chosen no further than the parser looks.                   *)
EXTENDS Naturals, SequencesExt

CONSTANTS Topics,   \* what may be written: start, types of token, most tokens, columns
          MaxDepth  \* how deep calls of parseExpression may be nested

ASSUME TopicsAssumption ==
  /\ MaxDepth \in Nat \ {0}
  /\ \A t \in DOMAIN Topics : Topics[t].most \in Nat /\ Topics[t].start \in {"Expression", "Program"}

VARIABLES topic,    \* the member of Topics this text is about
          tokens,   \* the tokens looked at so far
          parser    \* the members of Parser, and its call stack

vars == <<topic, tokens, parser>>

EOF == "END_OF_FILE"
Types == UNION {Topics[t].types : t \in DOMAIN Topics} \union {EOF}

-----------------------------------------------------------------------------
(* Commands.                                                                 *)
Take(S) == <<[do |-> "take", types |-> S]>>        \* S, or an error; ++i
T(t) == Take({t})
Words(ts) == [k \in DOMAIN ts |-> [do |-> "take", types |-> {ts[k]}]]
Must(S) == <<[do |-> "must", types |-> S]>>        \* an error unless S is next
Refuse(S) == <<[do |-> "refuse", types |-> S]>>    \* an error if S is next
Call(f) == <<[do |-> "call", function |-> f]>>
Node(n) == <<[do |-> "node", node |-> n, chained |-> FALSE]>>
Link(n) == <<[do |-> "node", node |-> n, chained |-> TRUE]>>   \* a further part of a chained comparison
Indent(caller) == <<[do |-> "indent", caller |-> caller]>>
Column == <<[do |-> "column"]>>
LoneName == <<[do |-> "lone"]>>
Ahead(cond, p, q) == <<[do |-> "if", cond |-> cond, yes |-> p, no |-> q]>>
Choose(S, p, q) == Ahead(<<S>>, p, q)
May(t, p) == Choose({t}, p, <<>>)
Unless(S, p) == Choose(S, <<>>, p)
While(cond, p) == <<[do |-> "while", cond |-> cond, body |-> p]>>
Until(S, p) == While(<<Types \ S>>, p)
Switch(cases, default) == <<[do |-> "switch", cases |-> cases, default |-> default]>>
List(p) == p \o While(<<{"COMMA"}>>, T("COMMA") \o p)

Name == T("IDENTIFIER")
Dotted == Name \o While(<<{"DOT"}>>, Words(<<"DOT", "IDENTIFIER">>))
MayDot == May("DOT", Words(<<"DOT", "IDENTIFIER">>))
Expression == Call("Expression")
Type == Call("Type")
Block(S) == Until(S, Call("Statement"))
End(t) == Words(<<"END", t>>)

-----------------------------------------------------------------------------
(* Types.                                                                    *)
parseParameterisedType == Take({"ARRAY", "DICTIONARY"}) \o T("LESS") \o Type \o T("GREATER")
parseFields == Until({"END"}, May("PRIVATE", T("PRIVATE")) \o Words(<<"IDENTIFIER", "COLON">>) \o Type)
parseRecordType == T("RECORD") \o parseFields \o End("RECORD")
parseClassType ==
  T("CLASS") \o While(<<{"IMPLEMENTS"}>>, T("IMPLEMENTS") \o List(Name \o MayDot)) \o parseFields \o End("CLASS")
parseEnumType == T("ENUM") \o Until({"END"}, Name \o May("ASSIGN", T("ASSIGN") \o Expression)) \o End("ENUM")
parseChoiceType == T("CHOICE") \o Until({"END"}, Name \o May("COLON", T("COLON") \o Type)) \o End("CHOICE")
parsePointerType == Words(<<"POINTER", "TO">>) \o Type
parseValidPointerType == Words(<<"VALID", "POINTER", "TO">>) \o Type
parseFunctionType == T("FUNCTION") \o Call("FunctionParameters")
parseType ==
  Switch("ARRAY" :> parseParameterisedType @@ "DICTIONARY" :> parseParameterisedType @@ "RECORD" :> parseRecordType @@
         "CLASS" :> parseClassType @@ "ENUM" :> parseEnumType @@ "CHOICE" :> parseChoiceType @@
         "POINTER" :> parsePointerType @@ "VALID" :> parseValidPointerType @@
         "FUNCTION" :> parseFunctionType, Dotted)

parseVariableDeclaration(required) ==
  List(Name) \o (IF required THEN T("COLON") \o Type ELSE May("COLON", T("COLON") \o Type))
Modes == {"IN", "INOUT", "OUT"}
parseFunctionParameters ==
  T("LPAREN")
  \o Unless({"RPAREN"}, List(
       Choose(Modes, Take(Modes), <<>>)
       \o parseVariableDeclaration(TRUE) \o May("ELLIPSIS", T("ELLIPSIS"))
       \o May("DEFAULT", T("DEFAULT") \o Choose({"UNDERSCORE"}, T("UNDERSCORE"), Expression))))
  \o T("RPAREN") \o May("COLON", T("COLON") \o Type)
parseFunctionHeader == T("FUNCTION") \o Name \o MayDot \o Call("FunctionParameters")

-----------------------------------------------------------------------------
(* Expressions. A node is made after the nodes of its operands.              *)
Operation(t, f) == T(t) \o Call(f) \o Node(t)
Chain(t, f) == While(<<{t}>>, Operation(t, f))

parseFunctionCall ==
  T("LPAREN")
  \o Unless({"RPAREN"}, List(
       Choose(Modes, Take(Modes), <<>>)
       \o Ahead(<<{"IDENTIFIER"}, {"WITH"}>>, Words(<<"IDENTIFIER", "WITH">>), <<>>)
       \o Choose({"UNDERSCORE"}, T("UNDERSCORE"), Expression)
       \o May("ELLIPSIS", T("ELLIPSIS"))))
  \o T("RPAREN") \o Node("call")
Separated(S) == Choose({"COMMA"}, T("COMMA"), Must(S))
parseArrayLiteral ==
  T("LBRACKET")
  \o Unless({"RBRACKET"}, Expression
       \o Choose({"TO"}, T("TO") \o Expression \o May("STEP", T("STEP") \o Expression),
            Separated({"RBRACKET"}) \o Until({"RBRACKET"}, Expression \o Separated({"RBRACKET"}))))
  \o T("RBRACKET") \o Node("array")
parseDictionaryLiteral ==
  T("LBRACE") \o Until({"RBRACE"}, Expression \o T("COLON") \o Expression \o May("COMMA", T("COMMA"))) \o T("RBRACE")
  \o Node("dictionary")
parseInterpolatedStringExpression ==
  T("STRING")
  \o While(<<{"SUBBEGIN"}>>, T("SUBBEGIN") \o Expression \o May("SUBFMT", Words(<<"SUBFMT", "STRING">>))
                             \o Words(<<"SUBEND", "STRING">>))
  \o Node("string")
Unary(t, n) == T(t) \o Call("CompoundExpression") \o Node(n)
parseAtom ==
  Switch("LPAREN" :> T("LPAREN") \o Call("Conditional") \o T("RPAREN") \o Node("identity") @@
         "LBRACKET" :> parseArrayLiteral @@ "LBRACE" :> parseDictionaryLiteral @@
         "STRING" :> parseInterpolatedStringExpression @@ "EMBED" :> Words(<<"EMBED", "STRING">>) \o Node("embed") @@
         "HEXBYTES" :> Words(<<"HEXBYTES", "STRING">>) \o Node("bytes") @@ "PLUS" :> Unary("PLUS", "plus") @@
         "MINUS" :> Unary("MINUS", "minus") @@ "NOT" :> Unary("NOT", "not") @@
         "NEW" :> T("NEW") \o Name \o MayDot \o May("LPAREN", parseFunctionCall) \o Node("new") @@
         "IDENTIFIER" :> Name \o Node("name"),
    Take({"TRUE", "FALSE", "NUMBER", "NIL", "NOWHERE"}) \o Node("literal"))

Bound(S) ==
  Choose({"FIRST", "LAST"}, Take({"FIRST", "LAST"}) \o Unless(S, Must({"PLUS", "MINUS"}) \o Expression), Expression)
Subscript ==
  Bound({"RBRACKET", "TO", "COMMA"}) \o May("TO", T("TO") \o Bound({"RBRACKET", "COMMA"})) \o Node("subscript")
parseCompoundExpression ==
  Call("Atom")
  \o While(<<{"LBRACKET", "LPAREN", "DOT", "ARROW"}>>,
       Switch("LBRACKET" :> T("LBRACKET") \o List(Subscript) \o T("RBRACKET") @@ "LPAREN" :> parseFunctionCall,
         Take({"DOT", "ARROW"}) \o Name \o Node("field")))

ArithmeticOperators == {"PLUS", "MINUS", "TIMES", "DIVIDE", "INTDIV", "MOD", "EXP"}
(* Mutant: a subtraction may be followed by more operations.                 *)
Sum_any_order ==
  LET one(t) == Operation(t, "CompoundExpression")
  IN While(<<{"PLUS", "MINUS"}>>, Choose({"PLUS"}, one("PLUS"), one("MINUS")))
Sum == Chain("PLUS", "CompoundExpression") \o May("MINUS", Operation("MINUS", "CompoundExpression"))
parseArithmetic ==
  LET one(t) == Operation(t, "CompoundExpression")
      only(p) == p \o Refuse(ArithmeticOperators)
  IN Choose({"MINUS"}, Call("CompoundExpression") \o only(Sum),
       Call("CompoundExpression") \o
       Switch("PLUS" :> only(Sum) @@ "CONCAT" :> only(Chain("CONCAT", "CompoundExpression")) @@
              "TIMES" :> only(Chain("TIMES", "CompoundExpression") \o May("DIVIDE", one("DIVIDE"))) @@
              "MINUS" :> only(one("MINUS")) @@ "DIVIDE" :> only(one("DIVIDE")) @@ "INTDIV" :> only(one("INTDIV")) @@
              "MOD" :> only(one("MOD")) @@ "EXP" :> only(one("EXP")), <<>>))
Comparisons == {"EQUAL", "NOTEQUAL", "LESS", "GREATER", "LESSEQ", "GREATEREQ"}
parseComparison ==
  LET compare(N(_)) == Switch([t \in Comparisons |-> T(t) \o Call("Arithmetic") \o N(t)], <<>>)
  IN Call("Arithmetic") \o compare(Node) \o While(<<Comparisons>>, compare(Link))
parseTypeTest == Call("Comparison") \o May("ISA", T("ISA") \o Type \o Node("isa"))
parseMembership ==
  Call("TypeTest")
  \o Choose({"IN"}, Operation("IN", "TypeTest"),
       Ahead(<<{"NOT"}, {"IN"}>>, T("NOT") \o Operation("IN", "TypeTest") \o Node("not"), <<>>))
parseLogical ==
  LET only(p) == p \o Refuse({"AND", "OR"})
  IN Choose({"NOT"}, Call("Membership") \o only(<<>>),
       Call("Membership") \o Switch("AND" :> only(Chain("AND", "Membership")) @@
                                    "OR" :> only(Chain("OR", "Membership")), <<>>))
Trap(handler) == T("TRAP") \o Dotted \o May("AS", Words(<<"AS", "IDENTIFIER">>)) \o handler
parseConditional ==
  Switch("IF" :> T("IF") \o Expression \o T("THEN") \o Expression \o T("ELSE") \o Expression \o Node("if") @@
         "TRY" :> T("TRY") \o Expression
           \o While(<<{"TRAP"}>>,
                Trap(Choose({"DO"}, T("DO") \o Block({"TRAP", "RPAREN", EOF}), T("GIVES") \o Expression)))
           \o Node("try"), Expression)

-----------------------------------------------------------------------------
(* Declarations.                                                             *)
parseTypeDefinition == Words(<<"TYPE", "IDENTIFIER", "IS">>) \o Type
parseConstantDefinition ==
  Words(<<"CONSTANT", "IDENTIFIER">>) \o May("COLON", T("COLON") \o Type) \o T("ASSIGN") \o Expression
parseVarStatement == T("VAR") \o parseVariableDeclaration(FALSE) \o May("ASSIGN", T("ASSIGN") \o Expression)
parseLetStatement ==
  Words(<<"LET", "IDENTIFIER">>) \o May("COLON", T("COLON") \o Type) \o T("ASSIGN") \o Expression
(* start_column is the column of FUNCTION, or of the EXPORT before it.       *)
parseFunctionDefinition(start_column) ==
  parseFunctionHeader \o Indent(start_column) \o Block({"END"}) \o End("FUNCTION")
(* Whatever comes after NATIVE CONSTANT and NATIVE VAR is taken as the name  *)
(* without a look at it. If that is the end of the text, the parser goes on  *)
(* behind the tokens: the colon it wants is not there.                       *)
parseDeclaration ==
  T("DECLARE") \o
  LET external(S, names) ==
        Switch("FUNCTION" :> parseFunctionHeader, Take(S) \o Take(names) \o T("COLON") \o Type)
  IN Switch("NATIVE" :> T("NATIVE") \o external({"CONSTANT", "VAR"}, Types \ {EOF}),
            T("EXTENSION") \o external({"CONSTANT"}, {"IDENTIFIER"}))
parseException == T("EXCEPTION") \o Dotted
parseInterface ==
  Words(<<"INTERFACE", "IDENTIFIER">>)
  \o Until({"END"}, Words(<<"FUNCTION", "IDENTIFIER">>) \o Call("FunctionParameters")) \o End("INTERFACE")
parseExport ==
  T("EXPORT") \o
  Switch("TYPE" :> parseTypeDefinition @@ "CONSTANT" :> parseConstantDefinition @@ "VAR" :> parseVarStatement @@
         "LET" :> parseLetStatement @@ "FUNCTION" :> Call("ExportedFunction") @@ "DECLARE" :> parseDeclaration @@
         "EXCEPTION" :> parseException @@ "INTERFACE" :> parseInterface, Name)
parseImport ==
  LET alias == Words(<<"ALIAS", "IDENTIFIER">>)
  IN T("IMPORT") \o May("OPTIONAL", T("OPTIONAL"))
     \o Switch("STRING" :> T("STRING") \o MayDot \o alias, Name \o MayDot \o May("ALIAS", alias))

-----------------------------------------------------------------------------
(* Statements.                                                               *)
Valid == T("VALID") \o List(Expression \o Choose({"AS"}, Words(<<"AS", "IDENTIFIER">>), LoneName))
OrValid == Choose({"VALID"}, Valid, Expression)
Label == May("LABEL", Words(<<"LABEL", "IDENTIFIER">>))
Here == Indent(0)

parseIncrementStatement == Take({"INC", "DEC"}) \o Expression
parseIfStatement ==
  LET branch(t) == T(t) \o Choose({"IMPORTED"}, Words(<<"IMPORTED", "IDENTIFIER">>), OrValid) \o T("THEN")
                   \o Block({"ELSIF", "ELSE", "END", EOF})
  IN Here \o branch("IF") \o While(<<{"ELSIF"}>>, branch("ELSIF"))
     \o May("ELSE", T("ELSE") \o Block({"END", EOF})) \o End("IF")
parseCheckStatement == T("CHECK") \o OrValid \o T("ELSE") \o Here \o Block({"END", EOF}) \o End("CHECK")
parseReturnStatement == T("RETURN") \o Expression
parseWhileStatement == T("WHILE") \o OrValid \o Label \o T("DO") \o Here \o Block({"END", EOF}) \o End("WHILE")
WhenCondition ==
  Switch("ISA" :> T("ISA") \o Type @@ [t \in Comparisons |-> T(t) \o Expression],
    Expression \o May("TO", T("TO") \o Expression))
parseCaseStatement ==
  T("CASE") \o Expression \o Here
  \o While(<<{"WHEN"}, Types \ {"OTHERS"}>>,
       T("WHEN") \o List(WhenCondition) \o T("DO") \o Block({"WHEN", "END", EOF}))
  \o Ahead(<<{"WHEN"}, {"OTHERS"}, {"DO"}>>, Words(<<"WHEN", "OTHERS", "DO">>) \o Block({"END"}), <<>>)
  \o End("CASE")
parseForStatement ==
  Words(<<"FOR", "IDENTIFIER", "ASSIGN">>) \o Expression \o T("TO") \o Expression
  \o May("STEP", T("STEP") \o Expression) \o Label \o T("DO") \o Here \o Block({"END", EOF}) \o End("FOR")
parseForeachStatement ==
  Words(<<"FOREACH", "IDENTIFIER", "IN">>) \o Expression \o May("INDEX", Words(<<"INDEX", "IDENTIFIER">>))
  \o Label \o T("DO") \o Here \o Block({"END", EOF}) \o End("FOREACH")
parseLoopStatement == T("LOOP") \o Label \o Here \o Block({"END", EOF}) \o End("LOOP")
parseRepeatStatement == T("REPEAT") \o Label \o Here \o Block({"UNTIL", EOF}) \o T("UNTIL") \o Expression
Loops == {"WHILE", "FOR", "FOREACH", "LOOP", "REPEAT"}
parseExitStatement ==
  T("EXIT")
  \o Switch("PROCESS" :> T("PROCESS") \o Take({"SUCCESS", "FAILURE"}), Take(Loops \union {"FUNCTION", "IDENTIFIER"}))
parseNextStatement == T("NEXT") \o Take(Loops \union {"IDENTIFIER"})
parseTryStatement ==
  T("TRY") \o Here \o Block({"TRAP", "END", EOF})
  \o While(<<{"TRAP"}>>, Trap(T("DO") \o Block({"TRAP", "END", EOF})))
  \o End("TRY")
parsePanicStatement == T("PANIC") \o Expression
parseRaiseStatement == T("RAISE") \o Dotted \o May("LPAREN", Expression)
parseExecStatement == Words(<<"EXEC", "STRING">>)
parseUnusedStatement == T("UNUSED") \o List(Name)
parseAssert == T("ASSERT") \o List(Expression)
parseTestCase ==
  LET expected == Switch("PANIC" :> Words(<<"PANIC", "STRING">>), Name)
  IN T("TESTCASE") \o Expression
     \o May("EXPECT", T("EXPECT") \o expected \o While(<<{"DOT"}>>, T("DOT") \o expected))
parseDebug == T("DEBUG") \o List(Expression)
parseBegin == Words(<<"BEGIN", "MAIN">>) \o Here \o Block({"END", EOF}) \o End("MAIN")
parseAssignment ==
  Ahead(<<{"IDENTIFIER"}, {"ASSIGN", "EQUAL", "LBRACKET", "LPAREN", "DOT", "ARROW"}>>,
    Expression \o May("ASSIGN", T("ASSIGN") \o Expression), Take({}))

parseStatement ==
  Column \o
  Switch("IMPORT" :> parseImport @@ "TYPE" :> parseTypeDefinition @@ "CONSTANT" :> parseConstantDefinition @@
         "FUNCTION" :> parseFunctionDefinition(0) @@ "DECLARE" :> parseDeclaration @@ "EXCEPTION" :> parseException @@
         "INTERFACE" :> parseInterface @@ "EXPORT" :> parseExport @@ "INC" :> parseIncrementStatement @@
         "DEC" :> parseIncrementStatement @@ "IF" :> parseIfStatement @@ "RETURN" :> parseReturnStatement @@
         "VAR" :> parseVarStatement @@ "LET" :> parseLetStatement @@ "WHILE" :> parseWhileStatement @@
         "CASE" :> parseCaseStatement @@ "FOR" :> parseForStatement @@ "FOREACH" :> parseForeachStatement @@
         "LOOP" :> parseLoopStatement @@ "REPEAT" :> parseRepeatStatement @@ "EXIT" :> parseExitStatement @@
         "NEXT" :> parseNextStatement @@ "TRY" :> parseTryStatement @@ "PANIC" :> parsePanicStatement @@
         "RAISE" :> parseRaiseStatement @@ "ASSERT" :> parseAssert @@ "TESTCASE" :> parseTestCase @@
         "DEBUG" :> parseDebug @@ "BEGIN" :> parseBegin @@ "CHECK" :> parseCheckStatement @@
         "EXEC" :> parseExecStatement @@ "UNUSED" :> parseUnusedStatement @@
         "UNDERSCORE" :> Words(<<"UNDERSCORE", "ASSIGN">>) \o Expression, parseAssignment)
parse == Until({EOF}, Call("Statement"))

-----------------------------------------------------------------------------
(* The functions that are called, each with what it returns to.             *)
Body ==
  [Expression |-> parseLogical, Conditional |-> parseConditional, Membership |-> parseMembership,
   TypeTest |-> parseTypeTest, Comparison |-> parseComparison, Arithmetic |-> parseArithmetic,
   CompoundExpression |-> parseCompoundExpression, Atom |-> parseAtom, Type |-> parseType,
   FunctionParameters |-> parseFunctionParameters, Statement |-> parseStatement,
   ExportedFunction |-> parseFunctionDefinition(1)]

(* The columns at which the functions being executed began, innermost first. *)
Starts(p, ts) ==
  LET frames == SelectSeq(p.todo, LAMBDA c : c.do = "return")
  IN [k \in DOMAIN frames |-> ts[frames[k].start].column]

(* A condition is about consecutive tokens, and only looks at the next one  *)
(* when the one before fits.                                                *)
Fits(cond, k, i, ts) == \A j \in 1..k : i + j - 1 \in DOMAIN ts /\ ts[i + j - 1].type \in cond[j]
Open(cond, i, ts) == \E k \in 0..(Len(cond) - 1) : i + k \notin DOMAIN ts /\ Fits(cond, k, i, ts)

Waits(p, ts) ==
  LET c == Head(p.todo)
  IN CASE c.do \in {"if", "while"} -> Open(c.cond, p.i, ts)
       [] c.do \in {"take", "must", "refuse", "switch", "column"} -> p.i \notin DOMAIN ts
       [] OTHER -> FALSE

Reject(p) == [p EXCEPT !.status = "rejected"]

Called(p, f) ==
  LET return == [do |-> "return", function |-> f, start |-> p.i, minimum_column |-> p.minimum_column]
  IN IF f = "Expression" /\ p.expression_depth + 1 > MaxDepth THEN Reject(p)
     ELSE [p EXCEPT !.expression_depth = @ + (IF f = "Expression" THEN 1 ELSE 0),
                    !.todo = Body[f] \o <<return>> \o Tail(@)]
(* Mutant: the minimum column is not restored.                               *)
Returned_indented(p, c) ==
  [p EXCEPT !.expression_depth = @ - (IF c.function = "Expression" THEN 1 ELSE 0), !.todo = Tail(@)]
Returned(p, c) ==
  [p EXCEPT !.expression_depth = @ - (IF c.function = "Expression" THEN 1 ELSE 0),
            !.minimum_column = c.minimum_column, !.todo = Tail(@)]

(* One command of a parser whose next token has been read if it matters.     *)
Execute(p, ts) ==
  LET c == Head(p.todo)
      rest == Tail(p.todo)
      type == ts[p.i].type
      continue(q) == [p EXCEPT !.todo = q]
  IN CASE c.do = "take" -> IF type \in c.types THEN [continue(rest) EXCEPT !.i = @ + 1] ELSE Reject(p)
       [] c.do = "must" -> IF type \in c.types THEN continue(rest) ELSE Reject(p)
       [] c.do = "refuse" -> IF type \in c.types THEN Reject(p) ELSE continue(rest)
       [] c.do = "column" -> IF ts[p.i].column < p.minimum_column THEN Reject(p) ELSE continue(rest)
       [] c.do = "if" -> continue((IF Fits(c.cond, Len(c.cond), p.i, ts) THEN c.yes ELSE c.no) \o rest)
       [] c.do = "while" -> continue(IF Fits(c.cond, Len(c.cond), p.i, ts) THEN c.body \o p.todo ELSE rest)
       [] c.do = "switch" -> continue((IF type \in DOMAIN c.cases THEN c.cases[type] ELSE c.default) \o rest)
       [] c.do = "call" -> Called(p, c.function)
       [] c.do = "return" -> Returned(p, c)
       [] c.do = "indent" -> [continue(rest) EXCEPT !.minimum_column = Starts(p, ts)[c.caller + 1] + 1]
       [] c.do = "lone" -> IF Last(p.nodes).node = "name" THEN continue(rest) ELSE Reject(p)
       [] c.do = "node" ->
            [continue(rest) EXCEPT !.nodes = Append(@, [node |-> c.node, chained |-> c.chained, token |-> p.i - 1])]

RECURSIVE Run(_, _)
Run(p, ts) ==
  IF p.status # "parsing" THEN p
  ELSE IF p.todo = <<>> THEN [p EXCEPT !.status = "accepted"]
  ELSE IF Waits(p, ts) THEN p
  ELSE Run(Execute(p, ts), ts)

(* The REPL tries a line as an expression first, and wants all of it used.   *)
Start(t) == IF Topics[t].start = "Expression" THEN Expression \o T(EOF) ELSE parse

Init ==
  /\ topic \in DOMAIN Topics
  /\ tokens = <<>>
  /\ parser = [i |-> 1, todo |-> Start(topic), expression_depth |-> 0, minimum_column |-> 1, nodes |-> <<>>,
                status |-> "parsing"]

Read(type, column) ==
  /\ parser.status = "parsing"
  /\ tokens' = Append(tokens, [type |-> type, column |-> column])
  /\ parser' = Run(parser, tokens')
  /\ UNCHANGED topic

(* A column matters where a statement begins: the topic says which ones are  *)
(* tried, any other token is where its number in the text puts it.           *)
Columns(type) ==
  IF type \in DOMAIN Topics[topic].columns THEN Topics[topic].columns[type] ELSE {Len(tokens) + 1}

ReadToken ==
  /\ Len(tokens) < Topics[topic].most
  /\ \E type \in Topics[topic].types : \E column \in Columns(type) : Read(type, column)
ReadEnd == Read(EOF, 1)

Next == ReadToken \/ ReadEnd
Spec == Init /\ [][Next]_vars

-----------------------------------------------------------------------------
(* Properties.                                                               *)
G == INSTANCE Grammar

(* The parser looks at most two tokens ahead, commits to a production on     *)
(* what it sees and never takes a decision back, and keeps a depth and a     *)
(* least column in members that every exit from a function has to restore.   *)
(* Still it accepts a text exactly when some derivation of the grammar       *)
(* yields it, and goes on exactly while what it has read is the beginning of *)
(* such a text. It looks past the end only where the name of a native        *)
(* constant or variable is missing there (parseDeclaration).                 *)
AcceptsTheGrammar ==
  LET ends == G!EndsOfText(Topics[topic].start, tokens, MaxDepth)
  IN /\ parser.status = "rejected" <=> ends = {}
     /\ parser.status = "accepted" <=> Len(tokens) + 1 \in ends

(* expressions.adoc: "Parentheses are required in an expression, if adding   *)
(* parentheses around any two operands would change the meaning of the       *)
(* expression." What the parser accepts has one meaning however it is read,  *)
(* and its nodes, built from the left, have that meaning.                    *)
OneReading ==
  parser.status = "accepted" /\ Topics[topic].start = "Expression" /\ G!Understood(parser.nodes) =>
    \A seed \in 1..3 : G!Meanings(seed, 1, Len(tokens) - 1, tokens) = G!Built(seed, parser.nodes, tokens)
-----------------------------------------------------------------------------
(* The topics for TLC: for every part of the language the tokens it is made  *)
(* of, and as many of them as its forms need.                                *)
Text(start, most, types) == [start |-> start, most |-> most, types |-> types, columns |-> <<>>]
Brackets == {"LPAREN", "RPAREN"}

MCExpressions ==
  [arithmetic |-> Text("Expression", 6, {"NUMBER", "PLUS", "MINUS", "TIMES", "DIVIDE"} \union Brackets),
   operators |-> Text("Expression", 5, {"NUMBER", "CONCAT", "INTDIV", "MOD", "EXP", "MINUS", "TIMES"}),
   logic |-> Text("Expression", 6, {"IDENTIFIER", "NOT", "AND", "OR", "IN", "EQUAL"} \union Brackets),
   comparison |-> Text("Expression", 7, {"IDENTIFIER", "NOTEQUAL", "GREATER", "LESSEQ", "GREATEREQ",
                                         "LESS", "ISA"}),
   subscript |-> Text("Expression", 7, {"IDENTIFIER", "LBRACKET", "RBRACKET", "FIRST", "LAST", "TO", "MINUS"}),
   array |-> Text("Expression", 7, {"NUMBER", "LBRACKET", "RBRACKET", "TO", "STEP", "COMMA"}),
   dictionary |-> Text("Expression", 8, {"NIL", "LBRACE", "RBRACE", "COLON", "COMMA", "NOT"}),
   elements |-> Text("Expression", 7, {"NIL", "LBRACE", "RBRACE", "COLON", "MINUS"}),
   call |-> Text("Expression", 6, {"IDENTIFIER", "OUT", "WITH", "UNDERSCORE", "ELLIPSIS", "COMMA", "DOT",
                                   "NEW"} \union Brackets),
   literal |-> Text("Expression", 6, {"STRING", "SUBBEGIN", "SUBFMT", "SUBEND", "EMBED", "HEXBYTES",
                                      "NOWHERE", "ARROW", "IDENTIFIER"}),
   conditional |-> Text("Expression", 9, {"TRUE", "IF", "THEN", "ELSE"} \union Brackets),
   trying |-> Text("Expression", 10, {"IDENTIFIER", "TRY", "TRAP", "AS", "DO", "GIVES", "INC"} \union Brackets),
   nesting |-> Text("Expression", 9, {"FALSE", "AND"} \union Brackets)]
MCDeclarations ==
  [import |-> Text("Program", 8, {"IMPORT", "OPTIONAL", "STRING", "IDENTIFIER", "DOT", "ALIAS"}),
   enum |-> Text("Program", 9, {"TYPE", "IDENTIFIER", "IS", "ENUM", "CHOICE", "ASSIGN", "COLON", "NUMBER",
                                "END"}),
   record |-> Text("Program", 10, {"TYPE", "IDENTIFIER", "IS", "RECORD", "CLASS", "IMPLEMENTS", "PRIVATE",
                                   "COLON", "COMMA", "DOT", "END"}),
   type |-> Text("Program", 7, {"TYPE", "IDENTIFIER", "IS", "ARRAY", "DICTIONARY", "LESS", "GREATER",
                                "POINTER", "VALID", "TO", "DOT", "FUNCTION"} \union Brackets),
   function |-> Text("Program", 8, {"FUNCTION", "IDENTIFIER", "DOT", "COLON", "COMMA", "INOUT",
                                    "ELLIPSIS", "END"} \union Brackets),
   parameter |-> Text("Program", 11, {"DECLARE", "NATIVE", "FUNCTION", "IDENTIFIER", "COLON", "DEFAULT",
                                      "UNDERSCORE"} \union Brackets),
   external |-> Text("Program", 7, {"DECLARE", "NATIVE", "EXTENSION", "FUNCTION", "CONSTANT", "VAR",
                                    "IDENTIFIER", "COLON", "EXPORT"} \union Brackets),
   variable |-> Text("Program", 7, {"CONSTANT", "LET", "VAR", "IDENTIFIER", "COMMA", "COLON", "ASSIGN",
                                    "EXPORT"}),
   interface |-> Text("Program", 8, {"EXCEPTION", "INTERFACE", "FUNCTION", "IDENTIFIER", "DOT", "END",
                                     "EXPORT"} \union Brackets),
   export |-> Text("Program", 9, {"EXPORT", "TYPE", "IDENTIFIER", "IS", "FUNCTION", "END"} \union Brackets)]
MCStatements ==
  [if |-> Text("Program", 11, {"IF", "IDENTIFIER", "IMPORTED", "THEN", "ELSIF", "ELSE", "END", "INC"}),
   valid |-> Text("Program", 10, {"CHECK", "WHILE", "VALID", "IDENTIFIER", "AS", "COMMA", "DO", "ELSE",
                                  "END", "DOT", "LABEL"}),
   case |-> Text("Program", 10, {"CASE", "WHEN", "OTHERS", "IDENTIFIER", "EQUAL", "ISA", "TO", "DO",
                                 "COMMA", "END"}),
   for |-> Text("Program", 14, {"FOR", "FOREACH", "IDENTIFIER", "ASSIGN", "IN", "TO", "STEP", "INDEX",
                                "LABEL", "DO", "END"}),
   loop |-> Text("Program", 7, {"LOOP", "REPEAT", "UNTIL", "IDENTIFIER", "LABEL", "ASSIGN", "END"}),
   exit |-> Text("Program", 4, {"EXIT", "NEXT", "PROCESS", "SUCCESS", "FAILURE", "WHILE", "FUNCTION",
                                "IDENTIFIER"}),
   try |-> Text("Program", 10, {"TRY", "TRAP", "IDENTIFIER", "AS", "DO", "END"}),
   raise |-> Text("Program", 6, {"RAISE", "IDENTIFIER", "DOT", "PANIC"} \union Brackets),
   test |-> Text("Program", 5, {"ASSERT", "DEBUG", "IDENTIFIER", "COMMA", "UNUSED", "EXEC", "STRING",
                                "BEGIN", "MAIN", "END", "RETURN"}),
   testcase |-> Text("Program", 8, {"TESTCASE", "EXPECT", "IDENTIFIER", "PANIC", "STRING", "DOT"}),
   assign |-> Text("Program", 6, {"IDENTIFIER", "UNDERSCORE", "ASSIGN", "EQUAL", "LBRACKET", "RBRACKET",
                                  "COMMA", "DOT", "DEC"} \union Brackets),
   indent |-> [Text("Program", 9, {"REPEAT", "UNTIL", "NIL",
                                   "PANIC"}) EXCEPT !.columns = [REPEAT |-> 1..2, PANIC |-> 2..3]],
   body |-> [Text("Program", 9, {"EXPORT", "FUNCTION", "IDENTIFIER", "EXEC", "STRING",
                                 "END"} \union Brackets) EXCEPT
               !.columns = [EXPORT |-> 1..2, EXEC |-> 2..3]]]

MCTopics == MCExpressions @@ MCDeclarations @@ MCStatements

==============================================================================
