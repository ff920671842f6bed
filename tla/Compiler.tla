------------------------------ MODULE Compiler ------------------------------
(***************************************************************************)
(* Code generation (compiler.cpp) for the part of the language that shapes *)
(* control flow and the operand stack: expressions, calls, conditionals,   *)
(* loops, CASE, TRY, RAISE, RETURN, functions and modules.  Calls(node, p) *)
(* is the sequence of Emitter calls the node's generate method makes; the  *)
(* path p of the node in the tree makes its labels unique.                 *)
(*                                                                         *)
(* For model checking only: the definitions are recursive over the tree.   *)
(***************************************************************************)
EXTENDS Emitter

(* The tree.  k is the kind of the node.                                   *)

(* An expression: operands evaluated in order, then one instruction.       *)
Op(args, i) == [k |-> "op", args |-> args, i |-> i]
Num == Op(<<>>, Instr("PUSHN"))
Variable == Op(<<Op(<<>>, Instr("PUSHPL"))>>, Instr("LOADN"))
OuterVariable(back) == Op(<<Op(<<>>, InstrN("PUSHPOL", back))>>, Instr("LOADN"))
Info == Op(<<Op(<<>>, Instr("PUSHS"))>>, [Instr("CALLP") EXCEPT !.in = 1, !.out = 1])

Conditional(c, l, r) == [k |-> "conditional", c |-> c, l |-> l, r |-> r]
Conjunction(l, r) == [k |-> "shortcut", op |-> "JF", l |-> l, r |-> r]
Disjunction(l, r) == [k |-> "shortcut", op |-> "JT", l |-> l, r |-> r]
TypeTest(e) == [k |-> "isa", e |-> e]
TryExpr(e, excs, h) == [k |-> "tryexpr", e |-> e, excs |-> excs, h |-> h]

Discard(e) == [k |-> "discard", e |-> e]                 \* ExpressionStatement, a value
Perform1(e) == [k |-> "perform", e |-> e]                \* ExpressionStatement, nothing
Assign(v, e) == [k |-> "assign", v |-> v, e |-> e]
Increment(v) == [k |-> "increment", v |-> v]
If(c, s, t) == [k |-> "if", c |-> c, s |-> s, t |-> t]
Loop(id, s, tail) == [k |-> "loop", id |-> id, s |-> s, tail |-> tail]
ExitLoop(id) == [k |-> "exit", id |-> id]
NextLoop(id) == [k |-> "next", id |-> id]
Return(e) == [k |-> "return", e |-> e]
Raise(x) == [k |-> "raise", x |-> x]
Try(s, catches) == [k |-> "try", s |-> s, catches |-> catches]
Catch(excs, s) == [excs |-> excs, s |-> s]
CaseTable(e, jumps, clauses, others) ==
  [k |-> "table", e |-> e, jumps |-> jumps, clauses |-> clauses, others |-> others]
CaseLinear(e, clauses, others) == [k |-> "linear", e |-> e, clauses |-> clauses, others |-> others]

-----------------------------------------------------------------------------
RECURSIVE Calls(_, _)

(* The calls of a sequence of nodes, in order.                             *)
Block(nodes, p) ==
  FoldLeft(LAMBDA all, i : all \o Calls(nodes[i], Append(p, ToString(i))), <<>>,
           [i \in 1..Len(nodes) |-> i])

(* ConditionalExpression, ConjunctionExpression, DisjunctionExpression     *)
conditional(n, p) ==
  Calls(n.c, Append(p, "c")) \o <<EmitJump("JF", <<p, "else">>)>>
    \o Calls(n.l, Append(p, "l"))
    \o <<EmitJump("JUMP", <<p, "end">>), JumpTarget(<<p, "else">>)>>
    \o Calls(n.r, Append(p, "r")) \o <<JumpTarget(<<p, "end">>)>>

shortcut(n, p) ==
  Calls(n.l, Append(p, "l"))
    \o <<Emit(Instr("DUP")), EmitJump(n.op, <<p, "done">>), Emit(Instr("DROP"))>>
    \o Calls(n.r, Append(p, "r")) \o <<JumpTarget(<<p, "done">>)>>

DynamicConversion == <<"DynamicConversionException">>

type_test(n, p) ==
  <<TryBegin(p)>> \o Calls(n.e, Append(p, "e"))
    \o <<Emit(Instr("DROP")), Emit(Instr("PUSHB")), EmitJump("JUMP", <<p, "skip">>),
         TryEnd(p), Trap(p, <<DynamicConversion>>),
         Emit(Instr("DROP")), Emit(Instr("PUSHB")), JumpTarget(<<p, "skip">>)>>

(* TryExpression with one TRAP ... GIVES clause; the exception is dropped. *)
try_expression(n, p) ==
  <<TryBegin(p)>> \o Calls(n.e, Append(p, "e"))
    \o <<EmitJump("JUMP", <<p, "skip">>), TryEnd(p), Trap(p, n.excs), Emit(Instr("DROP"))>>
    \o Calls(n.h, Append(p, "h"))
    \o <<EmitJump("JUMP", <<p, "skip">>), JumpTarget(<<p, "skip">>)>>

-----------------------------------------------------------------------------
increment(n, p) ==
  Calls(n.v, Append(p, "v"))
    \o <<Emit(Instr("DUP")), Emit(Instr("LOADN")), Emit(Instr("PUSHN")),
         Emit(Instr("ADDN")), Emit(Instr("SWAP")), Emit(Instr("STOREN"))>>

(* AssignmentStatement, one variable given by its address expression.      *)
assignment(n, p) ==
  Calls(n.e, Append(p, "e")) \o Calls(n.v, Append(p, "v")) \o <<Emit(Instr("STOREN"))>>

if_statement(n, p) ==
  Calls(n.c, Append(p, "c")) \o <<EmitJump("JF", <<p, "else">>)>>
    \o Block(n.s, Append(p, "s"))
    \o <<EmitJump("JUMP", <<p, "end">>), JumpTarget(<<p, "else">>)>>
    \o Block(n.t, Append(p, "t")) \o <<JumpTarget(<<p, "end">>)>>

(* BaseLoopStatement; EXIT and NEXT find its labels by its loop_id.        *)
loop(n, p) ==
  <<JumpTarget(<<p, "top">>)>> \o Block(n.s, Append(p, "s"))
    \o <<JumpTarget(<<<<n.id>>, "next">>)>> \o Block(n.tail, Append(p, "tail"))
    \o <<EmitJump("JUMP", <<p, "top">>), JumpTarget(<<<<n.id>>, "exit">>)>>

(* ReturnStatement jumps to the exit of the function, which is p[1].       *)
return(n, p) ==
  Block(n.e, Append(p, "e")) \o <<EmitJump("JUMP", <<<<p[1]>>, "return">>)>>

raise(n) ==
  <<Emit(Instr("PUSHS")), Emit([Instr("CALLP") EXCEPT !.in = 1, !.out = 1]),
    Emit([Instr("EXCEPT") EXCEPT !.exc = {n.x}])>>

(* TryStatement: each clause drops the exception it does not name.         *)
try_statement(n, p) ==
  <<TryBegin(p)>> \o Block(n.s, Append(p, "s"))
    \o <<EmitJump("JUMP", <<p, "skip">>), TryEnd(p)>>
    \o FoldLeft(LAMBDA all, i :
          all \o <<Trap(p, n.catches[i].excs), Emit(Instr("DROP"))>>
              \o Block(n.catches[i].s, p \o <<"c", ToString(i)>>)
              \o <<EmitJump("JUMP", <<p, "skip">>)>>,
          <<>>, [i \in 1..Len(n.catches) |-> i])
    \o <<JumpTarget(<<p, "skip">>)>>

(***************************************************************************)
(* CaseStatement over integers, as a jump table: jumps[i] is the clause of *)
(* the i-th value of the range, 0 for OTHERS.                              *)
(***************************************************************************)
case_table(n, p) ==
  LET lab(c) == <<p, ToString(c)>>
  IN  Calls(n.e, Append(p, "e"))
        \o <<Emit(InstrN("JUMPTBL", Len(n.jumps)))>>
        \o [i \in 1..Len(n.jumps) |-> EmitJump("JUMP", lab(n.jumps[i]))]
        \o <<EmitJump("JUMP", lab(0))>>
        \o FoldLeft(LAMBDA all, c :
              all \o <<JumpTarget(lab(c))>> \o Block(n.clauses[c], p \o <<"s", ToString(c)>>)
                  \o <<EmitJump("JUMP", <<p, "end">>)>>,
              <<>>, [c \in 1..Len(n.clauses) |-> c])
        \o <<JumpTarget(lab(0))>> \o Block(n.others, Append(p, "o"))
        \o <<JumpTarget(<<p, "end">>)>>

(* CaseStatement clause by clause; each clause tests one equality.         *)
case_linear(n, p) ==
  LET lab(c, x) == <<p, ToString(c) \o x>>
      clause(c) ==
        <<Emit(Instr("DUP")), Emit(Instr("PUSHN")), Emit(Instr("EQN")),
          EmitJump("JT", lab(c, "match")), EmitJump("JUMP", lab(c, "next")),
          JumpTarget(lab(c, "match")), Emit(Instr("DROP"))>>
          \o Block(n.clauses[c], p \o <<"s", ToString(c)>>)
          \o <<EmitJump("JUMP", <<p, "end">>), JumpTarget(lab(c, "next"))>>
      others ==
        <<Emit(Instr("DROP"))>> \o Block(n.others, Append(p, "o"))
          \o <<EmitJump("JUMP", <<p, "end">>), JumpTarget(<<p, "others next">>)>>
  IN  Calls(n.e, Append(p, "e"))
        \o FoldLeft(LAMBDA all, c : all \o clause(c), <<>>, [c \in 1..Len(n.clauses) |-> c])
        \o others
        \o <<Emit(Instr("DROP")), JumpTarget(<<p, "end">>)>>

Calls(n, p) ==
  CASE n.k = "op"          -> Block(n.args, Append(p, "a")) \o <<Emit(n.i)>>
    [] n.k = "conditional" -> conditional(n, p)
    [] n.k = "shortcut"    -> shortcut(n, p)
    [] n.k = "isa"         -> type_test(n, p)
    [] n.k = "tryexpr"     -> try_expression(n, p)
    [] n.k = "discard"     -> Calls(n.e, Append(p, "e")) \o <<Emit(Instr("DROP"))>>
    [] n.k = "perform"     -> Calls(n.e, Append(p, "e"))
    [] n.k = "assign"      -> assignment(n, p)
    [] n.k = "increment"   -> increment(n, p)
    [] n.k = "if"          -> if_statement(n, p)
    [] n.k = "loop"        -> loop(n, p)
    [] n.k = "exit"        -> <<EmitJump("JUMP", <<<<n.id>>, "exit">>)>>
    [] n.k = "next"        -> <<EmitJump("JUMP", <<<<n.id>>, "next">>)>>
    [] n.k = "return"      -> return(n, p)
    [] n.k = "raise"       -> raise(n)
    [] n.k = "try"         -> try_statement(n, p)
    [] n.k = "table"       -> case_table(n, p)
    [] n.k = "linear"      -> case_linear(n, p)

-----------------------------------------------------------------------------
(***************************************************************************)
(* Functions.  params IN parameters, stored on entry; outs OUT parameters, *)
(* loaded before RET; value: whether there is a return value; body: the    *)
(* statements; chain: the enclosing functions, innermost first, ending     *)
(* with 1, the module.                                                     *)
(***************************************************************************)
Func(params, outs, value, body, chain) ==
  [params |-> params, outs |-> outs, value |-> value, body |-> body,
   chain |-> chain, extension |-> FALSE, exc |-> {}]

(* An extension function: it may raise exc.                                *)
Extension(params, outs, value, exc) ==
  [params |-> params, outs |-> outs, value |-> value, body |-> <<>>,
   chain |-> <<>>, extension |-> TRUE, exc |-> exc]

Results(fn) == fn.outs + IF fn.value THEN 1 ELSE 0

Repeat(n, s) == FlattenSeq([i \in 1..n |-> s])

(* Function::postdeclare                                                   *)
function(f, fn) ==
  <<Function(f, fn.params)>>
    \o Repeat(fn.params, <<Emit(Instr("PUSHPL")), Emit(Instr("STOREN"))>>)
    \o Block(fn.body, <<ToString(f)>>)
    \o <<JumpTarget(<<<<ToString(f)>>, "return">>)>>
    \o Repeat(fn.outs, <<Emit(Instr("PUSHPL")), Emit(Instr("LOADN"))>>)
    \o <<Emit(Instr("RET"))>>

(* ExtensionFunction::postdeclare and generate_call                        *)
extension(f, fn) ==
  <<Function(f, fn.params),
    Emit(InstrN("CONSA", fn.params)),
    Emit([InstrN("CALLX", fn.outs) EXCEPT !.exc = fn.exc])>>
    \o (IF fn.value THEN <<>> ELSE <<Emit(InstrN("DROPN", fn.outs))>>)
    \o <<Emit(Instr("RET"))>>

(***************************************************************************)
(* Program::generate: the statements of the module, a call of MAIN (0:     *)
(* there is none) if this is the main module, then the functions.          *)
(***************************************************************************)
ModuleSource(body, main, funcs) == [body |-> body, main |-> main, funcs |-> funcs]

program(src) ==
  <<Function(1, 0)>> \o Block(src.body, <<"1">>)
    \o (IF src.main = 0 THEN <<>>
         ELSE <<Emit([Instr("CALLP") EXCEPT !.out = 1]), EmitJump("JF", <<<<"1">>, "skip">>),
                Emit([Instr("CALLF") EXCEPT !.fn = src.main]),
                JumpTarget(<<<<"1">>, "skip">>)>>)
    \o <<Emit(Instr("RET"))>>
    \o FoldLeft(LAMBDA all, f :
          all \o (IF src.funcs[f].extension THEN extension(f + 1, src.funcs[f])
                  ELSE function(f + 1, src.funcs[f])),
          <<>>, [f \in 1..Len(src.funcs) |-> f])

(* The function table getObject writes.  An extension function is given    *)
(* neither a nesting depth nor a parameter count.                          *)
FunctionTable(src) ==
  [f \in 1..(Len(src.funcs) + 1) |->
     IF f = 1
     THEN [nest |-> 0, params |-> 0, results |-> 0, entry |-> 0, chain |-> <<>>]
     ELSE LET fn == src.funcs[f - 1]
          IN  [nest |-> Len(fn.chain),
               params |-> IF fn.extension THEN 0 ELSE fn.params,
               results |-> Results(fn), entry |-> 0, chain |-> fn.chain]]

(***************************************************************************)
(* The calls one after the other, half of them at a time; as the element   *)
(* of a set the state after the first half is computed before the second   *)
(* half, which keeps TLC's evaluation shallow.                             *)
(***************************************************************************)
RECURSIVE PerformAll(_, _)
PerformAll(em, calls) ==
  IF Len(calls) = 1 THEN Perform(em, Head(calls))
  ELSE LET half == Len(calls) \div 2
           states == {PerformAll(e, SubSeq(calls, half + 1, Len(calls))) :
                        e \in {PerformAll(em, SubSeq(calls, 1, half))}}
       IN  CHOOSE e \in states : TRUE

(* A program from the sources of its modules.                              *)
Compiled(sources, main, init) ==
  LET em == Table([m \in DOMAIN sources |-> PerformAll(Start, program(sources[m]))])
  IN  Linked(main, init, Table([m \in DOMAIN sources |-> Object(em[m], FunctionTable(sources[m]))]))

=============================================================================
