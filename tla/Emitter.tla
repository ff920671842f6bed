------------------------------- MODULE Emitter -------------------------------
(***************************************************************************)
(* The code generator's Emitter: it turns a sequence of calls (emit,       *)
(* emit_jump, jump_target, ...) into code, an exception table and the      *)
(* recorded operand depths.  Code generation for the abstract syntax tree  *)
(* (module Compiler) is a matter of which calls are made.                  *)
(***************************************************************************)
EXTENDS Bytecode, SequencesExt

(* The calls.  A label is any value that is not used for another label.    *)
Emit(i)           == [call |-> "emit", i |-> i]
EmitJump(op, lab) == [call |-> "jump", i |-> Instr(op), lab |-> lab]
JumpTarget(lab)   == [call |-> "target", lab |-> lab]
Function(f, d)    == [call |-> "function", f |-> f, d |-> d]
TryBegin(lab)     == [call |-> "try", lab |-> lab]
TryEnd(lab)       == [call |-> "end", lab |-> lab]
Trap(lab, excs)   == [call |-> "trap", lab |-> lab, excs |-> excs]

(***************************************************************************)
(* The state of an Emitter.  labels: target and target_stack_depth of each *)
(* label; tries: start, end and start_stack_depth of each TRY being        *)
(* generated; fixups: the label of each jump.                              *)
(***************************************************************************)
NoFields == [x \in {} |-> 0]

Start ==
  [code |-> <<>>, depth |-> <<>>, owner |-> <<>>, exc |-> <<>>, fixups |-> <<>>,
   stack_depth |-> 0, in_jumptbl |-> FALSE, fn |-> 1, entry |-> NoFields,
   target |-> NoFields, target_depth |-> NoFields, tries |-> NoFields,
   internal_error |-> FALSE]

Put(f, x, v) == [y \in DOMAIN f \cup {x} |-> IF y = x THEN v ELSE f[y]]

(* f itself; TLC computes it once, not at every application.               *)
Table(f) == f @@ NoFields

current_ip(em) == Len(em.code) + 1

(* Emitter::emit, with the adjust_stack_depth that follows a call.         *)
emit(em, i, lab) ==
  LET live == em.stack_depth >= 0
      tbl == IF live THEN i.op = "JUMPTBL" \/ (em.in_jumptbl /\ i.op = "JUMP")
             ELSE em.in_jumptbl
  IN  [em EXCEPT !.code = Append(@, i),
                 !.depth = Append(@, em.stack_depth),
                 !.owner = Append(@, em.fn),
                 !.fixups = Append(@, lab),
                 !.in_jumptbl = tbl,
                 !.stack_depth = IF live /\ i.op = "EXCEPT" THEN -1
                                 ELSE IF live THEN @ + EmitDelta(i)
                                 ELSE @ + EmitOperand(i) + StackDelta(i)]

(***************************************************************************)
(* Emitter::emit_jump: all jumps to a label agree on the depth; code after *)
(* a JUMP is unreachable, except in a jump table.                          *)
(***************************************************************************)
emit_jump(em, c) ==
  LET e1 == emit(em, c.i, <<c.lab>>)
      d == e1.stack_depth
      set == c.lab \in DOMAIN em.target_depth
      e2 == IF d >= 0 /\ ~set THEN [e1 EXCEPT !.target_depth = Put(@, c.lab, d)]
            ELSE IF d >= 0 /\ em.target_depth[c.lab] # d
                 THEN [e1 EXCEPT !.internal_error = TRUE]
            ELSE e1
  IN  IF c.i.op = "JUMP" /\ ~e1.in_jumptbl
      THEN [e2 EXCEPT !.stack_depth = -1]
      ELSE e2

(* Emitter::jump_target; the forward jumps to the label are resolved below. *)
jump_target(em, lab) ==
  LET here == current_ip(em)
      d == IF lab \in DOMAIN em.target_depth THEN em.target_depth[lab] ELSE em.stack_depth
  IN  [em EXCEPT !.target = Put(@, lab, here),
                 !.target_depth = IF d >= 0 THEN Put(@, lab, d) ELSE @,
                 !.stack_depth = d]

(* The part of TryStatement, TryExpression and the type tests that records *)
(* exception ranges; handlers start with the exception on the stack.       *)
try_begin(em, lab) ==
  [em EXCEPT !.tries = Put(@, lab, [start |-> current_ip(em), end |-> 0,
                                    depth |-> em.stack_depth])]

try_end(em, lab) == [em EXCEPT !.tries[lab].end = current_ip(em)]

Ranges(em, t, excs) ==
  [k \in 1..Len(excs) |->
     [start |-> t.start, end |-> t.end, exc |-> excs[k],
      handler |-> current_ip(em), depth |-> t.depth]]

(* Mutants: the pushed exception is not counted; the last TRY comes first. *)
add_exceptions_uncounted(em, lab, excs) ==
  [em EXCEPT !.stack_depth = em.tries[lab].depth, !.exc = @ \o Ranges(em, em.tries[lab], excs)]
add_exceptions_reversed(em, lab, excs) ==
  [em EXCEPT !.stack_depth = em.tries[lab].depth + 1, !.exc = Ranges(em, em.tries[lab], excs) \o @]

add_exceptions(em, lab, excs) ==
  [em EXCEPT !.stack_depth = em.tries[lab].depth + 1, !.exc = @ \o Ranges(em, em.tries[lab], excs)]

(* Function::postdeclare resolves the entry label and sets the depth.      *)
begin_function(em, f, d) ==
  [em EXCEPT !.entry = Put(@, f, current_ip(em)), !.fn = f, !.stack_depth = d]

Perform(em, c) ==
  CASE c.call = "emit"     -> emit(em, c.i, <<>>)
    [] c.call = "jump"     -> emit_jump(em, c)
    [] c.call = "target"   -> jump_target(em, c.lab)
    [] c.call = "function" -> begin_function(em, c.f, c.d)
    [] c.call = "try"      -> try_begin(em, c.lab)
    [] c.call = "end"      -> try_end(em, c.lab)
    [] c.call = "trap"     -> add_exceptions(em, c.lab, c.excs)

(* The jumps with their targets.                                           *)
Resolve(em) ==
  [em EXCEPT !.code = Table(
     [k \in 1..Len(em.code) |->
        IF em.fixups[k] = <<>> THEN em.code[k]
        ELSE [em.code[k] EXCEPT !.n = em.target[Head(em.fixups[k])]]])]

(* Where control can go from address i, by itself or by an exception.      *)
Successors(code, exc, i) ==
  LET ins == code[i]
  IN  (IF ins.op \in NoFallThrough THEN {} ELSE {i + 1})
        \cup (IF ins.op \in BranchOps THEN {ins.n} ELSE {})
        \cup (IF ins.op = "JUMPTBL" THEN {i + 1 + k : k \in 0..ins.n} ELSE {})
        \cup {exc[j].handler : j \in {x \in DOMAIN exc :
                InRange(exc[x], i) \/ (RaisesAfter(ins) /\ InRange(exc[x], i + 1))}}

Reachable(code, exc, entries) ==
  LET next == Table([i \in DOMAIN code |-> Successors(code, exc, i) \cap DOMAIN code])
      reach[k \in 0..Len(code)] ==
        IF k = 0 THEN entries
        ELSE LET s == reach[k - 1] IN s \cup UNION {next[i] : i \in s}
  IN  reach[Len(code)]

(***************************************************************************)
(* getObject: the module as the executor will load it.  infos is the       *)
(* function table without the entry addresses.                             *)
(***************************************************************************)
Object(em, infos) ==
  LET code == Resolve(em).code
  IN  [code |-> code, depth |-> em.depth, owner |-> em.owner, exc |-> em.exc,
       funcs |-> Table([f \in DOMAIN infos |-> [infos[f] EXCEPT !.entry = em.entry[f]]]),
       live |-> Reachable(code, em.exc, {em.entry[f] : f \in DOMAIN infos})]

(* A program made of modules.                                              *)
Linked(main, init, modules) ==
  [main |-> main, init |-> init,
   code  |-> Table([m \in DOMAIN modules |-> modules[m].code]),
   depth |-> Table([m \in DOMAIN modules |-> modules[m].depth]),
   owner |-> Table([m \in DOMAIN modules |-> modules[m].owner]),
   exc   |-> Table([m \in DOMAIN modules |-> modules[m].exc]),
   funcs |-> Table([m \in DOMAIN modules |-> modules[m].funcs]),
   live  |-> Table([m \in DOMAIN modules |-> modules[m].live])]

=============================================================================
