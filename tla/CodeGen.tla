------------------------------- MODULE CodeGen -------------------------------
(***************************************************************************)
(* Code generation for one module, as a state machine: the calls that the  *)
(* syntax tree makes (module Compiler) arrive one by one at the Emitter.   *)
(* What has to hold at the end is the contract of module Bytecode, from    *)
(* which everything proved about the executor follows.                     *)
(***************************************************************************)
EXTENDS ObjectFile

CONSTANT Sources   \* the sources: calls and infos, the function table

(***************************************************************************)
(* What the calls for TRY statements, TRY expressions and type tests are   *)
(* like (TryStatement::generate_code, TryExpression::generate_expr): a     *)
(* range begins, ends, and only then has handlers; and a range that begins *)
(* inside another one has had its handlers when the other one ends.        *)
(***************************************************************************)
Bracket(calls, b, e, t) ==
  /\ b < e /\ e < t
  /\ calls[b].call = "try" /\ calls[e].call = "end" /\ calls[t].call = "trap"
  /\ calls[b].lab = calls[t].lab /\ calls[e].lab = calls[t].lab

Places(calls, kind) == {p \in DOMAIN calls : calls[p].call = kind}

Bracketed(calls) ==
  LET brackets == {p \in Places(calls, "try") \X Places(calls, "end") \X Places(calls, "trap") :
                     Bracket(calls, p[1], p[2], p[3])}
  IN  /\ \A t \in Places(calls, "trap") : \E p \in brackets : p[3] = t
      /\ \A kind \in {"try", "end"} : \A i, j \in Places(calls, kind) :
           calls[i].lab = calls[j].lab => i = j
      /\ \A p, q \in brackets : p[1] < q[1] => p[2] < q[1] \/ q[3] < p[2]

IsSequence(s) == s \in Seq(Range(s))

ASSUME SourcesAreBracketed ==
  \A s \in Sources :
    /\ IsSequence(s.calls) /\ Bracketed(s.calls)
    /\ \A t \in Places(s.calls, "trap") : IsSequence(s.calls[t].excs)

VARIABLES
  source, \* the source being translated
  todo,   \* the calls still to be made
  em      \* the Emitter

vars == <<source, todo, em>>

Called(kind) == todo # <<>> /\ Head(todo).call = kind

Continue == todo' = Tail(todo) /\ UNCHANGED source

Init == source \in Sources /\ todo = source.calls /\ em = Start

Instruct == Called("emit") /\ em' = emit(em, Head(todo).i, <<>>) /\ Continue
Jump == Called("jump") /\ em' = emit_jump(em, Head(todo)) /\ Continue
Target == Called("target") /\ em' = jump_target(em, Head(todo).lab) /\ Continue
BeginFunction ==
  Called("function") /\ em' = begin_function(em, Head(todo).f, Head(todo).d) /\ Continue
BeginTry == Called("try") /\ em' = try_begin(em, Head(todo).lab) /\ Continue
EndTry == Called("end") /\ em' = try_end(em, Head(todo).lab) /\ Continue
Handler ==
  Called("trap") /\ em' = add_exceptions(em, Head(todo).lab, Head(todo).excs) /\ Continue

Done == todo = <<>> /\ UNCHANGED vars

Next ==
  \/ Instruct \/ Jump \/ Target \/ BeginFunction \/ BeginTry \/ EndTry \/ Handler \/ Done

Spec == Init /\ [][Next]_vars

-----------------------------------------------------------------------------
(* Properties.                                                             *)

Count == Len(em.code)

(* The records of the Emitter keep their types.                            *)
TypeOK ==
  /\ em.stack_depth \in Int
  /\ \A k \in 1..Count : em.depth[k] \in Int /\ em.owner[k] \in DOMAIN source.infos
  /\ DOMAIN em.target_depth \subseteq {c.lab : c \in {source.calls[i] : i \in
       {x \in DOMAIN source.calls : source.calls[x].call \in {"jump", "target"}}}}

(* emit_jump and jump_target never meet two depths for one label           *)
(* ("internal: stack depth mismatch"); and the finished module is one the  *)
(* executor can run: control arrives everywhere, by jumps, calls and       *)
(* exceptions, at the depth recorded for the place.                        *)
ContractKept ==
  /\ TypeOK /\ ~em.internal_error
  /\ todo = <<>> => WellFormed(Linked("main", <<>>, "main" :> Object(em, source.infos)))

(***************************************************************************)
(* Each of the four readers of instructions finds, at the address of an    *)
(* instruction, its opcode, its operands (those of a jump being the        *)
(* address of its target) and the next instruction behind it; JUMPTBL,     *)
(* which does not read its table but steps over six bytes for each entry,  *)
(* arrives at the entry; and both loaders read the tables that were        *)
(* written.  Exempt are two mistakes of cnex: it traces PUSHMFP as unknown *)
(* and takes the hash of an import from the wrong place.                   *)
(***************************************************************************)
ReadBack ==
  todo = <<>> =>
    LET code == Resolve(em).code
        at == Layout(code)
        o == ObjectRecord(em, source.infos)
        file == getBytes(o)
        Seen(table, j) ==
          Decode(table, o.code, at[j] + 1) =
            [op |-> code[j].op, operands |-> Values(code, at, j), next |-> at[j + 1] + 1]
        last == disassemble(o.code, Len(code))[Len(code)]
    IN  /\ \A j \in DOMAIN code :
             /\ Seen(exec_operands, j) /\ Seen(cnex_operands, j) /\ Seen(disassembler, j)
             /\ code[j].op # "PUSHMFP" => Seen(cnex_disassembly, j)
             /\ code[j].op = "JUMPTBL" =>
                  \A k \in 0..code[j].n : TableEntry(at[j + 1], k) = at[j + 1 + k]
        /\ last.next = Len(o.code) + 1
        /\ load(load_tables, file) = o
        /\ \A field \in DOMAIN o \ {"imports"} : load(cnex_tables, file)[field] = o[field]

(***************************************************************************)
(* raise_literal takes the first entry that covers the address, so of two  *)
(* ranges the inner one must come first; ranges that overlap are nested;   *)
(* and a handler is never inside the range it serves: what it raises goes  *)
(* to an enclosing TRY (EventuallyHalts of module Exec depends on it).     *)
(***************************************************************************)
InnermostFirst ==
  \A j, k \in 1..Len(em.exc) :
    LET inner == em.exc[j]
        outer == em.exc[k]
    IN  /\ inner.end <= inner.handler
        /\ j < k /\ inner.start < outer.end /\ outer.start < inner.end =>
             outer.start <= inner.start /\ inner.end <= outer.end

=============================================================================
