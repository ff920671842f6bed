------------------------------ MODULE Bytecode ------------------------------
(***************************************************************************)
(* The instruction set of the Neon virtual machine as the executor         *)
(* (exec.cpp) and the code generator (compiler.cpp) see it, the shape of a *)
(* loaded program, and what a program must satisfy for the executor to run *)
(* it safely.                                                              *)
(*                                                                         *)
(* Abstractions.  An instruction is one element of a sequence, addressed   *)
(* from 1, where the code uses byte offsets from 0.  Function 1 of a       *)
(* module is functions[0], its top-level code.  An exception name is the   *)
(* sequence of its dot-separated components.  The cells on the operand     *)
(* stack are abstracted to their number.                                   *)
(***************************************************************************)
EXTENDS Integers, Sequences

PANIC == <<"PANIC">>
Interrupted == <<"InterruptedException">>

(***************************************************************************)
(* An instruction.  n is its integer operand (a count, a jump target, the  *)
(* number of frames PUSHPOL follows); in and out are the cells a call      *)
(* takes and leaves, mod and fn the function it names; exc the exceptions  *)
(* it may raise by itself; impl the methods CALLV may dispatch to.         *)
(***************************************************************************)
Instr(op) ==
  [op |-> op, n |-> 0, in |-> 0, out |-> 0, mod |-> "", fn |-> 0,
   exc |-> {}, impl |-> {}]

InstrN(op, n) == [Instr(op) EXCEPT !.n = n]

-----------------------------------------------------------------------------
(* The opcode families of exec.cpp: same operand-stack effect, same way of *)
(* raising.                                                                *)

PushOps ==
  {"PUSHB", "PUSHN", "PUSHS", "PUSHY", "PUSHPG", "PUSHPPG", "PUSHPMG",
   "PUSHPL", "PUSHPOL", "PUSHI", "PUSHNIL", "PUSHPEG", "PUSHFP", "PUSHCI",
   "PUSHMFP", "ALLOC"}
LoadOps  == {"LOADB", "LOADN", "LOADS", "LOADY", "LOADA", "LOADD", "LOADP", "LOADJ"}
StoreOps == {"STOREB", "STOREN", "STORES", "STOREY", "STOREA", "STORED", "STOREP", "STOREJ"}
ArithOps == {"ADDN", "SUBN", "MULN", "DIVN", "MODN", "EXPN"}
CompareOps ==
  {"EQB", "NEB", "EQN", "NEN", "LTN", "GTN", "LEN", "GEN",
   "EQS", "NES", "LTS", "GTS", "LES", "GES",
   "EQY", "NEY", "LTY", "GTY", "LEY", "GEY",
   "EQA", "NEA", "EQD", "NED", "EQP", "NEP", "ANDB", "ORB"}
IndexRefOps   == {"INDEXAR", "INDEXAW", "INDEXDR"}
IndexValueOps == {"INDEXAV", "INDEXAN", "INDEXDV"}
InOps     == {"INA", "IND"}
BranchOps == {"JUMP", "JF", "JT"}
CallOps   == {"CALLF", "CALLMF", "CALLI", "CALLV"}

StackOps == {"DUP", "DUPX1", "DROP", "SWAP", "DROPN", "CONSA", "CONSD"}

Opcodes ==
  PushOps \cup LoadOps \cup StoreOps \cup ArithOps \cup CompareOps
    \cup IndexRefOps \cup IndexValueOps \cup InOps \cup BranchOps
    \cup CallOps \cup StackOps
    \cup {"NEGN", "NOTB", "INDEXDW", "CALLP", "CALLX", "JUMPTBL", "EXCEPT", "RET"}

(* Control does not continue at the next instruction.                      *)
NoFallThrough == {"JUMP", "RET", "EXCEPT"}

-----------------------------------------------------------------------------
(***************************************************************************)
(* What the handlers of exec.cpp take from and leave on the operand stack. *)
(* For a call, Produced is what the callee has left once it has returned.  *)
(***************************************************************************)
Consumed(i) ==
  CASE i.op \in PushOps \cup {"JUMP", "RET"} -> 0
    [] i.op \in LoadOps \cup {"NEGN", "NOTB", "DUP", "DROP", "JF", "JT",
                              "JUMPTBL", "EXCEPT", "CALLX"} -> 1
    [] i.op \in StoreOps \cup ArithOps \cup CompareOps \cup IndexRefOps
                 \cup IndexValueOps \cup InOps
                 \cup {"INDEXDW", "DUPX1", "SWAP"} -> 2
    [] i.op \in {"CALLP", "CALLF", "CALLMF"} -> i.in
    [] i.op \in {"CALLI", "CALLV"} -> i.in + 1
    [] i.op = "CONSA" -> i.n
    [] i.op = "CONSD" -> 2 * i.n
    [] i.op = "DROPN" -> i.n + 1
    [] OTHER -> 0

Produced(i) ==
  CASE i.op \in PushOps \cup LoadOps \cup ArithOps \cup CompareOps
                 \cup IndexRefOps \cup IndexValueOps \cup InOps
                 \cup {"INDEXDW", "NEGN", "NOTB", "CONSA", "CONSD"} -> 1
    [] i.op \in {"DUP", "SWAP"} -> 2
    [] i.op = "DUPX1" -> 3
    [] i.op \in {"CALLP", "CALLF", "CALLMF", "CALLI", "CALLV"} -> i.out
    [] i.op = "CALLX" -> i.n + 1
    [] i.op = "DROPN" -> i.n
    [] OTHER -> 0

(***************************************************************************)
(* How the code generator tracks the same effect: the table of             *)
(* Emitter::emit, ...                                                      *)
(***************************************************************************)
EmitTable(op) ==
  CASE op \in PushOps \cup {"DUP", "DUPX1"} -> 1
    [] op \in StoreOps -> -2
    [] op \in ArithOps \cup CompareOps \cup IndexRefOps \cup IndexValueOps
               \cup InOps \cup {"INDEXDW", "JF", "JT", "DROP", "JUMPTBL", "DROPN"} -> -1
    [] OTHER -> 0

(* ... the operand-dependent part of emit(Opcode, uint32_t), ...           *)
EmitOperand(i) ==
  CASE i.op = "CONSA" -> -(i.n - 1)
    [] i.op = "CONSD" -> -(2 * i.n - 1)
    [] OTHER -> 0

(* ... and the adjust_stack_depth that follows a call (get_stack_delta).   *)
StackDelta(i) ==
  CASE i.op \in {"CALLP", "CALLF", "CALLMF"} -> i.out - i.in
    [] i.op = "CALLI" -> i.out - i.in - 1
    [] i.op = "CALLV" -> (i.out - i.in) - 1
    [] i.op = "CALLX" -> i.n
    [] OTHER -> 0

EmitDelta(i) == EmitTable(i.op) + EmitOperand(i) + StackDelta(i)

-----------------------------------------------------------------------------
(***************************************************************************)
(* The exceptions an instruction raises by itself, each with the offset of *)
(* the address raise_literal searches from (0: the instruction, 1: the one *)
(* after it) and the number of cells gone from the stack by then.          *)
(*  - arithmetic raises after its result is pushed, from its own address;  *)
(*  - indexing raises with ip already advanced, a reference index with     *)
(*    both operands popped, a value index with the index popped;           *)
(*  - a predefined function raises from the address of CALLP, with its     *)
(*    arguments dropped by the thunk, or with its results already pushed   *)
(*    when the number library flagged an error;                            *)
(*  - an extension function raises after CALLX, its argument list popped;  *)
(*  - a call over the recursion limit raises before it pops anything, an   *)
(*    invalid function pointer once the pointer is popped.                 *)
(***************************************************************************)
Throw(exc, off, gone) == [exc |-> exc, off |-> off, gone |-> gone]

Throws(i) ==
  CASE i.op = "NEGN"              -> {Throw(PANIC, 0, 0)}
    [] i.op \in ArithOps          -> {Throw(PANIC, 0, 1)}
    [] i.op \in IndexRefOps       -> {Throw(PANIC, 1, 2)}
    [] i.op \in IndexValueOps     -> {Throw(PANIC, 1, 1)}
    [] i.op = "CALLP"             -> {Throw(x, 0, i.in) : x \in i.exc}
                                       \cup {Throw(x, 0, i.in - i.out) : x \in i.exc \cap {PANIC}}
    [] i.op = "CALLX"             -> {Throw(x, 1, 1) : x \in i.exc}
    [] i.op = "EXCEPT"            -> {Throw(x, 0, 1) : x \in i.exc}
    [] i.op = "CALLI"             -> {Throw(PANIC, 1, 0), Throw(PANIC, 1, 1)}
    [] i.op \in CallOps           -> {Throw(PANIC, 1, 0)}
    [] OTHER                      -> {}

(* The addresses after these are searched too: they are return addresses,  *)
(* or their handlers raise with ip advanced.                               *)
RaisesAfter(i) == i.op \in CallOps \cup IndexRefOps \cup IndexValueOps \cup {"CALLX"}

-----------------------------------------------------------------------------
(***************************************************************************)
(* A loaded program: main is its main module, init the imported modules in *)
(* initialization order.  For each module m, code[m] is its instructions,  *)
(* funcs[m] its function table, exc[m] its exception table, and what only  *)
(* the compiler knows: depth[m], the operand depth Emitter::emit records   *)
(* in the debug information for each instruction (negative: unreachable),  *)
(* owner[m], the function an instruction belongs to, and live[m], the      *)
(* instructions control can reach.  A function has the fields of           *)
(* FunctionInfo, the cells it leaves (results), and its lexically          *)
(* enclosing functions, innermost first (chain).                           *)
(***************************************************************************)
EndOf(p, m) == Len(p.code[m]) + 1

InRange(e, a) == e.start <= a /\ a < e.end

(* The instructions that can be reached, at a depth the compiler recorded. *)
Live(p, m) == {i \in DOMAIN p.code[m] : i \in p.live[m] /\ p.depth[m][i] >= 0}

(* Control stays in the function and arrives at the recorded depth.        *)
FlowsTo(p, m, i, j, d) ==
  /\ j \in Live(p, m)
  /\ p.owner[m][j] = p.owner[m][i]
  /\ p.depth[m][j] = d

(* The functions a call instruction of module m may enter.                 *)
Callees(p, m, i) ==
  CASE i.op = "CALLF"  -> {<<m, i.fn>>}
    [] i.op = "CALLMF" -> {<<i.mod, i.fn>>}
    [] i.op \in {"CALLI", "CALLV"} -> i.impl
    [] OTHER -> {}

(***************************************************************************)
(* The contract between compiler and executor, one conjunct per kind of    *)
(* instruction, at address i of module m.                                  *)
(***************************************************************************)
InstrOK(p, m, i) ==
  LET ins == p.code[m][i]
      left == p.depth[m][i] - Consumed(ins)
      after == left + Produced(ins)
  IN  /\ left >= 0
      /\ ins.op \notin NoFallThrough => FlowsTo(p, m, i, i + 1, after)
      /\ ins.op \in BranchOps => FlowsTo(p, m, i, ins.n, after)
      /\ ins.op = "JUMPTBL" => \A k \in 0..ins.n : FlowsTo(p, m, i, i + 1 + k, after)
      /\ ins.op = "RET" => p.depth[m][i] = p.funcs[m][p.owner[m][i]].results
      /\ \A g \in Callees(p, m, ins) :
           /\ g[1] \in DOMAIN p.code
           /\ g[2] \in DOMAIN p.funcs[g[1]]
           /\ p.funcs[g[1]][g[2]].params = ins.in
           /\ p.funcs[g[1]][g[2]].results = ins.out

(***************************************************************************)
(* An exception range that covers i, or the address after i when that is   *)
(* searched, starts at a depth that is still on the stack when i raises;   *)
(* its handler is in the same function and expects one more cell.          *)
(***************************************************************************)
CoverOK(p, m, i, e) ==
  InRange(e, i) \/ (RaisesAfter(p.code[m][i]) /\ InRange(e, i + 1)) =>
    /\ 0 <= e.depth
    /\ e.depth <= p.depth[m][i] - Consumed(p.code[m][i])
    /\ FlowsTo(p, m, i, e.handler, e.depth + 1)

(* x MOD 0 is raised twice; the second time it must find the same handler. *)
ModuloOK(p, m, i) ==
  p.code[m][i].op = "MODN" =>
    \E j \in DOMAIN p.exc[m] : InRange(p.exc[m][j], i) /\ p.exc[m][j].exc = PANIC

(* A function starts with its parameters on the stack.                     *)
FunctionOK(p, m, f) ==
  LET fn == p.funcs[m][f]
  IN  /\ fn.entry \in Live(p, m)
      /\ p.owner[m][fn.entry] = f
      /\ p.depth[m][fn.entry] = fn.params

BodyOK(p, m) ==
  /\ 1 \in DOMAIN p.funcs[m]
  /\ p.funcs[m][1].nest = 0
  /\ p.funcs[m][1].params = 0
  /\ p.funcs[m][1].results = 0

WellFormed(p) ==
  \A m \in DOMAIN p.code :
    /\ BodyOK(p, m)
    /\ \A f \in DOMAIN p.funcs[m] : FunctionOK(p, m, f)
    /\ \A j \in DOMAIN p.exc[m] : p.exc[m][j].end <= EndOf(p, m)
    /\ \A i \in Live(p, m) :
         /\ InstrOK(p, m, i)
         /\ \A j \in DOMAIN p.exc[m] : CoverOK(p, m, i, p.exc[m][j])
         /\ ModuloOK(p, m, i)

-----------------------------------------------------------------------------
(***************************************************************************)
(* What the scopes of the language give beyond that: a nested function is  *)
(* only called where its name is visible, from a function at most one      *)
(* level further out that is nested in all the functions around it.        *)
(* Around(p, m, f)[k] is f or the (k-1)th function that encloses it.       *)
(***************************************************************************)
Around(p, m, f) == [k \in 1..p.funcs[m][f].nest |->
                      IF k = 1 THEN f ELSE p.funcs[m][f].chain[k - 1]]

(* The functions around a function are nested one level less each.         *)
ChainOK(p, m, f) ==
  \A k \in 1..(p.funcs[m][f].nest - 1) :
    LET g == p.funcs[m][f].chain[k]
    IN  /\ k \in DOMAIN p.funcs[m][f].chain
        /\ g \in DOMAIN p.funcs[m]
        /\ p.funcs[m][g].nest = p.funcs[m][f].nest - k

(* Function f of module m may call g.                                      *)
InScope(p, m, f, g) ==
  LET fn == p.funcs[g[1]][g[2]]
      out == p.funcs[m][f].nest - fn.nest + 1
  IN  fn.nest > 1 =>
        /\ g[1] = m
        /\ out >= 0
        /\ \A k \in 1..(fn.nest - 1) : fn.chain[k] = Around(p, m, f)[out + k]

LexicallyScoped(p) ==
  \A m \in DOMAIN p.code :
    /\ \A f \in DOMAIN p.funcs[m] : ChainOK(p, m, f)
    /\ \A i \in Live(p, m) : \A g \in Callees(p, m, p.code[m][i]) :
         InScope(p, m, p.owner[m][i], g)

(***************************************************************************)
(* Where the search of raise_literal looks, behind a call or at the start  *)
(* of a module that imports others, no exception range begins or ends.     *)
(***************************************************************************)
Together(e, a) == InRange(e, a) = InRange(e, a - 1)

RangesEnclose(p) ==
  \A m \in DOMAIN p.code : \A j \in DOMAIN p.exc[m] :
    /\ \A i \in Live(p, m) : RaisesAfter(p.code[m][i]) => Together(p.exc[m][j], i + 1)
    /\ p.init # <<>> => Together(p.exc[m][j], p.funcs[m][1].entry)
    /\ Together(p.exc[m][j], EndOf(p, m))

-----------------------------------------------------------------------------
(* The types of the parts of a program.                                    *)
Exception == Seq(STRING)

Instruction ==
  [op: Opcodes, n: Nat, in: Nat, out: Nat, mod: STRING, fn: Nat,
   exc: SUBSET Exception, impl: SUBSET (STRING \X Nat)]

FunctionInfo == [nest: Nat, params: Nat, results: Nat, entry: Nat, chain: Seq(Nat)]

ExceptionInfo == [start: Nat, end: Nat, exc: Exception, handler: Nat, depth: Int]

Addresses(p) == (DOMAIN p.code) \X Nat

ProgramTypes(p) ==
  /\ p.main \in DOMAIN p.code
  /\ p.init \in Seq(DOMAIN p.code)
  /\ \A m \in DOMAIN p.code :
       /\ p.code[m] \in Seq(Instruction)
       /\ p.funcs[m] \in Seq(FunctionInfo)
       /\ p.exc[m] \in Seq(ExceptionInfo)
       /\ p.depth[m] \in Seq(Int) /\ Len(p.depth[m]) = Len(p.code[m])
       /\ p.owner[m] \in Seq(DOMAIN p.funcs[m]) /\ Len(p.owner[m]) = Len(p.code[m])

=============================================================================
