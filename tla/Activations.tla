----------------------------- MODULE Activations -----------------------------
(***************************************************************************)
(* The state every executor of the repository keeps while it runs a        *)
(* bytecode file - exec/cnex in C, exec/gonex in Go, exec/pynex in Python, *)
(* exec/jnex in Java and exec/csnex in C# - and the operations their       *)
(* handlers have in common.  Each of them is a separate reimplementation   *)
(* of exec.cpp; its handlers are the actions of a module of its own.       *)
(*                                                                         *)
(* As in Exec, the operand stack is its depth, and what depends on the     *)
(* data is nondeterministic.  One turn of an executor's loop is a handler  *)
(* (pc "fetch") and the test of the loop condition (pc "check").           *)
(***************************************************************************)
EXTENDS Bytecode, SequencesExt

CONSTANTS
  Programs,       \* the loaded programs that may be run
  RecursionLimit, \* param_recursion_limit
  StackCells,     \* the capacity of cnex's operand stack (300)
  JavaCalls       \* bound: the calls jnex's memory has room for

ASSUME ExecutorProgramsAssumption == \A p \in Programs : ProgramTypes(p)

ASSUME LimitsAssumption ==
  /\ RecursionLimit \in Nat
  /\ StackCells \in Nat
  /\ JavaCalls \in Nat

(* pynex starts the modules with the invoke that looks at the limit.       *)
ASSUME ModulesFitAssumption == \A p \in Programs : Len(p.init) < RecursionLimit

VARIABLES
  who,         \* the executor
  prog,        \* the program being run, all its modules
  module, ip,  \* the current module and the next instruction in it
  depth,       \* the number of cells on the operand stack
  callstack,   \* the (module, return address) pairs, oldest first
  frames,      \* the activation frames, oldest first
  ended,       \* "no", "uncaught" (an exception) or "crash" (see Die)
  pc           \* "fetch" or "check"

activation == <<module, ip, depth, callstack, frames>>

vars == <<who, prog, module, ip, depth, callstack, frames, ended, pc>>

Executors == {"cnex", "gonex", "pynex", "jnex", "csnex"}

Ins == prog.code[module][ip]

InCode == ip < EndOf(prog, module)

ToCheck == pc' = "check" /\ UNCHANGED <<who, prog>>

-----------------------------------------------------------------------------
(* The beginning of a handler: the instruction is of the family.           *)
Fetch(ops) == pc = "fetch" /\ ended = "no" /\ InCode /\ Ins.op \in ops

(* The loop condition has been found to hold.                              *)
Again == pc = "check" /\ pc' = "fetch" /\ UNCHANGED <<who, prog, activation, ended>>

(* An assertion, an exception of the host language that nothing catches,   *)
(* or an exit: the executor is gone, and the program with it.              *)
Die == ended' = "crash" /\ UNCHANGED activation /\ ToCheck

(* A handler that works on the operand stack and goes on at address a.     *)
GoTo(a) ==
  /\ ip' = a
  /\ depth' = depth - Consumed(Ins) + Produced(Ins)
  /\ UNCHANGED <<module, callstack, frames, ended>>
  /\ ToCheck

Straight == GoTo(ip + 1)

-----------------------------------------------------------------------------
(***************************************************************************)
(* An activation frame keeps the frames reached by following its outer     *)
(* link, nearest first, as in Exec.                                        *)
(***************************************************************************)
Frame(nest, outer, opstack_depth) ==
  [nest |-> nest, outer |-> outer, opstack_depth |-> opstack_depth]

Outer(nest) ==
  IF frames = <<>> THEN <<>>
  ELSE LET links == <<Len(frames)>> \o Last(frames).outer
           fits == {k \in DOMAIN links : frames[links[k]].nest < nest}
       IN  IF fits = {} THEN <<>> ELSE SubSeq(links, Min(fits), Len(links))

(* Every executor refuses a callee nested deeper than one level below the  *)
(* running function with an assertion.                                     *)
NestingOK(m, f) == frames # <<>> => prog.funcs[m][f].nest <= Last(frames).nest + 1

(* A new activation of function f of module m, the operand stack d deep.   *)
Activate(m, f, d) ==
  LET fn == prog.funcs[m][f]
  IN  /\ callstack' = Append(callstack, <<module, ip + 1>>)
      /\ frames' = Append(frames, Frame(fn.nest, Outer(fn.nest), d - fn.params))
      /\ module' = m
      /\ ip' = fn.entry
      /\ depth' = d
      /\ UNCHANGED ended

-----------------------------------------------------------------------------
(* The search for a handler: the entries of module m's exception table     *)
(* that cover address a and name exc or a prefix of its dotted name.       *)
Entries(m, a, exc) ==
  {j \in DOMAIN prog.exc[m] :
     InRange(prog.exc[m][j], a) /\ IsPrefix(prog.exc[m][j].exc, exc)}

(* Where activation k is: the running one at tip, a caller where it will   *)
(* resume.                                                                 *)
At(k, tip) == IF k = Len(callstack) THEN <<module, tip>> ELSE callstack[k + 1]

Catchers(tip, exc) ==
  {k \in 0..Len(callstack) : Entries(At(k, tip)[1], At(k, tip)[2], exc) # {}}

(* The table entry found: the first one that fits, in the youngest         *)
(* activation among ks that has one.                                       *)
Found(ks, tip, exc) ==
  LET at == At(Max(ks), tip)
  IN  prog.exc[at[1]][Min(Entries(at[1], at[2], exc))]

(* Control goes to the handler in activation k.                            *)
ToHandler(k, tip, e) ==
  /\ module' = At(k, tip)[1]
  /\ ip' = e.handler
  /\ callstack' = SubSeq(callstack, 1, k)
  /\ UNCHANGED ended

(* What is kept of the frames when the activations above k are left, and   *)
(* the depth of the operand stack with the cells above the TRY popped and  *)
(* the exception pushed.                                                   *)
Kept(k) == SubSeq(frames, 1, Len(frames) - (Len(callstack) - k))

Landing(k, e, d) ==
  LET base == IF Kept(k) = <<>> THEN 0 ELSE Last(Kept(k)).opstack_depth
  IN  (IF d > base + e.depth THEN base + e.depth ELSE d) + 1

Uncaught == ended' = "uncaught" /\ UNCHANGED activation

(* The handler of EXCEPT raises this, from its own address.                *)
Thrown == Ins.exc

-----------------------------------------------------------------------------
(***************************************************************************)
(* The start: the main module, then the imported ones in reverse order of  *)
(* initialization are invoked on top of each other.  (jnex has one module.) *)
(***************************************************************************)
Started == <<prog.main>> \o Reverse(prog.init)

Entry(m) == prog.funcs[m][1].entry

Runs(w, p) == w = "jnex" => DOMAIN p.code = {p.main}

Init ==
  /\ who \in Executors
  /\ prog \in Programs
  /\ Runs(who, prog)
  /\ module = Last(Started)
  /\ ip = Entry(module)
  /\ depth = 0
  /\ callstack = [k \in 1..Len(Started) |->
                    IF k = 1 THEN <<prog.main, EndOf(prog, prog.main)>>
                    ELSE <<Started[k - 1], Entry(Started[k - 1])>>]
  /\ frames = [k \in 1..Len(Started) |-> Frame(prog.funcs[Started[k]][1].nest, <<>>, 0)]
  /\ ended = "no"
  /\ pc = "fetch"

=============================================================================
