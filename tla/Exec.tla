-------------------------------- MODULE Exec --------------------------------
(***************************************************************************)
(* The control core of the executor (exec.cpp): the instruction loop, the  *)
(* call stack and the activation frames, exceptions, the recursion limit   *)
(* and asynchronous interrupts.  Every instruction handler is an action    *)
(* (handlers with the same effect on control share one).  The operand      *)
(* stack is its depth; data-dependent outcomes (a branch, an index out of  *)
(* range, the function a pointer names) are nondeterministic.              *)
(*                                                                         *)
(* One iteration of exec_loop is two or three steps: the handler of the    *)
(* instruction (pc "fetch"), the second exception MODN may raise (pc       *)
(* "again"), and the test of the interrupted flag (pc "check"), so that    *)
(* the thread that calls interrupt() may run between them.                 *)
(***************************************************************************)
EXTENDS Bytecode, SequencesExt

CONSTANTS
  Programs,       \* the loaded programs that may be run
  RecursionLimit, \* param_recursion_limit
  MaxInterrupts   \* bound: how often interrupt() is called

ASSUME ProgramsAssumption == \A p \in Programs : ProgramTypes(p)

ASSUME RecursionLimitAssumption == RecursionLimit \in Nat

ASSUME MaxInterruptsAssumption == MaxInterrupts \in Nat

VARIABLES
  prog,        \* the program being run, all its modules
  module, ip,  \* the current module and the next instruction in it
  depth,       \* the number of cells on the operand stack
  callstack,   \* the (module, return address) pairs
  frames,      \* the activation frames, oldest first
  exit_code,   \* set by an unhandled exception
  interrupted, \* the flag interrupt() sets
  interrupts,  \* how often interrupt() has been called
  pc,          \* where exec_loop is: "fetch", "again" or "check"
  start_ip     \* the address MODN raises from again

vars == <<prog, module, ip, depth, callstack, frames, exit_code, interrupted,
          interrupts, pc, start_ip>>

(* What a handler leaves to the rest of the loop.                          *)
loopVars == <<prog, interrupted, interrupts>>

Code(m) == prog.code[m]

Ins == Code(module)[ip]

(* The condition of exec_loop.                                             *)
Running == callstack # <<>> /\ ip < EndOf(prog, module) /\ exit_code = 0

-----------------------------------------------------------------------------
(***************************************************************************)
(* invoke: a new activation.  A frame keeps its static chain as the        *)
(* sequence of the frames reached by following outer, nearest first: the   *)
(* walk `while (nest <= outer->nesting_depth) outer = outer->outer` drops  *)
(* the frames of that sequence that are nested as deep as the callee.      *)
(***************************************************************************)
FrameType == [nest: Nat, outer: Seq(Nat), opstack_depth: Int]

Frame(nest, outer, opstack_depth) ==
  [nest |-> nest, outer |-> outer, opstack_depth |-> opstack_depth]

(* Mutant: the walk stops one frame early.                                 *)
StaticOuter_early(nest) ==
  IF frames = <<>> THEN <<>>
  ELSE LET chain == <<Len(frames)>> \o Last(frames).outer
           fits == {k \in DOMAIN chain : frames[chain[k]].nest <= nest}
       IN  IF fits = {} THEN <<>> ELSE SubSeq(chain, Min(fits), Len(chain))

StaticOuter(nest) ==
  IF frames = <<>> THEN <<>>
  ELSE LET chain == <<Len(frames)>> \o Last(frames).outer
           fits == {k \in DOMAIN chain : frames[chain[k]].nest < nest}
       IN  IF fits = {} THEN <<>> ELSE SubSeq(chain, Min(fits), Len(chain))

invoke(m, f, d) ==
  LET fn == prog.funcs[m][f]
  IN  /\ callstack' = Append(callstack, <<module, ip + 1>>)
      /\ frames' = Append(frames, Frame(fn.nest, StaticOuter(fn.nest), d - fn.params))
      /\ module' = m
      /\ ip' = fn.entry
      /\ depth' = d
      /\ UNCHANGED exit_code

-----------------------------------------------------------------------------
(***************************************************************************)
(* raise_literal: the handler is searched from the top activation, at      *)
(* address tip, then at the return addresses on the call stack; in each    *)
(* the first entry of the module's exception table that covers the address *)
(* and names the exception or a prefix of its dotted name.                 *)
(***************************************************************************)
Matches(exc, handler) == IsPrefix(handler, exc)

Entries(m, a, exc) ==
  {j \in DOMAIN prog.exc[m] : InRange(prog.exc[m][j], a) /\ Matches(exc, prog.exc[m][j].exc)}

(* Where activation k is: the top one at tip, a caller where it resumes.   *)
At(k, tip) == IF k = Len(callstack) THEN <<module, tip>> ELSE callstack[k + 1]

(* Mutant: the search starts at the caller.                                *)
Catchers_callers(tip, exc) ==
  {k \in 0..(Len(callstack) - 1) : Entries(At(k, tip)[1], At(k, tip)[2], exc) # {}}

Catchers(tip, exc) ==
  {k \in 0..Len(callstack) : Entries(At(k, tip)[1], At(k, tip)[2], exc) # {}}

(* Mutants: the frames stay, or the oldest ones are dropped.               *)
PopFrames_none(gone) == frames
PopFrames_oldest(gone) == SubSeq(frames, 1 + gone, Len(frames))

PopFrames(gone) == SubSeq(frames, 1, Len(frames) - gone)

(* Mutant: the cells above the TRY stay.                                   *)
Truncate_never(d, to) == d

Truncate(d, to) == IF d > to THEN to ELSE d

(* Mutant: the block is tried again.                                       *)
Caught_retry(k, at, j, d) ==
  LET e == prog.exc[at[1]][j]
      kept == PopFrames(Len(callstack) - k)
  IN  /\ module' = at[1]
      /\ ip' = e.start
      /\ frames' = kept
      /\ callstack' = SubSeq(callstack, 1, k)
      /\ depth' = Truncate(d, Last(kept).opstack_depth + e.depth)
      /\ UNCHANGED exit_code

(* d is the depth of the operand stack when the search starts.             *)
Caught(k, at, j, d) ==
  LET e == prog.exc[at[1]][j]
      kept == PopFrames(Len(callstack) - k)
      base == IF kept = <<>> THEN 0 ELSE Last(kept).opstack_depth
  IN  /\ module' = at[1]
      /\ ip' = e.handler
      /\ frames' = kept
      /\ callstack' = SubSeq(callstack, 1, k)
      /\ depth' = Truncate(d, base + e.depth) + 1
      /\ UNCHANGED exit_code

(* The trace of an unhandled exception pops the call stack, until it comes *)
(* to an address that is not in its module: normally main's return address. *)
Unhandled(tip, d) ==
  LET past == {k \in 0..Len(callstack) : At(k, tip)[2] >= EndOf(prog, At(k, tip)[1])}
      k == Max(past \cup {0})
  IN  /\ module' = At(k, tip)[1]
      /\ ip' = At(k, tip)[2]
      /\ callstack' = SubSeq(callstack, 1, k)
      /\ frames' = SubSeq(frames, 1, Len(frames) - Len(callstack))
      /\ depth' = d
      /\ exit_code' = 1

raise_literal(tip, exc, d) ==
  LET sp == Catchers(tip, exc)
  IN  IF sp = {} THEN Unhandled(tip, d)
      ELSE LET k == Max(sp)
               at == At(k, tip)
           IN  Caught(k, at, Min(Entries(at[1], at[2], exc)), d)

-----------------------------------------------------------------------------
(* The beginning of every handler: fetch an instruction of the family.     *)
Fetch(ops) == pc = "fetch" /\ Running /\ Ins.op \in ops

ToCheck == pc' = "check" /\ UNCHANGED <<start_ip, loopVars>>

(* A handler that only works on the operand stack.                         *)
Straight ==
  /\ ip' = ip + 1
  /\ depth' = depth - Consumed(Ins) + Produced(Ins)
  /\ UNCHANGED <<module, callstack, frames, exit_code>>
  /\ ToCheck

Raise(throws) ==
  /\ \E t \in throws : raise_literal(ip + t.off, t.exc, depth - t.gone)
  /\ ToCheck

exec_PUSH == Fetch(PushOps) /\ Straight
exec_LOAD == Fetch(LoadOps) /\ Straight
exec_STORE == Fetch(StoreOps) /\ Straight
exec_ARITH == Fetch(ArithOps \cup {"NEGN"}) /\ (Straight \/ Raise(Throws(Ins)))
exec_COMPARE == Fetch(CompareOps \cup {"NOTB"}) /\ Straight
exec_INDEX == Fetch(IndexRefOps \cup IndexValueOps) /\ (Straight \/ Raise(Throws(Ins)))
exec_INDEXDW == Fetch({"INDEXDW"}) /\ Straight
exec_IN == Fetch(InOps) /\ Straight
exec_STACK == Fetch(StackOps) /\ Straight
exec_CALLP == Fetch({"CALLP"}) /\ (Straight \/ Raise(Throws(Ins)))
exec_CALLX == Fetch({"CALLX"}) /\ (Straight \/ Raise(Throws(Ins)))
exec_EXCEPT == Fetch({"EXCEPT"}) /\ Raise(Throws(Ins))

(***************************************************************************)
(* x MOD 0 with x negative sets both the zero-divide and the invalid flag  *)
(* of the number library (number_modulo), and check_and_raise raises once  *)
(* for each: here the first, in RaiseAgain the second, whose search starts *)
(* at the address of MODN in whatever module the first one has left.       *)
(***************************************************************************)
exec_MODN_forgets ==      \* Mutant: start_ip is not set.
  /\ Fetch({"MODN"})
  /\ raise_literal(ip, PANIC, depth - 1)
  /\ pc' = "again"
  /\ UNCHANGED <<start_ip, loopVars>>

exec_MODN ==
  /\ Fetch({"MODN"})
  /\ raise_literal(ip, PANIC, depth - 1)
  /\ start_ip' = ip
  /\ pc' = "again"
  /\ UNCHANGED loopVars

RaiseAgain ==
  /\ pc = "again"
  /\ raise_literal(start_ip, PANIC, depth)
  /\ ToCheck

-----------------------------------------------------------------------------
(* Branches.                                                               *)
Branch(target) ==
  /\ ip' = target
  /\ depth' = depth - Consumed(Ins)
  /\ UNCHANGED <<module, callstack, frames, exit_code>>
  /\ ToCheck

exec_JUMP == Fetch({"JUMP"}) /\ Branch(Ins.n)
exec_JF == Fetch({"JF", "JT"}) /\ (Branch(Ins.n) \/ Branch(ip + 1))

(* Six bytes, one JUMP, for each value in 0..n-1; everything else, a       *)
(* negative or fractional number included, goes to the JUMP after those.   *)
exec_JUMPTBL == Fetch({"JUMPTBL"}) /\ \E i \in 0..Ins.n : Branch(ip + 1 + i)

-----------------------------------------------------------------------------
(* Calls.  A call at the recursion limit raises with ip advanced.          *)
AtLimit == Len(callstack) >= RecursionLimit

StackOverflow == AtLimit /\ raise_literal(ip + 1, PANIC, depth)

exec_CALLF ==
  /\ Fetch({"CALLF"})
  /\ StackOverflow \/ (~AtLimit /\ invoke(module, Ins.fn, depth))
  /\ ToCheck

exec_CALLMF ==
  /\ Fetch({"CALLMF"})
  /\ StackOverflow \/ (~AtLimit /\ invoke(Ins.mod, Ins.fn, depth))
  /\ ToCheck

(* Mutant: the pointer is called, but not popped.                          *)
exec_CALLI_keeps ==
  /\ Fetch({"CALLI"})
  /\ \/ StackOverflow
     \/ ~AtLimit /\ raise_literal(ip + 1, PANIC, depth - 1)
     \/ ~AtLimit /\ \E g \in Ins.impl : invoke(g[1], g[2], depth)
  /\ ToCheck

(* The pointer is popped, then found to be unset or called.                *)
exec_CALLI ==
  /\ Fetch({"CALLI"})
  /\ \/ StackOverflow
     \/ ~AtLimit /\ raise_literal(ip + 1, PANIC, depth - 1)
     \/ ~AtLimit /\ \E g \in Ins.impl : invoke(g[1], g[2], depth - 1)
  /\ ToCheck

exec_CALLV ==
  /\ Fetch({"CALLV"})
  /\ StackOverflow \/ (~AtLimit /\ \E g \in Ins.impl : invoke(g[1], g[2], depth - 1))
  /\ ToCheck

(* Mutant: the return address is taken for a displacement.                 *)
Resume_relative(l) == module' = l[1] /\ ip' = l[2] - ip

Resume(l) == module' = l[1] /\ ip' = l[2]

exec_RET ==
  /\ Fetch({"RET"})
  /\ frames' = Front(frames)
  /\ Resume(Last(callstack))
  /\ callstack' = Front(callstack)
  /\ UNCHANGED <<depth, exit_code>>
  /\ ToCheck

-----------------------------------------------------------------------------
(* The end of an iteration: a pending interrupt is raised at the next      *)
(* instruction.                                                            *)
CheckInterrupted_in_calls ==    \* Mutant: the flag is only looked at in functions.
  /\ pc = "check"
  /\ pc' = "fetch"
  /\ IF interrupted /\ Len(callstack) > 1
     THEN interrupted' = FALSE /\ raise_literal(ip, Interrupted, depth)
     ELSE UNCHANGED <<module, ip, depth, callstack, frames, exit_code, interrupted>>
  /\ UNCHANGED <<prog, interrupts, start_ip>>

CheckInterrupted ==
  /\ pc = "check"
  /\ pc' = "fetch"
  /\ IF interrupted
     THEN interrupted' = FALSE /\ raise_literal(ip, Interrupted, depth)
     ELSE UNCHANGED <<module, ip, depth, callstack, frames, exit_code, interrupted>>
  /\ UNCHANGED <<prog, interrupts, start_ip>>

(* Called from a signal handler or another thread.                         *)
interrupt ==
  /\ interrupts < MaxInterrupts
  /\ interrupts' = interrupts + 1
  /\ interrupted' = TRUE
  /\ UNCHANGED <<prog, module, ip, depth, callstack, frames, exit_code, pc, start_ip>>

(* exec_loop returns; nothing but a late interrupt happens any more.       *)
Halted == pc = "fetch" /\ ~Running

Terminated == Halted /\ UNCHANGED vars

-----------------------------------------------------------------------------
(***************************************************************************)
(* exec(): the main module, then the imported ones in reverse order of     *)
(* initialization are invoked on top of each other, so that each returns   *)
(* to the entry of the next.                                               *)
(***************************************************************************)
Entry(m) == prog.funcs[m][1].entry

Started == <<prog.main>> \o Reverse(prog.init)

Init ==
  /\ prog \in Programs
  /\ module = Last(Started)
  /\ ip = Entry(module)
  /\ depth = 0
  /\ callstack = [k \in 1..Len(Started) |->
                    IF k = 1 THEN <<prog.main, EndOf(prog, prog.main)>>
                    ELSE <<Started[k - 1], Entry(Started[k - 1])>>]
  /\ frames = [k \in 1..Len(Started) |-> Frame(prog.funcs[Started[k]][1].nest, <<>>, 0)]
  /\ exit_code = 0
  /\ interrupted = FALSE
  /\ interrupts = 0
  /\ pc = "fetch"
  /\ start_ip = 0

Step ==
  \/ exec_PUSH \/ exec_LOAD \/ exec_STORE \/ exec_ARITH \/ exec_COMPARE
  \/ exec_INDEX \/ exec_INDEXDW \/ exec_IN \/ exec_STACK
  \/ exec_CALLP \/ exec_CALLX \/ exec_EXCEPT \/ exec_MODN \/ RaiseAgain
  \/ exec_JUMP \/ exec_JF \/ exec_JUMPTBL
  \/ exec_CALLF \/ exec_CALLMF \/ exec_CALLI \/ exec_CALLV \/ exec_RET
  \/ CheckInterrupted

Next == Step \/ interrupt \/ Terminated

(* The executor's thread keeps running; nobody has to interrupt it.        *)
Spec == Init /\ [][Next]_vars /\ WF_vars(Step)

-----------------------------------------------------------------------------
(* Properties.                                                             *)

(* Where activation k is, and the function that is there.                  *)
Location(k) == At(k, ip)
FunctionAt(k) == prog.owner[Location(k)[1]][Location(k)[2]]

TypeOK ==
  /\ prog \in Programs
  /\ module \in DOMAIN prog.code
  /\ ip \in Nat
  /\ depth \in Int
  /\ callstack \in Seq(Addresses(prog))
  /\ frames \in Seq(FrameType)
  /\ exit_code \in {0, 1}
  /\ interrupted \in BOOLEAN
  /\ interrupts \in 0..MaxInterrupts
  /\ pc \in {"fetch", "again", "check"}
  /\ start_ip \in Nat

(***************************************************************************)
(* The assertion of exec_loop's trace mode ("stack depth mismatch"): before *)
(* every instruction, however control got there, the operand stack is as   *)
(* deep as the compiler recorded, counted from the base of the activation. *)
(***************************************************************************)
DepthAgrees ==
  pc = "fetch" /\ Running =>
    depth = Last(frames).opstack_depth + prog.depth[module][ip]

(***************************************************************************)
(* callstack and frames, which invoke, RET and raise_literal push and pop  *)
(* separately, stay in step: one frame per return address, made for the    *)
(* function that is running or suspended there.                            *)
(***************************************************************************)
FramesMirrorCalls ==
  /\ exit_code = 0 => Len(frames) = Len(callstack)
  /\ pc = "fetch" /\ Running => \A k \in DOMAIN frames :
       frames[k].nest = prog.funcs[Location(k)[1]][FunctionAt(k)].nest

(***************************************************************************)
(* The frames PUSHPOL reaches by following outer are activations of the    *)
(* lexically enclosing functions, one level at a time.  (At level 0 there  *)
(* are only globals, which are not reached this way.)                      *)
(***************************************************************************)
StaticLinkIsLexical ==
  pc = "fetch" /\ Running => \A k \in DOMAIN frames :
    LET f == prog.funcs[Location(k)[1]][FunctionAt(k)]
    IN  \A j \in 1..(f.nest - 1) :
          /\ j \in DOMAIN frames[k].outer
          /\ frames[k].outer[j] < k
          /\ Location(frames[k].outer[j])[1] = Location(k)[1]
          /\ FunctionAt(frames[k].outer[j]) = f.chain[j]

(***************************************************************************)
(* What a TRY promises (statements.adoc): an exception that happens within *)
(* the block is checked against its TRAP clauses.  Reference: activation k *)
(* is within the block if the instruction it is executing is, for a caller *)
(* the call itself; an activation that has not started is in no block.     *)
(***************************************************************************)
Executing(k) ==
  IF k = Len(callstack) THEN <<module, ip>>
  ELSE <<callstack[k + 1][1], callstack[k + 1][2] - 1>>

Enclosing(exc) ==
  {k \in 0..Len(callstack) : Entries(Executing(k)[1], Executing(k)[2], exc) # {}}

SameHandler(tip, exc) ==
  LET found == Catchers(tip, exc)
      meant == Enclosing(exc)
  IN  /\ (found = {}) = (meant = {})
      /\ found # {} =>
           LET f == At(Max(found), tip)
               x == Executing(Max(meant))
           IN  /\ Max(found) = Max(meant)
               /\ Min(Entries(f[1], f[2], exc)) = Min(Entries(x[1], x[2], exc))

HandlerIsEnclosing ==
  pc = "fetch" /\ Running =>
    \A t \in Throws(Ins) : SameHandler(ip + t.off, t.exc)

(* The second exception MODN raises is handled where the first one was.    *)
SecondRaiseStays ==
  pc = "again" /\ exit_code = 0 =>
    LET found == Catchers(start_ip, PANIC)
    IN  /\ found # {}
        /\ Max(found) = Len(callstack)
        /\ prog.exc[module][Min(Entries(module, start_ip, PANIC))].handler = ip

(***************************************************************************)
(* Recursion stops at the limit ("Stack depth exceeds recursion limit"),   *)
(* except that exec() starts the modules without looking at it.            *)
(***************************************************************************)
RecursionBounded ==
  Len(callstack) <= IF RecursionLimit > Len(Started) THEN RecursionLimit ELSE Len(Started)

(* exec()'s assertion: a run that ends without an unhandled exception has  *)
(* used up the operand stack, and every frame.                             *)
CleanExit == Halted /\ exit_code = 0 => depth = 0 /\ frames = <<>>

(***************************************************************************)
(* The activations below the top are only ever discarded, never changed,   *)
(* and their cells (those below the base of the activation above) are      *)
(* still there after each instruction, each return and each exception.     *)
(***************************************************************************)
CallersKept ==
  [][\A k \in 1..(Len(callstack) - 1) : k < Len(callstack') /\ exit_code' = 0 =>
       /\ frames'[k] = frames[k]
       /\ callstack'[k + 1] = callstack[k + 1]
       /\ frames[k + 1].opstack_depth <= depth']_vars

(* An interrupt is noticed: after at most one more instruction the         *)
(* exception is raised, unless the program ends first.                     *)
InterruptDelivered == interrupted ~> (~interrupted \/ Halted)

(* A program without loops ends, however its calls nest and whatever is    *)
(* raised: no handler leads back into its own block.                       *)
LoopFree ==
  \A m \in DOMAIN prog.code : \A i \in DOMAIN prog.code[m] :
    prog.code[m][i].op \in BranchOps => i < prog.code[m][i].n

EventuallyHalts == LoopFree ~> Halted

-----------------------------------------------------------------------------
(***************************************************************************)
(* The inductive invariant behind the safety properties.  DepthAgrees      *)
(* speaks of the activation that is running; what makes it true again when *)
(* a call returns or an exception is caught is what holds of the suspended *)
(* activations and of the cells between their bases.                       *)
(***************************************************************************)
(* The compiler keeps its contract.                                        *)
CodeIsWellFormed == \A p \in Programs : WellFormed(p)

-----------------------------------------------------------------------------
(* Where activation k of the stack cs is, a being where the top one is.    *)
Place(cs, m, a, k) == IF k = Len(cs) THEN <<m, a>> ELSE cs[k + 1]

FunctionOf(p, l) == p.funcs[l[1]][p.owner[l[1]][l[2]]]

DepthAt(p, l) == p.depth[l[1]][l[2]]

(* The exception ranges around address a lead to handlers of the function  *)
(* of a, and the cells they keep are among the first n of its activation.  *)
Handled(p, m, i, a, n) ==
  \A j \in DOMAIN p.exc[m] :
    LET e == p.exc[m][j]
    IN  InRange(e, a) => /\ 0 <= e.depth
                         /\ e.depth <= n
                         /\ FlowsTo(p, m, i, e.handler, e.depth + 1)

(***************************************************************************)
(* An activation that resumes at l once the one above it has returned:     *)
(* with the results in place of the arguments the depth will be right.     *)
(* base and next are where its cells and those of the one above start.     *)
(***************************************************************************)
Suspended(p, l, base, next, results) ==
  /\ l[2] \in Live(p, l[1])
  /\ next + results = base + DepthAt(p, l)
  /\ Handled(p, l[1], l[2], l[2], next - base)

(* Call stack cs, frames fr, address a of module m and depth d fit.        *)
Stopped(p, m, a, d) == m = p.main /\ a = EndOf(p, p.main) /\ d = 0

Active(p, cs, fr, m, a, d) ==
  /\ cs[1] = <<p.main, EndOf(p, p.main)>>
  /\ fr[1].opstack_depth = 0
  /\ FunctionOf(p, Place(cs, m, a, 1)).results = 0
  /\ a \in Live(p, m)
  /\ d = fr[Len(fr)].opstack_depth + p.depth[m][a]

Consistent(p, cs, fr, m, a, d) ==
  /\ Len(fr) = Len(cs)
  /\ Len(cs) = 0 => Stopped(p, m, a, d)
  /\ Len(cs) > 0 => Active(p, cs, fr, m, a, d)
  /\ \A k \in 1..Len(cs) : fr[k].nest = FunctionOf(p, Place(cs, m, a, k)).nest
  /\ \A k \in 1..(Len(cs) - 1) :
       Suspended(p, cs[k + 1], fr[k].opstack_depth, fr[k + 1].opstack_depth,
                 FunctionOf(p, Place(cs, m, a, k + 1)).results)
  /\ \A j, k \in 1..Len(cs) : j <= k => fr[j].opstack_depth <= fr[k].opstack_depth

(* Between the two exceptions of MODN the handler that was found for the   *)
(* first is the one that will be found for the second.                     *)
Again ==
  LET found == Entries(module, start_ip, PANIC)
      e == prog.exc[module][Min(found)]
  IN  /\ callstack # <<>>
      /\ found # {}
      /\ ip = e.handler
      /\ depth = Last(frames).opstack_depth + e.depth + 1

(* Before every instruction, and before the interrupt test.                *)
IInv ==
  /\ TypeOK
  /\ exit_code = 0 => Consistent(prog, callstack, frames, module, ip, depth)
  /\ pc = "again" => exit_code = 0 /\ Again

(***************************************************************************)
(* For the static links: each frame knows the activations of the functions *)
(* around its own, whatever is called from there.                          *)
(***************************************************************************)
CallsAreLexical == \A p \in Programs : LexicallyScoped(p)

OwnerAt(p, l) == p.owner[l[1]][l[2]]

Links(p, cs, fr, m, a, k) ==
  LET l == Place(cs, m, a, k)
  IN  \A j \in 1..(FunctionOf(p, l).nest - 1) :
        LET x == fr[k].outer[j]
        IN  /\ j \in DOMAIN fr[k].outer
            /\ x \in 1..(k - 1)
            /\ Place(cs, m, a, x)[1] = l[1]
            /\ OwnerAt(p, Place(cs, m, a, x)) = FunctionOf(p, l).chain[j]

Linked ==
  exit_code = 0 =>
    \A k \in 1..Len(callstack) : Links(prog, callstack, frames, module, ip, k)

(***************************************************************************)
(* For the search of a handler: a return address is behind a call, or the  *)
(* entry of a module that another one has been started on top of.          *)
(***************************************************************************)
HandlersEnclose == \A p \in Programs : RangesEnclose(p)

Resumes(p, l) ==
  \/ p.init # <<>> /\ l[2] = p.funcs[l[1]][1].entry
  \/ l[2] - 1 \in Live(p, l[1]) /\ p.code[l[1]][l[2] - 1].op \in CallOps

Resumable ==
  exit_code = 0 => \A k \in 2..Len(callstack) : Resumes(prog, callstack[k])
=============================================================================
