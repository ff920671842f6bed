-------------------------------- MODULE Cnex --------------------------------
(***************************************************************************)
(* The executor in C (exec/cnex/cnex.c).  Its operand stack has a fixed    *)
(* capacity, and pushing onto a full one or popping an empty one is fatal; *)
(* its recursion limit is compared with the index of the top of the call   *)
(* stack, one less than the number of calls.                               *)
(***************************************************************************)
EXTENDS Activations

exec_loop == ended = "no" /\ callstack # <<>> /\ InCode

push == IF depth - Consumed(Ins) + Produced(Ins) > StackCells THEN Die ELSE Straight

(* Popping an empty stack.  The arguments of a call stay for the callee.    *)
Underflow ==
  depth < CASE Ins.op \in {"CALLF", "CALLMF"} -> 0
            [] Ins.op \in {"CALLI", "CALLV"} -> 1
            [] OTHER -> Consumed(Ins)

pop == ended = "no" /\ pc = "fetch" /\ InCode /\ Underflow /\ Die

(* The lowest entry of the call stack, main's return address, is not       *)
(* searched.  INDEXDV goes on after the exception is raised and pops two   *)
(* more cells: pops is 2 for it and otherwise 0.                           *)
exec_raiseLiteral(tip, exc, d, pops) ==
  LET ks == Catchers(tip, exc) \ {0}
      k == Max(ks)
      e == Found(ks, tip, exc)
      to == Landing(k, e, d)
  IN  CASE ks = {} /\ pops = 0 -> Uncaught /\ ToCheck
        [] ks # {} /\ to <= StackCells /\ pops <= to ->
             /\ ToHandler(k, tip, e)
             /\ frames' = Kept(k)
             /\ depth' = to - pops
             /\ ToCheck
        [] OTHER -> Die

callstack_full == Len(callstack) - 1 >= RecursionLimit

invoke(m, f, d) == IF NestingOK(m, f) THEN Activate(m, f, d) /\ ToCheck ELSE Die

exec_PUSH == Fetch({"PUSHB", "PUSHN", "PUSHS", "PUSHY", "PUSHPG", "PUSHPPG", "PUSHPMG",
                    "PUSHPL", "PUSHPOL", "PUSHI"}) /\ push
exec_ALLOC == Fetch({"ALLOC", "PUSHNIL"}) /\ push
exec_PUSHFP == Fetch({"PUSHFP"}) /\ push
exec_PUSHCI == Fetch({"PUSHCI"}) /\ push
exec_PUSHMFP == Fetch({"PUSHMFP"}) /\ push
exec_LOAD == Fetch(LoadOps) /\ push
exec_STORE == Fetch(StoreOps) /\ push
exec_EQN == Fetch({"EQB", "NEB", "EQN", "NEN", "LTN", "GTN", "LEN", "GEN",
                   "EQS", "NES", "LTS", "GTS", "LES", "GES"}) /\ push
exec_EQY == Fetch({"EQY", "NEY", "LTY", "GTY", "LEY", "GEY", "EQA", "NEA",
                   "EQD", "NED", "EQP", "NEP"}) /\ push
exec_NOTB == Fetch({"NOTB"}) /\ push
exec_INDEXDW == Fetch({"INDEXDW"}) /\ push
exec_INA == Fetch(InOps) /\ push
exec_DUP == Fetch({"DUP", "DUPX1", "DROP"}) /\ push
exec_CONS == Fetch({"CONSA", "CONSD"}) /\ push
exec_SWAP == Fetch({"SWAP", "DROPN"}) /\ push

(* fatal_error("... not implemented")                                      *)
exec_ORB == Fetch({"ANDB", "ORB", "PUSHPEG"}) /\ Die

(* A flag of the number library raises one exception, from the start of    *)
(* the instruction, once the result is pushed.                             *)
exec_ARITH ==
  /\ Fetch(ArithOps \cup {"NEGN"})
  /\ push \/ exec_raiseLiteral(ip, PANIC, depth - Consumed(Ins) + 1, 0)

exec_INDEXAR ==
  /\ Fetch({"INDEXAR", "INDEXAW"})
  /\ push \/ exec_raiseLiteral(ip + 1, PANIC, depth - 2, 0)

exec_INDEXAV ==
  /\ Fetch({"INDEXAV", "INDEXAN"})
  /\ push \/ exec_raiseLiteral(ip + 1, PANIC, depth - 1, 0)

exec_INDEXDR ==
  /\ Fetch({"INDEXDR"})
  /\ push \/ exec_raiseLiteral(ip + 1, PANIC, depth - 2, 0)

exec_INDEXDV ==
  /\ Fetch({"INDEXDV"})
  /\ push \/ exec_raiseLiteral(ip + 1, PANIC, depth, 2)

(* A predefined function raises with ip behind the call, a flag of the     *)
(* number library from its start.                                          *)
exec_CALLP ==
  /\ Fetch({"CALLP"})
  /\ \/ push
     \/ \E x \in Ins.exc : exec_raiseLiteral(ip + 1, x, depth - Ins.in, 0)
     \/ \E x \in Ins.exc \cap {PANIC} :
          exec_raiseLiteral(ip, x, depth - Ins.in + Ins.out, 0)

exec_CALLX ==
  /\ Fetch({"CALLX"})
  /\ push \/ \E x \in Ins.exc : exec_raiseLiteral(ip + 1, x, depth - 1, 0)

exec_EXCEPT == Fetch({"EXCEPT"}) /\ \E x \in Thrown : exec_raiseLiteral(ip, x, depth - 1, 0)

StackOverflow == callstack_full /\ exec_raiseLiteral(ip + 1, PANIC, depth, 0)

exec_CALLF ==
  /\ Fetch({"CALLF"})
  /\ StackOverflow \/ (~callstack_full /\ invoke(module, Ins.fn, depth))

exec_CALLMF ==
  /\ Fetch({"CALLMF"})
  /\ StackOverflow \/ (~callstack_full /\ invoke(Ins.mod, Ins.fn, depth))

exec_CALLI ==
  /\ Fetch({"CALLI"})
  /\ \/ StackOverflow
     \/ ~callstack_full /\ exec_raiseLiteral(ip + 1, PANIC, depth - 1, 0)
     \/ ~callstack_full /\ \E g \in Ins.impl : invoke(g[1], g[2], depth - 1)

exec_CALLV ==
  /\ Fetch({"CALLV"})
  /\ \/ StackOverflow
     \/ ~callstack_full /\ \E g \in Ins.impl : invoke(g[1], g[2], depth - 1)

exec_JUMP ==
  \/ Fetch(BranchOps) /\ GoTo(Ins.n)
  \/ Fetch({"JF", "JT"}) /\ GoTo(ip + 1)

exec_JUMPTBL == Fetch({"JUMPTBL"}) /\ \E i \in 0..Ins.n : GoTo(ip + 1 + i)

exec_RET ==
  /\ Fetch({"RET"})
  /\ frames' = Front(frames)
  /\ module' = Last(callstack)[1]
  /\ ip' = Last(callstack)[2]
  /\ callstack' = Front(callstack)
  /\ UNCHANGED <<depth, ended>>
  /\ ToCheck

Handler ==
  \/ exec_PUSH \/ exec_ALLOC \/ exec_PUSHFP \/ exec_PUSHCI \/ exec_PUSHMFP
  \/ exec_LOAD \/ exec_STORE \/ exec_ARITH \/ exec_EQN \/ exec_EQY \/ exec_NOTB
  \/ exec_ORB \/ exec_INDEXAR \/ exec_INDEXAV \/ exec_INDEXDR \/ exec_INDEXDW
  \/ exec_INDEXDV \/ exec_INA \/ exec_CALLP \/ exec_CALLF \/ exec_CALLMF
  \/ exec_CALLI \/ exec_CALLV \/ exec_CALLX \/ exec_JUMP \/ exec_JUMPTBL
  \/ exec_DUP \/ exec_RET \/ exec_CONS \/ exec_SWAP \/ exec_EXCEPT

Step ==
  \/ exec_loop /\ (pop \/ (~Underflow /\ Handler))
  \/ exec_loop /\ Again

=============================================================================
