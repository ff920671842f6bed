-------------------------------- MODULE Pynex --------------------------------
(***************************************************************************)
(* The executor in Python (exec/pynex/pynex.py).  The recursion limit is   *)
(* tested in invoke, when a function pointer or an interface has been      *)
(* popped; what only the host language notices (an index past the end, a   *)
(* missing key, an unset pointer, an overflow) ends the interpreter.       *)
(***************************************************************************)
EXTENDS Activations

run == ended = "no" /\ InCode

raise_literal(tip, exc, d) ==
  LET ks == Catchers(tip, exc)
      k == Max(ks)
      e == Found(ks, tip, exc)
  IN  /\ IF ks = {} THEN Uncaught
         ELSE /\ ToHandler(k, tip, e)
              /\ frames' = Kept(k)
              /\ depth' = Landing(k, e, d)
      /\ ToCheck

invoke(m, f, d) ==
  CASE Len(callstack) >= RecursionLimit -> raise_literal(ip + 1, PANIC, d)
    [] Len(callstack) < RecursionLimit /\ NestingOK(m, f) -> Activate(m, f, d) /\ ToCheck
    [] OTHER -> Die

PUSH == Fetch({"PUSHB", "PUSHN", "PUSHS", "PUSHY", "PUSHPG", "PUSHPPG", "PUSHPMG",
               "PUSHPL", "PUSHPOL", "PUSHI"}) /\ Straight
LOAD == Fetch(LoadOps) /\ Straight
STORE == Fetch(StoreOps) /\ Straight
NEGN == Fetch({"NEGN"}) /\ Straight
EQB == Fetch({"EQB", "NEB", "EQN", "NEN", "LTN", "GTN", "LEN", "GEN",
              "EQS", "NES", "LTS", "GTS", "LES", "GES"}) /\ Straight
EQY == Fetch({"EQY", "NEY", "LTY", "GTY", "LEY", "GEY", "EQA", "NEA",
              "EQD", "NED", "EQP", "NEP", "NOTB"}) /\ Straight
INDEXDW == Fetch({"INDEXDW"}) /\ Straight
INA == Fetch(InOps) /\ Straight
DUP == Fetch({"DUP", "DUPX1", "DROP"}) /\ Straight
CONSA == Fetch({"CONSA", "CONSD"}) /\ Straight
ALLOC == Fetch({"ALLOC", "PUSHNIL"}) /\ Straight
SWAP == Fetch({"SWAP", "DROPN", "PUSHFP"}) /\ Straight
PUSHCI == Fetch({"PUSHCI"}) /\ Straight
PUSHMFP == Fetch({"PUSHMFP"}) /\ Straight
ANDB == Fetch({"ANDB", "ORB", "PUSHPEG"}) /\ Die

(* Decimal arithmetic traps an overflow as an exception of Python's.       *)
ADDN == Fetch({"ADDN", "SUBN", "MULN", "EXPN"}) /\ (Straight \/ Die)
DIVN == Fetch({"DIVN", "MODN"}) /\ (Straight \/ raise_literal(ip + 1, PANIC, depth - 2) \/ Die)

INDEXAR ==
  /\ Fetch({"INDEXAR", "INDEXAW"})
  /\ Straight \/ raise_literal(ip + 1, PANIC, depth - 2)

(* An index past the end is an IndexError.                                 *)
INDEXAV ==
  /\ Fetch({"INDEXAV", "INDEXAN"})
  /\ Straight \/ raise_literal(ip + 1, PANIC, depth - 2) \/ Die

INDEXDR == Fetch({"INDEXDR"}) /\ (Straight \/ raise_literal(ip + 1, PANIC, depth - 2))

(* A missing key is a KeyError.                                            *)
INDEXDV == Fetch({"INDEXDV"}) /\ (Straight \/ Die)

CALLP ==
  /\ Fetch({"CALLP"})
  /\ \/ Straight
     \/ \E x \in Ins.exc : raise_literal(ip + 1, x, depth - Ins.in)
     \/ Die

CALLX ==
  /\ Fetch({"CALLX"})
  /\ Straight \/ \E x \in Ins.exc : raise_literal(ip + 1, x, depth - 1)

CALLF == Fetch({"CALLF"}) /\ invoke(module, Ins.fn, depth)
CALLMF == Fetch({"CALLMF"}) /\ invoke(Ins.mod, Ins.fn, depth)
CALLI == Fetch({"CALLI"}) /\ (Die \/ \E g \in Ins.impl : invoke(g[1], g[2], depth - 1))
CALLV == Fetch({"CALLV"}) /\ \E g \in Ins.impl : invoke(g[1], g[2], depth - 1)

JUMP ==
  \/ Fetch(BranchOps) /\ GoTo(Ins.n)
  \/ Fetch({"JF", "JT"}) /\ GoTo(ip + 1)

JUMPTBL == Fetch({"JUMPTBL"}) /\ \E i \in 0..Ins.n : GoTo(ip + 1 + i)

RET ==
  /\ Fetch({"RET"})
  /\ frames' = Front(frames)
  /\ module' = Last(callstack)[1]
  /\ ip' = Last(callstack)[2]
  /\ callstack' = Front(callstack)
  /\ UNCHANGED <<depth, ended>>
  /\ ToCheck

EXCEPT_ == Fetch({"EXCEPT"}) /\ \E x \in Thrown : raise_literal(ip, x, depth - 1)

Handler ==
  \/ PUSH \/ LOAD \/ STORE \/ NEGN \/ ADDN \/ DIVN \/ EQB \/ EQY \/ ANDB
  \/ INDEXAR \/ INDEXAV \/ INDEXDR \/ INDEXDW \/ INDEXDV \/ INA \/ CALLP
  \/ CALLF \/ CALLMF \/ CALLI \/ CALLV \/ CALLX \/ JUMP \/ JUMPTBL \/ DUP
  \/ RET \/ CONSA \/ EXCEPT_ \/ ALLOC \/ SWAP \/ PUSHCI \/ PUSHMFP

Step == (run /\ Handler) \/ (run /\ Again)

=============================================================================
