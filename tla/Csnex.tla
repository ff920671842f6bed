-------------------------------- MODULE Csnex --------------------------------
(***************************************************************************)
(* The executor in C# (exec/csnex/Exec.cs).  RaiseLiteral pops the frames  *)
(* and the call stack, and changes the module, while it searches.  What is *)
(* not implemented, and a missing key of a dictionary value, end the       *)
(* program with an exception of the host's.                                *)
(***************************************************************************)
EXTENDS Activations

Loop == ended = "no" /\ callstack # <<>> /\ InCode

(* Mutant: the module is not changed back to the caller's.                 *)
RaiseLiteral_here(tip, exc, d) ==
  LET ks == Catchers(tip, exc)
      k == Max(ks)
      e == Found(ks, tip, exc)
  IN  /\ IF ks = {} THEN Uncaught
         ELSE /\ module' = module
              /\ ip' = e.handler
              /\ callstack' = SubSeq(callstack, 1, k)
              /\ frames' = Kept(k)
              /\ depth' = Landing(k, e, d)
              /\ UNCHANGED ended
      /\ ToCheck

RaiseLiteral(tip, exc, d) ==
  LET ks == Catchers(tip, exc)
      k == Max(ks)
      e == Found(ks, tip, exc)
  IN  /\ IF ks = {} THEN Uncaught
         ELSE /\ ToHandler(k, tip, e)
              /\ frames' = Kept(k)
              /\ depth' = Landing(k, e, d)
      /\ ToCheck

AtLimit == Len(callstack) >= RecursionLimit

(* Debug.Assert says nothing in a release build.                           *)
Invoke(m, f, d) == Activate(m, f, d) /\ ToCheck

PUSH == Fetch({"PUSHB", "PUSHN", "PUSHS", "PUSHY", "PUSHPG", "PUSHPPG", "PUSHPMG",
               "PUSHPL", "PUSHPOL", "PUSHI", "PUSHNIL", "PUSHFP"}) /\ Straight
PUSHCI == Fetch({"PUSHCI", "PUSHMFP"}) /\ Straight
LOAD == Fetch(LoadOps) /\ Straight
STORE == Fetch(StoreOps) /\ Straight
NEGN == Fetch({"NEGN", "ADDN", "SUBN", "MULN", "EXPN"}) /\ Straight
EQN == Fetch({"EQB", "NEB", "EQN", "NEN", "LTN", "GTN", "LEN", "GEN",
              "EQS", "NES", "LTS", "GTS", "LES", "GES"}) /\ Straight
EQY == Fetch({"EQY", "NEY", "LTY", "GTY", "LEY", "GEY", "EQA", "NEA",
              "EQD", "NED", "EQP", "NEP"}) /\ Straight
NOTB == Fetch({"NOTB"}) /\ Straight
INDEXDW == Fetch({"INDEXDW"}) /\ Straight
INA == Fetch(InOps) /\ Straight
DUP == Fetch({"DUP", "DUPX1", "DROP", "SWAP"}) /\ Straight
CONSA == Fetch({"CONSA", "CONSD"}) /\ Straight
ALLOC == Fetch({"ALLOC"}) /\ Straight

(* NotImplementedException                                                 *)
ANDB == Fetch({"ANDB", "ORB", "PUSHPEG"}) /\ Die
CALLX == Fetch({"CALLX", "DROPN"}) /\ Die

DIVN == Fetch({"DIVN", "MODN"}) /\ (Straight \/ RaiseLiteral(ip + 1, PANIC, depth - 2))

INDEXAR ==
  /\ Fetch({"INDEXAR", "INDEXAW"})
  /\ Straight \/ RaiseLiteral(ip + 1, PANIC, depth - 2)

INDEXAV ==
  /\ Fetch({"INDEXAV", "INDEXAN"})
  /\ Straight \/ RaiseLiteral(ip + 1, PANIC, depth - 2)

INDEXDR == Fetch({"INDEXDR"}) /\ (Straight \/ RaiseLiteral(ip + 1, PANIC, depth - 2))

(* KeyNotFoundException                                                    *)
INDEXDV == Fetch({"INDEXDV"}) /\ (Straight \/ Die)

CALLP ==
  /\ Fetch({"CALLP"})
  /\ \/ Straight
     \/ \E x \in Ins.exc : RaiseLiteral(ip + 1, x, depth - Ins.in)
     \/ Die

StackOverflow == AtLimit /\ RaiseLiteral(ip + 1, PANIC, depth)

CALLF ==
  /\ Fetch({"CALLF"})
  /\ StackOverflow \/ (~AtLimit /\ Invoke(module, Ins.fn, depth))

CALLMF ==
  /\ Fetch({"CALLMF"})
  /\ StackOverflow \/ (~AtLimit /\ Invoke(Ins.mod, Ins.fn, depth))

CALLI ==
  /\ Fetch({"CALLI"})
  /\ \/ StackOverflow
     \/ ~AtLimit /\ RaiseLiteral(ip + 1, PANIC, depth - 1)
     \/ ~AtLimit /\ \E g \in Ins.impl : Invoke(g[1], g[2], depth - 1)

CALLV ==
  /\ Fetch({"CALLV"})
  /\ \/ StackOverflow
     \/ ~AtLimit /\ \E g \in Ins.impl : Invoke(g[1], g[2], depth - 1)

JUMP ==
  \/ Fetch(BranchOps) /\ GoTo(Ins.n)
  \/ Fetch({"JF", "JT"}) /\ GoTo(ip + 1)

JUMPTBL == Fetch({"JUMPTBL"}) /\ \E i \in 0..Ins.n : GoTo(ip + 1 + i)

RET ==
  /\ Fetch({"RET"})
  /\ frames' = Front(frames)
  /\ module' = Last(callstack)[1]
  /\ ip' = Last(callstack)[2]
  /\ callstack' = Front(callstack)
  /\ UNCHANGED <<depth, ended>>
  /\ ToCheck

EXCEPT_ == Fetch({"EXCEPT"}) /\ \E x \in Thrown : RaiseLiteral(ip, x, depth - 1)

Handler ==
  \/ PUSH \/ PUSHCI \/ LOAD \/ STORE \/ NEGN \/ DIVN \/ EQN \/ EQY \/ ANDB
  \/ NOTB \/ INDEXAR \/ INDEXAV \/ INDEXDR \/ INDEXDW \/ INDEXDV \/ INA
  \/ CALLP \/ CALLF \/ CALLMF \/ CALLI \/ CALLV \/ CALLX \/ JUMP \/ JUMPTBL
  \/ RET \/ DUP \/ CONSA \/ EXCEPT_ \/ ALLOC

Step == (Loop /\ Handler) \/ (Loop /\ Again)

=============================================================================
