-------------------------------- MODULE Gonex --------------------------------
(***************************************************************************)
(* The executor in Go (exec/gonex/gonex.go).  Its numbers are floating     *)
(* point, so that only a division by zero raises; an unimplemented         *)
(* instruction or predefined function fails an assertion, and an index     *)
(* nothing has tested panics.  The loop does not look at the call stack:   *)
(* the return address of main ends it.                                     *)
(***************************************************************************)
EXTENDS Activations

run == ended = "no" /\ InCode

(* Mutant: the frames of the activations that are left stay.               *)
raise_literal_keeps(tip, exc, d) ==
  LET ks == Catchers(tip, exc)
      k == Max(ks)
      e == Found(ks, tip, exc)
  IN  /\ IF ks = {} THEN Uncaught
         ELSE /\ ToHandler(k, tip, e)
              /\ frames' = frames
              /\ depth' = Landing(k, e, d)
      /\ ToCheck

raise_literal(tip, exc, d) ==
  LET ks == Catchers(tip, exc)
      k == Max(ks)
      e == Found(ks, tip, exc)
  IN  /\ IF ks = {} THEN Uncaught
         ELSE /\ ToHandler(k, tip, e)
              /\ frames' = Kept(k)
              /\ depth' = Landing(k, e, d)
      /\ ToCheck

AtLimit == Len(callstack) >= RecursionLimit

invoke(m, f, d) == IF NestingOK(m, f) THEN Activate(m, f, d) /\ ToCheck ELSE Die

op_push == Fetch({"PUSHB", "PUSHN", "PUSHS", "PUSHY", "PUSHPG", "PUSHPPG", "PUSHPMG",
                  "PUSHPL", "PUSHPOL", "PUSHI"}) /\ Straight
op_load == Fetch(LoadOps) /\ Straight
op_store == Fetch(StoreOps) /\ Straight
op_negn == Fetch({"NEGN", "ADDN", "SUBN", "MULN", "EXPN"}) /\ Straight
op_eqn == Fetch({"EQB", "NEB", "EQN", "NEN", "LTN", "GTN", "LEN", "GEN",
                 "EQS", "NES", "LTS", "GTS", "LES", "GES"}) /\ Straight
op_eqy == Fetch({"EQY", "NEY", "LTY", "EQA", "NEA", "EQD", "EQP", "NEP", "NOTB"}) /\ Straight
op_indexdw == Fetch({"INDEXDW"}) /\ Straight
op_ina == Fetch(InOps) /\ Straight
op_dup == Fetch({"DUP", "DUPX1", "DROP"}) /\ Straight
op_consa == Fetch({"CONSA", "CONSD"}) /\ Straight
op_alloc == Fetch({"ALLOC", "PUSHNIL"}) /\ Straight
op_swap == Fetch({"SWAP"}) /\ Straight
op_pushci == Fetch({"PUSHCI", "PUSHFP"}) /\ Straight
op_pushmfp == Fetch({"PUSHMFP"}) /\ Straight

(* assert(false, "unimplemented ...")                                      *)
op_gty == Fetch({"GTY", "LEY", "GEY", "NED", "ANDB", "ORB"}) /\ Die
op_callx == Fetch({"CALLX", "DROPN", "PUSHPEG"}) /\ Die

op_divn == Fetch({"DIVN", "MODN"}) /\ (Straight \/ raise_literal(ip + 1, PANIC, depth - 2))

op_indexar ==
  /\ Fetch({"INDEXAR", "INDEXAW"})
  /\ Straight \/ raise_literal(ip + 1, PANIC, depth - 2)

(* An index past the end of an array value is not tested, ...              *)
op_indexav ==
  /\ Fetch({"INDEXAV"})
  /\ Straight \/ raise_literal(ip + 1, PANIC, depth - 2) \/ Die

(* ... nor a negative one here; a missing key gives an empty cell.         *)
op_indexan == Fetch({"INDEXAN"}) /\ (Straight \/ Die)
op_indexdr == Fetch({"INDEXDR"}) /\ (Straight \/ raise_literal(ip + 1, PANIC, depth - 2))
op_indexdv == Fetch({"INDEXDV"}) /\ Straight

op_callp ==
  /\ Fetch({"CALLP"})
  /\ \/ Straight
     \/ \E x \in Ins.exc : raise_literal(ip + 1, x, depth - Ins.in)
     \/ Die

StackOverflow == AtLimit /\ raise_literal(ip + 1, PANIC, depth)

op_callf ==
  /\ Fetch({"CALLF"})
  /\ StackOverflow \/ (~AtLimit /\ invoke(module, Ins.fn, depth))

op_callmf ==
  /\ Fetch({"CALLMF"})
  /\ StackOverflow \/ (~AtLimit /\ invoke(Ins.mod, Ins.fn, depth))

(* A pointer that is not set panics.                                       *)
op_calli ==
  /\ Fetch({"CALLI"})
  /\ \/ StackOverflow
     \/ ~AtLimit /\ Die
     \/ ~AtLimit /\ \E g \in Ins.impl : invoke(g[1], g[2], depth - 1)

op_callv ==
  /\ Fetch({"CALLV"})
  /\ \/ StackOverflow
     \/ ~AtLimit /\ \E g \in Ins.impl : invoke(g[1], g[2], depth - 1)

op_jump ==
  \/ Fetch(BranchOps) /\ GoTo(Ins.n)
  \/ Fetch({"JF", "JT"}) /\ GoTo(ip + 1)

op_jumptbl == Fetch({"JUMPTBL"}) /\ \E i \in 0..Ins.n : GoTo(ip + 1 + i)

op_ret ==
  /\ Fetch({"RET"})
  /\ frames' = Front(frames)
  /\ module' = Last(callstack)[1]
  /\ ip' = Last(callstack)[2]
  /\ callstack' = Front(callstack)
  /\ UNCHANGED <<depth, ended>>
  /\ ToCheck

op_except == Fetch({"EXCEPT"}) /\ \E x \in Thrown : raise_literal(ip, x, depth - 1)

Handler ==
  \/ op_push \/ op_load \/ op_store \/ op_negn \/ op_divn \/ op_eqn \/ op_eqy
  \/ op_gty \/ op_indexar \/ op_indexav \/ op_indexan \/ op_indexdr
  \/ op_indexdw \/ op_indexdv \/ op_ina \/ op_callp \/ op_callf \/ op_callmf
  \/ op_calli \/ op_callv \/ op_callx \/ op_jump \/ op_jumptbl \/ op_dup
  \/ op_ret \/ op_consa \/ op_except \/ op_alloc \/ op_swap \/ op_pushci
  \/ op_pushmfp

Step == (run /\ Handler) \/ (run /\ Again)

=============================================================================
