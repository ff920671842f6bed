--------------------------------- MODULE Jnex ---------------------------------
(***************************************************************************)
(* The executor in Java (exec/jnex/.../Executor.java).  It runs a single   *)
(* module; raiseLiteral restores neither the operand stack nor the frames; *)
(* there is no recursion limit but the memory of the virtual machine.      *)
(***************************************************************************)
EXTENDS Activations

execLoop == ended = "no" /\ callstack # <<>> /\ InCode

raiseLiteral(tip, exc, d) ==
  LET ks == Catchers(tip, exc)
      k == Max(ks)
  IN  /\ IF ks = {} THEN Uncaught
         ELSE /\ ToHandler(k, tip, Found(ks, tip, exc))
              /\ depth' = d + 1
              /\ UNCHANGED frames
      /\ ToCheck

(* The assertions of Java are off unless asked for; OutOfMemoryError.      *)
invoke(f, d) ==
  IF Len(callstack) < JavaCalls THEN Activate(module, f, d) /\ ToCheck ELSE Die

doPUSH == Fetch({"PUSHB", "PUSHN", "PUSHS", "PUSHY", "PUSHPG", "PUSHPPG",
                 "PUSHPL", "PUSHPOL", "PUSHI"}) /\ Straight
doALLOC == Fetch({"ALLOC", "PUSHNIL"}) /\ Straight
doPUSHCI == Fetch({"PUSHCI"}) /\ Straight
doLOAD == Fetch(LoadOps) /\ Straight
doSTORE == Fetch(StoreOps) /\ Straight
doADDN == Fetch({"NEGN", "ADDN", "SUBN", "MULN", "EXPN"}) /\ Straight
doEQN == Fetch({"EQB", "NEB", "EQN", "NEN", "LTN", "GTN", "LEN", "GEN",
                "EQS", "NES", "LTS", "GTS", "LES", "GES"}) /\ Straight
doEQY == Fetch({"EQY", "NEY", "LTY", "EQA", "NEA", "EQP", "NEP", "NOTB"}) /\ Straight
doINDEXDW == Fetch({"INDEXDW"}) /\ Straight
doINA == Fetch(InOps) /\ Straight
doDUP == Fetch({"DUP", "DUPX1", "DROP"}) /\ Straight
doCONSA == Fetch({"CONSA", "CONSD"}) /\ Straight
doSWAP == Fetch({"SWAP"}) /\ Straight

(* "Unknown opcode": the instructions the switch has no case for.          *)
Unknown == Fetch({"PUSHPMG", "GTY", "LEY", "GEY", "EQD", "NED", "ANDB", "ORB", "CALLMF",
                  "CALLI", "PUSHPEG", "CALLX", "DROPN", "PUSHFP", "PUSHMFP"}) /\ Die

doDIVN == Fetch({"DIVN", "MODN"}) /\ (Straight \/ raiseLiteral(ip + 1, PANIC, depth - 2))

doINDEXAR ==
  /\ Fetch({"INDEXAR", "INDEXAW"})
  /\ Straight \/ raiseLiteral(ip + 1, PANIC, depth - 2)

doINDEXAV ==
  /\ Fetch({"INDEXAV", "INDEXAN"})
  /\ Straight \/ raiseLiteral(ip + 1, PANIC, depth - 2)

doINDEXDV ==
  /\ Fetch({"INDEXDR", "INDEXDV"})
  /\ Straight \/ raiseLiteral(ip + 1, PANIC, depth - 2)

(* A NeonException thrown in a predefined function is caught in execLoop.  *)
doCALLP ==
  /\ Fetch({"CALLP"})
  /\ \/ Straight
     \/ \E x \in Ins.exc : raiseLiteral(ip + 1, x, depth - Ins.in)
     \/ Die

doCALLF == Fetch({"CALLF"}) /\ invoke(Ins.fn, depth)
doCALLV == Fetch({"CALLV"}) /\ \E g \in Ins.impl : invoke(g[2], depth - 1)

doJUMP ==
  \/ Fetch(BranchOps) /\ GoTo(Ins.n)
  \/ Fetch({"JF", "JT"}) /\ GoTo(ip + 1)

doJUMPTBL == Fetch({"JUMPTBL"}) /\ \E i \in 0..Ins.n : GoTo(ip + 1 + i)

doRET ==
  /\ Fetch({"RET"})
  /\ frames' = Front(frames)
  /\ ip' = Last(callstack)[2]
  /\ callstack' = Front(callstack)
  /\ UNCHANGED <<module, depth, ended>>
  /\ ToCheck

doEXCEPT == Fetch({"EXCEPT"}) /\ \E x \in Thrown : raiseLiteral(ip, x, depth - 1)

Handler ==
  \/ doPUSH \/ doALLOC \/ doPUSHCI \/ doLOAD \/ doSTORE \/ doADDN \/ doDIVN
  \/ doEQN \/ doEQY \/ Unknown \/ doINDEXAR \/ doINDEXAV \/ doINDEXDW
  \/ doINDEXDV \/ doINA \/ doCALLP \/ doCALLF \/ doCALLV \/ doJUMP \/ doJUMPTBL
  \/ doDUP \/ doRET \/ doCONSA \/ doEXCEPT \/ doSWAP

Step == (execLoop /\ Handler) \/ (execLoop /\ Again)

=============================================================================
