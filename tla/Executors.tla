------------------------------- MODULE Executors -------------------------------
(***************************************************************************)
(* The executors in C, Go, Python, Java and C# (modules Cnex, Gonex,       *)
(* Pynex, Jnex, Csnex) against the one they reimplement, exec.cpp (module  *)
(* Exec): whatever an executor does with the call stack, the frames and    *)
(* the operand stack, exec.cpp may do as well, as long as the executor is  *)
(* not killed by something it does not implement.                          *)
(***************************************************************************)
EXTENDS Activations

C  == INSTANCE Cnex
Go == INSTANCE Gonex
Py == INSTANCE Pynex
Java == INSTANCE Jnex
Cs == INSTANCE Csnex

Step ==
  \/ who = "cnex" /\ C!Step
  \/ who = "gonex" /\ Go!Step
  \/ who = "pynex" /\ Py!Step
  \/ who = "jnex" /\ Java!Step
  \/ who = "csnex" /\ Cs!Step

Looping ==
  CASE who = "cnex" -> C!exec_loop
    [] who = "gonex" -> Go!run
    [] who = "pynex" -> Py!run
    [] who = "jnex" -> Java!execLoop
    [] who = "csnex" -> Cs!Loop

Over == ~Looping /\ UNCHANGED vars

Next == Step \/ Over

Spec == Init /\ [][Next]_vars

-----------------------------------------------------------------------------
(***************************************************************************)
(* exec.cpp in the same state, without interrupts.  The recursion limit    *)
(* comes one call later in cnex, and for jnex where memory ends.           *)
(***************************************************************************)
Exec == INSTANCE Exec WITH
  RecursionLimit <- RecursionLimit, MaxInterrupts <- 0, interrupted <- FALSE,
  interrupts <- 0, start_ip <- 0, exit_code <- (IF ended = "no" THEN 0 ELSE 1)

ExecLater == INSTANCE Exec WITH
  RecursionLimit <- RecursionLimit + 1, MaxInterrupts <- 0, interrupted <- FALSE,
  interrupts <- 0, start_ip <- 0, exit_code <- (IF ended = "no" THEN 0 ELSE 1)

ExecRoomy == INSTANCE Exec WITH
  RecursionLimit <- JavaCalls, MaxInterrupts <- 0, interrupted <- FALSE,
  interrupts <- 0, start_ip <- 0, exit_code <- (IF ended = "no" THEN 0 ELSE 1)

ExecStep ==
  CASE who = "cnex" -> ExecLater!Step
    [] who = "jnex" -> ExecRoomy!Step
    [] OTHER -> Exec!Step

(* The exception exec.cpp may raise here finds no handler, or this one.    *)
NotCaught == \E t \in Throws(Ins) : Exec!Catchers(ip + t.off, t.exc) = {}

CaughtThere ==
  \E t \in Throws(Ins) :
    LET ks == Exec!Catchers(ip + t.off, t.exc)
        k == Max(ks)
        at == Exec!At(k, ip + t.off)
    IN  /\ ks # {}
        /\ module' = at[1]
        /\ ip' = prog.exc[at[1]][Min(Exec!Entries(at[1], at[2], t.exc))].handler
        /\ callstack' = SubSeq(callstack, 1, k)

(* Where an executor catches an exception but departs from exec.cpp in     *)
(* what it leaves: jnex on the operand stack and of the frames, cnex on    *)
(* the operand stack after INDEXDV.                                        *)
CatchesDifferently ==
  pc = "fetch" /\ (who = "jnex" \/ (who = "cnex" /\ Ins.op = "INDEXDV"))

(***************************************************************************)
(* Every step of an executor that goes on is one exec.cpp may take in the  *)
(* same state - next instruction, callers, frames and the cells that are   *)
(* left (StaticOuter, invoke, raise_literal) - but that two of them leave  *)
(* other cells behind when they catch an exception, though at the same     *)
(* handler, with the same callers.  One that ends for an exception ends    *)
(* where exec.cpp has no handler for it.                                   *)
(***************************************************************************)
StepsLikeExec ==
  [][/\ ended' = "no" => ExecStep \/ (CatchesDifferently /\ CaughtThere)
     /\ ended' = "uncaught" => NotCaught]_vars

(* The types of the variables.                                             *)
TypeOK ==
  /\ who \in Executors
  /\ module \in DOMAIN prog.code
  /\ ip \in Nat
  /\ depth \in Nat
  /\ callstack \in Seq(Addresses(prog))
  /\ frames \in Seq(Exec!FrameType)
  /\ ended \in {"no", "uncaught", "crash"}
  /\ pc \in {"fetch", "check"}

(* A program without INDEXDV.                                              *)
NoDictionaryValue ==
  \A m \in DOMAIN prog.code : \A i \in DOMAIN prog.code[m] : prog.code[m][i].op # "INDEXDV"

(***************************************************************************)
(* The loops end where exec.cpp's does, although each tests something      *)
(* else (the call stack, the address, or both); and a program that ends by *)
(* itself leaves no cell and no frame, but for jnex, whose frames stay     *)
(* when an exception is caught, and cnex after INDEXDV.                    *)
(***************************************************************************)
EndsLikeExec ==
  /\ TypeOK
  /\ pc = "fetch" /\ ended = "no" => (Looping <=> Exec!Running)
  /\ ~Looping /\ ended = "no" /\ who # "jnex" /\ (who = "cnex" => NoDictionaryValue) =>
       depth = 0 /\ frames = <<>>

-----------------------------------------------------------------------------
\* An instance: the programs of module Programs.
LOCAL S == INSTANCE Programs

Core ==
  {S!Compiled(S!Nested, "main", <<>>),
   S!Compiled(S!Recursive, "main", <<>>),
   S!Compiled(S!Modules, "main", <<"lib", "other">>),
   S!Compiled(S!Loops, "main", <<>>),
   S!Compiled(S!Instructions, "main", <<>>)}

ASSUME CoreIsWellFormed == \A p \in Core : WellFormed(p)
=============================================================================
