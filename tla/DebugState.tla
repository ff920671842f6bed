----------------------------- MODULE DebugState -----------------------------
(***************************************************************************)
(* The state of the debugger in the executor, what each request does to    *)
(* it, and when a program that arrives at an instruction stops there       *)
(* (exec.cpp: exec_loop, handle_POST).                                     *)
(***************************************************************************)
EXTENDS Integers

CONSTANTS
  Places,      \* the instructions: <<module, ip>>
  Lines,       \* those that begin a source line of a module with debug information
  MaxDepth     \* bound: the number of active calls

ASSUME PlacesHaveAddresses == \A p \in Places : p[2] \in Nat

ASSUME LinesArePlaces == Lines \subseteq Places

ASSUME MaxDepthIsPositive == MaxDepth \in Nat \ {0}

Addresses == {p[2] : p \in Places}

States == {"STOPPED", "RUN", "STEP_INSTRUCTION", "STEP_SOURCE", "QUIT"}

(* A step by source lines ends at a call depth relative to that of the     *)
(* request; "get" stands for all requests that change nothing.             *)
Requests ==
  [path: {"break"}, ip: Addresses, set: BOOLEAN]
  \cup [path: {"continue", "quit", "step/instruction", "stop", "get"}]
  \cup [path: {"step/source"}, levels: -2..1]

VARIABLES
  at,          \* the next instruction
  depth,       \* callstack.size()
  state,       \* debugger_state
  stepDepth,   \* debugger_step_source_depth
  breakpoints, \* debugger_breakpoints
  ended        \* the program has ended

(* callstack.size() + n in unsigned arithmetic: below zero it wraps round  *)
(* to a number no stack exceeds.                                           *)
StepDepth(n) == IF depth + n < 0 THEN MaxDepth + 1 ELSE depth + n

Effect(r) ==
  /\ breakpoints' = CASE r.path = "break" /\ r.set -> breakpoints \cup {r.ip}
                      [] r.path = "break" /\ ~r.set -> breakpoints \ {r.ip}
                      [] OTHER -> breakpoints
  /\ state' = CASE r.path = "continue" -> "RUN"
                [] r.path = "quit" -> "QUIT"
                [] r.path = "step/instruction" -> "STEP_INSTRUCTION"
                [] r.path = "step/source" -> "STEP_SOURCE"
                [] r.path = "stop" -> "STOPPED"
                [] OTHER -> state
  /\ stepDepth' = IF r.path = "step/source" THEN StepDepth(r.levels) ELSE stepDepth

(* The state a program that was in state s is in when it arrives at p with *)
(* d active calls.  A breakpoint is an address in any module.              *)
Arrive(s, p, d) ==
  CASE s = "RUN" /\ p[2] \in breakpoints -> "STOPPED"
    [] s = "STEP_INSTRUCTION" -> "STOPPED"
    [] s = "STEP_SOURCE" /\ d <= stepDepth /\ p \in Lines -> "STOPPED"
    [] OTHER -> s
=============================================================================
