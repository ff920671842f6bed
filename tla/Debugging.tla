----------------------------- MODULE Debugging ------------------------------
(***************************************************************************)
(* What the debugger promises to its clients: a program, and requests that *)
(* are made of it one at a time.  Between requests a stopped program does  *)
(* nothing, a running one is stopped before it executes an instruction     *)
(* with a breakpoint, and a step executes one instruction, or goes on to a *)
(* source line.  HttpDebugger shows that the executor's loop and its HTTP  *)
(* server keep this promise.                                               *)
(*                                                                         *)
(* The program may be any program: it goes from place to place, calls and  *)
(* returns, calls debugger.breakpoint(), and ends, as it likes.            *)
(***************************************************************************)
EXTENDS DebugState

vars == <<at, depth, state, stepDepth, breakpoints, ended>>

Init ==
  /\ at \in Places /\ depth = 1
  /\ state = "STOPPED" /\ stepDepth = 0 /\ breakpoints = {}
  /\ ended = FALSE

Request(r) ==
  /\ ~ended
  /\ Effect(r)
  /\ UNCHANGED <<at, depth, ended>>

Execute ==
  /\ ~ended /\ state \notin {"STOPPED", "QUIT"}
  /\ at' \in Places /\ depth' \in 0..MaxDepth /\ depth' <= depth + 1
  /\ ended' \in {TRUE, depth' = 0}
  /\ \E s \in {state, "STOPPED"} : state' = IF ended' THEN s ELSE Arrive(s, at', depth')
  /\ UNCHANGED <<stepDepth, breakpoints>>

Quit ==
  /\ ~ended /\ state = "QUIT"
  /\ ended' = TRUE
  /\ UNCHANGED <<at, depth, state, stepDepth, breakpoints>>

Next == (\E r \in Requests : Request(r)) \/ Execute \/ Quit

Spec == Init /\ [][Next]_vars
=============================================================================
