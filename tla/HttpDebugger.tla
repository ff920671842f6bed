---------------------------- MODULE HttpDebugger ----------------------------
(***************************************************************************)
(* The executor's loop under a debugger, and the HTTP server it runs       *)
(* between two instructions (exec.cpp exec_loop, httpserver.cpp).          *)
(*                                                                         *)
(* A client makes one connection for each request and sends it in pieces;  *)
(* the server reads what has arrived each time it is serviced.  A client   *)
(* may give up, and may come again.  The text of requests and answers is   *)
(* left out: all requests are well formed, and one with a path nobody      *)
(* knows is one that changes nothing.  (A malformed one ends the executor: *)
(* no line in it, no number where one belongs, an unknown module.)         *)
(* What a request asks for is chosen when it is read, for it matters to    *)
(* nothing before.                                                         *)
(***************************************************************************)
EXTENDS DebugState, Sequences, SequencesExt

CONSTANTS
  Clients,
  Asked,      \* the requests the clients make
  Pieces      \* bound: how many pieces a request arrives in

ASSUME AskedAreRequests == Asked \subseteq Requests

ASSUME PiecesIsPositive == Pieces \in Nat \ {0}

VARIABLES
  phase,      \* where the executor is in its loop
  connected,  \* HttpServerImpl's clients, in the order they were accepted
  ready,      \* the clients select() reported, and that are not read yet
  backlog,    \* connections that are not accepted yet
  client      \* the other end of each connection

serverVars == <<phase, connected, ready, backlog>>
debugVars == <<at, depth, state, stepDepth, breakpoints, ended>>
vars == <<debugVars, serverVars, client>>

(* A piece of a request is unsent, unread, or was read; the request is      *)
(* complete when none is left.                                             *)
Client == [is: {"idle", "open", "gone", "answered"}, unsent: 0..Pieces, unread: 0..Pieces]

Idle == [is |-> "idle", unsent |-> 0, unread |-> 0]

Init ==
  /\ at \in Places /\ depth = 1
  /\ state = "STOPPED" /\ stepDepth = 0 /\ breakpoints = {}
  /\ ended = FALSE
  /\ phase = "check"
  /\ connected = <<>> /\ ready = {} /\ backlog = <<>>
  /\ client = [c \in Clients |-> Idle]

-----------------------------------------------------------------------------
(* The clients.                                                            *)
Connect(c) ==
  /\ ~ended /\ client[c].is \in {"idle", "answered"}
  /\ \E n \in 1..Pieces : client' = [client EXCEPT ![c] = [is |-> "open", unsent |-> n, unread |-> 0]]
  /\ backlog' = Append(backlog, c)
  /\ UNCHANGED <<debugVars, phase, connected, ready>>

Send(c) ==
  /\ client[c].is = "open" /\ client[c].unsent > 0
  /\ client' = [client EXCEPT ![c].unsent = @ - 1, ![c].unread = @ + 1]
  /\ UNCHANGED <<debugVars, serverVars>>

GiveUp(c) ==
  /\ client[c].is = "open"
  /\ client' = [client EXCEPT ![c].is = "gone"]
  /\ UNCHANGED <<debugVars, serverVars>>

-----------------------------------------------------------------------------
(* The loop: before an instruction the debugger's state is brought up to   *)
(* date, then requests are served, once or until the program may go on.    *)
Check ==
  /\ phase = "check" /\ ~ended
  /\ state' = Arrive(state, at, depth)
  /\ phase' = "poll"
  /\ UNCHANGED <<at, depth, stepDepth, breakpoints, ended, connected, ready, backlog, client>>

Readable == {c \in Range(connected) : client[c].unread > 0 \/ client[c].is = "gone"}

(* service(): select() reports the readable clients, and one connection is *)
(* accepted.                                                               *)
Select ==
  /\ ready' = Readable
  /\ connected' = IF backlog = <<>> THEN connected ELSE Append(connected, Head(backlog))
  /\ backlog' = IF backlog = <<>> THEN backlog ELSE Tail(backlog)
  /\ phase' = "read"
  /\ UNCHANGED <<debugVars, client>>

Poll == phase = "poll" /\ Select

(* Mutant: it is not waited for new connections.                           *)
Wait_clients == phase = "wait" /\ Readable # {} /\ Select

Wait == phase = "wait" /\ (Readable # {} \/ backlog # <<>>) /\ Select

(* The next of the clients that are ready, in the order of the list.       *)
First(c) == /\ c \in ready
            /\ \E k \in DOMAIN connected : connected[k] = c /\ \A j \in 1..(k - 1) : connected[j] \notin ready

(* Mutant: a client that is gone is not forgotten.                         *)
Close_never(c) == UNCHANGED connected

Close(c) == connected' = RemoveAt(connected, CHOOSE k \in DOMAIN connected : connected[k] = c)

(* recv() reads some of what is there.  With the last of it the request    *)
(* takes effect, it is answered, and the connection closed.                *)
Read(c) ==
  /\ phase = "read" /\ First(c)
  /\ ready' = ready \ {c}
  /\ \E n \in 1..client[c].unread :
       IF client[c].unsent = 0 /\ n = client[c].unread
         THEN /\ \E r \in Asked : Effect(r)
              /\ client' = [client EXCEPT ![c] = [Idle EXCEPT !.is = IF client[c].is = "open" THEN "answered" ELSE "idle"]]
              /\ Close(c)
         ELSE /\ client' = [client EXCEPT ![c].unread = @ - n]
              /\ UNCHANGED <<state, stepDepth, breakpoints, connected>>
  /\ UNCHANGED <<at, depth, ended, phase, backlog>>

ReadEnd(c) ==
  /\ phase = "read" /\ First(c) /\ client[c].unread = 0
  /\ ready' = ready \ {c}
  /\ client' = [client EXCEPT ![c] = Idle]
  /\ Close(c)
  /\ UNCHANGED <<debugVars, phase, backlog>>

(* Mutant: a stopped program is served once before each instruction.       *)
Served_once ==
  /\ phase = "read" /\ ready = {}
  /\ phase' = IF state = "QUIT" THEN "quit" ELSE "execute"
  /\ UNCHANGED <<debugVars, connected, ready, backlog, client>>

(* The end of service(): a stopped program is waited for, one to quit      *)
(* ends, any other goes on.                                                *)
Served ==
  /\ phase = "read" /\ ready = {}
  /\ phase' = CASE state = "STOPPED" -> "wait" [] state = "QUIT" -> "quit" [] OTHER -> "execute"
  /\ UNCHANGED <<debugVars, connected, ready, backlog, client>>

Quit ==
  /\ phase = "quit" /\ ~ended
  /\ ended' = TRUE
  /\ UNCHANGED <<at, depth, state, stepDepth, breakpoints, serverVars, client>>

(* An instruction may call, return, raise an exception, call               *)
(* debugger.breakpoint(), or end the program.                              *)
Execute ==
  /\ phase = "execute" /\ ~ended
  /\ at' \in Places /\ depth' \in 0..MaxDepth /\ depth' <= depth + 1
  /\ ended' \in {TRUE, depth' = 0}
  /\ state' \in {state, "STOPPED"}
  /\ phase' = "check"
  /\ UNCHANGED <<stepDepth, breakpoints, connected, ready, backlog, client>>

Serve == Poll \/ Wait \/ (\E c \in Clients : Read(c) \/ ReadEnd(c)) \/ Served

Loop == Check \/ Serve \/ Quit \/ Execute

Next == Loop \/ \E c \in Clients : Connect(c) \/ Send(c) \/ GiveUp(c)

(* The executor does not pause, except to wait for a client.               *)
Spec == Init /\ [][Next]_vars /\ WF_vars(Loop)

-----------------------------------------------------------------------------
TypeOK ==
  /\ at \in Places /\ depth \in 0..MaxDepth
  /\ state \in States /\ stepDepth \in 0..(MaxDepth + 1) /\ breakpoints \subseteq Addresses
  /\ ended \in BOOLEAN
  /\ phase \in {"check", "poll", "read", "wait", "quit", "execute"}
  /\ connected \in Seq(Clients) /\ ready \subseteq Clients /\ backlog \in Seq(Clients)
  /\ client \in [Clients -> Client]

(* The state a client may count on: what it will be when the program has   *)
(* arrived at the next instruction.                                        *)
Shown == IF phase = "check" /\ ~ended THEN Arrive(state, at, depth) ELSE state

Promised == INSTANCE Debugging WITH state <- Shown

(* The loop and the server do what Debugging promises: requests take       *)
(* effect one at a time, and no instruction is executed that they do not   *)
(* allow.                                                                  *)
KeepsPromise == Promised!Spec

(* Each connection is in one place; the server holds on to those of which  *)
(* something is to come, and drops the others.                             *)
ConnectionsMatch ==
  /\ TypeOK
  /\ IsInjective(connected \o backlog)
  /\ ready \subseteq Range(connected)
  /\ Range(connected \o backlog) = {c \in Clients : client[c].is \in {"open", "gone"}}

(* A well-formed request that was sent as a whole is answered, however     *)
(* many clients there are, unless the client goes or the program ends      *)
(* first.                                                                  *)
RequestsAnswered ==
  \A c \in Clients :
    client[c].is = "open" /\ client[c].unsent = 0 ~> client[c].is \in {"answered", "gone"} \/ ended

-----------------------------------------------------------------------------
\* An instance: a program of two instructions, and a library with an instruction at the
\* address of one of them.
Code == {<<"main", 0>>, <<"main", 1>>, <<"lib", 1>>}
SourceLines == {<<"main", 1>>}

Some ==
  {[path |-> "break", ip |-> 1, set |-> b] : b \in BOOLEAN}
  \cup {[path |-> p] : p \in {"continue", "quit", "step/instruction", "stop", "get"}}
  \cup {[path |-> "step/source", levels |-> n] : n \in {-2, 0}}
=============================================================================
