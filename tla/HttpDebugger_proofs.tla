------------------------- MODULE HttpDebugger_proofs -------------------------
(***************************************************************************)
(* Proofs about HttpDebugger: every connection is in exactly one place,    *)
(* and the loop with its server does what Debugging promises, for any      *)
(* number of clients, places and requests.                                 *)
(***************************************************************************)
EXTENDS HttpDebugger, SequenceTheorems, TLAPS

-----------------------------------------------------------------------------
(* What one step may rely on of the steps before: a request never has more *)
(* pieces than it was made of, a program that has ended stays where Quit   *)
(* or Execute left it, and what the loop decided to do when it was served  *)
(* is still what the debugger's state asks for.                            *)
IInv ==
  /\ ConnectionsMatch
  /\ \A c \in Clients : client[c].unsent + client[c].unread <= Pieces
  /\ ended => phase \in {"check", "quit"}
  /\ phase = "execute" => state \notin {"STOPPED", "QUIT"}
  /\ phase = "quit" => state = "QUIT"

-----------------------------------------------------------------------------
(* Lists of connections.                                                   *)

(* The elements of two lists in a row.                                     *)
LEMMA ConcatElements ==
  ASSUME NEW S, NEW s \in Seq(S), NEW t \in Seq(S)
  PROVE  /\ DOMAIN (s \o t) = 1..(Len(s) + Len(t))
         /\ \A k \in 1..(Len(s) + Len(t)) : (s \o t)[k] = IF k <= Len(s) THEN s[k] ELSE t[k - Len(s)]
         /\ Range(s \o t) = Range(s) \cup Range(t)
<1>1. /\ DOMAIN (s \o t) = 1..(Len(s) + Len(t))
      /\ \A k \in 1..(Len(s) + Len(t)) : (s \o t)[k] = IF k <= Len(s) THEN s[k] ELSE t[k - Len(s)]
  OBVIOUS
<1>2. \A k \in DOMAIN s : k \in DOMAIN (s \o t) /\ (s \o t)[k] = s[k]
  OBVIOUS
<1>3. \A k \in DOMAIN t : k + Len(s) \in DOMAIN (s \o t) /\ (s \o t)[k + Len(s)] = t[k]
  OBVIOUS
<1>4. \A k \in DOMAIN (s \o t) : (k \in DOMAIN s /\ (s \o t)[k] = s[k]) \/ (k - Len(s) \in DOMAIN t /\ (s \o t)[k] = t[k - Len(s)])
  OBVIOUS
<1>5. Range(s \o t) \subseteq Range(s) \cup Range(t)
  BY <1>4 DEF Range
<1>6. Range(s) \subseteq Range(s \o t) /\ Range(t) \subseteq Range(s \o t)
  BY <1>2, <1>3 DEF Range
<1> QED
  BY <1>1, <1>5, <1>6

(* A connection that is new comes at the end of the list.                  *)
LEMMA AppendedOnce ==
  ASSUME NEW S, NEW s \in Seq(S), NEW c \in S, IsInjective(s), c \notin Range(s)
  PROVE  IsInjective(Append(s, c)) /\ Range(Append(s, c)) = Range(s) \cup {c}
<1>1. /\ DOMAIN Append(s, c) = 1..(Len(s) + 1)
      /\ \A k \in 1..Len(s) : Append(s, c)[k] = s[k] /\ s[k] # c
      /\ Append(s, c)[Len(s) + 1] = c
  BY DEF Range
<1>2. IsInjective(Append(s, c))
  BY <1>1 DEF IsInjective
<1>3. Range(Append(s, c)) \subseteq Range(s) \cup {c}
  BY <1>1 DEF Range
<1>4. \A k \in DOMAIN s : k \in DOMAIN Append(s, c) /\ Append(s, c)[k] = s[k]
  BY <1>1
<1>5. Range(s) \cup {c} \subseteq Range(Append(s, c))
  BY <1>1, <1>4 DEF Range
<1> QED
  BY <1>2, <1>3, <1>5

(* erase() takes exactly one connection off the list.                      *)
LEMMA Erased ==
  ASSUME NEW S, NEW s \in Seq(S), NEW t \in Seq(S), NEW i \in DOMAIN s, IsInjective(s \o t)
  PROVE  /\ RemoveAt(s, i) \in Seq(S)
         /\ Range(RemoveAt(s, i)) = Range(s) \ {s[i]}
         /\ Range(RemoveAt(s, i) \o t) = Range(s \o t) \ {s[i]}
         /\ IsInjective(RemoveAt(s, i) \o t)
<1> DEFINE r == RemoveAt(s, i)
           from(k) == IF k < i THEN k ELSE k + 1
<1>1. r \in Seq(S) /\ Len(r) = Len(s) - 1 /\ \A k \in 1..Len(r) : r[k] = s[from(k)]
  <2> DEFINE before == SubSeq(s, 1, i - 1)
             behind == SubSeq(s, i + 1, Len(s))
  <2>1. before \in Seq(S) /\ Len(before) = i - 1 /\ \A k \in 1..(i - 1) : before[k] = s[k]
    OBVIOUS
  <2>2. behind \in Seq(S) /\ Len(behind) = Len(s) - i /\ \A k \in 1..(Len(s) - i) : behind[k] = s[i + k]
    OBVIOUS
  <2>3. r = before \o behind
    BY DEF RemoveAt
  <2> HIDE DEF before, behind, r
  <2>4. r \in Seq(S) /\ Len(r) = Len(s) - 1
    BY <2>1, <2>2, <2>3
  <2>5. ASSUME NEW k \in 1..Len(r)
        PROVE  r[k] = s[from(k)]
    <3>1. CASE k < i
      BY <2>1, <2>2, <2>3, <2>4, <3>1
    <3>2. CASE k >= i
      <4> DEFINE j == k - (i - 1)
      <4>1. r[k] = behind[j]
        <5>1. /\ Len(before) = i - 1 /\ k \in 1..(Len(before) + Len(behind)) /\ ~(k <= Len(before))
              /\ k - Len(before) = j
          BY <2>1, <2>2, <2>4, <3>2
        <5>2. (before \o behind)[k] = IF k <= Len(before) THEN before[k] ELSE behind[k - Len(before)]
          BY <2>1, <2>2, <5>1, ConcatElements
        <5> HIDE DEF j
        <5> QED
          BY <2>3, <5>1, <5>2
      <4>2. j \in 1..(Len(s) - i) /\ i + j = k + 1
        BY <2>4, <3>2
      <4>3. from(k) = k + 1
        BY <2>4, <3>2
      <4> HIDE DEF j, from
      <4> QED
        BY <2>2, <4>1, <4>2, <4>3
    <3> QED
      BY <3>1, <3>2
  <2> QED
    BY <2>4, <2>5
<1> HIDE DEF r
<1>2. /\ DOMAIN (r \o t) = 1..(Len(s) - 1 + Len(t))
      /\ \A k \in 1..(Len(s) - 1 + Len(t)) : from(k) \in 1..(Len(s) + Len(t)) /\ (r \o t)[k] = (s \o t)[from(k)]
  <2>1. DOMAIN (r \o t) = 1..(Len(s) - 1 + Len(t))
    BY <1>1, ConcatElements
  <2>2. ASSUME NEW k \in 1..(Len(s) - 1 + Len(t))
        PROVE  from(k) \in 1..(Len(s) + Len(t)) /\ (r \o t)[k] = (s \o t)[from(k)]
    <3>1. CASE k <= Len(r)
      <4>1. (r \o t)[k] = s[from(k)] /\ from(k) \in 1..Len(s)
        BY <1>1, <3>1
      <4> HIDE DEF from
      <4> QED
        BY <4>1
    <3>2. CASE k > Len(r)
      <4>1. from(k) = k + 1 /\ (r \o t)[k] = t[k - Len(r)]
        BY <1>1, <3>2
      <4> HIDE DEF from
      <4> QED
        BY <1>1, <3>2, <4>1
    <3> QED
      BY <1>1, <3>1, <3>2
  <2> QED
    BY <2>1, <2>2
<1>3. DOMAIN (s \o t) = 1..(Len(s) + Len(t)) /\ (s \o t)[i] = s[i]
  OBVIOUS
<1>4. \A k \in 1..(Len(s) - 1 + Len(t)) : from(k) # i
  OBVIOUS
<1>5. \A a, b \in 1..(Len(s) - 1 + Len(t)) : from(a) = from(b) => a = b
  OBVIOUS
<1>6. ASSUME NEW j \in 1..(Len(s) + Len(t)), j # i
      PROVE  \E k \in 1..(Len(s) - 1 + Len(t)) : from(k) = j
  <2>1. CASE j < i
    BY <2>1
  <2>2. CASE j > i
    <3>1. j - 1 \in 1..(Len(s) - 1 + Len(t)) /\ from(j - 1) = j
      BY <2>2
    <3> QED
      BY <3>1
  <2> QED
    BY <1>6, <2>1, <2>2
<1>7. ASSUME NEW j \in 1..Len(s), j # i
      PROVE  \E k \in 1..Len(r) : from(k) = j
  <2>1. PICK k \in 1..(Len(s) - 1 + Len(t)) : from(k) = j
    BY <1>6, <1>7
  <2>2. k \in 1..Len(r)
    BY <1>1, <2>1
  <2> QED
    BY <2>1, <2>2
<1>8. \A k \in 1..Len(r) : from(k) \in 1..Len(s)
  BY <1>1
<1>9. \A j \in 1..(Len(s) + Len(t)) : (s \o t)[j] = s[i] => j = i
  BY <1>3 DEF IsInjective
<1> HIDE DEF from
<1>10. IsInjective(r \o t)
  <2> SUFFICES ASSUME NEW a \in 1..(Len(s) - 1 + Len(t)), NEW b \in 1..(Len(s) - 1 + Len(t)),
                      (r \o t)[a] = (r \o t)[b]
               PROVE  a = b
    BY <1>2 DEF IsInjective
  <2>1. /\ from(a) \in DOMAIN (s \o t) /\ from(b) \in DOMAIN (s \o t)
        /\ (s \o t)[from(a)] = (s \o t)[from(b)]
    BY <1>2, <1>3
  <2>2. from(a) = from(b)
    BY <2>1 DEF IsInjective
  <2> QED
    BY <1>5, <2>2
<1>11. Range(r \o t) \subseteq Range(s \o t) \ {s[i]}
  BY <1>2, <1>3, <1>4, <1>9 DEF Range
<1>12. Range(s \o t) \ {s[i]} \subseteq Range(r \o t)
  <2> SUFFICES ASSUME NEW j \in 1..(Len(s) + Len(t)), (s \o t)[j] # s[i]
               PROVE  (s \o t)[j] \in Range(r \o t)
    BY <1>3 DEF Range
  <2>1. PICK k \in 1..(Len(s) - 1 + Len(t)) : from(k) = j
    BY <1>3, <1>6
  <2> QED
    BY <2>1, <1>2 DEF Range
<1>13. \A j \in 1..Len(s) : s[j] = s[i] => j = i
  BY <1>9
<1>14. Range(r) \subseteq Range(s) \ {s[i]}
  BY <1>1, <1>2, <1>4, <1>8, <1>13 DEF Range
<1>15. Range(s) \ {s[i]} \subseteq Range(r)
  <2> SUFFICES ASSUME NEW j \in 1..Len(s), s[j] # s[i]
               PROVE  s[j] \in Range(r)
    BY DEF Range
  <2>1. PICK k \in 1..Len(r) : from(k) = j
    BY <1>7
  <2>2. k \in DOMAIN r /\ r[k] = s[j]
    BY <1>1, <2>1
  <2> QED
    BY <2>2 DEF Range
<1> QED
  BY <1>1, <1>10, <1>11, <1>12, <1>14, <1>15 DEF r

-----------------------------------------------------------------------------
(* Type correctness, the pieces of each request included.                  *)
LEMMA PlacesTyped == Addresses \subseteq Nat
  BY PlacesHaveAddresses DEF Addresses

LEMMA ArriveTyped ==
  ASSUME NEW s \in States, NEW p, NEW d
  PROVE  Arrive(s, p, d) \in States
  BY DEF Arrive, States

LEMMA EffectTyped ==
  ASSUME NEW r \in Requests, Effect(r), depth \in 0..MaxDepth, state \in States,
         stepDepth \in 0..(MaxDepth + 1), breakpoints \subseteq Addresses
  PROVE  state' \in States /\ stepDepth' \in 0..(MaxDepth + 1) /\ breakpoints' \subseteq Addresses
<1>1. state' \in States
  BY DEF Effect, States
<1>2. CASE r.path = "step/source"
  <2>1. r.levels \in -2..1
    BY <1>2 DEF Requests
  <2>2. StepDepth(r.levels) \in 0..(MaxDepth + 1)
    BY <2>1, MaxDepthIsPositive DEF StepDepth
  <2> QED
    BY <1>1, <1>2, <2>2 DEF Effect
<1>3. CASE r.path = "break"
  <2>1. r.ip \in Addresses
    BY <1>3 DEF Requests
  <2> QED
    BY <1>1, <1>3, <2>1 DEF Effect
<1>4. CASE r.path \notin {"step/source", "break"}
  BY <1>1, <1>4 DEF Effect
<1> QED
  BY <1>2, <1>3, <1>4

LEMMA InitIInv == Init => IInv
<1> SUFFICES ASSUME Init PROVE IInv
  OBVIOUS
<1>1. TypeOK
  <2>1. Idle \in Client
    BY PiecesIsPositive DEF Idle, Client
  <2>2. client \in [Clients -> Client]
    BY <2>1 DEF Init
  <2>3. at \in Places /\ depth \in 0..MaxDepth /\ stepDepth \in 0..(MaxDepth + 1)
    BY MaxDepthIsPositive DEF Init
  <2>4. connected \in Seq(Clients) /\ backlog \in Seq(Clients) /\ ready \subseteq Clients
    BY DEF Init
  <2>5. state \in States /\ ended \in BOOLEAN /\ phase \in {"check", "poll", "read", "wait", "quit", "execute"}
    BY DEF Init, States
  <2> QED
    BY <2>2, <2>3, <2>4, <2>5 DEF Init, TypeOK
<1>2. connected \o backlog = << >>
  BY DEF Init
<1>3. IsInjective(connected \o backlog) /\ Range(connected \o backlog) = {}
  BY <1>2 DEF IsInjective, Range
<1>4. ConnectionsMatch
  BY <1>1, <1>3 DEF Init, ConnectionsMatch, Idle
<1> QED
  BY <1>4, PiecesIsPositive DEF IInv, Init, Idle

-----------------------------------------------------------------------------
(* The clients' steps.                                                     *)
LEMMA ConnectIInv ==
  ASSUME IInv, NEW c \in Clients, Connect(c)
  PROVE  IInv'
<1>1. TypeOK /\ client[c].is \in {"idle", "answered"}
  BY DEF IInv, ConnectionsMatch, Connect
<1>2. PICK n \in 1..Pieces : client' = [client EXCEPT ![c] = [is |-> "open", unsent |-> n, unread |-> 0]]
  BY DEF Connect
<1>3. backlog' = Append(backlog, c) /\ UNCHANGED <<debugVars, phase, connected, ready>>
  BY DEF Connect
<1>4. [is |-> "open", unsent |-> n, unread |-> 0] \in Client
  BY PiecesIsPositive DEF Client
<1>5. client' \in [Clients -> Client] /\ backlog' \in Seq(Clients)
  BY <1>1, <1>2, <1>3, <1>4 DEF TypeOK
<1>6. TypeOK'
  BY <1>1, <1>3, <1>5 DEF TypeOK, debugVars
<1> DEFINE all == connected \o backlog
<1>7. all \in Seq(Clients) /\ c \notin Range(all)
  BY <1>1 DEF IInv, ConnectionsMatch, TypeOK
<1>8. connected' \o backlog' = Append(all, c)
  BY <1>1, <1>3 DEF TypeOK
<1>9. IsInjective(all)
  BY DEF IInv, ConnectionsMatch
<1> HIDE DEF all
<1>10. IsInjective(Append(all, c)) /\ Range(Append(all, c)) = Range(all) \cup {c}
  BY <1>7, <1>9, AppendedOnce
<1>11. {d \in Clients : client'[d].is \in {"open", "gone"}} = {d \in Clients : client[d].is \in {"open", "gone"}} \cup {c}
  BY <1>1, <1>2 DEF TypeOK
<1>12. ConnectionsMatch'
  BY <1>3, <1>6, <1>8, <1>10, <1>11 DEF IInv, ConnectionsMatch, all
<1>13. \A d \in Clients : client'[d].unsent + client'[d].unread <= Pieces
  BY <1>1, <1>2 DEF IInv, TypeOK
<1> QED
  BY <1>3, <1>12, <1>13 DEF IInv, debugVars

LEMMA SendIInv ==
  ASSUME IInv, NEW c \in Clients, Send(c)
  PROVE  IInv'
<1>1. TypeOK /\ client[c] \in Client /\ client[c].unsent + client[c].unread <= Pieces
  BY DEF IInv, ConnectionsMatch, TypeOK
<1>2. client' = [client EXCEPT ![c].unsent = @ - 1, ![c].unread = @ + 1] /\ client[c].unsent > 0
  BY DEF Send
<1>3. UNCHANGED <<debugVars, serverVars>>
  BY DEF Send
<1>4. client'[c] \in Client /\ client'[c].is = client[c].is
      /\ client'[c].unsent + client'[c].unread <= Pieces
  BY <1>1, <1>2, PiecesIsPositive DEF Client, TypeOK
<1>5. client' \in [Clients -> Client] /\ \A d \in Clients : client'[d].is = client[d].is
  BY <1>1, <1>2, <1>4 DEF TypeOK
<1>6. \A d \in Clients : client'[d].unsent + client'[d].unread <= Pieces
  BY <1>1, <1>2, <1>4 DEF IInv, TypeOK
<1>7. ConnectionsMatch'
  BY <1>3, <1>5 DEF IInv, ConnectionsMatch, TypeOK, debugVars, serverVars
<1> QED
  BY <1>3, <1>6, <1>7 DEF IInv, debugVars, serverVars

LEMMA GiveUpIInv ==
  ASSUME IInv, NEW c \in Clients, GiveUp(c)
  PROVE  IInv'
<1>1. TypeOK /\ client[c] \in Client
  BY DEF IInv, ConnectionsMatch, TypeOK
<1>2. client' = [client EXCEPT ![c].is = "gone"] /\ client[c].is = "open" /\ UNCHANGED <<debugVars, serverVars>>
  BY DEF GiveUp
<1>3. client'[c] \in Client /\ client'[c].is = "gone" /\ client'[c].unsent = client[c].unsent /\ client'[c].unread = client[c].unread
  BY <1>1, <1>2 DEF Client, TypeOK
<1>4. client' \in [Clients -> Client] /\ \A d \in Clients : client'[d].is \in {"open", "gone"} <=> client[d].is \in {"open", "gone"}
  BY <1>1, <1>2, <1>3 DEF TypeOK
<1>5. ConnectionsMatch'
  BY <1>2, <1>4 DEF IInv, ConnectionsMatch, TypeOK, debugVars, serverVars
<1>6. \A d \in Clients : client'[d].unsent + client'[d].unread <= Pieces
  BY <1>1, <1>2, <1>3 DEF IInv, TypeOK
<1> QED
  BY <1>2, <1>5, <1>6 DEF IInv, debugVars, serverVars

-----------------------------------------------------------------------------
(* The loop's steps.                                                       *)
LEMMA CheckIInv ==
  ASSUME IInv, Check
  PROVE  IInv'
<1>1. TypeOK /\ state' = Arrive(state, at, depth) /\ phase' = "poll" /\ ~ended
      /\ UNCHANGED <<at, depth, stepDepth, breakpoints, ended, connected, ready, backlog, client>>
  BY DEF IInv, ConnectionsMatch, Check
<1>2. state' \in States
  BY <1>1, ArriveTyped DEF TypeOK
<1>3. TypeOK'
  BY <1>1, <1>2 DEF TypeOK
<1> QED
  BY <1>1, <1>3 DEF IInv, ConnectionsMatch

LEMMA SelectIInv ==
  ASSUME IInv, Select, phase \in {"poll", "wait"}
  PROVE  IInv'
<1>1. TypeOK /\ phase' = "read" /\ ~ended /\ ready' = Readable /\ UNCHANGED <<debugVars, client>>
  BY DEF IInv, ConnectionsMatch, Select
<1>2. connected' \in Seq(Clients) /\ backlog' \in Seq(Clients) /\ connected' \o backlog' = connected \o backlog
      /\ Range(connected) \subseteq Range(connected')
  <2>1. CASE backlog = << >>
    BY <1>1, <2>1 DEF Select, TypeOK
  <2>2. CASE backlog # << >>
    <3>1. /\ connected' = Append(connected, Head(backlog)) /\ backlog' = Tail(backlog)
          /\ connected \in Seq(Clients) /\ backlog \in Seq(Clients) /\ Head(backlog) \in Clients
      BY <1>1, <2>2 DEF Select, TypeOK
    <3>2. connected' \in Seq(Clients) /\ backlog' \in Seq(Clients)
          /\ connected' = connected \o <<Head(backlog)>> /\ backlog = <<Head(backlog)>> \o backlog'
      BY <2>2, <3>1
    <3>3. connected' \o backlog' = connected \o backlog
      <4> DEFINE h == <<Head(backlog)>>
      <4>1. h \in Seq(Clients) /\ connected \in Seq(Clients) /\ backlog' \in Seq(Clients)
        BY <3>1, <3>2
      <4>2. connected' = connected \o h /\ backlog = h \o backlog'
        BY <3>2
      <4> HIDE DEF h
      <4> QED
        BY <4>1, <4>2, ConcatAssociative
    <3>4. Range(connected') = Range(connected) \cup Range(<<Head(backlog)>>)
      <4> DEFINE h == <<Head(backlog)>>
      <4>1. h \in Seq(Clients) /\ connected \in Seq(Clients) /\ connected' = connected \o h
        BY <3>1, <3>2
      <4> HIDE DEF h
      <4>2. Range(connected \o h) = Range(connected) \cup Range(h)
        BY <4>1, ConcatElements
      <4> QED
        BY <4>1, <4>2 DEF h
    <3> QED
      BY <3>2, <3>3, <3>4
  <2> QED
    BY <2>1, <2>2
<1>3. Readable \subseteq Range(connected) /\ Readable \subseteq Clients
  BY <1>1 DEF Readable, TypeOK, Range
<1>4. TypeOK'
  BY <1>1, <1>2, <1>3 DEF TypeOK, debugVars
<1>5. ConnectionsMatch'
  BY <1>1, <1>2, <1>3, <1>4 DEF IInv, ConnectionsMatch, debugVars
<1> QED
  BY <1>1, <1>5 DEF IInv, debugVars

(* A request that was read as a whole, or a client that is gone: the       *)
(* server forgets the connection.                                          *)
LEMMA CloseMatches ==
  ASSUME ConnectionsMatch, NEW c \in Clients, First(c), Close(c), NEW is \in {"idle", "answered"},
         ready' = ready \ {c}, client' = [client EXCEPT ![c] = [Idle EXCEPT !.is = is]], UNCHANGED backlog
  PROVE  /\ connected' \in Seq(Clients) /\ ready' \subseteq Clients
         /\ client' \in [Clients -> Client]
         /\ IsInjective(connected' \o backlog')
         /\ ready' \subseteq Range(connected')
         /\ Range(connected' \o backlog') = {d \in Clients : client'[d].is \in {"open", "gone"}}
<1>1. TypeOK /\ IsInjective(connected \o backlog) /\ ready \subseteq Range(connected)
  BY DEF ConnectionsMatch
<1>2. connected \in Seq(Clients) /\ backlog \in Seq(Clients)
  BY <1>1 DEF TypeOK
<1> DEFINE i == CHOOSE k \in DOMAIN connected : connected[k] = c
<1>3. i \in DOMAIN connected /\ connected[i] = c /\ connected' = RemoveAt(connected, i)
  BY DEF First, Close
<1> HIDE DEF i
<1>4. /\ connected' \in Seq(Clients) /\ Range(connected') = Range(connected) \ {c}
      /\ Range(connected' \o backlog') = Range(connected \o backlog) \ {c}
      /\ IsInjective(connected' \o backlog')
  BY <1>1, <1>2, <1>3, Erased
<1>5. [Idle EXCEPT !.is = is] \in Client /\ [Idle EXCEPT !.is = is].is = is
  BY PiecesIsPositive DEF Idle, Client
<1>6. client' \in [Clients -> Client]
      /\ {d \in Clients : client'[d].is \in {"open", "gone"}} = {d \in Clients : client[d].is \in {"open", "gone"}} \ {c}
  BY <1>1, <1>5 DEF TypeOK
<1> QED
  BY <1>1, <1>4, <1>6 DEF ConnectionsMatch, TypeOK

LEMMA ReadIInv ==
  ASSUME IInv, NEW c \in Clients, Read(c)
  PROVE  IInv'
<1>1. /\ TypeOK /\ ConnectionsMatch /\ phase = "read" /\ First(c) /\ ~ended
      /\ ready' = ready \ {c} /\ UNCHANGED <<at, depth, ended, phase, backlog>>
  BY DEF IInv, ConnectionsMatch, Read
<1>2. client[c] \in Client
  BY <1>1 DEF TypeOK
<1>3. PICK n \in 1..client[c].unread :
        IF client[c].unsent = 0 /\ n = client[c].unread
          THEN /\ \E r \in Asked : Effect(r)
               /\ client' = [client EXCEPT ![c] = [Idle EXCEPT !.is = IF client[c].is = "open" THEN "answered" ELSE "idle"]]
               /\ Close(c)
          ELSE /\ client' = [client EXCEPT ![c].unread = @ - n]
               /\ UNCHANGED <<state, stepDepth, breakpoints, connected>>
  BY DEF Read
<1>4. CASE client[c].unsent = 0 /\ n = client[c].unread
  <2>1. PICK r \in Asked : Effect(r)
    BY <1>3, <1>4
  <2>2. state' \in States /\ stepDepth' \in 0..(MaxDepth + 1) /\ breakpoints' \subseteq Addresses
    BY <1>1, <2>1, EffectTyped, AskedAreRequests DEF TypeOK
  <2> DEFINE is == IF client[c].is = "open" THEN "answered" ELSE "idle"
  <2>3. client' = [client EXCEPT ![c] = [Idle EXCEPT !.is = is]] /\ Close(c) /\ is \in {"idle", "answered"}
    BY <1>3, <1>4
  <2> HIDE DEF is
  <2>4. /\ connected' \in Seq(Clients) /\ ready' \subseteq Clients
        /\ client' \in [Clients -> Client]
        /\ IsInjective(connected' \o backlog')
        /\ ready' \subseteq Range(connected')
        /\ Range(connected' \o backlog') = {d \in Clients : client'[d].is \in {"open", "gone"}}
    BY <1>1, <2>3, CloseMatches
  <2>5. ConnectionsMatch'
    BY <1>1, <2>2, <2>4 DEF ConnectionsMatch, TypeOK
  <2>6. \A d \in Clients : client'[d].unsent + client'[d].unread <= Pieces
    BY <1>1, <2>3, PiecesIsPositive DEF IInv, TypeOK, Idle
  <2> QED
    BY <1>1, <2>5, <2>6 DEF IInv
<1>5. CASE ~(client[c].unsent = 0 /\ n = client[c].unread)
  <2>1. client' = [client EXCEPT ![c].unread = @ - n] /\ UNCHANGED <<state, stepDepth, breakpoints, connected>>
    BY <1>3, <1>5
  <2>2. client'[c] \in Client /\ client'[c].is = client[c].is /\ client'[c].unsent = client[c].unsent
        /\ client'[c].unread <= client[c].unread
    <3>1. client'[c] = [client[c] EXCEPT !.unread = @ - n]
      BY <1>1, <2>1 DEF TypeOK
    <3>2. client[c].unread - n \in 0..Pieces /\ client[c].unread - n <= client[c].unread
      BY <1>2, PiecesIsPositive DEF Client
    <3> QED
      BY <1>2, <3>1, <3>2 DEF Client
  <2>3. client' \in [Clients -> Client] /\ \A d \in Clients : client'[d].is = client[d].is
    BY <1>1, <2>1, <2>2 DEF TypeOK
  <2>4. \A d \in Clients : client'[d].unsent + client'[d].unread <= Pieces
    <3>1. client'[c].unsent + client'[c].unread <= Pieces
      BY <1>2, <2>2, PiecesIsPositive DEF IInv, Client
    <3> QED
      BY <1>1, <2>1, <3>1 DEF IInv, TypeOK
  <2>5. ConnectionsMatch'
    BY <1>1, <2>1, <2>3 DEF ConnectionsMatch, TypeOK
  <2> QED
    BY <1>1, <2>4, <2>5 DEF IInv
<1> QED
  BY <1>4, <1>5

LEMMA ReadEndIInv ==
  ASSUME IInv, NEW c \in Clients, ReadEnd(c)
  PROVE  IInv'
<1>1. /\ TypeOK /\ ConnectionsMatch /\ phase = "read" /\ First(c) /\ Close(c)
      /\ ready' = ready \ {c} /\ client' = [client EXCEPT ![c] = Idle]
      /\ UNCHANGED <<debugVars, phase, backlog>>
  BY DEF IInv, ConnectionsMatch, ReadEnd
<1>2. Idle = [Idle EXCEPT !.is = "idle"]
  BY DEF Idle
<1>3. /\ connected' \in Seq(Clients) /\ ready' \subseteq Clients
      /\ client' \in [Clients -> Client]
      /\ IsInjective(connected' \o backlog')
      /\ ready' \subseteq Range(connected')
      /\ Range(connected' \o backlog') = {d \in Clients : client'[d].is \in {"open", "gone"}}
  BY <1>1, <1>2, CloseMatches
<1>4. ConnectionsMatch'
  BY <1>1, <1>3 DEF ConnectionsMatch, TypeOK, debugVars
<1>5. \A d \in Clients : client'[d].unsent + client'[d].unread <= Pieces
  BY <1>1, PiecesIsPositive DEF IInv, TypeOK, Idle
<1> QED
  BY <1>1, <1>4, <1>5 DEF IInv, debugVars

LEMMA ServedIInv ==
  ASSUME IInv, Served
  PROVE  IInv'
<1>1. TypeOK /\ ConnectionsMatch /\ phase = "read" /\ ~ended /\ UNCHANGED <<debugVars, connected, ready, backlog, client>>
      /\ phase' = CASE state = "STOPPED" -> "wait" [] state = "QUIT" -> "quit" [] OTHER -> "execute"
  BY DEF IInv, ConnectionsMatch, Served
<1>2. ConnectionsMatch'
  BY <1>1 DEF ConnectionsMatch, TypeOK, debugVars
<1> QED
  BY <1>1, <1>2 DEF IInv, debugVars

LEMMA QuitIInv ==
  ASSUME IInv, Quit
  PROVE  IInv'
<1>1. ConnectionsMatch'
  BY DEF IInv, ConnectionsMatch, TypeOK, Quit, serverVars
<1> QED
  BY <1>1 DEF IInv, Quit, serverVars

LEMMA ExecuteIInv ==
  ASSUME IInv, Execute
  PROVE  IInv'
<1>1. state' \in States /\ ended' \in BOOLEAN
  BY DEF IInv, ConnectionsMatch, TypeOK, Execute, States
<1>2. ConnectionsMatch'
  BY <1>1 DEF IInv, ConnectionsMatch, TypeOK, Execute
<1> QED
  BY <1>2 DEF IInv, Execute

LEMMA StepIInv == IInv /\ [Next]_vars => IInv'
<1> SUFFICES ASSUME IInv, [Next]_vars PROVE IInv'
  OBVIOUS
<1>1. ASSUME NEW c \in Clients, Connect(c) PROVE IInv'
  BY <1>1, ConnectIInv
<1>2. ASSUME NEW c \in Clients, Send(c) PROVE IInv'
  BY <1>2, SendIInv
<1>3. ASSUME NEW c \in Clients, GiveUp(c) PROVE IInv'
  BY <1>3, GiveUpIInv
<1>4. CASE Check
  BY <1>4, CheckIInv
<1>5. CASE Poll
  BY <1>5, SelectIInv DEF Poll
<1>6. CASE Wait
  BY <1>6, SelectIInv DEF Wait
<1>7. ASSUME NEW c \in Clients, Read(c) PROVE IInv'
  BY <1>7, ReadIInv
<1>8. ASSUME NEW c \in Clients, ReadEnd(c) PROVE IInv'
  BY <1>8, ReadEndIInv
<1>9. CASE Served
  BY <1>9, ServedIInv
<1>10. CASE Quit
  BY <1>10, QuitIInv
<1>11. CASE Execute
  BY <1>11, ExecuteIInv
<1>12. CASE UNCHANGED vars
  BY <1>12 DEF vars, debugVars, serverVars, IInv, ConnectionsMatch, TypeOK
<1> QED
  BY <1>1, <1>2, <1>3, <1>4, <1>5, <1>6, <1>7, <1>8, <1>9, <1>10, <1>11, <1>12 DEF Next, Loop, Serve

(* IInv holds throughout, whatever clients connect, give up or come again. *)
THEOREM Invariance == Spec => []IInv
<1> QED
  BY InitIInv, StepIInv, PTL DEF Spec

(* Each connection is in one place: accepted or waiting to be, once; the   *)
(* server holds on to those of which something is to come and has erased   *)
(* all others from its list (httpserver.cpp, service).                     *)
THEOREM ConnectionsCorrect == Spec => []ConnectionsMatch
<1>1. IInv => ConnectionsMatch
  BY DEF IInv
<1> QED
  BY <1>1, Invariance, PTL

-----------------------------------------------------------------------------
(* The refinement: with Shown for the state, each step is one that         *)
(* Debugging allows, or changes nothing of what it speaks about.           *)
LEMMA InitPromised == Init => Promised!Init
<1> SUFFICES ASSUME Init PROVE Promised!Init
  OBVIOUS
<1>1. Shown = "STOPPED"
  BY DEF Init, Shown, Arrive
<1> QED
  BY <1>1 DEF Init, Promised!Init

(* Debugging's own definitions, with Shown for its state.                  *)
LEMMA ReadPromised ==
  ASSUME IInv, NEW c \in Clients, Read(c)
  PROVE  (\E r \in Promised!Requests : Promised!Request(r)) \/ UNCHANGED <<at, depth, Shown, stepDepth, breakpoints, ended>>
<1>1. phase = "read" /\ phase' = "read" /\ ~ended /\ UNCHANGED <<at, depth, ended>>
  BY DEF IInv, Read
<1>2. Shown = state /\ Shown' = state'
  BY <1>1 DEF Shown
<1>3. CASE UNCHANGED <<state, stepDepth, breakpoints>>
  BY <1>1, <1>2, <1>3
<1>4. ASSUME NEW r \in Asked, Effect(r)
      PROVE  \E q \in Promised!Requests : Promised!Request(q)
  <2>1. Promised!Effect(r)
    BY <1>2, <1>4 DEF Effect, StepDepth, Promised!Effect, Promised!StepDepth
  <2>2. r \in Promised!Requests
    BY AskedAreRequests DEF Requests, Addresses, Promised!Requests, Promised!Addresses
  <2> QED
    BY <1>1, <2>1, <2>2 DEF Promised!Request
<1> QED
  BY <1>3, <1>4 DEF Read

LEMMA ExecutePromised ==
  ASSUME IInv, Execute
  PROVE  Promised!Execute
<1>1. /\ phase = "execute" /\ phase' = "check" /\ ~ended /\ state \notin {"STOPPED", "QUIT"}
      /\ at' \in Places /\ depth' \in 0..MaxDepth /\ depth' <= depth + 1
      /\ ended' \in {TRUE, depth' = 0}
      /\ state' \in {state, "STOPPED"}
      /\ UNCHANGED <<stepDepth, breakpoints>>
  BY DEF IInv, Execute
<1>2. Shown = state /\ Shown' = IF ended' THEN state' ELSE Arrive(state, at, depth)'
  BY <1>1 DEF Shown
<1>3. Arrive(state, at, depth)' = Promised!Arrive(state', at', depth')
  BY <1>1 DEF Arrive, Promised!Arrive
<1> QED
  BY <1>1, <1>2, <1>3 DEF Promised!Execute

LEMMA StepPromised == IInv /\ IInv' /\ [Next]_vars => [Promised!Next]_Promised!vars
<1> SUFFICES ASSUME IInv, IInv', [Next]_vars
             PROVE  Promised!Next \/ UNCHANGED <<at, depth, Shown, stepDepth, breakpoints, ended>>
  BY DEF Promised!vars
<1>1. ASSUME UNCHANGED debugVars, phase = "check" <=> phase' = "check"
      PROVE  UNCHANGED <<at, depth, Shown, stepDepth, breakpoints, ended>>
  BY <1>1 DEF debugVars, Shown, Arrive
<1>2. ASSUME NEW c \in Clients, Connect(c) \/ Send(c) \/ GiveUp(c)
      PROVE  UNCHANGED <<at, depth, Shown, stepDepth, breakpoints, ended>>
  BY <1>1, <1>2 DEF Connect, Send, GiveUp, serverVars
<1>3. CASE Check
  BY <1>3 DEF Check, Shown
<1>4. CASE Poll \/ Wait \/ Served
  <2>1. UNCHANGED debugVars /\ phase # "check" /\ phase' # "check"
    BY <1>4 DEF Poll, Wait, Select, Served
  <2> QED
    BY <1>1, <2>1
<1>5. ASSUME NEW c \in Clients, Read(c)
      PROVE  Promised!Next \/ UNCHANGED <<at, depth, Shown, stepDepth, breakpoints, ended>>
  BY <1>5, ReadPromised DEF Promised!Next
<1>6. ASSUME NEW c \in Clients, ReadEnd(c)
      PROVE  UNCHANGED <<at, depth, Shown, stepDepth, breakpoints, ended>>
  BY <1>1, <1>6 DEF ReadEnd
<1>7. CASE Quit
  BY <1>7 DEF Quit, IInv, serverVars, Shown, Promised!Next, Promised!Quit
<1>8. CASE Execute
  BY <1>8, ExecutePromised DEF Promised!Next
<1>9. CASE UNCHANGED vars
  BY <1>1, <1>9 DEF vars, serverVars
<1> QED
  BY <1>2, <1>3, <1>4, <1>5, <1>6, <1>7, <1>8, <1>9 DEF Next, Loop, Serve

(* The executor's loop and its HTTP server do what Debugging promises:     *)
(* requests take effect one at a time, a stopped program executes nothing, *)
(* a breakpoint stops a running one before its instruction, and a step     *)
(* ends where it should.                                                   *)
THEOREM PromiseKept == Spec => KeepsPromise
<1> QED
  BY InitPromised, StepPromised, Invariance, PTL DEF Spec, KeepsPromise, Promised!Spec
=============================================================================
