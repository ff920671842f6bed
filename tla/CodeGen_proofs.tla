---------------------------- MODULE CodeGen_proofs ----------------------------
(***************************************************************************)
(* Proofs about CodeGen: the exception table of every source whose TRY     *)
(* statements are bracketed lists the innermost ranges first.              *)
(***************************************************************************)
EXTENDS CodeGen, SequenceTheorems, TLAPS

-----------------------------------------------------------------------------
(* The inductive invariant.                                                *)

(* The number of calls that have been made.                                *)
Made == Len(source.calls) - Len(todo)

(* The Emitter has the fields that are looked at.                          *)
Shaped ==
  /\ {"code", "exc", "tries"} \subseteq DOMAIN em
  /\ IsSequence(em.code) /\ IsSequence(em.exc)

(* ips[i] was the current address when i calls had been made.              *)
Addressed(ips) ==
  /\ ips \in [0 .. Made -> Nat]
  /\ ips[Made] = current_ip(em)
  /\ \A i, j \in 0 .. Made : i <= j => ips[i] <= ips[j]

(* The address at which the range of a label begins, and ends.             *)
Begun(ips, b) ==
  LET lab == source.calls[b].lab
  IN  /\ lab \in DOMAIN em.tries
      /\ {"start", "end", "depth"} \subseteq DOMAIN em.tries[lab]
      /\ em.tries[lab].start = ips[b]
Ended(ips, e) == em.tries[source.calls[e].lab].end = ips[e]

Tracked(ips) ==
  \A b \in Places(source.calls, "try") :
    b <= Made =>
      /\ Begun(ips, b)
      /\ \A e \in Places(source.calls, "end") :
           b < e /\ e <= Made /\ source.calls[e].lab = source.calls[b].lab => Ended(ips, e)

(* Entry x comes from the bracket of the calls b, e and t.                 *)
FromBracket(ips, x, b, e, t) ==
  /\ b \in Places(source.calls, "try") /\ e \in Places(source.calls, "end")
  /\ t \in Places(source.calls, "trap") /\ Bracket(source.calls, b, e, t) /\ t <= Made
  /\ x.start = ips[b] /\ x.end = ips[e] /\ x.handler = ips[t]

(* origin[j] is the call that made entry j of the table.                   *)
Recorded(ips, origin) ==
  /\ DOMAIN origin = 1 .. Len(em.exc)
  /\ \A j \in 1 .. Len(em.exc) : \E b, e : FromBracket(ips, em.exc[j], b, e, origin[j])
  /\ \A j, k \in 1 .. Len(em.exc) : j < k => origin[j] <= origin[k]

Todo == todo = SubSeq(source.calls, Made + 1, Len(source.calls)) /\ Made \in 0 .. Len(source.calls)

IInv ==
  /\ source \in Sources /\ Todo /\ Shaped
  /\ \E ips : Addressed(ips) /\ Tracked(ips) /\ \E origin : Recorded(ips, origin)

-----------------------------------------------------------------------------
(* Sequences.                                                              *)

LEMMA SequenceIn ==
  ASSUME NEW S, NEW s \in Seq(S), NEW T, \A i \in 1 .. Len(s) : s[i] \in T
  PROVE  s \in Seq(T)
<1>1. /\ Len(s) \in Nat
      /\ s = [i \in 1 .. Len(s) |-> s[i]]
  OBVIOUS
<1>2. [i \in 1 .. Len(s) |-> s[i]] \in Seq(T)
  BY <1>1
<1> QED
  BY <1>1, <1>2

LEMMA SequenceOf ==
  ASSUME NEW S, NEW s \in Seq(S)
  PROVE  IsSequence(s)
<1>1. \A i \in 1 .. Len(s) : s[i] \in Range(s)
  BY DEF Range
<1> QED
  BY <1>1, SequenceIn DEF IsSequence

LEMMA Appending ==
  ASSUME NEW s, IsSequence(s), NEW x
  PROVE  IsSequence(Append(s, x)) /\ Len(Append(s, x)) = Len(s) + 1
<1>1. s \in Seq(Range(s)) /\ Len(s) \in Nat /\ DOMAIN s = 1 .. Len(s)
  BY DEF IsSequence
<1>2. /\ Len(Append(s, x)) = Len(s) + 1 /\ DOMAIN Append(s, x) = 1 .. Len(s) + 1
      /\ Append(s, x) \in Seq(Range(s) \cup {x})
  BY <1>1
<1> QED
  BY <1>2, SequenceOf

(* y is s followed by t.                                                   *)
Joins(y, s, t) ==
  /\ Len(s) \in Nat /\ Len(t) \in Nat
  /\ IsSequence(y) /\ Len(y) = Len(s) + Len(t)
  /\ \A i \in 1 .. Len(s) : y[i] = s[i]
  /\ \A i \in 1 .. Len(t) : y[Len(s) + i] = t[i]

LEMMA Concatenation ==
  ASSUME NEW s, NEW t, IsSequence(s), IsSequence(t)
  PROVE  Joins(s \o t, s, t)
<1>1. /\ s \in Seq(Range(s)) /\ Len(s) \in Nat /\ DOMAIN s = 1 .. Len(s)
      /\ t \in Seq(Range(t)) /\ Len(t) \in Nat /\ DOMAIN t = 1 .. Len(t)
  BY DEF IsSequence
<1>2. /\ Len(s \o t) = Len(s) + Len(t) /\ DOMAIN (s \o t) = 1 .. Len(s) + Len(t)
      /\ \A i \in 1 .. Len(s) + Len(t) : (s \o t)[i] = IF i <= Len(s) THEN s[i] ELSE t[i - Len(s)]
  BY <1>1
<1>3. /\ \A i \in 1 .. Len(s) : s[i] \in Range(s) \cup Range(t)
      /\ \A i \in 1 .. Len(t) : t[i] \in Range(s) \cup Range(t)
  BY <1>1 DEF Range
<1>4. s \in Seq(Range(s) \cup Range(t)) /\ t \in Seq(Range(s) \cup Range(t))
  BY <1>1, <1>3, SequenceIn
<1>5. s \o t \in Seq(Range(s) \cup Range(t))
  BY <1>4, ConcatProperties
<1>6. IsSequence(s \o t)
  BY <1>5, SequenceOf
<1> QED
  BY <1>1, <1>2, <1>6 DEF Joins

-----------------------------------------------------------------------------
(* What the calls do to the code, the table and the ranges.                *)

LEMMA EmitEffect ==
  ASSUME Shaped, NEW i, NEW lab
  PROVE  LET e == emit(em, i, lab)
         IN  /\ DOMAIN e = DOMAIN em /\ IsSequence(e.code) /\ Len(e.code) = Len(em.code) + 1
             /\ e.exc = em.exc /\ e.tries = em.tries
<1> DEFINE e == emit(em, i, lab)
<1>1. DOMAIN e = DOMAIN em
  BY DEF emit
<1>2. e.exc = em.exc /\ e.tries = em.tries
  BY DEF emit, Shaped
<1>3. e.code = Append(em.code, i)
  BY DEF emit, Shaped
<1> QED
  BY <1>1, <1>2, <1>3, Appending DEF Shaped

LEMMA JumpEffect ==
  ASSUME Shaped, NEW c
  PROVE  LET e == emit_jump(em, c)
         IN  /\ DOMAIN e = DOMAIN em /\ IsSequence(e.code) /\ Len(e.code) = Len(em.code) + 1
             /\ e.exc = em.exc /\ e.tries = em.tries
<1>1. PICK e1 : e1 = emit(em, c.i, <<c.lab>>)
  OBVIOUS
<1>2. /\ DOMAIN e1 = DOMAIN em /\ IsSequence(e1.code) /\ Len(e1.code) = Len(em.code) + 1
      /\ e1.exc = em.exc /\ e1.tries = em.tries
  BY <1>1, EmitEffect
<1>3. PICK e2 : /\ e2 \in {e1, [e1 EXCEPT !.internal_error = TRUE],
                            [e1 EXCEPT !.target_depth = Put(@, c.lab, e1.stack_depth)]}
                /\ emit_jump(em, c) \in {e2, [e2 EXCEPT !.stack_depth = -1]}
  BY <1>1 DEF emit_jump
<1>4. DOMAIN e2 = DOMAIN e1 /\ e2.code = e1.code /\ e2.exc = e1.exc /\ e2.tries = e1.tries
  BY <1>2, <1>3 DEF Shaped
<1>5. PICK e : e = emit_jump(em, c)
  OBVIOUS
<1>6. DOMAIN e = DOMAIN e2 /\ e.code = e2.code /\ e.exc = e2.exc /\ e.tries = e2.tries
  BY <1>2, <1>3, <1>4, <1>5 DEF Shaped
<1> QED
  BY <1>2, <1>4, <1>5, <1>6

LEMMA TargetEffect ==
  ASSUME Shaped, NEW lab
  PROVE  LET e == jump_target(em, lab)
         IN  /\ DOMAIN e = DOMAIN em /\ e.code = em.code /\ e.exc = em.exc /\ e.tries = em.tries
BY DEF jump_target, Shaped

LEMMA FunctionEffect ==
  ASSUME Shaped, NEW f, NEW d
  PROVE  LET e == begin_function(em, f, d)
         IN  /\ DOMAIN e = DOMAIN em /\ e.code = em.code /\ e.exc = em.exc /\ e.tries = em.tries
BY DEF begin_function, Shaped

LEMMA TryEffect ==
  ASSUME Shaped, NEW lab
  PROVE  LET e == try_begin(em, lab)
         IN  /\ DOMAIN e = DOMAIN em /\ e.code = em.code /\ e.exc = em.exc
             /\ DOMAIN e.tries = DOMAIN em.tries \cup {lab}
             /\ {"start", "end", "depth"} \subseteq DOMAIN e.tries[lab]
             /\ e.tries[lab].start = current_ip(em)
             /\ \A l \in DOMAIN em.tries : l # lab => e.tries[l] = em.tries[l]
<1>1. PICK v : v = [start |-> current_ip(em), end |-> 0, depth |-> em.stack_depth]
  OBVIOUS
<1>2. PICK e : e = try_begin(em, lab)
  OBVIOUS
<1>3. /\ DOMAIN e = DOMAIN em /\ e.code = em.code /\ e.exc = em.exc
      /\ e.tries = Put(em.tries, lab, v)
  BY <1>1, <1>2 DEF try_begin, Shaped
<1>4. {"start", "end", "depth"} \subseteq DOMAIN v /\ v.start = current_ip(em)
  BY <1>1
<1>5. /\ DOMAIN e.tries = DOMAIN em.tries \cup {lab} /\ e.tries[lab] = v
      /\ \A l \in DOMAIN em.tries : l # lab => e.tries[l] = em.tries[l]
  <2>1. PICK g : g = Put(em.tries, lab, v)
    OBVIOUS
  <2>2. DOMAIN g = DOMAIN em.tries \cup {lab} /\ g[lab] = v
    BY <2>1 DEF Put
  <2>3. ASSUME NEW l \in DOMAIN em.tries, l # lab
        PROVE  g[l] = em.tries[l]
    BY <2>1, <2>3 DEF Put
  <2>4. e.tries = g
    BY <1>3, <2>1
  <2> QED
    BY <2>2, <2>3, <2>4
<1> QED
  BY <1>2, <1>3, <1>4, <1>5

LEMMA EndEffect ==
  ASSUME Shaped, NEW lab
  PROVE  LET e == try_end(em, lab)
         IN  /\ DOMAIN e = DOMAIN em /\ e.code = em.code /\ e.exc = em.exc
             /\ DOMAIN e.tries = DOMAIN em.tries
             /\ lab \in DOMAIN em.tries =>
                  /\ DOMAIN e.tries[lab] = DOMAIN em.tries[lab]
                  /\ "start" \in DOMAIN em.tries[lab] =>
                       e.tries[lab].start = em.tries[lab].start
                  /\ "end" \in DOMAIN em.tries[lab] => e.tries[lab].end = current_ip(em)
             /\ \A l \in DOMAIN em.tries : l # lab => e.tries[l] = em.tries[l]
BY DEF try_end, Shaped

(* exc goes on as more, with n entries for the range of a label.           *)
Covers(more, exc, n, lab) ==
  /\ IsSequence(more) /\ Len(more) = Len(exc) + n
  /\ \A j \in 1 .. Len(exc) : more[j] = exc[j]
  /\ \A j \in Len(exc) + 1 .. Len(more) :
       /\ more[j].start = em.tries[lab].start /\ more[j].end = em.tries[lab].end
       /\ more[j].handler = current_ip(em)

LEMMA TrapEffect ==
  ASSUME Shaped, NEW lab, NEW excs, IsSequence(excs), NEW e, e = add_exceptions(em, lab, excs)
  PROVE  /\ DOMAIN e = DOMAIN em /\ e.code = em.code /\ e.tries = em.tries
         /\ Covers(e.exc, em.exc, Len(excs), lab)
<1>1. PICK r : r = Ranges(em, em.tries[lab], excs)
  OBVIOUS
<1>3. /\ DOMAIN e = DOMAIN em /\ e.code = em.code /\ e.tries = em.tries
      /\ e.exc = em.exc \o r
  BY <1>1 DEF add_exceptions, Shaped
<1>4. Len(excs) \in Nat
  BY DEF IsSequence
<1>5. /\ DOMAIN r = 1 .. Len(excs)
      /\ \A k \in 1 .. Len(excs) : /\ r[k].start = em.tries[lab].start /\ r[k].end = em.tries[lab].end
                                   /\ r[k].handler = current_ip(em)
  BY <1>1 DEF Ranges
<1>6. IsSequence(r) /\ Len(r) = Len(excs)
  <2>1. r = [k \in 1 .. Len(excs) |-> r[k]]
    BY <1>1, <1>5 DEF Ranges
  <2>2. \A k \in 1 .. Len(excs) : r[k] \in Range(r)
    BY <1>5 DEF Range
  <2>3. [k \in 1 .. Len(excs) |-> r[k]] \in Seq(Range(r))
    BY <1>4, <2>2
  <2> QED
    BY <1>4, <1>5, <2>1, <2>3 DEF IsSequence
<1>7. /\ IsSequence(em.exc) /\ Len(em.exc) \in Nat
      /\ IsSequence(e.exc) /\ Len(e.exc) = Len(em.exc) + Len(excs)
      /\ \A j \in 1 .. Len(em.exc) : e.exc[j] = em.exc[j]
      /\ \A k \in 1 .. Len(excs) : e.exc[Len(em.exc) + k] = r[k]
  <2>1. IsSequence(em.exc)
    BY DEF Shaped
  <2>2. Joins(e.exc, em.exc, r)
    BY <1>3, <1>6, <2>1, Concatenation, Zenon
  <2> QED
    BY <1>6, <2>1, <2>2 DEF Joins
<1>8. ASSUME NEW j \in Len(em.exc) + 1 .. Len(e.exc)
      PROVE  e.exc[j] = r[j - Len(em.exc)] /\ j - Len(em.exc) \in 1 .. Len(excs)
  <2>1. PICK n \in Nat, m \in Nat : n = Len(em.exc) /\ m = Len(excs)
    BY <1>4, <1>7
  <2>2. PICK k : k = j - n
    OBVIOUS
  <2>3. k \in 1 .. m /\ n + k = j
    BY <1>7, <1>8, <2>1, <2>2
  <2> QED
    BY <1>7, <2>1, <2>2, <2>3
<1>9. ASSUME NEW j \in Len(em.exc) + 1 .. Len(e.exc)
      PROVE  /\ e.exc[j].start = em.tries[lab].start /\ e.exc[j].end = em.tries[lab].end
             /\ e.exc[j].handler = current_ip(em)
  BY <1>5, <1>8
<1> QED
  BY <1>3, <1>7, <1>9 DEF Covers

-----------------------------------------------------------------------------
(* One call.                                                               *)

LEMMA CallFacts ==
  ASSUME source \in Sources
  PROVE  /\ Len(source.calls) \in Nat /\ DOMAIN source.calls = 1 .. Len(source.calls)
         /\ \A kind : Places(source.calls, kind) \subseteq 1 .. Len(source.calls)
         /\ \A kind \in {"try", "end"} : \A i, j \in Places(source.calls, kind) :
              source.calls[i].lab = source.calls[j].lab => i = j
BY SourcesAreBracketed DEF IsSequence, Bracketed, Places

LEMMA Nested ==
  ASSUME source \in Sources, NEW ips, NEW x, NEW b, NEW e, NEW t, FromBracket(ips, x, b, e, t),
         NEW y, NEW c, NEW f, NEW u, FromBracket(ips, y, c, f, u)
  PROVE  (b < c => e < c \/ u < e) /\ (c < b => f < b \/ t < f)
<1>1. PICK brackets : brackets =
        {p \in Places(source.calls, "try") \X Places(source.calls, "end") \X Places(source.calls, "trap") :
           Bracket(source.calls, p[1], p[2], p[3])}
  OBVIOUS
<1>2. \A p, q \in brackets : p[1] < q[1] => p[2] < q[1] \/ q[3] < p[2]
  BY <1>1, SourcesAreBracketed DEF Bracketed
<1>3. PICK p : p = <<b, e, t>>
  OBVIOUS
<1>4. PICK q : q = <<c, f, u>>
  OBVIOUS
<1>5. p \in brackets /\ q \in brackets
  BY <1>1, <1>3, <1>4 DEF FromBracket
<1> QED
  BY <1>2, <1>3, <1>4, <1>5

LEMMA Positions ==
  ASSUME source \in Sources, Made \in Nat, NEW ips, NEW x, NEW b, NEW e, NEW t,
         FromBracket(ips, x, b, e, t)
  PROVE  b \in 0 .. Made /\ e \in 0 .. Made /\ t \in 0 .. Made /\ b < e /\ e < t
<1>1. /\ b \in 1 .. Len(source.calls) /\ e \in 1 .. Len(source.calls)
      /\ t \in 1 .. Len(source.calls) /\ Len(source.calls) \in Nat
  BY CallFacts DEF FromBracket
<1>2. b < e /\ e < t /\ t <= Made
  BY DEF FromBracket, Bracket
<1> QED
  BY <1>1, <1>2

(* f is c from q on.                                                       *)
TailFrom(f, c, q) ==
  /\ f \in Seq(Range(c)) /\ Len(f) = Len(c) - q + 1
  /\ \A i \in 1 .. Len(f) : f[i] = c[q + i - 1]

LEMMA Suffix ==
  ASSUME NEW c, IsSequence(c), NEW q \in 1 .. Len(c) + 1, NEW f, f = SubSeq(c, q, Len(c))
  PROVE  TailFrom(f, c, q)
<1>1. PICK m \in Nat : m = Len(c) /\ DOMAIN c = 1 .. m
  BY DEF IsSequence
<1>2. \A i \in q .. m : c[i] \in Range(c)
  BY <1>1 DEF Range
<1>3. q \in Int /\ m \in Int
  BY <1>1
<1>4. /\ SubSeq(c, q, m) \in Seq(Range(c))
      /\ Len(SubSeq(c, q, m)) = IF q <= m THEN m - q + 1 ELSE 0
      /\ \A i \in 1 .. m - q + 1 : SubSeq(c, q, m)[i] = c[q + i - 1]
  BY <1>2, <1>3, SubSeqProperties
<1>5. f = SubSeq(c, q, m)
  BY <1>1
<1>6. /\ f \in Seq(Range(c)) /\ Len(f) = m - q + 1
      /\ \A i \in 1 .. m - q + 1 : f[i] = c[q + i - 1]
  BY <1>1, <1>4, <1>5
<1> QED
  BY <1>1, <1>6 DEF TailFrom

LEMMA NextCall ==
  ASSUME source \in Sources, Todo, todo # <<>>, Continue
  PROVE  /\ source' = source /\ Todo' /\ Made \in Nat /\ Made' = Made + 1
         /\ Made + 1 \in 1 .. Len(source.calls) /\ Head(todo) = source.calls[Made + 1]
<1>1. /\ source.calls \in Seq(Range(source.calls)) /\ Len(source.calls) \in Nat
      /\ todo = SubSeq(source.calls, Made + 1, Len(source.calls))
      /\ Made \in 0 .. Len(source.calls) /\ todo # <<>>
      /\ source' = source /\ todo' = Tail(todo)
  BY SourcesAreBracketed DEF IsSequence, Todo, Continue
<1>2. PICK c : c = source.calls
  OBVIOUS
<1>3. PICK n \in Nat : n = Made
  BY <1>1
<1>4. PICK m \in Nat : m = Len(c)
  BY <1>1, <1>2
<1>5. todo \in Seq(Range(c)) /\ Len(todo) = m - n /\ \A i \in 1 .. m - n : todo[i] = c[i + n]
  <2>1. PICK q \in 1 .. Len(c) + 1 : q = n + 1 /\ todo = SubSeq(c, q, Len(c)) /\ IsSequence(c)
    BY <1>1, <1>2, <1>3, <1>4 DEF IsSequence
  <2>2. /\ todo \in Seq(Range(c)) /\ Len(todo) = m - q + 1
        /\ \A i \in 1 .. Len(todo) : todo[i] = c[q + i - 1]
    <3>1. TailFrom(todo, c, q)
      BY <2>1, Suffix
    <3> QED
      BY <1>4, <3>1 DEF TailFrom
  <2>3. Len(todo) = m - n /\ \A i \in 1 .. m - n : q + i - 1 = i + n
    BY <1>3, <1>4, <2>1, <2>2
  <2>4. ASSUME NEW i \in 1 .. m - n
        PROVE  todo[i] = c[i + n]
    <3>1. i \in 1 .. Len(todo)
      BY <2>3
    <3>2. todo[i] = c[q + i - 1]
      BY <2>2, <3>1
    <3>3. q + i - 1 = i + n
      BY <2>3
    <3> QED
      BY <3>2, <3>3, Zenon
  <2> QED
    BY <2>2, <2>3, <2>4
<1>6. m - n > 0
  BY <1>1, <1>3, <1>4, <1>5, EmptySeq
<1>7. /\ todo' \in Seq(Range(c)) /\ Len(todo') = m - n - 1
      /\ \A i \in 1 .. m - n - 1 : todo'[i] = c[i + n + 1]
  <2>1. todo' \in Seq(Range(c)) /\ Len(todo') = m - n - 1 /\ \A i \in 1 .. m - n - 1 : todo'[i] = todo[i + 1]
    <3>1. todo \in Seq(Range(c)) /\ todo # <<>> /\ todo' = Tail(todo) /\ Len(todo) = m - n
      BY <1>1, <1>5
    <3>2. /\ Tail(todo) \in Seq(Range(c)) /\ Len(Tail(todo)) = Len(todo) - 1
          /\ \A i \in 1 .. Len(Tail(todo)) : Tail(todo)[i] = todo[i + 1]
      BY <3>1, HeadTailProperties
    <3> QED
      BY <3>1, <3>2
  <2>2. ASSUME NEW i \in 1 .. m - n - 1
        PROVE  todo'[i] = c[i + n + 1]
    <3>1. PICK j : j = i + 1
      OBVIOUS
    <3>2. j \in 1 .. m - n /\ j + n = i + n + 1
      BY <1>3, <1>4, <3>1
    <3> QED
      BY <1>5, <2>1, <3>1, <3>2
  <2> QED
    BY <2>1, <2>2
<1>8. Head(todo) = c[n + 1]
  BY <1>5, <1>6
<1>9. Made' = n + 1
  BY <1>1, <1>2, <1>4, <1>7 DEF Made
<1>10. todo' = SubSeq(c, n + 2, m)
  <2>1. PICK q \in 1 .. Len(c) + 1 : q = n + 2 /\ IsSequence(c)
    BY <1>1, <1>2, <1>3, <1>4, <1>6 DEF IsSequence
  <2>2. PICK s : s = SubSeq(c, q, Len(c))
    OBVIOUS
  <2>3. s \in Seq(Range(c)) /\ Len(s) = m - q + 1 /\ \A i \in 1 .. Len(s) : s[i] = c[q + i - 1]
    <3>1. TailFrom(s, c, q)
      BY <2>1, <2>2, Suffix
    <3> QED
      BY <1>4, <3>1 DEF TailFrom
  <2>4. Len(s) = m - n - 1 /\ \A i \in 1 .. m - n - 1 : q + i - 1 = i + n + 1
    BY <1>3, <1>4, <2>1, <2>3
  <2>5. ASSUME NEW i \in 1 .. m - n - 1
        PROVE  s[i] = c[i + n + 1]
    <3>1. i \in 1 .. Len(s)
      BY <2>4
    <3>2. s[i] = c[q + i - 1]
      BY <2>3, <3>1
    <3>3. q + i - 1 = i + n + 1
      BY <2>4
    <3> QED
      BY <3>2, <3>3, Zenon
  <2>6. PICK t : t = todo'
    OBVIOUS
  <2>7. /\ t \in Seq(Range(c)) /\ s \in Seq(Range(c)) /\ Len(t) = Len(s)
        /\ \A i \in 1 .. Len(t) : t[i] = s[i]
    <3>1. t \in Seq(Range(c)) /\ s \in Seq(Range(c))
      BY <1>7, <2>3, <2>6
    <3>2. Len(t) = m - n - 1 /\ Len(s) = m - n - 1
      BY <1>7, <2>4, <2>6
    <3>3. ASSUME NEW i \in 1 .. Len(t)
          PROVE  t[i] = s[i]
      <4>1. i \in 1 .. m - n - 1
        BY <3>2
      <4>2. t[i] = c[i + n + 1] /\ s[i] = c[i + n + 1]
        BY <1>7, <2>5, <2>6, <4>1
      <4> QED
        BY <4>2
    <3> QED
      BY <3>1, <3>2, <3>3
  <2>8. t = s
    BY <2>7, SeqEqual
  <2> QED
    BY <1>4, <2>1, <2>2, <2>6, <2>8
<1>11. Todo'
  BY <1>1, <1>2, <1>3, <1>4, <1>6, <1>9, <1>10 DEF Todo
<1> QED
  BY <1>1, <1>2, <1>3, <1>4, <1>6, <1>8, <1>9, <1>11

(* ips goes on as jps, one call further.                                   *)
Extends(ips, jps, n) == \A i \in 0 .. n : jps[i] = ips[i]

(* What is assumed, and shown, of each call.                               *)
Step(m, call) ==
  /\ source \in Sources /\ m \in Nat /\ m = Made + 1 /\ Made' = m /\ source' = source /\ Made \in Nat
  /\ m \in 1 .. Len(source.calls) /\ call = source.calls[m]

LEMMA AddressedStep ==
  ASSUME NEW m, NEW call, Step(m, call), Shaped, Shaped', NEW ips, Addressed(ips),
         Len(em.code') >= Len(em.code)
  PROVE  \E jps : Addressed(jps)' /\ Extends(ips, jps, Made)
<1>1. /\ current_ip(em) \in Nat /\ current_ip(em') \in Nat /\ current_ip(em) <= current_ip(em')
  BY DEF current_ip, Shaped, IsSequence
<1>2. PICK x : x = current_ip(em')
  OBVIOUS
<1>3. PICK n \in Nat : n = Made /\ m = n + 1 /\ Made' = n + 1
  BY DEF Step
<1>4. PICK jps : jps = [i \in 0 .. n + 1 |-> IF i <= n THEN ips[i] ELSE x]
  OBVIOUS
<1>5. /\ ips \in [0 .. n -> Nat] /\ ips[n] <= x /\ x \in Nat
      /\ \A i, j \in 0 .. n : i <= j => ips[i] <= ips[j]
  BY <1>1, <1>2, <1>3 DEF Addressed
<1>6. /\ jps \in [0 .. n + 1 -> Nat] /\ jps[n + 1] = x
      /\ \A i, j \in 0 .. n + 1 : i <= j => jps[i] <= jps[j]
      /\ \A i \in 0 .. n : jps[i] = ips[i]
  BY <1>4, <1>5
<1>7. Addressed(jps)'
  BY <1>2, <1>3, <1>6 DEF Addressed
<1> QED
  BY <1>3, <1>6, <1>7 DEF Extends

LEMMA RecordedSame ==
  ASSUME NEW m, NEW call, Step(m, call), NEW ips, NEW jps, Extends(ips, jps, Made),
         em.exc' = em.exc, NEW origin, Recorded(ips, origin)
  PROVE  Recorded(jps, origin)'
<1>1. ASSUME NEW x, NEW b, NEW e, NEW t, FromBracket(ips, x, b, e, t)
      PROVE  FromBracket(jps, x, b, e, t)'
  <2>1. b \in 0 .. Made /\ e \in 0 .. Made /\ t \in 0 .. Made
    BY <1>1, CallFacts DEF Step, FromBracket, Bracket
  <2> QED
    BY <1>1, <2>1 DEF Step, FromBracket, Extends
<1>2. /\ DOMAIN origin = 1 .. Len(em.exc)
      /\ \A j \in 1 .. Len(em.exc) : \E b, e : FromBracket(ips, em.exc[j], b, e, origin[j])
      /\ \A j, k \in 1 .. Len(em.exc) : j < k => origin[j] <= origin[k]
  BY DEF Recorded
<1>3. \A j \in 1 .. Len(em.exc) : \E b, e : FromBracket(jps, em.exc[j], b, e, origin[j])'
  BY <1>1, <1>2
<1> QED
  BY <1>2, <1>3 DEF Recorded

LEMMA TrackedSame ==
  ASSUME NEW m, NEW call, Step(m, call), NEW ips, NEW jps, Extends(ips, jps, Made),
         Tracked(ips), em.tries' = em.tries, call.call \notin {"try", "end"}
  PROVE  Tracked(jps)'
<1>1. ASSUME NEW b \in Places(source.calls, "try"), b <= m
      PROVE  b \in 0 .. Made
  BY <1>1, CallFacts DEF Step, Places
<1>2. ASSUME NEW e \in Places(source.calls, "end"), e <= m
      PROVE  e \in 0 .. Made
  BY <1>2, CallFacts DEF Step, Places
<1>3. ASSUME NEW b \in Places(source.calls, "try"), b <= m
      PROVE  Begun(jps, b)'
  BY <1>1, <1>3 DEF Tracked, Begun, Extends, Step
<1>4. ASSUME NEW b \in Places(source.calls, "try"), NEW e \in Places(source.calls, "end"), b < e,
             e <= m, source.calls[e].lab = source.calls[b].lab
      PROVE  Ended(jps, e)'
  <2>1. b \in 0 .. Made /\ e \in 0 .. Made
    BY <1>1, <1>2, <1>4, CallFacts DEF Step
  <2> QED
    BY <1>4, <2>1 DEF Tracked, Ended, Extends, Step
<1> QED
  BY <1>3, <1>4, CallFacts DEF Tracked, Step

LEMMA TrackedBegin ==
  ASSUME NEW m, NEW call, Step(m, call), Shaped, NEW ips, NEW jps, Extends(ips, jps, Made),
         Addressed(jps)', Tracked(ips), call.call = "try", em' = try_begin(em, call.lab)
  PROVE  Tracked(jps)'
<1>1. m \in Places(source.calls, "try") /\ source.calls[m].lab = call.lab
  BY CallFacts DEF Step, Places
<1>2. /\ em'.code = em.code
      /\ DOMAIN em'.tries = DOMAIN em.tries \cup {call.lab}
      /\ {"start", "end", "depth"} \subseteq DOMAIN em'.tries[call.lab]
      /\ em'.tries[call.lab].start = current_ip(em)
      /\ \A l \in DOMAIN em.tries : l # call.lab => em'.tries[l] = em.tries[l]
  BY TryEffect
<1>3. jps[m] = current_ip(em)
  BY <1>2 DEF Addressed, Step, current_ip
<1>4. Begun(jps, m)'
  BY <1>1, <1>2, <1>3 DEF Begun, Step
<1>5. ASSUME NEW b \in Places(source.calls, "try"), b <= m, b # m
      PROVE  b \in 0 .. Made /\ b <= Made /\ source.calls[b].lab # call.lab
  BY <1>1, <1>5, CallFacts DEF Step
<1>6. ASSUME NEW e \in Places(source.calls, "end"), e <= m
      PROVE  e \in 0 .. Made /\ e <= Made /\ e # m
  BY <1>1, <1>6, CallFacts DEF Step, Places
<1>7. ASSUME NEW b \in Places(source.calls, "try"), b <= m, b # m
      PROVE  Begun(jps, b)'
  <2>1. /\ b \in 0 .. Made /\ b <= Made /\ source.calls[b].lab # call.lab
        /\ source' = source /\ jps[b] = ips[b]
    BY <1>5, <1>7 DEF Extends, Step
  <2>2. Begun(ips, b)
    BY <2>1, <1>7 DEF Tracked
  <2> QED
    BY <1>2, <2>1, <2>2 DEF Begun
<1>8. ASSUME NEW b \in Places(source.calls, "try"), NEW e \in Places(source.calls, "end"), b < e,
             e <= m, source.calls[e].lab = source.calls[b].lab
      PROVE  Ended(jps, e)'
  <2>1. b \in 0 .. Made /\ b # m /\ e \in 0 .. Made /\ e <= Made /\ b <= Made
    BY <1>6, <1>8, CallFacts DEF Step
  <2>2. Begun(ips, b) /\ Ended(ips, e) /\ source.calls[b].lab # call.lab
    BY <1>5, <1>8, <2>1 DEF Tracked, Step
  <2> QED
    BY <1>2, <1>8, <2>1, <2>2 DEF Begun, Ended, Extends, Step
<1> QED
  BY <1>4, <1>7, <1>8, CallFacts DEF Tracked, Step

LEMMA TrackedEnd ==
  ASSUME NEW m, NEW call, Step(m, call), Shaped, NEW ips, NEW jps, Extends(ips, jps, Made),
         Addressed(jps)', Tracked(ips), call.call = "end", em' = try_end(em, call.lab)
  PROVE  Tracked(jps)'
<1>1. m \in Places(source.calls, "end") /\ source.calls[m].lab = call.lab
  BY CallFacts DEF Step, Places
<1>2. /\ em'.code = em.code
      /\ DOMAIN em'.tries = DOMAIN em.tries
      /\ call.lab \in DOMAIN em.tries =>
           /\ DOMAIN em'.tries[call.lab] = DOMAIN em.tries[call.lab]
           /\ "start" \in DOMAIN em.tries[call.lab] =>
                em'.tries[call.lab].start = em.tries[call.lab].start
           /\ "end" \in DOMAIN em.tries[call.lab] => em'.tries[call.lab].end = current_ip(em)
      /\ \A l \in DOMAIN em.tries : l # call.lab => em'.tries[l] = em.tries[l]
  BY EndEffect
<1>3. jps[m] = current_ip(em)
  BY <1>2 DEF Addressed, Step, current_ip
<1>4. ASSUME NEW b \in Places(source.calls, "try"), b <= m
      PROVE  b \in 0 .. Made /\ b <= Made /\ b # m
  BY <1>1, <1>4, CallFacts DEF Step, Places
<1>5. ASSUME NEW b \in Places(source.calls, "try"), b <= m
      PROVE  Begun(jps, b)'
  <2>1. Begun(ips, b) /\ jps[b] = ips[b]
    BY <1>4, <1>5 DEF Tracked, Extends
  <2>2. CASE source.calls[b].lab = call.lab
    BY <1>2, <2>1, <2>2 DEF Begun, Step
  <2>3. CASE source.calls[b].lab # call.lab
    BY <1>2, <2>1, <2>3 DEF Begun, Step
  <2> QED
    BY <2>2, <2>3
<1>6. ASSUME NEW b \in Places(source.calls, "try"), NEW e \in Places(source.calls, "end"), b < e,
             e <= m, source.calls[e].lab = source.calls[b].lab
      PROVE  Ended(jps, e)'
  <2>1. b \in 0 .. Made /\ b <= Made
    BY <1>4, <1>6, CallFacts DEF Step
  <2>2. Begun(ips, b)
    BY <2>1 DEF Tracked
  <2>3. CASE e = m
    BY <1>1, <1>2, <1>3, <1>6, <2>2, <2>3 DEF Begun, Ended, Step
  <2>4. CASE e # m
    <3>1. e \in 0 .. Made /\ e <= Made
      BY <1>6, <2>4, CallFacts DEF Step
    <3>2. Ended(ips, e) /\ source.calls[e].lab # call.lab
      BY <1>1, <1>6, <2>1, <2>4, <3>1, CallFacts DEF Tracked, Step
    <3> QED
      BY <1>2, <1>6, <2>2, <3>1, <3>2 DEF Begun, Ended, Extends, Step
  <2> QED
    BY <2>3, <2>4
<1> QED
  BY <1>5, <1>6, CallFacts DEF Tracked, Step

LEMMA RecordedTrap ==
  ASSUME NEW m, NEW call, Step(m, call), Shaped, NEW ips, NEW jps, Extends(ips, jps, Made),
         Addressed(jps)', Tracked(ips), NEW origin, Recorded(ips, origin),
         call.call = "trap", em' = add_exceptions(em, call.lab, call.excs)
  PROVE  Shaped' /\ \E o : Recorded(jps, o)'
<1>1. m \in Places(source.calls, "trap") /\ IsSequence(call.excs)
  BY CallFacts, SourcesAreBracketed DEF Step, Places
<1>2. PICK p : /\ p \in Places(source.calls, "try") \X Places(source.calls, "end") \X Places(source.calls, "trap")
               /\ Bracket(source.calls, p[1], p[2], p[3]) /\ p[3] = m
  BY <1>1, SourcesAreBracketed DEF Bracketed, Step
<1>3. PICK b \in Places(source.calls, "try") : b = p[1]
  BY <1>2
<1>4. PICK e \in Places(source.calls, "end") : e = p[2]
  BY <1>2
<1>5. Bracket(source.calls, b, e, m)
  BY <1>2, <1>3, <1>4
<1>6. /\ b \in 0 .. Made /\ b <= Made /\ e \in 0 .. Made /\ e <= Made /\ b < e
      /\ source.calls[b].lab = call.lab /\ source.calls[e].lab = call.lab
  BY <1>5, CallFacts DEF Bracket, Step
<1>7. em.tries[call.lab].start = jps[b] /\ em.tries[call.lab].end = jps[e]
  BY <1>6 DEF Tracked, Begun, Ended, Extends
<1>8. PICK more : /\ more = em'.exc /\ DOMAIN em' = DOMAIN em /\ em'.code = em.code
                  /\ Covers(more, em.exc, Len(call.excs), call.lab)
  <2>1. PICK new : new = em'
    OBVIOUS
  <2>2. new = add_exceptions(em, call.lab, call.excs)
    BY <2>1
  <2>3. /\ DOMAIN new = DOMAIN em /\ new.code = em.code
        /\ Covers(new.exc, em.exc, Len(call.excs), call.lab)
    BY <1>1, <2>2, TrapEffect
  <2> QED
    BY <2>1, <2>3
<1>9. jps[m] = current_ip(em)
  BY <1>8 DEF Addressed, Step, current_ip
<1>10. PICK k \in Nat : k = Len(em.exc)
  BY DEF Shaped, IsSequence
<1>11. PICK l \in Nat : /\ l = Len(more) /\ k <= l
                        /\ \A j \in 1 .. k : more[j] = em.exc[j]
                        /\ \A j \in k + 1 .. l : /\ more[j].start = jps[b] /\ more[j].end = jps[e]
                                                /\ more[j].handler = jps[m]
  <2>1. Len(call.excs) \in Nat
    BY <1>1 DEF IsSequence
  <2>2. PICK n \in Nat : n = Len(call.excs)
    BY <2>1
  <2>3. /\ Len(more) = k + n
        /\ \A j \in 1 .. k : more[j] = em.exc[j]
        /\ \A j \in k + 1 .. k + n : /\ more[j].start = jps[b] /\ more[j].end = jps[e]
                                    /\ more[j].handler = jps[m]
    BY <1>7, <1>8, <1>9, <1>10, <2>2 DEF Covers
  <2>4. k + n \in Nat /\ k <= k + n
    OBVIOUS
  <2> QED
    BY <2>3, <2>4
<1>12. PICK o : o = [j \in 1 .. l |-> IF j <= k THEN origin[j] ELSE m]
  OBVIOUS
<1>13. ASSUME NEW j \in 1 .. k
       PROVE  /\ origin[j] \in 0 .. Made
              /\ \E c, f : FromBracket(jps, more[j], c, f, o[j])'
  <2>1. PICK c : \E f : FromBracket(ips, em.exc[j], c, f, origin[j])
    BY <1>10 DEF Recorded
  <2>2. PICK f : FromBracket(ips, em.exc[j], c, f, origin[j])
    BY <2>1
  <2>3. c \in 0 .. Made /\ f \in 0 .. Made /\ origin[j] \in 0 .. Made
    BY <2>2, CallFacts DEF Step, FromBracket, Bracket
  <2>4. more[j] = em.exc[j] /\ o[j] = origin[j]
    BY <1>11, <1>12
  <2>5. FromBracket(jps, more[j], c, f, o[j])'
    BY <2>2, <2>3, <2>4 DEF Step, FromBracket, Extends
  <2> QED
    BY <2>3, <2>5
<1>14. ASSUME NEW j \in k + 1 .. l
       PROVE  \E c, f : FromBracket(jps, more[j], c, f, o[j])'
  <2>1. o[j] = m
    BY <1>12, <1>14
  <2>2. more[j].start = jps[b] /\ more[j].end = jps[e] /\ more[j].handler = jps[m]
    BY <1>11, <1>14
  <2>3. FromBracket(jps, more[j], b, e, o[j])'
    BY <1>1, <1>5, <2>1, <2>2 DEF FromBracket, Step
  <2> QED
    BY <2>3
<1>15. \A j \in 1 .. l : \E c, f : FromBracket(jps, more[j], c, f, o[j])'
  <2>1. \A j \in 1 .. l : j \in 1 .. k \/ j \in k + 1 .. l
    OBVIOUS
  <2> QED
    BY <1>13, <1>14, <2>1
<1>16. \A i, j \in 1 .. l : i < j => o[i] <= o[j]
  <2>1. /\ \A i \in 1 .. k : origin[i] \in 0 .. Made
        /\ \A i, j \in 1 .. k : i < j => origin[i] <= origin[j]
    BY <1>10, <1>13 DEF Recorded
  <2>2. \A i \in 0 .. Made : i <= m
    BY DEF Step
  <2>3. m \in Nat
    BY DEF Step
  <2> QED
    BY <1>12, <2>1, <2>2, <2>3
<1>17. Recorded(jps, o)'
  BY <1>8, <1>11, <1>12, <1>15, <1>16 DEF Recorded
<1> QED
  BY <1>8, <1>17 DEF Shaped, Covers

LEMMA Starting == Init => IInv
<1> SUFFICES ASSUME Init
             PROVE  IInv
  OBVIOUS
<1>1. source \in Sources /\ todo = source.calls /\ em = Start
  BY DEF Init
<1>2. PICK c : c = source.calls /\ c \in Seq(Range(c)) /\ Len(c) \in Nat
  BY <1>1, SourcesAreBracketed DEF IsSequence
<1>3. Made = 0
  BY <1>1, <1>2 DEF Made
<1>4. c = SubSeq(c, 1, Len(c))
  BY <1>2, SubSeqFull
<1>5. Todo
  BY <1>1, <1>2, <1>3, <1>4 DEF Todo
<1>6. em.code = <<>> /\ em.exc = <<>> /\ {"code", "exc", "tries"} \subseteq DOMAIN em
  BY <1>1 DEF Start
<1>7. IsSequence(<<>>) /\ Len(<<>>) = 0
  BY EmptySeq DEF IsSequence
<1>8. Shaped
  BY <1>6, <1>7 DEF Shaped
<1>9. PICK ips : ips = [i \in 0 .. 0 |-> 1]
  OBVIOUS
<1>10. Addressed(ips)
  BY <1>3, <1>6, <1>7, <1>9 DEF Addressed, current_ip
<1>11. Tracked(ips)
  BY <1>1, <1>3, CallFacts DEF Tracked
<1>12. PICK origin : origin = [j \in 1 .. 0 |-> 0]
  OBVIOUS
<1>13. Recorded(ips, origin)
  BY <1>6, <1>7, <1>12 DEF Recorded
<1> QED
  BY <1>1, <1>5, <1>8, <1>10, <1>11, <1>13 DEF IInv

(* A call that is no part of a TRY statement keeps the invariant.          *)
LEMMA Elsewhere ==
  ASSUME IInv, NEW m, NEW call, Step(m, call), Todo', call.call \notin {"try", "end", "trap"},
         DOMAIN em' = DOMAIN em, IsSequence(em'.code), Len(em'.code) >= Len(em.code),
         em'.exc = em.exc, em'.tries = em.tries
  PROVE  IInv'
<1>1. Shaped /\ Shaped' /\ source' \in Sources
  BY DEF IInv, Shaped, Step
<1>2. PICK ips : Addressed(ips) /\ Tracked(ips) /\ \E origin : Recorded(ips, origin)
  BY DEF IInv
<1>3. PICK jps : Addressed(jps)' /\ Extends(ips, jps, Made)
  BY <1>1, <1>2, AddressedStep
<1>4. Tracked(jps)'
  BY <1>2, <1>3, TrackedSame
<1>5. \E origin : Recorded(jps, origin)'
  BY <1>2, <1>3, RecordedSame
<1> QED
  BY <1>1, <1>3, <1>4, <1>5 DEF IInv

LEMMA Stepping == IInv /\ [Next]_vars => IInv'
<1> SUFFICES ASSUME IInv, [Next]_vars
             PROVE  IInv'
  OBVIOUS
<1>1. source \in Sources /\ Todo /\ Shaped
  BY DEF IInv
<1>2. ASSUME UNCHANGED vars
      PROVE  IInv'
  <2>1. source' = source /\ todo' = todo /\ em' = em /\ Made' = Made
    BY <1>2 DEF vars, Made
  <2>2. Todo' /\ Shaped'
    BY <1>1, <2>1 DEF Todo, Shaped
  <2>3. PICK ips : Addressed(ips) /\ Tracked(ips) /\ \E origin : Recorded(ips, origin)
    BY DEF IInv
  <2>4. PICK origin : Recorded(ips, origin)
    BY <2>3
  <2>5. Addressed(ips)'
    BY <2>1, <2>3 DEF Addressed, current_ip
  <2>6. Tracked(ips)'
    BY <2>1, <2>3 DEF Tracked, Begun, Ended
  <2>7. Recorded(ips, origin)'
    BY <2>1, <2>4 DEF Recorded, FromBracket
  <2> QED
    BY <1>1, <2>1, <2>2, <2>5, <2>6, <2>7 DEF IInv
<1>3. ASSUME NEW kind, Called(kind), Continue
      PROVE  /\ Step(Made + 1, Head(todo)) /\ Todo' /\ Head(todo).call = kind
  BY <1>1, <1>3, NextCall DEF Step, Called
<1>4. Len(em.code) \in Nat
  BY <1>1 DEF Shaped, IsSequence
<1>5. ASSUME Instruct
      PROVE  IInv'
  <2>1. PICK e : e = emit(em, Head(todo).i, <<>>) /\ em' = e /\ Called("emit") /\ Continue
    BY <1>5 DEF Instruct
  <2>2. /\ DOMAIN e = DOMAIN em /\ IsSequence(e.code) /\ Len(e.code) = Len(em.code) + 1
        /\ e.exc = em.exc /\ e.tries = em.tries
    BY <1>1, <2>1, EmitEffect
  <2> QED
    BY <1>3, <1>4, <2>1, <2>2, Elsewhere
<1>6. ASSUME Jump
      PROVE  IInv'
  <2>1. PICK e : e = emit_jump(em, Head(todo)) /\ em' = e /\ Called("jump") /\ Continue
    BY <1>6 DEF Jump
  <2>2. /\ DOMAIN e = DOMAIN em /\ IsSequence(e.code) /\ Len(e.code) = Len(em.code) + 1
        /\ e.exc = em.exc /\ e.tries = em.tries
    BY <1>1, <2>1, JumpEffect
  <2> QED
    BY <1>3, <1>4, <2>1, <2>2, Elsewhere
<1>7. ASSUME Target
      PROVE  IInv'
  <2>1. PICK e : e = jump_target(em, Head(todo).lab) /\ em' = e /\ Called("target") /\ Continue
    BY <1>7 DEF Target
  <2>2. DOMAIN e = DOMAIN em /\ e.code = em.code /\ e.exc = em.exc /\ e.tries = em.tries
    BY <1>1, <2>1, TargetEffect
  <2>3. IsSequence(e.code) /\ Len(e.code) >= Len(em.code)
    BY <1>1, <1>4, <2>2 DEF Shaped
  <2> QED
    BY <1>3, <2>1, <2>2, <2>3, Elsewhere
<1>8. ASSUME BeginFunction
      PROVE  IInv'
  <2>1. PICK e : /\ e = begin_function(em, Head(todo).f, Head(todo).d) /\ em' = e
                 /\ Called("function") /\ Continue
    BY <1>8 DEF BeginFunction
  <2>2. DOMAIN e = DOMAIN em /\ e.code = em.code /\ e.exc = em.exc /\ e.tries = em.tries
    BY <1>1, <2>1, FunctionEffect
  <2>3. IsSequence(e.code) /\ Len(e.code) >= Len(em.code)
    BY <1>1, <1>4, <2>2 DEF Shaped
  <2> QED
    BY <1>3, <2>1, <2>2, <2>3, Elsewhere
<1>9. PICK ips : Addressed(ips) /\ Tracked(ips) /\ \E origin : Recorded(ips, origin)
  BY DEF IInv
<1>10. PICK origin : Recorded(ips, origin)
  BY <1>9
<1>11. ASSUME BeginTry
       PROVE  IInv'
  <2>1. PICK call : call = Head(todo) /\ em' = try_begin(em, call.lab) /\ Called("try") /\ Continue
    BY <1>11 DEF BeginTry
  <2>2. Step(Made + 1, call) /\ Todo' /\ call.call = "try" /\ source' = source
    BY <1>3, <2>1 DEF Step
  <2>3. DOMAIN em' = DOMAIN em /\ em'.code = em.code /\ em'.exc = em.exc
    BY <1>1, <2>1, TryEffect
  <2>4. Shaped' /\ Len(em.code') >= Len(em.code)
    BY <1>1, <1>4, <2>3 DEF Shaped
  <2>5. PICK jps : Addressed(jps)' /\ Extends(ips, jps, Made)
    BY <1>1, <1>9, <2>2, <2>4, AddressedStep
  <2>6. Tracked(jps)'
    BY <1>1, <1>9, <2>1, <2>2, <2>5, TrackedBegin
  <2>7. Recorded(jps, origin)'
    BY <1>10, <2>2, <2>3, <2>5, RecordedSame
  <2> QED
    BY <1>1, <2>2, <2>4, <2>5, <2>6, <2>7 DEF IInv
<1>12. ASSUME EndTry
       PROVE  IInv'
  <2>1. PICK call : call = Head(todo) /\ em' = try_end(em, call.lab) /\ Called("end") /\ Continue
    BY <1>12 DEF EndTry
  <2>2. Step(Made + 1, call) /\ Todo' /\ call.call = "end" /\ source' = source
    BY <1>3, <2>1 DEF Step
  <2>3. DOMAIN em' = DOMAIN em /\ em'.code = em.code /\ em'.exc = em.exc
    BY <1>1, <2>1, EndEffect
  <2>4. Shaped' /\ Len(em.code') >= Len(em.code)
    BY <1>1, <1>4, <2>3 DEF Shaped
  <2>5. PICK jps : Addressed(jps)' /\ Extends(ips, jps, Made)
    BY <1>1, <1>9, <2>2, <2>4, AddressedStep
  <2>6. Tracked(jps)'
    BY <1>1, <1>9, <2>1, <2>2, <2>5, TrackedEnd
  <2>7. Recorded(jps, origin)'
    BY <1>10, <2>2, <2>3, <2>5, RecordedSame
  <2> QED
    BY <1>1, <2>2, <2>4, <2>5, <2>6, <2>7 DEF IInv
<1>13. ASSUME Handler
       PROVE  IInv'
  <2>1. PICK call : /\ call = Head(todo) /\ em' = add_exceptions(em, call.lab, call.excs)
                    /\ Called("trap") /\ Continue
    BY <1>13 DEF Handler
  <2>2. Step(Made + 1, call) /\ Todo' /\ call.call = "trap" /\ source' = source
    BY <1>3, <2>1 DEF Step
  <2>3. Made + 1 \in Places(source.calls, "trap") /\ IsSequence(call.excs)
    BY <1>1, <2>2, CallFacts, SourcesAreBracketed DEF Step, Places
  <2>4. /\ DOMAIN em' = DOMAIN em /\ em'.code = em.code /\ em'.tries = em.tries
        /\ IsSequence(em'.exc)
    BY <1>1, <2>1, <2>3, TrapEffect DEF Covers
  <2>5. Shaped' /\ Len(em.code') >= Len(em.code)
    BY <1>1, <1>4, <2>4 DEF Shaped
  <2>6. PICK jps : Addressed(jps)' /\ Extends(ips, jps, Made)
    BY <1>1, <1>9, <2>2, <2>5, AddressedStep
  <2>7. Tracked(jps)'
    BY <1>9, <2>2, <2>4, <2>6, TrackedSame
  <2>8. \E o : Recorded(jps, o)'
    BY <1>1, <1>9, <1>10, <2>1, <2>2, <2>6, RecordedTrap
  <2> QED
    BY <1>1, <2>2, <2>5, <2>6, <2>7, <2>8 DEF IInv
<1>14. ASSUME Done
       PROVE  IInv'
  BY <1>2, <1>14 DEF Done
<1> QED
  BY <1>2, <1>5, <1>6, <1>7, <1>8, <1>11, <1>12, <1>13, <1>14 DEF Next

(* The order of the calls is kept in the exception table.                  *)
THEOREM Invariance == Spec => []IInv
<1> QED
  BY Starting, Stepping, PTL DEF Spec

LEMMA OrderFollows == IInv => InnermostFirst
<1> SUFFICES ASSUME IInv
             PROVE  InnermostFirst
  OBVIOUS
<1>1. source \in Sources /\ Made \in Nat
  BY DEF IInv, Todo
<1>2. PICK ips : Addressed(ips) /\ \E origin : Recorded(ips, origin)
  BY DEF IInv
<1>3. PICK origin : Recorded(ips, origin)
  BY <1>2
<1>4. \A i, j \in 0 .. Made : i <= j => ips[i] <= ips[j]
  BY <1>2 DEF Addressed
<1>5. \A i \in 0 .. Made : ips[i] \in Nat
  BY <1>2 DEF Addressed
<1>6. ASSUME NEW j \in 1 .. Len(em.exc), NEW k \in 1 .. Len(em.exc)
      PROVE  LET inner == em.exc[j]
                 outer == em.exc[k]
             IN  /\ inner.end <= inner.handler
                 /\ j < k /\ inner.start < outer.end /\ outer.start < inner.end =>
                      outer.start <= inner.start /\ inner.end <= outer.end
  <2>1. PICK b : \E e : FromBracket(ips, em.exc[j], b, e, origin[j])
    BY <1>3 DEF Recorded
  <2>2. PICK e : FromBracket(ips, em.exc[j], b, e, origin[j])
    BY <2>1
  <2>3. PICK c : \E f : FromBracket(ips, em.exc[k], c, f, origin[k])
    BY <1>3 DEF Recorded
  <2>4. PICK f : FromBracket(ips, em.exc[k], c, f, origin[k])
    BY <2>3
  <2>5. PICK t : t = origin[j]
    OBVIOUS
  <2>6. PICK u : u = origin[k]
    OBVIOUS
  <2>7. /\ b \in 0 .. Made /\ e \in 0 .. Made /\ t \in 0 .. Made
        /\ c \in 0 .. Made /\ f \in 0 .. Made /\ u \in 0 .. Made
        /\ b < e /\ e < t /\ c < f /\ f < u
    <3>1. /\ b \in 0 .. Made /\ e \in 0 .. Made /\ t \in 0 .. Made /\ b < e /\ e < t
      BY <1>1, <2>2, <2>5, Positions
    <3>2. /\ c \in 0 .. Made /\ f \in 0 .. Made /\ u \in 0 .. Made /\ c < f /\ f < u
      BY <1>1, <2>4, <2>6, Positions
    <3> QED
      BY <3>1, <3>2
  <2>8. /\ em.exc[j].start = ips[b] /\ em.exc[j].end = ips[e] /\ em.exc[j].handler = ips[t]
        /\ em.exc[k].start = ips[c] /\ em.exc[k].end = ips[f]
    BY <2>2, <2>4, <2>5, <2>6 DEF FromBracket
  <2>9. j < k => t <= u
    BY <1>3, <2>5, <2>6 DEF Recorded
  <2>10. b = c => e = f
    BY <1>1, <2>2, <2>4, CallFacts DEF FromBracket, Bracket
  <2>11. (b < c => e < c \/ u < e) /\ (c < b => f < b \/ t < f)
    BY <1>1, <2>2, <2>4, <2>5, <2>6, Nested
  <2>12. \A i \in {b, c, e, f, t, u} : i \in Nat /\ ips[i] \in Nat
    BY <1>1, <1>5, <2>7
  <2>13. ips[e] <= ips[t]
    BY <1>1, <1>4, <2>7
  <2>14. ASSUME j < k, ips[b] < ips[f], ips[c] < ips[e]
         PROVE  ips[c] <= ips[b] /\ ips[e] <= ips[f]
    <3>1. CASE b = c
      BY <2>10, <2>12, <3>1
    <3>2. CASE b < c
      <4>1. e < c
        BY <2>7, <2>9, <2>11, <2>12, <2>14, <3>2
      <4>2. ips[e] <= ips[c]
        BY <1>4, <2>7, <2>12, <4>1
      <4> QED
        BY <2>12, <2>14, <4>2
    <3>3. CASE c < b
      <4>1. ips[c] <= ips[b]
        BY <1>4, <2>7, <2>12, <3>3
      <4>2. CASE f < b
        <5>1. ips[f] <= ips[b]
          BY <1>4, <2>7, <2>12, <4>2
        <5> QED
          BY <2>12, <2>14, <5>1
      <4>3. CASE t < f
        <5>1. e <= f
          BY <2>7, <2>12, <4>3
        <5>2. ips[e] <= ips[f]
          BY <1>4, <2>7, <5>1
        <5> QED
          BY <4>1, <5>2
      <4> QED
        BY <2>11, <3>3, <4>2, <4>3
    <3> QED
      BY <2>12, <3>1, <3>2, <3>3
  <2> QED
    BY <2>8, <2>13, <2>14
<1> QED
  BY <1>6 DEF InnermostFirst

(* The theorem about the exception table: whatever the sources are, of two *)
(* ranges that overlap the inner one is listed first, as raise_literal     *)
(* needs, and no handler is inside the range it serves.                    *)
THEOREM HandlersInOrder == Spec => []InnermostFirst
<1> QED
  BY Invariance, OrderFollows, PTL
=============================================================================
