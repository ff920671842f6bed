---------------------------- MODULE Cells_proofs -----------------------------
(***************************************************************************)
(* Proofs about Cells: arrays and dictionaries that are shared and copied  *)
(* on write behave as values, for any variables, declarations, numbers and *)
(* depth of the operand stack.                                             *)
(***************************************************************************)
EXTENDS Cells, SequenceTheorems, FiniteSetTheorems, TLAPS

-----------------------------------------------------------------------------
(* The inductive invariant.                                                *)

CellSet(D) == [type : {"None", "Number", "Container"}, number : Nat, buf : D \cup {Null}]
PlaceSet(D) == {InVar(v) : v \in Vars} \cup {InBuf(b, k) : b \in D, k \in Nat}
Entry(D) ==
  [kind : {"value"}, type : Type, cell : CellSet(D)]
    \cup [kind : {"address"}, type : Type, at : PlaceSet(D), use : {"read", "write"},
          var : Vars, keys : Seq(Nat)]

(* A cell fits a type: it has none yet, or the right one.  ty gives the    *)
(* types of the vectors and maps that exist.                               *)
Fits(ty, c, t) ==
  \/ c = None
  \/ ~IsContainer(t) /\ \E n \in Nat : c = Number(n)
  \/ IsContainer(t) /\ \E b \in DOMAIN ty : c = Shared(b) /\ ty[b] = t

ContentsFit(ty, f, t) ==
  /\ f = [k \in DOMAIN f |-> f[k]] /\ DOMAIN f \subseteq Nat
  /\ IsArray(t) => \E n \in Nat : DOMAIN f = 0 .. (n - 1)
  /\ \A k \in DOMAIN f : Fits(ty, f[k], Element(t))

RankedType(t) == t \in Type /\ Len(t) <= MaxRank

BufsFit(ty, b) ==
  /\ b = [c \in DOMAIN ty |-> b[c]] /\ ty = [c \in DOMAIN ty |-> ty[c]] /\ Null \notin DOMAIN ty
  /\ \A c \in DOMAIN ty : RankedType(ty[c]) /\ IsContainer(ty[c]) /\ ContentsFit(ty, b[c], ty[c])

StackFits(ty, st) ==
  /\ st \in Seq(Entry(DOMAIN ty))
  /\ \A i \in DOMAIN st : RankedType(st[i].type)
  /\ \A i \in DOMAIN st : st[i].kind = "value" => Fits(ty, st[i].cell, st[i].type)

(* The vectors and maps that the instruction has made have the last names. *)
FreshNames(s) == s.made \in Nat /\ \A n \in Nat : n > s.made => <<"new", n>> \notin DOMAIN s.bufs

StateFits(ty, s) ==
  /\ s = [vars |-> s.vars, stack |-> s.stack, bufs |-> s.bufs, made |-> s.made]
  /\ s.vars = [v \in Vars |-> s.vars[v]]
  /\ \A v \in Vars : Fits(ty, s.vars[v], types[v])
  /\ BufsFit(ty, s.bufs)
  /\ StackFits(ty, s.stack)
  /\ FreshNames(s)

(* The type of what i subscripts lead to.                                  *)
Rest(t, i) == SubSeq(t, i + 1, Len(t))

(* at are the places that the subscripts lead to, one after another, from  *)
(* variable v; nothing on the way is shared.                               *)
OnWay(ty, s, v, keys, at, i) ==
  LET b == Cell(s, at[i]).buf
  IN  /\ b \in DOMAIN s.bufs /\ ty[b] = Rest(types[v], i) /\ Unique(s, b)
      /\ keys[i + 1] \in DOMAIN s.bufs[b]
      /\ at[i + 1] = InBuf(b, keys[i + 1])
WayTo(ty, s, v, keys, at) ==
  /\ v \in Vars /\ keys \in Seq(Nat) /\ Len(keys) <= Len(types[v])
  /\ at = [i \in 0 .. Len(keys) |-> at[i]]
  /\ at[0] = InVar(v)
  /\ \A i \in 0 .. (Len(keys) - 1) : OnWay(ty, s, v, keys, at, i)

Reaches(ty, s, a) ==
  /\ a.type = Rest(types[a.var], Len(a.keys))
  /\ \E at : WayTo(ty, s, a.var, a.keys, at) /\ a.at = at[Len(a.keys)]

HeldReach(ty, s) == \A i \in DOMAIN s.stack : s.stack[i].kind = "address" => Reaches(ty, s, s.stack[i])

TypesFit == types \in Declarations

IInv == TypesFit /\ Depth <= MaxStack /\ \E ty : StateFits(ty, Now) /\ HeldReach(ty, Now)

-----------------------------------------------------------------------------
(* Places, cells and types.                                                *)

LEMMA PlaceFacts ==
  /\ \A v : InVar(v)[1] = "var" /\ InVar(v)[2] = v
  /\ \A i : InStack(i)[1] = "stack" /\ InStack(i)[2] = i
  /\ \A b, k : InBuf(b, k)[1] = "buf" /\ InBuf(b, k)[2] = b /\ InBuf(b, k)[3] = k
BY DEF InVar, InStack, InBuf

LEMMA CellFacts ==
  /\ None.type = "None" /\ None.number = 0 /\ None.buf = Null
  /\ \A n : Number(n).type = "Number" /\ Number(n).number = n /\ Number(n).buf = Null
  /\ \A b : Shared(b).type = "Container" /\ Shared(b).number = 0 /\ Shared(b).buf = b
BY DEF None, Number, Shared

LEMMA FitsFacts ==
  ASSUME NEW ty, NEW c, NEW t, Fits(ty, c, t), Null \notin DOMAIN ty
  PROVE  /\ c \in CellSet(DOMAIN ty)
         /\ c.type = "None" <=> c = None
         /\ c.buf = Null \/ (c.buf \in DOMAIN ty /\ ty[c.buf] = t /\ IsContainer(t) /\ c = Shared(c.buf))
         /\ IsContainer(t) => c = None \/ c.buf # Null
         /\ IsContainer(t) => c.number = 0
         /\ ~IsContainer(t) => c.buf = Null /\ c.number \in Nat
BY CellFacts DEF Fits, CellSet, None, Number, Shared

LEMMA MoreTypes ==
  ASSUME NEW ty, NEW ty2, DOMAIN ty \subseteq DOMAIN ty2, \A b \in DOMAIN ty : ty2[b] = ty[b],
         NEW c, NEW t, Fits(ty, c, t)
  PROVE  Fits(ty2, c, t)
BY DEF Fits

LEMMA TypeFacts ==
  ASSUME NEW t \in Type
  PROVE  /\ IsContainer(t) <=> Len(t) > 0
         /\ Len(t) \in Nat
         /\ IsContainer(t) => Element(t) \in Type /\ Len(Element(t)) = Len(t) - 1
         /\ IsArray(t) => IsContainer(t)
BY EmptySeq DEF Type, IsContainer, Element, IsArray

LEMMA RestFacts ==
  ASSUME NEW t \in Type, NEW i \in 0 .. Len(t)
  PROVE  /\ Rest(t, i) \in Type /\ Len(Rest(t, i)) = Len(t) - i
         /\ IsContainer(Rest(t, i)) <=> i < Len(t)
         /\ i < Len(t) => Element(Rest(t, i)) = Rest(t, i + 1)
         /\ i = 0 => Rest(t, i) = t
<1>1. PICK n \in Nat : n = Len(t)
  BY DEF Type
<1>2. /\ Rest(t, i) \in Type /\ Len(Rest(t, i)) = Len(t) - i
      /\ \A k \in 1 .. (Len(t) - i) : Rest(t, i)[k] = t[k + i]
  BY <1>1, SubSeqProperties DEF Rest, Type
<1>3. IsContainer(Rest(t, i)) <=> i < Len(t)
  BY <1>1, <1>2, TypeFacts
<1>4. ASSUME i < Len(t)
      PROVE  Element(Rest(t, i)) = Rest(t, i + 1)
  <2>1. /\ Rest(t, i + 1) \in Type /\ Len(Rest(t, i + 1)) = Len(t) - i - 1
        /\ \A k \in 1 .. (Len(t) - i - 1) : Rest(t, i + 1)[k] = t[k + i + 1]
    BY <1>1, <1>4, SubSeqProperties DEF Rest, Type
  <2>2. /\ Tail(Rest(t, i)) \in Type /\ Len(Tail(Rest(t, i))) = Len(t) - i - 1
        /\ \A k \in 1 .. (Len(t) - i - 1) : Tail(Rest(t, i))[k] = Rest(t, i)[k + 1]
    BY <1>1, <1>2, <1>4, EmptySeq, HeadTailProperties DEF Type
  <2>3. \A k \in 1 .. (Len(t) - i - 1) : Rest(t, i)[k + 1] = t[k + i + 1]
    BY <1>1, <1>2
  <2> QED
    BY <2>1, <2>2, <2>3, SeqEqual DEF Element, Type
<1>5. i = 0 => Rest(t, i) = t
  BY <1>1, <1>2, SeqEqual DEF Type
<1> QED
  BY <1>2, <1>3, <1>4, <1>5

-----------------------------------------------------------------------------
(* A place of a state, with the type of what it holds.                     *)

PlaceAt(ty, s, p, t) ==
  \/ \E v \in Vars : p = InVar(v) /\ t = types[v]
  \/ \E i \in DOMAIN s.stack : s.stack[i].kind = "value" /\ p = InStack(i) /\ t = s.stack[i].type
  \/ \E b \in DOMAIN ty : \E k \in DOMAIN s.bufs[b] : p = InBuf(b, k) /\ t = Element(ty[b])

LEMMA PlacesAre ==
  ASSUME NEW s, NEW q
  PROVE  q \in Places(s) <=>
           \/ \E v \in Vars : q = InVar(v)
           \/ \E i \in DOMAIN s.stack : s.stack[i].kind = "value" /\ q = InStack(i)
           \/ \E b \in DOMAIN s.bufs : \E k \in DOMAIN s.bufs[b] : q = InBuf(b, k)
BY DEF Places, Roots

LEMMA CellIs ==
  ASSUME NEW s
  PROVE  /\ \A v : Cell(s, InVar(v)) = s.vars[v]
         /\ \A i : Cell(s, InStack(i)) = s.stack[i].cell
         /\ \A b, k : Cell(s, InBuf(b, k)) = s.bufs[b][k]
<1>1. ASSUME NEW v PROVE Cell(s, InVar(v)) = s.vars[v]
  BY PlaceFacts DEF Cell
<1>2. ASSUME NEW i PROVE Cell(s, InStack(i)) = s.stack[i].cell
  BY PlaceFacts DEF Cell
<1>3. ASSUME NEW b, NEW k PROVE Cell(s, InBuf(b, k)) = s.bufs[b][k]
  BY PlaceFacts DEF Cell
<1> QED
  BY <1>1, <1>2, <1>3

LEMMA PlaceAtFits ==
  ASSUME TypesFit, NEW ty, NEW s, StateFits(ty, s), NEW p, NEW t, PlaceAt(ty, s, p, t)
  PROVE  p \in Places(s) /\ RankedType(t) /\ Fits(ty, Cell(s, p), t)
<1>1. CASE \E v \in Vars : p = InVar(v) /\ t = types[v]
  BY <1>1, PlacesAre, CellIs, DeclarationsAssumption DEF StateFits, RankedType, TypesFit
<1>2. CASE \E i \in DOMAIN s.stack : s.stack[i].kind = "value" /\ p = InStack(i) /\ t = s.stack[i].type
  BY <1>2, PlacesAre, CellIs DEF StateFits, StackFits
<1>3. CASE \E b \in DOMAIN ty : \E k \in DOMAIN s.bufs[b] : p = InBuf(b, k) /\ t = Element(ty[b])
  <2>1. PICK b \in DOMAIN ty : \E k \in DOMAIN s.bufs[b] : p = InBuf(b, k) /\ t = Element(ty[b])
    BY <1>3
  <2>2. PICK k \in DOMAIN s.bufs[b] : p = InBuf(b, k) /\ t = Element(ty[b])
    BY <2>1
  <2>3. /\ b \in DOMAIN s.bufs /\ RankedType(ty[b]) /\ IsContainer(ty[b])
        /\ ContentsFit(ty, s.bufs[b], ty[b])
    BY DEF StateFits, BufsFit
  <2>4. Fits(ty, s.bufs[b][k], t)
    BY <2>2, <2>3 DEF ContentsFit
  <2>5. RankedType(t)
    BY <2>2, <2>3, TypeFacts DEF RankedType, MaxRank
  <2> QED
    BY <2>2, <2>3, <2>4, <2>5, PlacesAre, CellIs
<1> QED
  BY <1>1, <1>2, <1>3 DEF PlaceAt

LEMMA BufsExist ==
  ASSUME NEW ty, NEW s, StateFits(ty, s)
  PROVE  DOMAIN s.bufs = DOMAIN ty /\ Null \notin DOMAIN ty
BY DEF StateFits, BufsFit

-----------------------------------------------------------------------------
(* What an instruction writes: a cell, and the contents of some vectors    *)
(* and maps, which may be new.                                             *)

Wrote(s, w, p, c, g, m) ==
  /\ w = [vars |-> w.vars, stack |-> w.stack, bufs |-> w.bufs, made |-> m]
  /\ w.vars = [v \in Vars |-> IF p = InVar(v) THEN c ELSE s.vars[v]]
  /\ w.stack = [i \in DOMAIN s.stack |->
                  IF p = InStack(i) THEN [s.stack[i] EXCEPT !.cell = c] ELSE s.stack[i]]
  /\ w.bufs = [b \in DOMAIN s.bufs \cup DOMAIN g |->
                 IF b \in DOMAIN g THEN g[b]
                 ELSE [k \in DOMAIN s.bufs[b] |-> IF p = InBuf(b, k) THEN c ELSE s.bufs[b][k]]]

(* A state is a record of functions.                                       *)
Shaped(s) ==
  /\ s = [vars |-> s.vars, stack |-> s.stack, bufs |-> s.bufs, made |-> s.made]
  /\ s.vars = [v \in Vars |-> s.vars[v]]
  /\ s.stack = [i \in DOMAIN s.stack |-> s.stack[i]]
  /\ s.bufs = [b \in DOMAIN s.bufs |-> s.bufs[b]]
  /\ \A b \in DOMAIN s.bufs : s.bufs[b] = [k \in DOMAIN s.bufs[b] |-> s.bufs[b][k]]

LEMMA FitsShaped ==
  ASSUME NEW ty, NEW s, StateFits(ty, s)
  PROVE  Shaped(s)
<1>1. s.stack = [i \in DOMAIN s.stack |-> s.stack[i]]
  BY DEF StateFits, StackFits
<1> QED
  BY <1>1 DEF StateFits, BufsFit, ContentsFit, Shaped

NoBufs == << >>

LEMMA NoBufsFacts == DOMAIN NoBufs = {}
BY DEF NoBufs

LEMMA SetCellWrites ==
  ASSUME NEW s, Shaped(s), NEW p, p \in Places(s), NEW c
  PROVE  Wrote(s, SetCell(s, p, c), p, c, NoBufs, s.made)
<1> DEFINE w == SetCell(s, p, c)
           bufsOf(q) == [b \in DOMAIN s.bufs \cup DOMAIN NoBufs |->
                          IF b \in DOMAIN NoBufs THEN NoBufs[b]
                          ELSE [k \in DOMAIN s.bufs[b] |-> IF q = InBuf(b, k) THEN c ELSE s.bufs[b][k]]]
           stackOf(q) == [i \in DOMAIN s.stack |->
                           IF q = InStack(i) THEN [s.stack[i] EXCEPT !.cell = c] ELSE s.stack[i]]
           varsOf(q) == [v \in Vars |-> IF q = InVar(v) THEN c ELSE s.vars[v]]
<1>1. SUFFICES w = [vars |-> varsOf(p), stack |-> stackOf(p), bufs |-> bufsOf(p), made |-> s.made]
  BY DEF Wrote
<1>2. ASSUME \A v : p # InVar(v)
      PROVE  varsOf(p) = s.vars
  BY <1>2 DEF Shaped
<1>3. ASSUME \A i : p # InStack(i)
      PROVE  stackOf(p) = s.stack
  BY <1>3 DEF Shaped
<1>4. ASSUME \A b, k : p # InBuf(b, k)
      PROVE  bufsOf(p) = s.bufs
  <2>1. ASSUME NEW b \in DOMAIN s.bufs
        PROVE  [k \in DOMAIN s.bufs[b] |-> IF p = InBuf(b, k) THEN c ELSE s.bufs[b][k]] = s.bufs[b]
    BY <1>4 DEF Shaped
  <2>2. bufsOf(p) = [b \in DOMAIN s.bufs |-> s.bufs[b]]
    BY <2>1, NoBufsFacts
  <2> QED
    BY <2>2 DEF Shaped
<1>5. CASE \E v \in Vars : p = InVar(v)
  <2>1. PICK v \in Vars : p = InVar(v)
    BY <1>5
  <2>2. w = [s EXCEPT !.vars[v] = c]
    BY <2>1, PlaceFacts DEF SetCell
  <2>3. \A u : p = InVar(u) <=> u = v
    BY <2>1, PlaceFacts
  <2>4. (\A i : p # InStack(i)) /\ (\A b, k : p # InBuf(b, k))
    BY <2>1, PlaceFacts
  <2>5. [s.vars EXCEPT ![v] = c] = varsOf(p)
    BY <2>3 DEF Shaped
  <2>6. w = [vars |-> [s.vars EXCEPT ![v] = c], stack |-> s.stack, bufs |-> s.bufs, made |-> s.made]
    BY <2>2 DEF Shaped
  <2>7. stackOf(p) = s.stack /\ bufsOf(p) = s.bufs
    BY <2>4, <1>3, <1>4
  <2> HIDE DEF stackOf, bufsOf, varsOf, w
  <2> QED
    BY <2>5, <2>6, <2>7
<1>6. CASE \E i \in DOMAIN s.stack : p = InStack(i)
  <2>1. PICK i \in DOMAIN s.stack : p = InStack(i)
    BY <1>6
  <2>2. w = [s EXCEPT !.stack[i].cell = c]
    BY <2>1, PlaceFacts DEF SetCell
  <2>3. \A j : p = InStack(j) <=> j = i
    BY <2>1, PlaceFacts
  <2>4. (\A u : p # InVar(u)) /\ (\A b, k : p # InBuf(b, k))
    BY <2>1, PlaceFacts
  <2>5. [s.stack EXCEPT ![i] = [s.stack[i] EXCEPT !.cell = c]] = stackOf(p)
    BY <2>3 DEF Shaped
  <2>6. w = [vars |-> s.vars, stack |-> [s.stack EXCEPT ![i] = [s.stack[i] EXCEPT !.cell = c]],
             bufs |-> s.bufs, made |-> s.made]
    BY <2>1, <2>2 DEF Shaped
  <2>7. varsOf(p) = s.vars /\ bufsOf(p) = s.bufs
    BY <2>4, <1>2, <1>4
  <2> HIDE DEF stackOf, bufsOf, varsOf, w
  <2> QED
    BY <2>5, <2>6, <2>7
<1>7. CASE \E b \in DOMAIN s.bufs : \E k \in DOMAIN s.bufs[b] : p = InBuf(b, k)
  <2>1. PICK b \in DOMAIN s.bufs : \E k \in DOMAIN s.bufs[b] : p = InBuf(b, k)
    BY <1>7
  <2>2. PICK k \in DOMAIN s.bufs[b] : p = InBuf(b, k)
    BY <2>1
  <2>3. w = [s EXCEPT !.bufs[b][k] = c]
    BY <2>2, PlaceFacts DEF SetCell
  <2>4. (\A u : p # InVar(u)) /\ (\A j : p # InStack(j))
    BY <2>2, PlaceFacts
  <2>5. \A d, j : p = InBuf(d, j) <=> d = b /\ j = k
    BY <2>2, PlaceFacts
  <2>6. w = [vars |-> s.vars, stack |-> s.stack,
             bufs |-> [s.bufs EXCEPT ![b] = [s.bufs[b] EXCEPT ![k] = c]], made |-> s.made]
    BY <2>1, <2>3 DEF Shaped
  <2>7. ASSUME NEW d \in DOMAIN s.bufs
        PROVE  [s.bufs EXCEPT ![b] = [s.bufs[b] EXCEPT ![k] = c]][d]
                 = [j \in DOMAIN s.bufs[d] |-> IF p = InBuf(d, j) THEN c ELSE s.bufs[d][j]]
    <3>1. CASE d = b
      BY <3>1, <2>5 DEF Shaped
    <3>2. CASE d # b
      <4>1. \A j : p # InBuf(d, j)
        BY <3>2, <2>5
      <4>2. [j \in DOMAIN s.bufs[d] |-> IF p = InBuf(d, j) THEN c ELSE s.bufs[d][j]] = s.bufs[d]
        BY <4>1 DEF Shaped
      <4>3. [s.bufs EXCEPT ![b] = [s.bufs[b] EXCEPT ![k] = c]][d] = s.bufs[d]
        BY <3>2 DEF Shaped
      <4> QED
        BY <4>2, <4>3
    <3> QED
      BY <3>1, <3>2
  <2>8. [s.bufs EXCEPT ![b] = [s.bufs[b] EXCEPT ![k] = c]] = bufsOf(p)
    BY <2>7, NoBufsFacts DEF Shaped
  <2>9. varsOf(p) = s.vars /\ stackOf(p) = s.stack
    BY <2>4, <1>2, <1>3
  <2> HIDE DEF stackOf, bufsOf, varsOf, w
  <2> QED
    BY <2>6, <2>8, <2>9
<1> QED
  BY <1>5, <1>6, <1>7, PlacesAre

LEMMA WithMade ==
  ASSUME NEW s, s = [vars |-> s.vars, stack |-> s.stack, bufs |-> s.bufs, made |-> s.made],
         NEW x, NEW y
  PROVE  [s EXCEPT !.made = x, !.bufs = y] = [vars |-> s.vars, stack |-> s.stack, bufs |-> y, made |-> x]
<1>1. PICK v, t, b, m : v = s.vars /\ t = s.stack /\ b = s.bufs /\ m = s.made
  OBVIOUS
<1>2. PICK r : r = [s EXCEPT !.made = x]
  OBVIOUS
<1>3. s = [vars |-> v, stack |-> t, bufs |-> b, made |-> m]
  BY <1>1
<1>4. r = [vars |-> v, stack |-> t, bufs |-> b, made |-> x]
  BY <1>2, <1>3
<1>5. [r EXCEPT !.bufs = y] = [vars |-> v, stack |-> t, bufs |-> y, made |-> x]
  BY <1>4
<1> QED
  BY <1>1, <1>2, <1>5, Zenon

LEMMA MadeWrites ==
  ASSUME NEW ty, NEW s, StateFits(ty, s), NEW p, p \in Places(s), NEW f, f = [k \in DOMAIN f |-> f[k]]
  PROVE  /\ <<"new", s.made + 1>> \notin DOMAIN s.bufs
         /\ Wrote(s, Made(s, p, f), p, Shared(<<"new", s.made + 1>>),
                  [x \in {<<"new", s.made + 1>>} |-> f], s.made + 1)
<1> DEFINE b == <<"new", s.made + 1>>
           c == Shared(b)
           bufs2 == [d \in DOMAIN s.bufs \cup {b} |-> IF d = b THEN f ELSE s.bufs[d]]
           s2 == [s EXCEPT !.made = s.made + 1, !.bufs = bufs2]
           w == Made(s, p, f)
           g == [x \in {b} |-> f]
<1>1. b \notin DOMAIN s.bufs
  BY DEF StateFits, FreshNames
<1>2. Shaped(s)
  BY FitsShaped
<1>3. s2 = [vars |-> s.vars, stack |-> s.stack, bufs |-> bufs2, made |-> s.made + 1]
  <2>1. s = [vars |-> s.vars, stack |-> s.stack, bufs |-> s.bufs, made |-> s.made]
    BY <1>2 DEF Shaped
  <2> HIDE DEF bufs2
  <2>2. [s EXCEPT !.made = s.made + 1, !.bufs = bufs2]
          = [vars |-> s.vars, stack |-> s.stack, bufs |-> bufs2, made |-> s.made + 1]
    BY <2>1, WithMade, Zenon
  <2> QED
    BY <2>2, Zenon
<1>4. w = SetCell(s2, p, c)
  BY DEF Made
<1> HIDE DEF s2, b, c, w
<1>5. Shaped(s2)
  <2>1. s2.vars = s.vars /\ s2.stack = s.stack /\ s2.bufs = bufs2 /\ s2.made = s.made + 1
    BY <1>3
  <2>2. \A d \in DOMAIN bufs2 : bufs2[d] = [k \in DOMAIN bufs2[d] |-> bufs2[d][k]]
    BY <1>2 DEF Shaped
  <2>3. /\ s2.vars = [v \in Vars |-> s2.vars[v]]
        /\ s2.stack = [i \in DOMAIN s2.stack |-> s2.stack[i]]
    BY <1>2, <2>1 DEF Shaped
  <2>4. bufs2 = [d \in DOMAIN bufs2 |-> bufs2[d]]
    OBVIOUS
  <2> HIDE DEF bufs2
  <2> QED
    BY <1>3, <2>1, <2>2, <2>3, <2>4 DEF Shaped
<1>6. p \in Places(s2)
  <2>1. s2.stack = s.stack /\ s2.bufs = bufs2
    BY <1>3
  <2>2. \A d \in DOMAIN s.bufs : d \in DOMAIN bufs2 /\ bufs2[d] = s.bufs[d]
    BY <1>1
  <2> HIDE DEF bufs2
  <2> QED
    BY <2>1, <2>2, PlacesAre
<1>7. Wrote(s2, w, p, c, NoBufs, s2.made)
  BY <1>4, <1>5, <1>6, SetCellWrites
<1>8. \A k : p # InBuf(b, k)
  BY <1>1, PlacesAre, PlaceFacts
<1>9. w.bufs = [d \in DOMAIN s.bufs \cup DOMAIN g |->
                 IF d \in DOMAIN g THEN g[d]
                 ELSE [k \in DOMAIN s.bufs[d] |-> IF p = InBuf(d, k) THEN c ELSE s.bufs[d][k]]]
  <2>1. s2.bufs = bufs2 /\ DOMAIN g = {b} /\ g[b] = f
    BY <1>3
  <2>2. w.bufs = [d \in DOMAIN bufs2 |->
                    [k \in DOMAIN bufs2[d] |-> IF p = InBuf(d, k) THEN c ELSE bufs2[d][k]]]
    BY <1>7, <2>1, NoBufsFacts DEF Wrote
  <2>3. [k \in DOMAIN f |-> IF p = InBuf(b, k) THEN c ELSE f[k]] = f
    BY <1>8
  <2> QED
    BY <2>1, <2>2, <2>3
<1>10. /\ w = [vars |-> w.vars, stack |-> w.stack, bufs |-> w.bufs, made |-> s.made + 1]
       /\ w.vars = [v \in Vars |-> IF p = InVar(v) THEN c ELSE s.vars[v]]
       /\ w.stack = [i \in DOMAIN s.stack |->
                       IF p = InStack(i) THEN [s.stack[i] EXCEPT !.cell = c] ELSE s.stack[i]]
  <2>1. s2.vars = s.vars /\ s2.stack = s.stack /\ s2.made = s.made + 1
    BY <1>3
  <2> QED
    BY <1>7, <2>1 DEF Wrote
<1>11. Wrote(s, w, p, c, g, s.made + 1)
  BY <1>9, <1>10 DEF Wrote
<1> QED
  BY <1>1, <1>11 DEF b, c, w

LEMMA SetContentsWrites ==
  ASSUME NEW s, Shaped(s), NEW p, p \in Places(s), NEW f, Cell(s, p).buf \in DOMAIN s.bufs,
         \A k : p # InBuf(Cell(s, p).buf, k),
         NEW c, c = Cell(s, p), \A i : p = InStack(i) => s.stack[i] = [s.stack[i] EXCEPT !.cell = c]
  PROVE  Wrote(s, SetContents(s, p, f), p, c, [x \in {c.buf} |-> f], s.made)
<1> DEFINE b == c.buf
           w == SetContents(s, p, f)
           g == [x \in {b} |-> f]
           bufs2 == [s.bufs EXCEPT ![b] = f]
<1>1. w = [vars |-> s.vars, stack |-> s.stack, bufs |-> bufs2, made |-> s.made]
  BY DEF SetContents, Shaped
<1> HIDE DEF w
<1>2. s.vars = [v \in Vars |-> IF p = InVar(v) THEN c ELSE s.vars[v]]
  BY CellIs DEF Shaped
<1>3. s.stack = [i \in DOMAIN s.stack |->
                   IF p = InStack(i) THEN [s.stack[i] EXCEPT !.cell = c] ELSE s.stack[i]]
  BY DEF Shaped
<1>4. bufs2
        = [d \in DOMAIN s.bufs \cup DOMAIN g |->
            IF d \in DOMAIN g THEN g[d]
            ELSE [k \in DOMAIN s.bufs[d] |-> IF p = InBuf(d, k) THEN c ELSE s.bufs[d][k]]]
  <2>1. ASSUME NEW d \in DOMAIN s.bufs
        PROVE  [k \in DOMAIN s.bufs[d] |-> IF p = InBuf(d, k) THEN c ELSE s.bufs[d][k]] = s.bufs[d]
    BY CellIs DEF Shaped
  <2>2. DOMAIN s.bufs \cup DOMAIN g = DOMAIN s.bufs /\ DOMAIN g = {b} /\ g[b] = f
    OBVIOUS
  <2>3. \A d \in DOMAIN s.bufs : [s.bufs EXCEPT ![b] = f][d] = IF d = b THEN f ELSE s.bufs[d]
    BY DEF Shaped
  <2> QED
    BY <2>1, <2>2, <2>3 DEF Shaped
<1>5. w.vars = s.vars /\ w.stack = s.stack /\ w.bufs = bufs2 /\ w.made = s.made
  BY <1>1
<1> HIDE DEF bufs2, g, b
<1> QED
  BY <1>1, <1>2, <1>3, <1>4, <1>5 DEF Wrote, w, b, g

(* The types of the vectors and maps after a write.                        *)
MoreOf(ty, ty2) == DOMAIN ty \subseteq DOMAIN ty2 /\ \A b \in DOMAIN ty : ty2[b] = ty[b]

Written(s, ty, ty2, g, m) ==
  /\ ty2 = [b \in DOMAIN ty \cup DOMAIN g |-> ty2[b]] /\ \A b \in DOMAIN ty : ty2[b] = ty[b]
  /\ Null \notin DOMAIN g
  /\ \A b \in DOMAIN g : RankedType(ty2[b]) /\ IsContainer(ty2[b]) /\ ContentsFit(ty2, g[b], ty2[b])
  /\ m \in Nat /\ m >= s.made /\ \A n \in Nat : n > m => <<"new", n>> \notin DOMAIN g

LEMMA MoreStack ==
  ASSUME NEW ty, NEW ty2, MoreOf(ty, ty2), NEW st, StackFits(ty, st)
  PROVE  StackFits(ty2, st)
<1>1. CellSet(DOMAIN ty) \subseteq CellSet(DOMAIN ty2)
  BY DEF CellSet, MoreOf
<1>2. PlaceSet(DOMAIN ty) \subseteq PlaceSet(DOMAIN ty2)
  BY DEF PlaceSet, MoreOf
<1>3. Entry(DOMAIN ty) \subseteq Entry(DOMAIN ty2)
  BY <1>1, <1>2 DEF Entry
<1>4. st \in Seq(Entry(DOMAIN ty2))
  BY <1>3 DEF StackFits
<1> QED
  BY <1>4, MoreTypes DEF StackFits, MoreOf

LEMMA WroteFits ==
  ASSUME TypesFit, NEW ty, NEW s, StateFits(ty, s), NEW p, NEW t, PlaceAt(ty, s, p, t), NEW c, NEW g, NEW m,
         NEW w, Wrote(s, w, p, c, g, m), NEW ty2, Written(s, ty, ty2, g, m), Fits(ty2, c, t)
  PROVE  StateFits(ty2, w)
<1>1. MoreOf(ty, ty2)
  BY DEF Written, MoreOf
<1>2. w = [vars |-> w.vars, stack |-> w.stack, bufs |-> w.bufs, made |-> w.made] /\ w.made = m
  BY DEF Wrote
<1>3. /\ w.vars = [v \in Vars |-> w.vars[v]]
      /\ \A v \in Vars : Fits(ty2, w.vars[v], types[v])
  <2>1. ASSUME NEW v \in Vars
        PROVE  Fits(ty2, w.vars[v], types[v])
    <3>1. CASE p = InVar(v)
      <4>1. t = types[v]
        BY <3>1, PlaceFacts DEF PlaceAt
      <4> QED
        BY <4>1, <3>1 DEF Wrote
    <3>2. CASE p # InVar(v)
      <4>1. Fits(ty, s.vars[v], types[v])
        BY DEF StateFits
      <4> QED
        BY <4>1, <3>2, <1>1, MoreTypes DEF Wrote, MoreOf
    <3> QED
      BY <3>1, <3>2
  <2> QED
    BY <2>1 DEF Wrote
<1>4. BufsFit(ty2, w.bufs)
  <2>1. DOMAIN w.bufs = DOMAIN ty2
    BY BufsExist DEF Wrote, Written
  <2>2. Null \notin DOMAIN ty2
    BY BufsExist DEF Written
  <2>3. ASSUME NEW b \in DOMAIN ty2
        PROVE  RankedType(ty2[b]) /\ IsContainer(ty2[b]) /\ ContentsFit(ty2, w.bufs[b], ty2[b])
    <3>1. CASE b \in DOMAIN g
      BY <3>1 DEF Wrote, Written
    <3>2. CASE b \notin DOMAIN g
      <4>1. b \in DOMAIN ty /\ ty2[b] = ty[b]
        BY <3>2 DEF Written
      <4>2. RankedType(ty[b]) /\ IsContainer(ty[b]) /\ ContentsFit(ty, s.bufs[b], ty[b])
        BY <4>1 DEF StateFits, BufsFit
      <4>3. w.bufs[b] = [k \in DOMAIN s.bufs[b] |-> IF p = InBuf(b, k) THEN c ELSE s.bufs[b][k]]
        BY <3>2, <4>1, BufsExist DEF Wrote
      <4>4. ASSUME NEW k \in DOMAIN s.bufs[b]
            PROVE  Fits(ty2, w.bufs[b][k], Element(ty[b]))
        <5>1. CASE p = InBuf(b, k)
          <6>1. t = Element(ty[b])
            BY <5>1, PlaceFacts DEF PlaceAt
          <6> QED
            BY <6>1, <5>1, <4>3
        <5>2. CASE p # InBuf(b, k)
          <6>1. Fits(ty, s.bufs[b][k], Element(ty[b]))
            BY <4>2 DEF ContentsFit
          <6>2. w.bufs[b][k] = s.bufs[b][k]
            BY <4>3, <5>2
          <6> QED
            BY <6>1, <6>2, <1>1, MoreTypes DEF MoreOf
        <5> QED
          BY <5>1, <5>2
      <4>5. ContentsFit(ty2, w.bufs[b], ty[b])
        <5>1. DOMAIN w.bufs[b] = DOMAIN s.bufs[b] /\ w.bufs[b] = [k \in DOMAIN w.bufs[b] |-> w.bufs[b][k]]
          BY <4>3
        <5> QED
          BY <4>2, <4>4, <5>1 DEF ContentsFit
      <4> QED
        BY <4>1, <4>2, <4>5
    <3> QED
      BY <3>1, <3>2
  <2>4. w.bufs = [c2 \in DOMAIN w.bufs |-> w.bufs[c2]]
    BY DEF Wrote
  <2>5. ty2 = [b \in DOMAIN ty2 |-> ty2[b]]
    BY DEF Written
  <2> QED
    BY <2>1, <2>2, <2>3, <2>4, <2>5 DEF BufsFit
<1>5. StackFits(ty2, w.stack)
  <2>1. StackFits(ty2, s.stack)
    BY <1>1, MoreStack DEF StateFits
  <2>2. PICK n \in Nat : DOMAIN s.stack = 1 .. n
    BY DEF StateFits, StackFits
  <2>3. ASSUME NEW i \in DOMAIN s.stack
        PROVE  /\ w.stack[i] \in Entry(DOMAIN ty2)
               /\ RankedType(w.stack[i].type)
               /\ w.stack[i].kind = "value" => Fits(ty2, w.stack[i].cell, w.stack[i].type)
    <3>1. CASE p = InStack(i)
      <4>1. t = s.stack[i].type /\ s.stack[i].kind = "value"
        BY <3>1, PlaceFacts DEF PlaceAt
      <4>2. w.stack[i] = [s.stack[i] EXCEPT !.cell = c]
        BY <3>1 DEF Wrote
      <4>3. s.stack[i] \in [kind : {"value"}, type : Type, cell : CellSet(DOMAIN ty2)]
        <5>1. s.stack[i] \in Entry(DOMAIN ty2)
          BY <2>1 DEF StackFits
        <5> QED
          BY <4>1, <5>1 DEF Entry
      <4>4. c \in CellSet(DOMAIN ty2)
        BY FitsFacts, <1>4 DEF BufsFit
      <4>5. /\ w.stack[i] \in [kind : {"value"}, type : Type, cell : CellSet(DOMAIN ty2)]
            /\ w.stack[i].type = t /\ w.stack[i].cell = c
        BY <4>1, <4>2, <4>3, <4>4
      <4>6. RankedType(t)
        BY <4>1, <2>1 DEF StackFits
      <4> QED
        BY <4>5, <4>6 DEF Entry
    <3>2. CASE p # InStack(i)
      <4>1. w.stack[i] = s.stack[i]
        BY <3>2 DEF Wrote
      <4> QED
        BY <4>1, <2>1 DEF StackFits
    <3> QED
      BY <3>1, <3>2
  <2>4. w.stack = [i \in 1 .. n |-> w.stack[i]]
    BY <2>2 DEF Wrote
  <2>5. w.stack \in Seq(Entry(DOMAIN ty2))
    BY <2>2, <2>3, <2>4
  <2>6. DOMAIN w.stack = DOMAIN s.stack
    BY DEF Wrote
  <2> QED
    BY <2>3, <2>5, <2>6 DEF StackFits
<1>6. FreshNames(w)
  <2>1. w.made \in Nat /\ w.made >= s.made /\ s.made \in Nat
    BY <1>2 DEF Written, StateFits, FreshNames
  <2>2. ASSUME NEW n \in Nat, n > w.made
        PROVE  <<"new", n>> \notin DOMAIN w.bufs
    <3>1. <<"new", n>> \notin DOMAIN s.bufs
      BY <2>1, <2>2 DEF StateFits, FreshNames
    <3>2. <<"new", n>> \notin DOMAIN g
      BY <1>2, <2>2 DEF Written
    <3>3. DOMAIN w.bufs = DOMAIN s.bufs \cup DOMAIN g
      BY DEF Wrote
    <3> QED
      BY <3>1, <3>2, <3>3
  <2> QED
    BY <2>1, <2>2 DEF FreshNames
<1> QED
  BY <1>2, <1>3, <1>4, <1>5, <1>6 DEF StateFits

-----------------------------------------------------------------------------
(* Ways.                                                                   *)

LEMMA OneType ==
  ASSUME NEW ty, NEW s, NEW p, NEW t, NEW u, PlaceAt(ty, s, p, t), PlaceAt(ty, s, p, u)
  PROVE  t = u
BY PlaceFacts DEF PlaceAt

LEMMA VarTypes ==
  ASSUME TypesFit, NEW v \in Vars
  PROVE  types[v] \in Type /\ Len(types[v]) \in 0 .. MaxRank
<1>1. types[v] \in Type /\ Len(types[v]) <= MaxRank
  BY DeclarationsAssumption, Zenon DEF TypesFit
<1>2. PICK n \in Nat : n = Len(types[v])
  BY <1>1, TypeFacts
<1>3. n <= 2
  BY <1>1, <1>2, Zenon DEF MaxRank
<1>4. n \in 0 .. MaxRank
  BY <1>3 DEF MaxRank
<1> QED
  BY <1>1, <1>2, <1>4, Zenon

(* Only the cell at p points to b.                                         *)
Alone(s, b, p) == p \in Places(s) /\ \A q \in Places(s) : Cell(s, q).buf = b <=> q = p

(* The vector or map that the first i + 1 places go through.               *)
Through(at, i) == at[i + 1][2]

LEMMA WayStep ==
  ASSUME NEW ty, NEW s, NEW v, NEW keys, NEW at, WayTo(ty, s, v, keys, at), NEW i \in 0 .. Len(keys) - 1
  PROVE  /\ i + 1 \in 0 .. Len(keys) /\ keys[i + 1] \in Nat
         /\ Through(at, i) \in DOMAIN s.bufs /\ ty[Through(at, i)] = Rest(types[v], i)
         /\ at[i + 1] = InBuf(Through(at, i), keys[i + 1])
         /\ keys[i + 1] \in DOMAIN s.bufs[Through(at, i)]
         /\ Cell(s, at[i]).buf = Through(at, i)
         /\ Unique(s, Through(at, i))
<1>1. OnWay(ty, s, v, keys, at, i)
  BY DEF WayTo
<1>2. Through(at, i) = Cell(s, at[i]).buf
  BY <1>1, PlaceFacts DEF OnWay, Through
<1>3. i + 1 \in 0 .. Len(keys) /\ keys[i + 1] \in Nat
  BY DEF WayTo
<1> QED
  BY <1>1, <1>2, <1>3 DEF OnWay

LEMMA WayPlaces ==
  ASSUME TypesFit, NEW ty, NEW s, StateFits(ty, s),
         NEW v, NEW keys, NEW at, WayTo(ty, s, v, keys, at), NEW i \in 0 .. Len(keys)
  PROVE  /\ PlaceAt(ty, s, at[i], Rest(types[v], i)) /\ at[i] \in Places(s)
         /\ i \in 0 .. Len(types[v]) /\ types[v] \in Type /\ v \in Vars
         /\ \A j : at[i] # InStack(j)
<1>1. v \in Vars /\ Len(keys) <= Len(types[v]) /\ Len(keys) \in Nat /\ at[0] = InVar(v)
  BY DEF WayTo
<1>2. types[v] \in Type /\ Len(types[v]) \in Nat
  BY <1>1, VarTypes DEF MaxRank
<1>3. i \in 0 .. Len(types[v])
  BY <1>1, <1>2
<1>4. PlaceAt(ty, s, at[i], Rest(types[v], i)) /\ \A j : at[i] # InStack(j)
  <2>1. CASE i = 0
    <3>1. Rest(types[v], 0) = types[v]
      BY <1>2, RestFacts
    <3> QED
      BY <2>1, <3>1, <1>1, PlaceFacts DEF PlaceAt
  <2>2. CASE i > 0
    <3>1. PICK h \in 0 .. Len(keys) - 1 : i = h + 1
      BY <2>2, <1>1
    <3>2. /\ at[i] = InBuf(Through(at, h), keys[i]) /\ ty[Through(at, h)] = Rest(types[v], h)
          /\ keys[i] \in DOMAIN s.bufs[Through(at, h)] /\ Through(at, h) \in DOMAIN s.bufs
      BY <3>1, WayStep
    <3>3. Element(Rest(types[v], h)) = Rest(types[v], i)
      BY <3>1, <1>1, <1>2, RestFacts
    <3> QED
      BY <3>2, <3>3, BufsExist, PlaceFacts DEF PlaceAt
  <2> QED
    BY <2>1, <2>2
<1> QED
  BY <1>1, <1>2, <1>3, <1>4, PlaceAtFits

LEMMA WayAlone ==
  ASSUME TypesFit, NEW ty, NEW s, StateFits(ty, s),
         NEW v, NEW keys, NEW at, WayTo(ty, s, v, keys, at), NEW i \in 0 .. Len(keys) - 1
  PROVE  Alone(s, Through(at, i), at[i])
<1>1. i \in 0 .. Len(keys) /\ Len(keys) \in Nat
  BY DEF WayTo
<1>2. at[i] \in Places(s)
  BY <1>1, WayPlaces
<1> QED
  BY <1>2, WayStep DEF Alone, Unique

(* Different places of a way have different types.                         *)
LEMMA WayApart ==
  ASSUME TypesFit, NEW ty, NEW s, StateFits(ty, s), NEW v, NEW keys, NEW at, WayTo(ty, s, v, keys, at),
         NEW i \in 0 .. Len(keys), NEW j \in 0 .. Len(keys), i # j
  PROVE  at[i] # at[j]
<1>1. /\ PlaceAt(ty, s, at[i], Rest(types[v], i)) /\ PlaceAt(ty, s, at[j], Rest(types[v], j))
      /\ i \in 0 .. Len(types[v]) /\ j \in 0 .. Len(types[v]) /\ types[v] \in Type
  BY WayPlaces
<1>2. Len(Rest(types[v], i)) # Len(Rest(types[v], j))
  <2>1. Len(Rest(types[v], i)) = Len(types[v]) - i /\ Len(Rest(types[v], j)) = Len(types[v]) - j
    BY <1>1, RestFacts
  <2>2. Len(types[v]) \in Nat
    BY <1>1, TypeFacts
  <2> QED
    BY <2>1, <2>2
<1> QED
  BY <1>1, <1>2, OneType

-----------------------------------------------------------------------------
(* Places and ways after a write.                                          *)

LEMMA PlaceKept ==
  ASSUME NEW ty, NEW s, StateFits(ty, s), NEW p, NEW c, NEW g, NEW m, NEW w, Wrote(s, w, p, c, g, m),
         NEW ty2, Written(s, ty, ty2, g, m), NEW q, NEW u, PlaceAt(ty, s, q, u),
         \A b, k : q = InBuf(b, k) /\ b \in DOMAIN g => k \in DOMAIN g[b]
  PROVE  PlaceAt(ty2, w, q, u)
<1>1. CASE \E v \in Vars : q = InVar(v) /\ u = types[v]
  BY <1>1 DEF PlaceAt
<1>2. CASE \E i \in DOMAIN s.stack : s.stack[i].kind = "value" /\ q = InStack(i) /\ u = s.stack[i].type
  <2>1. PICK i \in DOMAIN s.stack : s.stack[i].kind = "value" /\ q = InStack(i) /\ u = s.stack[i].type
    BY <1>2
  <2>2. i \in DOMAIN w.stack /\ w.stack[i].kind = "value" /\ w.stack[i].type = u
    <3>1. s.stack[i] \in [kind : {"value"}, type : Type, cell : CellSet(DOMAIN ty)]
      BY <2>1 DEF StateFits, StackFits, Entry
    <3>2. w.stack[i] = s.stack[i] \/ w.stack[i] = [s.stack[i] EXCEPT !.cell = c]
      BY DEF Wrote
    <3> QED
      BY <2>1, <3>1, <3>2 DEF Wrote
  <2> QED
    BY <2>1, <2>2 DEF PlaceAt
<1>3. CASE \E b \in DOMAIN ty : \E k \in DOMAIN s.bufs[b] : q = InBuf(b, k) /\ u = Element(ty[b])
  <2>1. PICK b \in DOMAIN ty : \E k \in DOMAIN s.bufs[b] : q = InBuf(b, k) /\ u = Element(ty[b])
    BY <1>3
  <2>2. PICK k \in DOMAIN s.bufs[b] : q = InBuf(b, k) /\ u = Element(ty[b])
    BY <2>1
  <2>3. b \in DOMAIN ty2 /\ ty2[b] = ty[b]
    BY DEF Written
  <2>4. k \in DOMAIN w.bufs[b]
    BY <2>2, BufsExist DEF Wrote
  <2> QED
    BY <2>2, <2>3, <2>4 DEF PlaceAt
<1> QED
  BY <1>1, <1>2, <1>3 DEF PlaceAt

LEMMA WrittenCells ==
  ASSUME NEW ty, NEW s, StateFits(ty, s), NEW p, NEW c, NEW g, NEW m, NEW w, Wrote(s, w, p, c, g, m),
         NEW ty2, Written(s, ty, ty2, g, m), NEW q, q \in Places(w)
  PROVE  \/ q \in Places(s) /\ q # p /\ Cell(w, q) = Cell(s, q) /\ \A b, k : q = InBuf(b, k) => b \notin DOMAIN g
         \/ q \in Places(s) /\ q = p /\ Cell(w, q) = c /\ \A b, k : q = InBuf(b, k) => b \notin DOMAIN g
         \/ \E b \in DOMAIN g : \E k \in DOMAIN g[b] : q = InBuf(b, k) /\ Cell(w, q) = g[b][k]
<1>1. CASE \E v \in Vars : q = InVar(v)
  <2>1. PICK v \in Vars : q = InVar(v)
    BY <1>1
  <2>2. q \in Places(s) /\ Cell(w, q) = w.vars[v] /\ Cell(s, q) = s.vars[v]
    BY <2>1, PlacesAre, CellIs
  <2>3. w.vars[v] = IF p = q THEN c ELSE s.vars[v]
    BY <2>1 DEF Wrote
  <2> QED
    BY <2>1, <2>2, <2>3, PlaceFacts
<1>2. CASE \E i \in DOMAIN w.stack : w.stack[i].kind = "value" /\ q = InStack(i)
  <2>1. PICK i \in DOMAIN w.stack : w.stack[i].kind = "value" /\ q = InStack(i)
    BY <1>2
  <2>2. i \in DOMAIN s.stack
    BY <2>1 DEF Wrote
  <2>3. w.stack[i] = IF p = q THEN [s.stack[i] EXCEPT !.cell = c] ELSE s.stack[i]
    BY <2>1, <2>2 DEF Wrote
  <2>4. s.stack[i] \in Entry(DOMAIN ty)
    BY <2>2 DEF StateFits, StackFits
  <2>5. s.stack[i].kind = "value" /\ (p = q => w.stack[i].cell = c)
    <3>1. CASE s.stack[i].kind = "value"
      <4>1. s.stack[i] \in [kind : {"value"}, type : Type, cell : CellSet(DOMAIN ty)]
        BY <3>1, <2>4 DEF Entry
      <4> QED
        BY <4>1, <3>1, <2>3
    <3>2. CASE s.stack[i].kind # "value"
      <4>1. s.stack[i] \in [kind : {"address"}, type : Type, at : PlaceSet(DOMAIN ty),
                            use : {"read", "write"}, var : Vars, keys : Seq(Nat)]
        BY <3>2, <2>4 DEF Entry
      <4>2. w.stack[i].kind = "address"
        BY <4>1, <2>3
      <4> QED
        BY <4>2, <2>1
    <3> QED
      BY <3>1, <3>2
  <2>6. q \in Places(s) /\ Cell(w, q) = w.stack[i].cell /\ Cell(s, q) = s.stack[i].cell
    BY <2>1, <2>2, <2>5, PlacesAre, CellIs
  <2> QED
    BY <2>1, <2>3, <2>5, <2>6, PlaceFacts
<1>3. CASE \E b \in DOMAIN w.bufs : \E k \in DOMAIN w.bufs[b] : q = InBuf(b, k)
  <2>1. PICK b \in DOMAIN w.bufs : \E k \in DOMAIN w.bufs[b] : q = InBuf(b, k)
    BY <1>3
  <2>2. PICK k \in DOMAIN w.bufs[b] : q = InBuf(b, k)
    BY <2>1
  <2>3. Cell(w, q) = w.bufs[b][k] /\ \A d, j : q = InBuf(d, j) => d = b /\ j = k
    BY <2>2, CellIs, PlaceFacts
  <2>4. CASE b \in DOMAIN g
    <3>1. w.bufs[b] = g[b]
      BY <2>4 DEF Wrote
    <3> QED
      BY <2>2, <2>3, <2>4, <3>1
  <2>5. CASE b \notin DOMAIN g
    <3>1. b \in DOMAIN s.bufs /\ w.bufs[b] = [j \in DOMAIN s.bufs[b] |-> IF p = InBuf(b, j) THEN c ELSE s.bufs[b][j]]
      BY <2>1, <2>5 DEF Wrote
    <3>2. k \in DOMAIN s.bufs[b] /\ w.bufs[b][k] = IF p = q THEN c ELSE s.bufs[b][k]
      BY <2>2, <3>1
    <3>3. q \in Places(s) /\ Cell(s, q) = s.bufs[b][k]
      BY <2>2, <3>1, <3>2, PlacesAre, CellIs
    <3> QED
      BY <2>3, <2>5, <3>2, <3>3
  <2> QED
    BY <2>4, <2>5
<1> QED
  BY <1>1, <1>2, <1>3, PlacesAre

(* The write leaves the way alone: it changes no cell and no contents on   *)
(* it, and makes no cell point into it.                                    *)
OffWay(keys, at, p, c, g) ==
  \A i \in 0 .. Len(keys) - 1 :
    /\ at[i] # p /\ Through(at, i) \notin DOMAIN g /\ c.buf # Through(at, i)
    /\ \A b \in DOMAIN g : \A k \in DOMAIN g[b] : g[b][k].buf # Through(at, i)

LEMMA WayKept ==
  ASSUME TypesFit, NEW ty, NEW s, StateFits(ty, s), NEW p, NEW c, NEW g, NEW m, NEW w, Wrote(s, w, p, c, g, m),
         NEW ty2, Written(s, ty, ty2, g, m),
         NEW v, NEW keys, NEW at, WayTo(ty, s, v, keys, at), OffWay(keys, at, p, c, g)
  PROVE  WayTo(ty2, w, v, keys, at)
<1>1. SUFFICES ASSUME NEW i \in 0 .. Len(keys) - 1
               PROVE  OnWay(ty2, w, v, keys, at, i)
  BY DEF WayTo
<1> DEFINE b == Through(at, i)
<1>2. /\ b \in DOMAIN s.bufs /\ ty[b] = Rest(types[v], i)
      /\ at[i + 1] = InBuf(b, keys[i + 1])
      /\ keys[i + 1] \in DOMAIN s.bufs[b]
      /\ Cell(s, at[i]).buf = b
  BY WayStep
<1>3. /\ at[i] # p /\ b \notin DOMAIN g /\ c.buf # b
      /\ \A d \in DOMAIN g : \A k \in DOMAIN g[d] : g[d][k].buf # b
  BY DEF OffWay
<1>4. Alone(s, b, at[i])
  BY WayAlone
<1>5. i \in 0 .. Len(keys) /\ Len(keys) \in Nat
  BY DEF WayTo
<1> HIDE DEF b
<1>6. \A d, k : at[i] = InBuf(d, k) => d \notin DOMAIN g
  <2>1. CASE i = 0
    <3>1. at[i] = InVar(v)
      BY <2>1 DEF WayTo
    <3>2. at[i][1] = "var"
      BY <3>1, PlaceFacts
    <3> QED
      BY <3>2, PlaceFacts
  <2>2. CASE i > 0
    <3>1. PICK h \in 0 .. Len(keys) - 1 : i = h + 1
      BY <2>2, <1>5
    <3>2. at[i] = InBuf(Through(at, h), keys[i]) /\ Through(at, h) \notin DOMAIN g
      BY <3>1, WayStep DEF OffWay
    <3>3. at[i][2] \notin DOMAIN g
      BY <3>2, PlaceFacts
    <3> HIDE <3>2
    <3> QED
      BY <3>3, PlaceFacts
  <2> QED
    BY <2>1, <2>2
<1>7. at[i] \in Places(w)
  <2>1. PlaceAt(ty, s, at[i], Rest(types[v], i))
    BY <1>5, WayPlaces
  <2>2. PlaceAt(ty2, w, at[i], Rest(types[v], i))
    BY <1>6, <2>1, PlaceKept
  <2>3. DOMAIN w.bufs = DOMAIN ty2
    BY BufsExist DEF Wrote, Written
  <2> QED
    BY <2>2, <2>3, PlacesAre DEF PlaceAt
<1>8. Cell(w, at[i]).buf = b
  BY <1>2, <1>3, <1>6, <1>7, WrittenCells, PlaceFacts
<1>9. ASSUME NEW q \in Places(w), Cell(w, q).buf = b
      PROVE  q = at[i]
  <2>1. Cell(w, q) # c /\ ~ \E d \in DOMAIN g : \E k \in DOMAIN g[d] : Cell(w, q) = g[d][k]
    BY <1>3, <1>9
  <2>2. q \in Places(s) /\ Cell(w, q) = Cell(s, q)
    BY <2>1, WrittenCells
  <2> QED
    BY <2>2, <1>4, <1>9 DEF Alone
<1>10. Unique(w, b)
  BY <1>7, <1>8, <1>9 DEF Unique
<1>11. b \in DOMAIN w.bufs /\ ty2[b] = Rest(types[v], i)
  BY <1>2, BufsExist DEF Wrote, Written
<1>12. keys[i + 1] \in DOMAIN w.bufs[b]
  BY <1>2, <1>3 DEF Wrote
<1> QED
  BY <1>2, <1>8, <1>10, <1>11, <1>12 DEF OnWay

-----------------------------------------------------------------------------
(* A sequence of writes at the place p, of type t: the state still fits,   *)
(* p is still a place, and the ways that do not go through p remain.       *)

Off(keys, at, p) == \A i \in 0 .. Len(keys) - 1 : at[i] # p

WaysOff(ty, s, ty2, w, p) ==
  \A v, keys, at : WayTo(ty, s, v, keys, at) /\ Off(keys, at, p) => WayTo(ty2, w, v, keys, at)
AllWays(ty, s, ty2, w) == \A v, keys, at : WayTo(ty, s, v, keys, at) => WayTo(ty2, w, v, keys, at)

SameStack(s, w, p) ==
  /\ DOMAIN w.stack = DOMAIN s.stack
  /\ \A i \in DOMAIN s.stack :
       /\ p # InStack(i) => w.stack[i] = s.stack[i]
       /\ w.stack[i].kind = s.stack[i].kind /\ w.stack[i].type = s.stack[i].type

Keeps(ty, s, ty2, w, p, t) ==
  /\ StateFits(ty2, w) /\ MoreOf(ty, ty2)
  /\ PlaceAt(ty, s, p, t) /\ PlaceAt(ty2, w, p, t)
  /\ SameStack(s, w, p)
  /\ WaysOff(ty, s, ty2, w, p)

LEMMA KeepsSelf ==
  ASSUME NEW ty, NEW s, StateFits(ty, s), NEW p, NEW t, PlaceAt(ty, s, p, t)
  PROVE  Keeps(ty, s, ty, s, p, t) /\ AllWays(ty, s, ty, s)
BY DEF Keeps, MoreOf, SameStack, WaysOff, AllWays

LEMMA KeepsThen ==
  ASSUME NEW ty, NEW s, NEW ty2, NEW w, NEW ty3, NEW x, NEW p, NEW t,
         Keeps(ty, s, ty2, w, p, t), Keeps(ty2, w, ty3, x, p, t)
  PROVE  /\ Keeps(ty, s, ty3, x, p, t)
         /\ AllWays(ty, s, ty2, w) /\ AllWays(ty2, w, ty3, x) => AllWays(ty, s, ty3, x)
<1>1. MoreOf(ty, ty3)
  BY DEF Keeps, MoreOf
<1>2. SameStack(s, x, p)
  BY DEF Keeps, SameStack
<1>3. WaysOff(ty, s, ty3, x, p)
  BY DEF Keeps, WaysOff
<1>4. AllWays(ty, s, ty2, w) /\ AllWays(ty2, w, ty3, x) => AllWays(ty, s, ty3, x)
  BY DEF AllWays
<1> QED
  BY <1>1, <1>2, <1>3, <1>4 DEF Keeps

LEMMA PlaceHasType ==
  ASSUME NEW ty, NEW s, StateFits(ty, s), NEW q \in Places(s)
  PROVE  \E u : PlaceAt(ty, s, q, u)
<1>1. CASE \E v \in Vars : q = InVar(v)
  BY <1>1 DEF PlaceAt
<1>2. CASE \E i \in DOMAIN s.stack : s.stack[i].kind = "value" /\ q = InStack(i)
  BY <1>2 DEF PlaceAt
<1>3. CASE \E b \in DOMAIN s.bufs : \E k \in DOMAIN s.bufs[b] : q = InBuf(b, k)
  <2>1. PICK b \in DOMAIN ty : \E k \in DOMAIN s.bufs[b] : q = InBuf(b, k)
    BY <1>3, BufsExist
  <2>2. PlaceAt(ty, s, q, Element(ty[b]))
    BY <2>1 DEF PlaceAt
  <2> QED
    BY <2>2
<1> QED
  BY <1>1, <1>2, <1>3, PlacesAre

LEMMA PointsTo ==
  ASSUME TypesFit, NEW ty, NEW s, StateFits(ty, s), NEW q \in Places(s)
  PROVE  Cell(s, q).buf = Null \/ Cell(s, q).buf \in DOMAIN ty
<1>1. PICK u : PlaceAt(ty, s, q, u)
  BY PlaceHasType
<1> QED
  BY <1>1, PlaceAtFits, FitsFacts, BufsExist

LEMMA WroteKeeps ==
  ASSUME TypesFit, NEW ty, NEW s, StateFits(ty, s), NEW p, NEW t, PlaceAt(ty, s, p, t),
         NEW c, NEW g, NEW m, NEW w, Wrote(s, w, p, c, g, m),
         NEW ty2, Written(s, ty, ty2, g, m), Fits(ty2, c, t),
         \A b, k : p = InBuf(b, k) => b \notin DOMAIN g,
         \A v, keys, at : WayTo(ty, s, v, keys, at) /\ Off(keys, at, p) => OffWay(keys, at, p, c, g)
  PROVE  Keeps(ty, s, ty2, w, p, t) /\ Cell(w, p) = c /\ \A b \in DOMAIN g : w.bufs[b] = g[b]
<1>1. StateFits(ty2, w)
  BY WroteFits
<1>2. MoreOf(ty, ty2)
  BY DEF Written, MoreOf
<1>3. PlaceAt(ty2, w, p, t)
  BY PlaceKept
<1>4. SameStack(s, w, p)
  <2>1. ASSUME NEW i \in DOMAIN s.stack
        PROVE  /\ p # InStack(i) => w.stack[i] = s.stack[i]
               /\ w.stack[i].kind = s.stack[i].kind /\ w.stack[i].type = s.stack[i].type
    <3>1. CASE p = InStack(i)
      <4>1. s.stack[i].kind = "value"
        BY <3>1, PlaceFacts DEF PlaceAt
      <4>2. s.stack[i] \in [kind : {"value"}, type : Type, cell : CellSet(DOMAIN ty)]
        BY <4>1 DEF StateFits, StackFits, Entry
      <4>3. w.stack[i] = [s.stack[i] EXCEPT !.cell = c]
        BY <3>1 DEF Wrote
      <4> QED
        BY <3>1, <4>2, <4>3
    <3>2. CASE p # InStack(i)
      BY <3>2 DEF Wrote
    <3> QED
      BY <3>1, <3>2
  <2> QED
    BY <2>1 DEF SameStack, Wrote
<1>5. WaysOff(ty, s, ty2, w, p)
  BY WayKept DEF WaysOff
<1>6. Cell(w, p) = c
  <2>1. p \in Places(w)
    BY <1>1, <1>3, PlaceAtFits
  <2>2. ~ \E b \in DOMAIN g : \E k \in DOMAIN g[b] : p = InBuf(b, k)
    OBVIOUS
  <2> QED
    BY <2>1, <2>2, WrittenCells
<1>7. \A b \in DOMAIN g : w.bufs[b] = g[b]
  BY DEF Wrote
<1> QED
  BY <1>1, <1>2, <1>3, <1>4, <1>5, <1>6, <1>7 DEF Keeps

(* The cell at p is the only one that points to its vector or map, of type *)
(* t.                                                                      *)
Owns(ty, s, p, t) ==
  /\ Cell(s, p).buf \in DOMAIN s.bufs /\ ty[Cell(s, p).buf] = t
  /\ Alone(s, Cell(s, p).buf, p)
  /\ ContentsFit(ty, Contents(s, p), t)

(* No element of f points into a way that does not go through p.           *)
Outside(ty, s, p, f) ==
  \A v, keys, at : WayTo(ty, s, v, keys, at) /\ Off(keys, at, p) =>
    \A i \in 0 .. Len(keys) - 1 : \A k \in DOMAIN f : f[k].buf # Through(at, i)

LEMMA MadeKeeps ==
  ASSUME TypesFit, NEW ty, NEW s, StateFits(ty, s), NEW p, NEW t, PlaceAt(ty, s, p, t), IsContainer(t),
         NEW f, ContentsFit(ty, f, t), Outside(ty, s, p, f)
  PROVE  \E ty2 : /\ Keeps(ty, s, ty2, Made(s, p, f), p, t)
                  /\ Owns(ty2, Made(s, p, f), p, t)
                  /\ Contents(Made(s, p, f), p) = f
<1> DEFINE b == <<"new", s.made + 1>>
           w == Made(s, p, f)
           g == [x \in {b} |-> f]
           ty2 == [d \in DOMAIN ty \cup {b} |-> IF d = b THEN t ELSE ty[d]]
<1>1. /\ b \notin DOMAIN s.bufs /\ Wrote(s, w, p, Shared(b), g, s.made + 1)
      /\ p \in Places(s) /\ RankedType(t)
  BY PlaceAtFits, MadeWrites DEF ContentsFit
<1>2. DOMAIN g = {b} /\ g[b] = f /\ DOMAIN s.bufs = DOMAIN ty /\ Null \notin DOMAIN ty /\ Null # b
  BY BufsExist DEF Null
<1>3. \A d \in DOMAIN ty : ty2[d] = ty[d]
  BY <1>1, <1>2
<1>4. ty2[b] = t /\ DOMAIN ty2 = DOMAIN ty \cup {b} /\ ty2 = [d \in DOMAIN ty \cup {b} |-> ty2[d]]
  OBVIOUS
<1>5. s.made \in Nat /\ \A n \in Nat : n > s.made + 1 => <<"new", n>> # b
  BY DEF StateFits, FreshNames
<1> HIDE DEF b, w, g, ty2
<1>6. ContentsFit(ty2, f, t)
  BY <1>3, <1>4, MoreTypes DEF ContentsFit
<1>7. Written(s, ty, ty2, g, s.made + 1)
  BY <1>1, <1>2, <1>3, <1>4, <1>5, <1>6 DEF Written
<1>8. Fits(ty2, Shared(b), t)
  BY <1>4 DEF Fits
<1>9. \A d, k : p = InBuf(d, k) => d \notin DOMAIN g
  BY <1>1, <1>2, PlacesAre, PlaceFacts
<1>10. ASSUME NEW v, NEW keys, NEW at, WayTo(ty, s, v, keys, at), Off(keys, at, p)
       PROVE  OffWay(keys, at, p, Shared(b), g)
  <2>1. \A i \in 0 .. Len(keys) - 1 : Through(at, i) \in DOMAIN s.bufs
    BY <1>10, WayStep
  <2>2. Shared(b).buf = b
    BY CellFacts
  <2> QED
    BY <1>1, <1>2, <1>10, <2>1, <2>2 DEF OffWay, Off, Outside
<1>11. Keeps(ty, s, ty2, w, p, t) /\ Cell(w, p) = Shared(b) /\ w.bufs[b] = f
  BY <1>1, <1>2, <1>7, <1>8, <1>9, <1>10, WroteKeeps
<1>12. Cell(w, p).buf = b /\ b \in DOMAIN w.bufs /\ Contents(w, p) = f
  BY <1>1, <1>2, <1>11, CellFacts DEF Wrote, Contents
<1>13. Alone(w, b, p)
  <2>1. p \in Places(w)
    BY <1>11, PlaceAtFits DEF Keeps
  <2>2. ASSUME NEW q \in Places(w), Cell(w, q).buf = b
        PROVE  q = p
    <3>1. CASE q \in Places(s) /\ Cell(w, q) = Cell(s, q)
      BY <1>1, <1>2, <2>2, <3>1, PointsTo
    <3>2. CASE \E d \in DOMAIN g : \E k \in DOMAIN g[d] : Cell(w, q) = g[d][k]
      <4>1. PICK k \in DOMAIN f : Cell(w, q) = f[k]
        BY <1>2, <3>2
      <4>2. f[k].buf = Null \/ f[k].buf \in DOMAIN ty
        BY <1>2, FitsFacts DEF ContentsFit
      <4> QED
        BY <1>1, <1>2, <2>2, <4>1, <4>2
    <3> QED
      BY <1>1, <1>7, <3>1, <3>2, WrittenCells
  <2> QED
    BY <1>12, <2>1, <2>2 DEF Alone
<1> QED
  BY <1>4, <1>6, <1>11, <1>12, <1>13 DEF Owns, w

LEMMA SetContentsKeeps ==
  ASSUME TypesFit, NEW ty, NEW s, StateFits(ty, s), NEW p, NEW t, PlaceAt(ty, s, p, t), IsContainer(t),
         Owns(ty, s, p, t), NEW f, ContentsFit(ty, f, t), Outside(ty, s, p, f)
  PROVE  /\ Keeps(ty, s, ty, SetContents(s, p, f), p, t)
         /\ Owns(ty, SetContents(s, p, f), p, t)
         /\ Contents(SetContents(s, p, f), p) = f
<1> DEFINE b == Cell(s, p).buf
           c == Cell(s, p)
           w == SetContents(s, p, f)
           g == [x \in {b} |-> f]
<1>1. /\ p \in Places(s) /\ RankedType(t) /\ Fits(ty, c, t)
      /\ b \in DOMAIN s.bufs /\ ty[b] = t /\ Alone(s, b, p)
  BY PlaceAtFits DEF Owns
<1>2. DOMAIN g = {b} /\ g[b] = f /\ DOMAIN s.bufs = DOMAIN ty /\ Null \notin DOMAIN ty
  BY BufsExist
<1>3. t # Element(t)
  BY <1>1, TypeFacts DEF RankedType
<1>4. \A d, k : p = InBuf(d, k) => d # b
  BY <1>1, <1>3, PlaceFacts DEF PlaceAt
<1>5. \A i : p = InStack(i) => s.stack[i] = [s.stack[i] EXCEPT !.cell = c]
  <2>1. ASSUME NEW i, p = InStack(i)
        PROVE  s.stack[i] = [s.stack[i] EXCEPT !.cell = c]
    <3>1. i \in DOMAIN s.stack /\ s.stack[i].kind = "value" /\ c = s.stack[i].cell
      BY <2>1, PlaceFacts, CellIs DEF PlaceAt
    <3>2. s.stack[i] \in [kind : {"value"}, type : Type, cell : CellSet(DOMAIN ty)]
      BY <3>1 DEF StateFits, StackFits, Entry
    <3> QED
      BY <3>1, <3>2
  <2> QED
    BY <2>1
<1>6. Wrote(s, w, p, c, g, s.made)
  BY <1>1, <1>4, <1>5, FitsShaped, SetContentsWrites
<1>7. s.made \in Nat
  BY DEF StateFits, FreshNames
<1>8. ty = [d \in DOMAIN ty |-> ty[d]] /\ \A n \in Nat : n > s.made => <<"new", n>> \notin DOMAIN s.bufs
  BY DEF StateFits, BufsFit, FreshNames
<1> HIDE DEF b, w, g, c
<1>9. Written(s, ty, ty, g, s.made)
  BY <1>1, <1>2, <1>7, <1>8 DEF Written
<1>10. ASSUME NEW v, NEW keys, NEW at, WayTo(ty, s, v, keys, at), Off(keys, at, p)
       PROVE  OffWay(keys, at, p, c, g)
  <2>1. ASSUME NEW i \in 0 .. Len(keys) - 1
        PROVE  b # Through(at, i)
    <3>1. Alone(s, Through(at, i), at[i]) /\ at[i] # p
      BY <1>10, WayAlone DEF Off
    <3> QED
      BY <1>1, <3>1 DEF Alone
  <2>2. b = c.buf
    BY DEF b, c
  <2> QED
    BY <1>2, <1>10, <2>1, <2>2 DEF OffWay, Off, Outside
<1>11. Keeps(ty, s, ty, w, p, t) /\ Cell(w, p) = c /\ w.bufs[b] = f
  BY <1>1, <1>2, <1>4, <1>6, <1>9, <1>10, WroteKeeps
<1>12. Cell(w, p).buf = b /\ b \in DOMAIN w.bufs /\ Contents(w, p) = f
  BY <1>1, <1>6, <1>11 DEF Wrote, Contents, b, c
<1>13. Alone(w, b, p)
  <2>1. p \in Places(w)
    BY <1>11, PlaceAtFits DEF Keeps
  <2>2. ASSUME NEW q \in Places(w), Cell(w, q).buf = b
        PROVE  q = p
    <3>1. CASE q \in Places(s) /\ Cell(w, q) = Cell(s, q)
      BY <1>1, <2>2, <3>1 DEF Alone
    <3>2. CASE \E d \in DOMAIN g : \E k \in DOMAIN g[d] : Cell(w, q) = g[d][k]
      <4>1. PICK k \in DOMAIN f : Cell(w, q) = f[k]
        BY <1>2, <3>2
      <4>2. f[k].buf = Null \/ ty[f[k].buf] = Element(t)
        BY <1>2, FitsFacts DEF ContentsFit
      <4> QED
        BY <1>1, <1>2, <1>3, <2>2, <4>1, <4>2
    <3> QED
      BY <1>6, <1>9, <3>1, <3>2, WrittenCells
  <2> QED
    BY <1>12, <2>1, <2>2 DEF Alone
<1> QED
  BY <1>1, <1>11, <1>12, <1>13 DEF Owns, w

(* Where the cells come from that are written at the place p: from what p  *)
(* leads to, or from the operand stack; not from a way that p is not on.   *)
From(s, p, x) ==
  \/ x.buf = Null
  \/ \E j \in DOMAIN Contents(s, p) : Cell(s, p).buf \in DOMAIN s.bufs /\ x.buf = Contents(s, p)[j].buf
  \/ \E i \in DOMAIN s.stack : s.stack[i].kind = "value" /\ x.buf = s.stack[i].cell.buf

LEMMA FromOutside ==
  ASSUME TypesFit, NEW ty, NEW s, StateFits(ty, s), NEW p, NEW t, PlaceAt(ty, s, p, t), NEW x, From(s, p, x),
         NEW v, NEW keys, NEW at, WayTo(ty, s, v, keys, at), Off(keys, at, p), NEW i \in 0 .. Len(keys) - 1
  PROVE  x.buf # Through(at, i)
<1>1. /\ Through(at, i) \in DOMAIN s.bufs /\ Alone(s, Through(at, i), at[i])
      /\ i \in 0 .. Len(keys) /\ Len(keys) \in Nat
  BY WayStep, WayAlone DEF WayTo
<1>2. CASE x.buf = Null
  BY <1>1, <1>2, BufsExist
<1>3. CASE \E j \in DOMAIN Contents(s, p) : Cell(s, p).buf \in DOMAIN s.bufs /\ x.buf = Contents(s, p)[j].buf
  <2>1. PICK j \in DOMAIN Contents(s, p) : Cell(s, p).buf \in DOMAIN s.bufs /\ x.buf = Contents(s, p)[j].buf
    BY <1>3
  <2> DEFINE b == Cell(s, p).buf
             q == InBuf(b, j)
  <2>2. q \in Places(s) /\ Cell(s, q).buf = x.buf
    BY <2>1, PlacesAre, CellIs DEF Contents
  <2>3. SUFFICES ASSUME x.buf = Through(at, i)
                 PROVE  FALSE
    OBVIOUS
  <2>4. q = at[i]
    BY <1>1, <2>2, <2>3 DEF Alone
  <2>5. at[i][1] = "buf" /\ at[i][2] = b
    BY <2>4, PlaceFacts
  <2>6. i # 0
    <3>1. at[0][1] = "var"
      BY PlaceFacts DEF WayTo
    <3> QED
      BY <2>5, <3>1
  <2>7. PICK h \in 0 .. Len(keys) - 1 : i = h + 1
    BY <1>1, <2>6
  <2>8. b = Through(at, h) /\ Alone(s, Through(at, h), at[h]) /\ at[h] # p
    BY <2>5, <2>7, WayAlone DEF Through, Off
  <2>9. p \in Places(s)
    BY PlaceAtFits
  <2> QED
    BY <2>8, <2>9 DEF Alone
<1>4. CASE \E k \in DOMAIN s.stack : s.stack[k].kind = "value" /\ x.buf = s.stack[k].cell.buf
  <2>1. PICK k \in DOMAIN s.stack : s.stack[k].kind = "value" /\ x.buf = s.stack[k].cell.buf
    BY <1>4
  <2>2. InStack(k) \in Places(s) /\ Cell(s, InStack(k)).buf = x.buf
    BY <2>1, PlacesAre, CellIs
  <2>3. at[i] # InStack(k)
    BY <1>1, WayPlaces
  <2> QED
    BY <1>1, <2>2, <2>3 DEF Alone
<1> QED
  BY <1>2, <1>3, <1>4 DEF From

LEMMA OutsideFrom ==
  ASSUME TypesFit, NEW ty, NEW s, StateFits(ty, s), NEW p, NEW t, PlaceAt(ty, s, p, t),
         NEW f, \A k \in DOMAIN f : From(s, p, f[k])
  PROVE  Outside(ty, s, p, f)
BY FromOutside DEF Outside

LEMMA SetCellKeeps ==
  ASSUME TypesFit, NEW ty, NEW s, StateFits(ty, s), NEW p, NEW t, PlaceAt(ty, s, p, t),
         NEW c, Fits(ty, c, t), From(s, p, c)
  PROVE  Keeps(ty, s, ty, SetCell(s, p, c), p, t) /\ Cell(SetCell(s, p, c), p) = c
<1> DEFINE w == SetCell(s, p, c)
<1>1. Wrote(s, w, p, c, NoBufs, s.made)
  BY PlaceAtFits, FitsShaped, SetCellWrites
<1>2. s.made \in Nat /\ ty = [d \in DOMAIN ty |-> ty[d]]
  BY DEF StateFits, BufsFit, FreshNames
<1> HIDE DEF w
<1>3. Written(s, ty, ty, NoBufs, s.made)
  BY <1>2, NoBufsFacts DEF Written
<1>4. ASSUME NEW v, NEW keys, NEW at, WayTo(ty, s, v, keys, at), Off(keys, at, p)
      PROVE  OffWay(keys, at, p, c, NoBufs)
  BY <1>4, FromOutside, NoBufsFacts DEF OffWay, Off
<1> QED
  BY <1>1, <1>3, <1>4, NoBufsFacts, WroteKeeps DEF w

-----------------------------------------------------------------------------
(* The contents of arrays and dictionaries.                                *)

LEMMA ArraySize ==
  ASSUME NEW f, NEW n \in Nat, DOMAIN f = 0 .. (n - 1)
  PROVE  Size(f) = n
<1>1. Cardinality(0 .. (n - 1)) = IF 0 > n - 1 THEN 0 ELSE (n - 1) - 0 + 1
  BY FS_Interval
<1> QED
  BY <1>1 DEF Size

LEMMA NoneFits ==
  ASSUME NEW ty, NEW t
  PROVE  Fits(ty, None, t)
BY DEF Fits

LEMMA EmptyFits ==
  ASSUME NEW ty, NEW t
  PROVE  ContentsFit(ty, << >>, t)
<1>1. DOMAIN << >> = {} /\ << >> = [k \in DOMAIN << >> |-> << >>[k]]
  OBVIOUS
<1>2. {} = 0 .. (0 - 1)
  OBVIOUS
<1> QED
  BY <1>1, <1>2 DEF ContentsFit

LEMMA GrownFits ==
  ASSUME NEW ty, NEW t, NEW f, ContentsFit(ty, f, t), NEW key \in Nat
  PROVE  LET c == Grown(f, t, key, None)
         IN  /\ ContentsFit(ty, c, t) /\ key \in DOMAIN c
             /\ \A k \in DOMAIN c : c[k] = None \/ (k \in DOMAIN f /\ c[k] = f[k])
<1> DEFINE D == DOMAIN f \cup (IF IsArray(t) THEN 0 .. key ELSE {key})
           c == Grown(f, t, key, None)
<1>1. c = [k \in D |-> IF k \in DOMAIN f THEN f[k] ELSE None]
  BY DEF Grown
<1>2. DOMAIN f \subseteq Nat /\ \A k \in DOMAIN f : Fits(ty, f[k], Element(t))
  BY DEF ContentsFit
<1>3. key \in D /\ D \subseteq Nat
  BY <1>2
<1>4. IsArray(t) => \E n \in Nat : D = 0 .. (n - 1)
  <2>1. SUFFICES ASSUME IsArray(t)
                 PROVE  \E n \in Nat : D = 0 .. (n - 1)
    OBVIOUS
  <2>2. PICK n \in Nat : DOMAIN f = 0 .. (n - 1)
    BY <2>1 DEF ContentsFit
  <2>3. CASE n <= key
    <3>1. D = 0 .. ((key + 1) - 1)
      BY <2>1, <2>2, <2>3
    <3> QED
      BY <3>1
  <2>4. CASE n > key
    <3>1. D = 0 .. (n - 1)
      BY <2>1, <2>2, <2>4
    <3> QED
      BY <3>1
  <2> QED
    BY <2>3, <2>4
<1> HIDE DEF c, D
<1>5. \A k \in DOMAIN c : c[k] = None \/ (k \in DOMAIN f /\ c[k] = f[k])
  <2>1. ASSUME NEW k \in DOMAIN c
        PROVE  c[k] = None \/ (k \in DOMAIN f /\ c[k] = f[k])
    <3>1. k \in D
      BY <1>1
    <3>2. c[k] = IF k \in DOMAIN f THEN f[k] ELSE None
      BY <3>1, <1>1
    <3> QED
      BY <3>2
  <2> QED
    BY <2>1
<1>6. ContentsFit(ty, c, t)
  <2>1. \A k \in DOMAIN c : Fits(ty, c[k], Element(t))
    BY <1>2, <1>5, NoneFits
  <2>2. DOMAIN c = D /\ c = [k \in DOMAIN c |-> c[k]]
    BY <1>1
  <2> QED
    BY <1>3, <1>4, <2>1, <2>2 DEF ContentsFit
<1> QED
  BY <1>1, <1>3, <1>5, <1>6 DEF c

LEMMA AppendedFits ==
  ASSUME NEW ty, NEW t, IsArray(t), NEW f, ContentsFit(ty, f, t), NEW x, Fits(ty, x, Element(t))
  PROVE  LET c == Appended(f, x)
         IN  ContentsFit(ty, c, t) /\ \A k \in DOMAIN c : c[k] = x \/ (k \in DOMAIN f /\ c[k] = f[k])
<1> DEFINE c == Appended(f, x)
<1>1. PICK n \in Nat : DOMAIN f = 0 .. (n - 1)
  BY DEF ContentsFit
<1>2. c = [k \in 0 .. n |-> IF k \in DOMAIN f THEN f[k] ELSE x]
  BY <1>1, ArraySize DEF Appended
<1> HIDE DEF c
<1>3. \A k \in DOMAIN c : c[k] = x \/ (k \in DOMAIN f /\ c[k] = f[k])
  <2>1. ASSUME NEW k \in DOMAIN c
        PROVE  c[k] = x \/ (k \in DOMAIN f /\ c[k] = f[k])
    <3>1. k \in 0 .. n
      BY <1>2
    <3>2. c[k] = IF k \in DOMAIN f THEN f[k] ELSE x
      BY <3>1, <1>2
    <3> QED
      BY <3>2
  <2> QED
    BY <2>1
<1>4. \A k \in DOMAIN c : Fits(ty, c[k], Element(t))
  BY <1>3 DEF ContentsFit
<1>5. DOMAIN c = 0 .. ((n + 1) - 1) /\ c = [k \in DOMAIN c |-> c[k]] /\ DOMAIN c \subseteq Nat /\ n + 1 \in Nat
  BY <1>2
<1> QED
  BY <1>3, <1>4, <1>5 DEF ContentsFit, c

LEMMA ResizedFits ==
  ASSUME NEW ty, NEW t, NEW f, ContentsFit(ty, f, t), NEW n \in Nat
  PROVE  LET c == Resized(f, n, None)
         IN  ContentsFit(ty, c, t) /\ \A k \in DOMAIN c : c[k] = None \/ (k \in DOMAIN f /\ c[k] = f[k])
<1> DEFINE c == Resized(f, n, None)
<1>1. c = [k \in 0 .. (n - 1) |-> IF k \in DOMAIN f THEN f[k] ELSE None]
  BY DEF Resized
<1> HIDE DEF c
<1>2. \A k \in DOMAIN c : c[k] = None \/ (k \in DOMAIN f /\ c[k] = f[k])
  <2>1. ASSUME NEW k \in DOMAIN c
        PROVE  c[k] = None \/ (k \in DOMAIN f /\ c[k] = f[k])
    <3>1. k \in 0 .. (n - 1)
      BY <1>1
    <3>2. c[k] = IF k \in DOMAIN f THEN f[k] ELSE None
      BY <3>1, <1>1
    <3> QED
      BY <3>2
  <2> QED
    BY <2>1
<1>3. \A k \in DOMAIN c : Fits(ty, c[k], Element(t))
  BY <1>2, NoneFits DEF ContentsFit
<1>4. DOMAIN c = 0 .. (n - 1) /\ c = [k \in DOMAIN c |-> c[k]] /\ DOMAIN c \subseteq Nat
  BY <1>1
<1> QED
  BY <1>2, <1>3, <1>4 DEF ContentsFit, c

LEMMA RemovedFits ==
  ASSUME NEW ty, NEW t, NEW f, ContentsFit(ty, f, t), NEW key \in Nat, key \in DOMAIN f \/ ~IsArray(t)
  PROVE  LET c == Removed(f, t, key)
         IN  ContentsFit(ty, c, t) /\ \A k \in DOMAIN c : \E j \in DOMAIN f : c[k] = f[j]
<1> DEFINE c == Removed(f, t, key)
<1>1. CASE IsArray(t)
  <2>1. PICK n \in Nat : DOMAIN f = 0 .. (n - 1)
    BY <1>1 DEF ContentsFit
  <2>2. key \in 0 .. (n - 1)
    BY <1>1, <2>1
  <2>3. c = [k \in 0 .. (n - 2) |-> f[IF k < key THEN k ELSE k + 1]]
    BY <1>1, <2>1, ArraySize DEF Removed
  <2> HIDE DEF c
  <2>4. ASSUME NEW k \in DOMAIN c
        PROVE  \E j \in DOMAIN f : c[k] = f[j]
    <3>1. k \in 0 .. (n - 2) /\ c[k] = f[IF k < key THEN k ELSE k + 1]
      BY <2>3
    <3>2. (IF k < key THEN k ELSE k + 1) \in 0 .. (n - 1)
      BY <2>2, <3>1
    <3> QED
      BY <2>1, <3>1, <3>2
  <2>5. \A k \in DOMAIN c : Fits(ty, c[k], Element(t))
    BY <2>4 DEF ContentsFit
  <2>6. DOMAIN c = 0 .. ((n - 1) - 1) /\ c = [k \in DOMAIN c |-> c[k]] /\ DOMAIN c \subseteq Nat /\ n - 1 \in Nat
    BY <2>2, <2>3
  <2> QED
    BY <2>4, <2>5, <2>6 DEF ContentsFit, c
<1>2. CASE ~IsArray(t)
  <2>1. c = [k \in DOMAIN f \ {key} |-> f[k]]
    BY <1>2 DEF Removed
  <2> HIDE DEF c
  <2>2. \A k \in DOMAIN c : k \in DOMAIN f /\ c[k] = f[k]
    BY <2>1
  <2>3. ContentsFit(ty, c, t)
    BY <1>2, <2>1, <2>2 DEF ContentsFit
  <2> QED
    BY <2>2, <2>3 DEF c
<1> QED
  BY <1>1, <1>2

-----------------------------------------------------------------------------
(* The operations on cells.                                                *)

(* The cell at p is of type t, and is not None.                            *)
Full(ty, s, p, t) ==
  /\ Cell(s, p) # None
  /\ IsContainer(t) => /\ Cell(s, p).buf \in DOMAIN s.bufs /\ ty[Cell(s, p).buf] = t
                       /\ ContentsFit(ty, Contents(s, p), t)

LEMMA FullOrNone ==
  ASSUME TypesFit, NEW ty, NEW s, StateFits(ty, s), NEW p, NEW t, PlaceAt(ty, s, p, t)
  PROVE  /\ Full(ty, s, p, t) \/ Cell(s, p) = None
         /\ Cell(s, p).type = "None" <=> Cell(s, p) = None
<1>1. Fits(ty, Cell(s, p), t) /\ Null \notin DOMAIN ty /\ DOMAIN s.bufs = DOMAIN ty
  BY PlaceAtFits, BufsExist
<1>2. Cell(s, p).type = "None" <=> Cell(s, p) = None
  BY <1>1, FitsFacts
<1>3. ASSUME Cell(s, p) # None, IsContainer(t)
      PROVE  Full(ty, s, p, t)
  <2>1. Cell(s, p).buf \in DOMAIN ty /\ ty[Cell(s, p).buf] = t
    BY <1>1, <1>3, FitsFacts
  <2>2. ContentsFit(ty, Contents(s, p), t)
    BY <2>1 DEF StateFits, BufsFit, Contents
  <2> QED
    BY <1>1, <1>3, <2>1, <2>2 DEF Full
<1> QED
  BY <1>2, <1>3 DEF Full

LEMMA WayIsFull ==
  ASSUME TypesFit, NEW ty, NEW s, StateFits(ty, s), NEW v, NEW keys, NEW at, WayTo(ty, s, v, keys, at), NEW p,
         ~Off(keys, at, p)
  PROVE  Cell(s, p) # None /\ Unique(s, Cell(s, p).buf) /\ Cell(s, p).buf \in DOMAIN s.bufs
<1>1. PICK i \in 0 .. Len(keys) - 1 : at[i] = p
  BY DEF Off
<1>2. Cell(s, p).buf = Through(at, i) /\ Through(at, i) \in DOMAIN s.bufs /\ Unique(s, Through(at, i))
  BY <1>1, WayStep
<1> QED
  BY <1>2, BufsExist, CellFacts

LEMMA AllOff ==
  ASSUME NEW ty, NEW s, NEW ty2, NEW w, NEW p, WaysOff(ty, s, ty2, w, p),
         \A v, keys, at : WayTo(ty, s, v, keys, at) => Off(keys, at, p)
  PROVE  AllWays(ty, s, ty2, w)
BY DEF WaysOff, AllWays

LEMMA UsedKeeps ==
  ASSUME TypesFit, NEW ty, NEW s, StateFits(ty, s), NEW p, NEW t, PlaceAt(ty, s, p, t)
  PROVE  \E ty2 : LET w == Used(s, p, t)
                  IN  /\ Keeps(ty, s, ty2, w, p, t) /\ AllWays(ty, s, ty2, w)
                      /\ Full(ty2, w, p, t)
                      /\ Cell(s, p) # None => ty2 = ty /\ w = s
<1> DEFINE w == Used(s, p, t)
<1>1. CASE Cell(s, p) # None
  <2>1. w = s /\ Full(ty, s, p, t)
    BY <1>1, FullOrNone DEF Used
  <2> QED
    BY <1>1, <2>1, KeepsSelf
<1>2. CASE Cell(s, p) = None
  <2>1. \A v, keys, at : WayTo(ty, s, v, keys, at) => Off(keys, at, p)
    BY <1>2, WayIsFull
  <2>2. CASE IsContainer(t)
    <3>1. w = Made(s, p, << >>)
      BY <1>2, <2>2, FullOrNone DEF Used
    <3>2. ContentsFit(ty, << >>, t) /\ Outside(ty, s, p, << >>)
      BY EmptyFits DEF Outside
    <3>3. PICK ty2 : Keeps(ty, s, ty2, w, p, t) /\ Owns(ty2, w, p, t)
      BY <2>2, <3>1, <3>2, MadeKeeps
    <3>4. AllWays(ty, s, ty2, w)
      BY <2>1, <3>3, AllOff DEF Keeps
    <3>5. Full(ty2, w, p, t)
      <4>1. Cell(w, p) # None
        BY <3>3, BufsExist, CellFacts DEF Owns, Keeps
      <4> QED
        BY <3>3, <4>1 DEF Full, Owns
    <3> QED
      BY <1>2, <3>3, <3>4, <3>5
  <2>3. CASE ~IsContainer(t)
    <3>1. w = SetCell(s, p, Number(0))
      BY <1>2, <2>3, FullOrNone DEF Used
    <3>2. Fits(ty, Number(0), t) /\ From(s, p, Number(0)) /\ Number(0) # None
      BY <2>3, CellFacts DEF Fits, From
    <3>3. Keeps(ty, s, ty, w, p, t) /\ Cell(w, p) = Number(0)
      BY <3>1, <3>2, SetCellKeeps
    <3>4. AllWays(ty, s, ty, w)
      BY <2>1, <3>3, AllOff DEF Keeps
    <3> QED
      BY <1>2, <2>3, <3>2, <3>3, <3>4 DEF Full
  <2> QED
    BY <2>2, <2>3
<1> QED
  BY <1>1, <1>2

LEMMA DetachedKeeps ==
  ASSUME TypesFit, NEW ty, NEW s, StateFits(ty, s), NEW p, NEW t, PlaceAt(ty, s, p, t), IsContainer(t),
         Full(ty, s, p, t)
  PROVE  \E ty2 : LET w == Detached(s, p)
                  IN  /\ Keeps(ty, s, ty2, w, p, t) /\ AllWays(ty, s, ty2, w)
                      /\ Owns(ty2, w, p, t) /\ Contents(w, p) = Contents(s, p)
<1> DEFINE w == Detached(s, p)
           b == Cell(s, p).buf
<1>1. b \in DOMAIN s.bufs /\ ty[b] = t /\ ContentsFit(ty, Contents(s, p), t) /\ p \in Places(s)
  BY PlaceAtFits DEF Full
<1>2. CASE Unique(s, b)
  <2>1. w = s
    BY <1>2 DEF Detached
  <2>2. Owns(ty, s, p, t)
    BY <1>1, <1>2 DEF Unique, Owns, Alone
  <2> QED
    BY <2>1, <2>2, KeepsSelf
<1>3. CASE ~Unique(s, b)
  <2>1. w = Made(s, p, Contents(s, p))
    BY <1>3 DEF Detached
  <2>2. Outside(ty, s, p, Contents(s, p))
    BY <1>1, OutsideFrom DEF From
  <2>3. PICK ty2 : Keeps(ty, s, ty2, w, p, t) /\ Owns(ty2, w, p, t) /\ Contents(w, p) = Contents(s, p)
    BY <1>1, <2>1, <2>2, MadeKeeps
  <2>4. AllWays(ty, s, ty2, w)
    BY <1>3, <2>3, WayIsFull, AllOff DEF Keeps
  <2> QED
    BY <2>3, <2>4
<1> QED
  BY <1>2, <1>3

LEMMA ForWriteKeeps ==
  ASSUME TypesFit, NEW ty, NEW s, StateFits(ty, s), NEW p, NEW t, PlaceAt(ty, s, p, t), IsContainer(t)
  PROVE  \E ty2 : LET w == ForWrite(s, p, t)
                  IN  /\ Keeps(ty, s, ty2, w, p, t) /\ AllWays(ty, s, ty2, w) /\ Owns(ty2, w, p, t)
                      /\ Contents(w, p) = Contents(Used(s, p, t), p)
<1> DEFINE u == Used(s, p, t)
           w == ForWrite(s, p, t)
<1>1. PICK ty1 : Keeps(ty, s, ty1, u, p, t) /\ AllWays(ty, s, ty1, u) /\ Full(ty1, u, p, t)
  BY UsedKeeps
<1>2. w = Detached(u, p)
  BY DEF ForWrite
<1> HIDE DEF u, w
<1>3. StateFits(ty1, u) /\ PlaceAt(ty1, u, p, t)
  BY <1>1 DEF Keeps
<1>4. PICK ty2 : /\ Keeps(ty1, u, ty2, w, p, t) /\ AllWays(ty1, u, ty2, w) /\ Owns(ty2, w, p, t)
                 /\ Contents(w, p) = Contents(u, p)
  BY <1>1, <1>2, <1>3, DetachedKeeps
<1>5. Keeps(ty, s, ty2, w, p, t) /\ AllWays(ty, s, ty2, w)
  BY <1>1, <1>4, KeepsThen
<1> QED
  BY <1>4, <1>5 DEF u, w

LEMMA ReplacedKeeps ==
  ASSUME TypesFit, NEW ty, NEW s, StateFits(ty, s), NEW p, NEW t, PlaceAt(ty, s, p, t), IsContainer(t),
         Owns(ty, s, p, t), NEW f, ContentsFit(ty, f, t), \A k \in DOMAIN f : From(s, p, f[k]), NEW moves
  PROVE  \E ty2 : LET w == Replaced(s, p, t, f, moves)
                  IN  Keeps(ty, s, ty2, w, p, t) /\ Owns(ty2, w, p, t) /\ Contents(w, p) = f
<1>1. Outside(ty, s, p, f)
  BY OutsideFrom
<1>2. CASE moves /\ IsArray(t) /\ Size(f) > Size(Contents(s, p))
  BY <1>1, <1>2, MadeKeeps DEF Replaced
<1>3. CASE ~(moves /\ IsArray(t) /\ Size(f) > Size(Contents(s, p)))
  BY <1>1, <1>3, SetContentsKeeps DEF Replaced
<1> QED
  BY <1>2, <1>3

LEMMA WithElementKeeps ==
  ASSUME TypesFit, NEW ty, NEW s, StateFits(ty, s), NEW p, NEW t, PlaceAt(ty, s, p, t), IsContainer(t),
         Owns(ty, s, p, t), NEW key \in Nat, NEW moves
  PROVE  \E ty2 : LET w == WithElement(s, p, t, key, moves)
                  IN  /\ Keeps(ty, s, ty2, w, p, t) /\ Owns(ty2, w, p, t) /\ key \in DOMAIN Contents(w, p)
                      /\ key \in DOMAIN Contents(s, p) => AllWays(ty, s, ty2, w)
<1> DEFINE w == WithElement(s, p, t, key, moves)
           f == Grown(Contents(s, p), t, key, None)
<1>1. CASE key \in DOMAIN Contents(s, p)
  <2>1. w = s
    BY <1>1 DEF WithElement
  <2> QED
    BY <1>1, <2>1, KeepsSelf
<1>2. CASE key \notin DOMAIN Contents(s, p)
  <2>1. w = Replaced(s, p, t, f, moves)
    BY <1>2 DEF WithElement
  <2>2. /\ ContentsFit(ty, f, t) /\ key \in DOMAIN f
        /\ \A k \in DOMAIN f : f[k] = None \/ (k \in DOMAIN Contents(s, p) /\ f[k] = Contents(s, p)[k])
    BY GrownFits DEF Owns
  <2> HIDE DEF f
  <2>3. \A k \in DOMAIN f : From(s, p, f[k])
    BY <2>2, CellFacts DEF From, Owns
  <2>4. PICK ty2 : Keeps(ty, s, ty2, w, p, t) /\ Owns(ty2, w, p, t) /\ Contents(w, p) = f
    BY <2>1, <2>2, <2>3, ReplacedKeeps
  <2> QED
    BY <1>2, <2>2, <2>4
<1> QED
  BY <1>1, <1>2

LEMMA IndexForWriteKeeps ==
  ASSUME TypesFit, NEW ty, NEW s, StateFits(ty, s), NEW p, NEW t, PlaceAt(ty, s, p, t), IsContainer(t),
         NEW key \in Nat, NEW moves
  PROVE  \E ty2 : LET w == IndexForWrite(s, p, t, key, moves)
                  IN  /\ Keeps(ty, s, ty2, w, p, t) /\ Owns(ty2, w, p, t) /\ key \in DOMAIN Contents(w, p)
                      /\ key \in DOMAIN Contents(Used(s, p, t), p) => AllWays(ty, s, ty2, w)
<1> DEFINE u == ForWrite(s, p, t)
           w == IndexForWrite(s, p, t, key, moves)
<1>1. PICK ty1 : /\ Keeps(ty, s, ty1, u, p, t) /\ AllWays(ty, s, ty1, u) /\ Owns(ty1, u, p, t)
                 /\ Contents(u, p) = Contents(Used(s, p, t), p)
  BY ForWriteKeeps
<1>2. w = WithElement(u, p, t, key, moves)
  BY DEF IndexForWrite
<1> HIDE DEF u, w
<1>3. StateFits(ty1, u) /\ PlaceAt(ty1, u, p, t)
  BY <1>1 DEF Keeps
<1>4. PICK ty2 : /\ Keeps(ty1, u, ty2, w, p, t) /\ Owns(ty2, w, p, t) /\ key \in DOMAIN Contents(w, p)
                 /\ key \in DOMAIN Contents(u, p) => AllWays(ty1, u, ty2, w)
  BY <1>1, <1>2, <1>3, WithElementKeeps
<1>5. /\ Keeps(ty, s, ty2, w, p, t)
      /\ AllWays(ty, s, ty1, u) /\ AllWays(ty1, u, ty2, w) => AllWays(ty, s, ty2, w)
  BY <1>1, <1>4, KeepsThen
<1> QED
  BY <1>1, <1>4, <1>5 DEF w

-----------------------------------------------------------------------------
(* The vectors and maps that remain, and their names.                      *)

LEMMA LeadsAre ==
  ASSUME NEW s
  PROVE  Leads(s) = FromRoots(s) \cup Further(s, FromRoots(s))
<1> DEFINE F == FromRoots(s)
           g == [r \in 1 .. MaxRank |-> IF r = 1 THEN F ELSE Further(s, F)]
           ok(f) == f = [r \in 1 .. MaxRank |-> IF r = 1 THEN F ELSE Further(s, f[r - 1])]
           after == CHOOSE f : ok(f)
<1>1. ok(g)
  BY DEF MaxRank
<1>2. ok(after)
  BY <1>1
<1>3. Leads(s) = UNION {after[r] : r \in 1 .. MaxRank}
  BY DEF Leads
<1>4. 1 .. MaxRank = {1, 2}
  BY DEF MaxRank
<1> HIDE DEF after
<1>5. after[1] = F /\ after[2] = Further(s, F)
  BY <1>2, <1>4 DEF MaxRank
<1> QED
  BY <1>3, <1>4, <1>5

LEMMA RootPaths ==
  ASSUME NEW s, NEW r \in Roots(s)
  PROVE  \E x, y : x \in {"var", "stack"} /\ r = <<x, y>>
BY DEF Roots, InVar, InStack

LEMMA LongerPath ==
  ASSUME NEW x, NEW y, NEW k
  PROVE  Append(<<x, y>>, k) = <<x, y, k>>
<1> DEFINE S == {x, y, k}
<1>1. <<x, y>> \in Seq(S) /\ <<x, y, k>> \in Seq(S)
  OBVIOUS
<1>2. Append(<<x, y>>, k) \in Seq(S) /\ Len(Append(<<x, y>>, k)) = 3
  BY <1>1, AppendProperties
<1>3. \A i \in 1 .. 3 : Append(<<x, y>>, k)[i] = <<x, y, k>>[i]
  BY <1>1, AppendProperties
<1> QED
  BY <1>1, <1>2, <1>3, SeqEqual

LEMMA InLeads ==
  ASSUME NEW s, NEW p \in Leads(s)
  PROVE  \/ p[1] \in Roots(s) /\ p[2] = Cell(s, p[1]).buf /\ p[2] # Null
         \/ \E r \in Roots(s) : \E k \in DOMAIN s.bufs[Cell(s, r).buf] :
              /\ Cell(s, r).buf # Null /\ p[1] = Append(r, k)
              /\ p[2] = s.bufs[Cell(s, r).buf][k].buf /\ p[2] # Null
<1>1. CASE p \in FromRoots(s)
  BY <1>1 DEF FromRoots
<1>2. CASE p \in Further(s, FromRoots(s))
  <2>1. PICK q \in FromRoots(s) : \E k \in DOMAIN s.bufs[q[2]] :
               p = <<Append(q[1], k), s.bufs[q[2]][k].buf>> /\ p[2] # Null
    BY <1>2 DEF Further
  <2>2. q[1] \in Roots(s) /\ q[2] = Cell(s, q[1]).buf /\ q[2] # Null
    BY DEF FromRoots
  <2>3. PICK k \in DOMAIN s.bufs[q[2]] : p = <<Append(q[1], k), s.bufs[q[2]][k].buf>> /\ p[2] # Null
    BY <2>1
  <2>4. p[1] = Append(q[1], k) /\ p[2] = s.bufs[q[2]][k].buf
    BY <2>3
  <2> QED
    BY <2>2, <2>3, <2>4
<1> QED
  BY <1>1, <1>2, LeadsAre

(* A path leads to one vector or map.                                      *)
LEMMA LeadsOnce ==
  ASSUME NEW s, NEW p \in Leads(s), NEW q \in Leads(s), p[1] = q[1]
  PROVE  p[2] = q[2]
<1>1. CASE p[1] \in Roots(s) /\ q[1] \in Roots(s)
  <2>1. ASSUME NEW e \in Leads(s), e[1] \in Roots(s)
        PROVE  e[2] = Cell(s, e[1]).buf
    <3>1. ~ \E r \in Roots(s) : \E k \in DOMAIN s.bufs[Cell(s, r).buf] : e[1] = Append(r, k)
      <4>1. SUFFICES ASSUME NEW r \in Roots(s), NEW k, e[1] = Append(r, k)
                     PROVE  FALSE
        OBVIOUS
      <4>2. PICK x, y : r = <<x, y>>
        BY RootPaths
      <4>3. PICK a, b : e[1] = <<a, b>>
        BY <2>1, RootPaths
      <4> QED
        BY <4>1, <4>2, <4>3, LongerPath
    <3> QED
      BY <2>1, <3>1, InLeads
  <2> QED
    BY <1>1, <2>1
<1>2. CASE ~(p[1] \in Roots(s) /\ q[1] \in Roots(s))
  <2>1. ASSUME NEW e \in Leads(s), NEW f \in Leads(s), e[1] = f[1], e[1] \notin Roots(s)
        PROVE  e[2] = f[2]
    <3>1. PICK r \in Roots(s) : \E k \in DOMAIN s.bufs[Cell(s, r).buf] :
                 e[1] = Append(r, k) /\ e[2] = s.bufs[Cell(s, r).buf][k].buf
      BY <2>1, InLeads
    <3>2. PICK k : e[1] = Append(r, k) /\ e[2] = s.bufs[Cell(s, r).buf][k].buf
      BY <3>1
    <3>3. PICK t \in Roots(s) : \E j \in DOMAIN s.bufs[Cell(s, t).buf] :
                 f[1] = Append(t, j) /\ f[2] = s.bufs[Cell(s, t).buf][j].buf
      BY <2>1, InLeads
    <3>4. PICK j : f[1] = Append(t, j) /\ f[2] = s.bufs[Cell(s, t).buf][j].buf
      BY <3>3
    <3>5. PICK x, y : r = <<x, y>>
      BY RootPaths
    <3>6. PICK a, b : t = <<a, b>>
      BY RootPaths
    <3>7. <<x, y, k>> = <<a, b, j>>
      BY <2>1, <3>2, <3>4, <3>5, <3>6, LongerPath
    <3>8. r = t /\ k = j
      BY <3>5, <3>6, <3>7
    <3> QED
      BY <3>2, <3>4, <3>8
  <2> QED
    BY <1>2, <2>1
<1> QED
  BY <1>1, <1>2

LEMMA PathNames ==
  ASSUME NEW s, NEW p \in Leads(s)
  PROVE  p[1] # Null /\ \A n : p[1] # <<"new", n>>
<1>1. CASE p[1] \in Roots(s)
  <2>1. PICK x, y : x \in {"var", "stack"} /\ p[1] = <<x, y>>
    BY <1>1, RootPaths
  <2> QED
    BY <2>1 DEF Null
<1>2. CASE \E r \in Roots(s) : \E k : p[1] = Append(r, k)
  <2>0. PICK r \in Roots(s) : \E k : p[1] = Append(r, k)
    BY <1>2
  <2>1. PICK k : p[1] = Append(r, k)
    BY <2>0
  <2>2. PICK x, y : x \in {"var", "stack"} /\ r = <<x, y>>
    BY RootPaths
  <2>3. p[1] = <<x, y, k>>
    BY <2>1, <2>2, LongerPath
  <2> QED
    BY <2>3 DEF Null
<1> QED
  BY <1>1, <1>2, InLeads

(* name gives the vectors and maps that remain their new names.            *)
Renaming(z, name) ==
  /\ DOMAIN name \subseteq DOMAIN z.bufs
  /\ \A q \in Roots(z) : Cell(z, q).buf = Null \/ Cell(z, q).buf \in DOMAIN name
  /\ \A b \in DOMAIN name : \A k \in DOMAIN z.bufs[b] : z.bufs[b][k].buf = Null \/ z.bufs[b][k].buf \in DOMAIN name
  /\ \A b \in DOMAIN name : \A c \in DOMAIN name : name[b] = name[c] => b = c
  /\ \A b \in DOMAIN name : name[b] # Null /\ \A n : name[b] # <<"new", n>>

LEMMA RootLeads ==
  ASSUME NEW s, NEW q \in Roots(s), Cell(s, q).buf # Null
  PROVE  <<q, Cell(s, q).buf>> \in Leads(s)
BY LeadsAre DEF FromRoots

LEMMA ElementLeads ==
  ASSUME NEW s, NEW q \in Roots(s), NEW k \in DOMAIN s.bufs[Cell(s, q).buf],
         Cell(s, q).buf # Null, s.bufs[Cell(s, q).buf][k].buf # Null
  PROVE  <<Append(q, k), s.bufs[Cell(s, q).buf][k].buf>> \in Leads(s)
<1>1. <<q, Cell(s, q).buf>> \in FromRoots(s)
  BY DEF FromRoots
<1> DEFINE p == <<q, Cell(s, q).buf>>
<1>2. /\ p[1] = q /\ p[2] = Cell(s, q).buf
  OBVIOUS
<1> HIDE DEF p
<1>3. <<Append(q, k), s.bufs[Cell(s, q).buf][k].buf>> \in {<<Append(p[1], j), s.bufs[p[2]][j].buf>> : j \in DOMAIN s.bufs[p[2]]}
  BY <1>2
<1>4. p \in FromRoots(s)
  BY <1>1 DEF p
<1>5. <<Append(q, k), s.bufs[Cell(s, q).buf][k].buf>>[2] # Null
  OBVIOUS
<1> HIDE DEF p
<1>6. <<Append(q, k), s.bufs[Cell(s, q).buf][k].buf>> \in Further(s, FromRoots(s))
  BY <1>3, <1>4, <1>5 DEF Further
<1> QED
  BY <1>6, LeadsAre

LEMMA RootAt ==
  ASSUME NEW ty, NEW s, StateFits(ty, s), NEW q \in Roots(s)
  PROVE  q \in Places(s) /\ \E u : PlaceAt(ty, s, q, u)
BY PlaceHasType DEF Places

LEMMA NamesRename ==
  ASSUME TypesFit, NEW ty, NEW z, StateFits(ty, z)
  PROVE  Renaming(z, NamesOf(Leads(z)))
<1> DEFINE L == Leads(z)
           name == NamesOf(L)
           D == {p[2] : p \in L}
<1>1. DOMAIN name = D
  BY DEF NamesOf
<1>2. ASSUME NEW b \in D
      PROVE  \E p \in L : p[2] = b /\ name[b] = p[1]
  <2>1. PICK p : p = CHOOSE e \in L : e[2] = b
    OBVIOUS
  <2>2. p \in L /\ p[2] = b
    BY <2>1
  <2>3. name[b] = p[1]
    BY <2>1 DEF NamesOf
  <2> QED
    BY <2>2, <2>3
<1>3. Null \notin DOMAIN ty /\ DOMAIN z.bufs = DOMAIN ty
  BY BufsExist
<1> HIDE DEF name
<1>4. ASSUME NEW q \in Roots(z), Cell(z, q).buf # Null
      PROVE  /\ Cell(z, q).buf \in DOMAIN ty /\ Cell(z, q).buf \in D
             /\ Len(ty[Cell(z, q).buf]) \in 1 .. 2 /\ ty[Cell(z, q).buf] \in Type
  <2>1. PICK u : PlaceAt(ty, z, q, u)
    BY RootAt
  <2>2. RankedType(u) /\ Fits(ty, Cell(z, q), u)
    BY <2>1, PlaceAtFits
  <2>3. Cell(z, q).buf \in DOMAIN ty /\ ty[Cell(z, q).buf] = u /\ IsContainer(u)
    BY <2>2, <1>3, <1>4, FitsFacts
  <2>4. PICK n \in Nat : n = Len(u)
    BY <2>2, TypeFacts DEF RankedType
  <2>5. n > 0 /\ n <= 2
    BY <2>2, <2>3, <2>4, TypeFacts DEF RankedType, MaxRank
  <2>6. <<q, Cell(z, q).buf>> \in L
    BY <1>4, RootLeads
  <2>7. Cell(z, q).buf \in D
    BY <2>6
  <2> QED
    BY <2>2, <2>3, <2>4, <2>5, <2>7 DEF RankedType
<1>5. ASSUME NEW b \in DOMAIN ty, NEW k \in DOMAIN z.bufs[b], z.bufs[b][k].buf # Null
      PROVE  z.bufs[b][k].buf \in DOMAIN ty /\ ty[z.bufs[b][k].buf] = Element(ty[b]) /\ IsContainer(Element(ty[b]))
  <2>1. PlaceAt(ty, z, InBuf(b, k), Element(ty[b]))
    BY DEF PlaceAt
  <2>2. Fits(ty, z.bufs[b][k], Element(ty[b]))
    BY <2>1, PlaceAtFits, CellIs
  <2> QED
    BY <2>2, <1>3, <1>5, FitsFacts
<1>6. ASSUME NEW b \in D
      PROVE  /\ b \in DOMAIN ty
             /\ \A k \in DOMAIN z.bufs[b] : z.bufs[b][k].buf = Null \/ z.bufs[b][k].buf \in D
  <2>1. PICK p \in L : p[2] = b
    OBVIOUS
  <2>2. CASE p[1] \in Roots(z) /\ p[2] = Cell(z, p[1]).buf /\ p[2] # Null
    <3>1. b \in DOMAIN ty
      BY <1>4, <2>1, <2>2
    <3>2. ASSUME NEW k \in DOMAIN z.bufs[b], z.bufs[b][k].buf # Null
          PROVE  z.bufs[b][k].buf \in D
      <4>1. PICK e : e = <<Append(p[1], k), z.bufs[b][k].buf>>
        OBVIOUS
      <4>2. e \in L
        BY <4>1, <2>1, <2>2, <3>2, ElementLeads
      <4>3. e[2] = z.bufs[b][k].buf
        BY <4>1
      <4> QED
        BY <4>2, <4>3
    <3> QED
      BY <3>1, <3>2
  <2>3. CASE \E r \in Roots(z) : \E k \in DOMAIN z.bufs[Cell(z, r).buf] :
               /\ Cell(z, r).buf # Null /\ p[1] = Append(r, k)
               /\ p[2] = z.bufs[Cell(z, r).buf][k].buf /\ p[2] # Null
    <3>1. PICK r \in Roots(z) : \E k \in DOMAIN z.bufs[Cell(z, r).buf] :
               Cell(z, r).buf # Null /\ p[2] = z.bufs[Cell(z, r).buf][k].buf /\ p[2] # Null
      BY <2>3
    <3>2. PICK k \in DOMAIN z.bufs[Cell(z, r).buf] :
               Cell(z, r).buf # Null /\ p[2] = z.bufs[Cell(z, r).buf][k].buf /\ p[2] # Null
      BY <3>1
    <3>3. PICK t : t = ty[Cell(z, r).buf]
      OBVIOUS
    <3>4. t \in Type /\ Len(t) \in 1 .. 2
      BY <3>2, <3>3, <1>4
    <3>5. b \in DOMAIN ty /\ ty[b] = Element(t)
      BY <1>4, <1>5, <2>1, <3>2, <3>3
    <3>6. ~IsContainer(Element(Element(t)))
      <4>1. PICK n \in 1 .. 2 : n = Len(t)
        BY <3>4
      <4>2. PICK e : e = Element(t)
        OBVIOUS
      <4>3. e \in Type /\ Len(e) = n - 1
        BY <3>4, <4>1, <4>2, TypeFacts
      <4>4. IsContainer(e)
        BY <3>5, <4>2 DEF StateFits, BufsFit
      <4>5. n = 2
        BY <4>3, <4>4, TypeFacts
      <4>6. Element(e) \in Type /\ Len(Element(e)) = 0
        BY <4>3, <4>4, <4>5, TypeFacts
      <4>7. ~IsContainer(Element(e))
        BY <4>6, TypeFacts
      <4> QED
        BY <4>2, <4>7
    <3> QED
      BY <3>5, <3>6, <1>5
  <2> QED
    BY <2>2, <2>3, InLeads
<1>7. ASSUME NEW b \in D, NEW c \in D, name[b] = name[c]
      PROVE  b = c
  BY <1>2, <1>7, LeadsOnce
<1>8. ASSUME NEW b \in D
      PROVE  name[b] # Null /\ \A n : name[b] # <<"new", n>>
  BY <1>2, PathNames
<1> HIDE DEF D
<1> QED
  BY <1>1, <1>3, <1>4, <1>6, <1>7, <1>8 DEF Renaming, name

(* What becomes of cells and states.                                       *)
NewBuf(name, b) == IF b \in DOMAIN name THEN name[b] ELSE Null
NewCell(name, c) == [c EXCEPT !.buf = NewBuf(name, c.buf)]
NewEntry(name, e) ==
  IF e.kind = "value" THEN [e EXCEPT !.cell = NewCell(name, e.cell)]
  ELSE IF IsElement(e) THEN [e EXCEPT !.at = InBuf(NewBuf(name, e.at[2]), e.at[3])]
  ELSE e
OldBuf(name, n) == CHOOSE b \in DOMAIN name : name[b] = n
NewContents(z, name, b) == [k \in DOMAIN z.bufs[b] |-> NewCell(name, z.bufs[b][k])]
After(z, name) ==
  [vars |-> [v \in Vars |-> NewCell(name, z.vars[v])],
   stack |-> [i \in DOMAIN z.stack |-> NewEntry(name, z.stack[i])],
   bufs |-> [n \in {name[b] : b \in DOMAIN name} |-> NewContents(z, name, OldBuf(name, n))],
   made |-> 0]

LEMMA RenamedIs ==
  ASSUME NEW z, NEW name
  PROVE  /\ Renamed(z, name).vars = After(z, name).vars
         /\ Renamed(z, name).stack = After(z, name).stack
         /\ Renamed(z, name).bufs = After(z, name).bufs
<1>1. Renamed(z, name).vars = After(z, name).vars
  BY DEF Renamed, After, NewCell, NewBuf
<1>2. Renamed(z, name).stack = After(z, name).stack
  BY DEF Renamed, After, NewEntry, NewCell, NewBuf
<1>3. Renamed(z, name).bufs = After(z, name).bufs
  BY DEF Renamed, After, NewCell, NewBuf, NewContents, OldBuf
<1> QED
  BY <1>1, <1>2, <1>3

LEMMA NewCells ==
  ASSUME NEW ty, NEW z, StateFits(ty, z), NEW name, Renaming(z, name)
  PROVE  LET x == After(z, name)
         IN  /\ \A v \in Vars : x.vars[v] = NewCell(name, z.vars[v])
             /\ \A i \in DOMAIN z.stack : x.stack[i] = NewEntry(name, z.stack[i])
             /\ \A b \in DOMAIN name : OldBuf(name, name[b]) = b
             /\ \A b \in DOMAIN name : name[b] \in DOMAIN x.bufs /\ x.bufs[name[b]] = NewContents(z, name, b)
             /\ \A n \in DOMAIN x.bufs : OldBuf(name, n) \in DOMAIN name /\ name[OldBuf(name, n)] = n
<1>1. \A b \in DOMAIN name : OldBuf(name, name[b]) = b
  BY DEF OldBuf, Renaming
<1>2. DOMAIN After(z, name).bufs = {name[b] : b \in DOMAIN name}
  BY DEF After
<1>3. \A n \in DOMAIN After(z, name).bufs : OldBuf(name, n) \in DOMAIN name /\ name[OldBuf(name, n)] = n
  BY <1>2 DEF OldBuf
<1>4. \A b \in DOMAIN name :
        name[b] \in DOMAIN After(z, name).bufs /\ After(z, name).bufs[name[b]] = NewContents(z, name, b)
  BY <1>1 DEF After
<1> QED
  BY <1>1, <1>3, <1>4 DEF After

LEMMA NewCellFits ==
  ASSUME NEW ty, NEW z, NEW c, NEW t, Fits(ty, c, t), NEW name, Null \notin DOMAIN ty,
         c.buf = Null \/ c.buf \in DOMAIN name, Null \notin DOMAIN name,
         NEW ty2, \A b \in DOMAIN name : name[b] \in DOMAIN ty2 /\ ty2[name[b]] = ty[b]
  PROVE  /\ Fits(ty2, NewCell(name, c), t)
         /\ NewCell(name, c).buf = NewBuf(name, c.buf) /\ NewCell(name, c).number = c.number
         /\ NewCell(name, c).type = c.type
<1>1. c \in CellSet(DOMAIN ty)
  BY FitsFacts
<1>2. /\ NewCell(name, c) = [type |-> c.type, number |-> c.number, buf |-> NewBuf(name, c.buf)]
      /\ c = [type |-> c.type, number |-> c.number, buf |-> c.buf]
  BY <1>1 DEF NewCell, CellSet
<1>3. CASE c = None
  <2>1. NewBuf(name, c.buf) = Null
    BY <1>3, CellFacts DEF NewBuf
  <2>2. NewCell(name, c) = None
    BY <1>2, <1>3, <2>1, CellFacts
  <2> QED
    BY <1>2, <2>2, NoneFits
<1>4. CASE ~IsContainer(t) /\ \E n \in Nat : c = Number(n)
  <2>1. NewBuf(name, c.buf) = Null
    BY <1>4, CellFacts DEF NewBuf
  <2>2. NewCell(name, c) = c
    BY <1>2, <1>4, <2>1, CellFacts
  <2> QED
    BY <1>2, <1>4, <2>2 DEF Fits
<1>5. CASE IsContainer(t) /\ \E b \in DOMAIN ty : c = Shared(b) /\ ty[b] = t
  <2>1. PICK b \in DOMAIN ty : c = Shared(b) /\ ty[b] = t
    BY <1>5
  <2>2. c.buf = b /\ b \in DOMAIN name /\ c.type = "Container" /\ c.number = 0
    BY <2>1, CellFacts
  <2>3. NewCell(name, c) = Shared(name[b])
    BY <1>2, <2>2 DEF NewBuf, Shared
  <2> QED
    BY <1>2, <1>5, <2>1, <2>2, <2>3 DEF Fits
<1> QED
  BY <1>3, <1>4, <1>5 DEF Fits

LEMMA WayNamed ==
  ASSUME TypesFit, NEW ty, NEW z, StateFits(ty, z), NEW name, Renaming(z, name),
         NEW v, NEW keys, NEW at, WayTo(ty, z, v, keys, at), NEW i \in 0 .. Len(keys) - 1
  PROVE  Through(at, i) \in DOMAIN name
<1>1. Null \notin DOMAIN z.bufs
  BY BufsExist
<1>2. PICK n \in 0 .. MaxRank : n = Len(types[v])
  BY VarTypes DEF WayTo
<1>3. PICK m \in Nat : m = Len(keys)
  BY DEF WayTo
<1>4. m <= 2 /\ i \in 0 .. (m - 1)
  <2>1. m <= n
    BY <1>2, <1>3, Zenon DEF WayTo
  <2>2. n <= 2
    BY DEF MaxRank
  <2>3. i \in 0 .. (m - 1)
    BY <1>3
  <2> QED
    BY <2>1, <2>2, <2>3
<1>5. ASSUME 0 \in 0 .. Len(keys) - 1
      PROVE  Through(at, 0) \in DOMAIN name
  <2>1. at[0] \in Roots(z)
    BY DEF WayTo, Roots
  <2>2. Cell(z, at[0]).buf = Through(at, 0) /\ Through(at, 0) \in DOMAIN z.bufs
    BY <1>5, WayStep
  <2> QED
    BY <1>1, <2>1, <2>2 DEF Renaming
<1>6. ASSUME i = 1
      PROVE  Through(at, 1) \in DOMAIN name
  <2>1. 0 \in 0 .. Len(keys) - 1 /\ 1 \in 0 .. Len(keys) - 1
    BY <1>3, <1>4, <1>6
  <2>2. Through(at, 0) \in DOMAIN name
    BY <1>5, <2>1
  <2>3. at[1] = InBuf(Through(at, 0), keys[1]) /\ keys[1] \in DOMAIN z.bufs[Through(at, 0)]
    <3>1. at[0 + 1] = InBuf(Through(at, 0), keys[0 + 1]) /\ keys[0 + 1] \in DOMAIN z.bufs[Through(at, 0)]
      BY <2>1, WayStep
    <3> QED
      BY <3>1
  <2>4. Cell(z, at[1]).buf = Through(at, 1) /\ Through(at, 1) \in DOMAIN z.bufs
    BY <2>1, WayStep
  <2>5. z.bufs[Through(at, 0)][keys[1]].buf = Through(at, 1)
    BY <2>3, <2>4, CellIs
  <2> QED
    BY <1>1, <2>2, <2>3, <2>4, <2>5 DEF Renaming
<1> QED
  BY <1>3, <1>4, <1>5, <1>6

(* The types of the new names.                                             *)
NewTypes(ty, name) == [n \in {name[b] : b \in DOMAIN name} |-> ty[OldBuf(name, n)]]

LEMMA NewTypesAre ==
  ASSUME NEW ty, NEW z, StateFits(ty, z), NEW name, Renaming(z, name)
  PROVE  /\ \A b \in DOMAIN name : name[b] \in DOMAIN NewTypes(ty, name) /\ NewTypes(ty, name)[name[b]] = ty[b]
         /\ DOMAIN NewTypes(ty, name) = DOMAIN After(z, name).bufs
         /\ \A n \in DOMAIN NewTypes(ty, name) : \E b \in DOMAIN name : n = name[b]
         /\ Null \notin DOMAIN name /\ Null \notin DOMAIN ty
BY NewCells, BufsExist DEF NewTypes, After, Renaming

LEMMA NewElement ==
  ASSUME TypesFit, NEW ty, NEW z, StateFits(ty, z), HeldReach(ty, z), NEW name, Renaming(z, name),
         NEW i \in DOMAIN z.stack, z.stack[i].kind = "address", IsElement(z.stack[i])
  PROVE  z.stack[i].at[2] \in DOMAIN name
<1> DEFINE e == z.stack[i]
<1>1. PICK at : WayTo(ty, z, e.var, e.keys, at) /\ e.at = at[Len(e.keys)]
  BY DEF HeldReach, Reaches
<1>2. PICK n \in Nat : n = Len(e.keys)
  BY <1>1 DEF WayTo
<1>3. n # 0
  <2>1. at[0][1] = "var"
    BY <1>1, PlaceFacts DEF WayTo
  <2> QED
    BY <1>1, <1>2, <2>1 DEF IsElement
<1>4. n - 1 \in 0 .. Len(e.keys) - 1
  BY <1>2, <1>3
<1>5. Through(at, n - 1) \in DOMAIN name
  BY <1>1, <1>4, WayNamed
<1> QED
  BY <1>1, <1>2, <1>5 DEF Through

LEMMA AfterFits ==
  ASSUME TypesFit, NEW ty, NEW z, StateFits(ty, z), HeldReach(ty, z), NEW name, Renaming(z, name)
  PROVE  StateFits(NewTypes(ty, name), After(z, name))
<1> DEFINE x == After(z, name)
           ty2 == NewTypes(ty, name)
<1>1. /\ \A b \in DOMAIN name : name[b] \in DOMAIN ty2 /\ ty2[name[b]] = ty[b]
      /\ DOMAIN ty2 = DOMAIN x.bufs
      /\ \A n \in DOMAIN ty2 : \E b \in DOMAIN name : n = name[b]
      /\ Null \notin DOMAIN name /\ Null \notin DOMAIN ty
      /\ ty2 = [n \in DOMAIN ty2 |-> ty2[n]]
  <2>1. ty2 = [n \in DOMAIN ty2 |-> ty2[n]]
    BY DEF NewTypes
  <2> QED
    BY <2>1, NewTypesAre
<1>2. /\ \A v \in Vars : x.vars[v] = NewCell(name, z.vars[v])
      /\ \A i \in DOMAIN z.stack : x.stack[i] = NewEntry(name, z.stack[i])
      /\ \A b \in DOMAIN name : x.bufs[name[b]] = NewContents(z, name, b)
  BY NewCells
<1>3. /\ x = [vars |-> x.vars, stack |-> x.stack, bufs |-> x.bufs, made |-> x.made] /\ x.made = 0
      /\ x.vars = [v \in Vars |-> x.vars[v]]
      /\ x.bufs = [n \in DOMAIN x.bufs |-> x.bufs[n]]
      /\ x.stack = [i \in DOMAIN z.stack |-> x.stack[i]]
  BY DEF After
<1> HIDE DEF x, ty2
<1>4. ASSUME NEW v \in Vars
      PROVE  Fits(ty2, x.vars[v], types[v])
  <2>1. Fits(ty, z.vars[v], types[v])
    BY DEF StateFits
  <2>2. z.vars[v].buf = Null \/ z.vars[v].buf \in DOMAIN name
    <3>1. InVar(v) \in Roots(z) /\ Cell(z, InVar(v)) = z.vars[v]
      BY CellIs DEF Roots
    <3> QED
      BY <3>1 DEF Renaming
  <2> QED
    BY <1>1, <1>2, <2>1, <2>2, NewCellFits
<1>5. BufsFit(ty2, x.bufs)
  <2>1. ASSUME NEW n \in DOMAIN ty2
        PROVE  RankedType(ty2[n]) /\ IsContainer(ty2[n]) /\ ContentsFit(ty2, x.bufs[n], ty2[n])
    <3>1. PICK b \in DOMAIN name : n = name[b]
      BY <1>1
    <3>2. ty2[n] = ty[b] /\ b \in DOMAIN ty
      BY <1>1, <3>1, BufsExist DEF Renaming
    <3>3. RankedType(ty[b]) /\ IsContainer(ty[b]) /\ ContentsFit(ty, z.bufs[b], ty[b])
      BY <3>2 DEF StateFits, BufsFit
    <3>4. x.bufs[n] = [k \in DOMAIN z.bufs[b] |-> NewCell(name, z.bufs[b][k])]
      BY <1>2, <3>1 DEF NewContents
    <3>5. ASSUME NEW k \in DOMAIN z.bufs[b]
          PROVE  Fits(ty2, x.bufs[n][k], Element(ty[b]))
      <4>1. Fits(ty, z.bufs[b][k], Element(ty[b]))
        BY <3>3 DEF ContentsFit
      <4>2. z.bufs[b][k].buf = Null \/ z.bufs[b][k].buf \in DOMAIN name
        BY DEF Renaming
      <4>3. Fits(ty2, NewCell(name, z.bufs[b][k]), Element(ty[b]))
        BY <1>1, <4>1, <4>2, NewCellFits
      <4> QED
        BY <3>4, <4>3
    <3>6. DOMAIN x.bufs[n] = DOMAIN z.bufs[b] /\ x.bufs[n] = [k \in DOMAIN x.bufs[n] |-> x.bufs[n][k]]
      BY <3>4
    <3> QED
      BY <3>2, <3>3, <3>5, <3>6 DEF ContentsFit
  <2>2. Null \notin DOMAIN ty2
    BY <1>1 DEF Renaming
  <2> QED
    BY <1>1, <1>3, <2>1, <2>2 DEF BufsFit
<1>6. StackFits(ty2, x.stack)
  <2>1. PICK m \in Nat : DOMAIN z.stack = 1 .. m
    BY DEF StateFits, StackFits
  <2>2. ASSUME NEW i \in DOMAIN z.stack
        PROVE  /\ x.stack[i] \in Entry(DOMAIN ty2)
               /\ RankedType(x.stack[i].type)
               /\ x.stack[i].kind = "value" => Fits(ty2, x.stack[i].cell, x.stack[i].type)
    <3> DEFINE e == z.stack[i]
    <3>1. e \in Entry(DOMAIN ty) /\ RankedType(e.type) /\ x.stack[i] = NewEntry(name, e)
      BY <1>2 DEF StateFits, StackFits
    <3>2. CASE e.kind = "value"
      <4>1. e \in [kind : {"value"}, type : Type, cell : CellSet(DOMAIN ty)] /\ Fits(ty, e.cell, e.type)
        BY <3>1, <3>2 DEF Entry, StateFits, StackFits
      <4>2. e.cell.buf = Null \/ e.cell.buf \in DOMAIN name
        <5>1. InStack(i) \in Roots(z) /\ Cell(z, InStack(i)) = e.cell
          BY <3>2, CellIs DEF Roots
        <5> QED
          BY <5>1 DEF Renaming
      <4>3. Fits(ty2, NewCell(name, e.cell), e.type)
        BY <1>1, <4>1, <4>2, NewCellFits
      <4>4. NewCell(name, e.cell) \in CellSet(DOMAIN ty2)
        BY <4>3, <1>5, FitsFacts DEF BufsFit
      <4>5. x.stack[i] = [e EXCEPT !.cell = NewCell(name, e.cell)]
        BY <3>1, <3>2 DEF NewEntry
      <4> HIDE DEF e
      <4>6. /\ x.stack[i] \in [kind : {"value"}, type : Type, cell : CellSet(DOMAIN ty2)]
            /\ x.stack[i].type = e.type /\ x.stack[i].cell = NewCell(name, e.cell)
        BY <4>1, <4>4, <4>5
      <4> QED
        BY <3>1, <4>3, <4>6 DEF Entry
    <3>3. CASE e.kind # "value"
      <4>1. e \in [kind : {"address"}, type : Type, at : PlaceSet(DOMAIN ty), use : {"read", "write"},
                   var : Vars, keys : Seq(Nat)]
        BY <3>1, <3>3 DEF Entry
      <4>2. PICK a \in PlaceSet(DOMAIN ty2) : x.stack[i] = [e EXCEPT !.at = a]
        <5>1. CASE IsElement(e)
          <6>1. e.at[2] \in DOMAIN name
            BY <4>1, <5>1, NewElement
          <6>2. x.stack[i] = [e EXCEPT !.at = InBuf(name[e.at[2]], e.at[3])]
            BY <3>1, <3>3, <5>1, <6>1 DEF NewEntry, NewBuf
          <6>3. e.at[3] \in Nat
            BY <4>1, <5>1, PlaceFacts DEF PlaceSet, IsElement
          <6>4. InBuf(name[e.at[2]], e.at[3]) \in PlaceSet(DOMAIN ty2)
            BY <1>1, <6>1, <6>3 DEF PlaceSet
          <6> QED
            BY <6>2, <6>4
        <5>2. CASE ~IsElement(e)
          <6>1. x.stack[i] = e
            BY <3>1, <3>3, <5>2 DEF NewEntry
          <6>2. e.at \in PlaceSet(DOMAIN ty2)
            BY <4>1, <5>2, PlaceFacts DEF PlaceSet, IsElement
          <6>3. e = [e EXCEPT !.at = e.at]
            BY <4>1
          <6> QED
            BY <6>1, <6>2, <6>3
        <5> QED
          BY <5>1, <5>2
      <4> HIDE DEF e
      <4>3. x.stack[i] \in [kind : {"address"}, type : Type, at : PlaceSet(DOMAIN ty2), use : {"read", "write"},
                            var : Vars, keys : Seq(Nat)] /\ x.stack[i].type = e.type
        BY <4>1, <4>2
      <4> QED
        BY <3>1, <4>3 DEF Entry
    <3> QED
      BY <3>2, <3>3
  <2>3. x.stack = [i \in 1 .. m |-> x.stack[i]] /\ DOMAIN x.stack = DOMAIN z.stack
    BY <1>3, <2>1
  <2>4. x.stack \in Seq(Entry(DOMAIN ty2))
    BY <2>1, <2>2, <2>3
  <2> QED
    BY <2>2, <2>3, <2>4 DEF StackFits
<1>7. FreshNames(x)
  <2>1. \A n \in Nat : <<"new", n>> \notin DOMAIN x.bufs
    BY <1>1 DEF Renaming
  <2> QED
    BY <1>3, <2>1 DEF FreshNames
<1> QED
  BY <1>3, <1>4, <1>5, <1>6, <1>7 DEF StateFits, x, ty2

NewPlace(name, q) == IF q[1] = "buf" THEN InBuf(NewBuf(name, q[2]), q[3]) ELSE q

LEMMA NewPlaceIs ==
  ASSUME NEW name
  PROVE  /\ \A v : NewPlace(name, InVar(v)) = InVar(v)
         /\ \A i : NewPlace(name, InStack(i)) = InStack(i)
         /\ \A b, k : NewPlace(name, InBuf(b, k)) = InBuf(NewBuf(name, b), k)
BY PlaceFacts DEF NewPlace

(* q is a place that remains.                                              *)
Remains(z, name, q) == q \in Places(z) /\ \A b, k : q = InBuf(b, k) => b \in DOMAIN name

LEMMA NewPlaces ==
  ASSUME TypesFit, NEW ty, NEW z, StateFits(ty, z), NEW name, Renaming(z, name), NEW q, Remains(z, name, q)
  PROVE  NewPlace(name, q) \in Places(After(z, name))
         /\ Cell(After(z, name), NewPlace(name, q)).buf = NewBuf(name, Cell(z, q).buf)
<1> DEFINE x == After(z, name)
<1>1. /\ \A v \in Vars : x.vars[v] = NewCell(name, z.vars[v])
      /\ \A i \in DOMAIN z.stack : x.stack[i] = NewEntry(name, z.stack[i])
      /\ \A b \in DOMAIN name : name[b] \in DOMAIN x.bufs /\ x.bufs[name[b]] = NewContents(z, name, b)
      /\ DOMAIN x.stack = DOMAIN z.stack
  BY NewCells DEF After
<1> HIDE DEF x
<1>2. NewCell(name, Cell(z, q)).buf = NewBuf(name, Cell(z, q).buf)
  <2>1. PICK u : PlaceAt(ty, z, q, u)
    BY PlaceHasType DEF Remains
  <2>2. Cell(z, q) \in CellSet(DOMAIN ty)
    BY <2>1, PlaceAtFits, FitsFacts, BufsExist
  <2> QED
    BY <2>2 DEF NewCell, CellSet
<1>3. CASE \E v \in Vars : q = InVar(v)
  <2>1. PICK v \in Vars : q = InVar(v)
    BY <1>3
  <2>2. NewPlace(name, q) = q
    BY <2>1, NewPlaceIs
  <2>3. q \in Places(x) /\ Cell(x, q) = NewCell(name, Cell(z, q))
    BY <1>1, <2>1, PlacesAre, CellIs
  <2> QED
    BY <1>2, <2>2, <2>3 DEF x
<1>4. CASE \E i \in DOMAIN z.stack : z.stack[i].kind = "value" /\ q = InStack(i)
  <2>1. PICK i \in DOMAIN z.stack : z.stack[i].kind = "value" /\ q = InStack(i)
    BY <1>4
  <2>2. NewPlace(name, q) = q
    BY <2>1, NewPlaceIs
  <2>3. PICK e : e = z.stack[i]
    OBVIOUS
  <2>4. e \in [kind : {"value"}, type : Type, cell : CellSet(DOMAIN ty)]
    BY <2>1, <2>3 DEF StateFits, StackFits, Entry
  <2>5. x.stack[i] = [e EXCEPT !.cell = NewCell(name, e.cell)]
    BY <1>1, <2>1, <2>3 DEF NewEntry
  <2>6. x.stack[i].kind = "value" /\ x.stack[i].cell = NewCell(name, e.cell)
    BY <2>4, <2>5
  <2>7. q \in Places(x) /\ Cell(x, q) = NewCell(name, Cell(z, q))
    BY <1>1, <2>1, <2>3, <2>6, PlacesAre, CellIs
  <2> QED
    BY <1>2, <2>2, <2>7 DEF x
<1>5. CASE \E b \in DOMAIN z.bufs : \E k \in DOMAIN z.bufs[b] : q = InBuf(b, k)
  <2>1. PICK b \in DOMAIN z.bufs : \E k \in DOMAIN z.bufs[b] : q = InBuf(b, k)
    BY <1>5
  <2>2. PICK k \in DOMAIN z.bufs[b] : q = InBuf(b, k)
    BY <2>1
  <2>3. b \in DOMAIN name
    BY <2>2 DEF Remains
  <2>4. NewPlace(name, q) = InBuf(name[b], k)
    BY <2>2, <2>3, NewPlaceIs DEF NewBuf
  <2>5. name[b] \in DOMAIN x.bufs /\ k \in DOMAIN x.bufs[name[b]] /\ x.bufs[name[b]][k] = NewCell(name, z.bufs[b][k])
    BY <1>1, <2>3 DEF NewContents
  <2>6. NewPlace(name, q) \in Places(x) /\ Cell(x, NewPlace(name, q)) = NewCell(name, Cell(z, q))
    BY <2>2, <2>4, <2>5, PlacesAre, CellIs
  <2> QED
    BY <1>2, <2>6 DEF x
<1> QED
  BY <1>3, <1>4, <1>5, PlacesAre DEF Remains

LEMMA OldPlaces ==
  ASSUME NEW ty, NEW z, StateFits(ty, z), NEW name, Renaming(z, name), NEW q \in Places(After(z, name))
  PROVE  \E p : Remains(z, name, p) /\ NewPlace(name, p) = q
<1> DEFINE x == After(z, name)
<1>1. /\ \A i \in DOMAIN z.stack : x.stack[i] = NewEntry(name, z.stack[i])
      /\ \A b \in DOMAIN name : name[b] \in DOMAIN x.bufs /\ x.bufs[name[b]] = NewContents(z, name, b)
      /\ \A n \in DOMAIN x.bufs : OldBuf(name, n) \in DOMAIN name /\ name[OldBuf(name, n)] = n
      /\ DOMAIN x.stack = DOMAIN z.stack
      /\ DOMAIN name \subseteq DOMAIN z.bufs
  BY NewCells DEF After, Renaming
<1> HIDE DEF x
<1>2. CASE \E v \in Vars : q = InVar(v)
  <2>1. Remains(z, name, q) /\ NewPlace(name, q) = q
    BY <1>2, PlacesAre, NewPlaceIs, PlaceFacts DEF Remains
  <2> QED
    BY <2>1
<1>3. CASE \E i \in DOMAIN x.stack : x.stack[i].kind = "value" /\ q = InStack(i)
  <2>1. PICK i \in DOMAIN x.stack : x.stack[i].kind = "value" /\ q = InStack(i)
    BY <1>3
  <2>2. PICK e : e = z.stack[i]
    OBVIOUS
  <2>3. e \in Entry(DOMAIN ty) /\ x.stack[i] = NewEntry(name, e)
    BY <1>1, <2>1, <2>2 DEF StateFits, StackFits
  <2>4. e.kind = "value"
    <3>1. CASE e.kind = "address"
      <4>1. e \in [kind : {"address"}, type : Type, at : PlaceSet(DOMAIN ty), use : {"read", "write"},
                   var : Vars, keys : Seq(Nat)]
        BY <2>3, <3>1 DEF Entry
      <4>2. x.stack[i].kind = "address"
        BY <2>3, <3>1, <4>1 DEF NewEntry
      <4> QED
        BY <2>1, <4>2
    <3> QED
      BY <2>3, <3>1 DEF Entry
  <2>5. Remains(z, name, q) /\ NewPlace(name, q) = q
    BY <1>1, <2>1, <2>2, <2>4, PlacesAre, NewPlaceIs, PlaceFacts DEF Remains
  <2> QED
    BY <2>5
<1>4. CASE \E n \in DOMAIN x.bufs : \E k \in DOMAIN x.bufs[n] : q = InBuf(n, k)
  <2>1. PICK n \in DOMAIN x.bufs : \E k \in DOMAIN x.bufs[n] : q = InBuf(n, k)
    BY <1>4
  <2>2. PICK k \in DOMAIN x.bufs[n] : q = InBuf(n, k)
    BY <2>1
  <2>3. PICK b \in DOMAIN name : name[b] = n
    BY <1>1
  <2>4. b \in DOMAIN z.bufs /\ k \in DOMAIN z.bufs[b]
    BY <1>1, <2>2, <2>3 DEF NewContents
  <2>5. InBuf(b, k) \in Places(z) /\ Remains(z, name, InBuf(b, k))
    BY <2>4, PlacesAre, PlaceFacts DEF Remains
  <2>6. NewPlace(name, InBuf(b, k)) = q
    BY <2>2, <2>3, NewPlaceIs DEF NewBuf
  <2> QED
    BY <2>5, <2>6
<1> QED
  BY <1>2, <1>3, <1>4, PlacesAre DEF x

LEMMA AloneAfter ==
  ASSUME TypesFit, NEW ty, NEW z, StateFits(ty, z), NEW name, Renaming(z, name),
         NEW p, Remains(z, name, p), NEW b \in DOMAIN name, Alone(z, b, p)
  PROVE  Alone(After(z, name), name[b], NewPlace(name, p))
<1>1. NewPlace(name, p) \in Places(After(z, name)) /\ Cell(After(z, name), NewPlace(name, p)).buf = name[b]
  <2>1. Cell(z, p).buf = b
    BY DEF Alone
  <2> QED
    BY <2>1, NewPlaces DEF NewBuf
<1>2. ASSUME NEW q \in Places(After(z, name)), Cell(After(z, name), q).buf = name[b]
      PROVE  q = NewPlace(name, p)
  <2>1. PICK o : Remains(z, name, o) /\ NewPlace(name, o) = q
    BY OldPlaces
  <2>2. name[b] = NewBuf(name, Cell(z, o).buf)
    BY <1>2, <2>1, NewPlaces
  <2>3. Cell(z, o).buf = b
    BY <2>2 DEF NewBuf, Renaming
  <2>4. o = p
    BY <2>1, <2>3 DEF Alone, Remains
  <2> QED
    BY <2>1, <2>4
<1> QED
  BY <1>1, <1>2 DEF Alone

LEMMA WayAfter ==
  ASSUME TypesFit, NEW ty, NEW z, StateFits(ty, z), NEW name, Renaming(z, name),
         NEW v, NEW keys, NEW at, WayTo(ty, z, v, keys, at)
  PROVE  WayTo(NewTypes(ty, name), After(z, name), v, keys, [i \in 0 .. Len(keys) |-> NewPlace(name, at[i])])
<1> DEFINE x == After(z, name)
           ty2 == NewTypes(ty, name)
           new == [i \in 0 .. Len(keys) |-> NewPlace(name, at[i])]
<1>1. /\ \A b \in DOMAIN name : name[b] \in DOMAIN ty2 /\ ty2[name[b]] = ty[b]
      /\ \A b \in DOMAIN name : name[b] \in DOMAIN x.bufs /\ x.bufs[name[b]] = NewContents(z, name, b)
  BY NewTypesAre, NewCells
<1>2. /\ v \in Vars /\ keys \in Seq(Nat) /\ Len(keys) <= Len(types[v]) /\ Len(keys) \in Nat
      /\ at[0] = InVar(v)
  BY DEF WayTo
<1>3. \A i \in 0 .. Len(keys) : new[i] = NewPlace(name, at[i])
  OBVIOUS
<1>4. new[0] = InVar(v)
  <2>1. 0 \in 0 .. Len(keys)
    BY <1>2
  <2> QED
    BY <1>2, <1>3, <2>1, NewPlaceIs
<1>5. new = [i \in 0 .. Len(keys) |-> new[i]]
  OBVIOUS
<1> HIDE DEF x, ty2, new
<1>6. ASSUME NEW i \in 0 .. Len(keys) - 1
      PROVE  OnWay(ty2, x, v, keys, new, i)
  <2> DEFINE b == Through(at, i)
  <2>1. b \in DOMAIN name
    BY WayNamed
  <2>2. /\ b \in DOMAIN z.bufs /\ ty[b] = Rest(types[v], i)
        /\ at[i + 1] = InBuf(b, keys[i + 1])
        /\ keys[i + 1] \in DOMAIN z.bufs[b] /\ i + 1 \in 0 .. Len(keys)
        /\ Cell(z, at[i]).buf = b
    BY WayStep
  <2>3. Alone(z, b, at[i]) /\ i \in 0 .. Len(keys)
    BY <1>2, WayAlone
  <2>4. Remains(z, name, at[i])
    <3>1. CASE i = 0
      <4>1. at[i][1] = "var"
        BY <1>2, <3>1, PlaceFacts
      <4> QED
        BY <2>3, <4>1, PlaceFacts DEF Remains, Alone
    <3>2. CASE i > 0
      <4>1. PICK h \in 0 .. Len(keys) - 1 : i = h + 1
        BY <1>2, <3>2
      <4>2. at[i][2] \in DOMAIN name
        BY <4>1, WayNamed DEF Through
      <4> QED
        BY <2>3, <4>2, PlaceFacts DEF Remains, Alone
    <3> QED
      BY <3>1, <3>2
  <2> HIDE DEF b
  <2>5. Alone(x, name[b], new[i])
    BY <1>3, <2>1, <2>3, <2>4, AloneAfter DEF x
  <2>6. Cell(x, new[i]).buf = name[b] /\ Unique(x, name[b])
    BY <2>5 DEF Alone, Unique
  <2>7. new[i + 1] = InBuf(name[b], keys[i + 1])
    BY <1>3, <2>1, <2>2, NewPlaceIs DEF NewBuf
  <2>8. /\ name[b] \in DOMAIN x.bufs /\ ty2[name[b]] = Rest(types[v], i)
        /\ keys[i + 1] \in DOMAIN x.bufs[name[b]]
    BY <1>1, <2>1, <2>2 DEF NewContents
  <2> QED
    BY <2>6, <2>7, <2>8 DEF OnWay
<1> QED
  BY <1>2, <1>4, <1>5, <1>6 DEF WayTo, x, ty2, new

LEMMA AfterReach ==
  ASSUME TypesFit, NEW ty, NEW z, StateFits(ty, z), HeldReach(ty, z), NEW name, Renaming(z, name)
  PROVE  HeldReach(NewTypes(ty, name), After(z, name))
<1> DEFINE x == After(z, name)
           ty2 == NewTypes(ty, name)
<1>1. ASSUME NEW i \in DOMAIN x.stack, x.stack[i].kind = "address"
      PROVE  Reaches(ty2, x, x.stack[i])
  <2>1. PICK e : e = z.stack[i]
    OBVIOUS
  <2>2. i \in DOMAIN z.stack /\ x.stack[i] = NewEntry(name, e)
    BY <2>1 DEF After
  <2> HIDE DEF x, ty2
  <2>3. e \in Entry(DOMAIN ty)
    BY <2>1, <2>2 DEF StateFits, StackFits
  <2>4. e.kind = "address"
    <3>1. CASE e.kind = "value"
      <4>1. e \in [kind : {"value"}, type : Type, cell : CellSet(DOMAIN ty)]
        BY <2>3, <3>1 DEF Entry
      <4>2. x.stack[i].kind = "value"
        BY <2>2, <3>1, <4>1 DEF NewEntry
      <4> QED
        BY <1>1, <4>2
    <3> QED
      BY <2>3, <3>1 DEF Entry
  <2>5. e \in [kind : {"address"}, type : Type, at : PlaceSet(DOMAIN ty), use : {"read", "write"},
               var : Vars, keys : Seq(Nat)]
    BY <2>3, <2>4 DEF Entry
  <2>6. PICK a : x.stack[i] = [e EXCEPT !.at = a] /\ a = NewPlace(name, e.at)
    <3>1. CASE IsElement(e)
      BY <2>2, <2>4, <3>1 DEF NewEntry, NewPlace, IsElement
    <3>2. CASE ~IsElement(e)
      <4>1. x.stack[i] = e /\ NewPlace(name, e.at) = e.at
        BY <2>2, <2>4, <3>2 DEF NewEntry, NewPlace, IsElement
      <4>2. e = [e EXCEPT !.at = e.at]
        BY <2>5
      <4> QED
        BY <4>1, <4>2
    <3> QED
      BY <3>1, <3>2
  <2>7. /\ x.stack[i].type = e.type /\ x.stack[i].var = e.var /\ x.stack[i].keys = e.keys
        /\ x.stack[i].at = NewPlace(name, e.at)
    BY <2>5, <2>6
  <2>8. Reaches(ty, z, e)
    BY <2>1, <2>2, <2>4 DEF HeldReach
  <2>9. PICK at : WayTo(ty, z, e.var, e.keys, at) /\ e.at = at[Len(e.keys)]
    BY <2>8 DEF Reaches
  <2>10. PICK new : new = [j \in 0 .. Len(e.keys) |-> NewPlace(name, at[j])]
    OBVIOUS
  <2>11. WayTo(ty2, x, e.var, e.keys, new)
    BY <2>9, <2>10, WayAfter DEF x, ty2
  <2>12. new[Len(e.keys)] = NewPlace(name, e.at)
    <3>1. Len(e.keys) \in 0 .. Len(e.keys)
      BY <2>5
    <3> QED
      BY <2>9, <2>10, <3>1
  <2> QED
    BY <2>7, <2>8, <2>11, <2>12 DEF Reaches
<1> QED
  BY <1>1 DEF HeldReach

-----------------------------------------------------------------------------
(* The stack that an instruction leaves.                                   *)

(* The cell does not point into a way.                                     *)
OffAll(ty, w, c) ==
  \A v, keys, at : WayTo(ty, w, v, keys, at) => \A i \in 0 .. Len(keys) - 1 : c.buf # Through(at, i)

Settled(ty, w, st) ==
  /\ StackFits(ty, st) /\ Len(st) <= MaxStack
  /\ \A i \in DOMAIN st : st[i].kind = "address" => Reaches(ty, w, st[i])
  /\ \/ \A i \in DOMAIN st : st[i].kind = "address" => st[i].keys = << >>
     \/ \A j \in DOMAIN st : st[j].kind = "value" => OffAll(ty, w, st[j].cell)

LEMMA RestackFits ==
  ASSUME NEW ty, NEW w, StateFits(ty, w), NEW st, StackFits(ty, st)
  PROVE  LET z == [w EXCEPT !.stack = st]
         IN  /\ StateFits(ty, z)
             /\ z.vars = w.vars /\ z.stack = st /\ z.bufs = w.bufs
<1>1. [w EXCEPT !.stack = st] = [vars |-> w.vars, stack |-> st, bufs |-> w.bufs, made |-> w.made]
  BY DEF StateFits
<1> QED
  BY <1>1 DEF StateFits, FreshNames

LEMMA WayRestack ==
  ASSUME TypesFit, NEW ty, NEW w, StateFits(ty, w), NEW z, z.vars = w.vars, z.bufs = w.bufs,
         NEW v, NEW keys, NEW at, WayTo(ty, w, v, keys, at),
         \A j \in DOMAIN z.stack : z.stack[j].kind = "value" =>
           \A i \in 0 .. Len(keys) - 1 : z.stack[j].cell.buf # Through(at, i)
  PROVE  WayTo(ty, z, v, keys, at)
<1>1. SUFFICES ASSUME NEW i \in 0 .. Len(keys) - 1
               PROVE  OnWay(ty, z, v, keys, at, i)
  BY DEF WayTo
<1> DEFINE b == Through(at, i)
<1>2. /\ b \in DOMAIN w.bufs /\ ty[b] = Rest(types[v], i)
      /\ at[i + 1] = InBuf(b, keys[i + 1])
      /\ keys[i + 1] \in DOMAIN w.bufs[b]
      /\ Alone(w, b, at[i]) /\ i \in 0 .. Len(keys)
  <2>1. i \in 0 .. Len(keys)
    BY DEF WayTo
  <2>2. Alone(w, b, at[i])
    BY WayAlone
  <2> QED
    BY <2>1, <2>2, WayStep
<1>3. \A j : at[i] # InStack(j)
  BY <1>2, WayPlaces
<1>4. \A j \in DOMAIN z.stack : z.stack[j].kind = "value" => z.stack[j].cell.buf # b
  OBVIOUS
<1> HIDE DEF b
<1>5. ASSUME NEW q, \A j : q # InStack(j)
      PROVE  (q \in Places(z) <=> q \in Places(w)) /\ (q \in Places(w) => Cell(z, q) = Cell(w, q))
  BY <1>5, PlacesAre, CellIs
<1>6. at[i] \in Places(z) /\ Cell(z, at[i]).buf = b
  BY <1>2, <1>3, <1>5 DEF Alone
<1>7. ASSUME NEW q \in Places(z), Cell(z, q).buf = b
      PROVE  q = at[i]
  <2>1. CASE \E j : q = InStack(j)
    <3>1. PICK j \in DOMAIN z.stack : z.stack[j].kind = "value" /\ q = InStack(j)
      BY <2>1, PlacesAre, PlaceFacts
    <3> QED
      BY <3>1, <1>4, <1>7, CellIs
  <2>2. CASE \A j : q # InStack(j)
    BY <2>2, <1>2, <1>5, <1>7 DEF Alone
  <2> QED
    BY <2>1, <2>2
<1>8. Unique(z, b)
  BY <1>6, <1>7 DEF Unique
<1> QED
  BY <1>2, <1>6, <1>8 DEF OnWay

LEMMA RestackReach ==
  ASSUME TypesFit, NEW ty, NEW w, StateFits(ty, w), NEW st, Settled(ty, w, st),
         NEW z, z.vars = w.vars, z.bufs = w.bufs, z.stack = st
  PROVE  HeldReach(ty, z)
<1>1. ASSUME NEW i \in DOMAIN st, st[i].kind = "address"
      PROVE  Reaches(ty, z, st[i])
  <2>1. PICK e : e = st[i]
    OBVIOUS
  <2>2. Reaches(ty, w, e)
    BY <1>1, <2>1 DEF Settled
  <2>3. PICK at : WayTo(ty, w, e.var, e.keys, at) /\ e.at = at[Len(e.keys)]
    BY <2>2 DEF Reaches
  <2>4. ASSUME NEW j \in DOMAIN st, st[j].kind = "value", NEW n \in 0 .. Len(e.keys) - 1
        PROVE  st[j].cell.buf # Through(at, n)
    <3>1. e.keys # << >>
      <4>1. Len(<< >>) = 0
        OBVIOUS
      <4>2. ~(n \in 0 .. 0 - 1)
        OBVIOUS
      <4> QED
        BY <4>1, <4>2
    <3>2. OffAll(ty, w, st[j].cell)
      BY <1>1, <2>1, <2>4, <3>1 DEF Settled
    <3> QED
      BY <2>3, <3>2 DEF OffAll
  <2>5. WayTo(ty, z, e.var, e.keys, at)
    BY <2>3, <2>4, WayRestack
  <2> QED
    BY <2>1, <2>2, <2>3, <2>5 DEF Reaches
<1> QED
  BY <1>1 DEF HeldReach

LEMMA BecomeInv ==
  ASSUME TypesFit, NEW ty, NEW w, StateFits(ty, w), NEW st, Settled(ty, w, st), With(w, st)
  PROVE  IInv'
<1>1. PICK z : z = [w EXCEPT !.stack = st]
  OBVIOUS
<1>2. StateFits(ty, z) /\ z.vars = w.vars /\ z.stack = st /\ z.bufs = w.bufs
  BY <1>1, RestackFits DEF Settled
<1>3. HeldReach(ty, z)
  BY <1>2, RestackReach
<1>4. PICK name : name = NamesOf(Leads(z))
  OBVIOUS
<1>5. Renaming(z, name)
  BY <1>2, <1>4, NamesRename
<1>6. PICK x, ty2 : x = After(z, name) /\ ty2 = NewTypes(ty, name)
  OBVIOUS
<1>7. StateFits(ty2, x) /\ HeldReach(ty2, x)
  BY <1>2, <1>3, <1>5, <1>6, AfterFits, AfterReach
<1>8. types' = types /\ vars' = x.vars /\ stack' = x.stack /\ bufs' = x.bufs
  BY <1>1, <1>4, <1>6, RenamedIs DEF With, Become, Assign, Destroyed
<1>9. x = [vars |-> x.vars, stack |-> x.stack, bufs |-> x.bufs, made |-> 0]
  BY <1>6 DEF After
<1>10. Now' = x
  BY <1>8, <1>9 DEF Now
<1>11. StateFits(ty2, Now)'
  <2>1. /\ x = [vars |-> x.vars, stack |-> x.stack, bufs |-> x.bufs, made |-> x.made]
        /\ x.vars = [v \in Vars |-> x.vars[v]]
        /\ \A v \in Vars : Fits(ty2, x.vars[v], types[v])
        /\ BufsFit(ty2, x.bufs)
        /\ StackFits(ty2, x.stack)
        /\ FreshNames(x)
    BY <1>7 DEF StateFits
  <2>2. \A v \in Vars : Fits(ty2, x.vars[v], types'[v])
    BY <2>1, <1>8
  <2> QED
    BY <2>1, <2>2, <1>10, Zenon DEF StateFits
<1>12. HeldReach(ty2, Now)'
  BY <1>7, <1>8, <1>10 DEF HeldReach, Reaches, WayTo, OnWay
<1>13. (Depth <= MaxStack)'
  <2>1. DOMAIN x.stack = DOMAIN st
    BY <1>2, <1>6 DEF After
  <2>2. PICK n \in Nat : DOMAIN st = 1 .. n /\ Len(st) = n
    BY DEF Settled, StackFits
  <2>3. PICK m \in Nat : DOMAIN x.stack = 1 .. m /\ Len(x.stack) = m
    BY <1>7 DEF StateFits, StackFits
  <2>4. n = m
    BY <2>1, <2>2, <2>3
  <2> QED
    BY <1>8, <2>2, <2>3, <2>4 DEF Settled, Depth
<1>14. TypesFit'
  BY <1>8 DEF TypesFit
<1> QED
  BY <1>11, <1>12, <1>13, <1>14 DEF IInv

LEMMA StackOff ==
  ASSUME TypesFit, NEW ty, NEW w, StateFits(ty, w), NEW i \in DOMAIN w.stack, w.stack[i].kind = "value"
  PROVE  OffAll(ty, w, w.stack[i].cell)
<1>1. ASSUME NEW v, NEW keys, NEW at, WayTo(ty, w, v, keys, at), NEW n \in 0 .. Len(keys) - 1
      PROVE  w.stack[i].cell.buf # Through(at, n)
  <2>1. n \in 0 .. Len(keys)
    BY <1>1 DEF WayTo
  <2>2. Alone(w, Through(at, n), at[n])
    BY <1>1, WayAlone
  <2>3. at[n] # InStack(i)
    BY <1>1, <2>1, WayPlaces
  <2>4. InStack(i) \in Places(w) /\ Cell(w, InStack(i)) = w.stack[i].cell
    BY PlacesAre, CellIs
  <2> QED
    BY <2>2, <2>3, <2>4 DEF Alone
<1> QED
  BY <1>1 DEF OffAll

LEMMA NullOff ==
  ASSUME TypesFit, NEW ty, NEW w, StateFits(ty, w), NEW c, c.buf = Null
  PROVE  OffAll(ty, w, c)
BY WayStep, BufsExist DEF OffAll

(* The address of a variable has no subscripts.                            *)
LEMMA VarAddress ==
  ASSUME NEW ty, NEW s, NEW e, Reaches(ty, s, e), ~IsElement(e), e.kind = "address"
  PROVE  e.keys = << >>
<1>1. PICK at : WayTo(ty, s, e.var, e.keys, at) /\ e.at = at[Len(e.keys)]
  BY DEF Reaches
<1>2. e.keys \in Seq(Nat)
  BY <1>1 DEF WayTo
<1>3. PICK n \in Nat : n = Len(e.keys)
  BY <1>2
<1>4. CASE n = 0
  BY <1>2, <1>3, <1>4, EmptySeq
<1>5. CASE n > 0
  <2>1. PICK m \in Nat : m + 1 = n
    BY <1>5
  <2>2. m \in 0 .. Len(e.keys) - 1
    BY <1>3, <2>1
  <2>3. at[m + 1] = InBuf(Through(at, m), e.keys[m + 1])
    BY <1>1, <2>2, WayStep
  <2>4. e.at = InBuf(Through(at, m), e.keys[m + 1])
    BY <1>1, <1>3, <2>1, <2>3
  <2>5. e.at[1] = "buf"
    BY <2>4, PlaceFacts
  <2> QED
    BY <2>5 DEF IsElement
<1> QED
  BY <1>4, <1>5

LEMMA NoKeys == Len(<< >>) = 0 /\ \A i : ~(i \in 0 .. Len(<< >>) - 1)
OBVIOUS

LEMMA VarReaches ==
  ASSUME NEW ty, NEW s, NEW e, Reaches(ty, s, e), e.keys = << >>, NEW ty2, NEW w
  PROVE  Reaches(ty2, w, e)
<1>1. PICK at : WayTo(ty, s, e.var, e.keys, at) /\ e.at = at[Len(e.keys)]
  BY DEF Reaches
<1>2. WayTo(ty2, w, e.var, e.keys, at)
  BY <1>1, NoKeys DEF WayTo
<1> QED
  BY <1>1, <1>2 DEF Reaches

(* An instruction that takes n operands has left the rest of the stack,    *)
(* and the ways of the addresses in it.                                    *)
Calm(ty, ty2, w, n) ==
  /\ StateFits(ty, Now) /\ HeldReach(ty, Now) /\ n \in 0 .. Depth /\ Depth <= MaxStack
  /\ StateFits(ty2, w) /\ MoreOf(ty, ty2)
  /\ \A i \in 1 .. Depth - n : i \in DOMAIN w.stack /\ w.stack[i] = stack[i]
  /\ \/ AllWays(ty, Now, ty2, w)
     \/ \A i \in 1 .. Depth - n : stack[i].kind = "address" => ~IsElement(stack[i])

LEMMA BelowIs ==
  ASSUME NEW ty, StateFits(ty, Now), NEW n \in 0 .. Depth
  PROVE  /\ Depth \in Nat /\ DOMAIN stack = 1 .. Depth
         /\ Below(n) \in Seq(Entry(DOMAIN ty)) /\ Len(Below(n)) = Depth - n /\ DOMAIN Below(n) = 1 .. Depth - n
         /\ \A i \in 1 .. Depth - n : Below(n)[i] = stack[i]
<1>1. Now.stack = stack
  BY DEF Now
<1>2. stack \in Seq(Entry(DOMAIN ty))
  BY <1>1 DEF StateFits, StackFits
<1>3. PICK d \in Nat : d = Depth
  BY <1>2 DEF Depth
<1>4. n \in 0 .. d
  BY <1>3
<1>5. /\ SubSeq(stack, 1, d - n) \in Seq(Entry(DOMAIN ty)) /\ Len(SubSeq(stack, 1, d - n)) = d - n
      /\ \A i \in 1 .. (d - n) : SubSeq(stack, 1, d - n)[i] = stack[i]
  <2>1. d = Len(stack)
    BY <1>3 DEF Depth
  <2> QED
    BY <1>2, <1>4, <2>1, SubSeqProperties
<1>6. DOMAIN SubSeq(stack, 1, d - n) = 1 .. (d - n)
  BY <1>5
<1>7. DOMAIN stack = 1 .. d
  BY <1>2, <1>3 DEF Depth
<1>8. Below(n) = SubSeq(stack, 1, d - n)
  BY <1>3 DEF Below
<1> QED
  BY <1>3, <1>5, <1>6, <1>7, <1>8

LEMMA CalmStack ==
  ASSUME TypesFit, NEW ty, NEW ty2, NEW w, NEW n, Calm(ty, ty2, w, n)
  PROVE  /\ \A i \in 1 .. Depth - n : /\ stack[i] \in Entry(DOMAIN ty2) /\ RankedType(stack[i].type)
                                      /\ stack[i].kind = "value" => /\ Fits(ty2, stack[i].cell, stack[i].type)
                                                                    /\ OffAll(ty2, w, stack[i].cell)
                                      /\ stack[i].kind = "address" => /\ Reaches(ty2, w, stack[i])
                                                                      /\ ~IsElement(stack[i]) => stack[i].keys = << >>
         /\ Below(n) \in Seq(Entry(DOMAIN ty2))
<1>1. StackFits(ty2, stack)
  <2>1. Now.stack = stack
    BY DEF Now
  <2> QED
    BY <2>1, MoreStack DEF Calm, StateFits
<1>2. ASSUME NEW i \in 1 .. Depth - n
      PROVE  /\ stack[i] \in Entry(DOMAIN ty2) /\ RankedType(stack[i].type)
             /\ stack[i].kind = "value" => Fits(ty2, stack[i].cell, stack[i].type) /\ OffAll(ty2, w, stack[i].cell)
             /\ stack[i].kind = "address" => Reaches(ty2, w, stack[i]) /\ (~IsElement(stack[i]) => stack[i].keys = << >>)
  <2>1. i \in DOMAIN stack /\ i \in DOMAIN w.stack /\ w.stack[i] = stack[i]
    BY BelowIs DEF Calm
  <2>2. stack[i].kind = "value" => OffAll(ty2, w, stack[i].cell)
    BY <2>1, StackOff DEF Calm
  <2>3. ASSUME stack[i].kind = "address"
        PROVE  Reaches(ty2, w, stack[i]) /\ (~IsElement(stack[i]) => stack[i].keys = << >>)
    <3>1. PICK e : e = stack[i]
      OBVIOUS
    <3>2. Reaches(ty, Now, e)
      BY <2>1, <2>3, <3>1 DEF Calm, HeldReach, Now
    <3>3. ~IsElement(e) => e.keys = << >>
      BY <2>3, <3>1, <3>2, VarAddress
    <3>4. CASE AllWays(ty, Now, ty2, w)
      BY <3>1, <3>2, <3>3, <3>4 DEF Reaches, AllWays
    <3>5. CASE ~IsElement(e)
      BY <3>1, <3>2, <3>3, <3>5, VarReaches
    <3> QED
      BY <2>3, <3>1, <3>4, <3>5 DEF Calm
  <2> QED
    BY <1>1, <2>1, <2>2, <2>3 DEF StackFits
<1>3. Below(n) \in Seq(Entry(DOMAIN ty2))
  <2>1. DOMAIN ty \subseteq DOMAIN ty2
    BY DEF Calm, MoreOf
  <2>2. Entry(DOMAIN ty) \subseteq Entry(DOMAIN ty2)
    <3>1. CellSet(DOMAIN ty) \subseteq CellSet(DOMAIN ty2) /\ PlaceSet(DOMAIN ty) \subseteq PlaceSet(DOMAIN ty2)
      BY <2>1 DEF CellSet, PlaceSet
    <3> QED
      BY <3>1 DEF Entry
  <2>3. Below(n) \in Seq(Entry(DOMAIN ty))
    BY BelowIs DEF Calm
  <2> QED
    BY <2>2, <2>3
<1> QED
  BY <1>2, <1>3

LEMMA AfterBelow ==
  ASSUME TypesFit, NEW ty, NEW ty2, NEW w, NEW n, Calm(ty, ty2, w, n)
  PROVE  Settled(ty2, w, Below(n))
<1>1. /\ Len(Below(n)) = Depth - n /\ DOMAIN Below(n) = 1 .. Depth - n /\ Depth \in Nat
      /\ \A i \in 1 .. Depth - n : Below(n)[i] = stack[i]
  BY BelowIs DEF Calm
<1>2. StackFits(ty2, Below(n))
  BY <1>1, CalmStack DEF StackFits
<1>3. Len(Below(n)) <= MaxStack
  <2>1. PICK d \in Nat : d = Depth
    BY <1>1
  <2>2. n \in 0 .. d /\ d <= MaxStack
    BY <2>1 DEF Calm
  <2> QED
    BY <1>1, <2>1, <2>2, BoundAssumption
<1> QED
  BY <1>1, <1>2, <1>3, CalmStack DEF Settled

LEMMA AfterPush ==
  ASSUME TypesFit, NEW ty, NEW ty2, NEW w, NEW n, Calm(ty, ty2, w, n), Depth - n < MaxStack,
         NEW e \in Entry(DOMAIN ty2), RankedType(e.type),
         e.kind = "address" => Reaches(ty2, w, e),
         e.kind = "value" => /\ Fits(ty2, e.cell, e.type)
                             /\ \/ OffAll(ty2, w, e.cell)
                                \/ \A i \in 1 .. Depth - n : stack[i].kind = "address" => ~IsElement(stack[i])
  PROVE  Settled(ty2, w, Append(Below(n), e))
<1> DEFINE st == Append(Below(n), e)
<1>1. /\ Len(Below(n)) = Depth - n /\ DOMAIN Below(n) = 1 .. Depth - n /\ Depth \in Nat
      /\ \A i \in 1 .. Depth - n : Below(n)[i] = stack[i]
      /\ Below(n) \in Seq(Entry(DOMAIN ty2))
  BY BelowIs, CalmStack DEF Calm
<1>2. PICK d \in Nat : d = Depth - n
  BY <1>1 DEF Calm
<1>3. st \in Seq(Entry(DOMAIN ty2)) /\ Len(st) = d + 1
      /\ (\A i \in 1 .. d : st[i] = Below(n)[i]) /\ st[d + 1] = e
  BY <1>1, <1>2, AppendProperties
<1>4. DOMAIN st = 1 .. (d + 1)
  BY <1>3
<1>5. \A i \in 1 .. d : st[i] = stack[i]
  BY <1>1, <1>2, <1>3
<1> HIDE DEF st
<1>6. \A i \in DOMAIN st : i \in 1 .. d \/ i = d + 1
  BY <1>4
<1>7. StackFits(ty2, st)
  BY <1>2, <1>3, <1>5, <1>6, CalmStack DEF StackFits
<1>8. Len(st) <= MaxStack
  <2>1. d < MaxStack
    BY <1>2
  <2> QED
    BY <1>2, <1>3, <2>1, BoundAssumption
<1>9. \A i \in DOMAIN st : st[i].kind = "address" => Reaches(ty2, w, st[i])
  BY <1>2, <1>3, <1>5, <1>6, CalmStack
<1>10. \/ \A i \in DOMAIN st : st[i].kind = "address" => st[i].keys = << >>
       \/ \A j \in DOMAIN st : st[j].kind = "value" => OffAll(ty2, w, st[j].cell)
  <2>1. CASE e.kind = "value" /\ ~OffAll(ty2, w, e.cell)
    BY <1>2, <1>3, <1>5, <1>6, <2>1, CalmStack
  <2>2. CASE ~(e.kind = "value" /\ ~OffAll(ty2, w, e.cell))
    BY <1>2, <1>3, <1>5, <1>6, <2>2, CalmStack
  <2> QED
    BY <2>1, <2>2
<1> QED
  BY <1>7, <1>8, <1>9, <1>10 DEF Settled, st

-----------------------------------------------------------------------------
(* The operands of an instruction.                                         *)

Held(ty) == TypesFit /\ Depth <= MaxStack /\ StateFits(ty, Now) /\ HeldReach(ty, Now)

LEMMA NowIs == Now.vars = vars /\ Now.stack = stack /\ Now.bufs = bufs /\ Now.made = 0
BY DEF Now

LEMMA ValueOperand ==
  ASSUME NEW ty, Held(ty), NEW i \in Nat, IsValue(i)
  PROVE  /\ Depth - i \in 1 .. Depth /\ Operand(i) = stack[Depth - i]
         /\ Operand(i) \in Entry(DOMAIN ty) /\ Operand(i).kind = "value"
         /\ RankedType(Operand(i).type) /\ Fits(ty, Operand(i).cell, Operand(i).type)
         /\ PlaceAt(ty, Now, InStack(Depth - i), Operand(i).type)
         /\ Cell(Now, InStack(Depth - i)) = Operand(i).cell
         /\ OffAll(ty, Now, Operand(i).cell)
<1> DEFINE j == Depth - i
<1>1. Depth \in Nat /\ DOMAIN stack = 1 .. Depth
  BY BelowIs DEF Held, StateFits, StackFits, Now, Depth
<1>2. j \in 1 .. Depth /\ Operand(i) = stack[j] /\ stack[j].kind = "value"
  BY <1>1 DEF IsValue, Operand
<1>3. /\ stack[j] \in Entry(DOMAIN ty) /\ RankedType(stack[j].type)
      /\ Fits(ty, stack[j].cell, stack[j].type)
  BY <1>1, <1>2, NowIs, ElementOfSeq DEF Held, StateFits, StackFits, Depth
<1>4. PlaceAt(ty, Now, InStack(j), stack[j].type)
  BY <1>1, <1>2, NowIs DEF PlaceAt
<1>5. Cell(Now, InStack(j)) = stack[j].cell
  BY CellIs, NowIs
<1>6. OffAll(ty, Now, stack[j].cell)
  <2>1. j \in DOMAIN Now.stack /\ Now.stack[j].kind = "value"
    BY <1>1, <1>2, NowIs
  <2>2. OffAll(ty, Now, Now.stack[j].cell)
    BY <2>1, StackOff DEF Held
  <2> QED
    BY <2>2, NowIs
<1> HIDE DEF j
<1>7. j = Depth - i
  BY DEF j
<1> QED
  BY <1>2, <1>3, <1>4, <1>5, <1>6, <1>7

LEMMA HeldAddress ==
  ASSUME NEW ty, Held(ty), NEW j \in 1 .. Depth, stack[j].kind = "address"
  PROVE  /\ stack[j] \in Entry(DOMAIN ty) /\ RankedType(stack[j].type)
         /\ PlaceAt(ty, Now, stack[j].at, stack[j].type)
         /\ \A k : stack[j].at # InStack(k)
         /\ stack[j].var \in Vars /\ stack[j].keys \in Seq(Nat)
         /\ Reaches(ty, Now, stack[j])
<1> DEFINE e == stack[j]
<1>1. Depth \in Nat /\ DOMAIN stack = 1 .. Depth
  BY BelowIs DEF Held, StateFits, StackFits, Now, Depth
<1>2. e.kind = "address"
  OBVIOUS
<1>3. e \in Entry(DOMAIN ty) /\ RankedType(e.type)
  BY <1>1, <1>2, NowIs, ElementOfSeq DEF Held, StateFits, StackFits, Depth
<1>4. Reaches(ty, Now, e)
  BY <1>1, <1>2, NowIs DEF Held, HeldReach
<1>5. PICK at : WayTo(ty, Now, e.var, e.keys, at) /\ e.at = at[Len(e.keys)]
  BY <1>4 DEF Reaches
<1>6. e.type = Rest(types[e.var], Len(e.keys)) /\ e.keys \in Seq(Nat) /\ e.var \in Vars
  BY <1>4, <1>5 DEF Reaches, WayTo
<1>7. Len(e.keys) \in 0 .. Len(e.keys)
  BY <1>6
<1>8. PlaceAt(ty, Now, e.at, e.type) /\ \A k : e.at # InStack(k)
  BY <1>5, <1>6, <1>7, WayPlaces DEF Held
<1> QED
  BY <1>3, <1>4, <1>6, <1>8

LEMMA AddressOperand ==
  ASSUME NEW ty, Held(ty), NEW i \in Nat, IsAddress(i)
  PROVE  /\ Depth - i \in 1 .. Depth /\ Operand(i) = stack[Depth - i]
         /\ Operand(i) \in Entry(DOMAIN ty) /\ Operand(i).kind = "address"
         /\ RankedType(Operand(i).type)
         /\ PlaceAt(ty, Now, Operand(i).at, Operand(i).type)
         /\ \A k : Operand(i).at # InStack(k)
         /\ Operand(i).var \in Vars /\ Operand(i).keys \in Seq(Nat)
         /\ Reaches(ty, Now, Operand(i))
<1>1. Depth \in Nat
  BY BelowIs DEF Held, StateFits, StackFits, Now, Depth
<1>2. Depth - i \in 1 .. Depth /\ Operand(i) = stack[Depth - i] /\ Operand(i).kind = "address"
  BY <1>1 DEF IsAddress, Operand
<1> QED
  BY <1>2, HeldAddress

LEMMA KeepsCalm ==
  ASSUME NEW ty, Held(ty), NEW ty2, NEW w, NEW p, NEW t, Keeps(ty, Now, ty2, w, p, t),
         NEW n \in 0 .. Depth, \A i \in 1 .. Depth - n : p # InStack(i),
         \/ AllWays(ty, Now, ty2, w)
         \/ \A i \in 1 .. Depth - n : stack[i].kind = "address" => ~IsElement(stack[i])
  PROVE  Calm(ty, ty2, w, n)
<1>1. Depth \in Nat /\ DOMAIN stack = 1 .. Depth
  BY BelowIs DEF Held, StateFits, StackFits, Now, Depth
<1>2. \A i \in 1 .. Depth - n : i \in DOMAIN w.stack /\ w.stack[i] = stack[i]
  BY <1>1, NowIs DEF Keeps, SameStack
<1> QED
  BY <1>2 DEF Held, Keeps, Calm

LEMMA CalmNow ==
  ASSUME NEW ty, Held(ty), NEW n \in 0 .. Depth
  PROVE  Calm(ty, ty, Now, n)
<1>1. Depth \in Nat /\ DOMAIN stack = 1 .. Depth
  BY BelowIs DEF Held, StateFits, StackFits, Now, Depth
<1>2. \A i \in 1 .. Depth - n : i \in DOMAIN Now.stack /\ Now.stack[i] = stack[i]
  BY <1>1, NowIs
<1>3. MoreOf(ty, ty) /\ AllWays(ty, Now, ty, Now)
  BY DEF MoreOf, AllWays
<1> QED
  BY <1>2, <1>3 DEF Held, Calm

LEMMA CalmMore ==
  ASSUME NEW ty, NEW ty2, NEW w, NEW n, Calm(ty, ty2, w, n), NEW m \in n .. Depth
  PROVE  Calm(ty, ty2, w, m)
<1>1. Depth \in Nat /\ n \in 0 .. Depth
  BY BelowIs DEF Calm, StateFits, StackFits, Now, Depth
<1>2. m \in 0 .. Depth /\ \A i \in 1 .. Depth - m : i \in 1 .. Depth - n
  BY <1>1
<1> QED
  BY <1>2 DEF Calm

LEMMA RaiseInv ==
  ASSUME TypesFit, NEW ty, NEW ty2, NEW w, NEW n, Calm(ty, ty2, w, n), Raise(w, n)
  PROVE  IInv'
<1>1. PICK m \in n .. Depth : With(w, Below(m))
  BY DEF Raise
<1>2. Calm(ty, ty2, w, m)
  BY CalmMore
<1>3. Settled(ty2, w, Below(m))
  BY <1>2, AfterBelow
<1>4. StateFits(ty2, w)
  BY <1>2 DEF Calm
<1> QED
  BY <1>1, <1>3, <1>4, BecomeInv

LEMMA BelowZero ==
  ASSUME NEW ty, Held(ty)
  PROVE  Below(0) = stack /\ 0 \in 0 .. Depth /\ Depth \in Nat /\ DOMAIN stack = 1 .. Depth
<1>1. Depth \in Nat /\ DOMAIN stack = 1 .. Depth /\ stack \in Seq(Entry(DOMAIN ty))
  BY DEF Held, StateFits, StackFits, Now, Depth
<1>2. Depth - 0 = Depth
  BY <1>1
<1>3. SubSeq(stack, 1, Len(stack)) = stack
  BY <1>1, SubSeqFull
<1> QED
  BY <1>1, <1>2, <1>3 DEF Below, Depth

(* An operation on what an address leads to keeps the way to it.           *)
LEMMA ReachesKept ==
  ASSUME TypesFit, NEW ty, NEW s, StateFits(ty, s), NEW a, Reaches(ty, s, a),
         NEW ty2, NEW w, NEW t, Keeps(ty, s, ty2, w, a.at, t)
  PROVE  Reaches(ty2, w, a)
<1>1. PICK at : WayTo(ty, s, a.var, a.keys, at) /\ a.at = at[Len(a.keys)]
  BY DEF Reaches
<1>2. a.keys \in Seq(Nat) /\ Len(a.keys) \in Nat
  BY <1>1 DEF WayTo
<1>3. ASSUME NEW i \in 0 .. Len(a.keys) - 1
      PROVE  at[i] # a.at
  <2>1. i \in 0 .. Len(a.keys) /\ Len(a.keys) \in 0 .. Len(a.keys) /\ i # Len(a.keys)
    BY <1>2
  <2> QED
    BY <1>1, <2>1, WayApart
<1>4. Off(a.keys, at, a.at)
  BY <1>3 DEF Off
<1>5. WayTo(ty2, w, a.var, a.keys, at)
  BY <1>1, <1>4 DEF Keeps, WaysOff
<1> QED
  BY <1>1, <1>5 DEF Reaches

(* The address of an element of what a leads to.                           *)
LEMMA SubReaches ==
  ASSUME TypesFit, NEW ty, NEW w, StateFits(ty, w), NEW a, Reaches(ty, w, a),
         a.type \in Type, IsContainer(a.type), Len(a.type) <= MaxRank,
         Owns(ty, w, a.at, a.type), NEW k \in DOMAIN Contents(w, a.at), NEW use \in {"read", "write"}
  PROVE  LET e == Sub(w, a, k, use)
         IN  /\ Reaches(ty, w, e) /\ e \in Entry(DOMAIN ty) /\ e.kind = "address"
             /\ RankedType(e.type) /\ e.type = Element(a.type)
<1> DEFINE b == Cell(w, a.at).buf
           e == Sub(w, a, k, use)
           keys == Append(a.keys, k)
           n == Len(a.keys)
<1>1. PICK at : WayTo(ty, w, a.var, a.keys, at) /\ a.at = at[n]
  BY DEF Reaches
<1>2. a.keys \in Seq(Nat) /\ a.var \in Vars /\ n \in Nat /\ n <= Len(types[a.var])
  BY <1>1 DEF WayTo
<1>3. b \in DOMAIN w.bufs /\ ty[b] = a.type /\ Alone(w, b, a.at) /\ ContentsFit(ty, w.bufs[b], a.type)
  BY DEF Owns, Contents
<1>4. k \in DOMAIN w.bufs[b] /\ k \in Nat
  BY <1>3 DEF Contents, ContentsFit
<1>5. Unique(w, b)
  BY <1>3 DEF Alone, Unique
<1>6. /\ keys \in Seq(Nat) /\ Len(keys) = n + 1 /\ keys[n + 1] = k
      /\ \A i \in 1 .. n : keys[i] = a.keys[i]
  BY <1>2, <1>4, AppendProperties
<1>7. a.type = Rest(types[a.var], n) /\ types[a.var] \in Type /\ Len(types[a.var]) \in Nat
  BY <1>2, VarTypes DEF Reaches
<1>8. n \in 0 .. Len(types[a.var])
  BY <1>2, <1>7
<1>9. n < Len(types[a.var]) /\ Element(a.type) = Rest(types[a.var], n + 1)
  BY <1>7, <1>8, RestFacts
<1> DEFINE at2 == [i \in 0 .. Len(keys) |-> IF i = n + 1 THEN InBuf(b, k) ELSE at[i]]
<1>10. at2[n + 1] = InBuf(b, k) /\ \A i \in 0 .. n : at2[i] = at[i]
  BY <1>2, <1>6
<1>11. ASSUME NEW i \in 0 .. Len(keys) - 1
       PROVE  OnWay(ty, w, a.var, keys, at2, i)
  <2>1. CASE i = n
    <3>1. at2[i] = a.at /\ Cell(w, at2[i]).buf = b
      BY <2>1, <1>1, <1>2, <1>10
    <3>2. keys[i + 1] = k /\ at2[i + 1] = InBuf(b, k) /\ ty[b] = Rest(types[a.var], i)
      BY <2>1, <1>3, <1>6, <1>7, <1>10
    <3> HIDE DEF at2, keys, b
    <3> QED
      BY <3>1, <3>2, <1>3, <1>4, <1>5 DEF OnWay
  <2>2. CASE i # n
    <3>1. i \in 0 .. n - 1 /\ i \in 0 .. n /\ i + 1 \in 0 .. n /\ i + 1 \in 1 .. n
      BY <2>2, <1>2, <1>6
    <3>2. OnWay(ty, w, a.var, a.keys, at, i)
      BY <3>1, <1>1 DEF WayTo
    <3>3. at2[i] = at[i] /\ at2[i + 1] = at[i + 1] /\ keys[i + 1] = a.keys[i + 1]
      BY <3>1, <1>6, <1>10
    <3> HIDE DEF at2, keys, b, n
    <3> QED
      BY <3>2, <3>3 DEF OnWay
  <2> QED
    BY <2>1, <2>2
<1>12. at2 = [i \in 0 .. Len(keys) |-> at2[i]] /\ at2[0] = InVar(a.var)
  <2>1. at[0] = InVar(a.var)
    BY <1>1 DEF WayTo
  <2> QED
    BY <2>1, <1>2, <1>10
<1>13. Len(keys) <= Len(types[a.var])
  BY <1>2, <1>6, <1>7, <1>9
<1>14. WayTo(ty, w, a.var, keys, at2)
  <2> HIDE DEF at2, keys
  <2> QED
    BY <1>2, <1>6, <1>11, <1>12, <1>13 DEF WayTo
<1>15. /\ e = [kind |-> "address", type |-> Element(a.type), at |-> InBuf(b, k), use |-> use,
               var |-> a.var, keys |-> keys]
  BY DEF Sub, Address, ElementAt
<1>16. e.type = Rest(types[a.var], Len(keys)) /\ e.at = at2[Len(keys)]
  <2> HIDE DEF at2, keys
  <2> QED
    BY <1>6, <1>9, <1>10, <1>15
<1>17. Reaches(ty, w, e)
  <2>1. e.var = a.var /\ e.keys = keys
    BY <1>15
  <2> HIDE DEF at2, keys, e
  <2> QED
    BY <2>1, <1>14, <1>16 DEF Reaches
<1>18. Element(a.type) \in Type /\ Len(Element(a.type)) = Len(a.type) - 1 /\ Len(a.type) \in Nat
  BY TypeFacts
<1>19. RankedType(Element(a.type))
  BY <1>18 DEF RankedType, MaxRank
<1>20. InBuf(b, k) \in PlaceSet(DOMAIN ty)
  BY <1>3, <1>4, BufsExist DEF PlaceSet
<1>21. e \in Entry(DOMAIN ty)
  <2> HIDE DEF keys, b
  <2> QED
    BY <1>2, <1>6, <1>15, <1>18, <1>20 DEF Entry
<1> HIDE DEF e
<1>22. e = Sub(w, a, k, use) /\ e.type = Element(a.type) /\ e.kind = "address"
  BY <1>15 DEF e
<1> QED
  BY <1>17, <1>19, <1>21, <1>22, Zenon

-----------------------------------------------------------------------------
(* Each instruction preserves the inductive invariant.                     *)

LEMMA WithInv ==
  ASSUME NEW ty, Held(ty), NEW ty2, NEW w, NEW n, Calm(ty, ty2, w, n), With(w, Below(n))
  PROVE  IInv'
<1>1. TypesFit /\ StateFits(ty2, w)
  BY DEF Held, Calm
<1>2. Settled(ty2, w, Below(n))
  BY <1>1, AfterBelow
<1> QED
  BY <1>1, <1>2, BecomeInv

LEMMA WithPushInv ==
  ASSUME NEW ty, Held(ty), NEW ty2, NEW w, NEW n, Calm(ty, ty2, w, n), Depth - n < MaxStack,
         NEW e \in Entry(DOMAIN ty2), RankedType(e.type),
         e.kind = "address" => Reaches(ty2, w, e),
         e.kind = "value" => /\ Fits(ty2, e.cell, e.type)
                             /\ \/ OffAll(ty2, w, e.cell)
                                \/ \A i \in 1 .. Depth - n : stack[i].kind = "address" => ~IsElement(stack[i]),
         With(w, Append(Below(n), e))
  PROVE  IInv'
<1>1. TypesFit /\ StateFits(ty2, w)
  BY DEF Held, Calm
<1>2. Settled(ty2, w, Append(Below(n), e))
  BY <1>1, AfterPush
<1> QED
  BY <1>1, <1>2, BecomeInv

LEMMA PushInv ==
  ASSUME NEW ty, Held(ty), NEW e \in Entry(DOMAIN ty), RankedType(e.type),
         e.kind = "address" => Reaches(ty, Now, e),
         e.kind = "value" => Fits(ty, e.cell, e.type) /\ OffAll(ty, Now, e.cell),
         Push(Now, e)
  PROVE  IInv'
<1>1. Below(0) = stack /\ 0 \in 0 .. Depth /\ Depth \in Nat
  BY BelowZero
<1>2. Calm(ty, ty, Now, 0)
  BY <1>1, CalmNow
<1>3. Depth - 0 < MaxStack
  BY <1>1 DEF Push
<1>4. With(Now, Append(Below(0), e))
  BY <1>1, NowIs DEF Push
<1> QED
  BY <1>2, <1>3, <1>4, WithPushInv

LEMMA PushAddressInv ==
  ASSUME NEW ty, Held(ty), PushAddress
  PROVE  IInv'
<1>1. PICK v \in Vars : Push(Now, Address(types[v], InVar(v), "read", v, << >>))
  BY DEF PushAddress
<1> DEFINE e == Address(types[v], InVar(v), "read", v, << >>)
           at == [i \in 0 .. 0 |-> InVar(v)]
<1>2. types[v] \in Type /\ Len(types[v]) \in 0 .. MaxRank
  BY VarTypes DEF Held
<1>3. e = [kind |-> "address", type |-> types[v], at |-> InVar(v), use |-> "read", var |-> v, keys |-> << >>]
  BY DEF Address
<1>4. << >> \in Seq(Nat) /\ Len(<< >>) = 0
  OBVIOUS
<1>5. RankedType(types[v])
  BY <1>2 DEF RankedType
<1>6. Rest(types[v], 0) = types[v]
  BY <1>2, RestFacts DEF MaxRank
<1>7. WayTo(ty, Now, v, << >>, at)
  <2>1. at = [i \in 0 .. Len(<< >>) |-> at[i]] /\ at[0] = InVar(v)
    BY <1>4
  <2>2. Len(<< >>) <= Len(types[v])
    BY <1>2, <1>4 DEF MaxRank
  <2> HIDE DEF at
  <2> QED
    BY <2>1, <2>2, <1>4, NoKeys DEF WayTo
<1>8. Reaches(ty, Now, e)
  <2>1. e.type = types[v] /\ e.var = v /\ e.keys = << >> /\ e.at = InVar(v)
    BY <1>3
  <2>2. at[0] = InVar(v)
    OBVIOUS
  <2> HIDE DEF e, at
  <2> QED
    BY <2>1, <2>2, <1>4, <1>6, <1>7 DEF Reaches
<1>9. e \in Entry(DOMAIN ty)
  <2>1. InVar(v) \in PlaceSet(DOMAIN ty)
    BY DEF PlaceSet
  <2>2. PICK p, k : p = InVar(v) /\ k = << >> /\ p \in PlaceSet(DOMAIN ty) /\ k \in Seq(Nat)
    BY <2>1, <1>4
  <2>3. e = [kind |-> "address", type |-> types[v], at |-> p, use |-> "read", var |-> v, keys |-> k]
    BY <1>3, <2>2
  <2> HIDE DEF e
  <2> QED
    BY <2>2, <2>3, <1>2 DEF Entry
<1>10. e.kind = "address" /\ e.type = types[v] /\ Push(Now, e)
  BY <1>1, <1>3
<1> HIDE DEF e
<1> QED
  BY <1>5, <1>8, <1>9, <1>10, PushInv

(* A number on the operand stack.                                          *)
LEMMA NumberEntry ==
  ASSUME TypesFit, NEW ty, NEW w, StateFits(ty, w), NEW n \in Nat
  PROVE  LET e == Value(<< >>, Number(n))
         IN  /\ e \in Entry(DOMAIN ty) /\ RankedType(e.type) /\ e.kind = "value"
             /\ Fits(ty, e.cell, e.type) /\ OffAll(ty, w, e.cell)
<1> DEFINE e == Value(<< >>, Number(n))
<1>1. e = [kind |-> "value", type |-> << >>, cell |-> Number(n)]
  BY DEF Value
<1>2. << >> \in Type /\ RankedType(<< >>) /\ ~IsContainer(<< >>)
  BY DEF Type, RankedType, MaxRank, IsContainer
<1>3. Fits(ty, Number(n), << >>) /\ Number(n).buf = Null
  BY <1>2, CellFacts DEF Fits
<1>4. Number(n) \in CellSet(DOMAIN ty)
  BY DEF Number, CellSet
<1>5. OffAll(ty, w, Number(n))
  BY <1>3, NullOff
<1> QED
  BY <1>1, <1>2, <1>3, <1>4, <1>5 DEF Entry

LEMMA PushNumberInv ==
  ASSUME NEW ty, Held(ty), PushNumber
  PROVE  IInv'
<1>1. PICK n \in Numbers : Push(Now, Value(<< >>, Number(n)))
  BY DEF PushNumber
<1>2. n \in Nat
  BY BoundAssumption DEF Numbers
<1> DEFINE e == Value(<< >>, Number(n))
<1>3. /\ e \in Entry(DOMAIN ty) /\ RankedType(e.type) /\ e.kind = "value"
      /\ Fits(ty, e.cell, e.type) /\ OffAll(ty, Now, e.cell)
  BY <1>2, NumberEntry DEF Held
<1> HIDE DEF e
<1>4. Push(Now, e)
  BY <1>1 DEF e
<1> QED
  BY <1>3, <1>4, PushInv

LEMMA PushParameterInv ==
  ASSUME NEW ty, Held(ty), PushParameter
  PROVE  IInv'
<1>1. PICK i \in 0 .. Depth - 1 : IsAddress(i) /\ Push(Now, Operand(i))
  BY DEF PushParameter
<1>2. i \in Nat
  BY BelowZero
<1>3. /\ Operand(i) \in Entry(DOMAIN ty) /\ Operand(i).kind = "address"
      /\ RankedType(Operand(i).type) /\ Reaches(ty, Now, Operand(i))
  BY <1>1, <1>2, AddressOperand
<1> QED
  BY <1>1, <1>3, PushInv

LEMMA DuplicateInv ==
  ASSUME NEW ty, Held(ty), Duplicate
  PROVE  IInv'
<1>1. /\ Operand(0) \in Entry(DOMAIN ty) /\ Operand(0).kind = "value" /\ RankedType(Operand(0).type)
      /\ Fits(ty, Operand(0).cell, Operand(0).type) /\ OffAll(ty, Now, Operand(0).cell)
  BY ValueOperand DEF Duplicate
<1> QED
  BY <1>1, PushInv DEF Duplicate

LEMMA DropInv ==
  ASSUME NEW ty, Held(ty), Drop
  PROVE  IInv'
<1>1. Depth \in Nat
  BY BelowZero
<1>2. 1 \in 0 .. Depth
  BY <1>1 DEF Drop
<1>3. Calm(ty, ty, Now, 1)
  BY <1>2, CalmNow
<1> QED
  BY <1>3, WithInv DEF Drop

LEMMA ContainerTypesAre ==
  ASSUME TypesFit, NEW t \in ContainerTypes(types)
  PROVE  RankedType(t) /\ t \in Type /\ IsContainer(t)
<1>1. DOMAIN types = Vars
  BY DeclarationsAssumption DEF TypesFit
<1>2. PICK v \in Vars : t \in {SubSeq(types[v], n, Len(types[v])) : n \in 1 .. Len(types[v])}
  BY <1>1 DEF ContainerTypes
<1>3. PICK n \in 1 .. Len(types[v]) : t = SubSeq(types[v], n, Len(types[v]))
  BY <1>2
<1>4. types[v] \in Type /\ Len(types[v]) \in 0 .. MaxRank /\ Len(types[v]) \in Nat
  BY VarTypes DEF MaxRank
<1>5. t = Rest(types[v], n - 1) /\ n - 1 \in 0 .. Len(types[v]) /\ n - 1 < Len(types[v])
  BY <1>3, <1>4 DEF Rest
<1>6. t \in Type /\ Len(t) = Len(types[v]) - (n - 1) /\ IsContainer(t)
  BY <1>4, <1>5, RestFacts
<1>7. Len(t) <= MaxRank
  <2>1. PICK m : m = Len(types[v]) /\ m \in Nat /\ m <= MaxRank
    BY <1>4
  <2>2. Len(t) = m - (n - 1) /\ n \in 1 .. m
    BY <2>1, <1>6
  <2> QED
    BY <2>1, <2>2 DEF MaxRank
<1> QED
  BY <1>6, <1>7 DEF RankedType

LEMMA ArrayOf ==
  ASSUME NEW t \in Type
  PROVE  /\ IsArray(<<"Array">> \o t) /\ IsContainer(<<"Array">> \o t)
         /\ Element(<<"Array">> \o t) = t
<1> DEFINE a == <<"Array">>
           s == a \o t
           S == {"Array", "Dictionary"}
<1>1. a \in Seq(S) /\ Len(a) = 1 /\ a[1] = "Array" /\ t \in Seq(S) /\ Len(t) \in Nat
  BY DEF Type
<1> HIDE DEF a
<1>2. /\ s \in Seq(S) /\ Len(s) = 1 + Len(t) /\ s[1] = "Array"
      /\ \A i \in 1 .. Len(t) : s[i + 1] = t[i]
  <2>1. PICK n \in Nat : n = Len(t)
    BY <1>1
  <2>2. /\ s \in Seq(S) /\ Len(s) = 1 + n
        /\ \A i \in 1 .. 1 + n : s[i] = IF i <= 1 THEN a[i] ELSE t[i - 1]
    <3>1. /\ s \in Seq(S) /\ Len(s) = Len(a) + Len(t)
          /\ \A i \in 1 .. Len(a) + Len(t) : s[i] = IF i <= Len(a) THEN a[i] ELSE t[i - Len(a)]
      <4> HIDE DEF S
      <4> QED
        BY <1>1, ConcatProperties
    <3> HIDE DEF s
    <3> QED
      BY <3>1, <1>1, <2>1
  <2> HIDE DEF s
  <2>3. ASSUME NEW i \in 1 .. n PROVE s[i + 1] = t[i]
    <3>1. i + 1 \in 1 .. 1 + n /\ ~(i + 1 <= 1) /\ (i + 1) - 1 = i
      BY <2>1
    <3> QED
      BY <3>1, <2>2
  <2> QED
    BY <2>1, <2>2, <2>3, <1>1
<1> HIDE DEF s
<1>3. s # << >>
  BY <1>1, <1>2, EmptySeq
<1>4. /\ Head(s) = s[1] /\ Tail(s) \in Seq(S) /\ Len(Tail(s)) = Len(t)
      /\ \A i \in 1 .. Len(t) : Tail(s)[i] = s[i + 1]
  BY <1>1, <1>2, <1>3, HeadTailProperties
<1>5. Tail(s) = t
  <2>1. \A i \in 1 .. Len(t) : Tail(s)[i] = t[i]
    BY <1>2, <1>4
  <2> QED
    BY <2>1, <1>1, <1>4, SeqEqual
<1>6. IsArray(s) /\ IsContainer(s) /\ Element(s) = t
  BY <1>2, <1>3, <1>4, <1>5 DEF IsArray, IsContainer, Element
<1> QED
  BY <1>6 DEF s, a

(* The cell that a literal makes, on top of the operand stack.             *)
LEMMA ConsedIs ==
  ASSUME NEW ty, Held(ty), NEW t \in Type, RankedType(t), IsContainer(t),
         NEW f, ContentsFit(ty, f, t),
         \A k \in DOMAIN f : \E i \in DOMAIN stack : stack[i].kind = "value" /\ f[k].buf = stack[i].cell.buf
  PROVE  \E ty2 :
           LET w == Consed(t, f)
               e == w.stack[Depth + 1]
           IN  /\ \A n \in 0 .. Depth : Calm(ty, ty2, w, n)
               /\ e \in Entry(DOMAIN ty2) /\ e.kind = "value" /\ RankedType(e.type)
               /\ Fits(ty2, e.cell, e.type) /\ OffAll(ty2, w, e.cell)
<1> DEFINE e0 == Value(t, None)
           st == Append(stack, e0)
           s == [Now EXCEPT !.stack = st]
           p == InStack(Depth + 1)
           w == Made(s, p, f)
<1>1. /\ Depth \in Nat /\ DOMAIN stack = 1 .. Depth /\ stack \in Seq(Entry(DOMAIN ty)) /\ Len(stack) = Depth
      /\ TypesFit /\ StateFits(ty, Now) /\ StackFits(ty, stack)
  BY BelowZero DEF Held, StateFits, StackFits, Now, Depth
<1>2. e0.kind = "value" /\ e0.type = t /\ e0.cell = None /\ e0 \in Entry(DOMAIN ty)
  <2>1. e0 = [kind |-> "value", type |-> t, cell |-> None]
    BY DEF Value
  <2>2. None \in CellSet(DOMAIN ty)
    BY DEF None, CellSet
  <2> QED
    BY <2>1, <2>2 DEF Entry
<1> HIDE DEF e0
<1>3. /\ st \in Seq(Entry(DOMAIN ty)) /\ DOMAIN st = 1 .. (Depth + 1) /\ st[Depth + 1] = e0
      /\ \A i \in 1 .. Depth : st[i] = stack[i]
  BY <1>1, <1>2, AppendProperties
<1> HIDE DEF st
<1>4. StackFits(ty, st)
  <2>1. \A i \in 1 .. Depth : RankedType(st[i].type) /\ (st[i].kind = "value" => Fits(ty, st[i].cell, st[i].type))
    BY <1>1, <1>3 DEF StackFits
  <2>2. RankedType(e0.type) /\ Fits(ty, e0.cell, e0.type)
    BY <1>2, NoneFits
  <2>3. \A i \in 1 .. (Depth + 1) : i \in 1 .. Depth \/ i = Depth + 1
    BY <1>1
  <2> QED
    BY <2>1, <2>2, <2>3, <1>3 DEF StackFits
<1>5. StateFits(ty, s) /\ s.vars = Now.vars /\ s.stack = st /\ s.bufs = Now.bufs
  BY <1>1, <1>4, RestackFits
<1> HIDE DEF s
<1>6. AllWays(ty, Now, ty, s)
  <2> SUFFICES ASSUME NEW v, NEW keys, NEW at, WayTo(ty, Now, v, keys, at)
               PROVE  WayTo(ty, s, v, keys, at)
    BY DEF AllWays
  <2>1. ASSUME NEW j \in DOMAIN s.stack, s.stack[j].kind = "value", NEW i \in 0 .. Len(keys) - 1
        PROVE  s.stack[j].cell.buf # Through(at, i)
    <3>1. CASE j \in 1 .. Depth
      <4>1. j \in DOMAIN Now.stack /\ Now.stack[j] = s.stack[j]
        BY <3>1, <1>1, <1>3, <1>5, NowIs
      <4>2. OffAll(ty, Now, Now.stack[j].cell)
        BY <4>1, <2>1, <1>1, StackOff
      <4> QED
        BY <4>1, <4>2 DEF OffAll
    <3>2. CASE j = Depth + 1
      <4>1. s.stack[j].cell.buf = Null
        BY <3>2, <1>2, <1>3, <1>5, CellFacts
      <4>2. Through(at, i) \in DOMAIN Now.bufs
        BY WayStep
      <4> QED
        BY <4>1, <4>2, <1>1, BufsExist
    <3> QED
      BY <3>1, <3>2, <1>1, <1>3, <1>5
  <2> QED
    BY <2>1, <1>1, <1>5, WayRestack
<1>7. PlaceAt(ty, s, p, t)
  <2>1. Depth + 1 \in DOMAIN s.stack /\ s.stack[Depth + 1].kind = "value" /\ s.stack[Depth + 1].type = t
    BY <1>1, <1>2, <1>3, <1>5
  <2> QED
    BY <2>1 DEF PlaceAt
<1>8. Outside(ty, s, p, f)
  <2>1. ASSUME NEW k \in DOMAIN f PROVE From(s, p, f[k])
    <3>1. PICK i \in DOMAIN stack : stack[i].kind = "value" /\ f[k].buf = stack[i].cell.buf
      OBVIOUS
    <3>2. i \in DOMAIN s.stack /\ s.stack[i] = stack[i]
      BY <1>1, <1>3, <1>5
    <3> QED
      BY <3>1, <3>2 DEF From
  <2> QED
    BY <2>1, <1>1, <1>5, <1>7, OutsideFrom
<1>9. PICK ty2 : Keeps(ty, s, ty2, w, p, t)
  BY <1>1, <1>5, <1>7, <1>8, MadeKeeps
<1> HIDE DEF w
<1>10. AllWays(ty, s, ty2, w)
  <2>1. ASSUME NEW v, NEW keys, NEW at, WayTo(ty, s, v, keys, at)
        PROVE  Off(keys, at, p)
    <3>1. Len(keys) \in Nat
      BY <2>1 DEF WayTo
    <3>2. ASSUME NEW i \in 0 .. Len(keys) - 1 PROVE at[i] # p
      <4>1. i \in 0 .. Len(keys)
        BY <3>1
      <4> QED
        BY <4>1, <2>1, <1>1, <1>5, WayPlaces
    <3> QED
      BY <3>2 DEF Off
  <2> QED
    BY <2>1, <1>9, AllOff DEF Keeps
<1>11. AllWays(ty, Now, ty2, w) /\ StateFits(ty2, w) /\ MoreOf(ty, ty2)
  BY <1>6, <1>9, <1>10 DEF AllWays, Keeps
<1>12. /\ DOMAIN w.stack = 1 .. (Depth + 1)
       /\ \A i \in 1 .. Depth : w.stack[i] = stack[i]
       /\ w.stack[Depth + 1].kind = "value" /\ w.stack[Depth + 1].type = t
  <2>1. \A i \in 1 .. Depth : p # InStack(i)
    BY <1>1, PlaceFacts
  <2>2. Depth + 1 \in 1 .. (Depth + 1) /\ \A i \in 1 .. Depth : i \in 1 .. (Depth + 1)
    BY <1>1
  <2>3. SameStack(s, w, p)
    BY <1>9 DEF Keeps
  <2> HIDE DEF p
  <2> QED
    BY <2>1, <2>2, <2>3, <1>2, <1>3, <1>5 DEF SameStack
<1>13. ASSUME NEW n \in 0 .. Depth PROVE Calm(ty, ty2, w, n)
  <2>1. \A i \in 1 .. Depth - n : i \in 1 .. Depth /\ i \in 1 .. (Depth + 1)
    BY <1>1
  <2>2. \A i \in 1 .. Depth - n : i \in DOMAIN w.stack /\ w.stack[i] = stack[i]
    BY <2>1, <1>12
  <2> QED
    BY <2>2, <1>11 DEF Calm, Held
<1> DEFINE e == w.stack[Depth + 1]
<1>14. Depth + 1 \in DOMAIN w.stack /\ Len(w.stack) = Depth + 1 /\ w.stack \in Seq(Entry(DOMAIN ty2))
  BY <1>1, <1>11, <1>12 DEF StateFits, StackFits
<1>15. e \in Entry(DOMAIN ty2) /\ e.kind = "value" /\ RankedType(e.type) /\ Fits(ty2, e.cell, e.type)
  BY <1>11, <1>12, <1>14, ElementOfSeq DEF StateFits, StackFits
<1>16. OffAll(ty2, w, e.cell)
  BY <1>1, <1>11, <1>14, <1>15, StackOff
<1>17. w = Consed(t, f)
  BY DEF w, s, st, e0, p, Consed
<1> QED
  BY <1>13, <1>15, <1>16, <1>17

LEMMA LiteralInv ==
  ASSUME NEW ty, Held(ty), Literal
  PROVE  IInv'
<1>1. TypesFit /\ Below(0) = stack /\ 0 \in 0 .. Depth /\ Depth \in Nat /\ Depth <= MaxStack /\ DOMAIN stack = 1 .. Depth
  BY BelowZero DEF Held
<1>2. ASSUME NEW t \in ContainerTypes(types), Depth < MaxStack,
             With(Consed(t, << >>), Append(stack, Consed(t, << >>).stack[Depth + 1]))
      PROVE  IInv'
  <2>1. RankedType(t) /\ t \in Type /\ IsContainer(t)
    BY <1>1, ContainerTypesAre
  <2>2. ContentsFit(ty, << >>, t) /\ DOMAIN << >> = {}
    BY EmptyFits
  <2> DEFINE w == Consed(t, << >>)
             e == w.stack[Depth + 1]
  <2>3. PICK ty2 : /\ \A n \in 0 .. Depth : Calm(ty, ty2, w, n)
                   /\ e \in Entry(DOMAIN ty2) /\ e.kind = "value" /\ RankedType(e.type)
                   /\ Fits(ty2, e.cell, e.type) /\ OffAll(ty2, w, e.cell)
    BY <2>1, <2>2, ConsedIs
  <2>4. With(w, Append(Below(0), e))
    BY <1>1, <1>2
  <2> HIDE DEF e, w
  <2>5. Depth - 0 < MaxStack /\ Calm(ty, ty2, w, 0)
    BY <1>1, <1>2, <2>3
  <2> QED
    BY <2>3, <2>4, <2>5, WithPushInv
<1>3. ASSUME IsValue(0), <<"Array">> \o Operand(0).type \in ContainerTypes(types),
             LET w == Consed(<<"Array">> \o Operand(0).type, Appended(<< >>, Operand(0).cell))
             IN  With(w, Append(Below(1), w.stack[Depth + 1]))
      PROVE  IInv'
  <2> DEFINE o == Operand(0)
             t == <<"Array">> \o o.type
             f == Appended(<< >>, o.cell)
             w == Consed(t, f)
             e == w.stack[Depth + 1]
  <2>1. RankedType(t) /\ t \in Type /\ IsContainer(t)
    BY <1>1, <1>3, ContainerTypesAre
  <2>2. /\ Depth - 0 \in 1 .. Depth /\ o = stack[Depth - 0] /\ o.kind = "value"
        /\ o.type \in Type /\ Fits(ty, o.cell, o.type)
    BY <1>3, ValueOperand DEF RankedType
  <2>3. IsArray(t) /\ Element(t) = o.type
    BY <2>2, ArrayOf
  <2>4. ContentsFit(ty, << >>, t) /\ DOMAIN << >> = {}
    BY EmptyFits
  <2> HIDE DEF o, t
  <2>5. ContentsFit(ty, f, t) /\ \A k \in DOMAIN f : f[k] = o.cell
    BY <2>2, <2>3, <2>4, AppendedFits
  <2> HIDE DEF f
  <2>6. \A k \in DOMAIN f : \E i \in DOMAIN stack : stack[i].kind = "value" /\ f[k].buf = stack[i].cell.buf
    BY <2>2, <2>5, <1>1
  <2>7. PICK ty2 : /\ \A n \in 0 .. Depth : Calm(ty, ty2, w, n)
                   /\ e \in Entry(DOMAIN ty2) /\ e.kind = "value" /\ RankedType(e.type)
                   /\ Fits(ty2, e.cell, e.type) /\ OffAll(ty2, w, e.cell)
    BY <2>1, <2>5, <2>6, ConsedIs
  <2>8. With(w, Append(Below(1), e))
    BY <1>3 DEF o, t, f
  <2>9. 1 \in 0 .. Depth /\ Depth - 1 < MaxStack
    BY <1>1, <2>2, BoundAssumption
  <2> HIDE DEF e, w
  <2> QED
    BY <2>7, <2>8, <2>9, WithPushInv
<1> QED
  BY <1>1, <1>2, <1>3 DEF Literal

(* At a statement, no address of an element is below the operands.         *)
LEMMA NoElements ==
  ASSUME NEW ty, Held(ty), WhileHeld = "numbers", NEW i \in Nat, AtStatement(i), NEW n \in 0 .. Depth, i < n
  PROVE  \A j \in 1 .. Depth - n : stack[j].kind = "address" => ~IsElement(stack[j])
<1>1. Depth \in Nat /\ DOMAIN stack = 1 .. Depth
  BY BelowZero
<1>2. ASSUME NEW j \in 1 .. Depth - n, IsElement(stack[j])
      PROVE  FALSE
  <2>1. j \in DOMAIN stack /\ j # Depth - i
    BY <1>1
  <2>2. WhileHeld # "calls"
    OBVIOUS
  <2> QED
    BY <1>2, <2>1, <2>2 DEF AtStatement
<1> QED
  BY <1>2

(* A value takes the place of the top n operands.                          *)
LEMMA ValueEntry ==
  ASSUME NEW ty, NEW t, RankedType(t), NEW c, Fits(ty, c, t), Null \notin DOMAIN ty
  PROVE  LET e == Value(t, c)
         IN  e \in Entry(DOMAIN ty) /\ RankedType(e.type) /\ e.kind = "value" /\ Fits(ty, e.cell, e.type) /\ e.cell = c
<1>1. c \in CellSet(DOMAIN ty) /\ t \in Type
  BY FitsFacts DEF RankedType
<1>2. Value(t, c) = [kind |-> "value", type |-> t, cell |-> c]
  BY DEF Value
<1> QED
  BY <1>1, <1>2 DEF Entry

LEMMA LoadInv ==
  ASSUME NEW ty, Held(ty), WhileHeld = "numbers", Load
  PROVE  IInv'
<1> DEFINE a == Operand(0)
           s == Used(Now, a.at, a.type)
           e == Value(a.type, Cell(s, a.at))
<1>1. /\ Depth - 0 \in 1 .. Depth /\ PlaceAt(ty, Now, a.at, a.type) /\ RankedType(a.type)
      /\ \A k : a.at # InStack(k)
  BY AddressOperand DEF Load
<1>2. TypesFit /\ StateFits(ty, Now) /\ Depth \in Nat /\ Depth <= MaxStack
  BY BelowZero DEF Held
<1>3. 1 \in 0 .. Depth /\ Depth - 1 < MaxStack
  BY <1>1, <1>2, BoundAssumption
<1>4. With(s, Append(Below(1), e)) /\ IsContainer(a.type) => AtStatement(0)
  BY DEF Load
<1>5. With(s, Append(Below(1), e))
  BY DEF Load
<1> HIDE DEF a
<1>6. PICK ty2 : Keeps(ty, Now, ty2, s, a.at, a.type) /\ AllWays(ty, Now, ty2, s)
  BY <1>1, <1>2, UsedKeeps
<1> HIDE DEF s
<1>7. Calm(ty, ty2, s, 1)
  BY <1>1, <1>3, <1>6, KeepsCalm
<1>8. StateFits(ty2, s) /\ PlaceAt(ty2, s, a.at, a.type)
  BY <1>6 DEF Keeps
<1>9. Fits(ty2, Cell(s, a.at), a.type)
  BY <1>2, <1>8, PlaceAtFits
<1>10. Null \notin DOMAIN ty2
  BY <1>8, BufsExist
<1>11. /\ e \in Entry(DOMAIN ty2) /\ RankedType(e.type) /\ e.kind = "value"
       /\ Fits(ty2, e.cell, e.type) /\ e.cell = Cell(s, a.at)
  BY <1>1, <1>9, <1>10, ValueEntry
<1>12. \/ OffAll(ty2, s, e.cell)
       \/ \A j \in 1 .. Depth - 1 : stack[j].kind = "address" => ~IsElement(stack[j])
  <2>1. CASE IsContainer(a.type)
    BY <2>1, <1>3, <1>4, <1>5, NoElements
  <2>2. CASE ~IsContainer(a.type)
    <3>1. e.cell.buf = Null
      BY <2>2, <1>9, <1>10, <1>11, FitsFacts
    <3> QED
      BY <3>1, <1>2, <1>8, NullOff
  <2> QED
    BY <2>1, <2>2
<1> HIDE DEF e
<1> QED
  BY <1>3, <1>5, <1>7, <1>11, <1>12, WithPushInv

LEMMA StoreInv ==
  ASSUME NEW ty, Held(ty), WhileHeld = "numbers", Store
  PROVE  IInv'
<1> DEFINE a == Operand(0)
           o == Operand(1)
           s == SetCell(Now, a.at, o.cell)
           z == [s EXCEPT !.stack = Below(2)]
           w == Used(z, a.at, a.type)
<1>1. /\ PlaceAt(ty, Now, a.at, a.type) /\ RankedType(a.type) /\ \A k : a.at # InStack(k)
  BY AddressOperand DEF Store
<1>2. /\ Depth - 1 \in 1 .. Depth /\ o = stack[Depth - 1] /\ o.kind = "value" /\ Fits(ty, o.cell, o.type)
  BY ValueOperand DEF Store
<1>3. AtStatement(0) /\ a.type = o.type /\ With(w, Below(2))
  BY DEF Store
<1>4. TypesFit /\ StateFits(ty, Now) /\ Depth \in Nat /\ Depth <= MaxStack /\ DOMAIN stack = 1 .. Depth
  BY BelowZero DEF Held
<1>5. 2 \in 0 .. Depth
  BY <1>2, <1>4
<1>6. From(Now, a.at, o.cell)
  BY <1>2, <1>4, NowIs DEF From
<1> HIDE DEF a, o
<1>7. Keeps(ty, Now, ty, s, a.at, a.type)
  BY <1>1, <1>2, <1>3, <1>4, <1>6, SetCellKeeps
<1> HIDE DEF s
<1>8. StateFits(ty, s) /\ PlaceAt(ty, s, a.at, a.type)
  BY <1>7 DEF Keeps
<1>9. /\ StackFits(ty, Below(2)) /\ DOMAIN Below(2) = 1 .. Depth - 2
      /\ \A i \in 1 .. Depth - 2 : Below(2)[i] = stack[i]
  <2>1. /\ Below(2) \in Seq(Entry(DOMAIN ty)) /\ DOMAIN Below(2) = 1 .. Depth - 2
        /\ \A i \in 1 .. Depth - 2 : Below(2)[i] = stack[i]
    BY <1>4, <1>5, BelowIs
  <2>2. \A i \in 1 .. Depth - 2 : i \in DOMAIN stack
    BY <1>4
  <2> QED
    BY <2>1, <2>2, <1>4, NowIs DEF StateFits, StackFits
<1>10. StateFits(ty, z) /\ z.vars = s.vars /\ z.stack = Below(2) /\ z.bufs = s.bufs
  BY <1>8, <1>9, RestackFits
<1> HIDE DEF z
<1>11. PlaceAt(ty, z, a.at, a.type)
  BY <1>1, <1>8, <1>10 DEF PlaceAt
<1>12. PICK ty2 : Keeps(ty, z, ty2, w, a.at, a.type)
  BY <1>4, <1>10, <1>11, UsedKeeps
<1> HIDE DEF w
<1>13. \A i \in 1 .. Depth - 2 : i \in DOMAIN w.stack /\ w.stack[i] = stack[i]
  BY <1>1, <1>9, <1>10, <1>12 DEF Keeps, SameStack
<1>14. \A j \in 1 .. Depth - 2 : stack[j].kind = "address" => ~IsElement(stack[j])
  BY <1>3, <1>5, NoElements
<1>15. Calm(ty, ty2, w, 2)
  BY <1>5, <1>12, <1>13, <1>14 DEF Calm, Held, Keeps
<1> QED
  BY <1>3, <1>15, WithInv

LEMMA IncrementInv ==
  ASSUME NEW ty, Held(ty), WhileHeld = "numbers", Increment
  PROVE  IInv'
<1> DEFINE a == Operand(0)
           c == Cell(Now, a.at)
           s == SetCell(Now, a.at, Number(c.number + 1))
<1>1. /\ Depth - 0 \in 1 .. Depth /\ PlaceAt(ty, Now, a.at, a.type) /\ RankedType(a.type)
      /\ \A k : a.at # InStack(k)
  BY AddressOperand DEF Increment
<1>2. TypesFit /\ StateFits(ty, Now) /\ Depth \in Nat /\ Null \notin DOMAIN ty
  BY BelowZero, BufsExist DEF Held
<1>3. 1 \in 0 .. Depth
  BY <1>1, <1>2
<1>4. ~IsContainer(a.type) /\ AtStatement(0) /\ With(s, Below(1))
  BY DEF Increment
<1> HIDE DEF a
<1>5. c.number \in Nat
  BY <1>1, <1>2, <1>4, PlaceAtFits, FitsFacts
<1> HIDE DEF c
<1>6. Fits(ty, Number(c.number + 1), a.type) /\ From(Now, a.at, Number(c.number + 1))
  BY <1>4, <1>5, CellFacts DEF Fits, From
<1>7. Keeps(ty, Now, ty, s, a.at, a.type)
  BY <1>1, <1>2, <1>6, SetCellKeeps
<1> HIDE DEF s
<1>8. \A j \in 1 .. Depth - 1 : stack[j].kind = "address" => ~IsElement(stack[j])
  BY <1>3, <1>4, NoElements
<1>9. Calm(ty, ty, s, 1)
  BY <1>1, <1>3, <1>7, <1>8, KeepsCalm
<1> QED
  BY <1>4, <1>9, WithInv

(* A cell that is not None is left as it is.                               *)
LEMMA UsedFull ==
  ASSUME TypesFit, NEW ty, NEW s, StateFits(ty, s), NEW p, NEW t, PlaceAt(ty, s, p, t), Full(ty, s, p, t)
  PROVE  Used(s, p, t) = s
BY FullOrNone DEF Full, Used

LEMMA IndexReadInv ==
  ASSUME NEW ty, Held(ty), IndexRead
  PROVE  IInv'
<1> DEFINE a == Operand(0)
<1>1. /\ Depth - 0 \in 1 .. Depth /\ PlaceAt(ty, Now, a.at, a.type) /\ RankedType(a.type) /\ a.type \in Type
      /\ \A k : a.at # InStack(k)
      /\ Reaches(ty, Now, a) /\ Len(a.type) <= MaxRank
  BY AddressOperand DEF IndexRead, RankedType
<1>2. TypesFit /\ StateFits(ty, Now) /\ Depth \in Nat /\ Depth <= MaxStack
  BY BelowZero DEF Held
<1>3. 1 \in 0 .. Depth /\ Depth - 1 < MaxStack
  BY <1>1, <1>2, BoundAssumption
<1>4. IsContainer(a.type)
  BY DEF IndexRead
<1>5. PICK k \in Subscripts(a.type, Keys) :
        LET s == IF k = NoIndex THEN Now ELSE Used(Now, a.at, a.type)
            w == IndexForWrite(s, a.at, a.type, k, FALSE)
        IN  IF k # NoIndex /\ k \in DOMAIN Contents(s, a.at)
            THEN With(w, Append(Below(1), Sub(w, a, k, "read")))
            ELSE Raise(s, 1)
  BY DEF IndexRead
<1> HIDE DEF a
<1>6. k = NoIndex \/ k \in Nat
  BY <1>2, BoundAssumption DEF Subscripts, Keys, TypesFit
<1>7. CASE k = NoIndex
  <2>1. Raise(Now, 1)
    BY <1>5, <1>7
  <2>2. Calm(ty, ty, Now, 1)
    BY <1>3, CalmNow
  <2> QED
    BY <2>1, <2>2, <1>2, RaiseInv
<1>8. CASE k # NoIndex
  <2> DEFINE s == Used(Now, a.at, a.type)
             w == IndexForWrite(s, a.at, a.type, k, FALSE)
  <2>1. PICK ty2 : Keeps(ty, Now, ty2, s, a.at, a.type) /\ AllWays(ty, Now, ty2, s) /\ Full(ty2, s, a.at, a.type)
    BY <1>1, <1>2, UsedKeeps
  <2>2. IF k \in DOMAIN Contents(s, a.at)
        THEN With(w, Append(Below(1), Sub(w, a, k, "read")))
        ELSE Raise(s, 1)
    BY <1>5, <1>8
  <2> HIDE DEF s
  <2>3. StateFits(ty2, s) /\ PlaceAt(ty2, s, a.at, a.type)
    BY <2>1 DEF Keeps
  <2>4. CASE k \notin DOMAIN Contents(s, a.at)
    <3>1. Raise(s, 1)
      BY <2>2, <2>4
    <3>2. Calm(ty, ty2, s, 1)
      BY <2>1, <1>1, <1>3, KeepsCalm
    <3> QED
      BY <3>1, <3>2, <1>2, RaiseInv
  <2>5. CASE k \in DOMAIN Contents(s, a.at)
    <3>1. Used(s, a.at, a.type) = s /\ k \in Nat
      BY <2>1, <2>3, <1>2, <1>6, <1>8, UsedFull
    <3>2. PICK ty3 : /\ Keeps(ty2, s, ty3, w, a.at, a.type) /\ Owns(ty3, w, a.at, a.type)
                     /\ k \in DOMAIN Contents(w, a.at)
                     /\ k \in DOMAIN Contents(Used(s, a.at, a.type), a.at) => AllWays(ty2, s, ty3, w)
      BY <3>1, <2>3, <1>2, <1>4, IndexForWriteKeeps
    <3>3. With(w, Append(Below(1), Sub(w, a, k, "read")))
      BY <2>2, <2>5
    <3> HIDE DEF w
    <3>4. Keeps(ty, Now, ty3, w, a.at, a.type) /\ AllWays(ty, Now, ty3, w)
      BY <3>1, <3>2, <2>1, <2>5, KeepsThen
    <3>5. StateFits(ty3, w) /\ Reaches(ty3, w, a)
      BY <3>4, <1>1, <1>2, ReachesKept DEF Keeps
    <3> DEFINE e == Sub(w, a, k, "read")
    <3>6. Reaches(ty3, w, e) /\ e \in Entry(DOMAIN ty3) /\ e.kind = "address" /\ RankedType(e.type)
      BY <3>2, <3>5, <1>1, <1>2, <1>4, SubReaches
    <3>7. Calm(ty, ty3, w, 1)
      BY <3>4, <1>1, <1>3, KeepsCalm
    <3>8. With(w, Append(Below(1), e))
      BY <3>3
    <3> HIDE DEF e
    <3> QED
      BY <3>6, <3>7, <3>8, <1>3, WithPushInv
  <2> QED
    BY <2>4, <2>5
<1> QED
  BY <1>7, <1>8

LEMMA IndexWriteInv ==
  ASSUME NEW ty, Held(ty), WhileHeld = "numbers", IndexWrite
  PROVE  IInv'
<1> DEFINE a == Operand(0)
<1>1. /\ Depth - 0 \in 1 .. Depth /\ PlaceAt(ty, Now, a.at, a.type) /\ RankedType(a.type) /\ a.type \in Type
      /\ \A k : a.at # InStack(k)
      /\ Reaches(ty, Now, a) /\ Len(a.type) <= MaxRank
  BY AddressOperand DEF IndexWrite, RankedType
<1>2. TypesFit /\ StateFits(ty, Now) /\ Depth \in Nat /\ Depth <= MaxStack
  BY BelowZero DEF Held
<1>3. 1 \in 0 .. Depth /\ Depth - 1 < MaxStack
  BY <1>1, <1>2, BoundAssumption
<1>4. IsContainer(a.type) /\ AtStatement(0)
  BY DEF IndexWrite
<1>5. PICK k \in Subscripts(a.type, Keys), moves \in BOOLEAN :
        LET w == IndexForWrite(Now, a.at, a.type, k, moves)
        IN  IF k = NoIndex THEN ~moves /\ Raise(Now, 1)
            ELSE With(w, Append(Below(1), Sub(w, a, k, "write")))
  BY DEF IndexWrite
<1> HIDE DEF a
<1>6. k = NoIndex \/ k \in Nat
  BY <1>2, BoundAssumption DEF Subscripts, Keys, TypesFit
<1>7. CASE k = NoIndex
  <2>1. Raise(Now, 1)
    BY <1>5, <1>7
  <2>2. Calm(ty, ty, Now, 1)
    BY <1>3, CalmNow
  <2> QED
    BY <2>1, <2>2, <1>2, RaiseInv
<1>8. CASE k # NoIndex
  <2> DEFINE w == IndexForWrite(Now, a.at, a.type, k, moves)
             e == Sub(w, a, k, "write")
  <2>1. With(w, Append(Below(1), e))
    BY <1>5, <1>8
  <2>2. PICK ty2 : /\ Keeps(ty, Now, ty2, w, a.at, a.type) /\ Owns(ty2, w, a.at, a.type)
                   /\ k \in DOMAIN Contents(w, a.at)
    BY <1>1, <1>2, <1>4, <1>6, <1>8, IndexForWriteKeeps
  <2> HIDE DEF w
  <2>3. StateFits(ty2, w) /\ Reaches(ty2, w, a)
    BY <2>2, <1>1, <1>2, ReachesKept DEF Keeps
  <2>4. Reaches(ty2, w, e) /\ e \in Entry(DOMAIN ty2) /\ e.kind = "address" /\ RankedType(e.type)
    BY <2>2, <2>3, <1>1, <1>2, <1>4, SubReaches
  <2>5. \A j \in 1 .. Depth - 1 : stack[j].kind = "address" => ~IsElement(stack[j])
    BY <1>3, <1>4, NoElements
  <2>6. Calm(ty, ty2, w, 1)
    BY <2>2, <2>5, <1>1, <1>3, KeepsCalm
  <2> HIDE DEF e
  <2> QED
    BY <2>1, <2>4, <2>6, <1>3, WithPushInv
<1> QED
  BY <1>7, <1>8

(* What an operand on the stack leads to.                                  *)
LEMMA OperandOff ==
  ASSUME TypesFit, NEW ty, NEW s, StateFits(ty, s), NEW j, NEW t, PlaceAt(ty, s, InStack(j), t),
         NEW x, From(s, InStack(j), x)
  PROVE  OffAll(ty, s, x)
<1> SUFFICES ASSUME NEW v, NEW keys, NEW at, WayTo(ty, s, v, keys, at), NEW i \in 0 .. Len(keys) - 1
             PROVE  x.buf # Through(at, i)
  BY DEF OffAll
<1>1. Len(keys) \in Nat
  BY DEF WayTo
<1>2. ASSUME NEW k \in 0 .. Len(keys) - 1 PROVE at[k] # InStack(j)
  <2>1. k \in 0 .. Len(keys)
    BY <1>1
  <2> QED
    BY <2>1, WayPlaces
<1>3. Off(keys, at, InStack(j))
  BY <1>2 DEF Off
<1> QED
  BY <1>3, FromOutside

LEMMA IndexValueInv ==
  ASSUME NEW ty, Held(ty), IndexValue
  PROVE  IInv'
<1> DEFINE o == Operand(0)
           type == o.type
           p == InStack(Depth)
           s == Used(Now, p, type)
           c == Contents(s, p)
<1>1. TypesFit /\ StateFits(ty, Now) /\ Depth \in Nat /\ Depth <= MaxStack /\ Depth - 0 = Depth
  BY BelowZero DEF Held
<1>2. Depth \in 1 .. Depth /\ RankedType(type) /\ PlaceAt(ty, Now, p, type)
  BY <1>1, ValueOperand DEF IndexValue
<1>3. 1 \in 0 .. Depth /\ Depth - 1 < MaxStack
  BY <1>1, <1>2, BoundAssumption
<1>4. IsContainer(type)
  BY DEF IndexValue
<1>5. PICK k \in Subscripts(type, Keys) :
        IF k \in DOMAIN c THEN With(s, Append(Below(1), Value(Element(type), c[k]))) ELSE Raise(s, 1)
  BY DEF IndexValue
<1> HIDE DEF o
<1>6. PICK ty2 : Keeps(ty, Now, ty2, s, p, type) /\ AllWays(ty, Now, ty2, s) /\ Full(ty2, s, p, type)
  BY <1>1, <1>2, UsedKeeps
<1> HIDE DEF s
<1>7. \A i \in 1 .. Depth - 1 : p # InStack(i)
  BY <1>1, PlaceFacts
<1>8. Calm(ty, ty2, s, 1)
  BY <1>3, <1>6, <1>7, KeepsCalm
<1>9. CASE k \notin DOMAIN c
  BY <1>1, <1>5, <1>8, <1>9, RaiseInv
<1>10. CASE k \in DOMAIN c
  <2> DEFINE e == Value(Element(type), c[k])
  <2>1. With(s, Append(Below(1), e))
    BY <1>5, <1>10
  <2>2. /\ StateFits(ty2, s) /\ PlaceAt(ty2, s, p, type) /\ Null \notin DOMAIN ty2
        /\ ContentsFit(ty2, c, type) /\ Cell(s, p).buf \in DOMAIN s.bufs
    BY <1>4, <1>6, BufsExist DEF Keeps, Full
  <2>3. Fits(ty2, c[k], Element(type)) /\ From(s, p, c[k])
    BY <2>2, <1>10 DEF ContentsFit, From
  <2>4. OffAll(ty2, s, c[k])
    BY <2>2, <2>3, <1>1, OperandOff
  <2>5. RankedType(Element(type))
    <3>1. type \in Type /\ Len(type) <= MaxRank
      BY <1>2 DEF RankedType
    <3>2. Element(type) \in Type /\ Len(Element(type)) = Len(type) - 1 /\ Len(type) \in Nat
      BY <3>1, <1>4, TypeFacts
    <3> QED
      BY <3>1, <3>2 DEF RankedType, MaxRank
  <2> HIDE DEF c
  <2>6. /\ e \in Entry(DOMAIN ty2) /\ RankedType(e.type) /\ e.kind = "value"
        /\ Fits(ty2, e.cell, e.type) /\ e.cell = c[k]
    BY <2>2, <2>3, <2>5, ValueEntry
  <2> HIDE DEF e
  <2> QED
    BY <2>1, <2>4, <2>6, <1>3, <1>8, WithPushInv
<1> QED
  BY <1>9, <1>10

LEMMA EqualInv ==
  ASSUME NEW ty, Held(ty), Equal
  PROVE  IInv'
<1> DEFINE p == InStack(Depth - 1)
           q == InStack(Depth)
           s == Used(Now, p, Operand(1).type)
           w == Used(s, q, Operand(0).type)
<1>1. TypesFit /\ StateFits(ty, Now) /\ Depth \in Nat /\ Depth <= MaxStack /\ DOMAIN stack = 1 .. Depth
  BY BelowZero DEF Held
<1>2. Depth - 1 \in 1 .. Depth /\ PlaceAt(ty, Now, p, Operand(1).type)
  BY ValueOperand DEF Equal, Comparable
<1>3. Depth \in DOMAIN stack /\ stack[Depth].kind = "value" /\ Operand(0).type = stack[Depth].type
  <2>1. /\ Depth - 0 \in 1 .. Depth /\ Operand(0) = stack[Depth - 0] /\ Operand(0).kind = "value"
    BY ValueOperand DEF Equal, Comparable
  <2> QED
    BY <2>1, <1>1
<1>4. 2 \in 0 .. Depth /\ Depth - 2 < MaxStack
  BY <1>1, <1>2, BoundAssumption
<1>5. With(w, Append(Below(2), Value(<< >>, Number(IF SameOperands THEN 1 ELSE 0))))
  BY DEF Equal, Operands
<1>6. PICK ty2 : Keeps(ty, Now, ty2, s, p, Operand(1).type) /\ AllWays(ty, Now, ty2, s)
  BY <1>1, <1>2, UsedKeeps
<1> HIDE DEF s
<1>7. StateFits(ty2, s) /\ MoreOf(ty, ty2) /\ SameStack(Now, s, p)
  BY <1>6 DEF Keeps
<1>8. PlaceAt(ty2, s, q, Operand(0).type)
  <2>1. Depth \in DOMAIN s.stack /\ s.stack[Depth].kind = "value" /\ s.stack[Depth].type = Operand(0).type
    BY <1>3, <1>7, NowIs DEF SameStack
  <2> QED
    BY <2>1 DEF PlaceAt
<1>9. PICK ty3 : Keeps(ty2, s, ty3, w, q, Operand(0).type) /\ AllWays(ty2, s, ty3, w)
  BY <1>1, <1>7, <1>8, UsedKeeps
<1> HIDE DEF w
<1>10. StateFits(ty3, w) /\ MoreOf(ty2, ty3) /\ SameStack(s, w, q)
  BY <1>9 DEF Keeps
<1>11. \A i \in 1 .. Depth - 2 : p # InStack(i) /\ q # InStack(i)
  BY <1>1, PlaceFacts
<1>12. \A i \in 1 .. Depth - 2 : i \in DOMAIN w.stack /\ w.stack[i] = stack[i]
  <2>1. \A i \in 1 .. Depth - 2 : i \in DOMAIN stack
    BY <1>1
  <2> HIDE DEF p, q
  <2> QED
    BY <2>1, <1>7, <1>10, <1>11, NowIs DEF SameStack
<1>13. AllWays(ty, Now, ty3, w) /\ MoreOf(ty, ty3)
  BY <1>6, <1>7, <1>9, <1>10 DEF AllWays, MoreOf
<1>14. Calm(ty, ty3, w, 2)
  BY <1>4, <1>10, <1>12, <1>13 DEF Calm, Held
<1>15. PICK n \in Nat : n = IF SameOperands THEN 1 ELSE 0
  OBVIOUS
<1> DEFINE e == Value(<< >>, Number(n))
<1>16. /\ e \in Entry(DOMAIN ty3) /\ RankedType(e.type) /\ e.kind = "value"
       /\ Fits(ty3, e.cell, e.type) /\ OffAll(ty3, w, e.cell)
  BY <1>1, <1>10, NumberEntry
<1>17. With(w, Append(Below(2), e))
  BY <1>5, <1>15
<1> HIDE DEF e
<1> QED
  BY <1>4, <1>14, <1>16, <1>17, WithPushInv

LEMMA FindInv ==
  ASSUME NEW ty, Held(ty), Find
  PROVE  IInv'
<1> DEFINE o == Operand(1)
           p == InStack(Depth - 1)
           s == Used(Now, p, o.type)
           c == Contents(s, p)
<1>1. TypesFit /\ StateFits(ty, Now) /\ Depth \in Nat /\ Depth <= MaxStack /\ DOMAIN stack = 1 .. Depth
  BY BelowZero DEF Held
<1>2. Depth - 1 \in 1 .. Depth /\ PlaceAt(ty, Now, p, o.type) /\ RankedType(o.type) /\ IsContainer(o.type)
  BY ValueOperand, TypeFacts DEF Find, RankedType
<1>3. 2 \in 0 .. Depth /\ Depth - 2 < MaxStack
  BY <1>1, <1>2, BoundAssumption
<1>4. Raise(s, 2) \/ \E k \in DOMAIN c : With(s, Append(Below(2), Value(<< >>, Number(k))))
  BY DEF Find
<1> HIDE DEF o
<1>5. PICK ty2 : Keeps(ty, Now, ty2, s, p, o.type) /\ AllWays(ty, Now, ty2, s) /\ Full(ty2, s, p, o.type)
  BY <1>1, <1>2, UsedKeeps
<1> HIDE DEF s
<1>6. \A i \in 1 .. Depth - 2 : p # InStack(i)
  BY <1>1, PlaceFacts
<1>7. Calm(ty, ty2, s, 2)
  BY <1>3, <1>5, <1>6, KeepsCalm
<1>8. CASE Raise(s, 2)
  BY <1>1, <1>7, <1>8, RaiseInv
<1>9. CASE \E k \in DOMAIN c : With(s, Append(Below(2), Value(<< >>, Number(k))))
  <2>1. PICK k \in DOMAIN c : With(s, Append(Below(2), Value(<< >>, Number(k))))
    BY <1>9
  <2>2. k \in Nat /\ StateFits(ty2, s)
    BY <1>2, <1>5 DEF Full, ContentsFit, Keeps
  <2> DEFINE e == Value(<< >>, Number(k))
  <2>3. /\ e \in Entry(DOMAIN ty2) /\ RankedType(e.type) /\ e.kind = "value"
        /\ Fits(ty2, e.cell, e.type) /\ OffAll(ty2, s, e.cell)
    BY <2>2, <1>1, NumberEntry
  <2>4. With(s, Append(Below(2), e))
    BY <2>1
  <2> HIDE DEF e
  <2> QED
    BY <2>3, <2>4, <1>3, <1>7, WithPushInv
<1> QED
  BY <1>4, <1>8, <1>9

(* A cell of the operand stack, or of what the address leads to.           *)
LEMMA OwnFrom ==
  ASSUME NEW ty, NEW s, NEW p, NEW t, Owns(ty, s, p, t), NEW k \in DOMAIN Contents(s, p)
  PROVE  From(s, p, Contents(s, p)[k])
BY DEF Owns, From

LEMMA NoneFrom ==
  ASSUME NEW s, NEW p
  PROVE  From(s, p, None)
BY CellFacts DEF From

LEMMA AddInv ==
  ASSUME NEW ty, Held(ty), WhileHeld = "numbers", Add
  PROVE  IInv'
<1> DEFINE a == Operand(1)
           x == Operand(0).cell
           w == ForWrite(Now, a.at, a.type)
           c == Appended(Contents(w, a.at), x)
<1>1. TypesFit /\ StateFits(ty, Now) /\ Depth \in Nat /\ DOMAIN stack = 1 .. Depth /\ Depth - 0 = Depth
  BY BelowZero DEF Held
<1>2. /\ Depth - 1 \in 1 .. Depth /\ PlaceAt(ty, Now, a.at, a.type) /\ RankedType(a.type) /\ a.type \in Type
      /\ \A k : a.at # InStack(k)
  BY AddressOperand DEF Add, RankedType
<1>3. /\ Depth \in DOMAIN stack /\ stack[Depth].kind = "value" /\ x = stack[Depth].cell
      /\ Fits(ty, x, Operand(0).type)
  <2>1. /\ Depth - 0 \in 1 .. Depth /\ Operand(0) = stack[Depth - 0] /\ Operand(0).kind = "value"
        /\ Fits(ty, Operand(0).cell, Operand(0).type)
    BY ValueOperand DEF Add
  <2> QED
    BY <2>1, <1>1
<1>4. 2 \in 0 .. Depth
  BY <1>1, <1>2
<1>5. IsArray(a.type) /\ IsContainer(a.type) /\ AtStatement(1) /\ Operand(0).type = Element(a.type)
  BY <1>2, TypeFacts DEF Add
<1>6. PICK moves \in BOOLEAN : With(Replaced(w, a.at, a.type, c, moves), Below(2))
  BY DEF Add
<1> HIDE DEF a, x
<1>7. PICK ty2 : Keeps(ty, Now, ty2, w, a.at, a.type) /\ Owns(ty2, w, a.at, a.type)
  BY <1>1, <1>2, <1>5, ForWriteKeeps
<1> HIDE DEF w
<1>8. /\ StateFits(ty2, w) /\ MoreOf(ty, ty2) /\ SameStack(Now, w, a.at) /\ PlaceAt(ty2, w, a.at, a.type)
      /\ ContentsFit(ty2, Contents(w, a.at), a.type)
  BY <1>7 DEF Keeps, Owns
<1>9. Fits(ty2, x, Element(a.type))
  BY <1>3, <1>5, <1>8, MoreTypes DEF MoreOf
<1>10. /\ ContentsFit(ty2, c, a.type)
       /\ \A k \in DOMAIN c : c[k] = x \/ (k \in DOMAIN Contents(w, a.at) /\ c[k] = Contents(w, a.at)[k])
  BY <1>5, <1>8, <1>9, AppendedFits
<1> HIDE DEF c
<1>11. From(w, a.at, x)
  <2>1. Depth \in DOMAIN w.stack /\ w.stack[Depth] = stack[Depth]
    BY <1>2, <1>3, <1>8, NowIs DEF SameStack
  <2> QED
    BY <2>1, <1>3 DEF From
<1>12. \A k \in DOMAIN c : From(w, a.at, c[k])
  BY <1>7, <1>10, <1>11, OwnFrom
<1> DEFINE z == Replaced(w, a.at, a.type, c, moves)
<1>13. PICK ty3 : Keeps(ty2, w, ty3, z, a.at, a.type)
  BY <1>1, <1>5, <1>7, <1>8, <1>10, <1>12, ReplacedKeeps
<1> HIDE DEF z
<1>14. Keeps(ty, Now, ty3, z, a.at, a.type)
  BY <1>7, <1>13, KeepsThen
<1>15. \A j \in 1 .. Depth - 2 : stack[j].kind = "address" => ~IsElement(stack[j])
  BY <1>4, <1>5, NoElements
<1>16. Calm(ty, ty3, z, 2)
  BY <1>2, <1>4, <1>14, <1>15, KeepsCalm
<1>17. With(z, Below(2))
  BY <1>6 DEF z
<1> QED
  BY <1>16, <1>17, WithInv

LEMMA ResizeInv ==
  ASSUME NEW ty, Held(ty), WhileHeld = "numbers", Resize
  PROVE  IInv'
<1> DEFINE a == Operand(0)
           w == ForWrite(Now, a.at, a.type)
<1>1. TypesFit /\ StateFits(ty, Now) /\ Depth \in Nat
  BY BelowZero DEF Held
<1>2. /\ Depth - 0 \in 1 .. Depth /\ PlaceAt(ty, Now, a.at, a.type) /\ RankedType(a.type) /\ a.type \in Type
      /\ \A k : a.at # InStack(k)
  BY AddressOperand DEF Resize, RankedType
<1>3. 1 \in 0 .. Depth
  BY <1>1, <1>2
<1>4. IsContainer(a.type) /\ AtStatement(0)
  BY <1>2, TypeFacts DEF Resize
<1>5. PICK n \in Subscripts(a.type, 0 .. MaxKey(types) + 1), moves \in BOOLEAN :
        IF n = NoIndex THEN ~moves /\ Raise(Now, 1)
        ELSE With(Replaced(w, a.at, a.type, Resized(Contents(w, a.at), n, None), moves), Below(1))
  BY DEF Resize
<1> HIDE DEF a
<1>6. n = NoIndex \/ n \in Nat
  BY <1>1, BoundAssumption DEF Subscripts, TypesFit
<1>7. CASE n = NoIndex
  <2>1. Raise(Now, 1)
    BY <1>5, <1>7
  <2>2. Calm(ty, ty, Now, 1)
    BY <1>3, CalmNow
  <2> QED
    BY <2>1, <2>2, <1>1, RaiseInv
<1>8. CASE n # NoIndex
  <2> DEFINE c == Resized(Contents(w, a.at), n, None)
             z == Replaced(w, a.at, a.type, c, moves)
  <2>1. With(z, Below(1))
    BY <1>5, <1>8
  <2>2. PICK ty2 : Keeps(ty, Now, ty2, w, a.at, a.type) /\ Owns(ty2, w, a.at, a.type)
    BY <1>1, <1>2, <1>4, ForWriteKeeps
  <2> HIDE DEF w
  <2>3. /\ StateFits(ty2, w) /\ PlaceAt(ty2, w, a.at, a.type)
        /\ ContentsFit(ty2, Contents(w, a.at), a.type)
    BY <2>2 DEF Keeps, Owns
  <2>4. /\ ContentsFit(ty2, c, a.type)
        /\ \A k \in DOMAIN c : c[k] = None \/ (k \in DOMAIN Contents(w, a.at) /\ c[k] = Contents(w, a.at)[k])
    BY <2>3, <1>6, <1>8, ResizedFits
  <2> HIDE DEF c
  <2>5. \A k \in DOMAIN c : From(w, a.at, c[k])
    BY <2>2, <2>4, OwnFrom, NoneFrom
  <2>6. PICK ty3 : Keeps(ty2, w, ty3, z, a.at, a.type)
    BY <2>2, <2>3, <2>4, <2>5, <1>1, <1>4, ReplacedKeeps
  <2> HIDE DEF z
  <2>7. Keeps(ty, Now, ty3, z, a.at, a.type)
    BY <2>2, <2>6, KeepsThen
  <2>8. \A j \in 1 .. Depth - 1 : stack[j].kind = "address" => ~IsElement(stack[j])
    BY <1>3, <1>4, NoElements
  <2>9. Calm(ty, ty3, z, 1)
    BY <2>7, <2>8, <1>2, <1>3, KeepsCalm
  <2> QED
    BY <2>1, <2>9, WithInv
<1> QED
  BY <1>7, <1>8

LEMMA EraseInv ==
  ASSUME NEW ty, Held(ty), WhileHeld = "numbers", Erase
  PROVE  IInv'
<1> DEFINE a == Operand(0)
           w == ForWrite(Now, a.at, a.type)
           f == Contents(w, a.at)
<1>1. TypesFit /\ StateFits(ty, Now) /\ Depth \in Nat
  BY BelowZero DEF Held
<1>2. /\ Depth - 0 \in 1 .. Depth /\ PlaceAt(ty, Now, a.at, a.type) /\ RankedType(a.type) /\ a.type \in Type
      /\ \A k : a.at # InStack(k)
  BY AddressOperand DEF Erase, RankedType
<1>3. 1 \in 0 .. Depth
  BY <1>1, <1>2
<1>4. IsContainer(a.type) /\ AtStatement(0)
  BY DEF Erase
<1>5. PICK k \in Subscripts(a.type, Keys) :
        IF k = NoIndex THEN Raise(Now, 1)
        ELSE IF k \in DOMAIN f \/ ~IsArray(a.type)
        THEN With(SetContents(w, a.at, Removed(f, a.type, k)), Below(1))
        ELSE Raise(w, 1)
  BY DEF Erase
<1> HIDE DEF a
<1>6. k = NoIndex \/ k \in Nat
  BY <1>1, BoundAssumption DEF Subscripts, Keys, TypesFit
<1>7. CASE k = NoIndex
  <2>1. Raise(Now, 1)
    BY <1>5, <1>7
  <2>2. Calm(ty, ty, Now, 1)
    BY <1>3, CalmNow
  <2> QED
    BY <2>1, <2>2, <1>1, RaiseInv
<1>8. CASE k # NoIndex
  <2>1. PICK ty2 : Keeps(ty, Now, ty2, w, a.at, a.type) /\ Owns(ty2, w, a.at, a.type)
    BY <1>1, <1>2, <1>4, ForWriteKeeps
  <2> HIDE DEF w
  <2>2. StateFits(ty2, w) /\ PlaceAt(ty2, w, a.at, a.type) /\ ContentsFit(ty2, f, a.type)
    BY <2>1 DEF Keeps, Owns
  <2>3. \A j \in 1 .. Depth - 1 : stack[j].kind = "address" => ~IsElement(stack[j])
    BY <1>3, <1>4, NoElements
  <2>4. CASE ~(k \in DOMAIN f \/ ~IsArray(a.type))
    <3>1. Raise(w, 1)
      BY <2>4, <1>5, <1>8
    <3>2. Calm(ty, ty2, w, 1)
      BY <2>1, <2>3, <1>2, <1>3, KeepsCalm
    <3> QED
      BY <3>1, <3>2, <1>1, RaiseInv
  <2>5. CASE k \in DOMAIN f \/ ~IsArray(a.type)
    <3> DEFINE c == Removed(f, a.type, k)
               z == SetContents(w, a.at, c)
    <3>1. With(z, Below(1))
      BY <2>5, <1>5, <1>8
    <3>2. ContentsFit(ty2, c, a.type) /\ \A j \in DOMAIN c : \E i \in DOMAIN f : c[j] = f[i]
      BY <2>2, <2>5, <1>6, <1>8, RemovedFits
    <3> HIDE DEF c
    <3>3. \A j \in DOMAIN c : From(w, a.at, c[j])
      BY <2>1, <3>2, OwnFrom
    <3>4. Outside(ty2, w, a.at, c)
      BY <2>2, <3>3, <1>1, OutsideFrom
    <3>5. Keeps(ty2, w, ty2, z, a.at, a.type)
      BY <2>1, <2>2, <3>2, <3>4, <1>1, <1>4, SetContentsKeeps
    <3> HIDE DEF z
    <3>6. Keeps(ty, Now, ty2, z, a.at, a.type)
      BY <2>1, <3>5, KeepsThen
    <3>7. Calm(ty, ty2, z, 1)
      BY <2>3, <3>6, <1>2, <1>3, KeepsCalm
    <3> QED
      BY <3>1, <3>7, WithInv
  <2> QED
    BY <2>4, <2>5
<1> QED
  BY <1>7, <1>8

-----------------------------------------------------------------------------
(* The inductive invariant.                                                *)

LEMMA InitInv ==
  ASSUME Init
  PROVE  IInv
<1> DEFINE ty == << >>
<1>1. DOMAIN << >> = {} /\ << >> = [c \in DOMAIN << >> |-> << >>[c]]
  OBVIOUS
<1>2. TypesFit
  BY DEF Init, TypesFit
<1>3. Now = [vars |-> vars, stack |-> << >>, bufs |-> << >>, made |-> 0] /\ stack = << >> /\ bufs = << >>
  BY DEF Init, Now
<1>4. Depth = 0 /\ Depth <= MaxStack
  BY <1>3, BoundAssumption, NoKeys DEF Depth
<1>5. BufsFit(ty, bufs)
  BY <1>1, <1>3 DEF BufsFit
<1>6. StackFits(ty, stack)
  <2>1. << >> \in Seq(Entry(DOMAIN ty))
    OBVIOUS
  <2> QED
    BY <2>1, <1>1, <1>3 DEF StackFits
<1>7. vars = [v \in Vars |-> vars[v]] /\ \A v \in Vars : Fits(ty, vars[v], types[v])
  BY NoneFits DEF Init
<1>8. FreshNames(Now)
  BY <1>1, <1>3 DEF FreshNames
<1> HIDE DEF ty
<1>9. StateFits(ty, Now)
  BY <1>3, <1>5, <1>6, <1>7, <1>8, NowIs DEF StateFits
<1>10. HeldReach(ty, Now)
  BY <1>1, <1>3 DEF HeldReach
<1> QED
  BY <1>2, <1>4, <1>9, <1>10 DEF IInv

LEMMA NextInv ==
  ASSUME WhileHeld = "numbers", IInv, Next
  PROVE  IInv'
<1>1. PICK ty : Held(ty)
  BY DEF IInv, Held
<1>2. CASE PushAddress
  BY <1>1, <1>2, PushAddressInv
<1>3. CASE PushNumber
  BY <1>1, <1>3, PushNumberInv
<1>4. CASE PushParameter
  BY <1>1, <1>4, PushParameterInv
<1>5. CASE Duplicate
  BY <1>1, <1>5, DuplicateInv
<1>6. CASE Drop
  BY <1>1, <1>6, DropInv
<1>7. CASE Literal
  BY <1>1, <1>7, LiteralInv
<1>8. CASE Load
  BY <1>1, <1>8, LoadInv
<1>9. CASE Store
  BY <1>1, <1>9, StoreInv
<1>10. CASE IndexRead
  BY <1>1, <1>10, IndexReadInv
<1>11. CASE IndexWrite
  BY <1>1, <1>11, IndexWriteInv
<1>12. CASE IndexValue
  BY <1>1, <1>12, IndexValueInv
<1>13. CASE Equal
  BY <1>1, <1>13, EqualInv
<1>14. CASE Find
  BY <1>1, <1>14, FindInv
<1>15. CASE Increment
  BY <1>1, <1>15, IncrementInv
<1>16. CASE Add
  BY <1>1, <1>16, AddInv
<1>17. CASE Resize
  BY <1>1, <1>17, ResizeInv
<1>18. CASE Erase
  BY <1>1, <1>18, EraseInv
<1> QED
  BY <1>2, <1>3, <1>4, <1>5, <1>6, <1>7, <1>8, <1>9, <1>10, <1>11, <1>12, <1>13, <1>14, <1>15, <1>16, <1>17,
     <1>18 DEF Next

LEMMA StutterInv ==
  ASSUME IInv, UNCHANGED state
  PROVE  IInv'
BY DEF IInv, state, TypesFit, Depth, Now, StateFits, HeldReach, Reaches, WayTo, OnWay

(* What fits is well typed.                                                *)
LEMMA FitsWellTyped ==
  ASSUME NEW ty, DOMAIN bufs = DOMAIN ty, NEW c, NEW t, Fits(ty, c, t)
  PROVE  WellTyped(c, t)
BY CellFacts DEF Fits, WellTyped

LEMMA PlaceExists ==
  ASSUME NEW ty, NEW s, StateFits(ty, s), NEW p, NEW t, PlaceAt(ty, s, p, t)
  PROVE  Exists(s, p)
BY PlaceFacts, BufsExist DEF PlaceAt, Exists

LEMMA HeldTypeOK ==
  ASSUME NEW ty, Held(ty)
  PROVE  TypeOK
<1>1. TypesFit /\ StateFits(ty, Now) /\ Depth \in Nat /\ DOMAIN stack = 1 .. Depth /\ Depth <= MaxStack
  BY BelowZero DEF Held
<1>2. DOMAIN bufs = DOMAIN ty
  BY <1>1, BufsExist, NowIs
<1>3. ASSUME NEW v \in Vars PROVE WellTyped(vars[v], types[v])
  <2>1. Fits(ty, vars[v], types[v])
    BY <1>1, NowIs DEF StateFits
  <2> QED
    BY <2>1, <1>2, FitsWellTyped
<1>4. ASSUME NEW i \in 1 .. Depth, stack[i].kind = "value" PROVE WellTyped(stack[i].cell, stack[i].type)
  <2>1. Fits(ty, stack[i].cell, stack[i].type)
    BY <1>1, <1>4, NowIs DEF StateFits, StackFits
  <2> QED
    BY <2>1, <1>2, FitsWellTyped
<1>5. ASSUME NEW i \in 1 .. Depth, stack[i].kind # "value" PROVE WellTyped(Cell(Now, stack[i].at), stack[i].type)
  <2>1. stack[i] \in Entry(DOMAIN ty)
    BY <1>1, NowIs, ElementOfSeq DEF StateFits, StackFits, Depth
  <2>2. stack[i].kind = "address"
    BY <2>1, <1>5 DEF Entry
  <2>3. PlaceAt(ty, Now, stack[i].at, stack[i].type)
    BY <2>2, HeldAddress
  <2>4. Fits(ty, Cell(Now, stack[i].at), stack[i].type)
    BY <2>3, <1>1, PlaceAtFits
  <2> QED
    BY <2>4, <1>2, FitsWellTyped
<1> QED
  BY <1>1, <1>3, <1>4, <1>5 DEF TypeOK, TypesFit

LEMMA IInvLive ==
  ASSUME IInv
  PROVE  AddressesLive
<1>1. PICK ty : Held(ty)
  BY DEF IInv, Held
<1>2. ASSUME NEW i \in 1 .. Depth, stack[i].kind = "address" PROVE Exists(Now, stack[i].at)
  <2>1. PlaceAt(ty, Now, stack[i].at, stack[i].type)
    BY <1>1, <1>2, HeldAddress
  <2> QED
    BY <2>1, <1>1, PlaceExists DEF Held
<1>3. TypeOK
  BY <1>1, HeldTypeOK
<1> QED
  BY <1>2, <1>3 DEF AddressesLive

(* The way that subscripts lead is the one there is.                       *)
LEMMA WayIs ==
  ASSUME TypesFit, NEW ty, NEW s, NEW a, Reaches(ty, s, a)
  PROVE  \E at : /\ WayTo(ty, s, a.var, a.keys, at) /\ a.at = at[Len(a.keys)]
                 /\ \A i \in 0 .. Len(a.keys) : Way(s, a)[i] = at[i]
<1>0. PICK at : WayTo(ty, s, a.var, a.keys, at) /\ a.at = at[Len(a.keys)]
  BY DEF Reaches
<1>1. PICK n \in Nat : n = Len(a.keys) /\ n <= MaxRank
  <2>1. a.var \in Vars /\ a.keys \in Seq(Nat) /\ Len(a.keys) <= Len(types[a.var])
    BY <1>0 DEF WayTo
  <2>2. PICK m \in 0 .. MaxRank : m = Len(types[a.var])
    BY <2>1, VarTypes
  <2>3. PICK k \in Nat : k = Len(a.keys)
    BY <2>1
  <2>4. k <= m
    BY <2>1, <2>2, <2>3
  <2>5. m \in 0 .. 2
    BY DEF MaxRank
  <2>6. k <= 2
    BY <2>3, <2>4, <2>5
  <2>7. k <= MaxRank
    BY <2>6 DEF MaxRank
  <2> QED
    BY <2>3, <2>7
<1> DEFINE first == InVar(a.var)
           next(p, j) == ElementAt(s, p, a.keys[j])
           ok(f) == f = [j \in 0 .. Len(a.keys) |-> IF j = 0 THEN first ELSE next(f[j - 1], j)]
           way == CHOOSE f : ok(f)
<1>2. ASSUME NEW j \in 1 .. n PROVE at[j] = next(at[j - 1], j)
  <2>1. j - 1 \in 0 .. n - 1 /\ (j - 1) + 1 = j
    BY <1>1
  <2>2. OnWay(ty, s, a.var, a.keys, at, j - 1)
    BY <2>1, <1>0, <1>1 DEF WayTo
  <2> QED
    BY <2>1, <2>2 DEF OnWay, ElementAt
<1>3. at = [j \in 0 .. n |-> at[j]] /\ at[0] = first
  BY <1>0, <1>1 DEF WayTo
<1>4. Way(s, a) = way
  BY DEF Way
<1> HIDE DEF first, next
<1>5. ok(at)
  <2>1. ASSUME NEW j \in 0 .. n
        PROVE  at[j] = IF j = 0 THEN first ELSE next(at[j - 1], j)
    <3>1. j = 0 \/ j \in 1 .. n
      BY <1>1
    <3> QED
      BY <3>1, <1>2, <1>3
  <2>2. at = [j \in 0 .. n |-> IF j = 0 THEN first ELSE next(at[j - 1], j)]
    BY <2>1, <1>3
  <2> QED
    BY <2>2, <1>1
<1>6. ok(way)
  BY <1>5
<1> HIDE DEF way
<1>7. ASSUME NEW j \in 0 .. n PROVE way[j] = IF j = 0 THEN first ELSE next(way[j - 1], j)
  BY <1>1, <1>6
<1>8. way[0] = at[0]
  BY <1>1, <1>3, <1>7
<1>9. 1 \in 1 .. n => way[1] = at[1]
  BY <1>1, <1>2, <1>7, <1>8
<1>10. 2 \in 1 .. n => way[2] = at[2]
  <2> SUFFICES ASSUME 2 \in 1 .. n PROVE way[2] = at[2]
    OBVIOUS
  <2>1. 1 \in 1 .. n /\ 2 \in 0 .. n /\ 2 - 1 = 1 /\ 2 # 0
    BY <1>1
  <2>2. way[2] = next(way[1], 2) /\ at[2] = next(at[1], 2)
    BY <2>1, <1>2, <1>7
  <2> QED
    BY <2>1, <2>2, <1>9
<1>11. ASSUME NEW i \in 0 .. n PROVE way[i] = at[i]
  <2>1. i = 0 \/ (i = 1 /\ 1 \in 1 .. n) \/ (i = 2 /\ 2 \in 1 .. n)
    BY <1>1 DEF MaxRank
  <2> QED
    BY <2>1, <1>8, <1>9, <1>10
<1>12. \A i \in 0 .. Len(a.keys) : Way(s, a)[i] = at[i]
  BY <1>1, <1>4, <1>11
<1> QED
  BY <1>0, <1>12

LEMMA IInvDetached ==
  ASSUME IInv
  PROVE  DetachedFromCopies
<1>1. PICK ty : Held(ty)
  BY DEF IInv, Held
<1>2. ASSUME NEW a, a = Operand(0), Depth > 0, a.kind = "address"
      PROVE  /\ Way(Now, a)[Len(a.keys)] = a.at
             /\ \A i \in 0 .. Len(a.keys) - 1 : Unique(Now, Cell(Now, Way(Now, a)[i]).buf)
  <2>1. Depth \in Nat /\ TypesFit /\ StateFits(ty, Now)
    BY <1>1, BelowZero DEF Held
  <2>2. Depth \in 1 .. Depth /\ a = stack[Depth]
    <3>1. Depth - 0 = Depth
      BY <2>1
    <3> QED
      BY <3>1, <2>1, <1>2 DEF Operand
  <2>3. Reaches(ty, Now, a) /\ a.keys \in Seq(Nat)
    BY <1>1, <1>2, <2>2, HeldAddress
  <2>4. PICK at : /\ WayTo(ty, Now, a.var, a.keys, at) /\ a.at = at[Len(a.keys)]
                  /\ \A i \in 0 .. Len(a.keys) : Way(Now, a)[i] = at[i]
    BY <2>1, <2>3, WayIs
  <2>6. Len(a.keys) \in 0 .. Len(a.keys) /\ \A i \in 0 .. Len(a.keys) - 1 : i \in 0 .. Len(a.keys)
    BY <2>3
  <2>7. ASSUME NEW i \in 0 .. Len(a.keys) - 1 PROVE Unique(Now, Cell(Now, Way(Now, a)[i]).buf)
    <3>1. Way(Now, a)[i] = at[i]
      BY <2>4, <2>6
    <3>2. Cell(Now, at[i]).buf = Through(at, i) /\ Unique(Now, Through(at, i))
      BY <2>4, WayStep
    <3> QED
      BY <3>1, <3>2
  <2> QED
    BY <2>4, <2>6, <2>7
<1> QED
  BY <1>2 DEF DetachedFromCopies

-----------------------------------------------------------------------------
(* The theorems.                                                           *)

\* While a subscript is evaluated, an element's address is held across nothing that
\* shares or moves what it is in: the states that the instructions of exec.cpp reach
\* keep the inductive invariant.
THEOREM InductiveInvariant == WhileHeld = "numbers" => (Spec => []IInv)
<1> SUFFICES ASSUME WhileHeld = "numbers" PROVE Spec => []IInv
  OBVIOUS
<1>1. Init => IInv
  BY InitInv
<1>2. IInv /\ [Next]_state => IInv'
  BY NextInv, StutterInv
<1> QED
  BY <1>1, <1>2, PTL DEF Spec

\* Types are kept, and every address on the operand stack is that of a cell that
\* exists (Cell * owns nothing, src/src/cell.h:76).
THEOREM AddressesStayLive == WhileHeld = "numbers" => (Spec => []AddressesLive)
<1> SUFFICES ASSUME WhileHeld = "numbers" PROVE Spec => []AddressesLive
  OBVIOUS
<1>1. Spec => []IInv
  BY InductiveInvariant
<1>2. IInv => AddressesLive
  BY IInvLive
<1> QED
  BY <1>1, <1>2, PTL

\* An address that an instruction uses is the one its subscripts lead to, through
\* arrays and dictionaries that no other cell shares: array_index_for_write and
\* dictionary_index_for_write have detached them all (src/src/cell.cpp).
THEOREM AddressesAreDetached == WhileHeld = "numbers" => (Spec => []DetachedFromCopies)
<1> SUFFICES ASSUME WhileHeld = "numbers" PROVE Spec => []DetachedFromCopies
  OBVIOUS
<1>1. Spec => []IInv
  BY InductiveInvariant
<1>2. IInv => DetachedFromCopies
  BY IInvDetached
<1> QED
  BY <1>1, <1>2, PTL

-----------------------------------------------------------------------------
(* The refinement of Values.  First, the value that a cell stands for: an  *)
(* operation that gives a cell its type, or an array or dictionary of its  *)
(* own, changes no value (Same).                                           *)

Val(s, c, t) == Tree(s.bufs, c, t)

(* The values of the vectors and maps b that hold numbers, and of those    *)
(* that hold these.                                                        *)
Flat(b) == [d \in DOMAIN b |-> [k \in DOMAIN b[d] |-> b[d][k].number]]
Nested(b) ==
  [d \in DOMAIN b |-> [k \in DOMAIN b[d] |-> IF b[d][k].buf = Null THEN << >> ELSE Flat(b)[b[d][k].buf]]]

LEMMA TreeByRank ==
  ASSUME NEW b, NEW c, NEW t \in Type, Len(t) <= MaxRank
  PROVE  /\ ~IsContainer(t) => Tree(b, c, t) = c.number
         /\ IsContainer(t) /\ c.buf = Null => Tree(b, c, t) = << >>
         /\ Len(t) = 1 /\ c.buf # Null => Tree(b, c, t) = Flat(b)[c.buf]
         /\ Len(t) = 2 /\ c.buf # Null => Tree(b, c, t) = Nested(b)[c.buf]
<1> DEFINE body(r, f) == [d \in DOMAIN b |->
             [k \in DOMAIN b[d] |->
                IF r = 1 THEN b[d][k].number
                ELSE IF b[d][k].buf = Null THEN << >> ELSE f[r - 1][b[d][k].buf]]]
           ok(f) == f = [r \in 1 .. MaxRank |-> body(r, f)]
           g == [r \in 1 .. MaxRank |-> IF r = 1 THEN Flat(b) ELSE Nested(b)]
           tree == CHOOSE f : ok(f)
<1>1. 1 .. MaxRank = {1, 2}
  BY DEF MaxRank
<1>2. ASSUME NEW f, f[1] = Flat(b)
      PROVE  body(1, f) = Flat(b) /\ body(2, f) = Nested(b)
  BY <1>2 DEF Flat, Nested
<1>3. g[1] = Flat(b) /\ g[2] = Nested(b)
  BY <1>1
<1>4. ok(g)
  <2> HIDE DEF body
  <2>1. body(1, g) = Flat(b) /\ body(2, g) = Nested(b)
    BY <1>2, <1>3
  <2>2. \A r \in 1 .. MaxRank : body(r, g) = IF r = 1 THEN Flat(b) ELSE Nested(b)
    BY <1>1, <2>1
  <2> QED
    BY <2>2
<1>5. ok(tree)
  <2> HIDE DEF body, g
  <2> QED
    BY <1>4
<1>6. Tree(b, c, t) = IF ~IsContainer(t) THEN c.number ELSE IF c.buf = Null THEN << >> ELSE tree[Len(t)][c.buf]
  BY DEF Tree
<1> HIDE DEF tree
<1>7. tree[1] = Flat(b)
  <2>1. tree[1] = body(1, tree)
    <3> HIDE DEF body
    <3> QED
      BY <1>1, <1>5
  <2> QED
    BY <2>1 DEF Flat
<1>8. tree[2] = Nested(b)
  <2>1. tree[2] = body(2, tree)
    <3> HIDE DEF body
    <3> QED
      BY <1>1, <1>5
  <2> QED
    BY <2>1, <1>2, <1>7
<1>9. Len(t) = 1 \/ Len(t) = 2 => IsContainer(t)
  BY TypeFacts
<1> QED
  BY <1>6, <1>7, <1>8, <1>9, Zenon

(* One level of a value.                                                   *)
LEMMA TreeIs ==
  ASSUME NEW b, NEW c, NEW t \in Type, Len(t) <= MaxRank
  PROVE  /\ ~IsContainer(t) => Tree(b, c, t) = c.number
         /\ IsContainer(t) /\ c.buf = Null => Tree(b, c, t) = << >>
         /\ IsContainer(t) /\ c.buf # Null /\ c.buf \in DOMAIN b =>
              Tree(b, c, t) = [k \in DOMAIN b[c.buf] |-> Tree(b, b[c.buf][k], Element(t))]
<1>1. ASSUME IsContainer(t), c.buf # Null, c.buf \in DOMAIN b
      PROVE  Tree(b, c, t) = [k \in DOMAIN b[c.buf] |-> Tree(b, b[c.buf][k], Element(t))]
  <2>1. /\ Element(t) \in Type /\ Len(Element(t)) = Len(t) - 1 /\ Len(Element(t)) <= MaxRank
        /\ Len(t) = 1 \/ Len(t) = 2
    <3>1. Len(t) \in Nat /\ Len(t) > 0 /\ Len(t) <= 2
      BY <1>1, TypeFacts DEF MaxRank
    <3>2. Element(t) \in Type /\ Len(Element(t)) = Len(t) - 1
      BY <1>1, TypeFacts
    <3> QED
      BY <3>1, <3>2 DEF MaxRank
  <2>2. CASE Len(t) = 1
    <3>1. ~IsContainer(Element(t))
      BY <2>1, <2>2, TypeFacts
    <3>2. \A k : Tree(b, b[c.buf][k], Element(t)) = b[c.buf][k].number
      BY <2>1, <3>1, TreeByRank
    <3>3. Tree(b, c, t) = Flat(b)[c.buf]
      BY <1>1, <2>2, TreeByRank
    <3>4. Flat(b)[c.buf] = [k \in DOMAIN b[c.buf] |-> b[c.buf][k].number]
      BY <1>1 DEF Flat
    <3> QED
      BY <3>2, <3>3, <3>4
  <2>3. CASE Len(t) = 2
    <3>1. IsContainer(Element(t)) /\ Len(Element(t)) = 1
      BY <2>1, <2>3, TypeFacts
    <3>2. \A k : Tree(b, b[c.buf][k], Element(t))
                   = IF b[c.buf][k].buf = Null THEN << >> ELSE Flat(b)[b[c.buf][k].buf]
      BY <2>1, <3>1, TreeByRank
    <3>3. Tree(b, c, t) = Nested(b)[c.buf]
      BY <1>1, <2>3, TreeByRank
    <3>4. Nested(b)[c.buf] = [k \in DOMAIN b[c.buf] |->
                                IF b[c.buf][k].buf = Null THEN << >> ELSE Flat(b)[b[c.buf][k].buf]]
      BY <1>1 DEF Nested
    <3> QED
      BY <3>2, <3>3, <3>4
  <2> QED
    BY <2>1, <2>2, <2>3
<1> QED
  BY <1>1, TreeByRank

LEMMA ValBlank ==
  ASSUME NEW s, NEW c, NEW t \in Type, Len(t) <= MaxRank
  PROVE  /\ ~IsContainer(t) => Val(s, c, t) = c.number
         /\ IsContainer(t) /\ c.buf = Null => Val(s, c, t) = << >>
BY TreeByRank DEF Val

LEMMA ValIs ==
  ASSUME NEW s, NEW c, NEW t \in Type, Len(t) <= MaxRank, IsContainer(t), c.buf # Null, c.buf \in DOMAIN s.bufs
  PROVE  Val(s, c, t) = [k \in DOMAIN s.bufs[c.buf] |-> Val(s, s.bufs[c.buf][k], Element(t))]
<1>1. Tree(s.bufs, c, t) = [k \in DOMAIN s.bufs[c.buf] |-> Tree(s.bufs, s.bufs[c.buf][k], Element(t))]
  BY TreeIs
<1> QED
  BY <1>1 DEF Val

(* Every place of s holds the same value in w.                             *)
SameAt(ty, s, w, n) ==
  \A q, u : PlaceAt(ty, s, q, u) /\ Len(u) = n => Val(w, Cell(w, q), u) = Val(s, Cell(s, q), u)
Same(ty, s, w) ==
  /\ \A q, u : PlaceAt(ty, s, q, u) => Val(w, Cell(w, q), u) = Val(s, Cell(s, q), u)
  /\ \A b \in DOMAIN s.bufs : b \in DOMAIN w.bufs /\ DOMAIN w.bufs[b] = DOMAIN s.bufs[b]

LEMMA OldCells ==
  ASSUME NEW ty, NEW s, StateFits(ty, s), NEW p, NEW c, NEW g, NEW m, NEW w, Wrote(s, w, p, c, g, m),
         NEW q, NEW u, PlaceAt(ty, s, q, u), \A b, k : q = InBuf(b, k) => b \notin DOMAIN g
  PROVE  Cell(w, q) = IF q = p THEN c ELSE Cell(s, q)
<1>1. CASE \E v \in Vars : q = InVar(v)
  <2>1. PICK v \in Vars : q = InVar(v)
    BY <1>1
  <2>2. w.vars[v] = IF p = InVar(v) THEN c ELSE s.vars[v]
    BY DEF Wrote
  <2> QED
    BY <2>1, <2>2, CellIs
<1>2. CASE \E i \in DOMAIN s.stack : s.stack[i].kind = "value" /\ q = InStack(i)
  <2>1. PICK i \in DOMAIN s.stack : s.stack[i].kind = "value" /\ q = InStack(i)
    BY <1>2
  <2>2. w.stack[i] = IF p = InStack(i) THEN [s.stack[i] EXCEPT !.cell = c] ELSE s.stack[i]
    BY <2>1 DEF Wrote
  <2>3. s.stack[i] \in Entry(DOMAIN ty)
    <3>1. s.stack \in Seq(Entry(DOMAIN ty))
      BY DEF StateFits, StackFits
    <3> QED
      BY <2>1, <3>1
  <2>4. [s.stack[i] EXCEPT !.cell = c].cell = c
    BY <2>1, <2>3 DEF Entry
  <2>5. Cell(w, q) = w.stack[i].cell /\ Cell(s, q) = s.stack[i].cell
    BY <2>1, CellIs
  <2>6. w.stack[i].cell = IF q = p THEN c ELSE s.stack[i].cell
    BY <2>1, <2>2, <2>4
  <2> QED
    BY <2>5, <2>6
<1>3. CASE \E b \in DOMAIN ty : \E k \in DOMAIN s.bufs[b] : q = InBuf(b, k)
  <2>1. PICK b \in DOMAIN ty : \E k \in DOMAIN s.bufs[b] : q = InBuf(b, k)
    BY <1>3
  <2>2. PICK k \in DOMAIN s.bufs[b] : q = InBuf(b, k)
    BY <2>1
  <2>3. b \in DOMAIN s.bufs /\ b \notin DOMAIN g
    BY <2>2, BufsExist
  <2>4. w.bufs[b] = [j \in DOMAIN s.bufs[b] |-> IF p = InBuf(b, j) THEN c ELSE s.bufs[b][j]]
    BY <2>3 DEF Wrote
  <2>5. w.bufs[b][k] = IF p = InBuf(b, k) THEN c ELSE s.bufs[b][k]
    BY <2>4
  <2> QED
    BY <2>2, <2>5, CellIs
<1> QED
  BY <1>1, <1>2, <1>3 DEF PlaceAt

(* What the elements of a vector or map are, as places.                    *)
LEMMA ElementPlace ==
  ASSUME NEW ty, NEW s, StateFits(ty, s), NEW b \in DOMAIN ty, NEW k \in DOMAIN s.bufs[b]
  PROVE  /\ PlaceAt(ty, s, InBuf(b, k), Element(ty[b])) /\ Cell(s, InBuf(b, k)) = s.bufs[b][k]
         /\ RankedType(ty[b]) /\ IsContainer(ty[b]) /\ ty[b] \in Type
         /\ Len(Element(ty[b])) = Len(ty[b]) - 1
<1>1. RankedType(ty[b]) /\ IsContainer(ty[b])
  BY DEF StateFits, BufsFit
<1> QED
  BY <1>1, CellIs, TypeFacts DEF PlaceAt, RankedType

LEMMA WroteSame ==
  ASSUME TypesFit, NEW ty, NEW s, StateFits(ty, s), NEW p, NEW t, PlaceAt(ty, s, p, t),
         NEW c, NEW g, NEW m, NEW w, Wrote(s, w, p, c, g, m), \A b \in DOMAIN g : b \notin DOMAIN s.bufs,
         Len(t) = 0 => Val(w, c, t) = Val(s, Cell(s, p), t),
         \A n \in Nat : Len(t) = n + 1 /\ SameAt(ty, s, w, n) => Val(w, c, t) = Val(s, Cell(s, p), t)
  PROVE  Same(ty, s, w)
<1>1. ASSUME NEW b \in DOMAIN s.bufs
      PROVE  /\ b \in DOMAIN w.bufs
             /\ w.bufs[b] = [j \in DOMAIN s.bufs[b] |-> IF p = InBuf(b, j) THEN c ELSE s.bufs[b][j]]
             /\ DOMAIN w.bufs[b] = DOMAIN s.bufs[b]
  <2>1. b \notin DOMAIN g
    OBVIOUS
  <2>2. /\ b \in DOMAIN w.bufs
        /\ w.bufs[b] = [j \in DOMAIN s.bufs[b] |-> IF p = InBuf(b, j) THEN c ELSE s.bufs[b][j]]
    BY <2>1 DEF Wrote
  <2> QED
    BY <2>2
<1>2. ASSUME NEW q, NEW u, PlaceAt(ty, s, q, u)
      PROVE  /\ Cell(w, q) = IF q = p THEN c ELSE Cell(s, q)
             /\ u \in Type /\ Len(u) \in Nat /\ Len(u) <= MaxRank /\ Fits(ty, Cell(s, q), u)
             /\ q = p => u = t
  <2>1. \A b, k : q = InBuf(b, k) => b \notin DOMAIN g
    BY <1>2, BufsExist, PlaceFacts DEF PlaceAt
  <2> QED
    BY <1>2, <2>1, OldCells, PlaceAtFits, TypeFacts, OneType DEF RankedType
<1>3. SameAt(ty, s, w, 0)
  <2> SUFFICES ASSUME NEW q, NEW u, PlaceAt(ty, s, q, u), Len(u) = 0
               PROVE  Val(w, Cell(w, q), u) = Val(s, Cell(s, q), u)
    BY DEF SameAt
  <2>1. ~IsContainer(u)
    BY <1>2, TypeFacts
  <2>2. \A x : Val(w, x, u) = x.number /\ Val(s, x, u) = x.number
    BY <1>2, <2>1, ValBlank
  <2> QED
    BY <1>2, <2>2
<1>4. ASSUME NEW n \in Nat, SameAt(ty, s, w, n)
      PROVE  SameAt(ty, s, w, n + 1)
  <2> SUFFICES ASSUME NEW q, NEW u, PlaceAt(ty, s, q, u), Len(u) = n + 1
               PROVE  Val(w, Cell(w, q), u) = Val(s, Cell(s, q), u)
    BY DEF SameAt
  <2>1. CASE q = p
    BY <1>2, <1>4, <2>1
  <2>2. CASE q # p
    <3>1. Cell(w, q) = Cell(s, q) /\ IsContainer(u)
      BY <1>2, <2>2, TypeFacts
    <3>2. PICK d : d = Cell(s, q).buf
      OBVIOUS
    <3>5. u \in Type /\ Len(u) <= MaxRank /\ Fits(ty, Cell(s, q), u)
      BY <1>2
    <3>3. CASE d = Null
      <4>1. Val(s, Cell(s, q), u) = << >> /\ Val(w, Cell(s, q), u) = << >>
        BY <3>1, <3>2, <3>3, <3>5, ValBlank
      <4> QED
        BY <3>1, <4>1
    <3>4. CASE d # Null
      <4>1. d \in DOMAIN ty /\ ty[d] = u /\ d \in DOMAIN s.bufs /\ d \in DOMAIN w.bufs
        <5>1. d \in DOMAIN ty /\ ty[d] = u
          BY <3>2, <3>4, <3>5, FitsFacts, BufsExist
        <5> QED
          BY <1>1, <5>1, BufsExist
      <4>2. /\ Val(s, Cell(s, q), u) = [k \in DOMAIN s.bufs[d] |-> Val(s, s.bufs[d][k], Element(u))]
            /\ Val(w, Cell(s, q), u) = [k \in DOMAIN w.bufs[d] |-> Val(w, w.bufs[d][k], Element(u))]
        BY <3>1, <3>2, <3>4, <3>5, <4>1, ValIs
      <4>3. ASSUME NEW k \in DOMAIN s.bufs[d]
            PROVE  Val(w, w.bufs[d][k], Element(u)) = Val(s, s.bufs[d][k], Element(u))
        <5>1. /\ PlaceAt(ty, s, InBuf(d, k), Element(u)) /\ Cell(s, InBuf(d, k)) = s.bufs[d][k]
              /\ Len(Element(u)) = n
          BY <4>1, ElementPlace
        <5>2. Cell(w, InBuf(d, k)) = w.bufs[d][k]
          BY CellIs
        <5> QED
          BY <1>4, <5>1, <5>2 DEF SameAt
      <4> QED
        BY <1>1, <3>1, <4>1, <4>2, <4>3
    <3> QED
      BY <3>3, <3>4
  <2> QED
    BY <2>1, <2>2
<1>5. SameAt(ty, s, w, 1) /\ SameAt(ty, s, w, 2)
  <2>1. SameAt(ty, s, w, 0 + 1)
    BY <1>3, <1>4
  <2>2. SameAt(ty, s, w, 1 + 1)
    BY <2>1, <1>4
  <2> QED
    BY <2>1, <2>2
<1>6. ASSUME NEW q, NEW u, PlaceAt(ty, s, q, u)
      PROVE  Val(w, Cell(w, q), u) = Val(s, Cell(s, q), u)
  <2>1. PICK n : n = Len(u) /\ n \in Nat /\ n <= 2
    BY <1>2, <1>6 DEF MaxRank
  <2>2. n \in {0, 1, 2}
    BY <2>1
  <2> QED
    BY <1>3, <1>5, <1>6, <2>1, <2>2 DEF SameAt
<1> QED
  BY <1>1, <1>6 DEF Same

LEMMA SameSelf ==
  ASSUME NEW ty, NEW s
  PROVE  Same(ty, s, s)
BY DEF Same

LEMMA PlaceStays ==
  ASSUME NEW ty, NEW s, StateFits(ty, s), NEW ty2, NEW w, NEW p, NEW t, Keeps(ty, s, ty2, w, p, t),
         Same(ty, s, w), NEW q, NEW u, PlaceAt(ty, s, q, u)
  PROVE  PlaceAt(ty2, w, q, u)
<1>1. CASE \E v \in Vars : q = InVar(v) /\ u = types[v]
  BY <1>1 DEF PlaceAt
<1>2. CASE \E i \in DOMAIN s.stack : s.stack[i].kind = "value" /\ q = InStack(i) /\ u = s.stack[i].type
  BY <1>2 DEF PlaceAt, Keeps, SameStack
<1>3. CASE \E b \in DOMAIN ty : \E k \in DOMAIN s.bufs[b] : q = InBuf(b, k) /\ u = Element(ty[b])
  BY <1>3, BufsExist DEF PlaceAt, Keeps, MoreOf, Same
<1> QED
  BY <1>1, <1>2, <1>3 DEF PlaceAt

LEMMA SameThen ==
  ASSUME NEW ty, NEW s, StateFits(ty, s), NEW ty2, NEW w, NEW p, NEW t, Keeps(ty, s, ty2, w, p, t),
         Same(ty, s, w), NEW x, Same(ty2, w, x)
  PROVE  Same(ty, s, x)
<1>1. ASSUME NEW q, NEW u, PlaceAt(ty, s, q, u)
      PROVE  Val(x, Cell(x, q), u) = Val(s, Cell(s, q), u)
  <2>1. PlaceAt(ty2, w, q, u)
    BY <1>1, PlaceStays
  <2> QED
    BY <1>1, <2>1 DEF Same
<1>2. \A b \in DOMAIN s.bufs : b \in DOMAIN x.bufs /\ DOMAIN x.bufs[b] = DOMAIN s.bufs[b]
  BY DEF Same
<1> QED
  BY <1>1, <1>2 DEF Same

(* The vector or map b, with contents f, that an instruction makes.        *)
Anew(s, w, p, t, f, b, g, m) ==
  /\ Wrote(s, w, p, Shared(b), g, m) /\ DOMAIN g = {b} /\ b \notin DOMAIN s.bufs
  /\ b # Null /\ b \in DOMAIN w.bufs /\ w.bufs[b] = f
  /\ Val(w, Shared(b), t) = [k \in DOMAIN f |-> Val(w, f[k], Element(t))]

LEMMA MadeIs ==
  ASSUME TypesFit, NEW ty, NEW s, StateFits(ty, s), NEW p, NEW t, PlaceAt(ty, s, p, t), IsContainer(t),
         NEW f, f = [k \in DOMAIN f |-> f[k]]
  PROVE  \E b, g, m : Anew(s, Made(s, p, f), p, t, f, b, g, m)
<1> DEFINE b == <<"new", s.made + 1>>
           g == [x \in {b} |-> f]
           w == Made(s, p, f)
<1>1. p \in Places(s) /\ t \in Type /\ Len(t) <= MaxRank
  BY PlaceAtFits DEF RankedType
<1>2. b \notin DOMAIN s.bufs /\ Wrote(s, w, p, Shared(b), g, s.made + 1)
  BY <1>1, MadeWrites
<1>3. DOMAIN g = {b} /\ g[b] = f /\ b # Null
  BY DEF Null
<1> HIDE DEF b, g, w
<1>4. b \in DOMAIN w.bufs /\ w.bufs[b] = f
  BY <1>2, <1>3 DEF Wrote
<1>5. Shared(b).buf = b
  BY CellFacts
<1>6. Val(w, Shared(b), t) = [k \in DOMAIN f |-> Val(w, f[k], Element(t))]
  BY <1>1, <1>3, <1>4, <1>5, ValIs
<1>7. Anew(s, w, p, t, f, b, g, s.made + 1)
  BY <1>2, <1>3, <1>4, <1>6 DEF Anew
<1> QED
  BY <1>7 DEF w

LEMMA AnewSame ==
  ASSUME TypesFit, NEW ty, NEW s, StateFits(ty, s), NEW p, NEW t, PlaceAt(ty, s, p, t), IsContainer(t),
         NEW w, NEW f, NEW b, NEW g, NEW m, Anew(s, w, p, t, f, b, g, m),
         \A n \in Nat : Len(t) = n + 1 /\ SameAt(ty, s, w, n) => Val(w, Shared(b), t) = Val(s, Cell(s, p), t)
  PROVE  Same(ty, s, w)
<1>1. t \in Type /\ Len(t) # 0
  BY PlaceAtFits, TypeFacts DEF RankedType
<1>2. Wrote(s, w, p, Shared(b), g, m) /\ \A d \in DOMAIN g : d \notin DOMAIN s.bufs
  BY DEF Anew
<1> QED
  BY <1>1, <1>2, WroteSame

(* A cell that takes its type by being used keeps its value.               *)
LEMMA UsedSame ==
  ASSUME TypesFit, NEW ty, NEW s, StateFits(ty, s), NEW p, NEW t, PlaceAt(ty, s, p, t)
  PROVE  Same(ty, s, Used(s, p, t))
<1> DEFINE w == Used(s, p, t)
<1>1. CASE Cell(s, p).type # "None"
  BY <1>1, SameSelf DEF Used
<1>2. CASE Cell(s, p).type = "None"
  <2>1. /\ Cell(s, p) = None /\ t \in Type /\ Len(t) <= MaxRank /\ p \in Places(s)
        /\ Len(t) \in Nat /\ (IsContainer(t) <=> Len(t) > 0)
    BY <1>2, FullOrNone, PlaceAtFits, TypeFacts DEF RankedType
  <2>2. CASE IsContainer(t)
    <3>1. w = Made(s, p, << >>)
      BY <1>2, <2>2 DEF Used
    <3>2. << >> = [k \in DOMAIN << >> |-> << >>[k]] /\ DOMAIN << >> = {}
      OBVIOUS
    <3> HIDE DEF w
    <3>3. PICK b, g, m : Anew(s, w, p, t, << >>, b, g, m)
      BY <2>2, <3>1, <3>2, MadeIs
    <3>4. Val(w, Shared(b), t) = << >>
      BY <3>2, <3>3 DEF Anew
    <3>5. Val(s, Cell(s, p), t) = << >>
      BY <2>1, <2>2, CellFacts, ValBlank
    <3>6. Same(ty, s, w)
      BY <2>2, <3>3, <3>4, <3>5, AnewSame
    <3> QED
      BY <3>6 DEF w
  <2>3. CASE ~IsContainer(t)
    <3>1. w = SetCell(s, p, Number(0))
      BY <1>2, <2>3 DEF Used
    <3>2. Wrote(s, w, p, Number(0), NoBufs, s.made)
      BY <2>1, <3>1, FitsShaped, SetCellWrites
    <3>3. Val(w, Number(0), t) = 0 /\ Val(s, Cell(s, p), t) = 0
      BY <2>1, <2>3, CellFacts, ValBlank
    <3> HIDE DEF w
    <3>4. \A b \in DOMAIN NoBufs : b \notin DOMAIN s.bufs
      BY NoBufsFacts
    <3>5. Val(w, Number(0), t) = Val(s, Cell(s, p), t)
      BY <3>3
    <3>6. Same(ty, s, w)
      BY <3>2, <3>4, <3>5, WroteSame
    <3> QED
      BY <3>6 DEF w
  <2> QED
    BY <2>2, <2>3
<1> QED
  BY <1>1, <1>2

(* So does one that gets a copy of its own.                                *)
LEMMA DetachedSame ==
  ASSUME TypesFit, NEW ty, NEW s, StateFits(ty, s), NEW p, NEW t, PlaceAt(ty, s, p, t), IsContainer(t),
         Full(ty, s, p, t)
  PROVE  Same(ty, s, Detached(s, p))
<1> DEFINE w == Detached(s, p)
<1>1. CASE Unique(s, Cell(s, p).buf)
  BY <1>1, SameSelf DEF Detached
<1>2. CASE ~Unique(s, Cell(s, p).buf)
  <2>1. PICK d : d = Cell(s, p).buf
    OBVIOUS
  <2>2. d \in DOMAIN s.bufs /\ d \in DOMAIN ty /\ d # Null /\ ty[d] = t /\ ContentsFit(ty, s.bufs[d], t)
    BY <2>1, BufsExist DEF Full, Contents
  <2>3. w = Made(s, p, s.bufs[d])
    BY <1>2, <2>1 DEF Detached, Contents
  <2> HIDE DEF w
  <2>4. PICK b, g, m : Anew(s, w, p, t, s.bufs[d], b, g, m)
    <3>1. s.bufs[d] = [k \in DOMAIN s.bufs[d] |-> s.bufs[d][k]]
      BY <2>2 DEF ContentsFit
    <3> QED
      BY <2>3, <3>1, MadeIs
  <2>5. t \in Type /\ Len(t) <= MaxRank /\ Len(t) \in Nat /\ Len(t) > 0
    BY PlaceAtFits, TypeFacts DEF RankedType
  <2>6. Val(s, Cell(s, p), t) = [k \in DOMAIN s.bufs[d] |-> Val(s, s.bufs[d][k], Element(t))]
    BY <2>1, <2>2, <2>5, ValIs
  <2>7. ASSUME NEW n \in Nat, Len(t) = n + 1, SameAt(ty, s, w, n)
        PROVE  Val(w, Shared(b), t) = Val(s, Cell(s, p), t)
    <3>1. ASSUME NEW k \in DOMAIN s.bufs[d]
          PROVE  Val(w, s.bufs[d][k], Element(t)) = Val(s, s.bufs[d][k], Element(t))
      <4>1. /\ PlaceAt(ty, s, InBuf(d, k), Element(t)) /\ Cell(s, InBuf(d, k)) = s.bufs[d][k]
            /\ Len(Element(t)) = n
        BY <2>2, <2>7, ElementPlace
      <4>2. InBuf(d, k) # p
        BY <2>7, <4>1, OneType
      <4>3. \A e, j : InBuf(d, k) = InBuf(e, j) => e \notin DOMAIN g
        BY <2>2, <2>4, PlaceFacts DEF Anew
      <4>4. Cell(w, InBuf(d, k)) = s.bufs[d][k]
        BY <2>4, <4>1, <4>2, <4>3, OldCells DEF Anew
      <4> QED
        BY <2>7, <4>1, <4>4 DEF SameAt
    <3> QED
      BY <2>4, <2>6, <3>1 DEF Anew
  <2>8. Same(ty, s, w)
    BY <2>4, <2>7, AnewSame
  <2> QED
    BY <2>8 DEF w
<1> QED
  BY <1>1, <1>2

LEMMA ForWriteSame ==
  ASSUME TypesFit, NEW ty, NEW s, StateFits(ty, s), NEW p, NEW t, PlaceAt(ty, s, p, t), IsContainer(t)
  PROVE  Same(ty, s, ForWrite(s, p, t))
<1> DEFINE w == Used(s, p, t)
<1>1. PICK ty2 : Keeps(ty, s, ty2, w, p, t) /\ Full(ty2, w, p, t)
  BY UsedKeeps
<1>2. Same(ty, s, w)
  BY UsedSame
<1>3. ForWrite(s, p, t) = Detached(w, p)
  BY DEF ForWrite
<1> HIDE DEF w
<1>4. Same(ty2, w, Detached(w, p))
  BY <1>1, DetachedSame DEF Keeps
<1> QED
  BY <1>1, <1>2, <1>3, <1>4, SameThen

(* X are vectors and maps that are the same in s and w, and with them what *)
(* they lead to.                                                           *)
Alike(s, w, X) ==
  /\ X \subseteq DOMAIN s.bufs /\ Null \notin X
  /\ \A b \in X : /\ b \in DOMAIN w.bufs /\ w.bufs[b] = s.bufs[b]
                  /\ \A k \in DOMAIN s.bufs[b] : s.bufs[b][k].buf \in X \cup {Null}

AlikeAt(s, w, X, n) ==
  \A x, u : u \in Type /\ Len(u) = n /\ Len(u) <= MaxRank /\ x.buf \in X \cup {Null} => Val(w, x, u) = Val(s, x, u)

LEMMA AlikeVal ==
  ASSUME NEW s, NEW w, NEW X, Alike(s, w, X), NEW x, x.buf \in X \cup {Null}, NEW u \in Type, Len(u) <= MaxRank
  PROVE  Val(w, x, u) = Val(s, x, u)
<1>1. AlikeAt(s, w, X, 0)
  <2> SUFFICES ASSUME NEW y, NEW r, r \in Type, Len(r) = 0, Len(r) <= MaxRank PROVE Val(w, y, r) = Val(s, y, r)
    BY DEF AlikeAt
  <2>1. ~IsContainer(r)
    BY TypeFacts
  <2> QED
    BY <2>1, ValBlank
<1>2. ASSUME NEW n \in Nat, AlikeAt(s, w, X, n)
      PROVE  AlikeAt(s, w, X, n + 1)
  <2> SUFFICES ASSUME NEW y, NEW r, r \in Type, Len(r) = n + 1, Len(r) <= MaxRank, y.buf \in X \cup {Null}
               PROVE  Val(w, y, r) = Val(s, y, r)
    BY DEF AlikeAt
  <2>1. IsContainer(r) /\ Element(r) \in Type /\ Len(Element(r)) = n /\ Len(Element(r)) <= MaxRank
    <3>1. IsContainer(r) /\ Element(r) \in Type /\ Len(Element(r)) = n
      BY TypeFacts
    <3> QED
      BY <3>1 DEF MaxRank
  <2>2. CASE y.buf = Null
    <3>1. Val(w, y, r) = << >> /\ Val(s, y, r) = << >>
      BY <2>1, <2>2, ValBlank
    <3> QED
      BY <3>1
  <2>3. CASE y.buf # Null
    <3>1. PICK b : b = y.buf
      OBVIOUS
    <3>2. /\ b \in X /\ b \in DOMAIN s.bufs /\ b \in DOMAIN w.bufs /\ w.bufs[b] = s.bufs[b]
          /\ \A k \in DOMAIN s.bufs[b] : s.bufs[b][k].buf \in X \cup {Null}
      BY <2>3, <3>1 DEF Alike
    <3>3. /\ Val(w, y, r) = [k \in DOMAIN w.bufs[b] |-> Val(w, w.bufs[b][k], Element(r))]
          /\ Val(s, y, r) = [k \in DOMAIN s.bufs[b] |-> Val(s, s.bufs[b][k], Element(r))]
      BY <2>1, <2>3, <3>1, <3>2, ValIs
    <3>4. \A k \in DOMAIN s.bufs[b] : Val(w, s.bufs[b][k], Element(r)) = Val(s, s.bufs[b][k], Element(r))
      BY <1>2, <2>1, <3>2 DEF AlikeAt
    <3> QED
      BY <3>2, <3>3, <3>4
  <2> QED
    BY <2>2, <2>3
<1>3. AlikeAt(s, w, X, 0 + 1)
  BY <1>1, <1>2
<1>4. AlikeAt(s, w, X, 1 + 1)
  BY <1>2, <1>3
<1>5. PICK n : n = Len(u) /\ n \in Nat /\ n <= 2
  BY TypeFacts DEF MaxRank
<1>6. n \in {0, 1, 2}
  BY <1>5
<1>7. AlikeAt(s, w, X, n)
  BY <1>1, <1>3, <1>4, <1>6
<1> QED
  BY <1>5, <1>7 DEF AlikeAt

(* A write of the cell p at the end of a way: of the cell, and of the      *)
(* contents of vectors and maps that are new or that only p points to.     *)
WriteAt(ty, s, w, v, keys, at, p, c, g, m) ==
  /\ WayTo(ty, s, v, keys, at) /\ p = at[Len(keys)]
  /\ Wrote(s, w, p, c, g, m)
  /\ \A b \in DOMAIN g : b \in DOMAIN s.bufs => Alone(s, b, p)

Passed(keys, at) == {Through(at, i) : i \in 0 .. Len(keys) - 1}
Still(s, keys, at, g) == (DOMAIN s.bufs) \ (Passed(keys, at) \cup DOMAIN g)

LEMMA PointsStill ==
  ASSUME TypesFit, NEW ty, NEW s, StateFits(ty, s), NEW w, NEW v, NEW keys, NEW at, NEW p, NEW c, NEW g, NEW m,
         WriteAt(ty, s, w, v, keys, at, p, c, g, m), NEW q \in Places(s), \A i \in 0 .. Len(keys) : q # at[i]
  PROVE  Cell(s, q).buf \in Still(s, keys, at, g) \cup {Null}
<1>1. WayTo(ty, s, v, keys, at) /\ p = at[Len(keys)] /\ \A b \in DOMAIN g : b \in DOMAIN s.bufs => Alone(s, b, p)
  BY DEF WriteAt
<1>2. Cell(s, q).buf = Null \/ Cell(s, q).buf \in DOMAIN s.bufs
  BY PointsTo, BufsExist
<1>3. Len(keys) \in Nat /\ Len(keys) \in 0 .. Len(keys)
  BY <1>1 DEF WayTo
<1>4. Cell(s, q).buf \in DOMAIN s.bufs => Cell(s, q).buf \notin DOMAIN g
  BY <1>1, <1>3 DEF Alone
<1>5. ASSUME NEW i \in 0 .. Len(keys) - 1
      PROVE  Cell(s, q).buf # Through(at, i)
  <2>1. Alone(s, Through(at, i), at[i])
    BY <1>1, WayAlone
  <2>2. i \in 0 .. Len(keys)
    BY <1>3
  <2> QED
    BY <2>1, <2>2 DEF Alone
<1>6. Cell(s, q).buf \notin Passed(keys, at)
  BY <1>5 DEF Passed
<1> QED
  BY <1>2, <1>4, <1>6 DEF Still

LEMMA StillAlike ==
  ASSUME TypesFit, NEW ty, NEW s, StateFits(ty, s), NEW w, NEW v, NEW keys, NEW at, NEW p, NEW c, NEW g, NEW m,
         WriteAt(ty, s, w, v, keys, at, p, c, g, m)
  PROVE  Alike(s, w, Still(s, keys, at, g))
<1>1. /\ WayTo(ty, s, v, keys, at) /\ p = at[Len(keys)] /\ Wrote(s, w, p, c, g, m)
      /\ Len(keys) \in Nat /\ Len(keys) \in 0 .. Len(keys) /\ at[0] = InVar(v)
  BY DEF WriteAt, WayTo
<1>2. ASSUME NEW b \in Still(s, keys, at, g), NEW k, NEW i \in 0 .. Len(keys)
      PROVE  InBuf(b, k) # at[i]
  <2>1. CASE i = 0
    BY <1>1, <2>1, PlaceFacts
  <2>2. CASE i # 0
    <3>1. i - 1 \in 0 .. Len(keys) - 1
      BY <1>1, <2>2
    <3>2. at[(i - 1) + 1] = InBuf(Through(at, i - 1), keys[(i - 1) + 1])
      BY <1>1, <3>1, WayStep
    <3>3. at[i][2] = Through(at, i - 1)
      BY <3>1, <3>2, PlaceFacts
    <3>4. b # Through(at, i - 1)
      BY <3>1 DEF Still, Passed
    <3> QED
      BY <3>3, <3>4, PlaceFacts
  <2> QED
    BY <2>1, <2>2
<1>3. ASSUME NEW b \in Still(s, keys, at, g)
      PROVE  /\ b \in DOMAIN w.bufs /\ w.bufs[b] = s.bufs[b]
             /\ \A k \in DOMAIN s.bufs[b] : s.bufs[b][k].buf \in Still(s, keys, at, g) \cup {Null}
  <2>1. b \in DOMAIN s.bufs /\ b \notin DOMAIN g
    BY DEF Still
  <2>2. \A k : p # InBuf(b, k)
    BY <1>1, <1>2
  <2>3. b \in DOMAIN w.bufs /\ w.bufs[b] = [k \in DOMAIN s.bufs[b] |-> s.bufs[b][k]]
    BY <1>1, <2>1, <2>2 DEF Wrote
  <2>4. s.bufs[b] = [k \in DOMAIN s.bufs[b] |-> s.bufs[b][k]]
    <3>1. Shaped(s)
      BY FitsShaped
    <3> QED
      BY <2>1, <3>1 DEF Shaped
  <2>5. ASSUME NEW k \in DOMAIN s.bufs[b]
        PROVE  s.bufs[b][k].buf \in Still(s, keys, at, g) \cup {Null}
    <3>1. InBuf(b, k) \in Places(s) /\ Cell(s, InBuf(b, k)) = s.bufs[b][k]
      BY <2>1, PlacesAre, CellIs
    <3>2. \A i \in 0 .. Len(keys) : InBuf(b, k) # at[i]
      BY <1>2
    <3>3. Cell(s, InBuf(b, k)).buf \in Still(s, keys, at, g) \cup {Null}
      BY <3>1, <3>2, PointsStill
    <3> QED
      BY <3>1, <3>3
  <2> QED
    BY <2>3, <2>4, <2>5
<1>4. Still(s, keys, at, g) \subseteq DOMAIN s.bufs /\ Null \notin Still(s, keys, at, g)
  BY BufsExist DEF Still
<1> QED
  BY <1>3, <1>4 DEF Alike

(* What is not on the way has the same value afterwards.                   *)
LEMMA StillVal ==
  ASSUME TypesFit, NEW ty, NEW s, StateFits(ty, s), NEW w, NEW v, NEW keys, NEW at, NEW p, NEW c, NEW g, NEW m,
         WriteAt(ty, s, w, v, keys, at, p, c, g, m), NEW q \in Places(s), \A i \in 0 .. Len(keys) : q # at[i],
         NEW u \in Type, Len(u) <= MaxRank
  PROVE  Val(w, Cell(s, q), u) = Val(s, Cell(s, q), u)
<1>1. Cell(s, q).buf \in Still(s, keys, at, g) \cup {Null}
  BY PointsStill
<1>2. Alike(s, w, Still(s, keys, at, g))
  BY StillAlike
<1> QED
  BY <1>1, <1>2, AlikeVal

(* The values along a way.                                                 *)
WayVal(s, v, at, i) == Val(s, Cell(s, at[i]), Rest(types[v], i))

LEMMA WayDown ==
  ASSUME TypesFit, NEW ty, NEW s, StateFits(ty, s), NEW v, NEW keys, NEW at, WayTo(ty, s, v, keys, at),
         NEW i \in 0 .. Len(keys) - 1
  PROVE  LET b == Through(at, i)
         IN  /\ Cell(s, at[i]).buf = b /\ b \in DOMAIN s.bufs /\ b \in DOMAIN ty
             /\ IsContainer(Rest(types[v], i)) /\ Element(Rest(types[v], i)) = Rest(types[v], i + 1)
             /\ Rest(types[v], i) \in Type /\ Len(Rest(types[v], i)) <= MaxRank
             /\ WayVal(s, v, at, i) = [k \in DOMAIN s.bufs[b] |-> Val(s, s.bufs[b][k], Rest(types[v], i + 1))]
             /\ keys[i + 1] \in DOMAIN s.bufs[b] /\ Cell(s, at[i + 1]) = s.bufs[b][keys[i + 1]]
             /\ WayVal(s, v, at, i)[keys[i + 1]] = WayVal(s, v, at, i + 1)
<1>1. PICK b : b = Through(at, i)
  OBVIOUS
<1>2. /\ Cell(s, at[i]).buf = b /\ b \in DOMAIN s.bufs /\ ty[b] = Rest(types[v], i)
      /\ at[i + 1] = InBuf(b, keys[i + 1]) /\ keys[i + 1] \in DOMAIN s.bufs[b]
  BY <1>1, WayStep
<1>3. b \in DOMAIN ty /\ b # Null
  BY <1>2, BufsExist
<1>4. IsContainer(ty[b]) /\ ty[b] \in Type /\ Len(ty[b]) <= MaxRank
  BY <1>3 DEF StateFits, BufsFit, RankedType
<1>5. Element(ty[b]) = Rest(types[v], i + 1)
  <2>1. v \in Vars /\ types[v] \in Type /\ Len(types[v]) \in 0 .. MaxRank /\ Len(keys) <= Len(types[v]) /\ Len(keys) \in Nat
    BY VarTypes DEF WayTo
  <2>2. i \in 0 .. Len(types[v]) /\ i < Len(types[v])
    BY <2>1
  <2> QED
    BY <1>2, <2>1, <2>2, RestFacts
<1>6. WayVal(s, v, at, i) = [k \in DOMAIN s.bufs[b] |-> Val(s, s.bufs[b][k], Rest(types[v], i + 1))]
  BY <1>2, <1>3, <1>4, <1>5, ValIs DEF WayVal
<1>7. Cell(s, at[i + 1]) = s.bufs[b][keys[i + 1]]
  BY <1>2, CellIs
<1> QED
  BY <1>1, <1>2, <1>3, <1>4, <1>5, <1>6, <1>7 DEF WayVal

LEMMA WayUp ==
  ASSUME TypesFit, NEW ty, NEW s, StateFits(ty, s), NEW w, NEW v, NEW keys, NEW at, NEW p, NEW c, NEW g, NEW m,
         WriteAt(ty, s, w, v, keys, at, p, c, g, m), NEW i \in 0 .. Len(keys) - 1
  PROVE  /\ WayVal(w, v, at, i) = [WayVal(s, v, at, i) EXCEPT ![keys[i + 1]] = WayVal(w, v, at, i + 1)]
         /\ Cell(w, at[i]) = Cell(s, at[i])
<1>1. /\ WayTo(ty, s, v, keys, at) /\ p = at[Len(keys)] /\ Wrote(s, w, p, c, g, m)
      /\ Len(keys) \in Nat /\ Len(keys) \in 0 .. Len(keys) /\ at[0] = InVar(v)
      /\ \A b \in DOMAIN g : b \in DOMAIN s.bufs => Alone(s, b, p)
      /\ i + 1 \in 0 .. Len(keys) /\ i \in 0 .. Len(keys)
  BY DEF WriteAt, WayTo
<1>2. ASSUME NEW j \in 0 .. Len(keys) - 1
      PROVE  Through(at, j) \notin DOMAIN g /\ Through(at, j) \in DOMAIN s.bufs
  <2>1. j \in 0 .. Len(keys) /\ j # Len(keys)
    BY <1>1
  <2>2. Alone(s, Through(at, j), at[j]) /\ at[j] # p
    BY <1>1, <2>1, WayAlone, WayApart
  <2>3. ~Alone(s, Through(at, j), p)
    BY <2>2 DEF Alone
  <2> QED
    BY <1>1, <2>3, WayStep
<1>3. PICK b : b = Through(at, i)
  OBVIOUS
<1>4. /\ Cell(s, at[i]).buf = b /\ b \in DOMAIN s.bufs /\ b \in DOMAIN ty /\ b # Null
      /\ IsContainer(Rest(types[v], i)) /\ Element(Rest(types[v], i)) = Rest(types[v], i + 1)
      /\ Rest(types[v], i) \in Type /\ Len(Rest(types[v], i)) <= MaxRank
      /\ WayVal(s, v, at, i) = [k \in DOMAIN s.bufs[b] |-> Val(s, s.bufs[b][k], Rest(types[v], i + 1))]
      /\ keys[i + 1] \in DOMAIN s.bufs[b]
  BY <1>1, <1>3, WayDown, BufsExist
<1>5. at[i + 1] = InBuf(b, keys[i + 1]) /\ ty[b] = Rest(types[v], i)
  BY <1>1, <1>3, WayStep
<1>6. Cell(w, at[i]) = Cell(s, at[i])
  <2>1. PlaceAt(ty, s, at[i], Rest(types[v], i)) /\ at[i] # p
    BY <1>1, WayPlaces, WayApart
  <2>2. \A d, k : at[i] = InBuf(d, k) => d \notin DOMAIN g
    <3>1. CASE i = 0
      <4>1. \A d, k : InVar(v) # InBuf(d, k)
        BY DEF InVar, InBuf
      <4> QED
        BY <1>1, <3>1, <4>1
    <3>2. CASE i # 0
      <4>1. i - 1 \in 0 .. Len(keys) - 1
        BY <1>1, <3>2
      <4>2. at[(i - 1) + 1] = InBuf(Through(at, i - 1), keys[(i - 1) + 1])
        BY <1>1, <4>1, WayStep
      <4>3. at[i][2] = Through(at, i - 1)
        BY <4>1, <4>2, PlaceFacts
      <4> QED
        BY <1>2, <4>1, <4>3, PlaceFacts
    <3> QED
      BY <3>1, <3>2
  <2> QED
    BY <1>1, <2>1, <2>2, OldCells
<1>7. b \in DOMAIN w.bufs /\ w.bufs[b] = [k \in DOMAIN s.bufs[b] |-> IF p = InBuf(b, k) THEN c ELSE s.bufs[b][k]]
  BY <1>1, <1>2, <1>3 DEF Wrote
<1>8. WayVal(w, v, at, i) = [k \in DOMAIN s.bufs[b] |-> Val(w, w.bufs[b][k], Rest(types[v], i + 1))]
  <2>1. PICK x, u, e : x = Cell(s, at[i]) /\ u = Rest(types[v], i) /\ e = Rest(types[v], i + 1)
    OBVIOUS
  <2>2. x.buf = b /\ b # Null /\ u \in Type /\ Len(u) <= MaxRank /\ IsContainer(u) /\ Element(u) = e
    BY <1>4, <2>1
  <2>3. b \in DOMAIN w.bufs /\ DOMAIN w.bufs[b] = DOMAIN s.bufs[b]
    BY <1>7
  <2>4. Val(w, x, u) = [k \in DOMAIN w.bufs[b] |-> Val(w, w.bufs[b][k], e)]
    BY <2>2, <2>3, ValIs
  <2> QED
    BY <1>6, <2>1, <2>3, <2>4 DEF WayVal
<1>9. Val(w, w.bufs[b][keys[i + 1]], Rest(types[v], i + 1)) = WayVal(w, v, at, i + 1)
  BY <1>5, CellIs DEF WayVal
<1>10. ASSUME NEW k \in DOMAIN s.bufs[b], k # keys[i + 1]
       PROVE  Val(w, w.bufs[b][k], Rest(types[v], i + 1)) = Val(s, s.bufs[b][k], Rest(types[v], i + 1))
  <2>1. PlaceAt(ty, s, InBuf(b, k), Rest(types[v], i + 1)) /\ Cell(s, InBuf(b, k)) = s.bufs[b][k]
    BY <1>4, <1>5, ElementPlace
  <2>2. InBuf(b, k) # at[i + 1]
    BY <1>5, <1>10, PlaceFacts
  <2>3. ASSUME NEW j \in 0 .. Len(keys), j # i + 1
        PROVE  InBuf(b, k) # at[j]
    <3>1. PlaceAt(ty, s, at[j], Rest(types[v], j)) /\ j \in 0 .. Len(types[v]) /\ types[v] \in Type
      BY <1>1, WayPlaces
    <3>2. i + 1 \in 0 .. Len(types[v])
      BY <1>1, WayPlaces
    <3>3. Len(Rest(types[v], j)) # Len(Rest(types[v], i + 1))
      <4>1. PICK n \in Nat : n = Len(types[v])
        BY <3>1, TypeFacts
      <4>2. Len(Rest(types[v], j)) = n - j /\ Len(Rest(types[v], i + 1)) = n - (i + 1)
        BY <3>1, <3>2, <4>1, RestFacts
      <4> QED
        BY <2>3, <4>2
    <3> QED
      BY <2>1, <3>1, <3>3, OneType
  <2>4. \A j \in 0 .. Len(keys) : InBuf(b, k) # at[j]
    BY <2>2, <2>3
  <2>5. InBuf(b, k) \in Places(s) /\ Rest(types[v], i + 1) \in Type /\ Len(Rest(types[v], i + 1)) <= MaxRank
    BY <2>1, PlaceAtFits DEF RankedType
  <2>6. Val(w, Cell(s, InBuf(b, k)), Rest(types[v], i + 1)) = Val(s, Cell(s, InBuf(b, k)), Rest(types[v], i + 1))
    BY <2>4, <2>5, StillVal
  <2>7. w.bufs[b][k] = s.bufs[b][k]
    BY <1>1, <1>7, <2>4
  <2> QED
    BY <2>1, <2>6, <2>7
<1> QED
  BY <1>4, <1>6, <1>8, <1>9, <1>10

-----------------------------------------------------------------------------
(* The paths of Values.                                                    *)

Path(x, keys, a) ==
  /\ a[0] = x
  /\ Len(keys) = 1 \/ Len(keys) = 2 => a[1] = x[keys[1]]
  /\ Len(keys) = 2 => a[2] = x[keys[1]][keys[2]]

LEMMA AlongIs ==
  ASSUME NEW x, NEW keys, Len(keys) \in {0, 1, 2}
  PROVE  Path(x, keys, Abstract!Along(x, keys))
<1> PICK n : n = Len(keys)
  OBVIOUS
<1> DEFINE ok(f) == f = [i \in 0 .. Len(keys) |-> IF i = 0 THEN x ELSE f[i - 1][keys[i]]]
           g == [i \in 0 .. Len(keys) |-> IF i = 0 THEN x ELSE IF i = 1 THEN x[keys[1]] ELSE x[keys[1]][keys[2]]]
           at == CHOOSE f : ok(f)
<1>1. n = Len(keys) /\ n \in {0, 1, 2}
  OBVIOUS
<1>2. ok(g)
  <2>1. ASSUME NEW i \in 0 .. n
        PROVE  g[i] = IF i = 0 THEN x ELSE g[i - 1][keys[i]]
    <3>1. i \in {0, 1, 2}
      BY <1>1
    <3>2. CASE i = 0
      BY <1>1, <3>2
    <3>3. CASE i = 1
      BY <1>1, <3>3
    <3>4. CASE i = 2
      BY <1>1, <3>4
    <3> QED
      BY <3>1, <3>2, <3>3, <3>4
  <2>2. g = [i \in 0 .. n |-> g[i]]
    BY <1>1
  <2> HIDE DEF g
  <2> QED
    BY <1>1, <2>1, <2>2
<1>3. ok(at)
  BY <1>2
<1>4. Abstract!Along(x, keys) = at
  BY DEF Abstract!Along
<1> HIDE DEF at
<1>5. ASSUME NEW i \in 0 .. n
      PROVE  at[i] = IF i = 0 THEN x ELSE at[i - 1][keys[i]]
  BY <1>1, <1>3
<1>6. 0 \in 0 .. n /\ at[0] = x
  BY <1>1, <1>5
<1>7. n = 1 \/ n = 2 => at[1] = x[keys[1]]
  BY <1>1, <1>5, <1>6
<1>8. n = 2 => at[2] = x[keys[1]][keys[2]]
  <2>1. n = 2 => at[2] = at[2 - 1][keys[2]]
    BY <1>5
  <2> QED
    BY <2>1, <1>7
<1> QED
  BY <1>1, <1>4, <1>6, <1>7, <1>8 DEF Path

(* x with what keys lead to replaced with y.                               *)
Put(x, keys, y, z) ==
  /\ Len(keys) = 0 => z = y
  /\ Len(keys) = 1 => z = [x EXCEPT ![keys[1]] = y]
  /\ Len(keys) = 2 => z = [x EXCEPT ![keys[1]] = [x[keys[1]] EXCEPT ![keys[2]] = y]]

LEMMA UpdatedIs ==
  ASSUME NEW x, NEW keys, Len(keys) \in {0, 1, 2}, NEW y
  PROVE  Put(x, keys, y, Abstract!Updated(x, keys, y))
<1>0. PICK A : A = Abstract!Along(x, keys)
  OBVIOUS
<1>9. Path(x, keys, A)
  BY <1>0, AlongIs
<1> PICK n : n = Len(keys)
  OBVIOUS
<1> DEFINE ok(f) == f = [i \in 0 .. Len(keys) |->
                           IF i = Len(keys) THEN y ELSE [A[i] EXCEPT ![keys[i + 1]] = f[i + 1]]]
           last == IF Len(keys) = 2 THEN [A[1] EXCEPT ![keys[2]] = y] ELSE y
           g == [i \in 0 .. Len(keys) |->
                   IF i = Len(keys) THEN y
                   ELSE IF i = 1 THEN [A[1] EXCEPT ![keys[2]] = y]
                   ELSE [A[0] EXCEPT ![keys[1]] = last]]
           up == CHOOSE f : ok(f)
<1>1. n = Len(keys) /\ n \in {0, 1, 2}
  OBVIOUS
<1>2. Abstract!Updated(x, keys, y) = up[0]
  BY <1>0 DEF Abstract!Updated
<1>3. ok(g)
  <2>1. ASSUME NEW i \in 0 .. n
        PROVE  g[i] = IF i = n THEN y ELSE [A[i] EXCEPT ![keys[i + 1]] = g[i + 1]]
    <3>1. i \in {0, 1, 2}
      BY <1>1
    <3>2. CASE i = n
      BY <1>1, <3>2
    <3>3. CASE i = 1 /\ n = 2
      BY <1>1, <3>3
    <3>4. CASE i = 0 /\ n = 1
      BY <1>1, <3>4
    <3>5. CASE i = 0 /\ n = 2
      BY <1>1, <3>5
    <3> QED
      BY <1>1, <3>1, <3>2, <3>3, <3>4, <3>5
  <2>2. g = [i \in 0 .. n |-> g[i]]
    BY <1>1
  <2> HIDE DEF g
  <2> QED
    BY <1>1, <2>1, <2>2
<1>4. ok(up)
  <2> HIDE DEF g
  <2> QED
    BY <1>3
<1> HIDE DEF up
<1>5. ASSUME NEW i \in 0 .. n
      PROVE  up[i] = IF i = n THEN y ELSE [A[i] EXCEPT ![keys[i + 1]] = up[i + 1]]
  BY <1>1, <1>4
<1>6. CASE n = 0
  <2>1. up[0] = y
    BY <1>5, <1>6
  <2> QED
    BY <1>1, <1>2, <1>6, <2>1 DEF Put
<1>7. CASE n = 1
  <2>1. up[0] = [A[0] EXCEPT ![keys[0 + 1]] = up[0 + 1]] /\ up[1] = y
    BY <1>5, <1>7
  <2>2. A[0] = x
    BY <1>9 DEF Path
  <2>4. PICK k : k = keys[1]
    OBVIOUS
  <2>5. 0 + 1 = 1
    OBVIOUS
  <2>6. up[0] = [A[0] EXCEPT ![k] = y]
    BY <2>1, <2>4, <2>5
  <2>3. up[0] = [x EXCEPT ![keys[1]] = y]
    BY <2>2, <2>4, <2>6
  <2> QED
    BY <1>1, <1>2, <1>7, <2>3 DEF Put
<1>8. CASE n = 2
  <2>1. up[0] = [A[0] EXCEPT ![keys[0 + 1]] = up[0 + 1]]
    BY <1>5, <1>8
  <2>2. up[1] = [A[1] EXCEPT ![keys[1 + 1]] = up[1 + 1]]
    BY <1>5, <1>8
  <2>3. up[2] = y
    BY <1>5, <1>8
  <2>4. A[0] = x /\ A[1] = x[keys[1]]
    BY <1>1, <1>8, <1>9 DEF Path
  <2>5. up[1] = [x[keys[1]] EXCEPT ![keys[2]] = y]
    BY <2>2, <2>3, <2>4
  <2>6. up[0] = [x EXCEPT ![keys[1]] = up[1]]
    BY <2>1, <2>4
  <2> QED
    BY <1>1, <1>2, <1>8, <2>5, <2>6 DEF Put
<1> QED
  BY <1>1, <1>6, <1>7, <1>8

LEMMA WayLength ==
  ASSUME TypesFit, NEW ty, NEW s, NEW v, NEW keys, NEW at, WayTo(ty, s, v, keys, at)
  PROVE  /\ Len(keys) \in {0, 1, 2} /\ v \in Vars /\ at[0] = InVar(v)
         /\ WayVal(s, v, at, 0) = Val(s, s.vars[v], types[v])
<1>1. /\ v \in Vars /\ keys \in Seq(Nat) /\ Len(keys) <= Len(types[v]) /\ at[0] = InVar(v)
      /\ types[v] \in Type /\ Len(types[v]) \in 0 .. MaxRank
  BY VarTypes DEF WayTo
<1>2. PICK n, m : n = Len(keys) /\ m = Len(types[v])
  OBVIOUS
<1>3. n \in Nat /\ n <= m /\ m \in 0 .. 2
  BY <1>1, <1>2 DEF MaxRank
<1>4. n \in {0, 1, 2}
  BY <1>3
<1>5. Rest(types[v], 0) = types[v] /\ Cell(s, InVar(v)) = s.vars[v]
  <2>1. 0 \in 0 .. Len(types[v])
    BY <1>1
  <2> QED
    BY <1>1, <2>1, RestFacts, CellIs
<1> QED
  BY <1>1, <1>2, <1>4, <1>5 DEF WayVal

(* What the reference with these subscripts refers to.                     *)
LEMMA WayGet ==
  ASSUME TypesFit, NEW ty, NEW s, StateFits(ty, s), NEW v, NEW keys, NEW at, WayTo(ty, s, v, keys, at)
  PROVE  Abstract!Along(WayVal(s, v, at, 0), keys)[Len(keys)] = WayVal(s, v, at, Len(keys))
<1>1. PICK n : n = Len(keys) /\ n \in {0, 1, 2}
  BY WayLength
<1>2. PICK x, a : x = WayVal(s, v, at, 0) /\ a = Abstract!Along(x, keys)
  OBVIOUS
<1>3. /\ a[0] = x
      /\ n = 1 \/ n = 2 => a[1] = x[keys[1]]
      /\ n = 2 => a[2] = x[keys[1]][keys[2]]
  <2>1. Len(keys) \in {0, 1, 2}
    BY WayLength
  <2>2. Path(x, keys, a)
    BY <1>2, <2>1, AlongIs
  <2> QED
    BY <1>1, <2>2 DEF Path
<1>4. \A i \in 0 .. n - 1 : WayVal(s, v, at, i)[keys[i + 1]] = WayVal(s, v, at, i + 1)
  BY <1>1, WayDown
<1>5. n = 1 \/ n = 2 => x[keys[1]] = WayVal(s, v, at, 1)
  <2>1. n = 1 \/ n = 2 => WayVal(s, v, at, 0)[keys[0 + 1]] = WayVal(s, v, at, 0 + 1)
    BY <1>1, <1>4
  <2> QED
    BY <1>2, <2>1
<1>6. n = 2 => x[keys[1]][keys[2]] = WayVal(s, v, at, 2)
  <2>1. n = 2 => WayVal(s, v, at, 1)[keys[1 + 1]] = WayVal(s, v, at, 1 + 1)
    BY <1>4
  <2> QED
    BY <1>5, <2>1
<1>7. a[n] = WayVal(s, v, at, n)
  BY <1>1, <1>2, <1>3, <1>5, <1>6
<1> QED
  BY <1>1, <1>2, <1>7

(* What a write at the end of the way makes of the variable.               *)
LEMMA WayUpdated ==
  ASSUME TypesFit, NEW ty, NEW s, StateFits(ty, s), NEW w, NEW v, NEW keys, NEW at, NEW p, NEW c, NEW g, NEW m,
         WriteAt(ty, s, w, v, keys, at, p, c, g, m)
  PROVE  WayVal(w, v, at, 0) = Abstract!Updated(WayVal(s, v, at, 0), keys, WayVal(w, v, at, Len(keys)))
<1>1. WayTo(ty, s, v, keys, at)
  BY DEF WriteAt
<1>2. PICK n : n = Len(keys) /\ n \in {0, 1, 2}
  BY <1>1, WayLength
<1>3. PICK x, y, z, up : /\ x = WayVal(s, v, at, 0) /\ y = WayVal(w, v, at, n) /\ z = WayVal(w, v, at, 0)
                         /\ up = Abstract!Updated(x, keys, y)
  OBVIOUS
<1>4. /\ n = 0 => up = y
      /\ n = 1 => up = [x EXCEPT ![keys[1]] = y]
      /\ n = 2 => up = [x EXCEPT ![keys[1]] = [x[keys[1]] EXCEPT ![keys[2]] = y]]
  <2>1. Len(keys) \in {0, 1, 2}
    BY <1>1, WayLength
  <2>2. Put(x, keys, y, up)
    BY <1>3, <2>1, UpdatedIs
  <2> QED
    BY <1>2, <2>2 DEF Put
<1>5. \A i \in 0 .. n - 1 : WayVal(w, v, at, i) = [WayVal(s, v, at, i) EXCEPT ![keys[i + 1]] = WayVal(w, v, at, i + 1)]
  BY <1>2, WayUp
<1>6. n = 1 \/ n = 2 => z = [x EXCEPT ![keys[1]] = WayVal(w, v, at, 1)]
  <2>1. n = 1 \/ n = 2 => WayVal(w, v, at, 0) = [WayVal(s, v, at, 0) EXCEPT ![keys[0 + 1]] = WayVal(w, v, at, 0 + 1)]
    BY <1>5
  <2> QED
    BY <1>3, <2>1
<1>7. n = 2 => WayVal(w, v, at, 1) = [x[keys[1]] EXCEPT ![keys[2]] = y]
  <2> SUFFICES ASSUME n = 2 PROVE WayVal(w, v, at, 1) = [x[keys[1]] EXCEPT ![keys[2]] = y]
    OBVIOUS
  <2>1. WayVal(w, v, at, 1) = [WayVal(s, v, at, 1) EXCEPT ![keys[1 + 1]] = WayVal(w, v, at, 1 + 1)]
    BY <1>5
  <2>2. 0 \in 0 .. Len(keys) - 1
    BY <1>2
  <2>3. WayVal(s, v, at, 0)[keys[0 + 1]] = WayVal(s, v, at, 0 + 1)
    BY <1>1, <2>2, WayDown
  <2>4. x[keys[1]] = WayVal(s, v, at, 1) /\ y = WayVal(w, v, at, 2)
    BY <1>3, <2>3
  <2> QED
    BY <2>1, <2>4
<1>8. z = up
  <2>1. CASE n = 0
    BY <1>3, <1>4, <2>1
  <2>2. CASE n = 1
    BY <1>3, <1>4, <1>6, <2>2
  <2>3. CASE n = 2
    BY <1>4, <1>6, <1>7, <2>3
  <2> QED
    BY <1>2, <2>1, <2>2, <2>3
<1> QED
  BY <1>2, <1>3, <1>8

-----------------------------------------------------------------------------
(* The values that Values sees.                                            *)

VarsOf(s) == [v \in Vars |-> Val(s, s.vars[v], types[v])]
SeenIn(s, e) ==
  IF e.kind = "value" THEN Abstract!Value(e.type, Val(s, e.cell, e.type))
  ELSE Abstract!Reference(e.type, e.var, e.keys)
StackOf(s, st) == [i \in 1 .. Len(st) |-> SeenIn(s, st[i])]

AbsVars == [v \in Vars |-> Tree(bufs, vars[v], types[v])]
AbsStack == [i \in 1 .. Depth |-> Seen(stack[i])]

(* What remains has the same value under its new name.                     *)
AfterAt(ty, z, name, n) ==
  \A c, u : u \in Type /\ Len(u) = n /\ Len(u) <= MaxRank /\ Fits(ty, c, u) /\ c.buf \in DOMAIN name \cup {Null} =>
    Val(After(z, name), NewCell(name, c), u) = Val(z, c, u)

LEMMA AfterVal ==
  ASSUME TypesFit, NEW ty, NEW z, StateFits(ty, z), NEW name, Renaming(z, name),
         NEW c, NEW u \in Type, Len(u) <= MaxRank, Fits(ty, c, u), c.buf \in DOMAIN name \cup {Null}
  PROVE  Val(After(z, name), NewCell(name, c), u) = Val(z, c, u)
<1> PICK x : x = After(z, name)
  OBVIOUS
<1>1. ASSUME NEW y, NEW r, Fits(ty, y, r), y.buf \in DOMAIN name \cup {Null}
      PROVE  NewCell(name, y).number = y.number /\ NewCell(name, y).buf = NewBuf(name, y.buf)
  <2>1. /\ \A b \in DOMAIN name : name[b] \in DOMAIN NewTypes(ty, name) /\ NewTypes(ty, name)[name[b]] = ty[b]
        /\ Null \notin DOMAIN name /\ Null \notin DOMAIN ty
    BY NewTypesAre
  <2> QED
    BY <1>1, <2>1, NewCellFits
<1>2. AfterAt(ty, z, name, 0)
  <2> SUFFICES ASSUME NEW y, NEW r, r \in Type, Len(r) = 0, Len(r) <= MaxRank, Fits(ty, y, r), y.buf \in DOMAIN name \cup {Null}
               PROVE  Val(After(z, name), NewCell(name, y), r) = Val(z, y, r)
    BY DEF AfterAt
  <2>1. ~IsContainer(r)
    BY TypeFacts
  <2> QED
    BY <1>1, <2>1, ValBlank
<1>3. ASSUME NEW n \in Nat, AfterAt(ty, z, name, n)
      PROVE  AfterAt(ty, z, name, n + 1)
  <2> SUFFICES ASSUME NEW y, NEW r, r \in Type, Len(r) = n + 1, Len(r) <= MaxRank, Fits(ty, y, r), y.buf \in DOMAIN name \cup {Null}
               PROVE  Val(After(z, name), NewCell(name, y), r) = Val(z, y, r)
    BY DEF AfterAt
  <2>1. IsContainer(r) /\ Element(r) \in Type /\ Len(Element(r)) = n /\ Len(Element(r)) <= MaxRank
    <3>1. IsContainer(r) /\ Element(r) \in Type /\ Len(Element(r)) = n
      BY TypeFacts
    <3> QED
      BY <3>1 DEF MaxRank
  <2>2. PICK d : d = NewCell(name, y)
    OBVIOUS
  <2>3. d.buf = NewBuf(name, y.buf)
    BY <1>1, <2>2
  <2>4. CASE y.buf = Null
    <3>1. Null \notin DOMAIN name
      BY NewTypesAre
    <3>2. d.buf = Null
      BY <2>3, <2>4, <3>1 DEF NewBuf
    <3>3. Val(x, d, r) = << >> /\ Val(z, y, r) = << >>
      BY <2>1, <2>4, <3>2, ValBlank
    <3> QED
      BY <2>2, <3>3
  <2>5. CASE y.buf # Null
    <3>1. PICK b : b = y.buf /\ b \in DOMAIN name /\ d.buf = name[b]
      BY <2>3, <2>5 DEF NewBuf
    <3>2. /\ name[b] \in DOMAIN x.bufs /\ x.bufs[name[b]] = NewContents(z, name, b)
      BY <3>1, NewCells
    <3>3. b \in DOMAIN z.bufs /\ name[b] # Null
      BY <3>1 DEF Renaming
    <3>4. b \in DOMAIN ty /\ ty[b] = r
      <4>1. Null \notin DOMAIN ty
        BY NewTypesAre
      <4> QED
        BY <2>5, <3>1, <4>1, FitsFacts
    <3>5. \A k \in DOMAIN z.bufs[b] : /\ Fits(ty, z.bufs[b][k], Element(r))
                                      /\ z.bufs[b][k].buf \in DOMAIN name \cup {Null}
      BY <3>1, <3>4 DEF Renaming, StateFits, BufsFit, ContentsFit
    <3>6. DOMAIN NewContents(z, name, b) = DOMAIN z.bufs[b]
          /\ \A k \in DOMAIN z.bufs[b] : NewContents(z, name, b)[k] = NewCell(name, z.bufs[b][k])
      BY DEF NewContents
    <3>7. /\ Val(x, d, r) = [k \in DOMAIN x.bufs[name[b]] |-> Val(x, x.bufs[name[b]][k], Element(r))]
          /\ Val(z, y, r) = [k \in DOMAIN z.bufs[b] |-> Val(z, z.bufs[b][k], Element(r))]
      BY <2>1, <2>5, <3>1, <3>2, <3>3, ValIs
    <3>8. \A k \in DOMAIN z.bufs[b] : Val(x, NewCell(name, z.bufs[b][k]), Element(r)) = Val(z, z.bufs[b][k], Element(r))
      BY <1>3, <2>1, <3>5 DEF AfterAt
    <3> QED
      BY <2>2, <3>2, <3>6, <3>7, <3>8
  <2> QED
    BY <2>4, <2>5
<1>4. AfterAt(ty, z, name, 0 + 1)
  BY <1>2, <1>3
<1>5. AfterAt(ty, z, name, 1 + 1)
  BY <1>3, <1>4
<1>6. PICK n : n = Len(u) /\ n \in Nat /\ n <= 2
  BY TypeFacts DEF MaxRank
<1>7. n \in {0, 1, 2}
  BY <1>6
<1>8. AfterAt(ty, z, name, n)
  BY <1>2, <1>4, <1>5, <1>7
<1> QED
  BY <1>6, <1>8 DEF AfterAt

(* What an instruction leaves behind.                                      *)
Shows(vs, st) == types' = types /\ AbsVars' = vs /\ AbsStack' = st

LEMMA BecomeShows ==
  ASSUME TypesFit, NEW ty, NEW w, StateFits(ty, w), NEW st, StackFits(ty, st), With(w, st)
  PROVE  Shows(VarsOf(w), StackOf(w, st))
<1>1. PICK z : z = [w EXCEPT !.stack = st]
  OBVIOUS
<1>2. StateFits(ty, z) /\ z.vars = w.vars /\ z.stack = st /\ z.bufs = w.bufs
  BY <1>1, RestackFits
<1>3. PICK name : name = NamesOf(Leads(z))
  OBVIOUS
<1>4. Renaming(z, name)
  BY <1>2, <1>3, NamesRename
<1>5. PICK x : x = After(z, name)
  OBVIOUS
<1>6. types' = types /\ vars' = x.vars /\ stack' = x.stack /\ bufs' = x.bufs
  BY <1>1, <1>3, <1>5, RenamedIs DEF With, Become, Assign, Destroyed
<1>7. ASSUME NEW c, NEW u, RankedType(u), Fits(ty, c, u), c.buf \in DOMAIN name \cup {Null}
      PROVE  Tree(x.bufs, NewCell(name, c), u) = Val(w, c, u)
  <2>1. Val(x, NewCell(name, c), u) = Val(z, c, u)
    BY <1>2, <1>4, <1>5, <1>7, AfterVal DEF RankedType
  <2> QED
    BY <1>2, <2>1 DEF Val
<1>8. \A v \in Vars : Tree(x.bufs, x.vars[v], types[v]) = Val(w, w.vars[v], types[v])
  <2> SUFFICES ASSUME NEW v \in Vars PROVE Tree(x.bufs, x.vars[v], types[v]) = Val(w, w.vars[v], types[v])
    OBVIOUS
  <2>1. x.vars[v] = NewCell(name, w.vars[v])
    BY <1>2, <1>4, <1>5, NewCells
  <2>4. RankedType(types[v])
    <3>1. types[v] \in Type /\ Len(types[v]) \in 0 .. MaxRank
      BY VarTypes
    <3>2. PICK n : n = Len(types[v])
      OBVIOUS
    <3>3. n \in 0 .. MaxRank
      BY <3>1, <3>2
    <3>4. n <= MaxRank
      BY <3>3 DEF MaxRank
    <3> QED
      BY <3>1, <3>2, <3>4 DEF RankedType
  <2>2. RankedType(types[v]) /\ Fits(ty, w.vars[v], types[v])
    BY <2>4 DEF StateFits
  <2>3. w.vars[v].buf \in DOMAIN name \cup {Null}
    <3>1. InVar(v) \in Roots(z) /\ Cell(z, InVar(v)) = w.vars[v]
      BY <1>2, CellIs DEF Roots
    <3> QED
      BY <1>4, <3>1 DEF Renaming
  <2> QED
    BY <1>7, <2>1, <2>2, <2>3
<1>9. AbsVars' = VarsOf(w)
  BY <1>6, <1>8 DEF AbsVars, VarsOf
<1>10. st \in Seq(Entry(DOMAIN ty)) /\ DOMAIN st = 1 .. Len(st) /\ Len(st) \in Nat
  BY DEF StackFits
<1>11. DOMAIN x.stack = DOMAIN st /\ \A i \in DOMAIN st : x.stack[i] = NewEntry(name, st[i])
  BY <1>2, <1>5 DEF After
<1>12. PICK n : n = Len(st) /\ n \in Nat /\ DOMAIN st = 1 .. n
  BY <1>10
<1>13. Len(x.stack) = n
  <2>1. x.stack = [i \in 1 .. n |-> x.stack[i]]
    BY <1>2, <1>5, <1>12 DEF After
  <2> QED
    BY <2>1, <1>12
<1>14. \A i \in 1 .. n : LET e == x.stack[i] IN
         (IF e.kind = "value"
          THEN [kind |-> "value", type |-> e.type, value |-> Tree(x.bufs, e.cell, e.type)]
          ELSE [kind |-> "reference", type |-> e.type, var |-> e.var, keys |-> e.keys]) = SeenIn(w, st[i])
  <2> SUFFICES ASSUME NEW i \in 1 .. n, NEW e, e = x.stack[i]
               PROVE  (IF e.kind = "value"
                       THEN [kind |-> "value", type |-> e.type, value |-> Tree(x.bufs, e.cell, e.type)]
                       ELSE [kind |-> "reference", type |-> e.type, var |-> e.var, keys |-> e.keys]) = SeenIn(w, st[i])
    OBVIOUS
  <2>1. PICK f : f = st[i] /\ f \in Entry(DOMAIN ty) /\ e = NewEntry(name, f)
    BY <1>10, <1>11, <1>12
  <2>2. CASE f.kind = "value"
    <3>1. f = [kind |-> "value", type |-> f.type, cell |-> f.cell]
      BY <2>1, <2>2 DEF Entry
    <3>2. e.kind = "value" /\ e.type = f.type /\ e.cell = NewCell(name, f.cell)
      BY <2>1, <2>2, <3>1 DEF NewEntry
    <3>3. RankedType(f.type) /\ Fits(ty, f.cell, f.type)
      BY <1>12, <2>1, <2>2 DEF StackFits
    <3>4. f.cell.buf \in DOMAIN name \cup {Null}
      <4>1. i \in DOMAIN z.stack /\ z.stack[i].kind = "value" /\ Cell(z, InStack(i)) = f.cell
        BY <1>2, <1>12, <2>1, <2>2, CellIs
      <4>2. InStack(i) \in Roots(z)
        BY <4>1 DEF Roots
      <4> QED
        BY <1>4, <4>1, <4>2 DEF Renaming
    <3>5. Tree(x.bufs, e.cell, e.type) = Val(w, f.cell, f.type)
      BY <1>7, <3>2, <3>3, <3>4
    <3> QED
      BY <2>1, <2>2, <3>2, <3>5 DEF SeenIn, Abstract!Value
  <2>3. CASE f.kind # "value"
    <3>1. f.kind = "address" /\ f = [kind |-> "address", type |-> f.type, at |-> f.at, use |-> f.use, var |-> f.var, keys |-> f.keys]
      BY <2>1, <2>3 DEF Entry
    <3>2. e.kind = "address" /\ e.type = f.type /\ e.var = f.var /\ e.keys = f.keys
      BY <2>1, <3>1 DEF NewEntry
    <3> QED
      BY <2>1, <2>3, <3>1, <3>2 DEF SeenIn, Abstract!Reference
  <2> QED
    BY <2>2, <2>3
<1>15. AbsStack' = StackOf(w, st)
  BY <1>6, <1>12, <1>13, <1>14 DEF AbsStack, StackOf, Depth, Seen
<1> QED
  BY <1>6, <1>9, <1>15 DEF Shows

(* The operand stack as Values sees it.                                    *)
LEMMA AbstractStack ==
  ASSUME NEW x, Shows(AbsVars, x)
  PROVE  Abstract!Stack(x)
BY DEF Shows, AbsVars, AbsStack, Abstract!Stack

LEMMA AbstractBoth ==
  ASSUME NEW v, NEW x, Shows(v, x)
  PROVE  Abstract!Both(v, x)
BY DEF Shows, AbsVars, AbsStack, Abstract!Both

LEMMA AbstractNow ==
  /\ VarsOf(Now) = AbsVars
  /\ \A e : Seen(e) = SeenIn(Now, e)
<1>1. VarsOf(Now) = AbsVars
  BY NowIs DEF VarsOf, AbsVars, Val
<1>2. ASSUME NEW e PROVE Seen(e) = SeenIn(Now, e)
  BY NowIs DEF Seen, SeenIn, Val, Abstract!Value, Abstract!Reference
<1> QED
  BY <1>1, <1>2

LEMMA AbstractDepth ==
  ASSUME NEW ty, Held(ty)
  PROVE  /\ Abstract!Depth = Depth /\ Depth \in Nat /\ DOMAIN stack = 1 .. Depth
         /\ \A i \in 1 .. Depth : AbsStack[i] = SeenIn(Now, stack[i])
<1>1. Depth \in Nat /\ DOMAIN stack = 1 .. Depth
  BY BelowZero
<1>2. Len(AbsStack) = Depth
  <2>1. PICK d : d = Depth /\ d \in Nat
    BY <1>1
  <2> QED
    BY <2>1 DEF AbsStack
<1>3. Abstract!Depth = Depth
  BY <1>2 DEF Abstract!Depth, AbsStack
<1> QED
  BY <1>1, <1>3, AbstractNow DEF AbsStack

LEMMA AbstractOperand ==
  ASSUME NEW ty, Held(ty), NEW i \in Nat
  PROVE  /\ Depth > i => Abstract!Operand(i) = SeenIn(Now, Operand(i))
         /\ Depth > i /\ Operand(i).kind = "value" => Abstract!IsValue(i)
         /\ Depth > i /\ Operand(i).kind = "address" => Abstract!IsReference(i)
<1>1. PICK d : d = Depth /\ d \in Nat /\ Abstract!Depth = d /\ \A j \in 1 .. d : AbsStack[j] = SeenIn(Now, stack[j])
  BY AbstractDepth
<1>2. ASSUME d > i
      PROVE  Abstract!Operand(i) = SeenIn(Now, Operand(i))
  <2>1. d - i \in 1 .. d
    BY <1>1, <1>2
  <2>2. Abstract!Operand(i) = AbsStack[d - i]
    BY <1>1 DEF Abstract!Operand, AbsStack
  <2> QED
    BY <1>1, <2>1, <2>2 DEF Operand
<1>3. ASSUME d > i, Operand(i).kind = "value"
      PROVE  Abstract!IsValue(i)
  BY <1>1, <1>2, <1>3 DEF Abstract!IsValue, SeenIn, Abstract!Value
<1>4. ASSUME d > i, Operand(i).kind = "address"
      PROVE  Abstract!IsReference(i)
  BY <1>1, <1>2, <1>4 DEF Abstract!IsReference, SeenIn, Abstract!Reference
<1> QED
  BY <1>1, <1>2, <1>3, <1>4

(* The values below the top n operands are what they were.                 *)
Quiet(w, n) ==
  \A i \in 1 .. Depth - n :
    stack[i].kind = "value" => Val(w, stack[i].cell, stack[i].type) = Val(Now, stack[i].cell, stack[i].type)

LEMMA StackShows ==
  ASSUME NEW ty, Held(ty), NEW w, NEW n \in 0 .. Depth, Quiet(w, n)
  PROVE  /\ StackOf(w, Below(n)) = Abstract!Below(n)
         /\ \A e : StackOf(w, Append(Below(n), e)) = Append(Abstract!Below(n), SeenIn(w, e))
<1>1. /\ Depth \in Nat /\ Len(Below(n)) = Depth - n /\ DOMAIN Below(n) = 1 .. Depth - n
      /\ \A i \in 1 .. Depth - n : Below(n)[i] = stack[i]
      /\ Below(n) \in Seq(Entry(DOMAIN ty))
  BY BelowIs DEF Held
<1>2. PICK d, e0 : d = Depth /\ d \in Nat /\ e0 = d - n /\ e0 \in Nat /\ e0 <= d
  BY <1>1
<1>3. PICK a : a = AbsStack
  OBVIOUS
<1>4. DOMAIN a = 1 .. d /\ a = [i \in 1 .. d |-> a[i]] /\ \A i \in 1 .. d : a[i] = SeenIn(Now, stack[i])
  BY <1>2, <1>3, AbstractDepth DEF AbsStack
<1>5. \A i \in 1 .. e0 : SeenIn(w, stack[i]) = SeenIn(Now, stack[i])
  BY <1>2 DEF Quiet, SeenIn
<1>6. PICK S : S = {a[i] : i \in 1 .. d}
  OBVIOUS
<1>7. a \in Seq(S) /\ Len(a) = d
  BY <1>2, <1>4, <1>6
<1>8. Abstract!Below(n) = SubSeq(a, 1, e0)
  BY <1>2, <1>3, AbstractDepth DEF Abstract!Below, AbsStack
<1>9. SubSeq(a, 1, e0) \in Seq(S) /\ Len(SubSeq(a, 1, e0)) = e0 /\ \A i \in 1 .. e0 : SubSeq(a, 1, e0)[i] = a[i]
  BY <1>2, <1>7, SubSeqProperties
<1>10. PICK b : b = Abstract!Below(n) /\ b \in Seq(S) /\ Len(b) = e0 /\ \A i \in 1 .. e0 : b[i] = SeenIn(w, stack[i])
  <2>1. \A i \in 1 .. e0 : SubSeq(a, 1, e0)[i] = SeenIn(w, stack[i])
    BY <1>2, <1>4, <1>5, <1>9
  <2> QED
    BY <1>8, <1>9, <2>1
<1>11. b = [i \in 1 .. e0 |-> SeenIn(w, stack[i])]
  BY <1>10
<1>12. StackOf(w, Below(n)) = b
  BY <1>1, <1>2, <1>11 DEF StackOf
<1>13. ASSUME NEW e
       PROVE  StackOf(w, Append(Below(n), e)) = Append(b, SeenIn(w, e))
  <2>1. PICK f, g : f = Append(Below(n), e) /\ g = Append(b, SeenIn(w, e))
    OBVIOUS
  <2>2. /\ Len(f) = e0 + 1 /\ f[e0 + 1] = e /\ \A i \in 1 .. e0 : f[i] = stack[i]
    <3>1. PICK c : c = Below(n) /\ c \in Seq(Entry(DOMAIN ty)) /\ Len(c) = e0 /\ \A i \in 1 .. e0 : c[i] = stack[i]
      BY <1>1, <1>2
    <3>2. c \in Seq(Entry(DOMAIN ty) \cup {e})
      BY <3>1
    <3> QED
      BY <1>2, <2>1, <3>1, <3>2, AppendProperties
  <2>3. /\ g = [i \in 1 .. e0 + 1 |-> g[i]] /\ g[e0 + 1] = SeenIn(w, e) /\ \A i \in 1 .. e0 : g[i] = b[i]
    <3>1. PICK x, X : x = SeenIn(w, e) /\ X = S \cup {x}
      OBVIOUS
    <3>2. b \in Seq(X) /\ x \in X
      BY <1>10, <3>1
    <3>3. g \in Seq(X) /\ Len(g) = e0 + 1 /\ g[e0 + 1] = x /\ \A i \in 1 .. e0 : g[i] = b[i]
      BY <1>10, <2>1, <3>1, <3>2, AppendProperties
    <3> QED
      BY <3>1, <3>3
  <2>4. \A i \in 1 .. e0 + 1 : g[i] = SeenIn(w, f[i])
    <3>1. \A i \in 1 .. e0 + 1 : i \in 1 .. e0 \/ i = e0 + 1
      BY <1>2
    <3> QED
      BY <1>10, <2>2, <2>3, <3>1
  <2> QED
    BY <2>1, <2>2, <2>3, <2>4 DEF StackOf
<1> QED
  BY <1>10, <1>12, <1>13

LEMMA ShowsBelow ==
  ASSUME NEW ty, Held(ty), NEW ty2, NEW w, StateFits(ty2, w), MoreOf(ty, ty2), NEW n \in 0 .. Depth, Quiet(w, n),
         With(w, Below(n))
  PROVE  Shows(VarsOf(w), Abstract!Below(n))
<1>1. Calm(ty, ty, Now, n)
  BY CalmNow
<1>2. StackFits(ty, Below(n)) /\ TypesFit
  BY <1>1, AfterBelow DEF Settled, Held
<1>3. StackFits(ty2, Below(n))
  BY <1>2, MoreStack
<1>4. Shows(VarsOf(w), StackOf(w, Below(n)))
  BY <1>2, <1>3, BecomeShows
<1> QED
  BY <1>4, StackShows

LEMMA PushFits ==
  ASSUME NEW ty, NEW st, StackFits(ty, st), NEW e \in Entry(DOMAIN ty), RankedType(e.type),
         e.kind = "value" => Fits(ty, e.cell, e.type)
  PROVE  StackFits(ty, Append(st, e))
<1>1. PICK d : d = Len(st) /\ d \in Nat /\ DOMAIN st = 1 .. d /\ st \in Seq(Entry(DOMAIN ty))
  BY DEF StackFits
<1>2. PICK x : x = Append(st, e)
  OBVIOUS
<1>3. x \in Seq(Entry(DOMAIN ty)) /\ Len(x) = d + 1 /\ (\A i \in 1 .. d : x[i] = st[i]) /\ x[d + 1] = e
  BY <1>1, <1>2, AppendProperties
<1>4. \A i \in DOMAIN x : i \in 1 .. d \/ i = d + 1
  BY <1>1, <1>3
<1> QED
  BY <1>1, <1>2, <1>3, <1>4 DEF StackFits

LEMMA ShowsPush ==
  ASSUME NEW ty, Held(ty), NEW ty2, NEW w, StateFits(ty2, w), MoreOf(ty, ty2), NEW n \in 0 .. Depth, Quiet(w, n),
         NEW e \in Entry(DOMAIN ty2), RankedType(e.type), e.kind = "value" => Fits(ty2, e.cell, e.type),
         With(w, Append(Below(n), e))
  PROVE  Shows(VarsOf(w), Append(Abstract!Below(n), SeenIn(w, e)))
<1>1. Calm(ty, ty, Now, n)
  BY CalmNow
<1>2. StackFits(ty, Below(n)) /\ TypesFit
  BY <1>1, AfterBelow DEF Settled, Held
<1>3. StackFits(ty2, Below(n))
  BY <1>2, MoreStack
<1>4. StackFits(ty2, Append(Below(n), e))
  BY <1>3, PushFits
<1>5. Shows(VarsOf(w), StackOf(w, Append(Below(n), e)))
  BY <1>2, <1>4, BecomeShows
<1>6. StackOf(w, Append(Below(n), e)) = Append(Abstract!Below(n), SeenIn(w, e))
  BY StackShows
<1> QED
  BY <1>5, <1>6

LEMMA QuietMore ==
  ASSUME NEW ty, Held(ty), NEW w, NEW n \in 0 .. Depth, Quiet(w, n), NEW m \in n .. Depth
  PROVE  Quiet(w, m) /\ m \in 0 .. Depth
<1>1. PICK d : d = Depth /\ d \in Nat
  BY BelowZero
<1>2. m \in 0 .. d /\ \A i \in 1 .. d - m : i \in 1 .. d - n
  BY <1>1
<1> QED
  BY <1>1, <1>2 DEF Quiet

LEMMA ShowsRaise ==
  ASSUME NEW ty, Held(ty), NEW ty2, NEW w, StateFits(ty2, w), MoreOf(ty, ty2), NEW n \in 0 .. Depth, Quiet(w, n),
         VarsOf(w) = AbsVars, Raise(w, n)
  PROVE  Abstract!Raise(n)
<1>1. PICK m \in n .. Depth : With(w, Below(m))
  BY DEF Raise
<1>2. Quiet(w, m) /\ m \in 0 .. Depth
  BY QuietMore
<1>3. Shows(AbsVars, Abstract!Below(m))
  BY <1>1, <1>2, ShowsBelow
<1>4. Abstract!Stack(Abstract!Below(m))
  BY <1>3, AbstractStack
<1>5. m \in n .. Abstract!Depth
  BY AbstractDepth
<1> QED
  BY <1>4, <1>5 DEF Abstract!Raise

LEMMA QuietNow == \A n : Quiet(Now, n)
BY DEF Quiet

(* An operation that changes no value.                                     *)
LEMMA SameShows ==
  ASSUME NEW ty, Held(ty), NEW w, Same(ty, Now, w)
  PROVE  /\ VarsOf(w) = AbsVars
         /\ \A n \in 0 .. Depth : (\A i \in 1 .. Depth - n : i \in DOMAIN w.stack /\ w.stack[i] = stack[i]) => Quiet(w, n)
<1>1. \A v \in Vars : Val(w, w.vars[v], types[v]) = Val(Now, vars[v], types[v])
  <2> SUFFICES ASSUME NEW v \in Vars PROVE Val(w, w.vars[v], types[v]) = Val(Now, vars[v], types[v])
    OBVIOUS
  <2>1. PlaceAt(ty, Now, InVar(v), types[v])
    BY DEF PlaceAt
  <2>2. Val(w, Cell(w, InVar(v)), types[v]) = Val(Now, Cell(Now, InVar(v)), types[v])
    BY <2>1 DEF Same
  <2> QED
    BY <2>2, CellIs, NowIs
<1>2. VarsOf(w) = AbsVars
  BY <1>1, NowIs DEF VarsOf, AbsVars, Val
<1>3. ASSUME NEW n \in 0 .. Depth, \A i \in 1 .. Depth - n : i \in DOMAIN w.stack /\ w.stack[i] = stack[i],
             NEW i \in 1 .. Depth - n, stack[i].kind = "value"
      PROVE  Val(w, stack[i].cell, stack[i].type) = Val(Now, stack[i].cell, stack[i].type)
  <2>1. PICK d : d = Depth /\ d \in Nat /\ DOMAIN stack = 1 .. d
    BY BelowZero
  <2>2. i \in DOMAIN Now.stack /\ Now.stack[i] = stack[i]
    BY <2>1, NowIs
  <2>3. PlaceAt(ty, Now, InStack(i), stack[i].type)
    BY <1>3, <2>2 DEF PlaceAt
  <2>4. Val(w, Cell(w, InStack(i)), stack[i].type) = Val(Now, Cell(Now, InStack(i)), stack[i].type)
    BY <2>3 DEF Same
  <2>5. w.stack[i] = stack[i]
    BY <1>3
  <2> QED
    BY <2>2, <2>4, <2>5, CellIs
<1> QED
  BY <1>2, <1>3 DEF Quiet

-----------------------------------------------------------------------------
(* Each instruction has the effect that Values gives it.                   *)

LEMMA AbstractBelowZero ==
  ASSUME NEW ty, Held(ty)
  PROVE  Abstract!Below(0) = AbsStack
<1>1. Below(0) = stack /\ 0 \in 0 .. Depth
  BY BelowZero
<1>2. StackOf(Now, stack) = Abstract!Below(0)
  BY <1>1, QuietNow, StackShows
<1>3. StackOf(Now, stack) = AbsStack
  BY AbstractNow DEF StackOf, AbsStack, Depth
<1> QED
  BY <1>2, <1>3

LEMMA AbstractPush ==
  ASSUME NEW ty, Held(ty), NEW x, Depth < MaxStack, Shows(AbsVars, Append(Abstract!Below(0), x))
  PROVE  Abstract!Push(x)
<1>1. Shows(AbsVars, Append(AbsStack, x))
  BY AbstractBelowZero
<1>2. Abstract!Stack(Append(AbsStack, x))
  BY <1>1, AbstractStack
<1>3. Abstract!Depth < MaxStack
  BY AbstractDepth
<1> QED
  BY <1>2, <1>3 DEF Abstract!Push, AbsStack

LEMMA PushShows ==
  ASSUME NEW ty, Held(ty), NEW e \in Entry(DOMAIN ty), RankedType(e.type),
         e.kind = "value" => Fits(ty, e.cell, e.type), Push(Now, e)
  PROVE  Abstract!Push(SeenIn(Now, e))
<1>1. Below(0) = stack /\ 0 \in 0 .. Depth
  BY BelowZero
<1>2. With(Now, Append(Below(0), e))
  BY <1>1, NowIs DEF Push
<1>3. StateFits(ty, Now) /\ MoreOf(ty, ty)
  BY DEF Held, MoreOf
<1>4. Shows(VarsOf(Now), Append(Abstract!Below(0), SeenIn(Now, e)))
  BY <1>1, <1>2, <1>3, QuietNow, ShowsPush
<1>5. Depth < MaxStack
  BY DEF Push
<1> QED
  BY <1>4, <1>5, AbstractNow, AbstractPush

LEMMA PushAddressShows ==
  ASSUME NEW ty, Held(ty), PushAddress
  PROVE  Abstract!PushReference
<1>1. PICK v \in Vars : Push(Now, Address(types[v], InVar(v), "read", v, << >>))
  BY DEF PushAddress
<1>2. PICK e : e = Address(types[v], InVar(v), "read", v, << >>)
  OBVIOUS
<1>3. e = [kind |-> "address", type |-> types[v], at |-> InVar(v), use |-> "read", var |-> v, keys |-> << >>]
  BY <1>2 DEF Address
<1>4. RankedType(types[v]) /\ types[v] \in Type
  <2>1. InVar(v) \in Places(Now) /\ PlaceAt(ty, Now, InVar(v), types[v])
    BY DEF PlaceAt, Places, Roots
  <2> QED
    BY <2>1, PlaceAtFits DEF Held, RankedType
<1>5. e \in Entry(DOMAIN ty)
  <2>1. InVar(v) \in PlaceSet(DOMAIN ty) /\ << >> \in Seq(Nat)
    BY DEF PlaceSet
  <2>2. PICK p, k : p = InVar(v) /\ k = << >> /\ p \in PlaceSet(DOMAIN ty) /\ k \in Seq(Nat)
    BY <2>1
  <2>3. e = [kind |-> "address", type |-> types[v], at |-> p, use |-> "read", var |-> v, keys |-> k]
    BY <1>3, <2>2
  <2> QED
    BY <2>2, <2>3, <1>4 DEF Entry
<1>6. e.kind = "address" /\ e.type = types[v] /\ e.var = v /\ e.keys = << >>
  BY <1>3
<1>7. Abstract!Push(SeenIn(Now, e))
  BY <1>1, <1>2, <1>4, <1>5, <1>6, PushShows
<1>8. SeenIn(Now, e) = Abstract!Reference(types[v], v, << >>)
  BY <1>6 DEF SeenIn
<1> QED
  BY <1>7, <1>8 DEF Abstract!PushReference

LEMMA NumberSeen ==
  ASSUME NEW s, NEW n
  PROVE  SeenIn(s, Value(<< >>, Number(n))) = Abstract!Value(<< >>, n)
<1>1. PICK e : e = Value(<< >>, Number(n))
  OBVIOUS
<1>2. e.kind = "value" /\ e.type = << >> /\ e.cell = Number(n)
  BY <1>1 DEF Value
<1>3. Val(s, Number(n), << >>) = n
  <2>1. << >> \in Type /\ Len(<< >>) <= MaxRank /\ ~IsContainer(<< >>)
    BY DEF Type, MaxRank, IsContainer
  <2> QED
    BY <2>1, ValBlank, CellFacts
<1> QED
  BY <1>1, <1>2, <1>3 DEF SeenIn

LEMMA PushNumberShows ==
  ASSUME NEW ty, Held(ty), PushNumber
  PROVE  Abstract!PushNumber
<1>1. PICK n \in Numbers : Push(Now, Value(<< >>, Number(n)))
  BY DEF PushNumber
<1>2. n \in Nat
  BY BoundAssumption DEF Numbers
<1>3. PICK e : e = Value(<< >>, Number(n))
  OBVIOUS
<1>4. /\ e \in Entry(DOMAIN ty) /\ RankedType(e.type) /\ e.kind = "value" /\ Fits(ty, e.cell, e.type)
  BY <1>2, <1>3, NumberEntry DEF Held
<1>5. Abstract!Push(SeenIn(Now, e))
  BY <1>1, <1>3, <1>4, PushShows
<1>6. Abstract!Push(Abstract!Value(<< >>, n))
  BY <1>3, <1>5, NumberSeen
<1>7. n \in Abstract!Numbers
  BY DEF Abstract!Numbers, Numbers
<1> QED
  BY <1>6, <1>7 DEF Abstract!PushNumber

LEMMA PushParameterShows ==
  ASSUME NEW ty, Held(ty), PushParameter
  PROVE  Abstract!PushParameter
<1>1. PICK i \in 0 .. Depth - 1 : IsAddress(i) /\ Push(Now, Operand(i))
  BY DEF PushParameter
<1>2. i \in Nat /\ Depth \in Nat
  BY BelowZero
<1>3. /\ Operand(i) \in Entry(DOMAIN ty) /\ Operand(i).kind = "address" /\ RankedType(Operand(i).type)
  BY <1>1, <1>2, AddressOperand
<1>4. Abstract!Push(SeenIn(Now, Operand(i)))
  BY <1>1, <1>3, PushShows
<1>5. Abstract!IsReference(i) /\ Abstract!Operand(i) = SeenIn(Now, Operand(i))
  BY <1>1, <1>2, <1>3, AbstractOperand DEF IsAddress
<1>6. i \in 0 .. Abstract!Depth - 1
  BY AbstractDepth
<1> QED
  BY <1>4, <1>5, <1>6 DEF Abstract!PushParameter

LEMMA DuplicateShows ==
  ASSUME NEW ty, Held(ty), Duplicate
  PROVE  Abstract!Duplicate
<1>1. /\ Operand(0) \in Entry(DOMAIN ty) /\ Operand(0).kind = "value" /\ RankedType(Operand(0).type)
      /\ Fits(ty, Operand(0).cell, Operand(0).type)
  BY ValueOperand DEF Duplicate
<1>2. Abstract!Push(SeenIn(Now, Operand(0)))
  BY <1>1, PushShows DEF Duplicate
<1>3. Abstract!IsValue(0) /\ Abstract!Operand(0) = SeenIn(Now, Operand(0))
  BY <1>1, AbstractOperand DEF Duplicate, IsValue
<1> QED
  BY <1>2, <1>3 DEF Abstract!Duplicate

LEMMA DropShows ==
  ASSUME NEW ty, Held(ty), Drop
  PROVE  Abstract!Drop
<1>1. Depth \in Nat
  BY BelowZero
<1>2. 1 \in 0 .. Depth
  BY <1>1 DEF Drop
<1>3. StateFits(ty, Now) /\ MoreOf(ty, ty)
  BY DEF Held, MoreOf
<1>4. Shows(VarsOf(Now), Abstract!Below(1))
  BY <1>2, <1>3, QuietNow, ShowsBelow DEF Drop
<1>5. Abstract!Stack(Abstract!Below(1))
  BY <1>4, AbstractNow, AbstractStack
<1>6. Abstract!Depth > 0
  BY AbstractDepth DEF Drop
<1> QED
  BY <1>5, <1>6 DEF Abstract!Drop

(* Contents, as Values sees them, and what the operations make of them.    *)
Shown(s, f, u) == [k \in DOMAIN f |-> Val(s, f[k], u)]

LEMMA SizeAgrees ==
  ASSUME NEW f
  PROVE  Abstract!Size(f) = Cardinality(DOMAIN f)
<1>1. ASSUME NEW D PROVE Abstract!Cardinality(D) = Cardinality(D)
  BY DEF Abstract!Cardinality, Cardinality
<1> QED
  BY <1>1 DEF Abstract!Size

LEMMA ShownIs ==
  ASSUME NEW s, NEW f, NEW u
  PROVE  /\ DOMAIN Shown(s, f, u) = DOMAIN f
         /\ \A k \in DOMAIN f : Shown(s, f, u)[k] = Val(s, f[k], u)
         /\ Abstract!Size(Shown(s, f, u)) = Size(f)
<1> DEFINE F(c) == Val(s, c, u)
<1>1. Shown(s, f, u) = [k \in DOMAIN f |-> F(f[k])]
  BY DEF Shown
<1> HIDE DEF F
<1>2. PICK v : v = Shown(s, f, u)
  OBVIOUS
<1>3. DOMAIN v = DOMAIN f
  BY <1>1, <1>2
<1>4. \A k \in DOMAIN f : v[k] = F(f[k])
  BY <1>1, <1>2
<1>5. Abstract!Size(v) = Size(f)
  BY <1>3, SizeAgrees DEF Size
<1> QED
  BY <1>2, <1>3, <1>4, <1>5 DEF F

LEMMA ContainersAgree ==
  /\ \A t : /\ Abstract!IsContainer(t) <=> IsContainer(t)
            /\ Abstract!IsArray(t) <=> IsArray(t)
            /\ Abstract!Element(t) = Element(t)
  /\ \A d : Abstract!ContainerTypes(d) = ContainerTypes(d)
  /\ \A t, keys : Abstract!Subscripts(t, keys) = Subscripts(t, keys)
  /\ Abstract!NoIndex = NoIndex /\ Abstract!Keys = Keys
<1>1. ASSUME NEW t
      PROVE  /\ Abstract!IsContainer(t) <=> IsContainer(t)
             /\ Abstract!IsArray(t) <=> IsArray(t)
             /\ Abstract!Element(t) = Element(t)
  BY DEF Abstract!IsContainer, IsContainer, Abstract!IsArray, IsArray, Abstract!Element, Element
<1>2. ASSUME NEW d PROVE Abstract!ContainerTypes(d) = ContainerTypes(d)
  BY DEF Abstract!ContainerTypes, ContainerTypes
<1>3. ASSUME NEW t, NEW keys PROVE Abstract!Subscripts(t, keys) = Subscripts(t, keys)
  BY <1>1 DEF Abstract!Subscripts, Subscripts, Abstract!NoIndex, NoIndex
<1>4. Abstract!NoIndex = NoIndex /\ Abstract!Keys = Keys
  BY DEF Abstract!NoIndex, NoIndex, Abstract!Keys, Keys
<1> QED
  BY <1>1, <1>2, <1>3, <1>4

LEMMA BlankVal ==
  ASSUME NEW s, NEW u \in Type, Len(u) <= MaxRank
  PROVE  Val(s, None, u) = Abstract!Blank(u)
BY ValBlank, CellFacts, ContainersAgree DEF Abstract!Blank

LEMMA GrownShown ==
  ASSUME NEW s, NEW f, NEW t, NEW u \in Type, Len(u) <= MaxRank, NEW key
  PROVE  Abstract!Grown(Shown(s, f, u), t, key, Abstract!Blank(u)) = Shown(s, Grown(f, t, key, None), u)
<1>1. PICK y : y = Abstract!Blank(u) /\ Val(s, None, u) = y
  BY BlankVal
<1>2. PICK D : D = DOMAIN f \cup (IF IsArray(t) THEN 0 .. key ELSE {key})
  OBVIOUS
<1>3. PICK v : /\ v = Shown(s, f, u) /\ DOMAIN v = DOMAIN f /\ Abstract!Size(v) = Size(f)
               /\ \A k \in DOMAIN f : v[k] = Val(s, f[k], u)
  BY ShownIs
<1>4. Abstract!Grown(v, t, key, y) = [k \in D |-> IF k \in DOMAIN f THEN v[k] ELSE y]
  BY <1>2, <1>3, ContainersAgree DEF Abstract!Grown
<1>5. Grown(f, t, key, None) = [k \in D |-> IF k \in DOMAIN f THEN f[k] ELSE None]
  BY <1>2 DEF Grown
<1>6. Shown(s, Grown(f, t, key, None), u) = [k \in D |-> Val(s, IF k \in DOMAIN f THEN f[k] ELSE None, u)]
  BY <1>5 DEF Shown
<1>7. \A k \in D : Val(s, IF k \in DOMAIN f THEN f[k] ELSE None, u) = IF k \in DOMAIN f THEN v[k] ELSE y
  BY <1>1, <1>3
<1> QED
  BY <1>1, <1>3, <1>4, <1>6, <1>7

LEMMA AppendedShown ==
  ASSUME NEW s, NEW f, NEW x, NEW u
  PROVE  Abstract!Appended(Shown(s, f, u), Val(s, x, u)) = Shown(s, Appended(f, x), u)
<1>1. PICK y : y = Val(s, x, u)
  OBVIOUS
<1>2. PICK v : /\ v = Shown(s, f, u) /\ DOMAIN v = DOMAIN f /\ Abstract!Size(v) = Size(f)
               /\ \A k \in DOMAIN f : v[k] = Val(s, f[k], u)
  BY ShownIs
<1>3. PICK D : D = 0 .. Size(f) /\ D = 0 .. Abstract!Size(v)
  BY <1>2
<1>4. Abstract!Appended(v, y) = [k \in D |-> IF k \in DOMAIN f THEN v[k] ELSE y]
  BY <1>2, <1>3 DEF Abstract!Appended
<1>5. Appended(f, x) = [k \in D |-> IF k \in DOMAIN f THEN f[k] ELSE x]
  BY <1>3 DEF Appended
<1>6. Shown(s, Appended(f, x), u) = [k \in D |-> Val(s, IF k \in DOMAIN f THEN f[k] ELSE x, u)]
  BY <1>5 DEF Shown
<1>7. \A k \in D : Val(s, IF k \in DOMAIN f THEN f[k] ELSE x, u) = IF k \in DOMAIN f THEN v[k] ELSE y
  BY <1>1, <1>2
<1> QED
  BY <1>1, <1>2, <1>4, <1>6, <1>7

LEMMA ResizedShown ==
  ASSUME NEW s, NEW f, NEW u \in Type, Len(u) <= MaxRank, NEW n
  PROVE  Abstract!Resized(Shown(s, f, u), n, Abstract!Blank(u)) = Shown(s, Resized(f, n, None), u)
<1>1. PICK y : y = Abstract!Blank(u) /\ Val(s, None, u) = y
  BY BlankVal
<1>2. PICK v : /\ v = Shown(s, f, u) /\ DOMAIN v = DOMAIN f /\ Abstract!Size(v) = Size(f)
               /\ \A k \in DOMAIN f : v[k] = Val(s, f[k], u)
  BY ShownIs
<1>3. PICK D : D = 0 .. n - 1
  OBVIOUS
<1>4. Abstract!Resized(v, n, y) = [k \in D |-> IF k \in DOMAIN f THEN v[k] ELSE y]
  BY <1>2, <1>3 DEF Abstract!Resized
<1>5. Resized(f, n, None) = [k \in D |-> IF k \in DOMAIN f THEN f[k] ELSE None]
  BY <1>3 DEF Resized
<1>6. Shown(s, Resized(f, n, None), u) = [k \in D |-> Val(s, IF k \in DOMAIN f THEN f[k] ELSE None, u)]
  BY <1>5 DEF Shown
<1>7. \A k \in D : Val(s, IF k \in DOMAIN f THEN f[k] ELSE None, u) = IF k \in DOMAIN f THEN v[k] ELSE y
  BY <1>1, <1>2
<1> QED
  BY <1>1, <1>2, <1>4, <1>6, <1>7

LEMMA RemovedShown ==
  ASSUME NEW ty, NEW s, NEW t, NEW f, ContentsFit(ty, f, t), NEW u, NEW key \in Nat, key \in DOMAIN f \/ ~IsArray(t)
  PROVE  Abstract!Removed(Shown(s, f, u), t, key) = Shown(s, Removed(f, t, key), u)
<1>1. PICK v : /\ v = Shown(s, f, u) /\ DOMAIN v = DOMAIN f /\ Abstract!Size(v) = Size(f)
               /\ \A k \in DOMAIN f : v[k] = Val(s, f[k], u)
  BY ShownIs
<1>2. CASE IsArray(t)
  <2>1. PICK n \in Nat : DOMAIN f = 0 .. (n - 1) /\ Size(f) = n
    BY <1>2, ArraySize DEF ContentsFit
  <2>2. key \in 0 .. (n - 1)
    BY <1>2, <2>1
  <2>3. PICK D : D = 0 .. n - 2 /\ D = 0 .. Abstract!Size(v) - 2
    BY <1>1, <2>1
  <2>4. \A k \in D : (IF k < key THEN k ELSE k + 1) \in DOMAIN f
    BY <2>1, <2>2, <2>3
  <2>5. Abstract!Removed(v, t, key) = [k \in D |-> v[IF k < key THEN k ELSE k + 1]]
    BY <1>1, <1>2, <2>3, ContainersAgree DEF Abstract!Removed
  <2>6. Removed(f, t, key) = [k \in D |-> f[IF k < key THEN k ELSE k + 1]]
    BY <1>2, <2>1, <2>3 DEF Removed
  <2>7. Shown(s, Removed(f, t, key), u) = [k \in D |-> Val(s, f[IF k < key THEN k ELSE k + 1], u)]
    BY <2>6 DEF Shown
  <2>8. \A k \in D : Val(s, f[IF k < key THEN k ELSE k + 1], u) = v[IF k < key THEN k ELSE k + 1]
    BY <1>1, <2>4
  <2> QED
    BY <1>1, <2>5, <2>7, <2>8
<1>3. CASE ~IsArray(t)
  <2>1. Abstract!Removed(v, t, key) = [k \in DOMAIN f \ {key} |-> v[k]]
    BY <1>1, <1>3, ContainersAgree DEF Abstract!Removed
  <2>2. Removed(f, t, key) = [k \in DOMAIN f \ {key} |-> f[k]]
    BY <1>3 DEF Removed
  <2>3. Shown(s, Removed(f, t, key), u) = [k \in DOMAIN f \ {key} |-> Val(s, f[k], u)]
    BY <2>2 DEF Shown
  <2> QED
    BY <1>1, <2>1, <2>3
<1> QED
  BY <1>2, <1>3

(* A vector or map more changes no value.                                  *)
LEMMA MoreBufsVal ==
  ASSUME NEW ty, NEW s, StateFits(ty, s), NEW w, \A b \in DOMAIN s.bufs : b \in DOMAIN w.bufs /\ w.bufs[b] = s.bufs[b],
         NEW x, NEW u, RankedType(u), Fits(ty, x, u)
  PROVE  Val(w, x, u) = Val(s, x, u)
<1>1. DOMAIN ty = DOMAIN s.bufs /\ Null \notin DOMAIN ty
  BY DEF StateFits, BufsFit
<1>2. ASSUME NEW b \in DOMAIN s.bufs, NEW k \in DOMAIN s.bufs[b]
      PROVE  s.bufs[b][k].buf \in DOMAIN s.bufs \cup {Null}
  <2>1. ContentsFit(ty, s.bufs[b], ty[b])
    BY <1>1 DEF StateFits, BufsFit
  <2>2. Fits(ty, s.bufs[b][k], Element(ty[b]))
    BY <2>1 DEF ContentsFit
  <2> QED
    BY <1>1, <2>2, FitsFacts
<1>3. Alike(s, w, DOMAIN s.bufs)
  BY <1>1, <1>2 DEF Alike
<1>4. x.buf \in DOMAIN s.bufs \cup {Null}
  BY <1>1, FitsFacts
<1> QED
  BY <1>3, <1>4, AlikeVal DEF RankedType

LEMMA ConsedShows ==
  ASSUME NEW ty, Held(ty), NEW t \in Type, RankedType(t), IsContainer(t), NEW f, ContentsFit(ty, f, t)
  PROVE  LET w == Consed(t, f)
         IN  /\ VarsOf(w) = AbsVars /\ Quiet(w, 0) /\ w.stack[Depth + 1].type = t
             /\ Val(w, w.stack[Depth + 1].cell, t) = Shown(Now, f, Element(t))
<1> DEFINE e0 == Value(t, None)
           st == Append(stack, e0)
           s == [Now EXCEPT !.stack = st]
           p == InStack(Depth + 1)
           w == Made(s, p, f)
<1>1. /\ Depth \in Nat /\ DOMAIN stack = 1 .. Depth /\ stack \in Seq(Entry(DOMAIN ty)) /\ Len(stack) = Depth
      /\ TypesFit /\ StateFits(ty, Now) /\ StackFits(ty, stack) /\ Null \notin DOMAIN ty
  BY BelowZero, BufsExist DEF Held, StateFits, StackFits, Now, Depth
<1>2. e0.kind = "value" /\ e0.type = t /\ RankedType(e0.type) /\ Fits(ty, e0.cell, e0.type) /\ e0 \in Entry(DOMAIN ty)
  <2>1. Fits(ty, None, t)
    BY NoneFits
  <2>2. e0.type = t
    BY DEF Value
  <2> QED
    BY <1>1, <2>1, <2>2, ValueEntry
<1> HIDE DEF e0
<1>3. /\ st \in Seq(Entry(DOMAIN ty)) /\ DOMAIN st = 1 .. (Depth + 1) /\ st[Depth + 1] = e0
      /\ \A i \in 1 .. Depth : st[i] = stack[i]
  BY <1>1, <1>2, AppendProperties
<1>4. StackFits(ty, st)
  BY <1>1, <1>2, PushFits
<1> HIDE DEF st
<1>5. StateFits(ty, s) /\ s.vars = Now.vars /\ s.stack = st /\ s.bufs = Now.bufs
  BY <1>1, <1>4, RestackFits
<1> HIDE DEF s
<1>6. Depth + 1 \in DOMAIN s.stack /\ s.stack[Depth + 1].kind = "value" /\ s.stack[Depth + 1].type = t
  BY <1>1, <1>2, <1>3, <1>5
<1>7. PlaceAt(ty, s, p, t)
  BY <1>6 DEF PlaceAt
<1>8. f = [k \in DOMAIN f |-> f[k]]
  BY DEF ContentsFit
<1>9. PICK b, g, m : Anew(s, w, p, t, f, b, g, m)
  BY <1>1, <1>5, <1>7, <1>8, MadeIs
<1> HIDE DEF w
<1>10. /\ Wrote(s, w, p, Shared(b), g, m) /\ DOMAIN g = {b} /\ b \notin DOMAIN s.bufs
       /\ Val(w, Shared(b), t) = [k \in DOMAIN f |-> Val(w, f[k], Element(t))]
  BY <1>9 DEF Anew
<1>11. \A d, k : p # InBuf(d, k)
  BY DEF InStack, InBuf
<1>12. \A v : p # InVar(v)
  BY DEF InStack, InVar
<1>13. ASSUME NEW d \in DOMAIN s.bufs
       PROVE  d \in DOMAIN w.bufs /\ w.bufs[d] = s.bufs[d]
  <2>1. d \in DOMAIN w.bufs /\ w.bufs[d] = [k \in DOMAIN s.bufs[d] |-> s.bufs[d][k]]
    BY <1>10, <1>11 DEF Wrote
  <2>2. Shaped(s)
    BY <1>5, FitsShaped
  <2> QED
    BY <2>1, <2>2 DEF Shaped
<1>14. ASSUME NEW x, NEW u, RankedType(u), Fits(ty, x, u)
       PROVE  Val(w, x, u) = Val(Now, x, u)
  <2>1. Val(w, x, u) = Val(s, x, u)
    BY <1>5, <1>13, <1>14, MoreBufsVal
  <2> QED
    BY <2>1, <1>5 DEF Val
<1>15. \A v \in Vars : w.vars[v] = vars[v]
  BY <1>5, <1>10, <1>12, NowIs DEF Wrote
<1>16. \A v \in Vars : Val(w, w.vars[v], types[v]) = Val(Now, vars[v], types[v])
  <2> SUFFICES ASSUME NEW v \in Vars PROVE Val(w, vars[v], types[v]) = Val(Now, vars[v], types[v])
    BY <1>15
  <2>1. PlaceAt(ty, Now, InVar(v), types[v])
    BY DEF PlaceAt
  <2>2. RankedType(types[v]) /\ Fits(ty, Cell(Now, InVar(v)), types[v])
    BY <1>1, <2>1, PlaceAtFits
  <2> QED
    BY <1>14, <2>2, CellIs, NowIs
<1>17. VarsOf(w) = AbsVars
  BY <1>16, NowIs DEF VarsOf, AbsVars, Val
<1>18. Quiet(w, 0)
  <2>1. \A i \in 1 .. Depth : RankedType(stack[i].type) /\ (stack[i].kind = "value" => Fits(ty, stack[i].cell, stack[i].type))
    BY <1>1 DEF StackFits
  <2>2. Depth - 0 = Depth
    BY <1>1
  <2> QED
    BY <1>14, <2>1, <2>2 DEF Quiet
<1>19. w.stack[Depth + 1].cell = Shared(b) /\ w.stack[Depth + 1].type = t
  <2>1. w.stack[Depth + 1] = [s.stack[Depth + 1] EXCEPT !.cell = Shared(b)]
    BY <1>6, <1>10 DEF Wrote
  <2>2. s.stack[Depth + 1] = [kind |-> "value", type |-> t, cell |-> None]
    BY <1>3, <1>5 DEF e0, Value
  <2> QED
    BY <2>1, <2>2
<1>20. Element(t) \in Type /\ RankedType(Element(t))
  <2>1. Element(t) \in Type /\ Len(Element(t)) = Len(t) - 1 /\ Len(t) \in Nat
    BY TypeFacts
  <2>2. Len(t) <= 2
    BY DEF RankedType, MaxRank
  <2>3. Len(Element(t)) <= 2
    BY <2>1, <2>2
  <2> QED
    BY <2>1, <2>3 DEF RankedType, MaxRank
<1>21. Val(w, Shared(b), t) = Shown(Now, f, Element(t))
  <2>1. \A k \in DOMAIN f : Fits(ty, f[k], Element(t))
    BY DEF ContentsFit
  <2>2. \A k \in DOMAIN f : Val(w, f[k], Element(t)) = Val(Now, f[k], Element(t))
    BY <1>14, <1>20, <2>1
  <2> QED
    BY <1>10, <2>2 DEF Shown
<1>22. w = Consed(t, f)
  BY DEF w, s, st, e0, p, Consed
<1> QED
  BY <1>17, <1>18, <1>19, <1>21, <1>22

LEMMA EmptyShown ==
  ASSUME NEW s, NEW u
  PROVE  Shown(s, << >>, u) = << >>
<1>1. DOMAIN << >> = {}
  OBVIOUS
<1>2. PICK v : v = Shown(s, << >>, u)
  OBVIOUS
<1>3. v = [k \in {} |-> v[k]]
  BY <1>1, <1>2 DEF Shown
<1> QED
  BY <1>2, <1>3

LEMMA ValueShows ==
  ASSUME NEW ty, Held(ty), NEW ty2, NEW w, NEW e, NEW t, NEW v, NEW n \in 0 .. Depth,
         StateFits(ty2, w), MoreOf(ty, ty2), Quiet(w, n), VarsOf(w) = AbsVars,
         e \in Entry(DOMAIN ty2), e.kind = "value", RankedType(e.type), Fits(ty2, e.cell, e.type), e.type = t,
         Val(w, e.cell, t) = v, With(w, Append(Below(n), e))
  PROVE  Abstract!Stack(Append(Abstract!Below(n), Abstract!Value(t, v)))
<1>1. Shows(VarsOf(w), Append(Abstract!Below(n), SeenIn(w, e)))
  BY ShowsPush
<1>2. SeenIn(w, e) = Abstract!Value(t, v)
  BY DEF SeenIn
<1> QED
  BY <1>1, <1>2, AbstractStack

LEMMA LiteralShows ==
  ASSUME NEW ty, Held(ty), Literal
  PROVE  Abstract!Literal
<1>1. TypesFit /\ Below(0) = stack /\ 0 \in 0 .. Depth /\ Depth \in Nat /\ DOMAIN stack = 1 .. Depth
  BY BelowZero DEF Held
<1>2. ASSUME NEW t \in ContainerTypes(types), Depth < MaxStack,
             With(Consed(t, << >>), Append(stack, Consed(t, << >>).stack[Depth + 1]))
      PROVE  Abstract!Literal
  <2>1. RankedType(t) /\ t \in Type /\ IsContainer(t)
    BY <1>1, ContainerTypesAre
  <2>2. ContentsFit(ty, << >>, t) /\ DOMAIN << >> = {}
    BY EmptyFits
  <2> DEFINE w == Consed(t, << >>)
             e == w.stack[Depth + 1]
  <2>3. PICK ty2 : /\ \A n \in 0 .. Depth : Calm(ty, ty2, w, n)
                   /\ e \in Entry(DOMAIN ty2) /\ e.kind = "value" /\ RankedType(e.type)
                   /\ Fits(ty2, e.cell, e.type)
    BY <2>1, <2>2, ConsedIs
  <2>4. With(w, Append(Below(0), e))
    BY <1>1, <1>2
  <2>5. VarsOf(w) = AbsVars /\ Quiet(w, 0) /\ e.type = t /\ Val(w, e.cell, t) = Shown(Now, << >>, Element(t))
    BY <2>1, <2>2, ConsedShows
  <2> HIDE DEF e, w
  <2>6. StateFits(ty2, w) /\ MoreOf(ty, ty2)
    BY <1>1, <2>3 DEF Calm
  <2>7. Val(w, e.cell, t) = << >>
    BY <2>5, EmptyShown
  <2>8. Shows(VarsOf(w), Append(Abstract!Below(0), SeenIn(w, e)))
    BY <1>1, <2>3, <2>4, <2>5, <2>6, ShowsPush
  <2>9. SeenIn(w, e) = Abstract!Value(t, << >>)
    BY <2>3, <2>5, <2>7 DEF SeenIn
  <2>10. Abstract!Push(Abstract!Value(t, << >>))
    BY <1>2, <2>5, <2>8, <2>9, AbstractPush
  <2>11. t \in Abstract!ContainerTypes(types)
    BY ContainersAgree
  <2> QED
    BY <2>10, <2>11 DEF Abstract!Literal
<1>3. ASSUME IsValue(0), <<"Array">> \o Operand(0).type \in ContainerTypes(types),
             LET w == Consed(<<"Array">> \o Operand(0).type, Appended(<< >>, Operand(0).cell))
             IN  With(w, Append(Below(1), w.stack[Depth + 1]))
      PROVE  Abstract!Literal
  <2> DEFINE o == Operand(0)
             t == <<"Array">> \o o.type
             f == Appended(<< >>, o.cell)
             w == Consed(t, f)
             e == w.stack[Depth + 1]
  <2>1. RankedType(t) /\ t \in Type /\ IsContainer(t)
    BY <1>1, <1>3, ContainerTypesAre
  <2>2. /\ Depth - 0 \in 1 .. Depth /\ o = stack[Depth - 0] /\ o.kind = "value"
        /\ o.type \in Type /\ Fits(ty, o.cell, o.type)
    BY <1>3, ValueOperand DEF RankedType
  <2>3. IsArray(t) /\ Element(t) = o.type
    BY <2>2, ArrayOf
  <2>4. ContentsFit(ty, << >>, t) /\ DOMAIN << >> = {}
    BY EmptyFits
  <2>5. t \in Abstract!ContainerTypes(types)
    BY <1>3, ContainersAgree
  <2>6. Abstract!IsValue(0) /\ Abstract!Operand(0) = SeenIn(Now, o)
    BY <1>3, <2>2, AbstractOperand DEF IsValue
  <2>7. Abstract!Operand(0).type = o.type /\ Abstract!Operand(0).value = Val(Now, o.cell, o.type)
    BY <2>2, <2>6 DEF SeenIn, Abstract!Value
  <2> HIDE DEF o
  <2>8. ContentsFit(ty, f, t) /\ \A k \in DOMAIN f : f[k] = o.cell
    BY <2>2, <2>3, <2>4, AppendedFits
  <2>9. Shown(Now, f, o.type) = Abstract!Appended(<< >>, Val(Now, o.cell, o.type))
    BY AppendedShown, EmptyShown
  <2> HIDE DEF f
  <2>10. \A k \in DOMAIN f : \E i \in DOMAIN stack : stack[i].kind = "value" /\ f[k].buf = stack[i].cell.buf
    BY <2>2, <2>8, <1>1
  <2>11. PICK ty2 : /\ \A n \in 0 .. Depth : Calm(ty, ty2, w, n)
                    /\ e \in Entry(DOMAIN ty2) /\ e.kind = "value" /\ RankedType(e.type)
                    /\ Fits(ty2, e.cell, e.type)
    BY <2>1, <2>8, <2>10, ConsedIs
  <2>12. With(w, Append(Below(1), e))
    BY <1>3 DEF o, f
  <2>13. VarsOf(w) = AbsVars /\ Quiet(w, 0) /\ e.type = t /\ Val(w, e.cell, t) = Shown(Now, f, Element(t))
    BY <2>1, <2>8, ConsedShows
  <2>14. 1 \in 0 .. Depth
    BY <1>1, <2>2
  <2> HIDE DEF e, w
  <2>15. Quiet(w, 1)
    BY <1>1, <2>13, <2>14, QuietMore
  <2>16. StateFits(ty2, w) /\ MoreOf(ty, ty2)
    BY <1>1, <2>11 DEF Calm
  <2>17. PICK v : v = Val(w, e.cell, t) /\ v = Abstract!Appended(<< >>, Val(Now, o.cell, o.type))
    BY <2>3, <2>9, <2>13
  <2> HIDE DEF t
  <2>18. Abstract!Stack(Append(Abstract!Below(1), Abstract!Value(t, v)))
    BY <2>11, <2>12, <2>13, <2>14, <2>15, <2>16, <2>17, ValueShows
  <2> QED
    BY <2>5, <2>6, <2>7, <2>17, <2>18 DEF Abstract!Literal, t
<1> QED
  BY <1>1, <1>2, <1>3 DEF Literal

(* What an address leads to.                                               *)
LEMMA GetIs ==
  ASSUME NEW ty, Held(ty), NEW a, Reaches(ty, Now, a), a.kind = "address"
  PROVE  /\ Abstract!Get(SeenIn(Now, a)) = Val(Now, Cell(Now, a.at), a.type)
         /\ SeenIn(Now, a).type = a.type /\ SeenIn(Now, a).var = a.var /\ SeenIn(Now, a).keys = a.keys
<1>1. TypesFit /\ StateFits(ty, Now)
  BY DEF Held
<1>2. PICK at : WayTo(ty, Now, a.var, a.keys, at) /\ a.at = at[Len(a.keys)]
  BY DEF Reaches
<1>3. a.var \in Vars /\ WayVal(Now, a.var, at, 0) = Val(Now, vars[a.var], types[a.var])
  BY <1>1, <1>2, WayLength, NowIs
<1>4. Abstract!Along(WayVal(Now, a.var, at, 0), a.keys)[Len(a.keys)] = WayVal(Now, a.var, at, Len(a.keys))
  BY <1>1, <1>2, WayGet
<1>5. WayVal(Now, a.var, at, Len(a.keys)) = Val(Now, Cell(Now, a.at), a.type)
  BY <1>2 DEF WayVal, Reaches
<1>6. PICK r : r = SeenIn(Now, a)
  OBVIOUS
<1>7. r.type = a.type /\ r.var = a.var /\ r.keys = a.keys
  BY <1>6 DEF SeenIn, Abstract!Reference
<1>8. AbsVars[a.var] = WayVal(Now, a.var, at, 0)
  BY <1>3, NowIs DEF AbsVars, Val
<1>9. Abstract!Get(r) = Abstract!Along(AbsVars[r.var], r.keys)[Len(r.keys)]
  BY DEF Abstract!Get, AbsVars
<1> QED
  BY <1>4, <1>5, <1>6, <1>7, <1>8, <1>9

LEMMA SameQuiet ==
  ASSUME NEW ty, Held(ty), NEW ty2, NEW w, NEW p, NEW t, Keeps(ty, Now, ty2, w, p, t), Same(ty, Now, w),
         NEW n \in 0 .. Depth, \A i \in 1 .. Depth - n : p # InStack(i)
  PROVE  /\ VarsOf(w) = AbsVars /\ Quiet(w, n) /\ StateFits(ty2, w) /\ MoreOf(ty, ty2)
         /\ Val(w, Cell(w, p), t) = Val(Now, Cell(Now, p), t)
         /\ \A i \in 1 .. Depth - n : i \in DOMAIN w.stack /\ w.stack[i] = stack[i]
<1>1. PICK d : d = Depth /\ d \in Nat /\ DOMAIN stack = 1 .. d
  BY BelowZero
<1>2. \A i \in 1 .. Depth - n : i \in DOMAIN stack
  BY <1>1
<1>3. StateFits(ty2, w) /\ MoreOf(ty, ty2) /\ SameStack(Now, w, p) /\ PlaceAt(ty, Now, p, t)
  BY DEF Keeps
<1>4. \A i \in 1 .. Depth - n : i \in DOMAIN w.stack /\ w.stack[i] = stack[i]
  BY <1>2, <1>3, NowIs DEF SameStack
<1>5. Val(w, Cell(w, p), t) = Val(Now, Cell(Now, p), t)
  BY <1>3 DEF Same
<1> QED
  BY <1>3, <1>4, <1>5, SameShows

LEMMA AbstractAddress ==
  ASSUME NEW ty, Held(ty), NEW i \in Nat, IsAddress(i)
  PROVE  LET a == Operand(i)
             r == Abstract!Operand(i)
         IN  /\ Abstract!IsReference(i) /\ r = SeenIn(Now, a)
             /\ r.type = a.type /\ r.var = a.var /\ r.keys = a.keys
             /\ Abstract!Get(r) = Val(Now, Cell(Now, a.at), a.type)
<1>1. Operand(i).kind = "address" /\ Reaches(ty, Now, Operand(i)) /\ Depth > i
  BY AddressOperand DEF IsAddress
<1>2. Abstract!IsReference(i) /\ Abstract!Operand(i) = SeenIn(Now, Operand(i))
  BY <1>1, AbstractOperand
<1>3. PICK a, r : a = Operand(i) /\ r = Abstract!Operand(i)
  OBVIOUS
<1>4. Reaches(ty, Now, a) /\ a.kind = "address" /\ r = SeenIn(Now, a)
  BY <1>1, <1>2, <1>3
<1>5. /\ r.type = a.type /\ r.var = a.var /\ r.keys = a.keys
      /\ Abstract!Get(r) = Val(Now, Cell(Now, a.at), a.type)
  BY <1>4, GetIs
<1> QED
  BY <1>2, <1>3, <1>5

LEMMA AbstractValue ==
  ASSUME NEW ty, Held(ty), NEW i \in Nat, IsValue(i)
  PROVE  LET o == Operand(i)
             r == Abstract!Operand(i)
         IN  Abstract!IsValue(i) /\ r.type = o.type /\ r.value = Val(Now, o.cell, o.type)
<1>1. Operand(i).kind = "value" /\ Depth > i
  BY DEF IsValue
<1>2. Abstract!IsValue(i) /\ Abstract!Operand(i) = SeenIn(Now, Operand(i))
  BY <1>1, AbstractOperand
<1> QED
  BY <1>1, <1>2 DEF SeenIn, Abstract!Value

LEMMA LoadShows ==
  ASSUME NEW ty, Held(ty), Load
  PROVE  Abstract!Load
<1> DEFINE a == Operand(0)
           s == Used(Now, a.at, a.type)
           e == Value(a.type, Cell(s, a.at))
<1>1. /\ Depth - 0 \in 1 .. Depth /\ PlaceAt(ty, Now, a.at, a.type) /\ RankedType(a.type)
      /\ \A k : a.at # InStack(k)
  BY AddressOperand DEF Load
<1>2. TypesFit /\ StateFits(ty, Now) /\ Depth \in Nat
  BY BelowZero DEF Held
<1>3. 1 \in 0 .. Depth
  BY <1>1, <1>2
<1>4. With(s, Append(Below(1), e))
  BY DEF Load
<1>5. /\ Abstract!IsReference(0) /\ Abstract!Operand(0).type = a.type
      /\ Abstract!Get(Abstract!Operand(0)) = Val(Now, Cell(Now, a.at), a.type)
  BY AbstractAddress DEF Load
<1> HIDE DEF a
<1>6. PICK ty2 : Keeps(ty, Now, ty2, s, a.at, a.type)
  BY <1>1, <1>2, UsedKeeps
<1>7. Same(ty, Now, s)
  BY <1>1, <1>2, UsedSame
<1> HIDE DEF s
<1>8. /\ VarsOf(s) = AbsVars /\ Quiet(s, 1) /\ StateFits(ty2, s) /\ MoreOf(ty, ty2)
      /\ Val(s, Cell(s, a.at), a.type) = Val(Now, Cell(Now, a.at), a.type)
  BY <1>1, <1>3, <1>6, <1>7, SameQuiet
<1>9. Fits(ty2, Cell(s, a.at), a.type)
  BY <1>2, <1>6, PlaceAtFits DEF Keeps
<1>10. Null \notin DOMAIN ty2
  BY <1>8, BufsExist
<1>11. /\ e \in Entry(DOMAIN ty2) /\ RankedType(e.type) /\ e.kind = "value"
       /\ Fits(ty2, e.cell, e.type) /\ e.cell = Cell(s, a.at)
  BY <1>1, <1>9, <1>10, ValueEntry
<1>12. e.type = a.type
  BY DEF Value
<1>13. PICK v : v = Val(Now, Cell(Now, a.at), a.type) /\ Val(s, e.cell, a.type) = v
  BY <1>8, <1>11
<1> HIDE DEF e
<1>14. Abstract!Stack(Append(Abstract!Below(1), Abstract!Value(a.type, v)))
  BY <1>3, <1>4, <1>8, <1>11, <1>12, <1>13, ValueShows
<1> QED
  BY <1>5, <1>13, <1>14 DEF Abstract!Load

(* A write through an address.                                             *)
LEMMA WriteShows ==
  ASSUME TypesFit, NEW ty, NEW s, StateFits(ty, s), NEW w, NEW v, NEW keys, NEW at, NEW p, NEW c, NEW g, NEW m,
         WriteAt(ty, s, w, v, keys, at, p, c, g, m)
  PROVE  /\ VarsOf(w) = [VarsOf(s) EXCEPT ![v] = Abstract!Updated(@, keys, WayVal(w, v, at, Len(keys)))]
         /\ \A i \in DOMAIN s.stack : s.stack[i].kind = "value" =>
              /\ i \in DOMAIN w.stack /\ w.stack[i] = s.stack[i]
              /\ Val(w, s.stack[i].cell, s.stack[i].type) = Val(s, s.stack[i].cell, s.stack[i].type)
<1>1. WayTo(ty, s, v, keys, at) /\ p = at[Len(keys)] /\ Wrote(s, w, p, c, g, m)
  BY DEF WriteAt
<1>2. v \in Vars /\ at[0] = InVar(v) /\ Len(keys) \in Nat
  BY <1>1 DEF WayTo
<1>3. ASSUME NEW i \in 0 .. Len(keys), at[i] # InVar(v)
      PROVE  \E b, k : at[i] = InBuf(b, k)
  <2>1. i # 0
    BY <1>2, <1>3
  <2>2. i - 1 \in 0 .. Len(keys) - 1 /\ (i - 1) + 1 = i
    BY <1>2, <2>1
  <2>3. at[(i - 1) + 1] = InBuf(Through(at, i - 1), keys[(i - 1) + 1])
    BY <1>1, <2>2, WayStep
  <2> QED
    BY <2>2, <2>3
<1>4. ASSUME NEW x \in Vars, x # v, NEW i \in 0 .. Len(keys)
      PROVE  InVar(x) # at[i]
  <2>1. InVar(x) # InVar(v) /\ \A b, k : InVar(x) # InBuf(b, k)
    BY <1>4 DEF InVar, InBuf
  <2> QED
    BY <1>3, <2>1
<1>5. ASSUME NEW x \in Vars, x # v
      PROVE  Val(w, w.vars[x], types[x]) = Val(s, s.vars[x], types[x])
  <2>1. InVar(x) \in Places(s) /\ Cell(s, InVar(x)) = s.vars[x]
    BY CellIs DEF Places, Roots
  <2>2. types[x] \in Type /\ Len(types[x]) \in 0 .. MaxRank
    BY VarTypes
  <2>3. Len(types[x]) <= MaxRank
    <3>1. PICK n : n = Len(types[x])
      OBVIOUS
    <3>2. n \in 0 .. MaxRank
      BY <2>2, <3>1
    <3>3. n <= MaxRank
      BY <3>2 DEF MaxRank
    <3> QED
      BY <3>1, <3>3
  <2>4. Val(w, s.vars[x], types[x]) = Val(s, s.vars[x], types[x])
    BY <1>4, <1>5, <2>1, <2>2, <2>3, StillVal
  <2>5. p # InVar(x)
    <3>1. Len(keys) \in 0 .. Len(keys)
      BY <1>2
    <3> QED
      BY <1>1, <1>4, <1>5, <3>1
  <2>6. w.vars[x] = s.vars[x]
    BY <1>1, <2>5 DEF Wrote
  <2> QED
    BY <2>4, <2>6
<1>6. PICK y : y = WayVal(w, v, at, Len(keys))
  OBVIOUS
<1>7. Val(w, w.vars[v], types[v]) = Abstract!Updated(Val(s, s.vars[v], types[v]), keys, y)
  <2>1. WayVal(w, v, at, 0) = Abstract!Updated(WayVal(s, v, at, 0), keys, y)
    BY <1>6, WayUpdated
  <2>2. WayVal(s, v, at, 0) = Val(s, s.vars[v], types[v])
    BY <1>1, WayLength
  <2>3. WayVal(w, v, at, 0) = Val(w, w.vars[v], types[v])
    <3>1. types[v] \in Type /\ Len(types[v]) \in Nat
      BY <1>2, VarTypes, TypeFacts
    <3>2. 0 \in 0 .. Len(types[v])
      BY <3>1
    <3>3. Rest(types[v], 0) = types[v] /\ Cell(w, InVar(v)) = w.vars[v]
      BY <3>1, <3>2, RestFacts, CellIs
    <3> QED
      BY <1>2, <3>3 DEF WayVal
  <2> QED
    BY <2>1, <2>2, <2>3
<1>8. VarsOf(w) = [VarsOf(s) EXCEPT ![v] = Abstract!Updated(@, keys, y)]
  <2>1. PICK f : f = VarsOf(s)
    OBVIOUS
  <2>2. f = [x \in Vars |-> Val(s, s.vars[x], types[x])]
    BY <2>1 DEF VarsOf
  <2>3. PICK z : z = Val(w, w.vars[v], types[v])
    OBVIOUS
  <2>4. Abstract!Updated(f[v], keys, y) = z
    BY <1>2, <1>7, <2>2, <2>3
  <2>5. VarsOf(w) = [x \in Vars |-> IF x = v THEN z ELSE f[x]]
    BY <1>5, <2>2, <2>3 DEF VarsOf
  <2>6. [f EXCEPT ![v] = z] = [x \in Vars |-> IF x = v THEN z ELSE f[x]]
    BY <2>2
  <2>7. [f EXCEPT ![v] = Abstract!Updated(@, keys, y)] = [f EXCEPT ![v] = z]
    BY <2>4
  <2> QED
    BY <2>1, <2>5, <2>6, <2>7
<1>9. ASSUME NEW i \in DOMAIN s.stack, s.stack[i].kind = "value"
      PROVE  /\ i \in DOMAIN w.stack /\ w.stack[i] = s.stack[i]
             /\ Val(w, s.stack[i].cell, s.stack[i].type) = Val(s, s.stack[i].cell, s.stack[i].type)
  <2>1. InStack(i) # InVar(v) /\ \A b, k : InStack(i) # InBuf(b, k)
    BY DEF InStack, InVar, InBuf
  <2>2. \A j \in 0 .. Len(keys) : InStack(i) # at[j]
    BY <1>3, <2>1
  <2>3. InStack(i) \in Places(s) /\ Cell(s, InStack(i)) = s.stack[i].cell
    BY <1>9, CellIs DEF Places, Roots
  <2>4. s.stack[i].type \in Type /\ Len(s.stack[i].type) <= MaxRank
    BY DEF StateFits, StackFits, RankedType
  <2>5. Val(w, s.stack[i].cell, s.stack[i].type) = Val(s, s.stack[i].cell, s.stack[i].type)
    BY <2>2, <2>3, <2>4, StillVal
  <2>6. p # InStack(i)
    <3>1. Len(keys) \in 0 .. Len(keys)
      BY <1>2
    <3> QED
      BY <1>1, <2>2, <3>1
  <2> QED
    BY <1>1, <2>5, <2>6 DEF Wrote
<1> QED
  BY <1>6, <1>8, <1>9

(* What is on the operand stack, or in what the address leads to, has the  *)
(* same value after the write.                                             *)
LEMMA FromVal ==
  ASSUME TypesFit, NEW ty, NEW s, StateFits(ty, s), NEW w, NEW v, NEW keys, NEW at, NEW p, NEW c, NEW g, NEW m,
         WriteAt(ty, s, w, v, keys, at, p, c, g, m), NEW x, From(s, p, x), NEW u \in Type, Len(u) <= MaxRank
  PROVE  Val(w, x, u) = Val(s, x, u)
<1> DEFINE X == Still(s, keys, at, g)
<1>0. SUFFICES x.buf \in X \cup {Null}
  <2>1. Alike(s, w, X)
    BY StillAlike
  <2> HIDE DEF X
  <2> QED
    BY <2>1, AlikeVal
<1>1. WayTo(ty, s, v, keys, at) /\ p = at[Len(keys)] /\ Len(keys) \in Nat
  BY DEF WriteAt, WayTo
<1>2. Len(keys) \in 0 .. Len(keys)
  BY <1>1
<1>3. PICK t : t = Rest(types[v], Len(keys))
  OBVIOUS
<1>4. PlaceAt(ty, s, p, t)
  BY <1>1, <1>2, <1>3, WayPlaces
<1>5. CASE x.buf = Null
  BY <1>5
<1>6. CASE \E j \in DOMAIN Contents(s, p) : Cell(s, p).buf \in DOMAIN s.bufs /\ x.buf = Contents(s, p)[j].buf
  <2>1. PICK b : b = Cell(s, p).buf
    OBVIOUS
  <2>2. PICK j \in DOMAIN s.bufs[b] : b \in DOMAIN s.bufs /\ x.buf = s.bufs[b][j].buf
    BY <1>6, <2>1 DEF Contents
  <2>3. b \in DOMAIN ty /\ ty[b] = t /\ IsContainer(t)
    <3>1. Fits(ty, Cell(s, p), t) /\ Null \notin DOMAIN ty /\ DOMAIN s.bufs = DOMAIN ty
      BY <1>4, PlaceAtFits, BufsExist
    <3> QED
      BY <2>1, <2>2, <3>1, FitsFacts
  <2>4. /\ PlaceAt(ty, s, InBuf(b, j), Element(t)) /\ Cell(s, InBuf(b, j)) = s.bufs[b][j]
        /\ t \in Type /\ Len(Element(t)) = Len(t) - 1 /\ Len(t) \in Nat
    BY <2>2, <2>3, ElementPlace, TypeFacts
  <2>5. ASSUME NEW i \in 0 .. Len(keys), InBuf(b, j) = at[i] PROVE FALSE
    <3>1. PlaceAt(ty, s, at[i], Rest(types[v], i)) /\ i \in 0 .. Len(types[v]) /\ types[v] \in Type
      BY <1>1, WayPlaces
    <3>2. Element(t) = Rest(types[v], i)
      BY <2>4, <2>5, <3>1, OneType
    <3>3. Len(Rest(types[v], i)) = Len(types[v]) - i /\ Len(types[v]) \in Nat
      BY <3>1, RestFacts, TypeFacts
    <3>4. Len(keys) \in 0 .. Len(types[v])
      BY <1>1, <1>2, WayPlaces
    <3>5. Len(t) = Len(types[v]) - Len(keys)
      BY <1>3, <3>1, <3>4, RestFacts
    <3> QED
      BY <1>1, <2>4, <3>1, <3>2, <3>3, <3>4, <3>5
  <2>6. InBuf(b, j) \in Places(s)
    BY <2>4, PlaceAtFits
  <2> QED
    BY <2>2, <2>4, <2>5, <2>6, PointsStill
<1>7. CASE \E i \in DOMAIN s.stack : s.stack[i].kind = "value" /\ x.buf = s.stack[i].cell.buf
  <2>1. PICK i \in DOMAIN s.stack : s.stack[i].kind = "value" /\ x.buf = s.stack[i].cell.buf
    BY <1>7
  <2>2. InStack(i) \in Places(s) /\ Cell(s, InStack(i)) = s.stack[i].cell
    BY <2>1, CellIs DEF Places, Roots
  <2>3. \A j \in 0 .. Len(keys) : InStack(i) # at[j]
    BY <1>1, WayPlaces
  <2> QED
    BY <2>1, <2>2, <2>3, PointsStill
<1> QED
  BY <1>5, <1>6, <1>7 DEF From

(* The write of the cell p makes the values of the variables vs; the       *)
(* operand stack, and what the cell leads to, keep theirs.                 *)
Sets(s, w, p, vs) ==
  /\ VarsOf(w) = vs
  /\ \A i \in DOMAIN s.stack : s.stack[i].kind = "value" =>
       /\ i \in DOMAIN w.stack /\ w.stack[i] = s.stack[i]
       /\ Val(w, s.stack[i].cell, s.stack[i].type) = Val(s, s.stack[i].cell, s.stack[i].type)
  /\ \A x, u : From(s, p, x) /\ u \in Type /\ Len(u) <= MaxRank => Val(w, x, u) = Val(s, x, u)

(* Writing the cell at an address, or what only that cell points to, sets  *)
(* what the reference refers to.                                           *)
LEMMA SetShows ==
  ASSUME TypesFit, NEW ty, NEW s, StateFits(ty, s), VarsOf(s) = AbsVars, NEW a, Reaches(ty, s, a),
         NEW r, r.var = a.var, r.keys = a.keys,
         NEW w, NEW c, NEW g, NEW m, Wrote(s, w, a.at, c, g, m),
         \A b \in DOMAIN g : b \in DOMAIN s.bufs => Alone(s, b, a.at),
         \A b, k : a.at = InBuf(b, k) => b \notin DOMAIN g
  PROVE  Sets(s, w, a.at, Abstract!Set(r, Val(w, c, a.type)))
<1>1. PICK at : WayTo(ty, s, a.var, a.keys, at) /\ a.at = at[Len(a.keys)] /\ a.type = Rest(types[a.var], Len(a.keys))
  BY DEF Reaches
<1>2. PICK v, keys, p : v = a.var /\ keys = a.keys /\ p = a.at
  OBVIOUS
<1>3. WriteAt(ty, s, w, v, keys, at, p, c, g, m)
  BY <1>1, <1>2 DEF WriteAt
<1>4. /\ VarsOf(w) = [VarsOf(s) EXCEPT ![v] = Abstract!Updated(@, keys, WayVal(w, v, at, Len(keys)))]
      /\ \A i \in DOMAIN s.stack : s.stack[i].kind = "value" =>
           /\ i \in DOMAIN w.stack /\ w.stack[i] = s.stack[i]
           /\ Val(w, s.stack[i].cell, s.stack[i].type) = Val(s, s.stack[i].cell, s.stack[i].type)
  BY <1>3, WriteShows
<1>5. \A x, u : From(s, p, x) /\ u \in Type /\ Len(u) <= MaxRank => Val(w, x, u) = Val(s, x, u)
  BY <1>3, FromVal
<1>6. Cell(w, p) = c
  <2>1. Len(keys) \in 0 .. Len(keys)
    BY <1>1, <1>2 DEF WayTo
  <2>2. PlaceAt(ty, s, p, Rest(types[v], Len(keys)))
    BY <1>1, <1>2, <2>1, WayPlaces
  <2> QED
    BY <1>2, <2>2, OldCells
<1>7. PICK y : y = Val(w, c, a.type)
  OBVIOUS
<1>8. WayVal(w, v, at, Len(keys)) = y
  BY <1>1, <1>2, <1>6, <1>7 DEF WayVal
<1>9. Abstract!Set(r, y) = [AbsVars EXCEPT ![v] = Abstract!Updated(@, keys, y)]
  <2>1. r.var = v /\ r.keys = keys
    BY <1>2
  <2>2. Abstract!Set(r, y) = [AbsVars EXCEPT ![r.var] = Abstract!Updated(@, r.keys, y)]
    BY DEF Abstract!Set, AbsVars
  <2> QED
    BY <2>1, <2>2
<1>10. VarsOf(w) = [AbsVars EXCEPT ![v] = Abstract!Updated(@, keys, y)]
  BY <1>4, <1>8
<1>11. VarsOf(w) = Abstract!Set(r, Val(w, c, a.type))
  BY <1>7, <1>9, <1>10
<1> QED
  BY <1>2, <1>4, <1>5, <1>11 DEF Sets

LEMMA SetCellShows ==
  ASSUME TypesFit, NEW ty, NEW s, StateFits(ty, s), VarsOf(s) = AbsVars, NEW a, Reaches(ty, s, a),
         PlaceAt(ty, s, a.at, a.type), NEW r, r.var = a.var, r.keys = a.keys, NEW c
  PROVE  LET w == SetCell(s, a.at, c)
         IN  /\ Sets(s, w, a.at, Abstract!Set(r, Val(w, c, a.type)))
             /\ From(s, a.at, c) => Sets(s, w, a.at, Abstract!Set(r, Val(s, c, a.type)))
<1> DEFINE w == SetCell(s, a.at, c)
<1>1. a.at \in Places(s) /\ a.type \in Type /\ Len(a.type) <= MaxRank
  BY PlaceAtFits DEF RankedType
<1>2. Wrote(s, w, a.at, c, NoBufs, s.made)
  BY <1>1, FitsShaped, SetCellWrites
<1>3. /\ \A b \in DOMAIN NoBufs : b \in DOMAIN s.bufs => Alone(s, b, a.at)
      /\ \A b, k : a.at = InBuf(b, k) => b \notin DOMAIN NoBufs
  BY NoBufsFacts
<1> HIDE DEF w
<1>4. Sets(s, w, a.at, Abstract!Set(r, Val(w, c, a.type)))
  BY <1>2, <1>3, SetShows
<1>5. From(s, a.at, c) => Val(w, c, a.type) = Val(s, c, a.type)
  BY <1>1, <1>4 DEF Sets
<1>6. From(s, a.at, c) => Sets(s, w, a.at, Abstract!Set(r, Val(s, c, a.type)))
  BY <1>4, <1>5
<1> QED
  BY <1>4, <1>6 DEF w

(* The address a reaches its place in s, where the variables have their    *)
(* values still; r is the reference.                                       *)
Settable(ty, s, a, r) ==
  /\ TypesFit /\ StateFits(ty, s) /\ VarsOf(s) = AbsVars /\ Reaches(ty, s, a)
  /\ PlaceAt(ty, s, a.at, a.type) /\ (\A i : a.at # InStack(i))
  /\ r.var = a.var /\ r.keys = a.keys

LEMMA SetContentsShows ==
  ASSUME NEW ty, NEW s, NEW a, NEW r, Settable(ty, s, a, r), IsContainer(a.type), Owns(ty, s, a.at, a.type),
         NEW f, f = [k \in DOMAIN f |-> f[k]], \A k \in DOMAIN f : From(s, a.at, f[k])
  PROVE  Sets(s, SetContents(s, a.at, f), a.at, Abstract!Set(r, Shown(s, f, Element(a.type))))
<1> DEFINE w == SetContents(s, a.at, f)
           g == [x \in {Cell(s, a.at).buf} |-> f]
<1>1. PICK p, t, c, b : p = a.at /\ t = a.type /\ c = Cell(s, p) /\ b = c.buf
  OBVIOUS
<1>2. TypesFit /\ StateFits(ty, s) /\ PlaceAt(ty, s, p, t) /\ \A i : p # InStack(i)
  BY <1>1 DEF Settable
<1>3. /\ p \in Places(s) /\ RankedType(t) /\ b \in DOMAIN s.bufs /\ ty[b] = t /\ Alone(s, b, p) /\ b # Null
      /\ t \in Type /\ Len(t) <= MaxRank /\ IsContainer(t)
  BY <1>1, <1>2, PlaceAtFits, BufsExist DEF Owns, RankedType
<1>4. Len(Element(t)) = Len(t) - 1 /\ Len(t) \in Nat /\ Element(t) \in Type /\ t # Element(t)
  BY <1>3, TypeFacts
<1>5. \A d, k : p = InBuf(d, k) => d # b
  BY <1>2, <1>3, <1>4, PlaceFacts DEF PlaceAt
<1>6. Wrote(s, w, p, c, g, s.made)
  BY <1>1, <1>2, <1>3, <1>5, FitsShaped, SetContentsWrites
<1>7. DOMAIN g = {b} /\ g[b] = f
  BY <1>1
<1> HIDE DEF w, g
<1>8. Sets(s, w, p, Abstract!Set(r, Val(w, c, t)))
  BY <1>1, <1>3, <1>5, <1>6, <1>7, SetShows DEF Settable
<1>9. Val(w, c, t) = Shown(s, f, Element(t))
  <2>1. b \in DOMAIN w.bufs /\ w.bufs[b] = f
    BY <1>6, <1>7 DEF Wrote
  <2>2. Val(w, c, t) = [k \in DOMAIN f |-> Val(w, f[k], Element(t))]
    BY <1>1, <1>3, <2>1, ValIs
  <2>3. Len(Element(t)) <= MaxRank
    <3>1. PICK n \in Nat : n = Len(t)
      BY <1>4
    <3>2. n <= MaxRank /\ Len(Element(t)) = n - 1
      BY <1>3, <1>4, <3>1
    <3> QED
      BY <3>2 DEF MaxRank
  <2>4. \A k \in DOMAIN f : From(s, p, f[k])
    BY <1>1
  <2>5. \A k \in DOMAIN f : Val(w, f[k], Element(t)) = Val(s, f[k], Element(t))
    BY <1>4, <1>8, <2>3, <2>4 DEF Sets
  <2> QED
    BY <2>2, <2>5 DEF Shown
<1> QED
  BY <1>1, <1>8, <1>9 DEF w

LEMMA MadeShows ==
  ASSUME NEW ty, NEW s, NEW a, NEW r, Settable(ty, s, a, r), IsContainer(a.type),
         NEW f, f = [k \in DOMAIN f |-> f[k]], \A k \in DOMAIN f : From(s, a.at, f[k])
  PROVE  Sets(s, Made(s, a.at, f), a.at, Abstract!Set(r, Shown(s, f, Element(a.type))))
<1> DEFINE w == Made(s, a.at, f)
<1>1. PICK p, t : p = a.at /\ t = a.type
  OBVIOUS
<1>2. TypesFit /\ StateFits(ty, s) /\ PlaceAt(ty, s, p, t)
  BY <1>1 DEF Settable
<1>3. p \in Places(s) /\ t \in Type /\ Len(t) <= MaxRank /\ IsContainer(t)
  BY <1>1, <1>2, PlaceAtFits DEF RankedType
<1>4. Len(Element(t)) = Len(t) - 1 /\ Len(t) \in Nat /\ Element(t) \in Type
  BY <1>3, TypeFacts
<1>5. PICK b, g, m : Anew(s, w, p, t, f, b, g, m)
  BY <1>1, <1>2, <1>3, MadeIs
<1> HIDE DEF w
<1>6. /\ Wrote(s, w, p, Shared(b), g, m) /\ DOMAIN g = {b} /\ b \notin DOMAIN s.bufs
      /\ Val(w, Shared(b), t) = [k \in DOMAIN f |-> Val(w, f[k], Element(t))]
  BY <1>5 DEF Anew
<1>7. \A d, k : p = InBuf(d, k) => d # b
  BY <1>2, <1>6, BufsExist, PlaceFacts DEF PlaceAt
<1>8. Sets(s, w, p, Abstract!Set(r, Val(w, Shared(b), t)))
  BY <1>1, <1>6, <1>7, SetShows DEF Settable
<1>9. Val(w, Shared(b), t) = Shown(s, f, Element(t))
  <2>3. Len(Element(t)) <= MaxRank
    <3>1. PICK n \in Nat : n = Len(t)
      BY <1>4
    <3>2. n <= MaxRank /\ Len(Element(t)) = n - 1
      BY <1>3, <1>4, <3>1
    <3> QED
      BY <3>2 DEF MaxRank
  <2>4. \A k \in DOMAIN f : From(s, p, f[k])
    BY <1>1
  <2>5. \A k \in DOMAIN f : Val(w, f[k], Element(t)) = Val(s, f[k], Element(t))
    BY <1>4, <1>8, <2>3, <2>4 DEF Sets
  <2> QED
    BY <1>6, <2>5 DEF Shown
<1> QED
  BY <1>1, <1>8, <1>9 DEF w

LEMMA ReplacedShows ==
  ASSUME NEW ty, NEW s, NEW a, NEW r, Settable(ty, s, a, r), IsContainer(a.type), Owns(ty, s, a.at, a.type),
         NEW f, f = [k \in DOMAIN f |-> f[k]], \A k \in DOMAIN f : From(s, a.at, f[k]), NEW moves
  PROVE  Sets(s, Replaced(s, a.at, a.type, f, moves), a.at, Abstract!Set(r, Shown(s, f, Element(a.type))))
BY SetContentsShows, MadeShows DEF Replaced

(* After the write, an instruction leaves the operands below its own.      *)
LEMMA SetsQuiet ==
  ASSUME NEW ty, Held(ty), NEW n \in 0 .. Depth, NEW s, Quiet(s, n),
         \A i \in 1 .. Depth - n : i \in DOMAIN s.stack /\ s.stack[i] = stack[i],
         NEW w, NEW p, NEW vs, Sets(s, w, p, vs)
  PROVE  Quiet(w, n)
<1> SUFFICES ASSUME NEW i \in 1 .. Depth - n, stack[i].kind = "value"
             PROVE  Val(w, stack[i].cell, stack[i].type) = Val(Now, stack[i].cell, stack[i].type)
  BY DEF Quiet
<1>1. i \in DOMAIN s.stack /\ s.stack[i] = stack[i]
  OBVIOUS
<1>2. Val(w, s.stack[i].cell, s.stack[i].type) = Val(s, s.stack[i].cell, s.stack[i].type)
  BY <1>1 DEF Sets
<1>3. Val(s, stack[i].cell, stack[i].type) = Val(Now, stack[i].cell, stack[i].type)
  BY DEF Quiet
<1> QED
  BY <1>1, <1>2, <1>3

LEMMA SetBelow ==
  ASSUME NEW ty, Held(ty), NEW n \in 0 .. Depth, NEW ty2, NEW w, StateFits(ty2, w), MoreOf(ty, ty2), Quiet(w, n),
         NEW vs, VarsOf(w) = vs, With(w, Below(n))
  PROVE  Abstract!Both(vs, Abstract!Below(n))
<1>1. Shows(VarsOf(w), Abstract!Below(n))
  BY ShowsBelow
<1> QED
  BY <1>1, AbstractBoth

LEMMA SetPush ==
  ASSUME NEW ty, Held(ty), NEW n \in 0 .. Depth, NEW ty2, NEW w, StateFits(ty2, w), MoreOf(ty, ty2), Quiet(w, n),
         NEW vs, VarsOf(w) = vs,
         NEW e \in Entry(DOMAIN ty2), RankedType(e.type), e.kind = "value" => Fits(ty2, e.cell, e.type),
         With(w, Append(Below(n), e))
  PROVE  Abstract!Both(vs, Append(Abstract!Below(n), SeenIn(w, e)))
<1>1. Shows(VarsOf(w), Append(Abstract!Below(n), SeenIn(w, e)))
  BY ShowsPush
<1> QED
  BY <1>1, AbstractBoth

(* An address on the operand stack, now and after an operation on what it  *)
(* leads to that changes no value.                                         *)
LEMMA AddressSettable ==
  ASSUME NEW ty, Held(ty), NEW i \in Nat, IsAddress(i)
  PROVE  Settable(ty, Now, Operand(i), Abstract!Operand(i))
<1>1. PICK a, r : a = Operand(i) /\ r = Abstract!Operand(i)
  OBVIOUS
<1>2. PlaceAt(ty, Now, a.at, a.type) /\ Reaches(ty, Now, a) /\ \A k : a.at # InStack(k)
  BY <1>1, AddressOperand
<1>3. r.var = a.var /\ r.keys = a.keys
  BY <1>1, AbstractAddress
<1>4. Settable(ty, Now, a, r)
  BY <1>2, <1>3, AbstractNow DEF Settable, Held
<1> QED
  BY <1>1, <1>4

LEMMA SettableKept ==
  ASSUME NEW ty, Held(ty), NEW a, NEW r, Settable(ty, Now, a, r), NEW ty2, NEW w,
         Keeps(ty, Now, ty2, w, a.at, a.type), Same(ty, Now, w)
  PROVE  Settable(ty2, w, a, r)
<1>1. VarsOf(w) = AbsVars
  BY SameShows
<1>2. Reaches(ty2, w, a)
  BY ReachesKept DEF Settable
<1> QED
  BY <1>1, <1>2 DEF Settable, Keeps

LEMMA IncrementShows ==
  ASSUME NEW ty, Held(ty), Increment
  PROVE  Abstract!Increment
<1> DEFINE a == Operand(0)
           r == Abstract!Operand(0)
           c == Cell(Now, a.at)
           s == SetCell(Now, a.at, Number(c.number + 1))
<1>1. /\ Depth - 0 \in 1 .. Depth /\ PlaceAt(ty, Now, a.at, a.type) /\ RankedType(a.type)
      /\ \A k : a.at # InStack(k)
  BY AddressOperand DEF Increment
<1>2. TypesFit /\ StateFits(ty, Now) /\ Depth \in Nat /\ Null \notin DOMAIN ty
  BY BelowZero, BufsExist DEF Held
<1>3. 1 \in 0 .. Depth
  BY <1>1, <1>2
<1>4. ~IsContainer(a.type) /\ With(s, Below(1)) /\ c.number < MaxNumber
  BY DEF Increment
<1>5. /\ Abstract!IsReference(0) /\ r.type = a.type
      /\ Abstract!Get(r) = Val(Now, c, a.type) /\ Settable(ty, Now, a, r)
  BY AbstractAddress, AddressSettable DEF Increment
<1> HIDE DEF a, r
<1>6. c.number \in Nat /\ a.type \in Type /\ Len(a.type) <= MaxRank
  BY <1>1, <1>2, <1>4, PlaceAtFits, FitsFacts DEF RankedType
<1>7. Val(Now, c, a.type) = c.number
  BY <1>4, <1>6, ValBlank
<1> HIDE DEF c
<1>8. Fits(ty, Number(c.number + 1), a.type) /\ From(Now, a.at, Number(c.number + 1))
  BY <1>4, <1>6, CellFacts DEF Fits, From
<1>9. Keeps(ty, Now, ty, s, a.at, a.type)
  BY <1>1, <1>2, <1>8, SetCellKeeps
<1>10. Sets(Now, s, a.at, Abstract!Set(r, Val(Now, Number(c.number + 1), a.type)))
  BY <1>5, <1>8, SetCellShows DEF Settable
<1>11. Val(Now, Number(c.number + 1), a.type) = c.number + 1
  BY <1>4, <1>6, CellFacts, ValBlank
<1> HIDE DEF s
<1>12. Quiet(s, 1)
  <2>1. \A i \in 1 .. Depth - 1 : i \in DOMAIN Now.stack /\ Now.stack[i] = stack[i]
    BY BelowZero, NowIs
  <2> QED
    BY <2>1, <1>3, <1>10, QuietNow, SetsQuiet
<1>13. VarsOf(s) = Abstract!Set(r, c.number + 1) /\ StateFits(ty, s) /\ MoreOf(ty, ty)
  BY <1>9, <1>10, <1>11 DEF Sets, Keeps
<1>14. Abstract!Both(Abstract!Set(r, c.number + 1), Abstract!Below(1))
  BY <1>3, <1>4, <1>12, <1>13, SetBelow
<1>15. Abstract!IsContainer(r.type) <=> IsContainer(a.type)
  BY <1>5, ContainersAgree
<1>16. r = Abstract!Operand(0)
  BY DEF r
<1> QED
  BY <1>4, <1>5, <1>7, <1>14, <1>15, <1>16 DEF Abstract!Increment

LEMMA SameVars ==
  ASSUME NEW ty, NEW s, NEW w, Same(ty, s, w)
  PROVE  VarsOf(w) = VarsOf(s)
<1>1. ASSUME NEW v \in Vars
      PROVE  Val(w, w.vars[v], types[v]) = Val(s, s.vars[v], types[v])
  <2>1. PlaceAt(ty, s, InVar(v), types[v])
    BY DEF PlaceAt
  <2>2. Cell(w, InVar(v)) = w.vars[v] /\ Cell(s, InVar(v)) = s.vars[v]
    BY CellIs
  <2>3. Val(w, Cell(w, InVar(v)), types[v]) = Val(s, Cell(s, InVar(v)), types[v])
    BY <2>1 DEF Same
  <2> QED
    BY <2>2, <2>3
<1> QED
  BY <1>1 DEF VarsOf

LEMMA StoreShows ==
  ASSUME NEW ty, Held(ty), Store
  PROVE  Abstract!Store
<1> DEFINE a == Operand(0)
           r == Abstract!Operand(0)
           o == Operand(1)
           y == Abstract!Operand(1).value
           s == SetCell(Now, a.at, o.cell)
           z == [s EXCEPT !.stack = Below(2)]
           w == Used(z, a.at, a.type)
<1>1. /\ PlaceAt(ty, Now, a.at, a.type) /\ RankedType(a.type) /\ \A k : a.at # InStack(k)
  BY AddressOperand DEF Store
<1>2. /\ Depth - 1 \in 1 .. Depth /\ o = stack[Depth - 1] /\ o.kind = "value" /\ Fits(ty, o.cell, o.type)
  BY ValueOperand DEF Store
<1>3. a.type = o.type /\ With(w, Below(2))
  BY DEF Store
<1>4. TypesFit /\ StateFits(ty, Now) /\ Depth \in Nat /\ DOMAIN stack = 1 .. Depth
  BY BelowZero DEF Held
<1>5. 2 \in 0 .. Depth
  BY <1>2, <1>4
<1>6. From(Now, a.at, o.cell)
  BY <1>2, <1>4, NowIs DEF From
<1>7. /\ Abstract!IsReference(0) /\ r.type = a.type /\ Settable(ty, Now, a, r)
      /\ Abstract!IsValue(1) /\ Abstract!Operand(1).type = o.type /\ y = Val(Now, o.cell, o.type)
  BY AbstractAddress, AddressSettable, AbstractValue DEF Store
<1> HIDE DEF a, o, r, y
<1>8. Keeps(ty, Now, ty, s, a.at, a.type)
  BY <1>1, <1>2, <1>3, <1>4, <1>6, SetCellKeeps
<1>9. Sets(Now, s, a.at, Abstract!Set(r, Val(Now, o.cell, a.type)))
  BY <1>6, <1>7, SetCellShows DEF Settable
<1> HIDE DEF s
<1>10. StateFits(ty, s) /\ PlaceAt(ty, s, a.at, a.type)
  BY <1>8 DEF Keeps
<1>11. /\ StackFits(ty, Below(2)) /\ DOMAIN Below(2) = 1 .. Depth - 2
       /\ \A i \in 1 .. Depth - 2 : Below(2)[i] = stack[i]
  <2>1. /\ Below(2) \in Seq(Entry(DOMAIN ty)) /\ DOMAIN Below(2) = 1 .. Depth - 2
        /\ \A i \in 1 .. Depth - 2 : Below(2)[i] = stack[i]
    BY <1>4, <1>5, BelowIs
  <2>2. \A i \in 1 .. Depth - 2 : i \in DOMAIN stack
    BY <1>4
  <2> QED
    BY <2>1, <2>2, <1>4, NowIs DEF StateFits, StackFits
<1>12. StateFits(ty, z) /\ z.vars = s.vars /\ z.stack = Below(2) /\ z.bufs = s.bufs
  BY <1>10, <1>11, RestackFits
<1> HIDE DEF z
<1>13. PlaceAt(ty, z, a.at, a.type)
  BY <1>1, <1>10, <1>12 DEF PlaceAt
<1>14. PICK ty2 : Keeps(ty, z, ty2, w, a.at, a.type)
  BY <1>4, <1>12, <1>13, UsedKeeps
<1>15. Same(ty, z, w)
  BY <1>4, <1>12, <1>13, UsedSame
<1> HIDE DEF w
<1>16. VarsOf(w) = Abstract!Set(r, y)
  <2>1. VarsOf(z) = VarsOf(s)
    BY <1>12 DEF VarsOf, Val
  <2>2. VarsOf(w) = VarsOf(z)
    BY <1>15, SameVars
  <2> QED
    BY <2>1, <2>2, <1>3, <1>7, <1>9 DEF Sets
<1>17. Quiet(s, 2)
  <2>1. \A i \in 1 .. Depth - 2 : i \in DOMAIN Now.stack /\ Now.stack[i] = stack[i]
    BY BelowZero, NowIs
  <2> QED
    BY <2>1, <1>5, <1>9, QuietNow, SetsQuiet
<1>18. Quiet(w, 2)
  <2> SUFFICES ASSUME NEW i \in 1 .. Depth - 2, stack[i].kind = "value"
               PROVE  Val(w, stack[i].cell, stack[i].type) = Val(Now, stack[i].cell, stack[i].type)
    BY DEF Quiet
  <2>1. i \in DOMAIN z.stack /\ z.stack[i] = stack[i]
    BY <1>11, <1>12
  <2>2. PlaceAt(ty, z, InStack(i), stack[i].type)
    BY <2>1 DEF PlaceAt
  <2>3. w.stack[i] = stack[i]
    BY <2>1, <1>1, <1>14 DEF Keeps, SameStack
  <2>4. Val(w, Cell(w, InStack(i)), stack[i].type) = Val(z, Cell(z, InStack(i)), stack[i].type)
    BY <2>2, <1>15 DEF Same
  <2>5. Val(w, stack[i].cell, stack[i].type) = Val(z, stack[i].cell, stack[i].type)
    BY <2>1, <2>3, <2>4, CellIs
  <2>6. Val(z, stack[i].cell, stack[i].type) = Val(s, stack[i].cell, stack[i].type)
    BY <1>12 DEF Val
  <2>7. Val(s, stack[i].cell, stack[i].type) = Val(Now, stack[i].cell, stack[i].type)
    BY <1>17 DEF Quiet
  <2> QED
    BY <2>5, <2>6, <2>7
<1>19. StateFits(ty2, w) /\ MoreOf(ty, ty2)
  BY <1>14 DEF Keeps
<1>20. Abstract!Both(Abstract!Set(r, y), Abstract!Below(2))
  BY <1>3, <1>5, <1>16, <1>18, <1>19, SetBelow
<1> QED
  BY <1>3, <1>7, <1>20 DEF Abstract!Store, r, y

(* Setting what it has already changes nothing.                            *)
LEMMA SelfShows ==
  ASSUME NEW ty, NEW s, NEW a, NEW r, Settable(ty, s, a, r)
  PROVE  Sets(s, s, a.at, Abstract!Set(r, Val(s, Cell(s, a.at), a.type)))
<1>1. PICK p, c : p = a.at /\ c = Cell(s, p)
  OBVIOUS
<1>2. \A i : p # InStack(i)
  BY <1>1 DEF Settable
<1>3. Shaped(s)
  BY FitsShaped DEF Settable
<1>4. s.vars = [v \in Vars |-> IF p = InVar(v) THEN c ELSE s.vars[v]]
  <2>1. \A v \in Vars : p = InVar(v) => c = s.vars[v]
    BY <1>1, CellIs
  <2>2. s.vars = [v \in Vars |-> s.vars[v]]
    BY <1>3 DEF Shaped
  <2>3. [v \in Vars |-> s.vars[v]] = [v \in Vars |-> IF p = InVar(v) THEN c ELSE s.vars[v]]
    BY <2>1
  <2> QED
    BY <2>2, <2>3
<1>5. s.stack = [i \in DOMAIN s.stack |->
                   IF p = InStack(i) THEN [s.stack[i] EXCEPT !.cell = c] ELSE s.stack[i]]
  BY <1>2, <1>3 DEF Shaped
<1>6. s.bufs = [b \in DOMAIN s.bufs \cup DOMAIN NoBufs |->
                  IF b \in DOMAIN NoBufs THEN NoBufs[b]
                  ELSE [k \in DOMAIN s.bufs[b] |-> IF p = InBuf(b, k) THEN c ELSE s.bufs[b][k]]]
  <2>1. ASSUME NEW b \in DOMAIN s.bufs
        PROVE  s.bufs[b] = [k \in DOMAIN s.bufs[b] |-> IF p = InBuf(b, k) THEN c ELSE s.bufs[b][k]]
    <3>1. \A k \in DOMAIN s.bufs[b] : p = InBuf(b, k) => c = s.bufs[b][k]
      BY <1>1, CellIs
    <3>2. s.bufs[b] = [k \in DOMAIN s.bufs[b] |-> s.bufs[b][k]]
      BY <1>3 DEF Shaped
    <3>3. [k \in DOMAIN s.bufs[b] |-> s.bufs[b][k]]
            = [k \in DOMAIN s.bufs[b] |-> IF p = InBuf(b, k) THEN c ELSE s.bufs[b][k]]
      BY <3>1
    <3> QED
      BY <3>2, <3>3
  <2>2. s.bufs = [b \in DOMAIN s.bufs |-> s.bufs[b]]
    BY <1>3 DEF Shaped
  <2>3. DOMAIN s.bufs \cup DOMAIN NoBufs = DOMAIN s.bufs /\ \A b : b \notin DOMAIN NoBufs
    BY NoBufsFacts
  <2>4. [b \in DOMAIN s.bufs |-> s.bufs[b]]
          = [b \in DOMAIN s.bufs |-> [k \in DOMAIN s.bufs[b] |-> IF p = InBuf(b, k) THEN c ELSE s.bufs[b][k]]]
    BY <2>1
  <2> QED
    BY <2>2, <2>3, <2>4
<1>7. s = [vars |-> s.vars, stack |-> s.stack, bufs |-> s.bufs, made |-> s.made]
  BY <1>3 DEF Shaped
<1>8. Wrote(s, s, p, c, NoBufs, s.made)
  BY <1>4, <1>5, <1>6, <1>7 DEF Wrote
<1>9. DOMAIN NoBufs = {}
  BY NoBufsFacts
<1>10. Sets(s, s, p, Abstract!Set(r, Val(s, c, a.type)))
  BY <1>1, <1>8, <1>9, SetShows DEF Settable
<1> QED
  BY <1>1, <1>10

(* Growing an array or dictionary to a key it has.                         *)
LEMMA GrownSame ==
  ASSUME NEW ty, NEW t, NEW f, ContentsFit(ty, f, t), NEW key \in DOMAIN f
  PROVE  Grown(f, t, key, None) = f
<1>1. f = [k \in DOMAIN f |-> f[k]] /\ DOMAIN f \subseteq Nat
  BY DEF ContentsFit
<1>2. DOMAIN f \cup (IF IsArray(t) THEN 0 .. key ELSE {key}) = DOMAIN f
  <2>1. CASE IsArray(t)
    <3>1. PICK n \in Nat : DOMAIN f = 0 .. (n - 1)
      BY <2>1 DEF ContentsFit
    <3>2. 0 .. key \subseteq DOMAIN f
      BY <3>1
    <3> QED
      BY <2>1, <3>2
  <2>2. CASE ~IsArray(t)
    BY <2>2
  <2> QED
    BY <2>1, <2>2
<1>3. Grown(f, t, key, None) = [k \in DOMAIN f |-> IF k \in DOMAIN f THEN f[k] ELSE None]
  BY <1>2 DEF Grown
<1>4. [k \in DOMAIN f |-> IF k \in DOMAIN f THEN f[k] ELSE None] = [k \in DOMAIN f |-> f[k]]
  OBVIOUS
<1> QED
  BY <1>1, <1>3, <1>4

(* What a cell that points to contents stands for.                         *)
LEMMA OwnedVal ==
  ASSUME TypesFit, NEW ty, NEW s, StateFits(ty, s), NEW p, NEW t, PlaceAt(ty, s, p, t), IsContainer(t),
         Cell(s, p).buf \in DOMAIN s.bufs
  PROVE  Val(s, Cell(s, p), t) = Shown(s, Contents(s, p), Element(t))
<1>1. t \in Type /\ Len(t) <= MaxRank /\ Cell(s, p).buf # Null
  BY PlaceAtFits, BufsExist DEF RankedType
<1> QED
  BY <1>1, ValIs DEF Shown, Contents

LEMMA WithElementShows ==
  ASSUME NEW ty, NEW s, NEW a, NEW r, Settable(ty, s, a, r), IsContainer(a.type), Owns(ty, s, a.at, a.type),
         NEW key \in Nat, NEW moves
  PROVE  Sets(s, WithElement(s, a.at, a.type, key, moves), a.at,
              Abstract!Set(r, Shown(s, Grown(Contents(s, a.at), a.type, key, None), Element(a.type))))
<1> DEFINE w == WithElement(s, a.at, a.type, key, moves)
           f == Contents(s, a.at)
           c == Grown(f, a.type, key, None)
<1>1. ContentsFit(ty, f, a.type) /\ Cell(s, a.at).buf \in DOMAIN s.bufs
  BY DEF Owns
<1>2. CASE key \in DOMAIN f
  <2>1. w = s
    BY <1>2 DEF WithElement
  <2>2. c = f
    BY <1>1, <1>2, GrownSame
  <2>3. Val(s, Cell(s, a.at), a.type) = Shown(s, f, Element(a.type))
    BY <1>1, OwnedVal DEF Settable
  <2> HIDE DEF w, f, c
  <2>4. Sets(s, s, a.at, Abstract!Set(r, Shown(s, c, Element(a.type))))
    BY <2>2, <2>3, SelfShows
  <2>5. Sets(s, w, a.at, Abstract!Set(r, Shown(s, c, Element(a.type))))
    BY <2>1, <2>4
  <2> QED
    BY <2>5 DEF w, c, f
<1>3. CASE key \notin DOMAIN f
  <2>1. w = Replaced(s, a.at, a.type, c, moves)
    BY <1>3 DEF WithElement
  <2>2. /\ ContentsFit(ty, c, a.type)
        /\ \A k \in DOMAIN c : c[k] = None \/ (k \in DOMAIN f /\ c[k] = f[k])
    BY <1>1, GrownFits
  <2> HIDE DEF c, w
  <2>3. \A k \in DOMAIN c : From(s, a.at, c[k])
    BY <2>2, OwnFrom, NoneFrom
  <2>4. c = [k \in DOMAIN c |-> c[k]]
    BY <2>2 DEF ContentsFit
  <2>5. Sets(s, w, a.at, Abstract!Set(r, Shown(s, c, Element(a.type))))
    BY <2>1, <2>3, <2>4, ReplacedShows
  <2> QED
    BY <2>5 DEF c, w
<1> QED
  BY <1>2, <1>3

(* No array or dictionary has the subscript that stands for a bad one.     *)
LEMMA NoIndexShown ==
  ASSUME TypesFit, NEW ty, NEW s, StateFits(ty, s), NEW p, NEW t, PlaceAt(ty, s, p, t), IsContainer(t)
  PROVE  NoIndex \notin DOMAIN Val(s, Cell(s, p), t)
<1>1. t \in Type /\ Len(t) <= MaxRank /\ Fits(ty, Cell(s, p), t) /\ Null \notin DOMAIN ty /\ DOMAIN s.bufs = DOMAIN ty
  BY PlaceAtFits, BufsExist DEF RankedType
<1>2. CASE Cell(s, p).buf = Null
  BY <1>1, <1>2, ValBlank
<1>3. CASE Cell(s, p).buf # Null
  <2>1. PICK b : b = Cell(s, p).buf
    OBVIOUS
  <2>2. b \in DOMAIN ty /\ b \in DOMAIN s.bufs
    BY <1>1, <1>3, <2>1, FitsFacts
  <2>3. DOMAIN s.bufs[b] \subseteq Nat
    BY <2>2 DEF StateFits, BufsFit, ContentsFit
  <2>4. Val(s, Cell(s, p), t) = [k \in DOMAIN s.bufs[b] |-> Val(s, s.bufs[b][k], Element(t))]
    BY <1>1, <1>3, <2>1, <2>2, ValIs
  <2>5. DOMAIN Val(s, Cell(s, p), t) = DOMAIN s.bufs[b]
    BY <2>4
  <2> QED
    BY <2>3, <2>5 DEF NoIndex
<1> QED
  BY <1>2, <1>3

(* The address of an element as a reference.                               *)
LEMMA SubSeen ==
  ASSUME NEW w, NEW a, NEW k, NEW use, NEW r, r.type = a.type, r.var = a.var, r.keys = a.keys
  PROVE  SeenIn(w, Sub(w, a, k, use)) = Abstract!Sub(r, k)
<1>1. Sub(w, a, k, use).kind = "address"
  BY DEF Sub, Address
<1>2. Sub(w, a, k, use).type = Element(a.type) /\ Sub(w, a, k, use).var = a.var /\ Sub(w, a, k, use).keys = Append(a.keys, k)
  BY DEF Sub, Address
<1>3. SeenIn(w, Sub(w, a, k, use)) = Abstract!Reference(Element(a.type), a.var, Append(a.keys, k))
  BY <1>1, <1>2 DEF SeenIn
<1> QED
  BY <1>3, ContainersAgree DEF Abstract!Sub

LEMMA IndexReadShows ==
  ASSUME NEW ty, Held(ty), IndexRead
  PROVE  Abstract!IndexRead
<1> DEFINE a == Operand(0)
           r == Abstract!Operand(0)
<1>1. /\ Depth - 0 \in 1 .. Depth /\ PlaceAt(ty, Now, a.at, a.type) /\ RankedType(a.type) /\ a.type \in Type
      /\ \A k : a.at # InStack(k)
      /\ Reaches(ty, Now, a) /\ Len(a.type) <= MaxRank
  BY AddressOperand DEF IndexRead, RankedType
<1>2. TypesFit /\ StateFits(ty, Now) /\ Depth \in Nat
  BY BelowZero DEF Held
<1>3. 1 \in 0 .. Depth
  BY <1>1, <1>2
<1>4. IsContainer(a.type)
  BY DEF IndexRead
<1>5. PICK k \in Subscripts(a.type, Keys) :
        LET s == IF k = NoIndex THEN Now ELSE Used(Now, a.at, a.type)
            w == IndexForWrite(s, a.at, a.type, k, FALSE)
        IN  IF k # NoIndex /\ k \in DOMAIN Contents(s, a.at)
            THEN With(w, Append(Below(1), Sub(w, a, k, "read")))
            ELSE Raise(s, 1)
  BY DEF IndexRead
<1>6. /\ Abstract!IsReference(0) /\ r.type = a.type /\ r.var = a.var /\ r.keys = a.keys
      /\ Abstract!Get(r) = Val(Now, Cell(Now, a.at), a.type)
  BY AbstractAddress DEF IndexRead
<1> HIDE DEF a
<1>7. SUFFICES IF k \in DOMAIN Abstract!Get(r)
               THEN Abstract!Stack(Append(Abstract!Below(1), Abstract!Sub(r, k)))
               ELSE Abstract!Raise(1)
  <2>1. k \in Abstract!Subscripts(r.type, Abstract!Keys) /\ Abstract!IsContainer(r.type)
    BY <1>4, <1>5, <1>6, ContainersAgree
  <2> QED
    BY <1>6, <1>7, <2>1 DEF Abstract!IndexRead
<1> HIDE DEF r
<1>8. k = NoIndex \/ k \in Nat
  BY <1>2, <1>5, BoundAssumption DEF Subscripts, Keys, TypesFit
<1>9. CASE k = NoIndex
  <2>1. Raise(Now, 1)
    BY <1>5, <1>9
  <2>2. k \notin DOMAIN Abstract!Get(r)
    BY <1>1, <1>2, <1>4, <1>6, <1>9, NoIndexShown
  <2>3. MoreOf(ty, ty)
    BY DEF MoreOf
  <2>4. Abstract!Raise(1)
    BY <1>2, <1>3, <2>1, <2>3, QuietNow, AbstractNow, ShowsRaise
  <2> QED
    BY <2>2, <2>4
<1>10. CASE k # NoIndex
  <2> DEFINE s == Used(Now, a.at, a.type)
             w == IndexForWrite(s, a.at, a.type, k, FALSE)
  <2>1. PICK ty2 : Keeps(ty, Now, ty2, s, a.at, a.type) /\ AllWays(ty, Now, ty2, s) /\ Full(ty2, s, a.at, a.type)
    BY <1>1, <1>2, UsedKeeps
  <2>2. IF k \in DOMAIN Contents(s, a.at)
        THEN With(w, Append(Below(1), Sub(w, a, k, "read")))
        ELSE Raise(s, 1)
    BY <1>5, <1>10
  <2>3. Same(ty, Now, s)
    BY <1>1, <1>2, UsedSame
  <2> HIDE DEF s
  <2>4. StateFits(ty2, s) /\ PlaceAt(ty2, s, a.at, a.type)
    BY <2>1 DEF Keeps
  <2>5. /\ VarsOf(s) = AbsVars /\ Quiet(s, 1) /\ MoreOf(ty, ty2)
        /\ Val(s, Cell(s, a.at), a.type) = Val(Now, Cell(Now, a.at), a.type)
    BY <1>1, <1>3, <2>1, <2>3, SameQuiet
  <2>6. DOMAIN Abstract!Get(r) = DOMAIN Contents(s, a.at)
    <3>1. Cell(s, a.at).buf \in DOMAIN s.bufs
      BY <1>4, <2>1 DEF Full
    <3>2. Val(s, Cell(s, a.at), a.type) = Shown(s, Contents(s, a.at), Element(a.type))
      BY <1>2, <1>4, <2>4, <3>1, OwnedVal
    <3> QED
      BY <1>6, <2>5, <3>2, ShownIs
  <2>7. CASE k \notin DOMAIN Contents(s, a.at)
    <3>1. Raise(s, 1)
      BY <2>2, <2>7
    <3>2. Abstract!Raise(1)
      BY <1>3, <2>4, <2>5, <3>1, ShowsRaise
    <3> QED
      BY <2>6, <2>7, <3>2
  <2>8. CASE k \in DOMAIN Contents(s, a.at)
    <3>1. Used(s, a.at, a.type) = s /\ k \in Nat
      BY <2>1, <2>4, <1>2, <1>8, <1>10, UsedFull
    <3>2. w = ForWrite(s, a.at, a.type)
      <4> DEFINE u == ForWrite(s, a.at, a.type)
      <4>1. Contents(u, a.at) = Contents(s, a.at)
        <5>1. PICK ty3 : Contents(u, a.at) = Contents(Used(s, a.at, a.type), a.at)
          BY <2>4, <1>2, <1>4, ForWriteKeeps
        <5> QED
          BY <5>1, <3>1
      <4>2. w = WithElement(u, a.at, a.type, k, FALSE)
        BY DEF IndexForWrite
      <4> HIDE DEF u, w
      <4>3. w = u
        BY <2>8, <4>1, <4>2 DEF WithElement
      <4> QED
        BY <4>3 DEF u
    <3>3. PICK ty3 : /\ Keeps(ty2, s, ty3, w, a.at, a.type) /\ Owns(ty3, w, a.at, a.type)
                     /\ k \in DOMAIN Contents(w, a.at)
      BY <3>1, <2>4, <1>2, <1>4, IndexForWriteKeeps
    <3>4. Same(ty2, s, w)
      BY <3>2, <2>4, <1>2, <1>4, ForWriteSame
    <3>5. With(w, Append(Below(1), Sub(w, a, k, "read")))
      BY <2>2, <2>8
    <3> HIDE DEF w
    <3>6. Keeps(ty, Now, ty3, w, a.at, a.type)
      BY <3>3, <2>1, KeepsThen
    <3>7. Same(ty, Now, w)
      BY <3>4, <2>1, <2>3, <1>2, SameThen
    <3>8. VarsOf(w) = AbsVars /\ Quiet(w, 1) /\ StateFits(ty3, w) /\ MoreOf(ty, ty3)
      BY <1>1, <1>3, <3>6, <3>7, SameQuiet
    <3>9. Reaches(ty3, w, a)
      BY <3>6, <1>1, <1>2, ReachesKept
    <3> DEFINE e == Sub(w, a, k, "read")
    <3>10. e \in Entry(DOMAIN ty3) /\ e.kind = "address" /\ RankedType(e.type)
      BY <3>3, <3>8, <3>9, <1>1, <1>2, <1>4, SubReaches
    <3>11. SeenIn(w, e) = Abstract!Sub(r, k)
      BY <1>6, SubSeen
    <3>12. With(w, Append(Below(1), e))
      BY <3>5
    <3> HIDE DEF e
    <3>13. Shows(AbsVars, Append(Abstract!Below(1), Abstract!Sub(r, k)))
      <4>1. Shows(VarsOf(w), Append(Abstract!Below(1), SeenIn(w, e)))
        BY <1>3, <3>8, <3>10, <3>12, ShowsPush
      <4> QED
        BY <3>8, <3>11, <4>1
    <3>14. Abstract!Stack(Append(Abstract!Below(1), Abstract!Sub(r, k)))
      BY <3>13, AbstractStack
    <3> QED
      BY <2>6, <2>8, <3>14
  <2> QED
    BY <2>7, <2>8
<1> QED
  BY <1>9, <1>10

(* array_for_write or dictionary_for_write has given the cell at an        *)
(* address, under n operands' depth, an array or dictionary of its own.    *)
Opened(ty, ty2, u, a, r, n) ==
  /\ Keeps(ty, Now, ty2, u, a.at, a.type) /\ Owns(ty2, u, a.at, a.type) /\ Settable(ty2, u, a, r)
  /\ VarsOf(u) = AbsVars /\ Quiet(u, n)
  /\ \A i \in 1 .. Depth - n : i \in DOMAIN u.stack /\ u.stack[i] = stack[i]
  /\ Abstract!Get(r) = Shown(u, Contents(u, a.at), Element(a.type))

LEMMA ForWriteOpens ==
  ASSUME NEW ty, Held(ty), NEW i \in Nat, IsAddress(i), IsContainer(Operand(i).type), NEW n \in 0 .. Depth
  PROVE  LET a == Operand(i)
         IN  \E ty2 : Opened(ty, ty2, ForWrite(Now, a.at, a.type), a, Abstract!Operand(i), n)
<1>1. PICK a, r : a = Operand(i) /\ r = Abstract!Operand(i)
  OBVIOUS
<1> DEFINE u == ForWrite(Now, a.at, a.type)
<1>2. Settable(ty, Now, a, r) /\ Abstract!Get(r) = Val(Now, Cell(Now, a.at), a.type) /\ IsContainer(a.type)
  BY <1>1, AddressSettable, AbstractAddress
<1>3. TypesFit /\ StateFits(ty, Now) /\ PlaceAt(ty, Now, a.at, a.type) /\ \A k : a.at # InStack(k)
  BY <1>2 DEF Settable
<1>4. PICK ty2 : Keeps(ty, Now, ty2, u, a.at, a.type) /\ Owns(ty2, u, a.at, a.type)
  BY <1>2, <1>3, ForWriteKeeps
<1>5. Same(ty, Now, u)
  BY <1>2, <1>3, ForWriteSame
<1> HIDE DEF u
<1>6. /\ VarsOf(u) = AbsVars /\ Quiet(u, n) /\ StateFits(ty2, u)
      /\ Val(u, Cell(u, a.at), a.type) = Val(Now, Cell(Now, a.at), a.type)
      /\ \A j \in 1 .. Depth - n : j \in DOMAIN u.stack /\ u.stack[j] = stack[j]
  BY <1>3, <1>4, <1>5, SameQuiet
<1>7. Settable(ty2, u, a, r)
  BY <1>2, <1>4, <1>5, SettableKept
<1>8. Val(u, Cell(u, a.at), a.type) = Shown(u, Contents(u, a.at), Element(a.type))
  BY <1>2, <1>4, <1>6, <1>7, OwnedVal DEF Settable, Owns
<1>9. Opened(ty, ty2, u, a, r, n)
  BY <1>2, <1>4, <1>6, <1>7, <1>8 DEF Opened
<1> QED
  BY <1>1, <1>9 DEF u

(* An element's value.                                                     *)
LEMMA ElementRanked ==
  ASSUME NEW t \in Type, Len(t) <= MaxRank, IsContainer(t)
  PROVE  Element(t) \in Type /\ Len(Element(t)) <= MaxRank
<1>1. Element(t) \in Type /\ Len(Element(t)) = Len(t) - 1 /\ Len(t) \in Nat
  BY TypeFacts
<1>2. PICK n \in Nat : n = Len(t)
  BY <1>1
<1>3. n <= MaxRank /\ Len(Element(t)) = n - 1
  BY <1>1, <1>2
<1> QED
  BY <1>1, <1>3 DEF MaxRank

LEMMA IndexWriteShows ==
  ASSUME NEW ty, Held(ty), IndexWrite
  PROVE  Abstract!IndexWrite
<1> DEFINE a == Operand(0)
           r == Abstract!Operand(0)
<1>1. /\ Depth - 0 \in 1 .. Depth /\ PlaceAt(ty, Now, a.at, a.type) /\ RankedType(a.type) /\ a.type \in Type
      /\ \A k : a.at # InStack(k)
      /\ Reaches(ty, Now, a) /\ Len(a.type) <= MaxRank
  BY AddressOperand DEF IndexWrite, RankedType
<1>2. TypesFit /\ StateFits(ty, Now) /\ Depth \in Nat
  BY BelowZero DEF Held
<1>3. 1 \in 0 .. Depth
  BY <1>1, <1>2
<1>4. IsContainer(a.type)
  BY DEF IndexWrite
<1>5. PICK k \in Subscripts(a.type, Keys), moves \in BOOLEAN :
        LET w == IndexForWrite(Now, a.at, a.type, k, moves)
        IN  IF k = NoIndex THEN ~moves /\ Raise(Now, 1)
            ELSE With(w, Append(Below(1), Sub(w, a, k, "write")))
  BY DEF IndexWrite
<1>6. /\ Abstract!IsReference(0) /\ r.type = a.type /\ r.var = a.var /\ r.keys = a.keys
  BY AbstractAddress DEF IndexWrite
<1> DEFINE u == ForWrite(Now, a.at, a.type)
<1>7. PICK ty1 : Opened(ty, ty1, u, a, r, 1)
  BY <1>3, <1>4, ForWriteOpens DEF IndexWrite
<1> HIDE DEF a
<1> DEFINE y == Abstract!Grown(Abstract!Get(r), r.type, k, Abstract!Blank(Abstract!Element(r.type)))
<1>8. SUFFICES IF k = Abstract!NoIndex THEN Abstract!Raise(1)
               ELSE Abstract!Both(Abstract!Set(r, y), Append(Abstract!Below(1), Abstract!Sub(r, k)))
  <2>1. k \in Abstract!Subscripts(r.type, Abstract!Keys) /\ Abstract!IsContainer(r.type)
    BY <1>4, <1>5, <1>6, ContainersAgree
  <2> QED
    BY <1>6, <1>8, <2>1 DEF Abstract!IndexWrite
<1>9. Abstract!NoIndex = NoIndex /\ Abstract!Element(r.type) = Element(a.type)
  BY <1>6, ContainersAgree
<1> HIDE DEF r
<1>10. k = NoIndex \/ k \in Nat
  BY <1>2, <1>5, BoundAssumption DEF Subscripts, Keys, TypesFit
<1>11. CASE k = NoIndex
  <2>1. Raise(Now, 1)
    BY <1>5, <1>11
  <2>2. MoreOf(ty, ty)
    BY DEF MoreOf
  <2>3. Abstract!Raise(1)
    BY <1>2, <1>3, <2>1, <2>2, QuietNow, AbstractNow, ShowsRaise
  <2> QED
    BY <1>9, <1>11, <2>3
<1>12. CASE k # NoIndex
  <2> DEFINE w == IndexForWrite(Now, a.at, a.type, k, moves)
             e == Sub(w, a, k, "write")
             f == Contents(u, a.at)
  <2>1. With(w, Append(Below(1), e))
    BY <1>5, <1>12
  <2>2. PICK ty2 : /\ Keeps(ty, Now, ty2, w, a.at, a.type) /\ Owns(ty2, w, a.at, a.type)
                   /\ k \in DOMAIN Contents(w, a.at)
    BY <1>1, <1>2, <1>4, <1>10, <1>12, IndexForWriteKeeps
  <2>3. w = WithElement(u, a.at, a.type, k, moves)
    BY DEF IndexForWrite
  <2> HIDE DEF w, u
  <2>4. Settable(ty1, u, a, r) /\ Owns(ty1, u, a.at, a.type)
    BY <1>7 DEF Opened
  <2>5. Sets(u, w, a.at, Abstract!Set(r, Shown(u, Grown(f, a.type, k, None), Element(a.type))))
    BY <2>3, <2>4, <1>4, <1>10, <1>12, WithElementShows
  <2>6. y = Shown(u, Grown(f, a.type, k, None), Element(a.type))
    <3>1. Element(a.type) \in Type /\ Len(Element(a.type)) <= MaxRank
      BY <1>1, <1>4, ElementRanked
    <3>2. Abstract!Get(r) = Shown(u, f, Element(a.type))
      BY <1>7 DEF Opened
    <3> QED
      BY <1>6, <1>9, <3>1, <3>2, GrownShown
  <2>7. Quiet(w, 1)
    <3>1. Quiet(u, 1) /\ \A i \in 1 .. Depth - 1 : i \in DOMAIN u.stack /\ u.stack[i] = stack[i]
      BY <1>7 DEF Opened
    <3> QED
      BY <1>3, <2>5, <3>1, SetsQuiet
  <2> HIDE DEF y, f
  <2>8. VarsOf(w) = Abstract!Set(r, y)
    BY <2>5, <2>6 DEF Sets
  <2>9. StateFits(ty2, w) /\ MoreOf(ty, ty2) /\ Reaches(ty2, w, a)
    BY <2>2, <1>1, <1>2, ReachesKept DEF Keeps
  <2>10. e \in Entry(DOMAIN ty2) /\ e.kind = "address" /\ RankedType(e.type)
    BY <2>2, <2>9, <1>1, <1>2, <1>4, SubReaches
  <2>11. SeenIn(w, e) = Abstract!Sub(r, k)
    BY <1>6, SubSeen
  <2> HIDE DEF e
  <2>12. Abstract!Both(Abstract!Set(r, y), Append(Abstract!Below(1), SeenIn(w, e)))
    BY <1>3, <2>1, <2>7, <2>8, <2>9, <2>10, SetPush
  <2> QED
    BY <1>9, <1>12, <2>11, <2>12
<1> QED
  BY <1>11, <1>12

LEMMA IndexValueShows ==
  ASSUME NEW ty, Held(ty), IndexValue
  PROVE  Abstract!IndexValue
<1> DEFINE o == Operand(0)
           r == Abstract!Operand(0)
           type == o.type
           p == InStack(Depth)
           s == Used(Now, p, type)
           c == Contents(s, p)
<1>1. TypesFit /\ StateFits(ty, Now) /\ Depth \in Nat /\ Depth - 0 = Depth
  BY BelowZero DEF Held
<1>2. /\ Depth \in 1 .. Depth /\ RankedType(type) /\ PlaceAt(ty, Now, p, type) /\ Cell(Now, p) = o.cell
      /\ type \in Type /\ Len(type) <= MaxRank
  BY <1>1, ValueOperand DEF IndexValue, RankedType
<1>3. 1 \in 0 .. Depth
  BY <1>1, <1>2
<1>4. IsContainer(type)
  BY DEF IndexValue
<1>5. PICK k \in Subscripts(type, Keys) :
        IF k \in DOMAIN c THEN With(s, Append(Below(1), Value(Element(type), c[k]))) ELSE Raise(s, 1)
  BY DEF IndexValue
<1>6. Abstract!IsValue(0) /\ r.type = type /\ r.value = Val(Now, o.cell, type)
  BY AbstractValue DEF IndexValue
<1> HIDE DEF o
<1>7. SUFFICES IF k \in DOMAIN r.value
               THEN Abstract!Stack(Append(Abstract!Below(1), Abstract!Value(Element(type), r.value[k])))
               ELSE Abstract!Raise(1)
  <2>1. /\ k \in Abstract!Subscripts(r.type, Abstract!Keys) /\ Abstract!IsContainer(r.type)
        /\ Abstract!Element(r.type) = Element(type)
    BY <1>4, <1>5, <1>6, ContainersAgree
  <2> QED
    BY <1>6, <1>7, <2>1 DEF Abstract!IndexValue
<1> HIDE DEF r
<1>8. PICK ty2 : Keeps(ty, Now, ty2, s, p, type) /\ Full(ty2, s, p, type)
  BY <1>1, <1>2, UsedKeeps
<1>9. Same(ty, Now, s)
  BY <1>1, <1>2, UsedSame
<1> HIDE DEF s
<1>10. \A i \in 1 .. Depth - 1 : p # InStack(i)
  BY <1>1, PlaceFacts
<1>11. /\ VarsOf(s) = AbsVars /\ Quiet(s, 1) /\ StateFits(ty2, s) /\ MoreOf(ty, ty2)
       /\ Val(s, Cell(s, p), type) = Val(Now, Cell(Now, p), type)
  BY <1>3, <1>8, <1>9, <1>10, SameQuiet
<1>12. /\ PlaceAt(ty2, s, p, type) /\ Null \notin DOMAIN ty2
       /\ ContentsFit(ty2, c, type) /\ Cell(s, p).buf \in DOMAIN s.bufs
  BY <1>4, <1>8, <1>11, BufsExist DEF Keeps, Full
<1>13. r.value = Shown(s, c, Element(type))
  BY <1>1, <1>2, <1>4, <1>6, <1>11, <1>12, OwnedVal
<1> HIDE DEF c
<1>14. DOMAIN r.value = DOMAIN c /\ \A j \in DOMAIN c : r.value[j] = Val(s, c[j], Element(type))
  BY <1>13, ShownIs
<1>15. CASE k \notin DOMAIN c
  <2>1. Abstract!Raise(1)
    BY <1>3, <1>5, <1>11, <1>15, ShowsRaise
  <2> QED
    BY <1>14, <1>15, <2>1
<1>16. CASE k \in DOMAIN c
  <2> DEFINE e == Value(Element(type), c[k])
  <2>1. With(s, Append(Below(1), e))
    BY <1>5, <1>16
  <2>2. Fits(ty2, c[k], Element(type))
    BY <1>12, <1>16 DEF ContentsFit
  <2>3. RankedType(Element(type))
    BY <1>2, <1>4, ElementRanked DEF RankedType
  <2>4. /\ e \in Entry(DOMAIN ty2) /\ RankedType(e.type) /\ e.kind = "value"
        /\ Fits(ty2, e.cell, e.type) /\ e.cell = c[k]
    BY <1>12, <2>2, <2>3, ValueEntry
  <2>5. e.type = Element(type)
    BY DEF Value
  <2> HIDE DEF e
  <2>6. PICK v : v = r.value[k] /\ v = Val(s, e.cell, Element(type))
    BY <1>14, <1>16, <2>4
  <2>7. Abstract!Stack(Append(Abstract!Below(1), Abstract!Value(Element(type), v)))
    BY <1>3, <1>11, <2>1, <2>4, <2>5, <2>6, ValueShows
  <2> QED
    BY <1>14, <1>16, <2>6, <2>7
<1> QED
  BY <1>15, <1>16

LEMMA AddShows ==
  ASSUME NEW ty, Held(ty), Add
  PROVE  Abstract!Add
<1> DEFINE a == Operand(1)
           r == Abstract!Operand(1)
           o == Operand(0)
           y == Abstract!Operand(0).value
           x == o.cell
           w == ForWrite(Now, a.at, a.type)
           f == Contents(w, a.at)
           c == Appended(f, x)
<1>1. TypesFit /\ StateFits(ty, Now) /\ Depth \in Nat /\ DOMAIN stack = 1 .. Depth /\ Depth - 0 = Depth
  BY BelowZero DEF Held
<1>2. /\ Depth - 1 \in 1 .. Depth /\ PlaceAt(ty, Now, a.at, a.type) /\ RankedType(a.type) /\ a.type \in Type
      /\ Len(a.type) <= MaxRank /\ \A k : a.at # InStack(k)
  BY AddressOperand DEF Add, RankedType
<1>3. /\ Depth \in DOMAIN stack /\ stack[Depth].kind = "value" /\ o = stack[Depth]
      /\ Fits(ty, x, o.type)
  <2>1. /\ Depth - 0 \in 1 .. Depth /\ Operand(0) = stack[Depth - 0] /\ Operand(0).kind = "value"
        /\ Fits(ty, Operand(0).cell, Operand(0).type)
    BY ValueOperand DEF Add
  <2> QED
    BY <2>1, <1>1
<1>4. 2 \in 0 .. Depth
  BY <1>1, <1>2
<1>5. IsArray(a.type) /\ IsContainer(a.type) /\ o.type = Element(a.type)
  BY <1>2, TypeFacts DEF Add
<1>6. PICK moves \in BOOLEAN : Size(c) <= MaxKey(types) + 1 /\ With(Replaced(w, a.at, a.type, c, moves), Below(2))
  BY DEF Add
<1>7. /\ Abstract!IsReference(1) /\ r.type = a.type
      /\ Abstract!IsValue(0) /\ Abstract!Operand(0).type = o.type /\ y = Val(Now, x, o.type)
  BY AbstractAddress, AbstractValue DEF Add
<1>8. PICK ty2 : Opened(ty, ty2, w, a, r, 0)
  <2>1. 0 \in 0 .. Depth /\ IsAddress(1)
    BY <1>1 DEF Add
  <2> QED
    BY <2>1, <1>5, ForWriteOpens
<1> DEFINE g == Abstract!Get(r)
<1>9. SUFFICES Abstract!Size(g) <= MaxKey(types) /\ Abstract!Both(Abstract!Set(r, Abstract!Appended(g, y)), Abstract!Below(2))
  <2>1. Abstract!IsArray(r.type) /\ Abstract!Operand(0).type = Abstract!Element(r.type)
    BY <1>5, <1>7, ContainersAgree
  <2> QED
    BY <1>7, <1>9, <2>1 DEF Abstract!Add
<1> HIDE DEF a, o, r, y, w
<1>10. /\ StateFits(ty2, w) /\ MoreOf(ty, ty2) /\ PlaceAt(ty2, w, a.at, a.type)
       /\ Owns(ty2, w, a.at, a.type) /\ ContentsFit(ty2, f, a.type)
       /\ Settable(ty2, w, a, r) /\ Quiet(w, 0) /\ g = Shown(w, f, Element(a.type))
       /\ \A i \in 1 .. Depth - 0 : i \in DOMAIN w.stack /\ w.stack[i] = stack[i]
  BY <1>8 DEF Opened, Keeps, Owns
<1>11. Fits(ty2, x, Element(a.type))
  BY <1>3, <1>5, <1>10, MoreTypes DEF MoreOf
<1>12. /\ ContentsFit(ty2, c, a.type)
       /\ \A k \in DOMAIN c : c[k] = x \/ (k \in DOMAIN f /\ c[k] = f[k])
  BY <1>5, <1>10, <1>11, AppendedFits
<1>13. PICK n \in Nat : DOMAIN f = 0 .. (n - 1)
  BY <1>5, <1>10 DEF ContentsFit
<1>14. Size(f) = n /\ Abstract!Size(g) = n
  BY <1>10, <1>13, ArraySize, ShownIs
<1>15. Size(c) = n + 1
  <2>1. DOMAIN c = 0 .. ((n + 1) - 1)
    BY <1>14 DEF Appended
  <2> HIDE DEF c
  <2> QED
    BY <2>1, <1>13, ArraySize
<1>16. Abstract!Size(g) <= MaxKey(types)
  <2>1. MaxKey(types) \in Nat
    BY <1>1, BoundAssumption DEF TypesFit
  <2> QED
    BY <2>1, <1>6, <1>13, <1>14, <1>15
<1>17. y = Val(w, x, Element(a.type))
  <2>1. Depth \in 1 .. Depth - 0
    BY <1>1, <1>3
  <2>2. Val(w, stack[Depth].cell, stack[Depth].type) = Val(Now, stack[Depth].cell, stack[Depth].type)
    BY <2>1, <1>3, <1>10 DEF Quiet
  <2> QED
    BY <2>2, <1>3, <1>5, <1>7
<1>18. Abstract!Appended(g, y) = Shown(w, c, Element(a.type))
  BY <1>10, <1>17, AppendedShown
<1>19. \A k \in DOMAIN c : From(w, a.at, c[k])
  <2>1. From(w, a.at, x)
    <3>1. Depth \in DOMAIN w.stack /\ w.stack[Depth] = stack[Depth]
      BY <1>1, <1>3, <1>10
    <3> QED
      BY <3>1, <1>3 DEF From
  <2> HIDE DEF c
  <2> QED
    BY <1>10, <1>12, <2>1, OwnFrom
<1>20. c = [k \in DOMAIN c |-> c[k]]
  BY <1>12 DEF ContentsFit
<1> HIDE DEF c
<1> DEFINE z == Replaced(w, a.at, a.type, c, moves)
<1>21. PICK ty3 : Keeps(ty2, w, ty3, z, a.at, a.type)
  BY <1>1, <1>5, <1>10, <1>12, <1>19, ReplacedKeeps
<1>22. Sets(w, z, a.at, Abstract!Set(r, Shown(w, c, Element(a.type))))
  BY <1>5, <1>10, <1>19, <1>20, ReplacedShows
<1>23. With(z, Below(2))
  BY <1>6
<1> HIDE DEF z
<1>24. StateFits(ty3, z) /\ MoreOf(ty, ty3)
  BY <1>10, <1>21 DEF Keeps, MoreOf
<1>25. Quiet(z, 2)
  <2>1. Quiet(w, 2)
    BY <1>4, <1>10, QuietMore, BelowZero
  <2>2. \A i \in 1 .. Depth - 2 : i \in DOMAIN w.stack /\ w.stack[i] = stack[i]
    BY <1>1, <1>10
  <2> QED
    BY <2>1, <2>2, <1>4, <1>22, SetsQuiet
<1>26. VarsOf(z) = Abstract!Set(r, Abstract!Appended(g, y))
  BY <1>18, <1>22 DEF Sets
<1>27. Abstract!Both(Abstract!Set(r, Abstract!Appended(g, y)), Abstract!Below(2))
  BY <1>4, <1>23, <1>24, <1>25, <1>26, SetBelow
<1> QED
  BY <1>16, <1>27

LEMMA ResizeShows ==
  ASSUME NEW ty, Held(ty), Resize
  PROVE  Abstract!Resize
<1> DEFINE a == Operand(0)
           r == Abstract!Operand(0)
           w == ForWrite(Now, a.at, a.type)
           f == Contents(w, a.at)
<1>1. TypesFit /\ StateFits(ty, Now) /\ Depth \in Nat
  BY BelowZero DEF Held
<1>2. /\ Depth - 0 \in 1 .. Depth /\ a.type \in Type /\ Len(a.type) <= MaxRank
  BY AddressOperand DEF Resize, RankedType
<1>3. 1 \in 0 .. Depth
  BY <1>1, <1>2
<1>4. IsArray(a.type) /\ IsContainer(a.type)
  BY <1>2, TypeFacts DEF Resize
<1>5. PICK n \in Subscripts(a.type, 0 .. MaxKey(types) + 1), moves \in BOOLEAN :
        IF n = NoIndex THEN ~moves /\ Raise(Now, 1)
        ELSE With(Replaced(w, a.at, a.type, Resized(f, n, None), moves), Below(1))
  BY DEF Resize
<1>6. Abstract!IsReference(0) /\ r.type = a.type
  BY AbstractAddress DEF Resize
<1>7. PICK ty2 : Opened(ty, ty2, w, a, r, 1)
  BY <1>3, <1>4, ForWriteOpens DEF Resize
<1> DEFINE y == Abstract!Resized(Abstract!Get(r), n, Abstract!Blank(Abstract!Element(r.type)))
<1>8. SUFFICES IF n = Abstract!NoIndex THEN Abstract!Raise(1)
               ELSE Abstract!Both(Abstract!Set(r, y), Abstract!Below(1))
  <2>1. n \in Abstract!Subscripts(r.type, 0 .. MaxKey(types) + 1) /\ Abstract!IsArray(r.type)
    BY <1>4, <1>5, <1>6, ContainersAgree
  <2> QED
    BY <1>6, <1>8, <2>1 DEF Abstract!Resize
<1>9. Abstract!NoIndex = NoIndex /\ Abstract!Element(r.type) = Element(a.type)
  BY <1>6, ContainersAgree
<1> HIDE DEF a, r, w
<1>10. n = NoIndex \/ n \in Nat
  BY <1>1, <1>5, BoundAssumption DEF Subscripts, TypesFit
<1>11. CASE n = NoIndex
  <2>1. Raise(Now, 1)
    BY <1>5, <1>11
  <2>2. MoreOf(ty, ty)
    BY DEF MoreOf
  <2>3. Abstract!Raise(1)
    BY <1>1, <1>3, <2>1, <2>2, QuietNow, AbstractNow, ShowsRaise
  <2> QED
    BY <1>9, <1>11, <2>3
<1>12. CASE n # NoIndex
  <2> DEFINE c == Resized(f, n, None)
             z == Replaced(w, a.at, a.type, c, moves)
  <2>1. With(z, Below(1))
    BY <1>5, <1>12
  <2>2. /\ StateFits(ty2, w) /\ MoreOf(ty, ty2) /\ PlaceAt(ty2, w, a.at, a.type)
        /\ Owns(ty2, w, a.at, a.type) /\ ContentsFit(ty2, f, a.type)
        /\ Settable(ty2, w, a, r) /\ Quiet(w, 1) /\ Abstract!Get(r) = Shown(w, f, Element(a.type))
        /\ \A i \in 1 .. Depth - 1 : i \in DOMAIN w.stack /\ w.stack[i] = stack[i]
    BY <1>7 DEF Opened, Keeps, Owns
  <2>3. y = Shown(w, c, Element(a.type))
    <3>1. Element(a.type) \in Type /\ Len(Element(a.type)) <= MaxRank
      BY <1>2, <1>4, ElementRanked
    <3> QED
      BY <1>9, <2>2, <3>1, ResizedShown
  <2>4. /\ ContentsFit(ty2, c, a.type)
        /\ \A k \in DOMAIN c : c[k] = None \/ (k \in DOMAIN f /\ c[k] = f[k])
    BY <2>2, <1>10, <1>12, ResizedFits
  <2> HIDE DEF c, y
  <2>5. \A k \in DOMAIN c : From(w, a.at, c[k])
    BY <2>2, <2>4, OwnFrom, NoneFrom
  <2>6. c = [k \in DOMAIN c |-> c[k]]
    BY <2>4 DEF ContentsFit
  <2>7. PICK ty3 : Keeps(ty2, w, ty3, z, a.at, a.type)
    BY <2>2, <2>4, <2>5, <1>1, <1>4, ReplacedKeeps
  <2>8. Sets(w, z, a.at, Abstract!Set(r, Shown(w, c, Element(a.type))))
    BY <1>4, <2>2, <2>5, <2>6, ReplacedShows
  <2> HIDE DEF z
  <2>9. StateFits(ty3, z) /\ MoreOf(ty, ty3)
    BY <2>2, <2>7 DEF Keeps, MoreOf
  <2>10. Quiet(z, 1)
    BY <1>3, <2>2, <2>8, SetsQuiet
  <2>11. VarsOf(z) = Abstract!Set(r, y)
    BY <2>3, <2>8 DEF Sets
  <2>12. Abstract!Both(Abstract!Set(r, y), Abstract!Below(1))
    BY <1>3, <2>1, <2>9, <2>10, <2>11, SetBelow
  <2> QED
    BY <1>9, <1>12, <2>12
<1> QED
  BY <1>11, <1>12

LEMMA EraseShows ==
  ASSUME NEW ty, Held(ty), Erase
  PROVE  Abstract!Erase
<1> DEFINE a == Operand(0)
           r == Abstract!Operand(0)
           w == ForWrite(Now, a.at, a.type)
           f == Contents(w, a.at)
<1>1. TypesFit /\ StateFits(ty, Now) /\ Depth \in Nat
  BY BelowZero DEF Held
<1>2. /\ Depth - 0 \in 1 .. Depth /\ a.type \in Type /\ Len(a.type) <= MaxRank
      /\ PlaceAt(ty, Now, a.at, a.type)
  BY AddressOperand DEF Erase, RankedType
<1>3. 1 \in 0 .. Depth
  BY <1>1, <1>2
<1>4. IsContainer(a.type)
  BY DEF Erase
<1>5. PICK k \in Subscripts(a.type, Keys) :
        IF k = NoIndex THEN Raise(Now, 1)
        ELSE IF k \in DOMAIN f \/ ~IsArray(a.type)
        THEN With(SetContents(w, a.at, Removed(f, a.type, k)), Below(1))
        ELSE Raise(w, 1)
  BY DEF Erase
<1>6. Abstract!IsReference(0) /\ r.type = a.type /\ Abstract!Get(r) = Val(Now, Cell(Now, a.at), a.type)
  BY AbstractAddress DEF Erase
<1>7. PICK ty2 : Opened(ty, ty2, w, a, r, 1)
  BY <1>3, <1>4, ForWriteOpens DEF Erase
<1> DEFINE g == Abstract!Get(r)
           y == Abstract!Removed(g, r.type, k)
<1>8. SUFFICES IF k \in DOMAIN g \/ ~IsArray(a.type)
               THEN Abstract!Both(Abstract!Set(r, y), Abstract!Below(1))
               ELSE Abstract!Raise(1)
  <2>1. /\ k \in Abstract!Subscripts(r.type, Abstract!Keys) /\ Abstract!IsContainer(r.type)
        /\ (Abstract!IsArray(r.type) <=> IsArray(a.type))
    BY <1>4, <1>5, <1>6, ContainersAgree
  <2> QED
    BY <1>6, <1>8, <2>1 DEF Abstract!Erase
<1> HIDE DEF a, r, w
<1>9. k = NoIndex \/ k \in Nat
  BY <1>1, <1>5, BoundAssumption DEF Subscripts, Keys, TypesFit
<1>10. CASE k = NoIndex
  <2>1. Raise(Now, 1)
    BY <1>5, <1>10
  <2>2. k \notin DOMAIN g
    BY <1>1, <1>2, <1>4, <1>6, <1>10, NoIndexShown
  <2>3. IsArray(a.type)
    <3>1. NoIndex \notin Keys
      BY DEF NoIndex, Keys
    <3> QED
      BY <1>5, <1>10, <3>1 DEF Subscripts
  <2>4. MoreOf(ty, ty)
    BY DEF MoreOf
  <2>5. Abstract!Raise(1)
    BY <1>1, <1>3, <2>1, <2>4, QuietNow, AbstractNow, ShowsRaise
  <2> QED
    BY <2>2, <2>3, <2>5
<1>11. CASE k # NoIndex
  <2>1. /\ StateFits(ty2, w) /\ MoreOf(ty, ty2) /\ PlaceAt(ty2, w, a.at, a.type)
        /\ Owns(ty2, w, a.at, a.type) /\ ContentsFit(ty2, f, a.type) /\ VarsOf(w) = AbsVars
        /\ Settable(ty2, w, a, r) /\ Quiet(w, 1) /\ g = Shown(w, f, Element(a.type))
        /\ \A i \in 1 .. Depth - 1 : i \in DOMAIN w.stack /\ w.stack[i] = stack[i]
    BY <1>7 DEF Opened, Keeps, Owns
  <2>2. DOMAIN g = DOMAIN f
    BY <2>1, ShownIs
  <2>3. CASE ~(k \in DOMAIN f \/ ~IsArray(a.type))
    <3>1. Raise(w, 1)
      BY <2>3, <1>5, <1>11
    <3>2. Abstract!Raise(1)
      BY <1>3, <2>1, <3>1, ShowsRaise
    <3> QED
      BY <2>2, <2>3, <3>2
  <2>4. CASE k \in DOMAIN f \/ ~IsArray(a.type)
    <3> DEFINE c == Removed(f, a.type, k)
               z == SetContents(w, a.at, c)
    <3>1. With(z, Below(1))
      BY <2>4, <1>5, <1>11
    <3>2. ContentsFit(ty2, c, a.type) /\ \A j \in DOMAIN c : \E i \in DOMAIN f : c[j] = f[i]
      BY <2>1, <2>4, <1>9, <1>11, RemovedFits
    <3>3. y = Shown(w, c, Element(a.type))
      <4>1. Abstract!Removed(Shown(w, f, Element(a.type)), a.type, k) = Shown(w, c, Element(a.type))
        BY <2>1, <2>4, <1>9, <1>11, RemovedShown
      <4> QED
        BY <4>1, <1>6, <2>1
    <3> HIDE DEF c, y
    <3>4. \A j \in DOMAIN c : From(w, a.at, c[j])
      BY <2>1, <3>2, OwnFrom
    <3>5. c = [j \in DOMAIN c |-> c[j]]
      BY <3>2 DEF ContentsFit
    <3>6. Outside(ty2, w, a.at, c)
      BY <2>1, <3>4, <1>1, OutsideFrom
    <3>7. Keeps(ty2, w, ty2, z, a.at, a.type)
      BY <2>1, <3>2, <3>6, <1>1, <1>4, SetContentsKeeps
    <3>8. Sets(w, z, a.at, Abstract!Set(r, Shown(w, c, Element(a.type))))
      BY <1>4, <2>1, <3>4, <3>5, SetContentsShows
    <3> HIDE DEF z
    <3>9. StateFits(ty2, z)
      BY <3>7 DEF Keeps
    <3>10. Quiet(z, 1)
      BY <1>3, <2>1, <3>8, SetsQuiet
    <3>11. VarsOf(z) = Abstract!Set(r, y)
      BY <3>3, <3>8 DEF Sets
    <3>12. Abstract!Both(Abstract!Set(r, y), Abstract!Below(1))
      BY <1>3, <2>1, <3>1, <3>9, <3>10, <3>11, SetBelow
    <3> QED
      BY <2>2, <2>4, <3>12
  <2> QED
    BY <2>3, <2>4
<1> QED
  BY <1>10, <1>11

(* What equal cells and blank cells are, by the rank of their type.        *)
Match1(s) ==
  {p \in (DOMAIN s.bufs) \X (DOMAIN s.bufs) :
     /\ DOMAIN s.bufs[p[1]] = DOMAIN s.bufs[p[2]]
     /\ \A k \in DOMAIN s.bufs[p[1]] :
          /\ s.bufs[p[1]][k].type # "None" /\ s.bufs[p[1]][k].type = s.bufs[p[2]][k].type
          /\ s.bufs[p[1]][k].number = s.bufs[p[2]][k].number}
Match2(s) ==
  {p \in (DOMAIN s.bufs) \X (DOMAIN s.bufs) :
     /\ DOMAIN s.bufs[p[1]] = DOMAIN s.bufs[p[2]]
     /\ \A k \in DOMAIN s.bufs[p[1]] :
          /\ s.bufs[p[1]][k].type # "None" /\ s.bufs[p[1]][k].type = s.bufs[p[2]][k].type
          /\ <<s.bufs[p[1]][k].buf, s.bufs[p[2]][k].buf>> \in Match1(s)}

LEMMA EqualByRank ==
  ASSUME NEW s, NEW x, NEW y, NEW t \in Type, Len(t) <= MaxRank
  PROVE  EqualCells(s, x, y, t) <=>
           /\ x.type # "None" /\ x.type = y.type
           /\ Len(t) = 0 => x.number = y.number
           /\ Len(t) = 1 => <<x.buf, y.buf>> \in Match1(s)
           /\ Len(t) = 2 => <<x.buf, y.buf>> \in Match2(s)
<1> DEFINE body(r, f) ==
             {p \in (DOMAIN s.bufs) \X (DOMAIN s.bufs) :
                /\ r > 0
                /\ DOMAIN s.bufs[p[1]] = DOMAIN s.bufs[p[2]]
                /\ \A k \in DOMAIN s.bufs[p[1]] :
                     LET u == s.bufs[p[1]][k]
                         v == s.bufs[p[2]][k]
                     IN  /\ u.type # "None" /\ u.type = v.type
                         /\ IF r = 1 THEN u.number = v.number
                                     ELSE <<u.buf, v.buf>> \in f[r - 1]}
           ok(f) == f = [r \in 0 .. MaxRank |-> body(r, f)]
           g == [r \in 0 .. MaxRank |-> IF r = 0 THEN {} ELSE IF r = 1 THEN Match1(s) ELSE Match2(s)]
           equal == CHOOSE f : ok(f)
<1>1. 0 .. MaxRank = {0, 1, 2}
  BY DEF MaxRank
<1>2. ASSUME NEW f
      PROVE  body(0, f) = {} /\ body(1, f) = Match1(s)
  BY DEF Match1
<1>3. ASSUME NEW f, f[1] = Match1(s)
      PROVE  body(2, f) = Match2(s)
  BY <1>3 DEF Match2
<1>4. g[0] = {} /\ g[1] = Match1(s) /\ g[2] = Match2(s)
  BY <1>1
<1>5. ok(g)
  <2> HIDE DEF body
  <2>1. body(0, g) = {} /\ body(1, g) = Match1(s) /\ body(2, g) = Match2(s)
    BY <1>2, <1>3, <1>4
  <2>2. \A r \in 0 .. MaxRank : body(r, g) = IF r = 0 THEN {} ELSE IF r = 1 THEN Match1(s) ELSE Match2(s)
    BY <1>1, <2>1
  <2> QED
    BY <2>2
<1>6. ok(equal)
  <2> HIDE DEF body, g
  <2> QED
    BY <1>5
<1>7. EqualCells(s, x, y, t) <=>
        /\ x.type # "None" /\ x.type = y.type
        /\ IF IsContainer(t) THEN <<x.buf, y.buf>> \in equal[Len(t)] ELSE x.number = y.number
  BY DEF EqualCells
<1> HIDE DEF equal
<1>8. equal[1] = Match1(s)
  <2>1. equal[1] = body(1, equal)
    <3> HIDE DEF body
    <3> QED
      BY <1>1, <1>6
  <2> HIDE DEF body
  <2> QED
    BY <2>1, <1>2
<1>9. equal[2] = Match2(s)
  <2>1. equal[2] = body(2, equal)
    <3> HIDE DEF body
    <3> QED
      BY <1>1, <1>6
  <2> HIDE DEF body
  <2> QED
    BY <2>1, <1>3, <1>8
<1>10. Len(t) \in Nat /\ (IsContainer(t) <=> Len(t) > 0)
  BY TypeFacts
<1>11. Len(t) = 0 \/ Len(t) = 1 \/ Len(t) = 2
  <2> PICK n : n = Len(t)
    OBVIOUS
  <2>1. n \in Nat /\ n <= 2
    BY <1>10 DEF MaxRank
  <2> QED
    BY <2>1
<1>12. CASE Len(t) = 0
  BY <1>7, <1>10, <1>12
<1>13. CASE Len(t) = 1
  BY <1>7, <1>8, <1>10, <1>13
<1>14. CASE Len(t) = 2
  BY <1>7, <1>9, <1>10, <1>14
<1> QED
  BY <1>11, <1>12, <1>13, <1>14

Blank1(s) == {b \in DOMAIN s.bufs : \E k \in DOMAIN s.bufs[b] : s.bufs[b][k].type = "None"}
Blank2(s) ==
  {b \in DOMAIN s.bufs : \E k \in DOMAIN s.bufs[b] :
     s.bufs[b][k].type = "None" \/ s.bufs[b][k].buf \in Blank1(s)}

LEMMA BlankByRank ==
  ASSUME NEW s, NEW p
  PROVE  HasBlank(s, p) <=> Cell(s, p).type = "None" \/ Cell(s, p).buf \in Blank2(s)
<1> DEFINE body(r, f) == {b \in DOMAIN s.bufs : r > 0 /\ \E k \in DOMAIN s.bufs[b] :
                            s.bufs[b][k].type = "None" \/ s.bufs[b][k].buf \in f[r - 1]}
           ok(f) == f = [r \in 0 .. MaxRank |-> body(r, f)]
           g == [r \in 0 .. MaxRank |-> IF r = 0 THEN {} ELSE IF r = 1 THEN Blank1(s) ELSE Blank2(s)]
           blank == CHOOSE f : ok(f)
<1>1. 0 .. MaxRank = {0, 1, 2}
  BY DEF MaxRank
<1>2. ASSUME NEW f
      PROVE  /\ body(0, f) = {}
             /\ f[0] = {} => body(1, f) = Blank1(s)
             /\ f[1] = Blank1(s) => body(2, f) = Blank2(s)
  BY DEF Blank1, Blank2
<1>3. g[0] = {} /\ g[1] = Blank1(s) /\ g[2] = Blank2(s)
  BY <1>1
<1>4. ok(g)
  <2> HIDE DEF body
  <2>1. body(0, g) = {} /\ body(1, g) = Blank1(s) /\ body(2, g) = Blank2(s)
    BY <1>2, <1>3
  <2>2. \A r \in 0 .. MaxRank : body(r, g) = IF r = 0 THEN {} ELSE IF r = 1 THEN Blank1(s) ELSE Blank2(s)
    BY <1>1, <2>1
  <2> QED
    BY <2>2
<1>5. ok(blank)
  <2> HIDE DEF body, g
  <2> QED
    BY <1>4
<1>6. HasBlank(s, p) <=> Cell(s, p).type = "None" \/ Cell(s, p).buf \in blank[MaxRank]
  BY DEF HasBlank
<1> HIDE DEF blank, body, g
<1>7. blank[0] = body(0, blank) /\ blank[1] = body(1, blank) /\ blank[2] = body(2, blank)
  BY <1>1, <1>5
<1>8. blank[2] = Blank2(s)
  BY <1>2, <1>7
<1> QED
  BY <1>6, <1>8 DEF MaxRank

LEMMA ElementCell ==
  ASSUME NEW ty, NEW s, StateFits(ty, s), NEW b \in DOMAIN s.bufs, NEW k \in DOMAIN s.bufs[b],
         s.bufs[b][k].type # "None"
  PROVE  LET e == s.bufs[b][k]
         IN  /\ Len(ty[b]) = 1 => e.type = "Number"
             /\ Len(ty[b]) = 2 => /\ e.type = "Container" /\ e.buf \in DOMAIN s.bufs /\ e.buf # Null
                                  /\ Len(ty[e.buf]) = 1
<1> PICK t : t = ty[b]
  OBVIOUS
<1> PICK e : e = s.bufs[b][k]
  OBVIOUS
<1>1. /\ DOMAIN s.bufs = DOMAIN ty /\ Null \notin DOMAIN ty /\ t \in Type /\ IsContainer(t)
      /\ Fits(ty, e, Element(t))
  BY DEF StateFits, BufsFit, ContentsFit, RankedType
<1>2. Element(t) \in Type /\ Len(Element(t)) = Len(t) - 1
  BY <1>1, TypeFacts
<1> PICK u : u = Element(t)
  OBVIOUS
<1>3. /\ Len(u) = Len(t) - 1 /\ Len(t) \in Nat /\ (IsContainer(u) <=> Len(u) > 0)
      /\ Fits(ty, e, u) /\ e # None
  BY <1>1, <1>2, TypeFacts, CellFacts
<1>4. CASE Len(t) = 1
  <2>1. ~IsContainer(u)
    BY <1>3, <1>4
  <2> QED
    BY <2>1, <1>3, <1>4, CellFacts DEF Fits
<1>5. CASE Len(t) = 2
  <2>1. Len(u) = 1 /\ IsContainer(u)
    BY <1>3, <1>5
  <2> QED
    BY <2>1, <1>1, <1>3, <1>5, CellFacts DEF Fits
<1> QED
  BY <1>4, <1>5

LEMMA MatchFlat ==
  ASSUME NEW ty, NEW s, StateFits(ty, s), NEW a \in DOMAIN s.bufs, NEW d \in DOMAIN s.bufs,
         Len(ty[a]) = 1, Len(ty[d]) = 1, a \notin Blank1(s), d \notin Blank1(s)
  PROVE  <<a, d>> \in Match1(s) <=> Flat(s.bufs)[a] = Flat(s.bufs)[d]
<1>1. /\ \A k \in DOMAIN s.bufs[a] : s.bufs[a][k].type = "Number"
      /\ \A k \in DOMAIN s.bufs[d] : s.bufs[d][k].type = "Number"
  BY ElementCell DEF Blank1
<1>2. <<a, d>> \in Match1(s) <=>
        /\ DOMAIN s.bufs[a] = DOMAIN s.bufs[d]
        /\ \A k \in DOMAIN s.bufs[a] : s.bufs[a][k].number = s.bufs[d][k].number
  BY <1>1 DEF Match1
<1>3. \A b \in DOMAIN s.bufs : Flat(s.bufs)[b] = [k \in DOMAIN s.bufs[b] |-> s.bufs[b][k].number]
  BY DEF Flat
<1> PICK f, g : f = Flat(s.bufs)[a] /\ g = Flat(s.bufs)[d]
  OBVIOUS
<1>4. /\ f = [k \in DOMAIN s.bufs[a] |-> s.bufs[a][k].number]
      /\ g = [k \in DOMAIN s.bufs[d] |-> s.bufs[d][k].number]
  BY <1>3
<1>5. ASSUME f = g
      PROVE  DOMAIN s.bufs[a] = DOMAIN s.bufs[d] /\ \A k \in DOMAIN s.bufs[a] : s.bufs[a][k].number = s.bufs[d][k].number
  <2>1. DOMAIN f = DOMAIN s.bufs[a] /\ DOMAIN g = DOMAIN s.bufs[d]
    BY <1>4
  <2>2. \A k \in DOMAIN s.bufs[a] : f[k] = s.bufs[a][k].number
    BY <1>4
  <2>3. \A k \in DOMAIN s.bufs[d] : g[k] = s.bufs[d][k].number
    BY <1>4
  <2> QED
    BY <2>1, <2>2, <2>3, <1>5
<1>6. ASSUME DOMAIN s.bufs[a] = DOMAIN s.bufs[d], \A k \in DOMAIN s.bufs[a] : s.bufs[a][k].number = s.bufs[d][k].number
      PROVE  f = g
  BY <1>4, <1>6
<1> QED
  BY <1>2, <1>5, <1>6

LEMMA MatchNested ==
  ASSUME NEW ty, NEW s, StateFits(ty, s), NEW a \in DOMAIN s.bufs, NEW d \in DOMAIN s.bufs,
         Len(ty[a]) = 2, Len(ty[d]) = 2, a \notin Blank2(s), d \notin Blank2(s)
  PROVE  <<a, d>> \in Match2(s) <=> Nested(s.bufs)[a] = Nested(s.bufs)[d]
<1> DEFINE Of(b, k) == s.bufs[b][k].buf
<1>1. ASSUME NEW b \in {a, d}, NEW k \in DOMAIN s.bufs[b]
      PROVE  /\ s.bufs[b][k].type = "Container" /\ Of(b, k) \in DOMAIN s.bufs /\ Of(b, k) # Null
             /\ Len(ty[Of(b, k)]) = 1 /\ Of(b, k) \notin Blank1(s)
  <2>1. s.bufs[b][k].type # "None" /\ Of(b, k) \notin Blank1(s)
    BY <1>1 DEF Blank2
  <2> QED
    BY <1>1, <2>1, ElementCell
<1>2. <<a, d>> \in Match2(s) <=>
        /\ DOMAIN s.bufs[a] = DOMAIN s.bufs[d]
        /\ \A k \in DOMAIN s.bufs[a] : <<Of(a, k), Of(d, k)>> \in Match1(s)
  BY <1>1 DEF Match2
<1>3. \A b \in {a, d} : Nested(s.bufs)[b] = [k \in DOMAIN s.bufs[b] |-> Flat(s.bufs)[Of(b, k)]]
  BY <1>1 DEF Nested
<1> HIDE DEF Of
<1>4. \A k \in DOMAIN s.bufs[a] \cap DOMAIN s.bufs[d] :
        <<Of(a, k), Of(d, k)>> \in Match1(s) <=> Flat(s.bufs)[Of(a, k)] = Flat(s.bufs)[Of(d, k)]
  BY <1>1, MatchFlat
<1> PICK f, g : f = Nested(s.bufs)[a] /\ g = Nested(s.bufs)[d]
  OBVIOUS
<1>5. /\ f = [k \in DOMAIN s.bufs[a] |-> Flat(s.bufs)[Of(a, k)]]
      /\ g = [k \in DOMAIN s.bufs[d] |-> Flat(s.bufs)[Of(d, k)]]
  BY <1>3
<1>6. ASSUME f = g
      PROVE  /\ DOMAIN s.bufs[a] = DOMAIN s.bufs[d]
             /\ \A k \in DOMAIN s.bufs[a] : Flat(s.bufs)[Of(a, k)] = Flat(s.bufs)[Of(d, k)]
  <2>1. DOMAIN f = DOMAIN s.bufs[a] /\ DOMAIN g = DOMAIN s.bufs[d]
    BY <1>5
  <2>2. \A k \in DOMAIN s.bufs[a] : f[k] = Flat(s.bufs)[Of(a, k)]
    BY <1>5
  <2>3. \A k \in DOMAIN s.bufs[d] : g[k] = Flat(s.bufs)[Of(d, k)]
    BY <1>5
  <2> QED
    BY <2>1, <2>2, <2>3, <1>6
<1>7. ASSUME DOMAIN s.bufs[a] = DOMAIN s.bufs[d],
             \A k \in DOMAIN s.bufs[a] : Flat(s.bufs)[Of(a, k)] = Flat(s.bufs)[Of(d, k)]
      PROVE  f = g
  BY <1>5, <1>7
<1> QED
  BY <1>2, <1>4, <1>6, <1>7

(* Cells that have their types, and what they point to has too.            *)
Solid(s, c, t) ==
  /\ c.type # "None"
  /\ Len(t) = 1 => c.buf \notin Blank1(s)
  /\ Len(t) = 2 => c.buf \notin Blank2(s)

LEMMA EqualIs ==
  ASSUME NEW ty, NEW s, StateFits(ty, s), NEW t \in Type, Len(t) <= MaxRank,
         NEW x, NEW y, Fits(ty, x, t), Fits(ty, y, t), Solid(s, x, t), Solid(s, y, t)
  PROVE  EqualCells(s, x, y, t) <=> Val(s, x, t) = Val(s, y, t)
<1>1. Len(t) \in Nat /\ (IsContainer(t) <=> Len(t) > 0)
  BY TypeFacts
<1>2. Len(t) = 0 \/ Len(t) = 1 \/ Len(t) = 2
  <2> PICK n : n = Len(t)
    OBVIOUS
  <2>1. n \in Nat /\ n <= 2
    BY <1>1 DEF MaxRank
  <2> QED
    BY <2>1
<1>3. DOMAIN s.bufs = DOMAIN ty /\ Null \notin DOMAIN ty
  BY DEF StateFits, BufsFit
<1>4. x # None /\ y # None
  BY CellFacts DEF Solid
<1>5. EqualCells(s, x, y, t) <=>
        /\ x.type # "None" /\ x.type = y.type
        /\ Len(t) = 0 => x.number = y.number
        /\ Len(t) = 1 => <<x.buf, y.buf>> \in Match1(s)
        /\ Len(t) = 2 => <<x.buf, y.buf>> \in Match2(s)
  BY EqualByRank
<1>6. ASSUME NEW c \in {x, y}
       PROVE  /\ ~IsContainer(t) => Val(s, c, t) = c.number
              /\ Len(t) = 1 /\ c.buf # Null => Val(s, c, t) = Flat(s.bufs)[c.buf]
              /\ Len(t) = 2 /\ c.buf # Null => Val(s, c, t) = Nested(s.bufs)[c.buf]
  BY TreeByRank DEF Val
<1>7. CASE Len(t) = 0
  <2>1. x.type = "Number" /\ y.type = "Number"
    BY <1>1, <1>4, <1>7, CellFacts DEF Fits
  <2>2. Val(s, x, t) = x.number /\ Val(s, y, t) = y.number
    BY <1>1, <1>7, <1>6
  <2> QED
    BY <2>1, <2>2, <1>7, <1>5
<1>8. ASSUME Len(t) > 0
      PROVE  /\ x.type = "Container" /\ x.buf \in DOMAIN s.bufs /\ x.buf # Null /\ ty[x.buf] = t
             /\ y.type = "Container" /\ y.buf \in DOMAIN s.bufs /\ y.buf # Null /\ ty[y.buf] = t
  BY <1>1, <1>3, <1>4, <1>8, CellFacts DEF Fits
<1>9. CASE Len(t) = 1
  <2>1. Val(s, x, t) = Flat(s.bufs)[x.buf] /\ Val(s, y, t) = Flat(s.bufs)[y.buf]
    BY <1>8, <1>9, <1>6
  <2>2. EqualCells(s, x, y, t) <=> <<x.buf, y.buf>> \in Match1(s)
    BY <1>8, <1>9, <1>5
  <2>3. x.buf \notin Blank1(s) /\ y.buf \notin Blank1(s)
    BY <1>9 DEF Solid
  <2> QED
    BY <2>1, <2>2, <2>3, <1>8, <1>9, MatchFlat
<1>10. CASE Len(t) = 2
  <2>1. Val(s, x, t) = Nested(s.bufs)[x.buf] /\ Val(s, y, t) = Nested(s.bufs)[y.buf]
    BY <1>8, <1>10, <1>6
  <2>2. EqualCells(s, x, y, t) <=> <<x.buf, y.buf>> \in Match2(s)
    BY <1>8, <1>10, <1>5
  <2>3. x.buf \notin Blank2(s) /\ y.buf \notin Blank2(s)
    BY <1>10 DEF Solid
  <2> QED
    BY <2>1, <2>2, <2>3, <1>8, <1>10, MatchNested
<1> QED
  BY <1>2, <1>7, <1>9, <1>10

(* What has no blank is solid, and so are its elements.                    *)
LEMMA SolidIs ==
  ASSUME NEW s, NEW p, ~HasBlank(s, p)
  PROVE  /\ \A t : Solid(s, Cell(s, p), t)
         /\ \A t : /\ t \in Type /\ Len(t) <= MaxRank /\ IsContainer(t) /\ Cell(s, p).buf \in DOMAIN s.bufs
                   => \A k \in DOMAIN Contents(s, p) : Solid(s, Contents(s, p)[k], Element(t))
<1>1. Cell(s, p).type # "None" /\ Cell(s, p).buf \notin Blank2(s)
  BY BlankByRank
<1>2. Blank1(s) \subseteq Blank2(s)
  BY DEF Blank1, Blank2
<1>3. ASSUME NEW t \in Type, Len(t) <= MaxRank, IsContainer(t), Cell(s, p).buf \in DOMAIN s.bufs,
             NEW k \in DOMAIN Contents(s, p)
      PROVE  Solid(s, Contents(s, p)[k], Element(t))
  <2> PICK e : e = Contents(s, p)[k]
    OBVIOUS
  <2>1. e.type # "None" /\ e.buf \notin Blank1(s)
    BY <1>1, <1>3 DEF Blank2, Contents
  <2>2. Len(Element(t)) # 2
    <3> PICK n : n = Len(t)
      OBVIOUS
    <3>1. n \in Nat /\ Len(Element(t)) = n - 1
      BY <1>3, TypeFacts
    <3>2. n <= 2
      BY <1>3 DEF MaxRank
    <3> QED
      BY <3>1, <3>2
  <2> QED
    BY <2>1, <2>2 DEF Solid
<1> QED
  BY <1>1, <1>2, <1>3 DEF Solid

(* The operands of a comparison stand for the values they had.             *)
LEMMA OperandsShow ==
  ASSUME NEW ty, Held(ty), IsValue(0), IsValue(1)
  PROVE  \E ty3 :
           /\ StateFits(ty3, Operands) /\ MoreOf(ty, ty3) /\ Quiet(Operands, 2) /\ VarsOf(Operands) = AbsVars
           /\ \A i \in {0, 1} :
                LET x == Cell(Operands, InStack(Depth - i))
                    t == Operand(i).type
                IN  Fits(ty3, x, t) /\ Val(Operands, x, t) = Val(Now, Operand(i).cell, t)
<1> DEFINE p == InStack(Depth - 1)
           q == InStack(Depth)
           s == Used(Now, p, Operand(1).type)
           w == Used(s, q, Operand(0).type)
<1>1. TypesFit /\ StateFits(ty, Now) /\ Depth \in Nat /\ DOMAIN stack = 1 .. Depth /\ Depth - 0 = Depth
  BY BelowZero DEF Held
<1>2. /\ Depth - 1 \in 1 .. Depth /\ PlaceAt(ty, Now, p, Operand(1).type) /\ Cell(Now, p) = Operand(1).cell
      /\ PlaceAt(ty, Now, q, Operand(0).type) /\ Cell(Now, q) = Operand(0).cell
  BY <1>1, ValueOperand
<1>3. 2 \in 0 .. Depth
  BY <1>1, <1>2
<1>4. Operands = w
  BY DEF Operands
<1>5. PICK ty2 : Keeps(ty, Now, ty2, s, p, Operand(1).type)
  BY <1>1, <1>2, UsedKeeps
<1>6. Same(ty, Now, s)
  BY <1>1, <1>2, UsedSame
<1> HIDE DEF s
<1>7. StateFits(ty2, s) /\ MoreOf(ty, ty2) /\ SameStack(Now, s, p)
  BY <1>5 DEF Keeps
<1>8. PlaceAt(ty2, s, q, Operand(0).type) /\ PlaceAt(ty2, s, p, Operand(1).type)
  BY <1>1, <1>2, <1>5, <1>6, PlaceStays
<1>9. PICK ty3 : Keeps(ty2, s, ty3, w, q, Operand(0).type)
  BY <1>1, <1>7, <1>8, UsedKeeps
<1>10. Same(ty2, s, w)
  BY <1>1, <1>7, <1>8, UsedSame
<1> HIDE DEF w
<1>11. Same(ty, Now, w)
  BY <1>1, <1>5, <1>6, <1>10, SameThen
<1>12. PlaceAt(ty3, w, q, Operand(0).type) /\ PlaceAt(ty3, w, p, Operand(1).type)
  BY <1>7, <1>8, <1>9, <1>10, PlaceStays
<1>13. StateFits(ty3, w) /\ MoreOf(ty2, ty3) /\ SameStack(s, w, q)
  BY <1>9 DEF Keeps
<1>14. MoreOf(ty, ty3)
  BY <1>7, <1>13 DEF MoreOf
<1>15. \A i \in 1 .. Depth - 2 : i \in DOMAIN w.stack /\ w.stack[i] = stack[i]
  <2>1. \A i \in 1 .. Depth - 2 : i \in DOMAIN stack /\ p # InStack(i) /\ q # InStack(i)
    BY <1>1, PlaceFacts
  <2> HIDE DEF p, q
  <2> QED
    BY <2>1, <1>7, <1>13, NowIs DEF SameStack
<1>16. VarsOf(w) = AbsVars /\ Quiet(w, 2)
  BY <1>3, <1>11, <1>15, SameShows
<1>17. /\ Fits(ty3, Cell(w, q), Operand(0).type) /\ Fits(ty3, Cell(w, p), Operand(1).type)
  BY <1>1, <1>12, <1>13, PlaceAtFits
<1>18. /\ Val(w, Cell(w, q), Operand(0).type) = Val(Now, Operand(0).cell, Operand(0).type)
       /\ Val(w, Cell(w, p), Operand(1).type) = Val(Now, Operand(1).cell, Operand(1).type)
  BY <1>2, <1>11 DEF Same
<1>19. ASSUME NEW i \in {0, 1}
       PROVE  /\ Fits(ty3, Cell(w, InStack(Depth - i)), Operand(i).type)
              /\ Val(w, Cell(w, InStack(Depth - i)), Operand(i).type) = Val(Now, Operand(i).cell, Operand(i).type)
  <2>1. CASE i = 0
    BY <2>1, <1>1, <1>17, <1>18
  <2>2. CASE i = 1
    BY <2>2, <1>17, <1>18
  <2> QED
    BY <2>1, <2>2
<1> QED
  BY <1>4, <1>13, <1>14, <1>16, <1>19

LEMMA NumberShows ==
  ASSUME NEW ty, Held(ty), NEW ty2, NEW w, StateFits(ty2, w), MoreOf(ty, ty2), NEW n \in 0 .. Depth, Quiet(w, n),
         VarsOf(w) = AbsVars, NEW k \in Nat, With(w, Append(Below(n), Value(<< >>, Number(k))))
  PROVE  Abstract!Stack(Append(Abstract!Below(n), Abstract!Value(<< >>, k)))
<1> DEFINE e == Value(<< >>, Number(k))
<1>1. /\ e \in Entry(DOMAIN ty2) /\ RankedType(e.type) /\ e.kind = "value" /\ Fits(ty2, e.cell, e.type)
  BY NumberEntry DEF Held
<1>2. With(w, Append(Below(n), e)) /\ SeenIn(w, e) = Abstract!Value(<< >>, k)
  BY NumberSeen
<1> HIDE DEF e
<1>3. Shows(VarsOf(w), Append(Abstract!Below(n), SeenIn(w, e)))
  BY <1>1, <1>2, ShowsPush
<1> QED
  BY <1>2, <1>3, AbstractStack

LEMMA EqualShows ==
  ASSUME NEW ty, Held(ty), Equal
  PROVE  Abstract!Equal
<1> DEFINE t == Operand(0).type
           x == Cell(Operands, InStack(Depth - 1))
           y == Cell(Operands, InStack(Depth))
           r == Abstract!Operand(0)
           l == Abstract!Operand(1)
<1>1. TypesFit /\ StateFits(ty, Now) /\ Depth \in Nat /\ Depth - 0 = Depth
  BY BelowZero DEF Held
<1>2. IsValue(0) /\ IsValue(1) /\ Operand(1).type = t
  BY DEF Equal, Comparable
<1>3. RankedType(t) /\ t \in Type /\ Len(t) <= MaxRank /\ Depth - 1 \in 1 .. Depth
  BY <1>1, <1>2, ValueOperand DEF RankedType
<1>4. 2 \in 0 .. Depth
  BY <1>1, <1>3
<1>5. /\ Abstract!IsValue(0) /\ r.type = t /\ r.value = Val(Now, Operand(0).cell, t)
      /\ Abstract!IsValue(1) /\ l.type = t /\ l.value = Val(Now, Operand(1).cell, t)
  BY <1>2, AbstractValue
<1>6. PICK ty3 :
        /\ StateFits(ty3, Operands) /\ MoreOf(ty, ty3) /\ Quiet(Operands, 2) /\ VarsOf(Operands) = AbsVars
        /\ \A i \in {0, 1} :
             LET c == Cell(Operands, InStack(Depth - i))
             IN  Fits(ty3, c, Operand(i).type)
                 /\ Val(Operands, c, Operand(i).type) = Val(Now, Operand(i).cell, Operand(i).type)
  BY <1>2, OperandsShow
<1>7. /\ Fits(ty3, y, t) /\ Val(Operands, y, t) = r.value
      /\ Fits(ty3, x, t) /\ Val(Operands, x, t) = l.value
  BY <1>1, <1>2, <1>5, <1>6
<1>8. Solid(Operands, x, t) /\ Solid(Operands, y, t)
  BY SolidIs DEF Equal, Comparable
<1>9. SameOperands <=> r.value = l.value
  <2>1. SameOperands <=> EqualCells(Operands, x, y, t)
    BY DEF SameOperands
  <2> HIDE DEF x, y, t, r, l
  <2>2. EqualCells(Operands, x, y, t) <=> Val(Operands, x, t) = Val(Operands, y, t)
    BY <1>3, <1>6, <1>7, <1>8, EqualIs
  <2> QED
    BY <2>1, <2>2, <1>7
<1>10. PICK n \in Nat : n = IF SameOperands THEN 1 ELSE 0
  OBVIOUS
<1>11. With(Operands, Append(Below(2), Value(<< >>, Number(n))))
  BY <1>10 DEF Equal
<1>12. Abstract!Stack(Append(Abstract!Below(2), Abstract!Value(<< >>, n)))
  BY <1>4, <1>6, <1>11, NumberShows
<1>13. n = IF r.value = l.value THEN 1 ELSE 0
  BY <1>9, <1>10
<1> QED
  BY <1>5, <1>12, <1>13 DEF Abstract!Equal

LEMMA FindShows ==
  ASSUME NEW ty, Held(ty), Find
  PROVE  Abstract!Find
<1> DEFINE x == Operand(0).cell
           u == Operand(0).type
           t == Operand(1).type
           r == Abstract!Operand(0)
           l == Abstract!Operand(1)
           p == InStack(Depth - 1)
           s == Used(Now, p, t)
           c == Contents(s, p)
           found == {k \in DOMAIN c : EqualCells(s, c[k], x, u)}
<1>1. TypesFit /\ StateFits(ty, Now) /\ Depth \in Nat /\ DOMAIN stack = 1 .. Depth /\ Depth - 0 = Depth
  BY BelowZero DEF Held
<1>2. IsValue(0) /\ IsValue(1) /\ IsArray(t) /\ u = Element(t)
  BY DEF Find
<1>3. /\ Depth - 1 \in 1 .. Depth /\ t \in Type /\ Len(t) <= MaxRank /\ IsContainer(t)
      /\ PlaceAt(ty, Now, p, t) /\ Cell(Now, p) = Operand(1).cell
      /\ Operand(0) = stack[Depth] /\ Fits(ty, x, u) /\ PlaceAt(ty, Now, InStack(Depth), u)
      /\ Cell(Now, InStack(Depth)) = x
  BY <1>1, <1>2, ValueOperand, TypeFacts DEF RankedType
<1>4. 2 \in 0 .. Depth
  BY <1>1, <1>3
<1>5. u \in Type /\ Len(u) <= MaxRank
  BY <1>2, <1>3, ElementRanked
<1>6. /\ Abstract!IsValue(0) /\ r.type = u /\ r.value = Val(Now, x, u)
      /\ Abstract!IsValue(1) /\ l.type = t /\ l.value = Val(Now, Operand(1).cell, t)
  BY <1>2, AbstractValue
<1>7. /\ ~HasBlank(s, p) /\ ~HasBlank(s, InStack(Depth))
      /\ IF found = {} THEN Raise(s, 2)
         ELSE \E k \in found : /\ \A j \in found : k <= j
                               /\ With(s, Append(Below(2), Value(<< >>, Number(k))))
  BY DEF Find
<1> HIDE DEF x, u, t
<1>8. SUFFICES LET seen == {k \in DOMAIN l.value : l.value[k] = r.value}
               IN  IF seen = {} THEN Abstract!Raise(2)
                   ELSE \E k \in seen :
                          /\ \A j \in seen : k <= j
                          /\ Abstract!Stack(Append(Abstract!Below(2), Abstract!Value(<< >>, k)))
  <2>1. Abstract!IsArray(l.type) /\ r.type = Abstract!Element(l.type)
    BY <1>2, <1>6, ContainersAgree
  <2> QED
    BY <1>6, <1>8, <2>1 DEF Abstract!Find
<1> HIDE DEF r, l
<1>9. PICK ty2 : Keeps(ty, Now, ty2, s, p, t) /\ Full(ty2, s, p, t)
  BY <1>1, <1>3, UsedKeeps
<1>10. Same(ty, Now, s)
  BY <1>1, <1>3, UsedSame
<1> HIDE DEF s
<1>11. \A i \in 1 .. Depth - 2 : p # InStack(i)
  BY <1>1, PlaceFacts
<1>12. /\ VarsOf(s) = AbsVars /\ Quiet(s, 2) /\ StateFits(ty2, s) /\ MoreOf(ty, ty2)
       /\ Val(s, Cell(s, p), t) = Val(Now, Cell(Now, p), t)
  BY <1>4, <1>9, <1>10, <1>11, SameQuiet
<1>13. /\ PlaceAt(ty2, s, p, t) /\ ContentsFit(ty2, c, t) /\ Cell(s, p).buf \in DOMAIN s.bufs
       /\ SameStack(Now, s, p)
  BY <1>3, <1>9 DEF Keeps, Full
<1>14. l.value = Shown(s, c, u)
  BY <1>1, <1>2, <1>3, <1>6, <1>12, <1>13, OwnedVal
<1>15. Cell(s, InStack(Depth)) = x
  <2>1. p # InStack(Depth) /\ Depth \in DOMAIN stack
    BY <1>1, <1>3, PlaceFacts
  <2>2. s.stack[Depth] = stack[Depth]
    BY <2>1, <1>13, NowIs DEF SameStack
  <2> QED
    BY <2>2, <1>3, CellIs DEF x
<1>16. Val(s, x, u) = r.value
  BY <1>3, <1>6, <1>10, <1>15 DEF Same
<1>17. Fits(ty2, x, u) /\ Solid(s, x, u)
  <2>1. Fits(ty2, x, u)
    BY <1>3, <1>12, MoreTypes DEF MoreOf
  <2> QED
    BY <2>1, <1>7, <1>15, SolidIs
<1>18. \A k \in DOMAIN c : Fits(ty2, c[k], u) /\ Solid(s, c[k], u)
  BY <1>2, <1>3, <1>7, <1>13, SolidIs DEF ContentsFit
<1>19. DOMAIN c \subseteq Nat
  BY <1>13 DEF ContentsFit
<1> HIDE DEF c
<1>20. DOMAIN l.value = DOMAIN c /\ \A k \in DOMAIN c : l.value[k] = Val(s, c[k], u)
  BY <1>14, ShownIs
<1>21. \A k \in DOMAIN c : EqualCells(s, c[k], x, u) <=> l.value[k] = r.value
  BY <1>5, <1>12, <1>16, <1>17, <1>18, <1>20, EqualIs
<1>22. found = {k \in DOMAIN l.value : l.value[k] = r.value} /\ found \subseteq Nat
  BY <1>19, <1>20, <1>21
<1> HIDE DEF found
<1>23. CASE found = {}
  <2>1. Abstract!Raise(2)
    BY <1>4, <1>7, <1>12, <1>23, ShowsRaise
  <2> QED
    BY <1>22, <1>23, <2>1
<1>24. CASE found # {}
  <2>1. PICK k \in found : /\ \A j \in found : k <= j
                           /\ With(s, Append(Below(2), Value(<< >>, Number(k))))
    BY <1>7, <1>24
  <2>2. Abstract!Stack(Append(Abstract!Below(2), Abstract!Value(<< >>, k)))
    BY <1>4, <1>12, <1>22, <2>1, NumberShows
  <2> QED
    BY <1>22, <1>24, <2>1, <2>2
<1> QED
  BY <1>23, <1>24

-----------------------------------------------------------------------------
(* The refinement: initial states, steps, and the theorem.                 *)

LEMMA InitShows ==
  ASSUME Init
  PROVE  Abstract!Init
<1>1. types \in Declarations /\ stack = << >> /\ vars = [v \in Vars |-> None]
  BY DEF Init
<1>2. \A v \in Vars : Tree(bufs, vars[v], types[v]) = Abstract!Blank(types[v])
  <2>1. \A v \in Vars : types[v] \in Type /\ Len(types[v]) <= MaxRank
    BY <1>1, DeclarationsAssumption
  <2>2. \A v \in Vars : Val(Now, None, types[v]) = Abstract!Blank(types[v])
    BY <2>1, BlankVal
  <2> QED
    BY <2>2, <1>1, NowIs DEF Val
<1>3. AbsVars = [v \in Vars |-> Abstract!Blank(types[v])]
  BY <1>2 DEF AbsVars
<1>4. AbsStack = << >>
  <2>1. Depth = 0
    BY <1>1, NoKeys DEF Depth
  <2> QED
    BY <2>1 DEF AbsStack
<1> QED
  BY <1>1, <1>3, <1>4 DEF Abstract!Init, AbsVars, AbsStack

LEMMA NextShows ==
  ASSUME IInv, Next
  PROVE  Abstract!Next
<1>1. PICK ty : Held(ty)
  BY DEF IInv, Held
<1>2. CASE PushAddress
  BY <1>1, <1>2, PushAddressShows DEF Abstract!Next
<1>3. CASE PushNumber
  BY <1>1, <1>3, PushNumberShows DEF Abstract!Next
<1>4. CASE PushParameter
  BY <1>1, <1>4, PushParameterShows DEF Abstract!Next
<1>5. CASE Duplicate
  BY <1>1, <1>5, DuplicateShows DEF Abstract!Next
<1>6. CASE Drop
  BY <1>1, <1>6, DropShows DEF Abstract!Next
<1>7. CASE Literal
  BY <1>1, <1>7, LiteralShows DEF Abstract!Next
<1>8. CASE Load
  BY <1>1, <1>8, LoadShows DEF Abstract!Next
<1>9. CASE Store
  BY <1>1, <1>9, StoreShows DEF Abstract!Next
<1>10. CASE IndexRead
  BY <1>1, <1>10, IndexReadShows DEF Abstract!Next
<1>11. CASE IndexWrite
  BY <1>1, <1>11, IndexWriteShows DEF Abstract!Next
<1>12. CASE IndexValue
  BY <1>1, <1>12, IndexValueShows DEF Abstract!Next
<1>13. CASE Equal
  BY <1>1, <1>13, EqualShows DEF Abstract!Next
<1>14. CASE Find
  BY <1>1, <1>14, FindShows DEF Abstract!Next
<1>15. CASE Increment
  BY <1>1, <1>15, IncrementShows DEF Abstract!Next
<1>16. CASE Add
  BY <1>1, <1>16, AddShows DEF Abstract!Next
<1>17. CASE Resize
  BY <1>1, <1>17, ResizeShows DEF Abstract!Next
<1>18. CASE Erase
  BY <1>1, <1>18, EraseShows DEF Abstract!Next
<1> QED
  BY <1>2, <1>3, <1>4, <1>5, <1>6, <1>7, <1>8, <1>9, <1>10, <1>11, <1>12, <1>13, <1>14, <1>15,
     <1>16, <1>17, <1>18 DEF Next

LEMMA StutterShows ==
  ASSUME UNCHANGED state
  PROVE  UNCHANGED Abstract!state
BY DEF state, Abstract!state, Depth, Seen, Tree

\* Arrays and dictionaries that are shared by copies, moved, and copied when one of
\* them is written (array_for_write and dictionary_for_write, src/src/cell.cpp:336, 393)
\* behave as the values of Values do, for all variables, declared types and bounds, in
\* programs that only read numbers while the address of an element is held.
THEOREM SharingIsInvisible == WhileHeld = "numbers" => (Spec => ImplementsValues)
<1> SUFFICES ASSUME WhileHeld = "numbers" PROVE Spec => ImplementsValues
  OBVIOUS
<1>1. Spec => []IInv
  BY InductiveInvariant
<1>2. Init => Abstract!Init
  BY InitShows
<1>3. IInv /\ [Next]_state => [Abstract!Next]_(Abstract!state)
  BY NextShows, StutterShows
<1> QED
  BY <1>1, <1>2, <1>3, PTL DEF Spec, ImplementsValues, Abstract!Spec
=============================================================================
