-------------------------- MODULE FlowChecks_proofs --------------------------
(***************************************************************************)
(* Proofs about module FlowChecks, for any variables, any signatures and   *)
(* any depth of nesting.                                                   *)
(***************************************************************************)
EXTENDS FlowChecks, WellFoundedInduction, SequenceTheorems, TLAPS

-----------------------------------------------------------------------------
(* The inductive invariant.                                                *)

(* The variables that the first k scopes declare, and those of them that   *)
(* scope k takes for assigned and not too hastily.                         *)
Seen(sc, k) == UNION {DOMAIN sc[j].usage : j \in 1..k}
Sure(sc, k, H) == (sc[k].assigned \cap Seen(sc, k)) \ H

(* The innermost scope that encloses block j.                              *)
Level(sc, j) == IF j <= Len(sc) THEN j - 1 ELSE Len(sc)

Have(P, S) == \A r \in P : S \subseteq r

(* What is recorded of a block fits the paths that lead behind it: none do *)
(* unless a branch is finished, if all finished branches leave, or if the  *)
(* block is a loop that is not left; the body of a TRY raises nothing as   *)
(* long as nothing in it may raise; and the paths that read a condition    *)
(* are not in its branch yet.                                              *)
BlockInv(b) ==
  /\ b.kind \notin Loops /\ (b.first \/ b.returns \/ b.exits) => b.after = {}
  /\ b.kind \in Loops /\ ~b.left => b.after = {}
  /\ b.kind \in {"loop", "condition"} \/ (b.kind = "try" /\ ~b.left) => b.entry = {}
  /\ b.kind = "try" => b.after = {}

BlocksInv(bs) ==
  \A k \in 1..Len(bs) : BlockInv(bs[k]) /\ (bs[k].kind = "function" <=> k = 1)

(* A scope takes for assigned what the scopes around it do; one that is no *)
(* barrier is that of a LOOP, a REPEAT or a TRY body or of a branch whose  *)
(* condition is read.  The first declares the parameters D.                *)
ScopesInv(D, sc, bs) ==
  /\ D \subseteq DOMAIN sc[1].usage
  /\ \A k \in 2..Len(sc) : ~sc[k].conditional => bs[k].kind \in {"loop", "try", "condition"}
  /\ \A k \in 1..Len(sc) : \A j \in 1..k : sc[j].assigned \subseteq sc[k].assigned

(* The variables the innermost scope is sure of are assigned on all paths  *)
(* that lead here, those of the scope around a block on all paths that     *)
(* enter its next branch or lead behind it, and those that are assigned in *)
(* all finished branches on the paths behind these.                        *)
PathsInv(sc, bs, R, H) ==
  /\ Have(R, Sure(sc, Len(sc), H))
  /\ \A j \in 2..Len(bs) : Have(bs[j].entry \cup bs[j].after, Sure(sc, Level(sc, j), H))
  /\ \A j \in 2..Len(sc) : bs[j].kind \in {"if", "condition", "else"} /\ ~bs[j].first =>
       Have(bs[j].after, (bs[j].assigned \cap Seen(sc, j - 1)) \ H)

Types(sc, bs, R, H) ==
  /\ sc \in Seq(Scope) /\ bs \in Seq(Block)
  /\ Len(sc) \in 1..Len(bs)
  /\ R \in Paths /\ H \in SUBSET Vars

Sound(D, sc, bs, R, H) ==
  Types(sc, bs, R, H) /\ BlocksInv(bs) /\ ScopesInv(D, sc, bs) /\ PathsInv(sc, bs, R, H)

Parameters == {outParameters[i] : i \in DOMAIN outParameters}

IInv ==
  /\ TypeOK
  /\ Sound(Parameters, scopes, blocks, reach, hasty)
  /\ last.returns \/ last.exits => reach = {}
  /\ NoFallOff

-----------------------------------------------------------------------------
(* Maxima.                                                                 *)
LEMMA LeastElement ==
  ASSUME NEW S \in SUBSET Nat, S # {}
  PROVE  \E m \in S : \A y \in S : m <= y
<1>1. PICK m \in S : \A y \in S : ~ (<<y, m>> \in OpToRel(<, Nat))
  BY NatLessThanWellFounded, WFMin
<1>2. \A y \in S : ~ (y < m)
  BY <1>1 DEF OpToRel
<1>3. m \in S /\ \A y \in S : m <= y
  BY <1>2
<1> QED
  BY <1>3

LEMMA MaxOfBounded ==
  ASSUME NEW hi \in Nat, NEW S \in SUBSET (0..hi), S # {}
  PROVE  Max(S) \in S /\ \A y \in S : y <= Max(S)
<1> DEFINE T == {hi - y : y \in S}
<1>1. \A y \in S : y \in Int /\ hi - y \in Nat
  OBVIOUS
<1>2. T \in SUBSET Nat /\ T # {}
  BY <1>1
<1>4. PICK t \in T : \A z \in T : t <= z
  BY <1>2, LeastElement
<1>5. PICK m \in S : t = hi - m
  BY <1>4
<1>6. ASSUME NEW y \in S PROVE m >= y
  <2>1. hi - m <= hi - y
    BY <1>4, <1>5
  <2> QED
    BY <2>1, <1>1
<1> QED
  BY <1>6 DEF Max

(* The declarer of a variable is 0 or a scope that declares it, and no     *)
(* scope further inside does.                                              *)
LEMMA DeclarerType ==
  ASSUME NEW sc \in Seq(Scope), NEW v
  PROVE  /\ Declarer(sc, v) \in 0..Len(sc)
         /\ \A k \in 1..Len(sc) : v \in DOMAIN sc[k].usage => k <= Declarer(sc, v)
         /\ Declarer(sc, v) # 0 => v \in DOMAIN sc[Declarer(sc, v)].usage
<1> DEFINE S == {0} \cup {k \in DOMAIN sc : v \in DOMAIN sc[k].usage}
<1>1. Len(sc) \in Nat /\ DOMAIN sc = 1..Len(sc)
  OBVIOUS
<1>2. S \in SUBSET (0..Len(sc)) /\ S # {}
  BY <1>1
<1>3. Max(S) \in S /\ \A y \in S : y <= Max(S)
  BY <1>1, <1>2, MaxOfBounded, Zenon
<1>4. Declarer(sc, v) = Max(S)
  BY DEF Declarer
<1> HIDE DEF S
<1>5. \A k \in 1..Len(sc) : v \in DOMAIN sc[k].usage => k <= Max(S)
  BY <1>3, <1>1 DEF S
<1>6. Max(S) # 0 => v \in DOMAIN sc[Max(S)].usage
  BY <1>3 DEF S
<1>7. Max(S) \in 0..Len(sc)
  BY <1>2, <1>3
<1> QED
  BY <1>4, <1>5, <1>6, <1>7, Zenon

LEMMA TryingType ==
  ASSUME NEW bs \in Seq(Block)
  PROVE  /\ Trying(bs) \in 0..Len(bs)
         /\ Trying(bs) # 0 => bs[Trying(bs)].kind = "try"
<1> DEFINE S == {0} \cup {k \in DOMAIN bs : bs[k].kind = "try"}
<1>1. Len(bs) \in Nat /\ DOMAIN bs = 1..Len(bs)
  OBVIOUS
<1>2. S \in SUBSET (0..Len(bs)) /\ S # {}
  BY <1>1
<1>3. Max(S) \in S
  BY <1>1, <1>2, MaxOfBounded, Zenon
<1>4. Trying(bs) = Max(S)
  BY DEF Trying
<1> HIDE DEF S
<1>5. Max(S) # 0 => bs[Max(S)].kind = "try"
  BY <1>3 DEF S
<1>6. Max(S) \in 0..Len(bs)
  BY <1>2, <1>3
<1> QED
  BY <1>4, <1>5, <1>6, Zenon

-----------------------------------------------------------------------------
(* Sequences.                                                              *)
LEMMA OuterOf ==
  ASSUME NEW S, NEW s \in Seq(S), Len(s) >= 1
  PROVE  /\ Outer(s) \in Seq(S)
         /\ Len(Outer(s)) = Len(s) - 1
         /\ \A k \in 1..(Len(s) - 1) : Outer(s)[k] = s[k]
<1>1. PICK n \in Nat : Len(s) = n + 1
  <2>1. Len(s) - 1 \in Nat /\ Len(s) = (Len(s) - 1) + 1
    OBVIOUS
  <2> QED
    BY <2>1
<1>2. \A i \in 1..n : s[i] \in S
  BY <1>1
<1>3. 1 \in Int /\ n \in Int
  OBVIOUS
<1>4. /\ SubSeq(s, 1, n) \in Seq(S)
      /\ Len(SubSeq(s, 1, n)) = IF 1 <= n THEN n - 1 + 1 ELSE 0
      /\ \A i \in 1..(n - 1 + 1) : SubSeq(s, 1, n)[i] = s[1 + i - 1]
  BY <1>2, <1>3, SubSeqProperties
<1>5. Len(s) - 1 = n
  BY <1>1
<1>6. Outer(s) = SubSeq(s, 1, n)
  BY <1>5 DEF Outer
<1>7. Len(SubSeq(s, 1, n)) = n /\ \A i \in 1..n : SubSeq(s, 1, n)[i] = s[i]
  BY <1>4
<1>8. PICK o \in Seq(S) : Outer(s) = o /\ Len(o) = n /\ \A i \in 1..n : o[i] = s[i]
  BY <1>4, <1>6, <1>7, Zenon
<1> QED
  BY <1>5, <1>8

LEMMA MapOf ==
  ASSUME NEW S, NEW n \in Nat, NEW f, f = [k \in 1..n |-> f[k]], \A k \in 1..n : f[k] \in S
  PROVE  f \in Seq(S) /\ Len(f) = n
  OBVIOUS

Replaced(s, n, e) == [s EXCEPT ![n] = e]

IsReplaced(t, s, S, n, e) ==
  /\ t \in Seq(S) /\ Len(t) = Len(s) /\ t[n] = e
  /\ \A k \in 1..Len(s) : k # n => t[k] = s[k]

LEMMA ReplaceOf ==
  ASSUME NEW S, NEW s \in Seq(S), NEW n \in 1..Len(s), NEW e \in S
  PROVE  IsReplaced(Replaced(s, n, e), s, S, n, e)
  BY DEF Replaced, IsReplaced

LEMMA AppendOf ==
  ASSUME NEW S, NEW s \in Seq(S), NEW e \in S
  PROVE  /\ Append(s, e) \in Seq(S)
         /\ Len(Append(s, e)) = Len(s) + 1
         /\ \A k \in 1..Len(s) : Append(s, e)[k] = s[k]
         /\ Append(s, e)[Len(s) + 1] = e
  OBVIOUS

(* Scopes that differ in how variables are used only.                      *)
Alike(s, t) ==
  /\ Len(s) = Len(t)
  /\ \A k \in 1..Len(t) : /\ s[k].conditional = t[k].conditional
                          /\ DOMAIN s[k].usage = DOMAIN t[k].usage
                          /\ s[k].assigned = t[k].assigned

-----------------------------------------------------------------------------
(* Types of the parts.                                                     *)
LEMMA ScopeParts ==
  ASSUME NEW sc \in Seq(Scope), NEW k \in 1..Len(sc)
  PROVE  /\ sc[k] \in Scope
         /\ sc[k].conditional \in BOOLEAN
         /\ sc[k].assigned \in SUBSET Vars
         /\ DOMAIN sc[k].usage \in SUBSET Vars
         /\ sc[k].usage \in [DOMAIN sc[k].usage -> Usage]
<1>1. sc[k] \in Scope
  OBVIOUS
<1>2. sc[k].usage \in UNION {[D -> Usage] : D \in SUBSET Vars}
  BY <1>1 DEF Scope
<1>3. PICK D \in SUBSET Vars : sc[k].usage \in [D -> Usage]
  BY <1>2
<1> QED
  BY <1>1, <1>3 DEF Scope

LEMMA MakeScope ==
  ASSUME NEW c \in BOOLEAN, NEW A \in SUBSET Vars, NEW D \in SUBSET Vars, NEW u \in [D -> Usage]
  PROVE  [conditional |-> c, assigned |-> A, usage |-> u] \in Scope
<1>1. u \in UNION {[E -> Usage] : E \in SUBSET Vars}
  OBVIOUS
<1> QED
  BY <1>1 DEF Scope

(* SetUsage changes how variables are used.                                *)
LEMMA SetUsageIs ==
  ASSUME NEW sc \in Seq(Scope), NEW S, NEW u \in Usage
  PROVE  SetUsage(sc, S, u) \in Seq(Scope) /\ Alike(SetUsage(sc, S, u), sc)
<1> DEFINE use(k) == [v \in DOMAIN sc[k].usage |->
                        IF v \in S /\ k = Declarer(sc, v) THEN u ELSE sc[k].usage[v]]
           t == SetUsage(sc, S, u)
<1>1. t = [k \in DOMAIN sc |-> [sc[k] EXCEPT !.usage = use(k)]]
  BY DEF SetUsage
<1>2. DOMAIN sc = 1..Len(sc) /\ Len(sc) \in Nat
  OBVIOUS
<1> HIDE DEF t
<1>3. ASSUME NEW k \in 1..Len(sc)
      PROVE  t[k] \in Scope /\ t[k].conditional = sc[k].conditional /\ t[k].assigned = sc[k].assigned
             /\ DOMAIN t[k].usage = DOMAIN sc[k].usage
  <2>1. use(k) \in [DOMAIN sc[k].usage -> Usage] /\ DOMAIN use(k) = DOMAIN sc[k].usage
    BY <1>2, ScopeParts
  <2> HIDE DEF use
  <2>2. t[k] = [sc[k] EXCEPT !.usage = use(k)]
    BY <1>1, <1>2, <1>3
  <2>3. sc[k] = [conditional |-> sc[k].conditional, assigned |-> sc[k].assigned, usage |-> sc[k].usage]
    BY ScopeParts DEF Scope
  <2>4. t[k] = [conditional |-> sc[k].conditional, assigned |-> sc[k].assigned, usage |-> use(k)]
    BY <2>2, <2>3
  <2>5. sc[k].conditional \in BOOLEAN /\ sc[k].assigned \in SUBSET Vars /\ DOMAIN sc[k].usage \in SUBSET Vars
    BY ScopeParts
  <2>6. t[k] \in Scope
    BY <2>1, <2>4, <2>5, MakeScope, Zenon
  <2> QED
    BY <2>1, <2>4, <2>6
<1>4. t \in Seq(Scope) /\ Len(t) = Len(sc)
  <2> HIDE DEF use
  <2>1. t = [k \in 1..Len(sc) |-> t[k]]
    BY <1>1, <1>2
  <2> QED
    BY <1>2, <1>3, <2>1, MapOf, Zenon
<1> QED
  BY <1>3, <1>4 DEF t, Alike

(* What mark_assigned does to the scopes sc.                               *)
Marked(t, sc, S) ==
  /\ Len(t) = Len(sc)
  /\ \A k \in 1..Len(sc) : /\ t[k].conditional = sc[k].conditional
                           /\ DOMAIN t[k].usage = DOMAIN sc[k].usage
                           /\ t[k].assigned = sc[k].assigned \cup {v \in S : k \in Crossed(sc, v)}

LEMMA MarkAssignedIs ==
  ASSUME NEW sc \in Seq(Scope), NEW S \in SUBSET Vars
  PROVE  MarkAssigned(sc, S) \in Seq(Scope) /\ Marked(MarkAssigned(sc, S), sc, S)
<1> DEFINE more(k) == sc[k].assigned \cup {v \in S : k \in Crossed(sc, v)}
           t == [k \in DOMAIN sc |-> [sc[k] EXCEPT !.assigned = more(k)]]
<1>1. MarkAssigned(sc, S) = SetUsage(t, S, "used")
  BY DEF MarkAssigned
<1>2. DOMAIN sc = 1..Len(sc) /\ Len(sc) \in Nat
  OBVIOUS
<1>3. ASSUME NEW k \in 1..Len(sc)
      PROVE  t[k] \in Scope /\ t[k].conditional = sc[k].conditional /\ t[k].assigned = more(k)
             /\ t[k].usage = sc[k].usage
  <2>1. more(k) \in SUBSET Vars
    BY ScopeParts
  <2> HIDE DEF more
  <2>2. t[k] = [sc[k] EXCEPT !.assigned = more(k)]
    BY <1>2, <1>3
  <2> HIDE DEF t
  <2>3. sc[k] = [conditional |-> sc[k].conditional, assigned |-> sc[k].assigned, usage |-> sc[k].usage]
    BY ScopeParts DEF Scope
  <2>4. t[k] = [conditional |-> sc[k].conditional, assigned |-> more(k), usage |-> sc[k].usage]
    BY <2>2, <2>3
  <2>5. /\ sc[k].conditional \in BOOLEAN /\ DOMAIN sc[k].usage \in SUBSET Vars
        /\ sc[k].usage \in [DOMAIN sc[k].usage -> Usage]
    BY ScopeParts
  <2>6. t[k] \in Scope
    BY <2>1, <2>4, <2>5, MakeScope, Zenon
  <2> QED
    BY <2>4, <2>6
<1>4. t \in Seq(Scope) /\ Len(t) = Len(sc)
  <2>1. t = [k \in 1..Len(sc) |-> t[k]]
    BY <1>2
  <2> HIDE DEF t, more
  <2> QED
    BY <1>2, <1>3, <2>1, MapOf, Zenon
<1> HIDE DEF t
<1>5. SetUsage(t, S, "used") \in Seq(Scope) /\ Alike(SetUsage(t, S, "used"), t)
  BY <1>4, SetUsageIs, "used" \in Usage DEF Usage
<1>6. \A k \in 1..Len(sc) : /\ SetUsage(t, S, "used")[k].conditional = sc[k].conditional
                            /\ DOMAIN SetUsage(t, S, "used")[k].usage = DOMAIN sc[k].usage
                            /\ SetUsage(t, S, "used")[k].assigned = more(k)
  BY <1>3, <1>4, <1>5 DEF Alike
<1>7. Len(SetUsage(t, S, "used")) = Len(sc)
  BY <1>4, <1>5 DEF Alike
<1> QED
  BY <1>1, <1>5, <1>6, <1>7 DEF Marked

LEMMA BlockParts ==
  ASSUME NEW b \in Block
  PROVE  /\ b.kind \in Kinds /\ b.first \in BOOLEAN /\ b.assigned \in SUBSET Vars
         /\ b.entry \in Paths /\ b.after \in Paths
         /\ b.left \in BOOLEAN /\ b.returns \in BOOLEAN /\ b.exits \in BOOLEAN
  BY DEF Block

(* The paths P that raise an exception enter the handlers of a TRY.        *)
Raised(t, bs, P) ==
  /\ Len(t) = Len(bs)
  /\ \A k \in 1..Len(bs) :
       \/ t[k] = bs[k]
       \/ bs[k].kind = "try" /\ t[k] = [bs[k] EXCEPT !.entry = @ \cup P, !.left = TRUE]

LEMMA RaiseToIs ==
  ASSUME NEW bs \in Seq(Block), NEW P \in Paths
  PROVE  RaiseTo(bs, P) \in Seq(Block) /\ Raised(RaiseTo(bs, P), bs, P)
<1>1. CASE Trying(bs) = 0
  <2>1. RaiseTo(bs, P) = bs
    BY <1>1 DEF RaiseTo
  <2> QED
    BY <2>1 DEF Raised
<1>2. CASE Trying(bs) # 0
  <2>1. PICK n \in 1..Len(bs) : n = Trying(bs) /\ bs[n].kind = "try"
    BY <1>2, TryingType
  <2> DEFINE b == [bs[n] EXCEPT !.entry = @ \cup P, !.left = TRUE]
             t == [bs EXCEPT ![n] = b]
  <2>2. RaiseTo(bs, P) = t
    BY <1>2, <2>1 DEF RaiseTo
  <2>3. bs[n] \in Block
    OBVIOUS
  <2>4. b \in Block
    BY <2>3 DEF Block, Paths
  <2> HIDE DEF b
  <2>5. t \in Seq(Block) /\ Len(t) = Len(bs) /\ \A k \in 1..Len(bs) : t[k] = IF k = n THEN b ELSE bs[k]
    BY <2>1, <2>4
  <2> HIDE DEF t
  <2> QED
    BY <2>1, <2>2, <2>5 DEF Raised, b
<1> QED
  BY <1>1, <1>2

-----------------------------------------------------------------------------
(* Sound descriptions.                                                     *)
LEMMA SoundTypes ==
  ASSUME NEW D, NEW sc, NEW bs, NEW R, NEW H, Sound(D, sc, bs, R, H)
  PROVE  /\ Types(sc, bs, R, H) /\ BlocksInv(bs) /\ ScopesInv(D, sc, bs) /\ PathsInv(sc, bs, R, H)
         /\ sc \in Seq(Scope) /\ bs \in Seq(Block) /\ R \in Paths /\ H \in SUBSET Vars
         /\ Len(sc) \in 1..Len(bs) /\ Len(bs) \in Nat
  BY DEF Sound, Types

LEMMA SeenGrows ==
  ASSUME NEW sc, NEW k \in Nat, NEW j \in 1..k
  PROVE  Seen(sc, j) \subseteq Seen(sc, k)
<1>1. \A i \in 1..j : i \in 1..k
  OBVIOUS
<1> QED
  BY <1>1 DEF Seen

(* Scope j is sure of no more than scope k inside it.                      *)
LEMMA SureGrows ==
  ASSUME NEW D, NEW sc, NEW bs, NEW H, ScopesInv(D, sc, bs), NEW k \in 1..Len(sc), NEW j \in 1..k
  PROVE  Sure(sc, j, H) \subseteq Sure(sc, k, H)
<1>1. k \in Nat
  OBVIOUS
<1>2. sc[j].assigned \subseteq sc[k].assigned
  BY DEF ScopesInv
<1>3. Seen(sc, j) \subseteq Seen(sc, k)
  BY <1>1, SeenGrows
<1> QED
  BY <1>2, <1>3 DEF Sure

LEMMA LevelIs ==
  ASSUME NEW m \in Nat, NEW n \in Nat, m \in 1..n, NEW sc, Len(sc) = m, NEW j \in 2..n
  PROVE  Level(sc, j) \in 1..m
  BY DEF Level

(* More may be assigned, and paths may end.                                *)
LEMMA ReachSound ==
  ASSUME NEW D, NEW sc, NEW bs, NEW R, NEW H, Sound(D, sc, bs, R, H),
         NEW R2 \in Paths, \A r \in R2 : \E q \in R : q \subseteq r
  PROVE  Sound(D, sc, bs, R2, H)
<1>1. Types(sc, bs, R2, H)
  BY SoundTypes DEF Types
<1>2. Have(R, Sure(sc, Len(sc), H))
  BY SoundTypes DEF PathsInv
<1>3. Have(R2, Sure(sc, Len(sc), H))
  BY <1>2 DEF Have
<1>4. PathsInv(sc, bs, R2, H)
  BY <1>3, SoundTypes DEF PathsInv
<1> QED
  BY <1>1, <1>4, SoundTypes DEF Sound

(* Paths that raise enter the handlers of the innermost TRY.               *)
LEMMA RaiseSound ==
  ASSUME NEW D, NEW sc, NEW bs, NEW R, NEW H, Sound(D, sc, bs, R, H),
         NEW P \in Paths, Have(P, Sure(sc, Len(sc), H))
  PROVE  /\ Sound(D, sc, RaiseTo(bs, P), R, H)
         /\ Len(RaiseTo(bs, P)) = Len(bs)
<1> DEFINE t == RaiseTo(bs, P)
<1>1. /\ Types(sc, bs, R, H) /\ BlocksInv(bs) /\ ScopesInv(D, sc, bs) /\ PathsInv(sc, bs, R, H)
      /\ sc \in Seq(Scope) /\ bs \in Seq(Block) /\ Len(sc) \in 1..Len(bs) /\ Len(bs) \in Nat
  BY SoundTypes
<1>2. t \in Seq(Block) /\ Raised(t, bs, P)
  BY <1>1, RaiseToIs
<1> HIDE DEF t
<1>3. Len(t) = Len(bs)
  BY <1>2 DEF Raised
<1>4. ASSUME NEW k \in 1..Len(bs)
      PROVE  /\ t[k].kind = bs[k].kind /\ t[k].first = bs[k].first /\ t[k].assigned = bs[k].assigned
             /\ t[k].after = bs[k].after /\ t[k].returns = bs[k].returns /\ t[k].exits = bs[k].exits
             /\ \/ t[k].left = bs[k].left /\ t[k].entry = bs[k].entry
                \/ bs[k].kind = "try" /\ t[k].left /\ t[k].entry = bs[k].entry \cup P
  <2>1. bs[k] \in Block
    BY <1>1
  <2>2. t[k] = bs[k] \/ (bs[k].kind = "try" /\ t[k] = [bs[k] EXCEPT !.entry = @ \cup P, !.left = TRUE])
    BY <1>2 DEF Raised
  <2> QED
    BY <2>1, <2>2 DEF Block
<1>5. Types(sc, t, R, H)
  BY <1>1, <1>2, <1>3 DEF Types
<1>6. BlocksInv(t)
  <2> SUFFICES ASSUME NEW k \in 1..Len(bs)
               PROVE  BlockInv(t[k]) /\ (t[k].kind = "function" <=> k = 1)
    BY <1>3 DEF BlocksInv
  <2>1. BlockInv(bs[k]) /\ (bs[k].kind = "function" <=> k = 1)
    BY <1>1 DEF BlocksInv
  <2> QED
    BY <2>1, <1>4 DEF BlockInv, Loops
<1>7. ScopesInv(D, sc, t)
  <2>1. \A k \in 2..Len(sc) : k \in 1..Len(bs)
    BY <1>1
  <2> QED
    BY <2>1, <1>1, <1>4 DEF ScopesInv
<1>8. PathsInv(sc, t, R, H)
  <2>1. ASSUME NEW j \in 2..Len(t)
        PROVE  Have(t[j].entry \cup t[j].after, Sure(sc, Level(sc, j), H))
    <3>1. j \in 2..Len(bs) /\ j \in 1..Len(bs)
      BY <1>1, <1>3
    <3>2. Have(bs[j].entry \cup bs[j].after, Sure(sc, Level(sc, j), H))
      BY <1>1, <3>1 DEF PathsInv
    <3>3. Level(sc, j) \in 1..Len(sc) /\ Len(sc) \in 1..Len(sc)
      BY <1>1, <3>1 DEF Level
    <3>4. Sure(sc, Level(sc, j), H) \subseteq Sure(sc, Len(sc), H)
      BY <1>1, <3>3, SureGrows
    <3>5. t[j].entry \cup t[j].after \subseteq (bs[j].entry \cup bs[j].after) \cup P
      BY <1>4, <3>1
    <3> QED
      BY <3>2, <3>4, <3>5 DEF Have
  <2>2. ASSUME NEW j \in 2..Len(sc), t[j].kind \in {"if", "condition", "else"}, ~t[j].first
        PROVE  Have(t[j].after, (t[j].assigned \cap Seen(sc, j - 1)) \ H)
    <3>1. j \in 1..Len(bs)
      BY <1>1
    <3> QED
      BY <1>1, <1>4, <2>2, <3>1 DEF PathsInv
  <2> QED
    BY <1>1, <2>1, <2>2 DEF PathsInv
<1> QED
  BY <1>3, <1>5, <1>6, <1>7, <1>8 DEF Sound, t

(* EXIT: the paths leave loop k.                                           *)
LeftBy(bs2, bs, n, R) == bs2 = [bs EXCEPT ![n].left = TRUE, ![n].after = @ \cup R]

LEMMA ExitSound ==
  ASSUME NEW D, NEW sc, NEW bs, NEW R, NEW H, Sound(D, sc, bs, R, H),
         NEW n \in 1..Len(bs), bs[n].kind \in Loops,
         NEW bs2, LeftBy(bs2, bs, n, R)
  PROVE  Sound(D, sc, bs2, R, H) /\ Len(bs2) = Len(bs)
<1> DEFINE b == [bs[n] EXCEPT !.left = TRUE, !.after = @ \cup R]
           t == [bs EXCEPT ![n] = b]
<1>1. /\ Types(sc, bs, R, H) /\ BlocksInv(bs) /\ ScopesInv(D, sc, bs) /\ PathsInv(sc, bs, R, H)
      /\ sc \in Seq(Scope) /\ bs \in Seq(Block) /\ Len(sc) \in 1..Len(bs) /\ Len(bs) \in Nat /\ R \in Paths
  BY SoundTypes
<1>2. t = bs2
  BY <1>1 DEF LeftBy
<1>3. bs[n] \in Block
  BY <1>1
<1>4. b \in Block /\ b.kind = bs[n].kind /\ b.first = bs[n].first /\ b.assigned = bs[n].assigned
      /\ b.entry = bs[n].entry /\ b.left /\ b.after = bs[n].after \cup R
      /\ b.returns = bs[n].returns /\ b.exits = bs[n].exits
  BY <1>1, <1>3 DEF Block, Paths
<1> HIDE DEF b
<1>5. t \in Seq(Block) /\ Len(t) = Len(bs) /\ \A k \in 1..Len(bs) : t[k] = IF k = n THEN b ELSE bs[k]
  BY <1>1, <1>4
<1> HIDE DEF t
<1>6. Types(sc, t, R, H)
  BY <1>1, <1>5 DEF Types
<1>7. BlocksInv(t)
  <2> SUFFICES ASSUME NEW k \in 1..Len(bs)
               PROVE  BlockInv(t[k]) /\ (t[k].kind = "function" <=> k = 1)
    BY <1>5 DEF BlocksInv
  <2>1. BlockInv(bs[k]) /\ (bs[k].kind = "function" <=> k = 1)
    BY <1>1 DEF BlocksInv
  <2> QED
    BY <2>1, <1>4, <1>5 DEF BlockInv, Loops
<1>8. ScopesInv(D, sc, t)
  <2>1. \A k \in 2..Len(sc) : k \in 1..Len(bs)
    BY <1>1
  <2>2. \A k \in 1..Len(bs) : t[k].kind = bs[k].kind
    BY <1>4, <1>5
  <2> QED
    BY <2>1, <2>2, <1>1 DEF ScopesInv
<1>9. PathsInv(sc, t, R, H)
  <2>1. ASSUME NEW j \in 2..Len(t)
        PROVE  Have(t[j].entry \cup t[j].after, Sure(sc, Level(sc, j), H))
    <3>1. j \in 2..Len(bs) /\ j \in 1..Len(bs)
      BY <1>1, <1>5
    <3>2. Have(bs[j].entry \cup bs[j].after, Sure(sc, Level(sc, j), H))
      BY <1>1, <3>1 DEF PathsInv
    <3>3. Level(sc, j) \in 1..Len(sc) /\ Len(sc) \in 1..Len(sc)
      BY <1>1, <3>1 DEF Level
    <3>4. Sure(sc, Level(sc, j), H) \subseteq Sure(sc, Len(sc), H)
      BY <1>1, <3>3, SureGrows
    <3>5. t[j].entry \cup t[j].after \subseteq (bs[j].entry \cup bs[j].after) \cup R
      BY <1>4, <1>5, <3>1
    <3>6. Have(R, Sure(sc, Len(sc), H))
      BY <1>1 DEF PathsInv
    <3> QED
      BY <3>2, <3>4, <3>5, <3>6 DEF Have
  <2>2. ASSUME NEW j \in 2..Len(sc), t[j].kind \in {"if", "condition", "else"}, ~t[j].first
        PROVE  Have(t[j].after, (t[j].assigned \cap Seen(sc, j - 1)) \ H)
    <3>1. j \in 1..Len(bs)
      BY <1>1
    <3>2. j # n
      BY <2>2, <3>1, <1>4, <1>5 DEF Loops
    <3> QED
      BY <1>1, <1>5, <2>2, <3>1, <3>2 DEF PathsInv
  <2> QED
    BY <1>1, <2>1, <2>2 DEF PathsInv
<1> QED
  BY <1>2, <1>5, <1>6, <1>7, <1>8, <1>9 DEF Sound

LEMMA SeenSame ==
  ASSUME NEW s, NEW t, NEW k, \A i \in 1..k : DOMAIN s[i].usage = DOMAIN t[i].usage
  PROVE  Seen(s, k) = Seen(t, k)
  BY DEF Seen

(* How variables are used makes no difference.                             *)
LEMMA AlikeSound ==
  ASSUME NEW D, NEW sc, NEW bs, NEW R, NEW H, Sound(D, sc, bs, R, H),
         NEW t \in Seq(Scope), Alike(t, sc)
  PROVE  Sound(D, t, bs, R, H)
<1>1. /\ Types(sc, bs, R, H) /\ BlocksInv(bs) /\ ScopesInv(D, sc, bs) /\ PathsInv(sc, bs, R, H)
      /\ sc \in Seq(Scope) /\ Len(sc) \in 1..Len(bs) /\ Len(bs) \in Nat
  BY SoundTypes
<1>2. /\ Len(t) = Len(sc)
      /\ \A k \in 1..Len(sc) : /\ t[k].conditional = sc[k].conditional
                               /\ DOMAIN t[k].usage = DOMAIN sc[k].usage
                               /\ t[k].assigned = sc[k].assigned
  BY DEF Alike
<1>3. ASSUME NEW k \in 1..Len(sc)
      PROVE  Seen(t, k) = Seen(sc, k) /\ Sure(t, k, H) = Sure(sc, k, H)
  <2>1. \A i \in 1..k : i \in 1..Len(sc)
    BY <1>1
  <2>2. Seen(t, k) = Seen(sc, k)
    BY <2>1, <1>2, SeenSame
  <2> QED
    BY <2>2, <1>2 DEF Sure
<1>4. Types(t, bs, R, H)
  BY <1>1, <1>2 DEF Types
<1>5. ScopesInv(D, t, bs)
  <2>1. 1 \in 1..Len(sc) /\ \A k \in 2..Len(sc) : k \in 1..Len(sc)
    BY <1>1
  <2>2. \A k \in 1..Len(sc) : \A j \in 1..k : j \in 1..Len(sc)
    BY <1>1
  <2> QED
    BY <1>1, <1>2, <2>1, <2>2 DEF ScopesInv
<1>6. PathsInv(t, bs, R, H)
  <2>1. Len(sc) \in 1..Len(sc) /\ \A j \in 2..Len(bs) : Level(sc, j) \in 1..Len(sc)
    BY <1>1 DEF Level
  <2>2. \A j : Level(t, j) = Level(sc, j)
    BY <1>2 DEF Level
  <2>3. \A j \in 2..Len(sc) : Seen(t, j - 1) = Seen(sc, j - 1)
    <3>1. \A j \in 2..Len(sc) : j - 1 \in 1..Len(sc)
      BY <1>1
    <3> QED
      BY <3>1, <1>3
  <2> QED
    BY <1>1, <1>2, <1>3, <2>1, <2>2, <2>3 DEF PathsInv
<1> QED
  BY <1>1, <1>4, <1>5, <1>6 DEF Sound

(* mark_assigned: what it marks is assigned on all paths that lead here,   *)
(* or it is too hasty.                                                     *)
LEMMA MarkSound ==
  ASSUME NEW D, NEW sc, NEW bs, NEW R, NEW H, Sound(D, sc, bs, R, H), Len(sc) = Len(bs),
         NEW S \in SUBSET Vars, NEW G \in SUBSET Vars, H \subseteq G, Hasty(bs, sc, S) \subseteq G,
         \A v \in (S \cap Seen(sc, Len(sc))) \ G : \A r \in R : v \in r
  PROVE  /\ Sound(D, MarkAssigned(sc, S), bs, R, G)
         /\ Len(MarkAssigned(sc, S)) = Len(sc)
<1> DEFINE t == MarkAssigned(sc, S)
<1>1. /\ Types(sc, bs, R, H) /\ BlocksInv(bs) /\ ScopesInv(D, sc, bs) /\ PathsInv(sc, bs, R, H)
      /\ sc \in Seq(Scope) /\ bs \in Seq(Block) /\ Len(sc) \in 1..Len(bs) /\ Len(bs) \in Nat
  BY SoundTypes
<1>2. t \in Seq(Scope) /\ Marked(t, sc, S)
  BY <1>1, MarkAssignedIs
<1> HIDE DEF t
<1>3. /\ Len(t) = Len(sc)
      /\ \A k \in 1..Len(sc) : /\ t[k].conditional = sc[k].conditional
                               /\ DOMAIN t[k].usage = DOMAIN sc[k].usage
                               /\ t[k].assigned = sc[k].assigned \cup {v \in S : k \in Crossed(sc, v)}
  BY <1>2 DEF Marked
<1>4. ASSUME NEW k \in 1..Len(sc) PROVE Seen(t, k) = Seen(sc, k)
  <2>1. \A i \in 1..k : i \in 1..Len(sc)
    BY <1>1
  <2> QED
    BY <2>1, <1>3, SeenSame
<1>5. Types(t, bs, R, G)
  BY <1>1, <1>2, <1>3 DEF Types
<1>6. ScopesInv(D, t, bs)
  <2>1. D \subseteq DOMAIN t[1].usage
    BY <1>1, <1>3 DEF ScopesInv
  <2>2. \A k \in 2..Len(t) : ~t[k].conditional => bs[k].kind \in {"loop", "try", "condition"}
    <3>1. \A k \in 2..Len(sc) : k \in 1..Len(sc)
      BY <1>1
    <3> QED
      BY <3>1, <1>1, <1>3 DEF ScopesInv
  <2>3. ASSUME NEW k \in 1..Len(sc), NEW j \in 1..k, NEW v \in t[j].assigned
        PROVE  v \in t[k].assigned
    <3>1. j \in 1..Len(sc) /\ sc[j].assigned \subseteq sc[k].assigned
      BY <1>1 DEF ScopesInv
    <3>2. CASE v \in sc[j].assigned
      BY <3>1, <3>2, <1>3
    <3>3. CASE v \in S /\ j \in Crossed(sc, v)
      <4>1. Declarer(sc, v) \in 0..Len(sc)
        BY <1>1, DeclarerType
      <4>2. j >= Declarer(sc, v) /\ \A i \in (j + 1)..Len(sc) : ~sc[i].conditional
        BY <3>3 DEF Crossed
      <4>3. k >= Declarer(sc, v)
        BY <1>1, <4>1, <4>2
      <4>4. \A i \in (k + 1)..Len(sc) : i \in (j + 1)..Len(sc)
        BY <1>1
      <4>5. k \in Crossed(sc, v)
        BY <1>1, <4>2, <4>3, <4>4 DEF Crossed
      <4> QED
        BY <3>3, <4>5, <1>3
    <3> QED
      BY <2>3, <3>1, <3>2, <3>3, <1>3
  <2> QED
    BY <2>1, <2>2, <2>3, <1>3 DEF ScopesInv
<1>7. Have(R, Sure(t, Len(t), G))
  <2>1. Len(sc) \in 1..Len(sc)
    BY <1>1
  <2>2. ASSUME NEW r \in R, NEW v \in Sure(t, Len(sc), G) PROVE v \in r
    <3>1. v \in t[Len(sc)].assigned /\ v \in Seen(sc, Len(sc)) /\ v \notin G
      BY <2>1, <2>2, <1>4 DEF Sure
    <3>2. CASE v \in sc[Len(sc)].assigned
      BY <3>1, <3>2, <1>1 DEF PathsInv, Have, Sure
    <3>3. CASE v \in S
      BY <3>1, <3>3
    <3> QED
      BY <3>1, <3>2, <3>3, <2>1, <1>3
  <2> QED
    BY <2>2, <1>3 DEF Have
<1>8. ASSUME NEW j \in 2..Len(bs)
      PROVE  Have(bs[j].entry \cup bs[j].after, Sure(t, Level(t, j), G))
  <2>1. Level(t, j) = j - 1 /\ Level(sc, j) = j - 1
    BY <1>1, <1>3 DEF Level
  <2>2. j - 1 \in 1..Len(sc) /\ j \in 1..Len(sc) /\ j \in 2..Len(sc)
    BY <1>1
  <2>3. Have(bs[j].entry \cup bs[j].after, Sure(sc, j - 1, H))
    BY <1>1, <2>1 DEF PathsInv
  <2>4. ASSUME NEW v \in Sure(t, j - 1, G), NEW r \in bs[j].entry \cup bs[j].after PROVE v \in r
    <3>1. v \in t[j - 1].assigned /\ v \in Seen(sc, j - 1) /\ v \notin G
      BY <2>2, <2>4, <1>4 DEF Sure
    <3>2. CASE v \in sc[j - 1].assigned
      BY <3>1, <3>2, <2>3 DEF Have, Sure
    <3>3. CASE v \in S /\ j - 1 \in Crossed(sc, v)
      <4>1. \A i \in ((j - 1) + 1)..Len(sc) : ~sc[i].conditional
        BY <3>3 DEF Crossed
      <4>2. j \in ((j - 1) + 1)..Len(sc)
        BY <2>2
      <4>3. bs[j].kind \in {"loop", "try", "condition"}
        BY <4>1, <4>2, <2>2, <1>1 DEF ScopesInv
      <4>4. j \in DOMAIN sc
        BY <2>2, <1>1
      <4>5. Evaded(bs[j], v) => v \in Hasty(bs, sc, S)
        BY <3>3, <4>4 DEF Hasty
      <4>6. ~bs[j].left /\ (bs[j].kind = "condition" => \A q \in bs[j].after : v \in q)
        BY <3>1, <4>5 DEF Evaded
      <4>7. BlockInv(bs[j])
        BY <1>1, <2>2 DEF BlocksInv
      <4>8. bs[j].entry = {} /\ (bs[j].kind # "condition" => bs[j].after = {})
        BY <4>3, <4>6, <4>7 DEF BlockInv, Loops
      <4> QED
        BY <2>4, <4>6, <4>8
    <3> QED
      BY <3>1, <3>2, <3>3, <2>2, <1>3
  <2> QED
    BY <2>1, <2>4 DEF Have
<1>9. ASSUME NEW j \in 2..Len(sc), bs[j].kind \in {"if", "condition", "else"}, ~bs[j].first
      PROVE  Have(bs[j].after, (bs[j].assigned \cap Seen(t, j - 1)) \ G)
  <2>1. j - 1 \in 1..Len(sc)
    BY <1>1
  <2>2. Have(bs[j].after, (bs[j].assigned \cap Seen(sc, j - 1)) \ H)
    BY <1>1, <1>9 DEF PathsInv
  <2> QED
    BY <2>1, <2>2, <1>4 DEF Have
<1>10. PathsInv(t, bs, R, G)
  BY <1>3, <1>7, <1>8, <1>9 DEF PathsInv
<1> QED
  BY <1>1, <1>3, <1>5, <1>6, <1>10 DEF Sound, t

(* The end of the innermost block.                                         *)
Closed(sc, bs) == IF Len(sc) < Len(bs) THEN sc ELSE Outer(sc)

LEMMA ClosedIs ==
  ASSUME NEW sc \in Seq(Scope), NEW bs \in Seq(Block), Len(bs) >= 2, Len(sc) \in 1..Len(bs)
  PROVE  LET t == Closed(sc, bs)
         IN  /\ t \in Seq(Scope) /\ Len(t) \in 1..(Len(bs) - 1)
             /\ Len(t) = IF Len(sc) < Len(bs) THEN Len(sc) ELSE Len(bs) - 1
             /\ Len(t) \in 1..Len(sc)
             /\ \A k \in 1..Len(t) : t[k] = sc[k] /\ Seen(t, k) = Seen(sc, k)
             /\ \A k \in 1..Len(t) : \A H : Sure(t, k, H) = Sure(sc, k, H)
             /\ Level(sc, Len(bs)) = Len(t)
             /\ \A j \in 2..(Len(bs) - 1) : Level(t, j) = Level(sc, j)
<1> DEFINE t == Closed(sc, bs)
<1>1. /\ t \in Seq(Scope) /\ Len(t) = IF Len(sc) < Len(bs) THEN Len(sc) ELSE Len(bs) - 1
      /\ \A k \in 1..Len(t) : t[k] = sc[k]
  <2>1. CASE Len(sc) < Len(bs)
    BY <2>1 DEF Closed
  <2>2. CASE ~ (Len(sc) < Len(bs))
    <3>1. Len(sc) = Len(bs) /\ Len(sc) >= 1
      BY <2>2
    <3>2. /\ Outer(sc) \in Seq(Scope) /\ Len(Outer(sc)) = Len(sc) - 1
          /\ \A k \in 1..(Len(sc) - 1) : Outer(sc)[k] = sc[k]
      BY <3>1, OuterOf
    <3> QED
      BY <2>2, <3>1, <3>2 DEF Closed
  <2> QED
    BY <2>1, <2>2
<1> HIDE DEF t
<1>2. Len(t) \in 1..(Len(bs) - 1) /\ Len(t) \in 1..Len(sc)
  BY <1>1
<1>3. ASSUME NEW k \in 1..Len(t) PROVE Seen(t, k) = Seen(sc, k)
  <2>1. \A i \in 1..k : i \in 1..Len(t)
    BY <1>2
  <2> QED
    BY <2>1, <1>1, SeenSame
<1>4. \A k \in 1..Len(t) : \A H : Sure(t, k, H) = Sure(sc, k, H)
  BY <1>1, <1>3 DEF Sure
<1>5. Level(sc, Len(bs)) = Len(t)
  BY <1>1 DEF Level
<1>6. \A j \in 2..(Len(bs) - 1) : Level(t, j) = Level(sc, j)
  BY <1>1 DEF Level
<1> QED
  BY <1>1, <1>2, <1>3, <1>4, <1>5, <1>6 DEF t

(* What the scope around a block is sure of is assigned on all paths that  *)
(* lead to its end, behind it or to its next branch.                       *)
LEMMA ClosedHave ==
  ASSUME NEW D, NEW sc, NEW bs, NEW R, NEW H, Sound(D, sc, bs, R, H), Len(bs) >= 2
  PROVE  LET t == Closed(sc, bs)
             b == bs[Len(bs)]
         IN  Have(R \cup b.entry \cup b.after, Sure(t, Len(t), H))
<1> DEFINE t == Closed(sc, bs)
           b == bs[Len(bs)]
<1>1. /\ Types(sc, bs, R, H) /\ BlocksInv(bs) /\ ScopesInv(D, sc, bs) /\ PathsInv(sc, bs, R, H)
      /\ sc \in Seq(Scope) /\ bs \in Seq(Block) /\ Len(sc) \in 1..Len(bs) /\ Len(bs) \in Nat
  BY SoundTypes
<1>2. /\ Len(t) \in 1..Len(sc) /\ Level(sc, Len(bs)) = Len(t) /\ Sure(t, Len(t), H) = Sure(sc, Len(t), H)
  <2>1. Len(t) \in 1..Len(sc) /\ Level(sc, Len(bs)) = Len(t)
        /\ \A k \in 1..Len(t) : \A G : Sure(t, k, G) = Sure(sc, k, G)
    BY <1>1, ClosedIs
  <2>2. Len(t) \in 1..Len(t)
    BY <2>1, <1>1
  <2> QED
    BY <2>1, <2>2
<1> HIDE DEF t
<1>3. Have(b.entry \cup b.after, Sure(sc, Len(t), H))
  BY <1>1, <1>2 DEF PathsInv
<1>4. Sure(sc, Len(t), H) \subseteq Sure(sc, Len(sc), H)
  <2>1. Len(sc) \in 1..Len(sc)
    BY <1>1
  <2> QED
    BY <1>1, <1>2, <2>1, SureGrows
<1>5. Have(R, Sure(sc, Len(sc), H))
  BY <1>1 DEF PathsInv
<1>6. Have(R \cup b.entry \cup b.after, Sure(sc, Len(t), H))
  BY <1>3, <1>4, <1>5 DEF Have
<1> QED
  BY <1>2, <1>6 DEF t

LEMMA CloseSound ==
  ASSUME NEW D, NEW sc, NEW bs, NEW R, NEW H, Sound(D, sc, bs, R, H), Len(bs) >= 2,
         NEW R2 \in Paths, Have(R2, Sure(Closed(sc, bs), Len(Closed(sc, bs)), H))
  PROVE  Sound(D, Closed(sc, bs), Outer(bs), R2, H)
<1> DEFINE t == Closed(sc, bs)
           o == Outer(bs)
<1>1. /\ Types(sc, bs, R, H) /\ BlocksInv(bs) /\ ScopesInv(D, sc, bs) /\ PathsInv(sc, bs, R, H)
      /\ sc \in Seq(Scope) /\ bs \in Seq(Block) /\ Len(sc) \in 1..Len(bs) /\ Len(bs) \in Nat
      /\ H \in SUBSET Vars
  BY SoundTypes
<1>2. /\ t \in Seq(Scope) /\ Len(t) \in 1..(Len(bs) - 1) /\ Len(t) \in 1..Len(sc)
      /\ \A k \in 1..Len(t) : t[k] = sc[k] /\ Seen(t, k) = Seen(sc, k)
      /\ \A k \in 1..Len(t) : \A G : Sure(t, k, G) = Sure(sc, k, G)
      /\ \A j \in 2..(Len(bs) - 1) : Level(t, j) = Level(sc, j)
  BY <1>1, ClosedIs
<1>3. o \in Seq(Block) /\ Len(o) = Len(bs) - 1 /\ \A k \in 1..(Len(bs) - 1) : o[k] = bs[k]
  BY <1>1, OuterOf
<1>4. Have(R2, Sure(t, Len(t), H))
  OBVIOUS
<1> HIDE DEF t, o
<1>5. Types(t, o, R2, H)
  BY <1>1, <1>2, <1>3 DEF Types
<1>6. BlocksInv(o)
  <2> SUFFICES ASSUME NEW k \in 1..(Len(bs) - 1)
               PROVE  BlockInv(o[k]) /\ (o[k].kind = "function" <=> k = 1)
    BY <1>3 DEF BlocksInv
  <2>1. k \in 1..Len(bs) /\ o[k] = bs[k]
    BY <1>1, <1>3
  <2> QED
    BY <1>1, <2>1 DEF BlocksInv
<1>7. ScopesInv(D, t, o)
  <2>1. 1 \in 1..Len(t) /\ \A k \in 2..Len(t) : k \in 1..Len(t) /\ k \in 2..Len(sc) /\ k \in 1..(Len(bs) - 1)
    BY <1>1, <1>2
  <2>2. \A k \in 1..Len(t) : k \in 1..Len(sc) /\ \A j \in 1..k : j \in 1..Len(t)
    BY <1>1, <1>2
  <2> QED
    BY <1>1, <1>2, <1>3, <2>1, <2>2 DEF ScopesInv
<1>8. ASSUME NEW j \in 2..Len(o)
      PROVE  Have(o[j].entry \cup o[j].after, Sure(t, Level(t, j), H))
  <2>1. j \in 2..(Len(bs) - 1) /\ j \in 1..(Len(bs) - 1) /\ j \in 2..Len(bs)
    BY <1>1, <1>3
  <2>2. Level(t, j) = Level(sc, j) /\ Level(t, j) \in 1..Len(t)
    BY <1>1, <1>2, <2>1 DEF Level
  <2>3. o[j] = bs[j] /\ Sure(t, Level(t, j), H) = Sure(sc, Level(sc, j), H)
    BY <1>2, <1>3, <2>1, <2>2
  <2> QED
    BY <1>1, <2>1, <2>3 DEF PathsInv
<1>9. ASSUME NEW j \in 2..Len(t), o[j].kind \in {"if", "condition", "else"}, ~o[j].first
      PROVE  Have(o[j].after, (o[j].assigned \cap Seen(t, j - 1)) \ H)
  <2>1. j \in 2..Len(sc) /\ j - 1 \in 1..Len(t) /\ j \in 1..(Len(bs) - 1)
    BY <1>1, <1>2
  <2>2. o[j] = bs[j] /\ Seen(t, j - 1) = Seen(sc, j - 1)
    BY <1>2, <1>3, <2>1
  <2> QED
    BY <1>1, <1>9, <2>1, <2>2 DEF PathsInv
<1>10. PathsInv(t, o, R2, H)
  BY <1>4, <1>8, <1>9 DEF PathsInv
<1> QED
  BY <1>5, <1>6, <1>7, <1>10 DEF Sound, t, o

(* A block is opened: in a handler without a scope, elsewhere with one.    *)
LEMMA PushBlocks ==
  ASSUME NEW bs \in Seq(Block), Len(bs) >= 1, BlocksInv(bs),
         NEW b \in Block, b.kind # "function", BlockInv(b)
  PROVE  /\ BlocksInv(Append(bs, b))
         /\ Append(bs, b) \in Seq(Block) /\ Len(Append(bs, b)) = Len(bs) + 1
         /\ \A k \in 1..Len(bs) : Append(bs, b)[k] = bs[k]
         /\ Append(bs, b)[Len(bs) + 1] = b
<1> DEFINE t == Append(bs, b)
<1>1. /\ t \in Seq(Block) /\ Len(t) = Len(bs) + 1
      /\ \A k \in 1..Len(bs) : t[k] = bs[k]
      /\ t[Len(bs) + 1] = b
  BY AppendOf
<1> HIDE DEF t
<1>2. ASSUME NEW k \in 1..Len(t)
      PROVE  BlockInv(t[k]) /\ (t[k].kind = "function" <=> k = 1)
  <2>1. CASE k \in 1..Len(bs)
    BY <2>1, <1>1 DEF BlocksInv
  <2>2. CASE k = Len(bs) + 1
    BY <2>2, <1>1
  <2> QED
    BY <2>1, <2>2, <1>1
<1> QED
  BY <1>1, <1>2 DEF BlocksInv, t

LEMMA PushHandlerSound ==
  ASSUME NEW D, NEW sc, NEW bs, NEW R, NEW H, Sound(D, sc, bs, R, H),
         NEW b \in Block, b.kind # "function", BlockInv(b),
         Have(b.entry \cup b.after, Sure(sc, Len(sc), H))
  PROVE  Sound(D, sc, Append(bs, b), R, H)
<1> DEFINE t == Append(bs, b)
<1>1. /\ Types(sc, bs, R, H) /\ BlocksInv(bs) /\ ScopesInv(D, sc, bs) /\ PathsInv(sc, bs, R, H)
      /\ sc \in Seq(Scope) /\ bs \in Seq(Block) /\ Len(sc) \in 1..Len(bs) /\ Len(bs) \in Nat
  BY SoundTypes
<1>2. /\ BlocksInv(t) /\ t \in Seq(Block) /\ Len(t) = Len(bs) + 1
      /\ \A k \in 1..Len(bs) : t[k] = bs[k]
      /\ t[Len(bs) + 1] = b
  BY <1>1, PushBlocks
<1> HIDE DEF t
<1>3. Types(sc, t, R, H)
  BY <1>1, <1>2 DEF Types
<1>4. \A k \in 2..Len(sc) : k \in 1..Len(bs)
  BY <1>1
<1>5. ScopesInv(D, sc, t)
  BY <1>1, <1>2, <1>4 DEF ScopesInv
<1>6. ASSUME NEW j \in 2..Len(t)
      PROVE  Have(t[j].entry \cup t[j].after, Sure(sc, Level(sc, j), H))
  <2>1. CASE j \in 2..Len(bs)
    <3>1. j \in 1..Len(bs)
      BY <2>1
    <3> QED
      BY <2>1, <3>1, <1>1, <1>2 DEF PathsInv
  <2>2. CASE j = Len(bs) + 1
    <3>1. Level(sc, j) = Len(sc)
      BY <2>2, <1>1 DEF Level
    <3> QED
      BY <2>2, <3>1, <1>2
  <2> QED
    BY <2>1, <2>2, <1>1, <1>2
<1>7. PathsInv(sc, t, R, H)
  BY <1>1, <1>2, <1>4, <1>6 DEF PathsInv
<1> QED
  BY <1>2, <1>3, <1>5, <1>7 DEF Sound, t

LEMMA PushScopeSound ==
  ASSUME NEW D, NEW sc, NEW bs, NEW R, NEW H, Sound(D, sc, bs, R, H), Len(sc) = Len(bs),
         NEW b \in Block, b.kind # "function", BlockInv(b),
         Have(b.entry \cup b.after, Sure(sc, Len(sc), H)),
         b.kind \in {"if", "condition", "else"} /\ ~b.first =>
           Have(b.after, (b.assigned \cap Seen(sc, Len(sc))) \ H),
         NEW c \in BOOLEAN, ~c => b.kind \in {"loop", "try", "condition"}
  PROVE  Sound(D, Append(sc, NewScope(c, Inner(sc).assigned)), Append(bs, b), R, H)
<1> DEFINE s == NewScope(c, Inner(sc).assigned)
           u == Append(sc, s)
           t == Append(bs, b)
<1>1. /\ Types(sc, bs, R, H) /\ BlocksInv(bs) /\ ScopesInv(D, sc, bs) /\ PathsInv(sc, bs, R, H)
      /\ sc \in Seq(Scope) /\ bs \in Seq(Block) /\ Len(sc) \in 1..Len(bs) /\ Len(bs) \in Nat
  BY SoundTypes
<1>2. PICK n \in Nat : Len(sc) = n /\ Len(bs) = n /\ n >= 1
  BY <1>1
<1>3. /\ BlocksInv(t) /\ t \in Seq(Block) /\ Len(t) = n + 1
      /\ \A k \in 1..n : t[k] = bs[k]
      /\ t[n + 1] = b
  BY <1>1, <1>2, PushBlocks
<1>4. /\ s \in Scope /\ s.conditional = c /\ s.assigned = sc[n].assigned /\ DOMAIN s.usage = {}
  <2>1. s = [conditional |-> c, assigned |-> sc[n].assigned, usage |-> <<>>]
    BY <1>2 DEF NewScope, Inner
  <2>2. sc[n].assigned \in SUBSET Vars
    BY <1>1, <1>2, ScopeParts
  <2>3. <<>> \in [{} -> Usage] /\ {} \in SUBSET Vars
    OBVIOUS
  <2>4. s \in Scope
    BY <2>1, <2>2, <2>3, MakeScope, Zenon
  <2> QED
    BY <2>1, <2>3, <2>4
<1>5. u \in Seq(Scope) /\ Len(u) = n + 1 /\ (\A k \in 1..n : u[k] = sc[k]) /\ u[n + 1] = s
  <2> HIDE DEF s
  <2> QED
    BY <1>1, <1>2, <1>4, AppendOf
<1> HIDE DEF s, u, t
<1>6. Types(u, t, R, H)
  BY <1>1, <1>2, <1>3, <1>5 DEF Types
<1>7. ScopesInv(D, u, t)
  <2>1. D \subseteq DOMAIN u[1].usage
    BY <1>1, <1>2, <1>5 DEF ScopesInv
  <2>2. ASSUME NEW k \in 2..(n + 1), ~u[k].conditional PROVE t[k].kind \in {"loop", "try", "condition"}
    <3>1. CASE k \in 2..n
      <4>1. k \in 1..n /\ k \in 2..Len(sc)
        BY <3>1, <1>2
      <4> QED
        BY <4>1, <2>2, <1>1, <1>3, <1>5 DEF ScopesInv
    <3>2. CASE k = n + 1
      BY <3>2, <2>2, <1>3, <1>4, <1>5
    <3> QED
      BY <3>1, <3>2, <1>2
  <2>3. ASSUME NEW k \in 1..(n + 1), NEW j \in 1..k PROVE u[j].assigned \subseteq u[k].assigned
    <3>1. CASE k \in 1..n
      <4>1. j \in 1..n
        BY <3>1
      <4> QED
        BY <3>1, <4>1, <1>1, <1>2, <1>5 DEF ScopesInv
    <3>2. CASE k = n + 1 /\ j \in 1..n
      <4>1. n \in 1..Len(sc) /\ j \in 1..n
        BY <3>2, <1>2
      <4>2. sc[j].assigned \subseteq sc[n].assigned
        BY <4>1, <1>1 DEF ScopesInv
      <4> QED
        BY <3>2, <4>2, <1>4, <1>5
    <3>3. CASE k = n + 1 /\ j = n + 1
      BY <3>3
    <3> QED
      BY <3>1, <3>2, <3>3, <1>2
  <2> QED
    BY <2>1, <2>2, <2>3, <1>5 DEF ScopesInv
<1>8. \A k \in 1..n : Seen(u, k) = Seen(sc, k)
  <2> SUFFICES ASSUME NEW k \in 1..n PROVE Seen(u, k) = Seen(sc, k)
    OBVIOUS
  <2>1. \A i \in 1..k : i \in 1..n
    OBVIOUS
  <2> QED
    BY <2>1, <1>5, SeenSame
<1>9. Seen(u, n + 1) = Seen(sc, n)
  <2>1. Seen(u, n + 1) = Seen(u, n) \cup DOMAIN u[n + 1].usage
    <3>1. \A i : i \in 1..(n + 1) <=> i \in 1..n \/ i = n + 1
      OBVIOUS
    <3> QED
      BY <3>1 DEF Seen
  <2>2. n \in 1..n
    BY <1>2
  <2> QED
    BY <2>1, <2>2, <1>4, <1>5, <1>8
<1>10. Sure(u, n + 1, H) = Sure(sc, n, H) /\ \A k \in 1..n : Sure(u, k, H) = Sure(sc, k, H)
  BY <1>4, <1>5, <1>8, <1>9 DEF Sure
<1>11. Have(R, Sure(u, Len(u), H))
  BY <1>1, <1>2, <1>5, <1>10 DEF PathsInv
<1>12. ASSUME NEW j \in 2..(n + 1)
       PROVE  Have(t[j].entry \cup t[j].after, Sure(u, Level(u, j), H))
  <2>1. Level(u, j) = j - 1 /\ j - 1 \in 1..n
    BY <1>2, <1>5 DEF Level
  <2>2. CASE j \in 2..n
    <3>1. j \in 1..n /\ Level(sc, j) = j - 1 /\ j \in 2..Len(bs)
      BY <2>2, <1>2 DEF Level
    <3>2. Have(bs[j].entry \cup bs[j].after, Sure(sc, j - 1, H))
      BY <3>1, <1>1 DEF PathsInv
    <3> QED
      BY <2>1, <3>1, <3>2, <1>3, <1>10
  <2>3. CASE j = n + 1
    <3>1. Level(u, j) = n /\ n \in 1..n
      BY <2>1, <2>3, <1>2
    <3> QED
      BY <2>3, <3>1, <1>2, <1>3, <1>10
  <2> QED
    BY <2>2, <2>3, <1>2
<1>13. ASSUME NEW j \in 2..(n + 1), t[j].kind \in {"if", "condition", "else"}, ~t[j].first
       PROVE  Have(t[j].after, (t[j].assigned \cap Seen(u, j - 1)) \ H)
  <2>1. CASE j \in 2..n
    <3>1. j \in 1..n /\ j - 1 \in 1..n /\ j \in 2..Len(sc)
      BY <2>1, <1>2
    <3> QED
      BY <3>1, <1>1, <1>3, <1>8, <1>13 DEF PathsInv
  <2>2. CASE j = n + 1
    <3>1. j - 1 = n /\ n \in 1..n
      BY <2>2, <1>2
    <3> QED
      BY <2>2, <3>1, <1>2, <1>3, <1>8, <1>13
  <2> QED
    BY <2>1, <2>2, <1>2
<1>14. PathsInv(u, t, R, H)
  BY <1>3, <1>5, <1>11, <1>12, <1>13 DEF PathsInv
<1> QED
  BY <1>3, <1>6, <1>7, <1>14 DEF Sound, s, t, u

(* A variable is declared in the innermost scope.                          *)
Declared(sc2, sc, v, initialised) ==
  sc2 = [sc EXCEPT ![Len(sc)].usage = [x \in DOMAIN @ \cup {v} |-> IF x = v THEN "unused" ELSE @[x]],
                   ![Len(sc)].assigned = IF initialised THEN @ \cup {v} ELSE @]

LEMMA DeclareSound ==
  ASSUME NEW D, NEW sc, NEW bs, NEW R, NEW H, Sound(D, sc, bs, R, H), Len(sc) = Len(bs),
         NEW v \in Vars, v \notin Visible(sc), NEW initialised \in BOOLEAN,
         NEW sc2, Declared(sc2, sc, v, initialised),
         NEW R2, R2 = IF initialised THEN AddTo(R, v) ELSE {r \ {v} : r \in R},
         NEW G, G = IF ~initialised /\ v \in Inner(sc).assigned THEN H \cup {v} ELSE H
  PROVE  Sound(D, sc2, bs, R2, G)
<1>1. /\ Types(sc, bs, R, H) /\ BlocksInv(bs) /\ ScopesInv(D, sc, bs) /\ PathsInv(sc, bs, R, H)
      /\ sc \in Seq(Scope) /\ bs \in Seq(Block) /\ Len(sc) \in 1..Len(bs) /\ Len(bs) \in Nat
      /\ R \in Paths /\ H \in SUBSET Vars
  BY SoundTypes
<1>2. PICK n \in Nat : Len(sc) = n /\ Len(bs) = n /\ n >= 1
  BY <1>1
<1>3. n \in 1..n /\ n \in 1..Len(sc) /\ Inner(sc) = sc[n]
  BY <1>2 DEF Inner
<1> DEFINE use == [x \in DOMAIN sc[n].usage \cup {v} |-> IF x = v THEN "unused" ELSE sc[n].usage[x]]
           asg == IF initialised THEN sc[n].assigned \cup {v} ELSE sc[n].assigned
           s == [conditional |-> sc[n].conditional, assigned |-> asg, usage |-> use]
<1>4. use \in [DOMAIN sc[n].usage \cup {v} -> Usage] /\ DOMAIN use = DOMAIN sc[n].usage \cup {v}
  BY <1>1, <1>3, ScopeParts DEF Usage
<1>5. asg \in SUBSET Vars
  BY <1>1, <1>3, ScopeParts
<1>6. sc[n] = [conditional |-> sc[n].conditional, assigned |-> sc[n].assigned, usage |-> sc[n].usage]
  BY <1>1, <1>3, ScopeParts DEF Scope
<1>7. sc2 = [sc EXCEPT ![n] = s]
  <2>1. DOMAIN sc = 1..n
    BY <1>1, <1>2
  <2>2. sc2 = [sc EXCEPT ![n] = [sc[n] EXCEPT !.usage = use, !.assigned = asg]]
    BY <1>2, <1>3, <2>1 DEF Declared
  <2> HIDE DEF use, asg
  <2>3. [sc[n] EXCEPT !.usage = use, !.assigned = asg] = s
    <3>1. [sc[n] EXCEPT !.usage = use]
            = [conditional |-> sc[n].conditional, assigned |-> sc[n].assigned, usage |-> use]
      BY <1>6
    <3>2. [[sc[n] EXCEPT !.usage = use] EXCEPT !.assigned = asg]
            = [conditional |-> sc[n].conditional, assigned |-> asg, usage |-> use]
      <4>1. PICK e : e = [sc[n] EXCEPT !.usage = use]
        OBVIOUS
      <4>2. e = [conditional |-> sc[n].conditional, assigned |-> sc[n].assigned, usage |-> use]
        BY <3>1, <4>1, Zenon
      <4>3. [e EXCEPT !.assigned = asg] = [conditional |-> sc[n].conditional, assigned |-> asg, usage |-> use]
        BY <4>2
      <4> QED
        BY <4>1, <4>3, Zenon
    <3>3. [sc[n] EXCEPT !.usage = use, !.assigned = asg]
            = [[sc[n] EXCEPT !.usage = use] EXCEPT !.assigned = asg]
      OBVIOUS
    <3> QED
      BY <3>2, <3>3
  <2> QED
    BY <2>2, <2>3
<1> HIDE DEF use, asg
<1>8. s \in Scope
  <2>1. DOMAIN sc[n].usage \cup {v} \in SUBSET Vars /\ sc[n].conditional \in BOOLEAN
    BY <1>1, <1>3, ScopeParts
  <2> QED
    BY <1>4, <1>5, <2>1, MakeScope, Zenon
<1>9. s.conditional = sc[n].conditional /\ s.assigned = asg /\ s.usage = use
  OBVIOUS
<1> HIDE DEF s
<1>10. sc2 \in Seq(Scope) /\ Len(sc2) = n /\ sc2[n] = s /\ \A k \in 1..(n - 1) : sc2[k] = sc[k]
  <2>1. n \in 1..Len(sc) /\ sc \in Seq(Scope)
    BY <1>1, <1>3
  <2>2. sc2 = Replaced(sc, n, s)
    BY <1>7, Zenon DEF Replaced
  <2>3. /\ sc2 \in Seq(Scope) /\ Len(sc2) = Len(sc) /\ sc2[n] = s
        /\ \A k \in 1..Len(sc) : k # n => sc2[k] = sc[k]
    <3>1. \A e \in Scope : IsReplaced(Replaced(sc, n, e), sc, Scope, n, e)
      BY <2>1, ReplaceOf
    <3>2. IsReplaced(sc2, sc, Scope, n, s)
      BY <3>1, <2>2, <1>8, Zenon
    <3> QED
      BY <3>2 DEF IsReplaced
  <2>4. \A k \in 1..(n - 1) : k \in 1..n /\ k # n
    OBVIOUS
  <2> QED
    BY <2>3, <2>4, <1>2
<1>11. \A k \in 1..n : k \in 1..(n - 1) \/ k = n
  OBVIOUS
<1>12. R2 \in Paths /\ G \in SUBSET Vars /\ H \subseteq G
  BY <1>1 DEF Paths, AddTo
<1>13. Types(sc2, bs, R2, G)
  BY <1>1, <1>2, <1>10, <1>12 DEF Types
<1>14. sc[n].assigned \subseteq asg /\ asg \subseteq sc[n].assigned \cup {v}
  BY DEF asg
<1>15. ScopesInv(D, sc2, bs)
  <2>1. D \subseteq DOMAIN sc2[1].usage
    <3>1. CASE n = 1
      BY <3>1, <1>1, <1>4, <1>9, <1>10 DEF ScopesInv
    <3>2. CASE n # 1
      <4>1. 1 \in 1..(n - 1)
        BY <3>2, <1>2
      <4> QED
        BY <4>1, <1>1, <1>10 DEF ScopesInv
    <3> QED
      BY <3>1, <3>2
  <2>2. \A k \in 1..n : sc2[k].conditional = sc[k].conditional
    BY <1>9, <1>10, <1>11
  <2>3. \A k \in 2..n : ~sc2[k].conditional => bs[k].kind \in {"loop", "try", "condition"}
    BY <2>2, <1>1, <1>2 DEF ScopesInv
  <2>4. ASSUME NEW k \in 1..n, NEW j \in 1..k PROVE sc2[j].assigned \subseteq sc2[k].assigned
    <3>1. sc[j].assigned \subseteq sc[k].assigned
      BY <1>1, <1>2 DEF ScopesInv
    <3>2. CASE k \in 1..(n - 1)
      <4>1. j \in 1..(n - 1)
        BY <3>2
      <4> QED
        BY <3>1, <3>2, <4>1, <1>10
    <3>3. CASE k = n /\ j \in 1..(n - 1)
      BY <3>1, <3>3, <1>9, <1>10, <1>14
    <3>4. CASE k = n /\ j = n
      BY <3>4
    <3>5. j \in 1..n
      OBVIOUS
    <3> QED
      BY <3>2, <3>3, <3>4, <3>5, <1>11
  <2> QED
    BY <2>1, <2>3, <2>4, <1>10 DEF ScopesInv
<1>16. ASSUME NEW k \in 1..(n - 1)
       PROVE  Seen(sc2, k) = Seen(sc, k) /\ Sure(sc2, k, G) \subseteq Sure(sc, k, H) /\ v \notin Seen(sc, k)
  <2>1. \A i \in 1..k : i \in 1..(n - 1) /\ i \in DOMAIN sc
    BY <1>1, <1>2
  <2>2. Seen(sc2, k) = Seen(sc, k)
    BY <2>1, <1>10, SeenSame
  <2>3. v \notin Seen(sc, k)
    BY <2>1 DEF Seen, Visible
  <2> QED
    BY <2>2, <2>3, <1>10, <1>12 DEF Sure
<1>17. Seen(sc2, n) = Seen(sc, n) \cup {v}
  <2>1. \A i \in 1..n : DOMAIN sc2[i].usage = IF i = n THEN DOMAIN sc[i].usage \cup {v} ELSE DOMAIN sc[i].usage
    BY <1>4, <1>9, <1>10, <1>11
  <2> QED
    BY <2>1, <1>3 DEF Seen
<1>18. Have(R, Sure(sc, n, H))
  BY <1>1, <1>2 DEF PathsInv
<1>19. ASSUME NEW r \in R2, NEW w \in Sure(sc2, n, G) PROVE w \in r
  <2>1. w \in asg /\ w \in Seen(sc, n) \cup {v} /\ w \notin G
    BY <1>9, <1>10, <1>17, <1>19 DEF Sure
  <2>2. CASE initialised
    <3>1. PICK q \in R : r = q \cup {v}
      BY <2>2 DEF AddTo
    <3>2. w = v \/ w \in Sure(sc, n, H)
      BY <2>1, <1>12, <1>14 DEF Sure
    <3> QED
      BY <3>1, <3>2, <1>18 DEF Have
  <2>3. CASE ~initialised
    <3>1. PICK q \in R : r = q \ {v}
      BY <2>3
    <3>2. w \in sc[n].assigned
      BY <2>1, <2>3 DEF asg
    <3>3. w # v
      BY <2>1, <2>3, <3>2, <1>3
    <3>4. w \in Sure(sc, n, H)
      BY <2>1, <3>2, <3>3, <1>12 DEF Sure
    <3> QED
      BY <3>1, <3>3, <3>4, <1>18 DEF Have
  <2> QED
    BY <2>2, <2>3
<1>20. ASSUME NEW j \in 2..n
       PROVE  Have(bs[j].entry \cup bs[j].after, Sure(sc2, Level(sc2, j), G))
  <2>1. Level(sc2, j) = j - 1 /\ Level(sc, j) = j - 1 /\ j - 1 \in 1..(n - 1) /\ j \in 2..Len(bs)
    BY <1>2, <1>10 DEF Level
  <2>2. Have(bs[j].entry \cup bs[j].after, Sure(sc, j - 1, H))
    BY <2>1, <1>1 DEF PathsInv
  <2> QED
    BY <2>1, <2>2, <1>16 DEF Have
<1>21. ASSUME NEW j \in 2..n, bs[j].kind \in {"if", "condition", "else"}, ~bs[j].first
       PROVE  Have(bs[j].after, (bs[j].assigned \cap Seen(sc2, j - 1)) \ G)
  <2>1. j - 1 \in 1..(n - 1) /\ j \in 2..Len(sc)
    BY <1>2
  <2>2. Have(bs[j].after, (bs[j].assigned \cap Seen(sc, j - 1)) \ H)
    BY <2>1, <1>1, <1>21 DEF PathsInv
  <2> QED
    BY <2>1, <2>2, <1>12, <1>16 DEF Have
<1>22. PathsInv(sc2, bs, R2, G)
  BY <1>2, <1>10, <1>19, <1>20, <1>21 DEF PathsInv, Have
<1> QED
  BY <1>1, <1>2, <1>10, <1>13, <1>15, <1>22 DEF Sound

-----------------------------------------------------------------------------
(* Steps.                                                                  *)
Errors == {"N3085", "N3190", "N3191", "N3201", "N3205", "N3259", "N3260"}

LEMMA Shape ==
  ASSUME IInv
  PROVE  /\ Sound(Parameters, scopes, blocks, reach, hasty)
         /\ scopes \in Seq(Scope) /\ blocks \in Seq(Block) /\ reach \in Paths /\ hasty \in SUBSET Vars
         /\ Len(scopes) \in 1..Len(blocks) /\ Len(blocks) \in Nat
         /\ ~InHandler <=> Len(scopes) = Len(blocks)
         /\ Left = Closed(scopes, blocks)
         /\ Current = blocks[Len(blocks)] /\ Current \in Block
         /\ last \in Flow /\ (last.returns \/ last.exits => reach = {})
<1>1. /\ Sound(Parameters, scopes, blocks, reach, hasty)
      /\ scopes \in Seq(Scope) /\ blocks \in Seq(Block) /\ reach \in Paths /\ hasty \in SUBSET Vars
      /\ Len(scopes) \in 1..Len(blocks) /\ Len(blocks) \in Nat
  BY SoundTypes DEF IInv
<1>2. ~InHandler <=> Len(scopes) = Len(blocks)
  BY <1>1 DEF InHandler
<1>3. Left = Closed(scopes, blocks)
  BY DEF Left, Closed, InHandler
<1>4. Current = blocks[Len(blocks)]
  BY DEF Current, Inner
<1>5. Current \in Block
  BY <1>1, <1>4
<1>6. last \in Flow /\ (last.returns \/ last.exits => reach = {})
  BY DEF IInv, TypeOK
<1> QED
  BY <1>1, <1>2, <1>3, <1>4, <1>5, <1>6

(* What a step has to show.                                                *)
LEMMA StepIInv ==
  ASSUME IInv, Open, UNCHANGED <<outParameters, verdict>>,
         Sound(Parameters, scopes', blocks', reach', hasty'),
         Len(blocks') <= MaxDepth + 1,
         last' \in Flow, last'.returns \/ last'.exits => reach' = {}
  PROVE  IInv'
<1>1. Parameters' = Parameters
  BY DEF Parameters
<1>2. TypeOK'
  <2>1. /\ scopes' \in Seq(Scope) /\ blocks' \in Seq(Block) /\ reach' \in Paths /\ hasty' \in SUBSET Vars
        /\ Len(scopes') \in 1..Len(blocks')
    BY SoundTypes
  <2> QED
    BY <2>1 DEF IInv, TypeOK
<1>3. NoFallOff'
  BY DEF NoFallOff, Open
<1> QED
  BY <1>1, <1>2, <1>3 DEF IInv

LEMMA FlowTypes ==
  /\ Falls \in Flow /\ ~Falls.returns /\ ~Falls.exits
  /\ Leaves \in Flow /\ Returns \in Flow
  /\ \A r, e \in BOOLEAN : [returns |-> r, exits |-> e] \in Flow
  BY DEF Falls, Leaves, Returns, Flow

(* At its beginning the description of a function is sound.                *)
LEMMA FirstSound ==
  ASSUME NEW outs \in Seq(Vars)
  PROVE  Sound({outs[i] : i \in DOMAIN outs}, <<FirstScope(outs)>>, <<Function>>, {{}}, {})
<1> DEFINE D == {outs[i] : i \in DOMAIN outs}
           s == FirstScope(outs)
<1>1. D \in SUBSET Vars
  OBVIOUS
<1>2. s = [conditional |-> FALSE, assigned |-> {}, usage |-> [v \in D |-> "unused"]]
  BY DEF FirstScope
<1>3. [v \in D |-> "unused"] \in [D -> Usage] /\ DOMAIN [v \in D |-> "unused"] = D
  BY DEF Usage
<1> HIDE DEF D, s
<1>4. s \in Scope
  BY <1>1, <1>2, <1>3, MakeScope, {} \in SUBSET Vars, FALSE \in BOOLEAN, Zenon
<1>5. s.assigned = {} /\ DOMAIN s.usage = D
  BY <1>2, <1>3
<1>6. Function \in Block /\ Function.kind = "function" /\ BlockInv(Function)
  BY DEF Function, Block, Kinds, Loops, Paths, BlockInv
<1>7. /\ <<s>> \in Seq(Scope) /\ Len(<<s>>) = 1 /\ <<s>>[1] = s
      /\ <<Function>> \in Seq(Block) /\ Len(<<Function>>) = 1 /\ <<Function>>[1] = Function
  BY <1>4, <1>6
<1>8. PICK t, b : t = <<s>> /\ b = <<Function>>
  OBVIOUS
<1>9. /\ t \in Seq(Scope) /\ Len(t) = 1 /\ t[1] = s
      /\ b \in Seq(Block) /\ Len(b) = 1 /\ b[1] = Function
  BY <1>7, <1>8
<1>10. Types(t, b, {{}}, {})
  BY <1>9 DEF Types, Paths
<1>11. BlocksInv(b)
  BY <1>6, <1>9 DEF BlocksInv
<1>12. ScopesInv(D, t, b)
  BY <1>5, <1>9 DEF ScopesInv
<1>13. PathsInv(t, b, {{}}, {})
  BY <1>5, <1>9 DEF PathsInv, Have, Sure
<1> QED
  BY <1>8, <1>10, <1>11, <1>12, <1>13 DEF Sound, D, s

LEMMA InitIInv == Init => IInv
<1> SUFFICES ASSUME Init PROVE IInv
  OBVIOUS
<1>1. outParameters \in Seq(Vars) /\ outParameters \in Signatures
  BY ConstantTypes DEF Init
<1>2. Sound(Parameters, scopes, blocks, reach, hasty)
  BY <1>1, FirstSound DEF Init, Parameters
<1>3. Len(blocks) = 1 /\ MaxDepth \in Nat
  BY ConstantTypes DEF Init
<1>4. TypeOK
  <2>1. /\ scopes \in Seq(Scope) /\ blocks \in Seq(Block) /\ reach \in Paths /\ hasty \in SUBSET Vars
        /\ Len(scopes) \in 1..Len(blocks)
    BY <1>2, SoundTypes
  <2>2. last \in Flow /\ verdict = "open"
    BY FlowTypes DEF Init
  <2> QED
    BY <1>1, <1>3, <2>1, <2>2 DEF TypeOK
<1>5. (last.returns \/ last.exits => reach = {}) /\ NoFallOff
  BY FlowTypes DEF Init, NoFallOff
<1> QED
  BY <1>2, <1>4, <1>5 DEF IInv

LEMMA RejectIInv ==
  ASSUME IInv, NEW number \in Errors, Reject(number), UNCHANGED outParameters
  PROVE  IInv'
<1>1. outParameters \in Seq(Vars) /\ outParameters \in Signatures
  BY ConstantTypes DEF IInv, TypeOK
<1>2. Parameters' = Parameters
  BY DEF Parameters
<1>3. Sound(Parameters, scopes', blocks', reach', hasty')
  BY <1>1, FirstSound DEF Reject, Parameters
<1>4. Len(blocks') = 1 /\ MaxDepth \in Nat
  BY ConstantTypes DEF Reject
<1>5. TypeOK'
  <2>1. /\ scopes' \in Seq(Scope) /\ blocks' \in Seq(Block) /\ reach' \in Paths /\ hasty' \in SUBSET Vars
        /\ Len(scopes') \in 1..Len(blocks')
    BY <1>3, SoundTypes
  <2>2. last' \in Flow /\ verdict' = number
    BY FlowTypes DEF Reject
  <2> QED
    BY <1>1, <1>4, <2>1, <2>2 DEF TypeOK, Errors
<1>6. (last'.returns \/ last'.exits => reach' = {}) /\ NoFallOff'
  BY FlowTypes DEF Reject, NoFallOff, Errors
<1> QED
  BY <1>2, <1>3, <1>5, <1>6 DEF IInv

(* The paths that assign v.                                                *)
LEMMA AddToIs ==
  ASSUME NEW P \in Paths, NEW v \in Vars
  PROVE  /\ AddTo(P, v) \in Paths /\ P \cup AddTo(P, v) \in Paths
         /\ \A r \in AddTo(P, v) : v \in r
         /\ \A r \in P \cup AddTo(P, v) : \E q \in P : q \subseteq r
         /\ \A r \in AddTo(P, v) : \E q \in P : q \subseteq r
  BY DEF AddTo, Paths

(* A RaiseTo of the paths that lead here.                                  *)
LEMMA RaiseHere ==
  ASSUME NEW D, NEW sc, NEW bs, NEW R, NEW H, Sound(D, sc, bs, R, H)
  PROVE  Sound(D, sc, RaiseTo(bs, R), R, H) /\ Len(RaiseTo(bs, R)) = Len(bs)
<1>1. R \in Paths /\ PathsInv(sc, bs, R, H)
  BY SoundTypes
<1>2. Have(R, Sure(sc, Len(sc), H))
  BY <1>1 DEF PathsInv
<1> QED
  BY <1>1, <1>2, RaiseSound

-----------------------------------------------------------------------------
(* Statements.                                                             *)
LEMMA DeclareStep ==
  ASSUME IInv, UNCHANGED outParameters, NEW v \in Vars, NEW initialised \in BOOLEAN, Declare(v, initialised)
  PROVE  IInv'
<1>1. Open /\ UNCHANGED <<outParameters, verdict>> /\ blocks' = blocks /\ last' = Falls
  BY DEF Declare
<1>2. Sound(Parameters, scopes', blocks, reach', hasty')
  <2>1. Sound(Parameters, scopes, blocks, reach, hasty) /\ Len(scopes) = Len(blocks)
    BY Shape DEF Declare
  <2>2. PICK sc2, R2, G : sc2 = scopes' /\ R2 = reach' /\ G = hasty'
    OBVIOUS
  <2>3. /\ v \notin Visible(scopes)
        /\ Declared(scopes', scopes, v, initialised)
        /\ reach' = IF initialised THEN AddTo(reach, v) ELSE {r \ {v} : r \in reach}
        /\ hasty' = IF ~initialised /\ v \in Inner(scopes).assigned THEN hasty \cup {v} ELSE hasty
    BY Zenon DEF Declare, Declared
  <2> QED
    BY <2>1, <2>2, <2>3, DeclareSound, Zenon
<1>3. Len(blocks') <= MaxDepth + 1
  BY <1>1 DEF IInv, TypeOK
<1> QED
  BY <1>1, <1>2, <1>3, FlowTypes, StepIInv

LEMMA ReadStep ==
  ASSUME IInv, UNCHANGED outParameters, NEW v \in Vars, Read(v)
  PROVE  IInv'
<1>1. CASE Reject("N3190")
  BY <1>1, RejectIInv, "N3190" \in Errors DEF Errors
<1>2. CASE Reject("N3260")
  BY <1>2, RejectIInv, "N3260" \in Errors DEF Errors
<1>3. CASE last' = Falls /\ UNCHANGED <<blocks, reach, hasty, verdict>>
           /\ (scopes' = scopes \/ scopes' = SetUsage(scopes, {v}, "used"))
  <2>1. Sound(Parameters, scopes', blocks, reach, hasty)
    <3>1. scopes \in Seq(Scope) /\ Sound(Parameters, scopes, blocks, reach, hasty) /\ "used" \in Usage
      BY Shape DEF Usage
    <3>2. SetUsage(scopes, {v}, "used") \in Seq(Scope) /\ Alike(SetUsage(scopes, {v}, "used"), scopes)
      BY <3>1, SetUsageIs
    <3> QED
      BY <3>1, <3>2, <1>3, AlikeSound
  <2>2. Len(blocks') <= MaxDepth + 1
    BY <1>3 DEF IInv, TypeOK
  <2>3. Open
    BY DEF Read
  <2> QED
    BY <1>3, <2>1, <2>2, <2>3, FlowTypes, StepIInv
<1> QED
  BY <1>1, <1>2, <1>3 DEF Read

LEMMA DeclareUnusedStep ==
  ASSUME IInv, UNCHANGED outParameters, NEW v \in Vars, DeclareUnused(v)
  PROVE  IInv'
<1>1. CASE Reject("N3259")
  BY <1>1, RejectIInv, "N3259" \in Errors DEF Errors
<1>2. CASE scopes' = SetUsage(scopes, {v}, "declared_unused") /\ last' = Falls
           /\ UNCHANGED <<blocks, reach, hasty, verdict>>
  <2>1. Sound(Parameters, scopes', blocks, reach, hasty)
    <3>1. scopes \in Seq(Scope) /\ Sound(Parameters, scopes, blocks, reach, hasty) /\ "declared_unused" \in Usage
      BY Shape DEF Usage
    <3>2. scopes' \in Seq(Scope) /\ Alike(scopes', scopes)
      BY <3>1, <1>2, SetUsageIs
    <3> QED
      BY <3>1, <3>2, AlikeSound
  <2>2. Len(blocks') <= MaxDepth + 1
    BY <1>2 DEF IInv, TypeOK
  <2>3. Open
    BY DEF DeclareUnused
  <2> QED
    BY <1>2, <2>1, <2>2, <2>3, FlowTypes, StepIInv
<1> QED
  BY <1>1, <1>2 DEF DeclareUnused

(* What an assignment to v makes of the paths and of the open blocks.      *)
LEMMA AssignPaths ==
  ASSUME IInv, NEW v \in Vars, NEW raises \in BOOLEAN, NEW sometimes \in BOOLEAN,
         NEW bs, bs = IF raises THEN RaiseTo(blocks, reach) ELSE blocks,
         NEW R, R = IF sometimes THEN reach \cup AddTo(reach, v) ELSE AddTo(reach, v)
  PROVE  /\ Sound(Parameters, scopes, bs, R, hasty) /\ Len(bs) = Len(blocks) /\ R \in Paths
         /\ ~sometimes => \A r \in R : v \in r
<1>1. Sound(Parameters, scopes, bs, reach, hasty) /\ Len(bs) = Len(blocks)
  BY Shape, RaiseHere
<1>2. R \in Paths /\ (\A r \in R : \E q \in reach : q \subseteq r) /\ (~sometimes => \A r \in R : v \in r)
  BY Shape, AddToIs
<1> QED
  BY <1>1, <1>2, ReachSound

LEMMA AssignStep ==
  ASSUME IInv, UNCHANGED outParameters, NEW v \in Vars, NEW raises \in BOOLEAN, NEW sometimes \in BOOLEAN,
         Assign(v, raises, sometimes)
  PROVE  IInv'
<1>1. /\ Open /\ ~InHandler /\ UNCHANGED <<outParameters, verdict>> /\ last' = Falls
      /\ blocks' = IF raises THEN RaiseTo(blocks, reach) ELSE blocks
      /\ reach' = IF sometimes THEN reach \cup AddTo(reach, v) ELSE AddTo(reach, v)
      /\ scopes' = MarkAssigned(scopes, {v})
      /\ hasty' = hasty \cup (IF sometimes THEN {v} ELSE Hasty(blocks', scopes, {v}))
  BY DEF Assign
<1>2. /\ Sound(Parameters, scopes, blocks', reach', hasty) /\ Len(blocks') = Len(blocks)
      /\ ~sometimes => \A r \in reach' : v \in r
  BY <1>1, AssignPaths
<1>3. hasty \subseteq hasty' /\ Hasty(blocks', scopes, {v}) \subseteq hasty' /\ hasty' \in SUBSET Vars
  <2>1. Hasty(blocks', scopes, {v}) \subseteq {v}
    BY DEF Hasty
  <2> QED
    BY <2>1, <1>1, Shape
<1>4. \A w \in ({v} \cap Seen(scopes, Len(scopes))) \ hasty' : \A r \in reach' : w \in r
  BY <1>1, <1>2
<1>5. Len(scopes) = Len(blocks') /\ {v} \in SUBSET Vars
  BY <1>1, <1>2, Shape
<1>6. Sound(Parameters, scopes', blocks', reach', hasty')
  BY <1>1, <1>2, <1>3, <1>4, <1>5, MarkSound
<1>7. Len(blocks') <= MaxDepth + 1
  BY <1>2 DEF IInv, TypeOK
<1> QED
  BY <1>1, <1>6, <1>7, FlowTypes, StepIInv

LEMMA AssignInHandlerStep ==
  ASSUME IInv, UNCHANGED outParameters, NEW v \in Vars, NEW raises \in BOOLEAN, NEW sometimes \in BOOLEAN,
         AssignInHandler(v, raises, sometimes)
  PROVE  IInv'
<1>1. /\ Open /\ UNCHANGED <<outParameters, verdict, scopes, hasty>> /\ last' = Falls
      /\ blocks' = IF raises THEN RaiseTo(blocks, reach) ELSE blocks
      /\ reach' = IF sometimes THEN reach \cup AddTo(reach, v) ELSE AddTo(reach, v)
  BY DEF AssignInHandler
<1>2. Sound(Parameters, scopes, blocks', reach', hasty) /\ Len(blocks') = Len(blocks)
  BY <1>1, AssignPaths
<1>3. Len(blocks') <= MaxDepth + 1
  BY <1>2 DEF IInv, TypeOK
<1> QED
  BY <1>1, <1>2, <1>3, FlowTypes, StepIInv

LEMMA NoPaths ==
  ASSUME NEW D, NEW sc, NEW bs, NEW R, NEW H, Sound(D, sc, bs, R, H)
  PROVE  Sound(D, sc, bs, {}, H)
<1>1. {} \in Paths
  BY DEF Paths
<1> QED
  BY <1>1, ReachSound

LEMMA JumpStep ==
  ASSUME IInv, UNCHANGED outParameters,
         Call \/ Raise \/ Return \/ \E k \in DOMAIN blocks : Exit(k) \/ Next_(k)
  PROVE  IInv'
<1>1. /\ Sound(Parameters, scopes, blocks, reach, hasty) /\ Len(blocks) <= MaxDepth + 1
      /\ Sound(Parameters, scopes, RaiseTo(blocks, reach), reach, hasty)
      /\ Len(RaiseTo(blocks, reach)) = Len(blocks)
  BY Shape, RaiseHere DEF IInv, TypeOK
<1>2. CASE Call
  BY <1>1, <1>2, FlowTypes, StepIInv DEF Call
<1>3. CASE Raise
  <2>1. Sound(Parameters, scopes, RaiseTo(blocks, reach), {}, hasty)
    BY <1>1, NoPaths
  <2> QED
    BY <1>1, <1>3, <2>1, FlowTypes, StepIInv DEF Raise
<1>4. CASE Return
  <2>1. CASE Reject("N3191")
    BY <2>1, RejectIInv, "N3191" \in Errors DEF Errors
  <2>2. CASE reach' = {} /\ last' = Returns /\ UNCHANGED <<scopes, blocks, hasty, verdict>>
    <3>1. Sound(Parameters, scopes, blocks, {}, hasty)
      BY <1>1, NoPaths
    <3>2. Open
      BY <1>4 DEF Return
    <3> QED
      BY <1>1, <2>2, <3>1, <3>2, FlowTypes, StepIInv
  <2> QED
    BY <1>4, <2>1, <2>2 DEF Return
<1>5. ASSUME NEW k \in DOMAIN blocks, Exit(k)
      PROVE  IInv'
  <2>1. k \in 1..Len(blocks)
    BY Shape
  <2>2. /\ Open /\ blocks[k].kind \in Loops
        /\ LeftBy(blocks', blocks, k, reach)
        /\ reach' = {} /\ last' = Leaves
        /\ UNCHANGED <<scopes, hasty, verdict>>
    BY <1>5, Zenon DEF Exit, LeftBy
  <2>3. Sound(Parameters, scopes, blocks', reach, hasty) /\ Len(blocks') = Len(blocks)
    BY <1>1, <2>1, <2>2, ExitSound
  <2>4. Sound(Parameters, scopes, blocks', {}, hasty)
    BY <2>3, NoPaths
  <2> QED
    BY <1>1, <2>2, <2>3, <2>4, FlowTypes, StepIInv
<1>6. ASSUME NEW k \in DOMAIN blocks, Next_(k)
      PROVE  IInv'
  <2>1. Sound(Parameters, scopes, blocks, {}, hasty)
    BY <1>1, NoPaths
  <2> QED
    BY <1>1, <1>6, <2>1, FlowTypes, StepIInv DEF Next_
<1> QED
  BY <1>2, <1>3, <1>4, <1>5, <1>6

-----------------------------------------------------------------------------
(* Blocks.                                                                 *)
LEMMA EnterStep ==
  ASSUME IInv, UNCHANGED outParameters, NEW kind \in {"if", "else", "check", "try"} \cup Loops, Enter(kind)
  PROVE  IInv'
<1> DEFINE b == NewBlock(kind)
           c == kind \notin {"loop", "try"}
<1>1. /\ Open /\ Len(blocks) <= MaxDepth /\ UNCHANGED <<outParameters, verdict, reach, hasty>> /\ last' = Falls
      /\ blocks' = Append(blocks, b)
      /\ scopes' = IF InHandler THEN scopes
                   ELSE Append(scopes, NewScope(c, Inner(scopes).assigned))
  BY DEF Enter
<1>2. /\ b \in Block /\ b.kind = kind /\ b.kind # "function" /\ b.first
      /\ b.entry \subseteq reach /\ b.after = {}
      /\ (kind \in {"loop", "try", "condition"} => b.entry = {})
  <2>1. reach \in Paths /\ {} \in Paths /\ kind \in Kinds
    BY Shape DEF Paths, Kinds
  <2> QED
    BY <2>1 DEF NewBlock, Block, Loops
<1>3. BlockInv(b)
  BY <1>2 DEF BlockInv
<1>4. c \in BOOLEAN /\ (~c => b.kind \in {"loop", "try", "condition"})
  BY <1>2
<1> HIDE DEF b, c
<1>5. Sound(Parameters, scopes, blocks, reach, hasty)
  BY Shape
<1>6. Have(b.entry \cup b.after, Sure(scopes, Len(scopes), hasty))
  <2>1. Have(reach, Sure(scopes, Len(scopes), hasty))
    BY <1>5, SoundTypes DEF PathsInv
  <2> QED
    BY <2>1, <1>2 DEF Have
<1>7. Sound(Parameters, scopes', blocks', reach, hasty)
  <2>1. CASE InHandler
    BY <2>1, <1>1, <1>2, <1>3, <1>5, <1>6, PushHandlerSound
  <2>2. CASE ~InHandler
    <3>1. Len(scopes) = Len(blocks)
      BY <2>2, Shape
    <3>2. scopes' = Append(scopes, NewScope(c, Inner(scopes).assigned))
      BY <2>2, <1>1
    <3>3. b.kind \in {"if", "condition", "else"} /\ ~b.first =>
            Have(b.after, (b.assigned \cap Seen(scopes, Len(scopes))) \ hasty)
      BY <1>2
    <3>4. PICK d \in BOOLEAN : d = c
      BY <1>4, Zenon
    <3>5. ~d => b.kind \in {"loop", "try", "condition"}
      BY <3>4, <1>4, Zenon
    <3>6. Sound(Parameters, Append(scopes, NewScope(d, Inner(scopes).assigned)), Append(blocks, b), reach, hasty)
      BY <3>1, <3>3, <3>5, <1>2, <1>3, <1>5, <1>6, PushScopeSound
    <3>7. Sound(Parameters, Append(scopes, NewScope(c, Inner(scopes).assigned)), Append(blocks, b), reach, hasty)
      BY <3>4, <3>6, Zenon
    <3> QED
      BY <3>2, <3>7, <1>1, Zenon
  <2> QED
    BY <2>1, <2>2
<1>8. Len(blocks') <= MaxDepth + 1
  <2>1. Len(blocks') = Len(blocks) + 1 /\ Len(blocks) \in Nat /\ MaxDepth \in Nat
    BY <1>1, <1>2, Shape, AppendOf, ConstantTypes
  <2> QED
    BY <2>1, <1>1
<1> QED
  BY <1>1, <1>7, <1>8, FlowTypes, StepIInv

(* A block that can be left.                                               *)
LEMMA CanLeaveIs ==
  ASSUME IInv, NEW kinds, CanLeave(kinds), "function" \notin kinds
  PROVE  /\ Open /\ Len(blocks) >= 2 /\ Current.kind \in kinds /\ BlockInv(Current)
         /\ Len(Outer(blocks)) = Len(blocks) - 1 /\ Len(blocks) <= MaxDepth + 1 /\ MaxDepth \in Nat
<1>1. /\ Current = blocks[Len(blocks)] /\ Len(blocks) \in Nat /\ Len(scopes) \in 1..Len(blocks)
      /\ BlocksInv(blocks) /\ blocks \in Seq(Block)
  BY Shape, SoundTypes
<1>2. Open /\ Current.kind \in kinds
  BY DEF CanLeave
<1>3. Len(blocks) \in 1..Len(blocks)
  BY <1>1
<1>4. BlockInv(Current) /\ Len(blocks) # 1
  <2>1. BlockInv(blocks[Len(blocks)]) /\ (blocks[Len(blocks)].kind = "function" <=> Len(blocks) = 1)
    BY <1>1, <1>3, Zenon DEF BlocksInv
  <2>2. blocks[Len(blocks)].kind \in kinds
    BY <1>1, <1>2, Zenon
  <2> QED
    BY <2>1, <2>2, <1>1, Zenon
<1>5. Len(blocks) >= 2
  <2>1. PICK n \in Nat : n = Len(blocks) /\ n >= 1
    BY <1>1
  <2> QED
    BY <2>1, <1>4
<1>6. Len(Outer(blocks)) = Len(blocks) - 1
  BY <1>1, <1>5, OuterOf
<1> QED
  BY <1>2, <1>4, <1>5, <1>6, ConstantTypes DEF IInv, TypeOK

(* The scope behind the end of a block.                                    *)
LEMMA LeftHave ==
  ASSUME IInv, Len(blocks) >= 2
  PROVE  /\ Have(reach \cup Current.entry \cup Current.after, Sure(Left, Len(Left), hasty))
         /\ \A R \in Paths : R \subseteq reach \cup Current.entry \cup Current.after =>
              Sound(Parameters, Left, Outer(blocks), R, hasty)
<1>1. Sound(Parameters, scopes, blocks, reach, hasty) /\ Left = Closed(scopes, blocks)
      /\ Current = blocks[Len(blocks)]
  BY Shape
<1>2. Have(reach \cup Current.entry \cup Current.after, Sure(Left, Len(Left), hasty))
  BY <1>1, ClosedHave
<1>3. ASSUME NEW R \in Paths, R \subseteq reach \cup Current.entry \cup Current.after
      PROVE  Sound(Parameters, Left, Outer(blocks), R, hasty)
  <2>1. Have(R, Sure(Left, Len(Left), hasty))
    BY <1>2, <1>3 DEF Have
  <2> QED
    BY <2>1, <1>1, CloseSound
<1> QED
  BY <1>2, <1>3

(* A branch is finished.                                                   *)
LEMMA FinishBranchIs ==
  ASSUME IInv, Len(blocks) >= 2, Current.kind \notin Loops
  PROVE  LET b == FinishBranch(Current)
         IN  /\ b \in Block /\ b.kind = Current.kind /\ ~b.first
             /\ b.entry = Current.entry /\ b.after = Current.after \cup reach /\ b.left = Current.left
             /\ b.returns \/ b.exits => b.after = {}
             /\ ~InHandler /\ Current.kind \in {"if", "condition", "else"} =>
                  Have(b.after, (b.assigned \cap Seen(Left, Len(Left))) \ hasty)
             /\ ~InHandler => b.assigned \subseteq Inner(scopes).assigned
<1> DEFINE b == FinishBranch(Current)
           n == Len(blocks)
<1>1. /\ Sound(Parameters, scopes, blocks, reach, hasty) /\ Left = Closed(scopes, blocks)
      /\ Current = blocks[n] /\ Current \in Block /\ scopes \in Seq(Scope) /\ blocks \in Seq(Block)
      /\ reach \in Paths /\ last \in Flow /\ n \in Nat /\ Len(scopes) \in 1..n
      /\ (last.returns \/ last.exits => reach = {})
      /\ (~InHandler <=> Len(scopes) = n)
  BY Shape
<1>2. /\ BlockInv(Current) /\ PathsInv(scopes, blocks, reach, hasty)
  <2>1. n \in 1..Len(blocks)
    BY <1>1
  <2> QED
    BY <2>1, <1>1, SoundTypes DEF BlocksInv
<1>3. Inner(scopes).assigned \in SUBSET Vars /\ Inner(scopes) = scopes[Len(scopes)]
  <2>1. Len(scopes) \in 1..Len(scopes)
    BY <1>1
  <2> QED
    BY <2>1, <1>1, ScopeParts DEF Inner
<1>4. PICK A \in SUBSET Vars : A = IF InHandler THEN Current.assigned
                                   ELSE IF Current.first THEN Inner(scopes).assigned
                                   ELSE Current.assigned \cap Inner(scopes).assigned
  BY <1>1, <1>3, BlockParts
<1>5. last.returns \in BOOLEAN /\ last.exits \in BOOLEAN
  BY <1>1 DEF Flow
<1>6. b = [Current EXCEPT !.first = FALSE, !.assigned = A, !.after = @ \cup reach,
                          !.returns = @ /\ last.returns, !.exits = @ /\ last.exits]
  BY <1>4 DEF FinishBranch
<1>7. Current.after \cup reach \in Paths
  BY <1>1, BlockParts DEF Paths
<1>8. /\ b \in Block /\ b.kind = Current.kind /\ b.first = FALSE /\ b.assigned = A
      /\ b.entry = Current.entry /\ b.after = Current.after \cup reach /\ b.left = Current.left
      /\ b.returns = (Current.returns /\ last.returns) /\ b.exits = (Current.exits /\ last.exits)
  <2> HIDE DEF b
  <2>1. Current \in Block
    BY <1>1
  <2>2. (Current.returns /\ last.returns) \in BOOLEAN /\ (Current.exits /\ last.exits) \in BOOLEAN
    BY <1>5
  <2> QED
    BY <1>6, <1>7, <2>1, <2>2 DEF Block
<1> HIDE DEF b
<1>9. b.returns \/ b.exits => b.after = {}
  BY <1>1, <1>2, <1>8 DEF BlockInv
<1>10. ASSUME ~InHandler, Current.kind \in {"if", "condition", "else"}
       PROVE  Have(b.after, (b.assigned \cap Seen(Left, Len(Left))) \ hasty)
  <2>1. Len(scopes) = n
    BY <1>1, <1>10
  <2>2. Len(Left) = n - 1 /\ Seen(Left, Len(Left)) = Seen(scopes, n - 1)
    <3>1. Len(Left) = n - 1 /\ Len(Left) \in 1..Len(scopes) /\ \A k \in 1..Len(Left) : Seen(Left, k) = Seen(scopes, k)
      BY <2>1, <1>1, ClosedIs
    <3>2. Len(Left) \in 1..Len(Left)
      BY <3>1, <1>1
    <3> QED
      BY <3>1, <3>2
  <2>3. Have(reach, (Inner(scopes).assigned \cap Seen(scopes, n - 1)) \ hasty)
    <3>1. n - 1 \in 1..n
      BY <1>1
    <3>2. Seen(scopes, n - 1) \subseteq Seen(scopes, n)
      BY <3>1, <1>1, SeenGrows
    <3>3. Have(reach, Sure(scopes, n, hasty))
      BY <2>1, <1>2 DEF PathsInv
    <3> QED
      BY <3>2, <3>3, <2>1, <1>3 DEF Have, Sure
  <2>4. A \subseteq Inner(scopes).assigned
    BY <1>4, <1>10
  <2>5. CASE Current.first
    <3>1. Current.after = {}
      BY <2>5, <1>2 DEF BlockInv
    <3> QED
      BY <3>1, <2>2, <2>3, <2>4, <1>8 DEF Have
  <2>6. CASE ~Current.first
    <3>1. A \subseteq Current.assigned
      BY <2>6, <1>4, <1>10
    <3>2. n \in 2..Len(scopes)
      BY <2>1, <1>1
    <3>3. Have(Current.after, (Current.assigned \cap Seen(scopes, n - 1)) \ hasty)
      BY <3>2, <2>6, <1>1, <1>2, <1>10 DEF PathsInv
    <3> QED
      BY <3>1, <3>3, <2>2, <2>3, <2>4, <1>8 DEF Have
  <2> QED
    BY <2>5, <2>6
<1>11. ~InHandler => b.assigned \subseteq Inner(scopes).assigned
  BY <1>4, <1>8
<1> QED
  BY <1>8, <1>9, <1>10, <1>11 DEF b

(* What is marked behind the statement is assigned on all paths that lead  *)
(* there.                                                                  *)
LEMMA EndBranchesStep ==
  ASSUME IInv, UNCHANGED outParameters, CanLeave({"if", "else"}),
         NEW skips \in BOOLEAN, NEW flow \in Flow, NEW joined \in SUBSET Vars,
         EndBranches(skips, flow, joined),
         NEW R, R = Current.after \cup reach \cup (IF skips THEN Current.entry ELSE {}),
         ~InHandler => \A v \in (joined \cap Seen(Left, Len(Left))) \ hasty : \A r \in R : v \in r,
         flow.returns \/ flow.exits => R = {}
  PROVE  IInv'
<1>1. /\ Open /\ Len(blocks) >= 2 /\ Len(Outer(blocks)) = Len(blocks) - 1
      /\ Len(blocks) <= MaxDepth + 1 /\ MaxDepth \in Nat /\ Len(blocks) \in Nat
  BY CanLeaveIs, Shape
<1>2. CASE Reject("N3260")
  BY <1>2, RejectIInv, "N3260" \in Errors DEF Errors
<1>3. CASE ~Reject("N3260")
  <2>1. /\ reach' = R /\ blocks' = Outer(blocks) /\ last' = flow /\ UNCHANGED verdict
        /\ scopes' = IF InHandler THEN scopes ELSE MarkAssigned(Left, joined)
        /\ hasty' = IF InHandler THEN hasty ELSE hasty \cup Hasty(blocks, Left, joined)
    BY <1>3 DEF EndBranches
  <2>2. R \in Paths /\ R \subseteq reach \cup Current.entry \cup Current.after
    <3>1. reach \in Paths /\ Current.entry \in Paths /\ Current.after \in Paths
      BY Shape, BlockParts
    <3> QED
      BY <3>1 DEF Paths
  <2>3. Sound(Parameters, Left, Outer(blocks), R, hasty)
    BY <2>2, <1>1, LeftHave
  <2>4. Sound(Parameters, scopes', Outer(blocks), R, hasty')
    <3>1. CASE InHandler
      <4>1. scopes' = Left /\ hasty' = hasty
        BY <2>1, <3>1 DEF Left
      <4> QED
        BY <2>3, <4>1
    <3>2. CASE ~InHandler
      <4>1. hasty' = hasty \cup Hasty(blocks, Left, joined) /\ scopes' = MarkAssigned(Left, joined)
        BY <2>1, <3>2
      <4>2. /\ Left = Closed(scopes, blocks) /\ Len(scopes) = Len(blocks) /\ hasty \in SUBSET Vars
            /\ blocks \in Seq(Block) /\ scopes \in Seq(Scope) /\ Len(scopes) \in 1..Len(blocks)
        BY <3>2, Shape
      <4>3. Len(Left) = Len(Outer(blocks)) /\ Left \in Seq(Scope)
        BY <4>2, <1>1, ClosedIs
      <4>4. Hasty(Outer(blocks), Left, joined) \subseteq Hasty(blocks, Left, joined)
        <5>1. \A k \in 1..(Len(blocks) - 1) : Outer(blocks)[k] = blocks[k]
          BY <4>2, <1>1, OuterOf
        <5>2. DOMAIN Left = 1..(Len(blocks) - 1)
          BY <4>3, <1>1
        <5> QED
          BY <5>1, <5>2 DEF Hasty
      <4>5. Hasty(blocks, Left, joined) \subseteq joined
        BY DEF Hasty
      <4>6. /\ hasty \subseteq hasty' /\ Hasty(Outer(blocks), Left, joined) \subseteq hasty'
            /\ hasty' \in SUBSET Vars
        BY <4>1, <4>2, <4>4, <4>5
      <4>7. \A v \in (joined \cap Seen(Left, Len(Left))) \ hasty' : \A r \in R : v \in r
        BY <3>2, <4>6
      <4>8. Sound(Parameters, MarkAssigned(Left, joined), Outer(blocks), R, hasty')
        BY <2>3, <4>3, <4>6, <4>7, MarkSound
      <4> QED
        BY <4>1, <4>8, Zenon
    <3> QED
      BY <3>1, <3>2
  <2>5. Len(blocks') <= MaxDepth + 1
    BY <1>1, <2>1
  <2> QED
    BY <1>1, <2>1, <2>4, <2>5, StepIInv
<1> QED
  BY <1>2, <1>3

LEMMA EndIfElseStep ==
  ASSUME IInv, UNCHANGED outParameters, EndIfElse
  PROVE  IInv'
<1>1. CanLeave({"else"}) /\ CanLeave({"if", "else"})
  BY DEF EndIfElse, CanLeave
<1>2. Len(blocks) >= 2 /\ Current.kind \in {"else"}
  BY <1>1, CanLeaveIs
<1>3. Current.kind \notin Loops
  BY <1>2 DEF Loops
<1>4. /\ Branches \in Block /\ Branches.after = Current.after \cup reach
      /\ Branches.returns \/ Branches.exits => Branches.after = {}
      /\ ~InHandler => Have(Branches.after, (Branches.assigned \cap Seen(Left, Len(Left))) \ hasty)
  BY <1>2, <1>3, FinishBranchIs DEF Branches
<1> DEFINE flow == [returns |-> Branches.returns, exits |-> Branches.exits]
           R == Current.after \cup reach \cup (IF FALSE THEN Current.entry ELSE {})
<1>5. flow \in Flow /\ flow.returns = Branches.returns /\ flow.exits = Branches.exits
  BY <1>4, BlockParts, FlowTypes
<1>6. Branches.assigned \in SUBSET Vars
  BY <1>4, BlockParts
<1>7. R = Branches.after
  BY <1>4
<1>8. EndBranches(FALSE, flow, Branches.assigned)
  BY DEF EndIfElse
<1>9. ~InHandler => \A v \in (Branches.assigned \cap Seen(Left, Len(Left))) \ hasty : \A r \in R : v \in r
  BY <1>4, <1>7 DEF Have
<1>10. flow.returns \/ flow.exits => R = {}
  BY <1>4, <1>5, <1>7
<1> HIDE DEF flow
<1>11. PICK r : r = R
  OBVIOUS
<1> HIDE DEF R
<1>12. r = Current.after \cup reach \cup (IF FALSE THEN Current.entry ELSE {})
  BY <1>11 DEF R
<1> QED
  BY <1>1, <1>5, <1>6, <1>8, <1>9, <1>10, <1>11, <1>12, EndBranchesStep, FALSE \in BOOLEAN

LEMMA EndIfStep ==
  ASSUME IInv, UNCHANGED outParameters, EndIf
  PROVE  IInv'
<1>1. CanLeave({"if"}) /\ CanLeave({"if", "else"})
  BY DEF EndIf, CanLeave
<1>2. Len(blocks) >= 2 /\ Current.kind \in {"if"}
  BY <1>1, CanLeaveIs
<1>3. Current.kind \notin Loops
  BY <1>2 DEF Loops
<1>4. Branches \in Block
  BY <1>2, <1>3, FinishBranchIs DEF Branches
<1> DEFINE joined == Branches.assigned \cap Inner(Left).assigned
           R == Current.after \cup reach \cup (IF TRUE THEN Current.entry ELSE {})
<1>5. joined \in SUBSET Vars
  BY <1>4, BlockParts
<1>6. EndBranches(TRUE, Falls, joined)
  BY DEF EndIf
<1>7. \A v \in (joined \cap Seen(Left, Len(Left))) \ hasty : \A r \in R : v \in r
  <2>1. Have(reach \cup Current.entry \cup Current.after, Sure(Left, Len(Left), hasty))
    BY <1>2, LeftHave
  <2>2. (joined \cap Seen(Left, Len(Left))) \ hasty \subseteq Sure(Left, Len(Left), hasty)
    BY DEF Sure, Inner
  <2>3. R \subseteq reach \cup Current.entry \cup Current.after
    OBVIOUS
  <2> QED
    BY <2>1, <2>2, <2>3 DEF Have
<1> HIDE DEF joined
<1>8. Falls \in Flow /\ ~(Falls.returns \/ Falls.exits)
  BY FlowTypes
<1>9. PICK r : r = R
  OBVIOUS
<1> HIDE DEF R
<1>10. r = Current.after \cup reach \cup (IF TRUE THEN Current.entry ELSE {})
  BY <1>9 DEF R
<1> QED
  BY <1>1, <1>5, <1>6, <1>7, <1>8, <1>9, <1>10, EndBranchesStep, TRUE \in BOOLEAN

LEMMA EndCaseStep ==
  ASSUME IInv, UNCHANGED outParameters, NEW exhaustive \in BOOLEAN, EndCase(exhaustive)
  PROVE  IInv'
<1>1. CanLeave({"if"}) /\ CanLeave({"if", "else"})
  BY DEF EndCase, CanLeave
<1>2. Len(blocks) >= 2 /\ Current.kind \in {"if"}
  BY <1>1, CanLeaveIs
<1>3. Current.kind \notin Loops
  BY <1>2 DEF Loops
<1>4. /\ Branches \in Block /\ Branches.after = Current.after \cup reach
      /\ Branches.returns \/ Branches.exits => Branches.after = {}
  BY <1>2, <1>3, FinishBranchIs DEF Branches
<1>5. PICK skips \in BOOLEAN, returns \in BOOLEAN :
        skips = ~exhaustive /\ returns = (Branches.returns /\ exhaustive)
  BY <1>4, BlockParts
<1>6. PICK flow : flow = [returns |-> returns, exits |-> FALSE]
  OBVIOUS
<1>7. flow \in Flow /\ flow.returns = returns /\ flow.exits = FALSE
  BY <1>6 DEF Flow
<1>8. PICK R : R = Current.after \cup reach \cup (IF skips THEN Current.entry ELSE {})
  OBVIOUS
<1>9. EndBranches(skips, flow, {})
  BY <1>5, <1>6, Zenon DEF EndCase
<1>10. flow.returns \/ flow.exits => R = {}
  BY <1>4, <1>5, <1>7, <1>8
<1>11. {} \in SUBSET Vars /\ (~InHandler => \A v \in ({} \cap Seen(Left, Len(Left))) \ hasty : \A r \in R : v \in r)
  OBVIOUS
<1> QED
  BY <1>1, <1>7, <1>8, <1>9, <1>10, <1>11, EndBranchesStep

(* The next branch begins.                                                 *)
LEMMA NextBranchStep ==
  ASSUME IInv, UNCHANGED outParameters, NEW to \in {"condition", "else"}, NextBranch(to)
  PROVE  IInv'
<1>1. CanLeave({"if"})
  BY DEF NextBranch
<1>2. /\ Open /\ Len(blocks) >= 2 /\ Current.kind \in {"if"} /\ BlockInv(Current)
      /\ Len(Outer(blocks)) = Len(blocks) - 1 /\ Len(blocks) <= MaxDepth + 1 /\ MaxDepth \in Nat
  BY <1>1, CanLeaveIs
<1>3. Current.kind \notin Loops
  BY <1>2 DEF Loops
<1> DEFINE f == FinishBranch(Current)
           b == [f EXCEPT !.kind = to, !.entry = {}]
<1>4. /\ f \in Block /\ f.kind = Current.kind /\ ~f.first
      /\ f.entry = Current.entry /\ f.after = Current.after \cup reach
      /\ f.returns \/ f.exits => f.after = {}
      /\ ~InHandler => Have(f.after, (f.assigned \cap Seen(Left, Len(Left))) \ hasty)
  BY <1>2, <1>3, FinishBranchIs
<1> HIDE DEF f
<1>5. /\ b \in Block /\ b.kind = to /\ ~b.first /\ b.entry = {} /\ b.after = f.after
      /\ b.assigned = f.assigned /\ b.returns = f.returns /\ b.exits = f.exits
  BY <1>4 DEF Block, Kinds, Paths
<1>6. b.kind # "function" /\ BlockInv(b)
  BY <1>4, <1>5 DEF BlockInv, Loops
<1>7. /\ blocks' = Append(Outer(blocks), b) /\ reach' = Current.entry /\ last' = Falls
      /\ scopes' = IF InHandler THEN scopes ELSE Append(Left, NewScope(to = "else", Inner(Left).assigned))
      /\ UNCHANGED <<hasty, verdict>>
  BY DEF NextBranch, f
<1> HIDE DEF b
<1>8. Sound(Parameters, Left, Outer(blocks), Current.entry, hasty)
  <2>1. Current.entry \in Paths
    BY <1>4, BlockParts
  <2> QED
    BY <2>1, <1>2, LeftHave
<1>9. Have(b.entry \cup b.after, Sure(Left, Len(Left), hasty))
  <2>1. Have(reach \cup Current.entry \cup Current.after, Sure(Left, Len(Left), hasty))
    BY <1>2, LeftHave
  <2> QED
    BY <2>1, <1>4, <1>5 DEF Have
<1>10. Sound(Parameters, scopes', blocks', reach', hasty')
  <2>1. CASE InHandler
    <3>1. scopes' = Left
      BY <2>1, <1>7 DEF Left
    <3> QED
      BY <3>1, <1>5, <1>6, <1>7, <1>8, <1>9, PushHandlerSound
  <2>2. CASE ~InHandler
    <3>1. Len(Left) = Len(Outer(blocks))
      <4>1. /\ Left = Closed(scopes, blocks) /\ Len(scopes) = Len(blocks)
            /\ blocks \in Seq(Block) /\ scopes \in Seq(Scope) /\ Len(scopes) \in 1..Len(blocks)
        BY <2>2, Shape
      <4> QED
        BY <4>1, <1>2, ClosedIs
    <3>2. Have(b.after, (b.assigned \cap Seen(Left, Len(Left))) \ hasty)
      BY <2>2, <1>4, <1>5
    <3>3. PICK c \in BOOLEAN : c = (to = "else")
      OBVIOUS
    <3>4. ~c => b.kind \in {"loop", "try", "condition"}
      BY <3>3, <1>5
    <3>5. Sound(Parameters, Append(Left, NewScope(c, Inner(Left).assigned)), Append(Outer(blocks), b),
                Current.entry, hasty)
      BY <3>1, <3>2, <3>4, <1>5, <1>6, <1>8, <1>9, PushScopeSound
    <3> QED
      BY <3>3, <3>5, <2>2, <1>7
  <2> QED
    BY <2>1, <2>2
<1>11. Len(blocks') <= MaxDepth + 1
  <2>1. Outer(blocks) \in Seq(Block) /\ Len(blocks) \in Nat
    BY <1>2, Shape, OuterOf
  <2>2. Len(blocks') = Len(Outer(blocks)) + 1
    BY <2>1, <1>5, <1>7, AppendOf
  <2> QED
    BY <2>1, <2>2, <1>2
<1> QED
  BY <1>2, <1>7, <1>10, <1>11, FlowTypes, StepIInv

(* The branch behind a condition begins.                                   *)
LEMMA BeginSound ==
  ASSUME NEW D, NEW sc, NEW bs, NEW R, NEW H, Sound(D, sc, bs, R, H), bs[Len(bs)].kind = "condition",
         NEW u, u = IF Len(sc) < Len(bs) THEN sc ELSE [sc EXCEPT ![Len(sc)].conditional = TRUE]
  PROVE  LET t == [bs EXCEPT ![Len(bs)].kind = "if", ![Len(bs)].entry = R]
         IN  Sound(D, u, t, R, H) /\ Len(t) = Len(bs)
<1> DEFINE n == Len(bs)
           m == Len(sc)
           b == [bs[n] EXCEPT !.kind = "if", !.entry = R]
           t == [bs EXCEPT ![n].kind = "if", ![n].entry = R]
<1>1. /\ Types(sc, bs, R, H) /\ BlocksInv(bs) /\ ScopesInv(D, sc, bs) /\ PathsInv(sc, bs, R, H)
      /\ sc \in Seq(Scope) /\ bs \in Seq(Block) /\ m \in 1..n /\ n \in Nat /\ R \in Paths
  BY SoundTypes
<1>2. n \in 1..n /\ m \in Nat /\ m \in 1..m /\ bs[n] \in Block
  BY <1>1
<1>3. BlockInv(bs[n]) /\ n # 1
  BY <1>1, <1>2 DEF BlocksInv
<1>4. /\ b \in Block /\ b.kind = "if" /\ b.first = bs[n].first /\ b.assigned = bs[n].assigned
      /\ b.entry = R /\ b.after = bs[n].after /\ b.returns = bs[n].returns /\ b.exits = bs[n].exits
  BY <1>1, <1>2 DEF Block, Kinds
<1>5. t = Replaced(bs, n, b)
  BY <1>1, <1>2 DEF Replaced
<1> HIDE DEF b, t
<1>6. t \in Seq(Block) /\ Len(t) = n /\ \A k \in 1..n : t[k] = IF k = n THEN b ELSE bs[k]
  <2>1. bs \in Seq(Block) /\ n \in 1..Len(bs) /\ b \in Block
    BY <1>1, <1>2, <1>4
  <2>2. IsReplaced(Replaced(bs, n, b), bs, Block, n, b)
    BY <2>1, ReplaceOf
  <2>3. IsReplaced(t, bs, Block, n, b)
    BY <2>2, <1>5, Zenon
  <2> QED
    BY <2>3 DEF IsReplaced
<1>7. /\ u \in Seq(Scope) /\ Len(u) = m
      /\ \A k \in 1..m : /\ ~u[k].conditional => k # n /\ ~sc[k].conditional
                         /\ DOMAIN u[k].usage = DOMAIN sc[k].usage
                         /\ u[k].assigned = sc[k].assigned
  <2>1. CASE m < n
    <3>1. u = sc /\ \A k \in 1..m : k # n
      BY <2>1, <1>1
    <3> QED
      BY <3>1, <1>1
  <2>2. CASE m = n
    <3> DEFINE e == [sc[n] EXCEPT !.conditional = TRUE]
    <3>1. sc[n] \in Scope /\ n \in 1..Len(sc)
      BY <2>2, <1>1, <1>2
    <3>2. e \in Scope /\ e.conditional = TRUE /\ e.usage = sc[n].usage /\ e.assigned = sc[n].assigned
      BY <3>1 DEF Scope
    <3>3. u = Replaced(sc, n, e)
      BY <2>2, <3>1, <1>1 DEF Replaced
    <3> HIDE DEF e
    <3>4. IsReplaced(u, sc, Scope, n, e)
      <4>1. sc \in Seq(Scope) /\ n \in 1..Len(sc) /\ e \in Scope
        BY <3>1, <3>2, <1>1
      <4>2. IsReplaced(Replaced(sc, n, e), sc, Scope, n, e)
        BY <4>1, ReplaceOf
      <4> QED
        BY <4>2, <3>3, Zenon
    <3>5. u \in Seq(Scope) /\ Len(u) = m /\ u[n] = e /\ \A k \in 1..m : k # n => u[k] = sc[k]
      BY <3>4 DEF IsReplaced
    <3> QED
      BY <3>2, <3>5
  <2> QED
    BY <2>1, <2>2, <1>1
<1>8. ASSUME NEW k \in 1..m PROVE Seen(u, k) = Seen(sc, k) /\ Sure(u, k, H) = Sure(sc, k, H)
  <2>1. \A i \in 1..k : i \in 1..m
    BY <1>1
  <2>2. \A i \in 1..k : DOMAIN u[i].usage = DOMAIN sc[i].usage
    BY <2>1, <1>7
  <2>3. Seen(u, k) = Seen(sc, k)
    BY <2>2 DEF Seen
  <2> QED
    BY <2>3, <1>7 DEF Sure
<1>9. Types(u, t, R, H)
  BY <1>1, <1>6, <1>7 DEF Types
<1>10. BlocksInv(t)
  <2> SUFFICES ASSUME NEW k \in 1..n
               PROVE  BlockInv(t[k]) /\ (t[k].kind = "function" <=> k = 1)
    BY <1>6 DEF BlocksInv
  <2>1. BlockInv(bs[k]) /\ (bs[k].kind = "function" <=> k = 1)
    BY <1>1 DEF BlocksInv
  <2>2. BlockInv(b)
    BY <1>3, <1>4 DEF BlockInv, Loops
  <2> QED
    BY <2>1, <2>2, <1>3, <1>4, <1>6
<1>11. ScopesInv(D, u, t)
  <2>1. D \subseteq DOMAIN u[1].usage
    BY <1>1, <1>7 DEF ScopesInv
  <2>2. ASSUME NEW k \in 2..m, ~u[k].conditional PROVE t[k].kind \in {"loop", "try", "condition"}
    <3>1. k \in 1..m /\ k \in 1..n
      BY <1>1
    <3>2. k # n /\ ~sc[k].conditional
      BY <3>1, <2>2, <1>7
    <3> QED
      BY <3>1, <3>2, <1>1, <1>6 DEF ScopesInv
  <2>3. \A k \in 1..m : \A j \in 1..k : j \in 1..m
    BY <1>1
  <2> QED
    BY <2>1, <2>2, <2>3, <1>1, <1>7 DEF ScopesInv
<1>12. PathsInv(u, t, R, H)
  <2>1. Have(R, Sure(sc, m, H))
    BY <1>1 DEF PathsInv
  <2>2. ASSUME NEW j \in 2..n PROVE Have(t[j].entry \cup t[j].after, Sure(u, Level(u, j), H))
    <3>1. j \in 1..n /\ Level(u, j) = Level(sc, j) /\ Level(sc, j) \in 1..m
      BY <1>1, <1>7 DEF Level
    <3>2. Have(bs[j].entry \cup bs[j].after, Sure(sc, Level(sc, j), H))
      BY <1>1 DEF PathsInv
    <3>3. Sure(sc, Level(sc, j), H) \subseteq Sure(sc, m, H)
      BY <3>1, <1>1, <1>2, SureGrows
    <3>4. t[j].entry \cup t[j].after \subseteq (bs[j].entry \cup bs[j].after) \cup R
      BY <3>1, <1>4, <1>6
    <3> QED
      BY <2>1, <3>1, <3>2, <3>3, <3>4, <1>8 DEF Have
  <2>3. ASSUME NEW j \in 2..m, t[j].kind \in {"if", "condition", "else"}, ~t[j].first
        PROVE  Have(t[j].after, (t[j].assigned \cap Seen(u, j - 1)) \ H)
    <3>1. j \in 1..n /\ j - 1 \in 1..m
      BY <1>1
    <3>2. t[j].after = bs[j].after /\ t[j].assigned = bs[j].assigned
          /\ bs[j].kind \in {"if", "condition", "else"} /\ ~bs[j].first
      BY <3>1, <2>3, <1>4, <1>6
    <3> QED
      BY <3>1, <3>2, <1>1, <1>8 DEF PathsInv
  <2> QED
    BY <2>1, <2>2, <2>3, <1>2, <1>6, <1>7, <1>8 DEF PathsInv
<1> QED
  BY <1>6, <1>9, <1>10, <1>11, <1>12 DEF Sound, t

LEMMA BeginBranchStep ==
  ASSUME IInv, UNCHANGED outParameters, BeginBranch
  PROVE  IInv'
<1>1. /\ Open /\ Current.kind = "condition" /\ last' = Falls /\ UNCHANGED <<reach, hasty, verdict>>
      /\ blocks' = [blocks EXCEPT ![Len(blocks)].kind = "if", ![Len(blocks)].entry = reach]
      /\ scopes' = IF Len(scopes) < Len(blocks) THEN scopes ELSE [scopes EXCEPT ![Len(scopes)].conditional = TRUE]
  BY DEF BeginBranch, InCondition, InHandler
<1>2. Sound(Parameters, scopes, blocks, reach, hasty) /\ blocks[Len(blocks)].kind = "condition"
  BY <1>1, Shape
<1>3. Sound(Parameters, scopes', blocks', reach, hasty) /\ Len(blocks') = Len(blocks)
  BY <1>1, <1>2, BeginSound
<1>4. Len(blocks') <= MaxDepth + 1
  BY <1>3 DEF IInv, TypeOK
<1> QED
  BY <1>1, <1>3, <1>4, FlowTypes, StepIInv

(* The end of a block that marks nothing.                                  *)
LEMMA CloseStep ==
  ASSUME IInv, UNCHANGED outParameters, NEW kinds, CanLeave(kinds), "function" \notin kinds,
         blocks' = Outer(blocks), scopes' = Left, UNCHANGED <<hasty, verdict>>,
         reach' \in Paths, reach' \subseteq reach \cup Current.entry \cup Current.after,
         last' \in Flow, last'.returns \/ last'.exits => reach' = {}
  PROVE  IInv'
<1>1. /\ Open /\ Len(blocks) >= 2
      /\ Len(Outer(blocks)) = Len(blocks) - 1 /\ Len(blocks) <= MaxDepth + 1 /\ MaxDepth \in Nat
  BY CanLeaveIs
<1>2. Sound(Parameters, scopes', blocks', reach', hasty')
  BY <1>1, LeftHave
<1>3. Len(blocks') <= MaxDepth + 1
  BY <1>1, Shape
<1> QED
  BY <1>1, <1>2, <1>3, StepIInv

LEMMA EndLoopStep ==
  ASSUME IInv, UNCHANGED outParameters, NEW endless \in BOOLEAN, EndLoop(endless)
  PROVE  IInv'
<1>1. /\ CanLeave(Loops) /\ blocks' = Outer(blocks) /\ scopes' = Left /\ UNCHANGED <<hasty, verdict>>
      /\ reach' = Current.after \cup
                  (IF endless THEN {} ELSE reach \cup (IF Current.kind = "while" THEN Current.entry ELSE {}))
      /\ last' = [returns |-> endless /\ ~Current.left, exits |-> FALSE]
  BY DEF EndLoop
<1>2. "function" \notin Loops
  BY DEF Loops
<1>3. Current.kind \in Loops /\ BlockInv(Current)
  BY <1>1, <1>2, CanLeaveIs
<1>4. /\ reach \in Paths /\ Current.entry \in Paths /\ Current.after \in Paths /\ Current.left \in BOOLEAN
  BY Shape, BlockParts
<1>5. reach' \in Paths /\ reach' \subseteq reach \cup Current.entry \cup Current.after
  BY <1>1, <1>4 DEF Paths
<1>6. last' \in Flow /\ (last'.returns => endless /\ ~Current.left) /\ ~last'.exits
  BY <1>1, <1>4 DEF Flow
<1>7. last'.returns \/ last'.exits => reach' = {}
  BY <1>1, <1>3, <1>6 DEF BlockInv
<1> QED
  BY <1>1, <1>2, <1>5, <1>6, <1>7, CloseStep

LEMMA EndCheckStep ==
  ASSUME IInv, UNCHANGED outParameters, EndCheck
  PROVE  IInv'
<1>1. CASE Reject("N3201")
  BY <1>1, RejectIInv, "N3201" \in Errors DEF Errors
<1>2. CASE ~Reject("N3201")
  <2>1. /\ CanLeave({"check"}) /\ blocks' = Outer(blocks) /\ scopes' = Left /\ UNCHANGED <<hasty, verdict>>
        /\ reach' = Current.entry \cup reach /\ last' = Falls
    BY <1>2 DEF EndCheck
  <2>2. reach \in Paths /\ Current.entry \in Paths
    BY Shape, BlockParts
  <2>3. reach' \in Paths /\ reach' \subseteq reach \cup Current.entry \cup Current.after
    BY <2>1, <2>2 DEF Paths
  <2> QED
    BY <2>1, <2>3, FlowTypes, CloseStep
<1> QED
  BY <1>1, <1>2

(* The end of a TRY body or of a handler: what may pass the handlers by is *)
(* raised around the statement.                                            *)
LEMMA EndHandler ==
  ASSUME IInv, CanLeave({"try", "trap"}), NEW R \in Paths, R \subseteq reach \cup Current.entry \cup Current.after,
         NEW b \in Block, b.entry = Current.entry,
         NEW bs, bs = IF Current.kind = "try" THEN PassOn(b, Outer(blocks)) ELSE Outer(blocks)
  PROVE  /\ Sound(Parameters, Left, bs, R, hasty)
         /\ bs \in Seq(Block) /\ Len(bs) = Len(blocks) - 1
<1>1. Len(blocks) >= 2 /\ Len(Outer(blocks)) = Len(blocks) - 1
  BY CanLeaveIs
<1>2. Sound(Parameters, Left, Outer(blocks), R, hasty)
  BY <1>1, LeftHave
<1>3. b.entry \in Paths /\ Have(b.entry, Sure(Left, Len(Left), hasty))
  <2>1. Have(reach \cup Current.entry \cup Current.after, Sure(Left, Len(Left), hasty))
    BY <1>1, LeftHave
  <2> QED
    BY <2>1, BlockParts DEF Have
<1>4. /\ Sound(Parameters, Left, RaiseTo(Outer(blocks), b.entry), R, hasty)
      /\ Len(RaiseTo(Outer(blocks), b.entry)) = Len(Outer(blocks))
  BY <1>2, <1>3, RaiseSound
<1>5. bs = Outer(blocks) \/ bs = RaiseTo(Outer(blocks), b.entry)
  BY DEF PassOn
<1> QED
  BY <1>1, <1>2, <1>4, <1>5, SoundTypes

LEMMA EndTryStep ==
  ASSUME IInv, UNCHANGED outParameters, EndTry
  PROVE  IInv'
<1> DEFINE b == FinishBranch(Current)
<1>1. /\ CanLeave({"try", "trap"})
      /\ blocks' = IF Current.kind = "try" THEN PassOn(b, Outer(blocks)) ELSE Outer(blocks)
      /\ scopes' = Left /\ reach' = b.after /\ UNCHANGED <<hasty, verdict>>
      /\ last' = [returns |-> b.returns, exits |-> FALSE]
  BY DEF EndTry
<1>2. /\ Open /\ Len(blocks) >= 2 /\ Current.kind \in {"try", "trap"}
      /\ Len(blocks) <= MaxDepth + 1 /\ MaxDepth \in Nat
  BY <1>1, CanLeaveIs
<1>3. Current.kind \notin Loops
  BY <1>2 DEF Loops
<1>4. /\ b \in Block /\ b.entry = Current.entry /\ b.after = Current.after \cup reach
      /\ b.returns \/ b.exits => b.after = {}
  BY <1>2, <1>3, FinishBranchIs
<1> HIDE DEF b
<1>5. b.after \in Paths /\ b.after \subseteq reach \cup Current.entry \cup Current.after
  BY <1>4, BlockParts
<1>6. Sound(Parameters, Left, blocks', b.after, hasty) /\ Len(blocks') = Len(blocks) - 1
  BY <1>1, <1>4, <1>5, EndHandler
<1>7. last' \in Flow /\ (last'.returns <=> b.returns) /\ ~last'.exits
  BY <1>1, <1>4, BlockParts DEF Flow
<1>8. Len(blocks') <= MaxDepth + 1
  BY <1>2, <1>6, Shape
<1> QED
  BY <1>1, <1>2, <1>4, <1>6, <1>7, <1>8, StepIInv

LEMMA BeginTrapStep ==
  ASSUME IInv, UNCHANGED outParameters, BeginTrap
  PROVE  IInv'
<1> DEFINE f == FinishBranch(Current)
           b == [f EXCEPT !.kind = "trap", !.assigned = {}]
           o == IF Current.kind = "try" THEN PassOn(b, Outer(blocks)) ELSE Outer(blocks)
<1>1. /\ CanLeave({"try", "trap"})
      /\ blocks' = Append(o, b)
      /\ scopes' = Left /\ reach' = Current.entry /\ UNCHANGED <<hasty, verdict>>
      /\ last' = Falls
  BY DEF BeginTrap
<1>2. /\ Open /\ Len(blocks) >= 2 /\ Current.kind \in {"try", "trap"}
      /\ Len(blocks) <= MaxDepth + 1 /\ MaxDepth \in Nat
  BY <1>1, CanLeaveIs
<1>3. Current.kind \notin Loops
  BY <1>2 DEF Loops
<1>4. /\ f \in Block /\ f.entry = Current.entry /\ f.after = Current.after \cup reach
      /\ f.returns \/ f.exits => f.after = {}
      /\ ~f.first
  BY <1>2, <1>3, FinishBranchIs
<1> HIDE DEF f
<1>5. /\ b \in Block /\ b.kind = "trap" /\ ~b.first /\ b.entry = Current.entry
      /\ b.after = Current.after \cup reach /\ b.returns = f.returns /\ b.exits = f.exits
  BY <1>4 DEF Block, Kinds
<1> HIDE DEF b
<1>6. b.kind # "function" /\ BlockInv(b)
  BY <1>4, <1>5 DEF BlockInv, Loops
<1>7. Current.entry \in Paths
  BY Shape, BlockParts
<1>8. Sound(Parameters, Left, o, Current.entry, hasty) /\ o \in Seq(Block) /\ Len(o) = Len(blocks) - 1
  BY <1>1, <1>5, <1>7, EndHandler
<1> HIDE DEF o
<1>9. Have(b.entry \cup b.after, Sure(Left, Len(Left), hasty))
  <2>1. Have(reach \cup Current.entry \cup Current.after, Sure(Left, Len(Left), hasty))
    BY <1>2, LeftHave
  <2> QED
    BY <2>1, <1>5 DEF Have
<1>10. Sound(Parameters, Left, Append(o, b), Current.entry, hasty)
  BY <1>5, <1>6, <1>8, <1>9, PushHandlerSound
<1>11. Len(blocks') <= MaxDepth + 1
  <2>1. Len(blocks') = Len(o) + 1
    BY <1>1, <1>5, <1>8, AppendOf
  <2> QED
    BY <2>1, <1>2, <1>8, Shape
<1> QED
  BY <1>1, <1>2, <1>10, <1>11, FlowTypes, StepIInv

LEMMA LeaveFailsStep ==
  ASSUME IInv, UNCHANGED outParameters, NEW kinds, LeaveFails(kinds)
  PROVE  IInv'
  BY RejectIInv, "N3205" \in Errors DEF Errors, LeaveFails

LEMMA AssignFailsStep ==
  ASSUME IInv, UNCHANGED outParameters, NEW v, AssignFails(v)
  PROVE  IInv'
  BY RejectIInv, "N3260" \in Errors DEF Errors, AssignFails

(* The function ends: if it must return a value, no path leads here.       *)
LEMMA EndFunctionStep ==
  ASSUME IInv, UNCHANGED outParameters, EndFunction
  PROVE  IInv'
<1>1. CASE \E number \in Errors : Reject(number)
  BY <1>1, RejectIInv
<1>2. CASE verdict' = "accepted" /\ UNCHANGED <<scopes, blocks, last, reach, hasty>> /\ (ReturnsValue => last.returns)
  <2>1. Parameters' = Parameters
    BY DEF Parameters
  <2>2. TypeOK'
    BY <1>2 DEF IInv, TypeOK
  <2>3. Sound(Parameters, scopes', blocks', reach', hasty')
    BY <1>2 DEF IInv
  <2>4. NoFallOff'
    BY <1>2 DEF IInv, NoFallOff
  <2> QED
    BY <1>2, <2>1, <2>2, <2>3, <2>4 DEF IInv
<1> QED
  BY <1>1, <1>2 DEF EndFunction, Errors

LEMMA NextIInv == IInv /\ [Next]_vars => IInv'
<1> SUFFICES ASSUME IInv, [Next]_vars PROVE IInv'
  OBVIOUS
<1>1. CASE UNCHANGED vars
  <2>1. Parameters' = Parameters /\ TypeOK' /\ NoFallOff' /\ UNCHANGED <<scopes, blocks, reach, hasty, last>>
    BY <1>1 DEF IInv, vars, Parameters, TypeOK, NoFallOff
  <2> QED
    BY <2>1 DEF IInv
<1>2. CASE (Expression \/ Statement) /\ UNCHANGED outParameters
  <2>1. ASSUME NEW v \in Vars, NEW initialised \in BOOLEAN, Declare(v, initialised)
        PROVE  IInv'
    BY <1>2, <2>1, DeclareStep
  <2>2. ASSUME NEW v \in Vars, Read(v) \/ AssignFails(v) \/ DeclareUnused(v)
        PROVE  IInv'
    BY <1>2, <2>2, ReadStep, AssignFailsStep, DeclareUnusedStep
  <2>3. ASSUME NEW v \in Vars, NEW raises \in BOOLEAN, NEW sometimes \in BOOLEAN,
               Assign(v, raises, sometimes) \/ AssignInHandler(v, raises, sometimes)
        PROVE  IInv'
    BY <1>2, <2>3, AssignStep, AssignInHandlerStep
  <2>4. CASE Call \/ Raise \/ Return \/ \E k \in DOMAIN blocks : Exit(k) \/ Next_(k)
    BY <1>2, <2>4, JumpStep
  <2> QED
    BY <1>2, <2>1, <2>2, <2>3, <2>4 DEF Expression, Statement
<1>3. CASE Block_ /\ UNCHANGED outParameters
  <2>1. ASSUME NEW kind \in {"if", "else", "check", "try"} \cup Loops, Enter(kind)
        PROVE  IInv'
    BY <1>3, <2>1, EnterStep
  <2>2. ASSUME NEW to \in {"condition", "else"}, NextBranch(to)
        PROVE  IInv'
    BY <1>3, <2>2, NextBranchStep
  <2>3. ASSUME NEW b \in BOOLEAN, EndCase(b) \/ EndLoop(b)
        PROVE  IInv'
    BY <1>3, <2>3, EndCaseStep, EndLoopStep
  <2>4. CASE LeaveFails(Kinds \ {"function"}) \/ EndIfElse \/ EndIf \/ EndCheck
    BY <1>3, <2>4, LeaveFailsStep, EndIfElseStep, EndIfStep, EndCheckStep
  <2>5. CASE BeginTrap \/ EndTry \/ EndFunction
    BY <1>3, <2>5, BeginTrapStep, EndTryStep, EndFunctionStep
  <2> QED
    BY <1>3, <2>1, <2>2, <2>3, <2>4, <2>5 DEF Block_
<1>4. CASE BeginBranch /\ UNCHANGED outParameters
  BY <1>4, BeginBranchStep
<1> QED
  BY <1>1, <1>2, <1>3, <1>4 DEF Next

-----------------------------------------------------------------------------
(***************************************************************************)
(* The description of the body is sound wherever the analyzer is.          *)
(***************************************************************************)
THEOREM Invariance == Spec => []IInv
  BY InitIInv, NextIInv, PTL DEF Spec

(***************************************************************************)
(* Definite assignment: a variable whose read is accepted is assigned on   *)
(* every path that leads to it, except where the checker is too hasty.     *)
(***************************************************************************)
THEOREM ReadsAreInitialised == Spec => []ReadsInitialised
<1>1. IInv => ReadsInitialised
  <2> SUFFICES ASSUME IInv PROVE ReadsInitialised
    OBVIOUS
  <2>1. ASSUME NEW v \in (Visible(scopes) \cap Inner(scopes).assigned) \ hasty, NEW r \in reach
        PROVE  v \in r
    <3>1. Have(reach, Sure(scopes, Len(scopes), hasty)) /\ scopes \in Seq(Scope)
      BY Shape, SoundTypes DEF PathsInv
    <3>2. Visible(scopes) = Seen(scopes, Len(scopes))
      BY <3>1 DEF Visible, Seen
    <3>3. v \in Sure(scopes, Len(scopes), hasty)
      BY <3>2 DEF Sure, Inner
    <3> QED
      BY <3>1, <3>3 DEF Have
  <2> QED
    BY <2>1 DEF ReadsInitialised, IInv
<1> QED
  BY <1>1, Invariance, PTL

(***************************************************************************)
(* A function with a return type that is accepted does not run off its     *)
(* end, whatever its branches, loops and handlers do.                      *)
(***************************************************************************)
THEOREM NothingFallsOff == Spec => []NoFallOff
<1>1. IInv => NoFallOff
  BY DEF IInv
<1> QED
  BY <1>1, Invariance, PTL

(***************************************************************************)
(* What is behind a CHECK is reached by the paths that pass its body over  *)
(* only.                                                                   *)
(***************************************************************************)
THEOREM ChecksDoLeave == Spec => ChecksLeave
<1>1. IInv /\ [Next]_vars => [EndCheck /\ Open' => reach' \subseteq Current.entry]_vars
  <2> SUFFICES ASSUME IInv, EndCheck, Open' PROVE reach' \subseteq Current.entry
    OBVIOUS
  <2>1. ~Reject("N3201")
    BY DEF Open, Reject
  <2>2. last.exits /\ reach' = Current.entry \cup reach
    BY <2>1 DEF EndCheck
  <2> QED
    BY <2>2 DEF IInv
<1> QED
  BY <1>1, Invariance, PTL DEF Spec, ChecksLeave

(***************************************************************************)
(* Where check_out_parameters is content, the first OUT parameter is       *)
(* assigned on every path that returns here, with the same exceptions.     *)
(***************************************************************************)
THEOREM OutParametersAssigned == Spec => OutParameterAssigned
<1>1. IInv /\ [Next]_vars =>
        [outParameters # <<>> /\ ((Return /\ Open') \/ (EndFunction /\ verdict' = "accepted")) =>
           InHandler \/ Head(outParameters) \in hasty \/ \A r \in reach : Head(outParameters) \in r]_vars
  <2> SUFFICES ASSUME IInv, outParameters # <<>>,
                      (Return /\ Open') \/ (EndFunction /\ verdict' = "accepted"),
                      ~InHandler, Head(outParameters) \notin hasty, NEW r \in reach
               PROVE  Head(outParameters) \in r
    OBVIOUS
  <2>1. ~OutParameterMissing(scopes)
    BY DEF Return, EndFunction, Reject, Open
  <2>2. outParameters \in Seq(Vars)
    BY ConstantTypes DEF IInv, TypeOK
  <2>3. 1 \in DOMAIN outParameters /\ Head(outParameters) = outParameters[1]
    BY <2>2
  <2> DEFINE v == outParameters[1]
             m == Len(scopes)
  <2>4. v \in Inner(scopes).assigned \/ v \in scopes[Declarer(scopes, v)].assigned
    <3>1. \A j \in 1..1 : j = 1
      OBVIOUS
    <3> QED
      BY <2>1, <2>3, <3>1 DEF OutParameterMissing
  <2>5. /\ scopes \in Seq(Scope) /\ m \in Nat /\ 1 \in 1..m /\ m \in 1..m
        /\ ScopesInv(Parameters, scopes, blocks) /\ Have(reach, Sure(scopes, m, hasty))
    <3>1. m \in 1..Len(blocks)
      BY Shape
    <3> QED
      BY <3>1, Shape, SoundTypes DEF PathsInv
  <2>6. v \in DOMAIN scopes[1].usage
    BY <2>3, <2>5 DEF ScopesInv, Parameters
  <2>7. v \in Seen(scopes, m)
    BY <2>5, <2>6 DEF Seen
  <2>8. Declarer(scopes, v) \in 1..m
    <3>1. Declarer(scopes, v) \in 0..m /\ 1 <= Declarer(scopes, v)
      BY <2>5, <2>6, DeclarerType
    <3> QED
      BY <3>1, <2>5
  <2>9. v \in scopes[m].assigned
    <3>1. scopes[Declarer(scopes, v)].assigned \subseteq scopes[m].assigned
      BY <2>5, <2>8 DEF ScopesInv
    <3> QED
      BY <2>4, <3>1 DEF Inner
  <2> QED
    BY <2>3, <2>5, <2>7, <2>9 DEF Have, Sure
<1> QED
  BY <1>1, Invariance, PTL DEF Spec, OutParameterAssigned
=============================================================================
