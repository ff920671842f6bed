--------------------------- MODULE Modules_proofs ----------------------------
(***************************************************************************)
(* Proofs about Build, Loader and Modules, for any modules and imports,    *)
(* cycles included, and any number of edits and failed commands: nothing   *)
(* is compiled against an object that is out of date, and modules are      *)
(* initialised in an order that respects their imports.                    *)
(***************************************************************************)
EXTENDS Modules, SequenceTheorems, WellFoundedInduction, TLAPS

-----------------------------------------------------------------------------
(* What is true of a compilation under way.                                *)

(* A command that compiles has an Analyzer; one that runs has a program.   *)
CommandInv ==
  /\ command \in {"none", "neonx"} => analyzers = << >>
  /\ command \in {"neon", "neonx"} /\ analyzers = << >> => program # None

(* Each Analyzer waits for the one of its next import.                     *)
ChainInv ==
  /\ \A k \in DOMAIN analyzers :
       /\ source[analyzers[k].module] # None
       /\ Range(analyzers[k].todo) \subseteq Range(source[analyzers[k].module].imports)
  /\ \A k \in 1..(Len(analyzers) - 1) :
       analyzers[k].todo # << >> /\ Head(analyzers[k].todo).name = analyzers[k + 1].module

(* s_importing holds the names of the nested compilations.  Names of       *)
(* optional modules that were not found may be among them, so Finish may   *)
(* take another name off than that of its own file, but never too many.    *)
ImportingInv ==
  \A k \in 2..Len(analyzers) :
    \E p \in DOMAIN importing :
      p <= Len(importing) - (Len(analyzers) - k) /\ importing[p] = analyzers[k].module

(* So no file is compiled inside itself, except that the first one is not  *)
(* in s_importing.  If it is compiled again it is for the sake of the      *)
(* second one, and comes to an end at the import of that.                  *)
NestedInv ==
  /\ \A j, k \in 2..Len(analyzers) : analyzers[j].module = analyzers[k].module => j = k
  /\ \A k \in 2..Len(analyzers) : analyzers[k].module = analyzers[1].module =>
       /\ analyzers[k].modules[analyzers[2].module] = None
       /\ \E i \in Range(analyzers[k].todo) : i.name = analyzers[2].module

(* What the Analyzers know of modules is what is in their objects.         *)
FreshInv ==
  \A k \in DOMAIN analyzers : \A n \in Names : analyzers[k].modules[n] # None =>
    /\ UpToDate(n)
    /\ analyzers[k].modules[n] = object[n].text.exports

BuildInv == BuildTypeOK /\ CommandInv /\ ChainInv /\ ImportingInv /\ NestedInv /\ NoObjectWhileCompiling /\ FreshInv

-----------------------------------------------------------------------------
(* What is true of a program that is loaded or runs.                       *)

(* Nothing else goes on then, and before and after the table is empty.     *)
PhaseInv ==
  /\ loading # << >> \/ calls # << >> => command \in {"neon", "neonx"} /\ analyzers = << >>
  /\ loading = << >> \/ calls = << >>
  /\ loading = << >> /\ calls = << >> => initOrder = << >>

(* The modules entered in the table are those whose constructors are       *)
(* active, the main program first, and those loaded, each once.            *)
EnteredInv ==
  /\ loading # << >> => loading[1].module = Main
  /\ \A k \in 2..Len(loading) : loading[k].module \in Names
  /\ \A j, k \in DOMAIN loading : loading[j].module = loading[k].module => j = k
  /\ IsInjective(initOrder)
  /\ \A k \in DOMAIN loading : loading[k].module \notin Range(initOrder) /\ table[loading[k].module] # None
  /\ \A m \in Range(initOrder) : table[m] # None
  /\ loading # << >> => \A m \in Names : table[m] # None => m \in Range(initOrder) \/ \E k \in DOMAIN loading : loading[k].module = m

(* Each constructor waits for that of its next import, so that the later   *)
(* ones are of modules that the earlier ones lead to.                      *)
NextInv ==
  /\ \A k \in DOMAIN loading : Range(loading[k].todo) \subseteq Range(LinksOf(loading[k].module))
  /\ \A k \in 1..(Len(loading) - 1) :
       loading[k].todo # << >> /\ Head(loading[k].todo).name = loading[k + 1].module
  /\ \A h, k \in DOMAIN loading : h <= k => loading[k].module \in Below(loading[h].module)

(* An import that was dealt with is in the table, or will never be.        *)
Settled(n) == table[n] # None \/ object[n] = None

SettledInv ==
  loading # << >> =>
    /\ \A k \in DOMAIN loading : \A i \in Range(LinksOf(loading[k].module)) :
         i \in Range(loading[k].todo) \/ Settled(i.name)
    /\ \A m \in Range(initOrder) : \A n \in Imports(m) : Settled(n)

(* The order of initialisation.  What the modules up to the k-th import is *)
(* among them, or missing, or leads back to the k-th.                      *)
OrderInv ==
  \A k \in DOMAIN initOrder : \A j \in 1..k : \A n \in Imports(initOrder[j]) :
    \/ table[n] = None /\ object[n] = None
    \/ initOrder[k] \in Below(n)
    \/ \E h \in 1..k : initOrder[h] = n

(* The calls that are set up: the first module to run is the last one.     *)
CallsInv ==
  calls # << >> =>
    /\ Len(calls) <= Len(initOrder) + 1
    /\ calls[1] = Main
    /\ \A k \in 2..Len(calls) : calls[k] = initOrder[Len(initOrder) + 2 - k]

LoaderInv == PhaseInv /\ EnteredInv /\ NextInv /\ SettledInv /\ OrderInv /\ CallsInv

IInv == TypeOK /\ BuildInv /\ LoaderInv

-----------------------------------------------------------------------------
(* A non-empty set of natural numbers has a least element: the induction   *)
(* over the imports of a file.                                             *)
LEMMA LeastNatural ==
  ASSUME NEW S \in SUBSET Nat, S # {}
  PROVE  \E x \in S : \A y \in S : x <= y
<1>1. PICK x \in S : \A y \in S : ~ (<<y, x>> \in OpToRel(<, Nat))
  BY NatLessThanWellFounded, WFMin
<1>2. \A y \in S : ~ (y < x)
  BY <1>1 DEF OpToRel
<1>3. \A y \in S : x <= y
  BY <1>2
<1> QED
  BY <1>3

(* Some facts about sequences that are used over and over.                 *)
LEMMA LastOfSeq ==
  ASSUME NEW S, NEW s \in Seq(S), s # << >>
  PROVE  /\ Len(s) \in Nat \ {0} /\ Len(s) \in DOMAIN s /\ Last(s) = s[Len(s)] /\ Last(s) \in S
         /\ Front(s) \in Seq(S) /\ Len(Front(s)) = Len(s) - 1 /\ \A k \in 1..(Len(s) - 1) : Front(s)[k] = s[k]
<1>1. Len(s) \in Nat \ {0} /\ Len(s) \in DOMAIN s /\ s[Len(s)] \in S
  OBVIOUS
<1>2. Front(s) = SubSeq(s, 1, Len(s) - 1)
  BY DEF Front
<1>3. ASSUME NEW n \in Nat, Len(s) = n, n # 0
      PROVE  /\ SubSeq(s, 1, Len(s) - 1) \in Seq(S) /\ Len(SubSeq(s, 1, Len(s) - 1)) = Len(s) - 1
             /\ \A k \in 1..(Len(s) - 1) : SubSeq(s, 1, Len(s) - 1)[k] = s[k]
  BY <1>3
<1> QED
  BY <1>1, <1>2, <1>3 DEF Last

LEMMA HeadOfSeq ==
  ASSUME NEW S, NEW s \in Seq(S), s # << >>
  PROVE  /\ Head(s) \in S /\ Head(s) \in Range(s) /\ Tail(s) \in Seq(S)
         /\ Range(s) = Range(Tail(s)) \cup {Head(s)}
<1>1. /\ Head(s) = s[1] /\ 1 \in DOMAIN s /\ Tail(s) \in Seq(S)
      /\ \A k \in DOMAIN Tail(s) : k + 1 \in DOMAIN s /\ Tail(s)[k] = s[k + 1]
      /\ \A k \in DOMAIN s : k = 1 \/ (k - 1 \in DOMAIN Tail(s) /\ Tail(s)[k - 1] = s[k])
  OBVIOUS
<1>2. Range(Tail(s)) \cup {Head(s)} \subseteq Range(s)
  BY <1>1 DEF Range
<1>3. Range(s) \subseteq Range(Tail(s)) \cup {Head(s)}
  BY <1>1 DEF Range
<1> QED
  BY <1>1, <1>2, <1>3

(* t is s with its last element, the l-th, replaced.                       *)
Replaced(s, l, e, t) == Len(s) = l /\ t = [s EXCEPT ![l] = e]
LastReplaced(s, l, e, t) == Len(t) = l /\ t[l] = e /\ \A k \in 1..(l - 1) : t[k] = s[k]

LEMMA ReplacedLast ==
  ASSUME NEW S, NEW s \in Seq(S), NEW l \in DOMAIN s, NEW e \in S, NEW t, Replaced(s, l, e, t)
  PROVE  t \in Seq(S) /\ LastReplaced(s, l, e, t)
<1>1. t \in Seq(S) /\ Len(t) = Len(s) /\ t[l] = e /\ \A k \in DOMAIN s : k # l => t[k] = s[k]
  BY DEF Replaced
<1>2. \A k \in 1..(l - 1) : k \in DOMAIN s /\ k # l
  OBVIOUS
<1> QED
  BY <1>1, <1>2 DEF LastReplaced, Replaced

LEMMA ElementOf ==
  ASSUME NEW S, NEW s \in Seq(S), NEW k \in DOMAIN s
  PROVE  s[k] \in S
  OBVIOUS

LEMMA ElementsOfSeq ==
  ASSUME NEW S, NEW s \in Seq(S)
  PROVE  Range(s) \subseteq S
  BY DEF Range

-----------------------------------------------------------------------------
(* The imports that are left in an object: an induction over those of the  *)
(* source file.                                                            *)
LEMMA LinksTyped ==
  ASSUME BuildTypeOK, NEW a \in Analyzer, source[a.module] # None
  PROVE  Links(a) \in Seq(Import)
<1> DEFINE imports == source[a.module].imports
           N == Len(imports)
           isLink(i) == i.uses # Nothing /\ a.modules[i.name] # None
           step(f, k) == IF k = 0 THEN << >>
                         ELSE IF isLink(imports[k]) /\ \A j \in DOMAIN f[k - 1] : f[k - 1][j].name # imports[k].name
                         THEN Append(f[k - 1], imports[k])
                         ELSE f[k - 1]
           upTo == CHOOSE f : f = [k \in 0..N |-> step(f, k)]
<1>1. imports \in Seq(Import) /\ N \in Nat
  BY DEF BuildTypeOK, Analyzer, Text
<1>2. Links(a) = upTo[N]
  BY DEF Links
<1> HIDE DEF imports, N
<1>3. ASSUME NEW f, NEW k \in 0..N, k = 0 \/ f[k - 1] \in Seq(Import)
      PROVE  step(f, k) \in Seq(Import)
  BY <1>1, <1>3 DEF N
<1> DEFINE Solves(f, n) == f \in [0..n -> Seq(Import)] /\ \A k \in 0..n : f[k] = step(f, k)
           Unsolved == {n \in 0..N : ~\E f : Solves(f, n)}
<1>4. Unsolved \in SUBSET Nat /\ \A n \in 0..N : n \in Unsolved <=> ~\E f : Solves(f, n)
  <2> HIDE DEF Solves
  <2>1. Unsolved \subseteq 0..N /\ \A n \in 0..N : n \in Unsolved <=> ~\E f : Solves(f, n)
    OBVIOUS
  <2> QED
    BY <1>1, <2>1
<1>5. Unsolved = {}
  <2> SUFFICES ASSUME Unsolved # {} PROVE FALSE
    OBVIOUS
  <2>1. PICK n \in 0..N : n \in Unsolved /\ \A m \in Unsolved : n <= m
    <3> HIDE DEF Unsolved
    <3>1. \E n \in Unsolved : \A m \in Unsolved : n <= m
      BY <1>4, LeastNatural
    <3> QED
      BY <3>1 DEF Unsolved
  <2> HIDE DEF Unsolved
  <2>2. ~\E f : Solves(f, n)
    BY <1>4, <2>1
  <2>3. CASE n = 0
    <3> DEFINE g == [k \in 0..0 |-> << >>]
    <3>1. g \in [0..0 -> Seq(Import)]
      OBVIOUS
    <3>2. \A k \in 0..0 : g[k] = step(g, k)
      OBVIOUS
    <3> QED
      BY <2>2, <2>3, <3>1, <3>2
  <2>4. CASE n > 0
    <3>1. n - 1 \in 0..N /\ n - 1 \notin Unsolved
      BY <1>1, <2>1, <2>4
    <3>2. PICK f : Solves(f, n - 1)
      BY <1>4, <3>1
    <3>3. \A k \in 0..(n - 1) : f[k] = step(f, k) /\ f[k] \in Seq(Import)
      BY <3>2
    <3> HIDE DEF step
    <3>4. step(f, n) \in Seq(Import)
      BY <1>3, <2>4, <3>1, <3>3
    <3> DEFINE g == [k \in 0..n |-> IF k < n THEN f[k] ELSE step(f, n)]
    <3>5. g \in [0..n -> Seq(Import)]
      BY <2>4, <3>3, <3>4
    <3>6. ASSUME NEW k \in 0..n
          PROVE  g[k] = step(g, k)
      <4>1. k = 0 \/ g[k - 1] = f[k - 1]
        BY <3>6
      <4>2. step(g, k) = step(f, k)
        <5>1. CASE k = 0
          BY <5>1 DEF step
        <5>2. CASE k # 0 /\ g[k - 1] = f[k - 1]
          <6> HIDE DEF g
          <6> QED
            BY <5>2 DEF step
        <5> QED
          BY <4>1, <5>1, <5>2
      <4>3. g[k] = step(f, k)
        BY <3>3, <3>6
      <4> QED
        BY <4>2, <4>3
    <3> HIDE DEF g
    <3> QED
      BY <2>2, <3>5, <3>6
  <2> QED
    BY <2>1, <2>3, <2>4
<1>8. PICK f : Solves(f, N)
  <2> HIDE DEF Unsolved, Solves
  <2> QED
    BY <1>1, <1>4, <1>5
<1>6. f = [k \in 0..N |-> step(f, k)]
  BY <1>8
<1>7. upTo = [k \in 0..N |-> step(upTo, k)]
  BY <1>6
<1> DEFINE Untyped == {n \in 0..N : upTo[n] \notin Seq(Import)}
<1> HIDE DEF upTo, step
<1>9. Untyped = {}
  <2> SUFFICES ASSUME Untyped # {} PROVE FALSE
    OBVIOUS
  <2>1. Untyped \in SUBSET Nat
    BY <1>1
  <2>2. PICK n \in Untyped : \A m \in Untyped : n <= m
    <3> HIDE DEF Untyped
    <3> QED
      BY <2>1, LeastNatural
  <2>3. n = 0 \/ upTo[n - 1] \in Seq(Import)
    BY <1>1, <2>2
  <2>4. step(upTo, n) \in Seq(Import)
    BY <1>3, <2>2, <2>3
  <2> QED
    BY <1>7, <2>2, <2>4
<1> QED
  BY <1>1, <1>2, <1>9

LEMMA CompiledTyped ==
  ASSUME BuildTypeOK, NEW a \in Analyzer, source[a.module] # None
  PROVE  Compiled(a) \in Object /\ Compiled(a).text = source[a.module] /\ Compiled(a) # None
<1>1. source[a.module] \in Text
  BY DEF BuildTypeOK, Analyzer
<1> QED
  BY <1>1, LinksTyped, ConstantTypes DEF Compiled, Object

-----------------------------------------------------------------------------
(* The innermost Analyzer, its next import, and what becomes of the list   *)
(* of Analyzers when that was dealt with.                                  *)
LEMMA CurrentTyped ==
  ASSUME BuildTypeOK, analyzers # << >>
  PROVE  /\ Len(analyzers) \in Nat \ {0} /\ Len(analyzers) \in DOMAIN analyzers
         /\ Current = analyzers[Len(analyzers)] /\ Current \in Analyzer
         /\ Current.module \in Names /\ Current.todo \in Seq(Import)
         /\ Current.modules \in [Names -> Functions \cup {None}]
<1>1. analyzers \in Seq(Analyzer)
  BY DEF BuildTypeOK
<1>2. /\ Len(analyzers) \in Nat \ {0} /\ Len(analyzers) \in DOMAIN analyzers
      /\ Current = analyzers[Len(analyzers)] /\ Current \in Analyzer
  BY <1>1, LastOfSeq DEF Current
<1> QED
  BY <1>2 DEF Analyzer

LEMMA NextTyped ==
  ASSUME BuildTypeOK, Importing
  PROVE  /\ analyzers # << >> /\ Current.todo # << >>
         /\ Next_ \in Import /\ Next_.name \in Names /\ Next_ \in Range(Current.todo)
         /\ Tail(Current.todo) \in Seq(Import)
<1>1. analyzers # << >> /\ Current.todo # << >>
  BY DEF Importing
<1>2. Current.todo \in Seq(Import)
  BY <1>1, CurrentTyped
<1>3. Next_ \in Import /\ Next_ \in Range(Current.todo) /\ Tail(Current.todo) \in Seq(Import)
  BY <1>1, <1>2, HeadOfSeq DEF Next_
<1> QED
  BY <1>1, <1>3 DEF Import

(* bs is the list as after the innermost of the first l Analyzers has      *)
(* dealt with its next import.                                             *)
Advanced(as, bs, l) ==
  /\ l \in 1..Len(as) /\ as[l].todo # << >>
  /\ bs \in Seq(Analyzer) /\ Len(bs) = l
  /\ \A k \in 1..(l - 1) : bs[k] = as[k]
  /\ bs[l].module = as[l].module /\ bs[l].todo = Tail(as[l].todo)
  /\ \A n \in Names : n # Head(as[l].todo).name => bs[l].modules[n] = as[l].modules[n]

LEMMA DoneAdvances ==
  ASSUME NEW as \in Seq(Analyzer), NEW l \in Nat, Len(as) = l, l >= 1, as[l].todo # << >>
  PROVE  /\ Advanced(as, Done(as), l)
         /\ Done(as)[l].modules = as[l].modules
<1>1. l \in DOMAIN as /\ l \in 1..Len(as)
  OBVIOUS
<1>2. as[l] \in Analyzer
  BY <1>1, ElementOf, Zenon
<1>3. Tail(as[l].todo) \in Seq(Import)
  BY <1>2, HeadOfSeq DEF Analyzer
<1> DEFINE a == [as[l] EXCEPT !.todo = Tail(@)]
<1>4. a \in Analyzer /\ a.module = as[l].module /\ a.todo = Tail(as[l].todo) /\ a.modules = as[l].modules
  BY <1>2, <1>3 DEF Analyzer
<1>5. Replaced(as, l, a, Done(as))
  BY <1>1 DEF Done, Replaced
<1> HIDE DEF a
<1>6. a \in Analyzer
  BY <1>4
<1>7. Done(as) \in Seq(Analyzer) /\ LastReplaced(as, l, a, Done(as))
  BY <1>1, <1>5, <1>6, ReplacedLast, Zenon
<1>8. Len(Done(as)) = l /\ Done(as)[l] = a /\ \A k \in 1..(l - 1) : Done(as)[k] = as[k]
  BY <1>7 DEF LastReplaced
<1> QED
  BY <1>1, <1>4, <1>7, <1>8 DEF Advanced

(* The same, when what the imported module m exports is known by then.     *)
Knowing(as, l, m, f) == [Done(as) EXCEPT ![l].modules[m] = f]

LEMMA DoneKnowing ==
  ASSUME NEW as \in Seq(Analyzer), NEW l \in Nat, Len(as) = l, l >= 1, as[l].todo # << >>,
         NEW m \in Names, m = Head(as[l].todo).name, NEW f \in Functions
  PROVE  /\ Advanced(as, Knowing(as, l, m, f), l)
         /\ Knowing(as, l, m, f)[l].modules[m] = f
<1> DEFINE bs == Knowing(as, l, m, f)
<1> DEFINE ds == Done(as)
<1>1. Advanced(as, ds, l)
  BY DoneAdvances
<1> HIDE DEF ds
<1>2. /\ l \in 1..Len(as) /\ \A k \in 1..(l - 1) : ds[k] = as[k]
      /\ ds[l].module = as[l].module /\ ds[l].todo = Tail(as[l].todo)
      /\ \A n \in Names : n # Head(as[l].todo).name => ds[l].modules[n] = as[l].modules[n]
      /\ ds \in Seq(Analyzer) /\ Len(ds) = l
  BY <1>1 DEF Advanced
<1>3. l \in DOMAIN ds
  BY <1>2
<1>4. ds[l] \in Analyzer
  BY <1>2, <1>3, ElementOf, Zenon
<1>5. ds[l].modules \in [Names -> Functions \cup {None}]
  BY <1>4 DEF Analyzer
<1> DEFINE b == [ds[l] EXCEPT !.modules[m] = f]
<1>6. b \in Analyzer /\ b.module = ds[l].module /\ b.todo = ds[l].todo
      /\ b.modules[m] = f /\ \A n \in Names : n # m => b.modules[n] = ds[l].modules[n]
  BY <1>4, <1>5 DEF Analyzer
<1>7. Replaced(ds, l, b, bs)
  BY <1>2 DEF ds, Replaced, Knowing
<1> HIDE DEF b, bs
<1>8. b \in Analyzer /\ ds \in Seq(Analyzer)
  BY <1>2, <1>6
<1>9. bs \in Seq(Analyzer) /\ LastReplaced(ds, l, b, bs)
  BY <1>3, <1>7, <1>8, ReplacedLast, Zenon
<1>10. Len(bs) = l /\ bs[l] = b /\ \A k \in 1..(l - 1) : bs[k] = ds[k]
  BY <1>9 DEF LastReplaced
<1>11. bs[l].module = as[l].module /\ bs[l].todo = Tail(as[l].todo) /\ bs[l].modules[m] = f
  BY <1>2, <1>6, <1>10
<1>12. \A n \in Names : n # Head(as[l].todo).name => bs[l].modules[n] = as[l].modules[n]
  BY <1>2, <1>6, <1>10
<1>13. \A k \in 1..(l - 1) : bs[k] = as[k]
  BY <1>2, <1>10
<1> QED
  BY <1>2, <1>9, <1>10, <1>11, <1>12, <1>13 DEF Advanced, bs

(* The chain of Analyzers goes on, and the file that is compiled inside    *)
(* itself does not get past the second one.                                *)
LEMMA AdvanceChain ==
  ASSUME BuildTypeOK, ChainInv, NestedInv, NEW l \in 1..Len(analyzers), Advanced(analyzers, analyzers', l),
         UNCHANGED source,
         l >= 2 /\ analyzers[l].module = analyzers[1].module => Head(analyzers[l].todo).name # analyzers[2].module
  PROVE  ChainInv' /\ NestedInv'
<1>1. analyzers \in Seq(Analyzer) /\ Len(analyzers) \in Nat /\ l \in Nat /\ l >= 1 /\ l <= Len(analyzers)
  BY DEF BuildTypeOK
<1>2. /\ analyzers' \in Seq(Analyzer) /\ Len(analyzers') = l /\ analyzers[l].todo # << >>
      /\ \A k \in 1..(l - 1) : analyzers'[k] = analyzers[k]
      /\ analyzers'[l].module = analyzers[l].module /\ analyzers'[l].todo = Tail(analyzers[l].todo)
      /\ \A n \in Names : n # Head(analyzers[l].todo).name => analyzers'[l].modules[n] = analyzers[l].modules[n]
  BY DEF Advanced
<1>3. \A k \in 1..l : k = l \/ k \in 1..(l - 1)
  BY <1>1
<1>4. \A k \in 1..l : k \in 1..Len(analyzers) /\ analyzers[k] \in Analyzer /\ analyzers'[k].module = analyzers[k].module
  BY <1>1, <1>2, <1>3
<1>5. analyzers[l].todo \in Seq(Import)
  BY <1>4, <1>1 DEF Analyzer
<1>6. Range(analyzers[l].todo) = Range(analyzers'[l].todo) \cup {Head(analyzers[l].todo)}
  BY <1>2, <1>5, HeadOfSeq
<1>7. ChainInv'
  <2>1. \A k \in 1..l : Range(analyzers'[k].todo) \subseteq Range(analyzers[k].todo)
    BY <1>2, <1>3, <1>6
  <2>2. ASSUME NEW k \in 1..l
        PROVE  /\ source'[analyzers'[k].module] # None
               /\ Range(analyzers'[k].todo) \subseteq Range(source'[analyzers'[k].module].imports)
    <3>1. k \in DOMAIN analyzers /\ analyzers'[k].module = analyzers[k].module
      BY <1>1, <1>4
    <3>2. /\ source[analyzers[k].module] # None
          /\ Range(analyzers[k].todo) \subseteq Range(source[analyzers[k].module].imports)
      BY <3>1 DEF ChainInv
    <3> QED
      BY <2>1, <3>1, <3>2
  <2>3. \A k \in 1..(Len(analyzers') - 1) :
          analyzers'[k].todo # << >> /\ Head(analyzers'[k].todo).name = analyzers'[k + 1].module
    BY <1>1, <1>2, <1>4 DEF ChainInv
  <2>4. DOMAIN analyzers' = 1..l
    BY <1>2
  <2> QED
    BY <2>2, <2>3, <2>4 DEF ChainInv
<1>8. NestedInv'
  <2>1. \A j, k \in 2..Len(analyzers') : analyzers'[j].module = analyzers'[k].module => j = k
    BY <1>1, <1>2, <1>4 DEF NestedInv
  <2>2. ASSUME NEW k \in 2..Len(analyzers'), analyzers'[k].module = analyzers'[1].module
        PROVE  /\ analyzers'[k].modules[analyzers'[2].module] = None
               /\ \E i \in Range(analyzers'[k].todo) : i.name = analyzers'[2].module
    <3>1. /\ k \in 2..Len(analyzers) /\ k \in 1..l /\ 1 \in 1..l /\ 2 \in 1..l
          /\ analyzers[k].module = analyzers[1].module /\ analyzers'[2].module = analyzers[2].module
      BY <1>1, <1>2, <1>4, <2>2
    <3>2. /\ analyzers[k].modules[analyzers[2].module] = None
          /\ \E i \in Range(analyzers[k].todo) : i.name = analyzers[2].module
      BY <3>1 DEF NestedInv
    <3>3. analyzers[2].module \in Names
      BY <1>4, <3>1 DEF Analyzer
    <3>4. CASE k < l
      BY <1>1, <1>2, <3>1, <3>2, <3>4
    <3>5. CASE k = l
      <4>1. Head(analyzers[l].todo).name # analyzers[2].module
        BY <1>1, <3>1, <3>5
      <4> QED
        BY <1>2, <1>6, <3>1, <3>2, <3>3, <3>5, <4>1
    <3> QED
      BY <1>1, <3>1, <3>4, <3>5
  <2> QED
    BY <2>1, <2>2 DEF NestedInv
<1> QED
  BY <1>7, <1>8

LEMMA AdvanceImporting ==
  ASSUME BuildTypeOK, importing' \in Seq(Names), ImportingInv,
         NEW l \in 1..Len(analyzers), Advanced(analyzers, analyzers', l),
         Len(importing') >= Len(importing) - (Len(analyzers) - l),
         \A p \in DOMAIN importing : p <= Len(importing) - (Len(analyzers) - l) =>
           p \in DOMAIN importing' /\ importing'[p] = importing[p]
  PROVE  ImportingInv'
<1>1. /\ Len(analyzers) \in Nat /\ Len(importing) \in Nat /\ Len(importing') \in Nat
      /\ l \in Nat /\ l >= 1 /\ l <= Len(analyzers)
  BY DEF BuildTypeOK
<1>2. Len(analyzers') = l /\ \A k \in 1..l : analyzers'[k].module = analyzers[k].module
  BY <1>1 DEF Advanced
<1>3. ASSUME NEW k \in 2..l
      PROVE  \E p \in DOMAIN importing' : p <= Len(importing') - (l - k) /\ importing'[p] = analyzers'[k].module
  <2>1. k \in 2..Len(analyzers) /\ k \in 1..l
    BY <1>1
  <2>2. PICK p \in DOMAIN importing : p <= Len(importing) - (Len(analyzers) - k) /\ importing[p] = analyzers[k].module
    BY <2>1 DEF ImportingInv
  <2>3. p \in Nat
    BY DEF BuildTypeOK
  <2>4. p <= Len(importing) - (Len(analyzers) - l)
    BY <1>1, <2>2, <2>3
  <2>5. p \in DOMAIN importing' /\ importing'[p] = importing[p]
    BY <2>4
  <2>6. p <= Len(importing') - (l - k)
    BY <1>1, <2>2, <2>3
  <2> QED
    BY <1>2, <2>1, <2>2, <2>5, <2>6
<1> QED
  BY <1>2, <1>3 DEF ImportingInv

LEMMA AdvanceFresh ==
  ASSUME BuildTypeOK, FreshInv, NEW l \in 1..Len(analyzers), Advanced(analyzers, analyzers', l), UNCHANGED source,
         \A n \in Names : UpToDate(n) => object'[n] = object[n],
         NEW h, Head(analyzers[l].todo).name = h,
         analyzers'[l].modules[h] # None => UpToDate(h)' /\ analyzers'[l].modules[h] = object'[h].text.exports
  PROVE  FreshInv'
<1>1. /\ Len(analyzers) \in Nat /\ l \in Nat /\ l >= 1 /\ l <= Len(analyzers)
  BY DEF BuildTypeOK
<1>2. /\ Len(analyzers') = l /\ analyzers' \in Seq(Analyzer)
      /\ \A k \in 1..(l - 1) : analyzers'[k] = analyzers[k]
      /\ \A n \in Names : n # Head(analyzers[l].todo).name => analyzers'[l].modules[n] = analyzers[l].modules[n]
  BY DEF Advanced
<1>3. ASSUME NEW k \in 1..l, NEW n \in Names, analyzers'[k].modules[n] # None
      PROVE  UpToDate(n)' /\ analyzers'[k].modules[n] = object'[n].text.exports
  <2>1. CASE k = l /\ n = Head(analyzers[l].todo).name
    BY <1>3, <2>1 DEF UpToDate
  <2>2. CASE analyzers'[k].modules[n] = analyzers[k].modules[n]
    <3>1. k \in DOMAIN analyzers
      BY <1>1
    <3>2. UpToDate(n) /\ analyzers[k].modules[n] = object[n].text.exports
      BY <1>3, <2>2, <3>1 DEF FreshInv
    <3>3. object'[n] = object[n]
      BY <3>2
    <3> QED
      BY <2>2, <3>2, <3>3 DEF UpToDate
  <2>3. k = l \/ k \in 1..(l - 1)
    BY <1>1
  <2> QED
    BY <1>2, <2>1, <2>2, <2>3
<1>4. DOMAIN analyzers' = 1..l
  BY <1>2
<1> QED
  BY <1>3, <1>4 DEF FreshInv

(* A step after which the innermost of the first l Analyzers goes on from  *)
(* its import of h.                                                        *)
Advances(l, h) ==
  /\ l \in 1..Len(analyzers) /\ Advanced(analyzers, analyzers', l) /\ Head(analyzers[l].todo).name = h
  /\ UNCHANGED <<source, command>>
  /\ l >= 2 /\ analyzers[l].module = analyzers[1].module => h # analyzers[2].module
  /\ importing' \in Seq(Names) /\ Len(importing') >= Len(importing) - (Len(analyzers) - l)
  /\ \A p \in DOMAIN importing : p <= Len(importing) - (Len(analyzers) - l) =>
       p \in DOMAIN importing' /\ importing'[p] = importing[p]
  /\ \A n \in Names : UpToDate(n) => object'[n] = object[n]
  /\ \A k \in 1..l : object'[analyzers[k].module] = object[analyzers[k].module]
  /\ analyzers'[l].modules[h] # None => UpToDate(h)' /\ analyzers'[l].modules[h] = object'[h].text.exports

LEMMA AdvanceBuild ==
  ASSUME BuildInv, NEW l, NEW h, Advances(l, h)
  PROVE  CommandInv' /\ ChainInv' /\ ImportingInv' /\ NestedInv' /\ NoObjectWhileCompiling' /\ FreshInv'
<1>1. /\ Len(analyzers) \in Nat /\ l \in Nat /\ l >= 1 /\ l <= Len(analyzers)
  BY DEF BuildInv, BuildTypeOK, Advances
<1>2. /\ Len(analyzers') = l /\ analyzers' \in Seq(Analyzer)
      /\ \A k \in 1..l : analyzers'[k].module = analyzers[k].module
  BY <1>1 DEF Advanced, Advances
<1>3. ChainInv' /\ NestedInv'
  BY AdvanceChain DEF BuildInv, Advances
<1>4. ImportingInv'
  BY AdvanceImporting DEF BuildInv, Advances
<1>5. FreshInv'
  BY AdvanceFresh DEF BuildInv, Advances
<1>6. NoObjectWhileCompiling'
  <2>1. DOMAIN analyzers' = 1..l /\ \A k \in 1..l : k \in DOMAIN analyzers
    BY <1>1, <1>2
  <2> QED
    BY <1>2, <2>1 DEF BuildInv, NoObjectWhileCompiling, Advances
<1>7. CommandInv'
  <2>1. analyzers # << >> /\ analyzers' # << >>
    BY <1>1, <1>2
  <2> QED
    BY <2>1 DEF BuildInv, CommandInv, Advances
<1> QED
  BY <1>3, <1>4, <1>5, <1>6, <1>7

(* What remains true when a command ends, or neonc is done with a file.    *)
LEMMA NoAnalyzer ==
  ASSUME analyzers' = << >>
  PROVE  ChainInv' /\ ImportingInv' /\ NestedInv' /\ NoObjectWhileCompiling' /\ FreshInv'
<1>1. Len(analyzers') = 0 /\ DOMAIN analyzers' = {}
  OBVIOUS
<1> QED
  BY <1>1 DEF ChainInv, ImportingInv, NestedInv, NoObjectWhileCompiling, FreshInv

(* The first Analyzer of a command.                                        *)
LEMMA FirstAnalyzer ==
  ASSUME BuildTypeOK, NEW m \in Names, source[m] # None, UNCHANGED source,
         analyzers' = <<NewAnalyzer(m)>>, object'[m] = None \/ command' = "neon"
  PROVE  /\ analyzers' \in Seq(Analyzer) /\ analyzers' # << >>
         /\ ChainInv' /\ ImportingInv' /\ NestedInv' /\ NoObjectWhileCompiling' /\ FreshInv'
<1> DEFINE a == NewAnalyzer(m)
<1>1. a \in Analyzer
  BY DEF BuildTypeOK, NewAnalyzer, Analyzer, Text
<1>2. a.module = m /\ a.todo = source[m].imports /\ \A n \in Names : a.modules[n] = None
  BY DEF NewAnalyzer
<1> HIDE DEF a
<1>3. analyzers' = <<a>>
  BY DEF a
<1>4. analyzers' \in Seq(Analyzer) /\ Len(analyzers') = 1 /\ DOMAIN analyzers' = {1} /\ analyzers'[1] = a
  BY <1>1, <1>3
<1>5. ChainInv'
  BY <1>2, <1>4 DEF ChainInv
<1>6. ImportingInv' /\ NestedInv'
  BY <1>4 DEF ImportingInv, NestedInv
<1>7. NoObjectWhileCompiling' /\ FreshInv'
  BY <1>2, <1>4 DEF NoObjectWhileCompiling, FreshInv
<1> QED
  BY <1>3, <1>4, <1>5, <1>6, <1>7

-----------------------------------------------------------------------------
(* Every step of a compilation, and every command, keeps the invariant.    *)

LEMMA StepFail ==
  ASSUME BuildInv, analyzers # << >>, NEW number \in {"N3001", "N3176", "N3181"}, NEW left \in Seq(Names), Fail(number, left)
  PROVE  BuildInv'
<1>1. analyzers' = << >>
  BY DEF Fail
<1>2. ChainInv' /\ ImportingInv' /\ NestedInv' /\ NoObjectWhileCompiling' /\ FreshInv'
  BY <1>1, NoAnalyzer
<1>3. command' \in {"none", "neonc"}
  BY DEF Fail
<1>4. CommandInv'
  BY <1>1, <1>3 DEF CommandInv
<1>5. BuildTypeOK'
  <2>1. << >> \in Seq(Analyzer) /\ << >> \in Seq(Names)
    OBVIOUS
  <2>2. importing' \in Seq(Names) /\ analyzers' \in Seq(Analyzer)
    BY <2>1 DEF Fail
  <2> QED
    BY <1>3, <2>2 DEF Fail, BuildInv, BuildTypeOK
<1> QED
  BY <1>2, <1>4, <1>5 DEF BuildInv

LEMMA Top ==
  ASSUME BuildTypeOK, Importing
  PROVE  \E l \in Nat, n \in Names :
           /\ Len(analyzers) = l /\ l >= 1 /\ l \in 1..Len(analyzers) /\ l \in DOMAIN analyzers
           /\ Current = analyzers[l] /\ analyzers[l].todo # << >>
           /\ Head(analyzers[l].todo).name = n /\ Next_.name = n
<1>1. analyzers # << >> /\ Next_.name \in Names
  BY NextTyped
<1>2. /\ Len(analyzers) \in Nat \ {0} /\ Len(analyzers) \in DOMAIN analyzers
      /\ Current = analyzers[Len(analyzers)]
  BY <1>1, CurrentTyped
<1>3. Head(analyzers[Len(analyzers)].todo) = Next_ /\ analyzers[Len(analyzers)].todo # << >>
  BY <1>2 DEF Next_, Importing
<1> QED
  BY <1>1, <1>2, <1>3

(* The second file that is compiled is in s_importing.                     *)
LEMMA SecondImporting ==
  ASSUME BuildTypeOK, ImportingInv, NEW k \in 2..Len(analyzers)
  PROVE  analyzers[k].module \in Range(importing)
  BY DEF ImportingInv, Range

LEMMA StepImportAgain ==
  ASSUME BuildInv, ImportAgain
  PROVE  BuildInv'
<1>1. BuildTypeOK /\ Importing /\ Current.modules[Next_.name] # None
  BY DEF BuildInv, ImportAgain
<1>2. PICK l \in Nat, n \in Names :
       /\ Len(analyzers) = l /\ l >= 1 /\ l \in 1..Len(analyzers) /\ l \in DOMAIN analyzers
       /\ Current = analyzers[l] /\ analyzers[l].todo # << >>
       /\ Head(analyzers[l].todo).name = n /\ Next_.name = n
  BY <1>1, Top
<1>3. analyzers \in Seq(Analyzer) /\ importing \in Seq(Names)
  BY <1>1 DEF BuildTypeOK
<1>4. /\ analyzers' = Done(analyzers)
      /\ UNCHANGED <<source, object, command, importing, program, error>>
  BY DEF ImportAgain
<1>5. /\ Advanced(analyzers, analyzers', l)
      /\ analyzers'[l].modules = analyzers[l].modules
  BY <1>2, <1>3, <1>4, DoneAdvances
<1>6. l >= 2 /\ analyzers[l].module = analyzers[1].module => n # analyzers[2].module
  BY <1>1, <1>2 DEF BuildInv, NestedInv
<1>7. UpToDate(n)' /\ analyzers'[l].modules[n] = object'[n].text.exports
  <2>1. UpToDate(n) /\ Current.modules[n] = object[n].text.exports
    BY <1>1, <1>2 DEF BuildInv, FreshInv
  <2> QED
    BY <1>2, <1>4, <1>5, <2>1 DEF UpToDate
<1>8. CommandInv' /\ ChainInv' /\ ImportingInv' /\ NestedInv' /\ NoObjectWhileCompiling' /\ FreshInv'
  <2>1. /\ Len(importing') >= Len(importing) - (Len(analyzers) - l) /\ importing' \in Seq(Names)
        /\ \A p \in DOMAIN importing : p \in DOMAIN importing' /\ importing'[p] = importing[p]
    BY <1>2, <1>3, <1>4
  <2> QED
    <3>1. Advances(l, n)
      BY <1>2, <1>4, <1>5, <1>6, <1>7, <2>1 DEF Advances
    <3> QED
      BY <3>1, AdvanceBuild, Zenon
<1>9. BuildTypeOK'
  BY <1>1, <1>4, <1>5 DEF BuildTypeOK, Advanced
<1> QED
  BY <1>8, <1>9 DEF BuildInv

LEMMA StepImportRecursive ==
  ASSUME BuildInv, ImportRecursive
  PROVE  BuildInv'
<1>1. analyzers # << >> /\ Fail("N3181", importing)
  BY DEF ImportRecursive, Importing
<1>2. importing \in Seq(Names)
  BY DEF BuildInv, BuildTypeOK
<1> QED
  BY <1>1, <1>2, StepFail

LEMMA StepImportNotFound ==
  ASSUME BuildInv, ImportNotFound
  PROVE  BuildInv'
<1>1. BuildTypeOK /\ Importing /\ IsNew(Next_.name)
  BY DEF BuildInv, ImportNotFound
<1>2. PICK l \in Nat, n \in Names :
       /\ Len(analyzers) = l /\ l >= 1 /\ l \in 1..Len(analyzers) /\ l \in DOMAIN analyzers
       /\ Current = analyzers[l] /\ analyzers[l].todo # << >>
       /\ Head(analyzers[l].todo).name = n /\ Next_.name = n
  BY <1>1, Top
<1>3. analyzers \in Seq(Analyzer) /\ importing \in Seq(Names)
  BY <1>1 DEF BuildTypeOK
<1>4. /\ Append(importing, n) \in Seq(Names)
      /\ Len(Append(importing, n)) = Len(importing) + 1
      /\ \A p \in DOMAIN importing :
           p \in DOMAIN Append(importing, n) /\ Append(importing, n)[p] = importing[p]
  BY <1>2, <1>3
<1>5. CASE Next_.optional
  <2>1. /\ analyzers' = Done(analyzers) /\ importing' = Append(importing, n)
        /\ UNCHANGED <<source, object, command, program, error>>
    BY <1>2, <1>5 DEF ImportNotFound
  <2>2. /\ Advanced(analyzers, analyzers', l)
        /\ analyzers'[l].modules = analyzers[l].modules
    BY <1>2, <1>3, <2>1, DoneAdvances
  <2>3. l >= 2 => n # analyzers[2].module
    BY <1>1, <1>2, SecondImporting DEF BuildInv, IsNew
  <2>4. analyzers'[l].modules[n] = None
    BY <1>1, <1>2, <2>2 DEF IsNew
  <2>5. CommandInv' /\ ChainInv' /\ ImportingInv' /\ NestedInv' /\ NoObjectWhileCompiling' /\ FreshInv'
    <3>1. /\ Len(importing') >= Len(importing) - (Len(analyzers) - l) /\ importing' \in Seq(Names)
          /\ \A p \in DOMAIN importing : p \in DOMAIN importing' /\ importing'[p] = importing[p]
      BY <1>2, <1>3, <1>4, <2>1
    <3>2. Advances(l, n)
      BY <1>2, <2>1, <2>2, <2>3, <2>4, <3>1 DEF Advances
    <3> QED
      BY <3>2, AdvanceBuild, Zenon
  <2>6. BuildTypeOK'
    BY <1>1, <1>4, <2>1, <2>2 DEF BuildTypeOK, Advanced
  <2> QED
    BY <2>5, <2>6 DEF BuildInv
<1>6. CASE ~Next_.optional
  <2>1. Fail("N3001", Append(importing, n)) /\ analyzers # << >>
    BY <1>1, <1>2, <1>6 DEF ImportNotFound, Importing
  <2> QED
    BY <1>4, <2>1, StepFail
<1> QED
  BY <1>5, <1>6

LEMMA StepImportObject ==
  ASSUME BuildInv, ImportObject
  PROVE  BuildInv'
<1>1. BuildTypeOK /\ Importing /\ IsNew(Next_.name) /\ UpToDate(Next_.name)
  BY DEF BuildInv, ImportObject
<1>2. PICK l \in Nat, n \in Names :
       /\ Len(analyzers) = l /\ l >= 1 /\ l \in 1..Len(analyzers) /\ l \in DOMAIN analyzers
       /\ Current = analyzers[l] /\ analyzers[l].todo # << >>
       /\ Head(analyzers[l].todo).name = n /\ Next_.name = n
  BY <1>1, Top
<1>3. analyzers \in Seq(Analyzer) /\ importing \in Seq(Names)
  BY <1>1 DEF BuildTypeOK
<1>4. /\ analyzers' = DoneWith(analyzers, Next_.name)
      /\ UNCHANGED <<source, object, command, importing, program, error>>
  BY DEF ImportObject
<1> DEFINE f == object[n].text.exports
<1>5. f \in Functions
  BY <1>1, <1>2 DEF BuildTypeOK, Object, Text, UpToDate
<1>6. analyzers' = Knowing(analyzers, l, n, f)
  BY <1>2, <1>4 DEF DoneWith, Knowing
<1>7. n = Head(analyzers[l].todo).name
  BY <1>2
<1> HIDE DEF f
<1>8. /\ Advanced(analyzers, analyzers', l)
      /\ analyzers'[l].modules[n] = f
  <2>1. Advanced(analyzers, Knowing(analyzers, l, n, f), l) /\ Knowing(analyzers, l, n, f)[l].modules[n] = f
    <3>1. /\ analyzers \in Seq(Analyzer) /\ l \in Nat /\ Len(analyzers) = l /\ l >= 1
          /\ analyzers[l].todo # << >> /\ n \in Names /\ n = Head(analyzers[l].todo).name
          /\ f \in Functions
      BY <1>2, <1>3, <1>5, <1>7
    <3> HIDE <1>2
    <3> QED
      BY <3>1, DoneKnowing
  <2> QED
    BY <1>6, <2>1, Zenon
<1>9. l >= 2 => n # analyzers[2].module
  <2>1. n \notin Range(importing)
    BY <1>1, <1>2 DEF IsNew
  <2> QED
    BY <1>1, <1>2, <2>1, SecondImporting DEF BuildInv
<1>10. UpToDate(n)' /\ analyzers'[l].modules[n] = object'[n].text.exports
  BY <1>1, <1>2, <1>4, <1>8 DEF UpToDate, f
<1>11. CommandInv' /\ ChainInv' /\ ImportingInv' /\ NestedInv' /\ NoObjectWhileCompiling' /\ FreshInv'
  <2>1. /\ Len(importing') >= Len(importing) - (Len(analyzers) - l) /\ importing' \in Seq(Names)
        /\ \A p \in DOMAIN importing : p \in DOMAIN importing' /\ importing'[p] = importing[p]
    BY <1>2, <1>3, <1>4
  <2>2. Advances(l, n)
    BY <1>2, <1>4, <1>7, <1>8, <1>9, <1>10, <2>1 DEF Advances
  <2> QED
    BY <2>2, AdvanceBuild, Zenon
<1>12. BuildTypeOK'
  BY <1>1, <1>4, <1>8 DEF BuildTypeOK, Advanced
<1> QED
  BY <1>11, <1>12 DEF BuildInv

LEMMA NewAnalyzerTyped ==
  ASSUME BuildTypeOK, NEW m \in Names, source[m] # None
  PROVE  /\ NewAnalyzer(m) \in Analyzer /\ NewAnalyzer(m).module = m
         /\ NewAnalyzer(m).todo = source[m].imports /\ \A n \in Names : NewAnalyzer(m).modules[n] = None
<1>1. source[m].imports \in Seq(Import)
  BY DEF BuildTypeOK, Text
<1> QED
  BY <1>1 DEF NewAnalyzer, Analyzer

LEMMA StepImportSource ==
  ASSUME BuildInv, ImportSource
  PROVE  BuildInv'
<1>1. BuildTypeOK /\ Importing /\ IsNew(Next_.name) /\ source[Next_.name] # None /\ ~UpToDate(Next_.name)
  BY DEF BuildInv, ImportSource
<1>2. PICK l \in Nat, n \in Names :
       /\ Len(analyzers) = l /\ l >= 1 /\ l \in 1..Len(analyzers) /\ l \in DOMAIN analyzers
       /\ Current = analyzers[l] /\ analyzers[l].todo # << >>
       /\ Head(analyzers[l].todo).name = n /\ Next_.name = n
  BY <1>1, Top
<1>3. analyzers \in Seq(Analyzer) /\ importing \in Seq(Names)
  BY <1>1 DEF BuildTypeOK
<1> DEFINE a == NewAnalyzer(n)
<1>4. a \in Analyzer /\ a.module = n /\ a.todo = source[n].imports /\ \A m \in Names : a.modules[m] = None
  BY <1>1, <1>2, NewAnalyzerTyped
<1> HIDE DEF a
<1>5. /\ analyzers' = Append(analyzers, a) /\ importing' = Append(importing, n)
      /\ object' = [object EXCEPT ![n] = None]
      /\ UNCHANGED <<source, command, program, error>>
  BY <1>2 DEF ImportSource, a
<1>6. source[n] # None /\ ~UpToDate(n) /\ n \notin Range(importing)
  BY <1>1, <1>2 DEF IsNew
<1>7. /\ analyzers' \in Seq(Analyzer) /\ Len(analyzers') = l + 1 /\ analyzers'[l + 1] = a
      /\ \A k \in 1..l : analyzers'[k] = analyzers[k]
  BY <1>2, <1>3, <1>4, <1>5
<1>8. /\ importing' \in Seq(Names) /\ Len(importing') = Len(importing) + 1 /\ importing'[Len(importing) + 1] = n
      /\ \A p \in 1..Len(importing) : importing'[p] = importing[p]
  BY <1>3, <1>5
<1>9. DOMAIN analyzers' = 1..(l + 1) /\ \A k \in 1..(l + 1) : k = l + 1 \/ k \in 1..l
  BY <1>7
<1>10. DOMAIN analyzers = 1..l
  BY <1>2, <1>3
<1>11. ChainInv'
  <2>1. \A k \in 1..l : /\ source[analyzers[k].module] # None
                        /\ Range(analyzers[k].todo) \subseteq Range(source[analyzers[k].module].imports)
    BY <1>10 DEF BuildInv, ChainInv
  <2>2. \A k \in 1..(l + 1) :
          /\ source'[analyzers'[k].module] # None
          /\ Range(analyzers'[k].todo) \subseteq Range(source'[analyzers'[k].module].imports)
    <3> SUFFICES ASSUME NEW k \in 1..(l + 1)
                 PROVE  /\ source[analyzers'[k].module] # None
                        /\ Range(analyzers'[k].todo) \subseteq Range(source[analyzers'[k].module].imports)
      BY <1>5
    <3>1. CASE k = l + 1
      BY <1>4, <1>6, <1>7, <3>1
    <3>2. CASE k \in 1..l
      <4>1. analyzers'[k] = analyzers[k]
        BY <1>7, <3>2
      <4> QED
        BY <2>1, <3>2, <4>1
    <3> QED
      BY <1>9, <3>1, <3>2
  <2>3. ASSUME NEW k \in 1..l
        PROVE  analyzers'[k].todo # << >> /\ Head(analyzers'[k].todo).name = analyzers'[k + 1].module
    <3>1. CASE k = l
      BY <1>2, <1>4, <1>7, <3>1
    <3>2. CASE k # l
      <4>1. k \in 1..(Len(analyzers) - 1) /\ k + 1 \in 1..l
        BY <1>2, <3>2
      <4>2. analyzers[k].todo # << >> /\ Head(analyzers[k].todo).name = analyzers[k + 1].module
        BY <4>1 DEF BuildInv, ChainInv
      <4> QED
        BY <1>7, <4>1, <4>2
    <3> QED
      BY <3>1, <3>2
  <2>4. \A k \in 1..(Len(analyzers') - 1) : k \in 1..l
    BY <1>7
  <2> QED
    BY <1>9, <2>2, <2>3, <2>4 DEF ChainInv
<1>12. ImportingInv'
  <2>1. ASSUME NEW k \in 2..(l + 1)
        PROVE  \E p \in DOMAIN importing' : p <= Len(importing') - (l + 1 - k) /\ importing'[p] = analyzers'[k].module
    <3>1. CASE k = l + 1
      <4>1. Len(importing) + 1 \in DOMAIN importing' /\ Len(importing) + 1 <= Len(importing') - (l + 1 - k)
        BY <1>3, <1>8, <3>1
      <4> QED
        BY <1>4, <1>7, <1>8, <3>1, <4>1
    <3>2. CASE k \in 2..l
      <4>1. k \in 2..Len(analyzers) /\ k \in 1..l
        BY <1>2, <3>2
      <4>2. PICK p \in DOMAIN importing : p <= Len(importing) - (Len(analyzers) - k) /\ importing[p] = analyzers[k].module
        BY <4>1 DEF BuildInv, ImportingInv
      <4>3. p \in 1..Len(importing) /\ p \in DOMAIN importing'
        BY <1>3, <1>8
      <4>4. p <= Len(importing') - (l + 1 - k)
        BY <1>2, <1>3, <1>8, <4>2, <4>3
      <4> QED
        BY <1>7, <1>8, <4>1, <4>2, <4>3, <4>4
    <3> QED
      BY <3>1, <3>2
  <2> QED
    BY <1>7, <2>1 DEF ImportingInv
<1>13. NestedInv'
  <2>1. ASSUME NEW k \in 2..l
        PROVE  analyzers[k].module # n
    <3>1. k \in 2..Len(analyzers)
      BY <1>2
    <3> QED
      BY <1>1, <1>6, <3>1, SecondImporting DEF BuildInv
  <2>2. ASSUME NEW j \in 2..(l + 1), NEW k \in 2..(l + 1), analyzers'[j].module = analyzers'[k].module
        PROVE  j = k
    <3>1. \A i \in 2..(l + 1) : i = l + 1 \/ (i \in 2..l /\ i \in 1..l /\ i \in 2..Len(analyzers))
      BY <1>2
    <3>2. CASE j = l + 1
      BY <1>4, <1>7, <2>1, <2>2, <3>1, <3>2
    <3>3. CASE k = l + 1
      BY <1>4, <1>7, <2>1, <2>2, <3>1, <3>3
    <3>4. CASE j # l + 1 /\ k # l + 1
      BY <1>7, <2>2, <3>1, <3>4 DEF BuildInv, NestedInv
    <3> QED
      BY <3>2, <3>3, <3>4
  <2>3. ASSUME NEW k \in 2..(l + 1), analyzers'[k].module = analyzers'[1].module
        PROVE  /\ analyzers'[k].modules[analyzers'[2].module] = None
               /\ \E i \in Range(analyzers'[k].todo) : i.name = analyzers'[2].module
    <3>1. 1 \in 1..l /\ 1 \in DOMAIN analyzers /\ 1 \in 1..(l + 1) /\ 2 \in 1..(l + 1)
      BY <1>2
    <3>2. CASE k = l + 1
      <4>1. analyzers[1].module = n /\ analyzers'[1] = analyzers[1]
        BY <1>4, <1>7, <2>3, <3>1, <3>2
      <4>2. analyzers'[2] \in Analyzer
        BY <1>7, <1>9, <3>1
      <4>3. analyzers[1].todo # << >> /\ Head(analyzers[1].todo).name = analyzers'[2].module
        <5>1. 1 \in 1..(Len(analyzers') - 1)
          BY <1>7, <1>2
        <5> QED
          BY <1>11, <4>1, <5>1 DEF ChainInv
      <4>4. analyzers[1].todo \in Seq(Import)
        <5>1. analyzers[1] \in Analyzer
          BY <1>3, <3>1, ElementOf, Zenon
        <5> QED
          BY <5>1 DEF Analyzer
      <4>5. Head(analyzers[1].todo) \in Range(analyzers[1].todo)
        BY <4>3, <4>4, HeadOfSeq
      <4>6. Range(analyzers[1].todo) \subseteq Range(source[n].imports)
        BY <3>1, <4>1 DEF BuildInv, ChainInv
      <4>7. analyzers'[2].module \in Names
        BY <4>2 DEF Analyzer
      <4> QED
        BY <1>4, <1>7, <3>2, <4>3, <4>5, <4>6, <4>7
    <3>3. CASE k # l + 1
      <4>1. k \in 2..Len(analyzers) /\ k \in 1..l /\ 2 \in 1..l
        BY <1>2, <3>3
      <4>2. analyzers'[k] = analyzers[k] /\ analyzers'[1] = analyzers[1] /\ analyzers'[2] = analyzers[2]
        BY <1>7, <3>1, <4>1
      <4>3. \A i \in 2..Len(analyzers) : analyzers[i].module = analyzers[1].module =>
              /\ analyzers[i].modules[analyzers[2].module] = None
              /\ \E j \in Range(analyzers[i].todo) : j.name = analyzers[2].module
        BY DEF BuildInv, NestedInv
      <4> QED
        BY <2>3, <4>1, <4>2, <4>3
    <3> QED
      BY <3>2, <3>3
  <2> QED
    BY <1>7, <2>2, <2>3 DEF NestedInv
<1>14. \A m \in Names : object'[m] = IF m = n THEN None ELSE object[m]
  BY <1>1, <1>5 DEF BuildTypeOK
<1>15. NoObjectWhileCompiling'
  <2>1. ASSUME NEW k \in 1..(l + 1)
        PROVE  object'[analyzers'[k].module] = None \/ (k = 1 /\ command' = "neon")
    <3>1. CASE k = l + 1
      BY <1>4, <1>7, <1>14, <3>1
    <3>2. CASE k \in 1..l
      <4>1. analyzers[k] \in Analyzer
        BY <1>3, <1>10, <3>2, ElementOf, Zenon
      <4>2. object[analyzers[k].module] = None \/ (k = 1 /\ command = "neon")
        BY <1>10, <3>2 DEF BuildInv, NoObjectWhileCompiling
      <4>3. analyzers[k].module \in Names
        BY <4>1 DEF Analyzer
      <4> QED
        BY <1>5, <1>7, <1>14, <3>2, <4>2, <4>3
    <3> QED
      BY <1>9, <3>1, <3>2
  <2> QED
    BY <1>9, <2>1 DEF NoObjectWhileCompiling
<1>16. FreshInv'
  <2>1. ASSUME NEW k \in 1..(l + 1), NEW m \in Names, analyzers'[k].modules[m] # None
        PROVE  UpToDate(m)' /\ analyzers'[k].modules[m] = object'[m].text.exports
    <3>1. k \in 1..l
      BY <1>4, <1>7, <1>9, <2>1
    <3>2. UpToDate(m) /\ analyzers[k].modules[m] = object[m].text.exports
      BY <1>7, <1>10, <2>1, <3>1 DEF BuildInv, FreshInv
    <3>3. object'[m] = object[m]
      BY <1>6, <1>14, <3>2
    <3> QED
      BY <1>5, <1>7, <3>1, <3>2, <3>3 DEF UpToDate
  <2> QED
    BY <1>9, <2>1 DEF FreshInv
<1>17. CommandInv'
  <2>1. analyzers # << >> /\ analyzers' # << >>
    BY <1>2, <1>7
  <2> QED
    BY <1>5, <2>1 DEF BuildInv, CommandInv
<1>18. BuildTypeOK'
  <2>1. object' \in [Names -> Object \cup {None}]
    BY <1>1, <1>5 DEF BuildTypeOK
  <2> QED
    BY <1>1, <1>5, <1>7, <1>8, <2>1 DEF BuildTypeOK
<1> QED
  BY <1>11, <1>12, <1>13, <1>15, <1>16, <1>17, <1>18 DEF BuildInv

LEMMA StepUnknownName ==
  ASSUME BuildInv, UnknownName
  PROVE  BuildInv'
<1>1. analyzers # << >> /\ Fail("N3176", importing)
  BY DEF UnknownName, AtEnd
<1>2. importing \in Seq(Names)
  BY DEF BuildInv, BuildTypeOK
<1> QED
  BY <1>1, <1>2, StepFail

LEMMA StepFinish ==
  ASSUME BuildInv, Finish
  PROVE  BuildInv'
<1>1. BuildTypeOK /\ analyzers # << >> /\ Current.todo = << >>
  BY DEF BuildInv, Finish, AtEnd
<1>2. PICK L \in Nat : Len(analyzers) = L /\ L >= 1 /\ L \in DOMAIN analyzers /\ Current = analyzers[L]
  BY <1>1, CurrentTyped
<1>3. analyzers \in Seq(Analyzer) /\ importing \in Seq(Names)
  BY <1>1 DEF BuildTypeOK
<1>4. PICK n \in Names : Current.module = n
  BY <1>1, CurrentTyped
<1> DEFINE o == Compiled(Current)
<1>5. source[n] # None /\ source[n] \in Text
  BY <1>1, <1>2, <1>4 DEF BuildInv, ChainInv, BuildTypeOK
<1>6. o \in Object /\ o.text = source[n] /\ o # None
  <2>1. Current \in Analyzer
    BY <1>1, CurrentTyped
  <2> QED
    BY <1>1, <1>4, <1>5, <2>1, CompiledTyped
<1> HIDE DEF o
<1>7. UNCHANGED <<source, command, error>>
  BY DEF Finish
<1>8. program' \in {program, o} /\ object' \in {object, [object EXCEPT ![n] = o]}
  BY <1>4 DEF Finish, o
<1>9. program' \in Object \cup {None} /\ object' \in [Names -> Object \cup {None}]
  BY <1>1, <1>6, <1>8 DEF BuildTypeOK
<1>10. CASE L = 1
  <2>1. analyzers' = << >> /\ importing' = importing
    BY <1>2, <1>10 DEF Finish
  <2>2. command = "neon" => program' = o
    BY <1>2, <1>10 DEF Finish, o
  <2>3. CommandInv'
    BY <1>1, <1>6, <1>7, <2>1, <2>2 DEF BuildInv, CommandInv, BuildTypeOK
  <2>4. ChainInv' /\ ImportingInv' /\ NestedInv' /\ NoObjectWhileCompiling' /\ FreshInv'
    BY <2>1, NoAnalyzer
  <2>5. BuildTypeOK'
    BY <1>1, <1>7, <1>9, <2>1 DEF BuildTypeOK
  <2> QED
    BY <2>3, <2>4, <2>5 DEF BuildInv
<1>11. CASE L >= 2
  <2> DEFINE f == source[n].exports
             l == L - 1
             as == Front(analyzers)
  <2>1. l \in Nat /\ l >= 1 /\ L = l + 1 /\ l \in 1..(Len(analyzers) - 1) /\ l \in 1..Len(analyzers) /\ l + 1 = L
    BY <1>2, <1>11
  <2>2. f \in Functions
    BY <1>5 DEF Text
  <2>3. as \in Seq(Analyzer) /\ Len(as) = l /\ \A k \in 1..l : as[k] = analyzers[k]
    BY <1>1, <1>2, <1>3, LastOfSeq
  <2>4. analyzers' = Knowing(as, l, n, f)
    BY <1>2, <1>4, <1>11 DEF Finish, Knowing
  <2>5. importing' = Front(importing) /\ object' = [object EXCEPT ![n] = o]
    BY <1>2, <1>4, <1>11 DEF Finish, o
  <2> HIDE DEF f, l, as
  <2>6. analyzers[l].todo # << >> /\ Head(analyzers[l].todo).name = analyzers[l + 1].module
    BY <2>1 DEF BuildInv, ChainInv
  <2>7. Head(analyzers[l].todo).name = n
    BY <1>2, <1>4, <2>1, <2>6
  <2>8. as[l] = analyzers[l] /\ as[l].todo # << >> /\ n = Head(as[l].todo).name
    <3>1. l \in 1..l
      BY <2>1
    <3>2. as[l] = analyzers[l]
      BY <2>3, <3>1
    <3> QED
      BY <2>6, <2>7, <3>2, Zenon
  <2>9. Advanced(as, Knowing(as, l, n, f), l) /\ Knowing(as, l, n, f)[l].modules[n] = f
    BY <2>1, <2>2, <2>3, <2>8, DoneKnowing, Zenon
  <2>10. Advanced(as, analyzers', l) /\ analyzers'[l].modules[n] = f
    BY <2>4, <2>9, Zenon
  <2>11. Advanced(analyzers, analyzers', l)
    <3>1. \A k \in 1..(l - 1) : k \in 1..l
      BY <2>1
    <3> QED
      BY <2>1, <2>3, <2>8, <2>10, <3>1 DEF Advanced
  <2>12. \A m \in Names : object'[m] = IF m = n THEN o ELSE object[m]
    BY <1>1, <2>5 DEF BuildTypeOK
  <2>13. object[n] = None
    BY <1>2, <1>4, <1>11 DEF BuildInv, NoObjectWhileCompiling
  <2>14. \A k \in 1..l : analyzers[k].module # n
    <3>1. ASSUME NEW k \in 1..l, analyzers[k].module = n
          PROVE  FALSE
      <4>1. CASE k = 1
        <5>1. L \in 2..Len(analyzers) /\ analyzers[L].module = analyzers[1].module
          BY <1>2, <1>4, <1>11, <3>1, <4>1
        <5>2. \E i \in Range(analyzers[L].todo) : i.name = analyzers[2].module
          BY <5>1 DEF BuildInv, NestedInv
        <5>3. Range(analyzers[L].todo) = {}
          BY <1>1, <1>2 DEF Range
        <5> QED
          BY <5>2, <5>3
      <4>2. CASE k # 1
        <5>1. k \in 2..Len(analyzers) /\ L \in 2..Len(analyzers) /\ k # L
          BY <1>2, <1>11, <2>1, <4>2
        <5> QED
          BY <1>2, <1>4, <3>1, <5>1 DEF BuildInv, NestedInv
      <4> QED
        BY <4>1, <4>2
    <3> QED
      BY <3>1
  <2>15. \A k \in 1..l : object'[analyzers[k].module] = object[analyzers[k].module]
    <3>1. ASSUME NEW k \in 1..l
          PROVE  analyzers[k].module \in Names
      <4>1. k \in DOMAIN analyzers
        BY <1>2, <2>1
      <4>2. analyzers[k] \in Analyzer
        BY <1>3, <4>1, ElementOf, Zenon
      <4> QED
        BY <4>2 DEF Analyzer
    <3> QED
      BY <2>12, <2>14, <3>1
  <2>16. importing # << >>
    <3>1. L \in 2..Len(analyzers)
      BY <1>2, <1>11
    <3>2. \E p \in DOMAIN importing : importing[p] = analyzers[L].module
      BY <3>1 DEF BuildInv, ImportingInv
    <3> QED
      BY <3>2
  <2>17. /\ importing' \in Seq(Names) /\ Len(importing') >= Len(importing) - (Len(analyzers) - l)
         /\ \A p \in DOMAIN importing : p <= Len(importing) - (Len(analyzers) - l) =>
              p \in DOMAIN importing' /\ importing'[p] = importing[p]
    <3>1. /\ importing' \in Seq(Names) /\ Len(importing') = Len(importing) - 1
          /\ \A p \in 1..(Len(importing) - 1) : importing'[p] = importing[p]
      BY <1>3, <2>5, <2>16, LastOfSeq
    <3>2. Len(analyzers) - l = 1
      BY <1>2, <2>1
    <3> QED
      BY <1>3, <3>1, <3>2
  <2>18. l >= 2 /\ analyzers[l].module = analyzers[1].module => n # analyzers[2].module
    <3>1. l >= 2 => 2 \in 2..Len(analyzers) /\ L \in 2..Len(analyzers) /\ L # 2
      BY <1>2, <2>1
    <3> QED
      BY <1>2, <1>4, <3>1 DEF BuildInv, NestedInv
  <2>19. \A m \in Names : UpToDate(m) => object'[m] = object[m]
    BY <2>12, <2>13 DEF UpToDate
  <2>20. UpToDate(n)' /\ analyzers'[l].modules[n] = object'[n].text.exports
    BY <1>6, <1>7, <2>10, <2>12 DEF UpToDate, f
  <2>21. Advances(l, n)
    BY <1>7, <2>1, <2>7, <2>11, <2>15, <2>17, <2>18, <2>19, <2>20 DEF Advances
  <2>22. CommandInv' /\ ChainInv' /\ ImportingInv' /\ NestedInv' /\ NoObjectWhileCompiling' /\ FreshInv'
    BY <2>21, AdvanceBuild, Zenon
  <2>23. BuildTypeOK'
    BY <1>1, <1>7, <1>9, <2>11, <2>17 DEF BuildTypeOK, Advanced
  <2> QED
    BY <2>22, <2>23 DEF BuildInv
<1> QED
  BY <1>2, <1>10, <1>11

LEMMA StepCompile ==
  ASSUME BuildInv, Compile
  PROVE  BuildInv'
  BY StepImportAgain, StepImportRecursive, StepImportNotFound, StepImportObject, StepImportSource,
     StepUnknownName, StepFinish DEF Compile

(* A command does something to the files, or begins, while no other runs.  *)
LEMMA StepCommand ==
  ASSUME BuildInv, Command
  PROVE  BuildInv'
<1>1. BuildTypeOK /\ (command \in {"none", "neonx"} => analyzers = << >>)
  BY DEF BuildInv, CommandInv
<1>2. ASSUME NEW m \in Names, Edit(m)
      PROVE  BuildInv'
  <2>1. analyzers' = << >> /\ command' = "none"
    BY <1>1, <1>2 DEF Edit
  <2>2. ChainInv' /\ ImportingInv' /\ NestedInv' /\ NoObjectWhileCompiling' /\ FreshInv'
    BY <2>1, NoAnalyzer
  <2>3. BuildTypeOK'
    <3>1. source' \in [Names -> Text \cup {None}]
      BY <1>1, <1>2, ConstantTypes DEF Edit, BuildTypeOK
    <3> QED
      BY <1>1, <1>2, <3>1 DEF Edit, BuildTypeOK
  <2> QED
    BY <2>1, <2>2, <2>3 DEF BuildInv, CommandInv
<1>3. ASSUME NEW m \in Names, Delete(m)
      PROVE  BuildInv'
  <2>1. analyzers' = << >> /\ command' = "none"
    BY <1>1, <1>3 DEF Delete
  <2>2. ChainInv' /\ ImportingInv' /\ NestedInv' /\ NoObjectWhileCompiling' /\ FreshInv'
    BY <2>1, NoAnalyzer
  <2>3. BuildTypeOK'
    <3>1. object' \in [Names -> Object \cup {None}]
      BY <1>1, <1>3 DEF Delete, BuildTypeOK
    <3> QED
      BY <1>1, <1>3, <3>1 DEF Delete, BuildTypeOK
  <2> QED
    BY <2>1, <2>2, <2>3 DEF BuildInv, CommandInv
<1>4. ASSUME NEW m \in Names, StartNeonc(m)
      PROVE  BuildInv'
  <2>1. object' \in [Names -> Object \cup {None}] /\ object'[m] = None
    BY <1>1, <1>4 DEF StartNeonc, BuildTypeOK
  <2>2. /\ analyzers' \in Seq(Analyzer) /\ analyzers' # << >>
        /\ ChainInv' /\ ImportingInv' /\ NestedInv' /\ NoObjectWhileCompiling' /\ FreshInv'
    BY <1>1, <1>4, <2>1, FirstAnalyzer DEF StartNeonc
  <2>3. BuildTypeOK'
    BY <1>1, <1>4, <2>1, <2>2 DEF StartNeonc, BuildTypeOK
  <2>4. CommandInv'
    BY <1>4, <2>2 DEF StartNeonc, CommandInv
  <2> QED
    BY <2>2, <2>3, <2>4 DEF BuildInv
<1>5. ASSUME NEW m \in Names, StartNeon(m)
      PROVE  BuildInv'
  <2>1. /\ analyzers' \in Seq(Analyzer) /\ analyzers' # << >>
        /\ ChainInv' /\ ImportingInv' /\ NestedInv' /\ NoObjectWhileCompiling' /\ FreshInv'
    BY <1>1, <1>5, FirstAnalyzer DEF StartNeon
  <2>2. BuildTypeOK'
    BY <1>1, <1>5, <2>1 DEF StartNeon, BuildTypeOK
  <2>3. CommandInv'
    BY <1>5, <2>1 DEF StartNeon, CommandInv
  <2> QED
    BY <2>1, <2>2, <2>3 DEF BuildInv
<1>6. ASSUME NEW m \in Names, StartNeonx(m)
      PROVE  BuildInv'
  <2>1. analyzers' = << >> /\ program' # None /\ program' \in Object \cup {None}
    BY <1>1, <1>6 DEF StartNeonx, BuildTypeOK
  <2>2. ChainInv' /\ ImportingInv' /\ NestedInv' /\ NoObjectWhileCompiling' /\ FreshInv'
    BY <2>1, NoAnalyzer
  <2>3. BuildTypeOK'
    BY <1>1, <1>6, <2>1 DEF StartNeonx, BuildTypeOK
  <2> QED
    BY <2>1, <2>2, <2>3 DEF BuildInv, CommandInv
<1>7. ASSUME EndNeonc
      PROVE  BuildInv'
  <2>1. analyzers' = << >> /\ command' = "none"
    BY <1>7 DEF EndNeonc
  <2>2. ChainInv' /\ ImportingInv' /\ NestedInv' /\ NoObjectWhileCompiling' /\ FreshInv'
    BY <2>1, NoAnalyzer
  <2>3. BuildTypeOK'
    BY <1>1, <1>7 DEF EndNeonc, BuildTypeOK
  <2> QED
    BY <2>1, <2>2, <2>3 DEF BuildInv, CommandInv
<1> QED
  BY <1>2, <1>3, <1>4, <1>5, <1>6, <1>7 DEF Command

-----------------------------------------------------------------------------
(* What modules lead to.                                                   *)

LEMMA ImportsTyped ==
  ASSUME table \in [Modules -> Object \cup {None}], NEW m \in Modules
  PROVE  LinksOf(m) \in Seq(Import) /\ Imports(m) \subseteq Names
<1>1. LinksOf(m) \in Seq(Import)
  BY DEF LinksOf, Object
<1>2. Range(LinksOf(m)) \subseteq Import
  BY <1>1, ElementsOfSeq
<1> QED
  BY <1>1, <1>2 DEF Imports, Import

LEMMA BelowItself ==
  ASSUME NEW m \in Modules
  PROVE  m \in Below(m)
  BY DEF Below

LEMMA BelowMinimal ==
  ASSUME NEW m, NEW S \in SUBSET Modules, m \in S, Closed(S)
  PROVE  Below(m) \subseteq S
  BY DEF Below

LEMMA BelowImport ==
  ASSUME NEW m, NEW p \in Below(m), NEW n \in Imports(p), n \in Modules
  PROVE  n \in Below(m)
  BY DEF Below, Closed

LEMMA BelowTransitive ==
  ASSUME table \in [Modules -> Object \cup {None}], NEW m, NEW p \in Below(m)
  PROVE  Below(p) \subseteq Below(m)
<1>1. Below(m) \in SUBSET Modules
  BY DEF Below
<1>2. \A q \in Below(m) : Imports(q) \subseteq Modules
  BY <1>1, ImportsTyped DEF Modules
<1>3. Closed(Below(m))
  BY <1>2, BelowImport DEF Closed
<1> QED
  BY <1>1, <1>3, BelowMinimal

(* What a module leads to is itself or what one of its imports leads to.   *)
LEMMA BelowFirst ==
  ASSUME table \in [Modules -> Object \cup {None}], NEW m \in Modules, NEW p \in Below(m), p # m
  PROVE  \E q \in Imports(m) : p \in Below(q)
<1> DEFINE S == {n \in Modules : n = m \/ \E q \in Imports(m) : n \in Below(q)}
<1>1. m \in S /\ S \in SUBSET Modules
  OBVIOUS
<1>2. ASSUME NEW n \in S, NEW k \in Imports(n)
      PROVE  k \in S
  <2>1. k \in Modules
    BY <1>1, <1>2, ImportsTyped DEF Modules
  <2>2. CASE n = m
    <3>1. k \in Below(k)
      BY <2>1, BelowItself
    <3> QED
      BY <1>2, <2>1, <2>2, <3>1
  <2>3. CASE n # m
    <3>1. PICK q \in Imports(m) : n \in Below(q)
      BY <1>2, <2>3
    <3>2. k \in Below(q)
      BY <1>2, <2>1, <3>1, BelowImport
    <3> QED
      BY <2>1, <3>1, <3>2
  <2> QED
    BY <2>2, <2>3
<1>3. Closed(S)
  BY <1>2 DEF Closed
<1> HIDE DEF S
<1>4. p \in S
  BY <1>1, <1>3, BelowMinimal
<1> QED
  BY <1>4 DEF S

(* Entering modules in the table only adds to that.                        *)
LEMMA TableGrows ==
  ASSUME table \in [Modules -> Object \cup {None}],
         \A p \in Modules : table[p] # None => table'[p] = table[p]
  PROVE  /\ \A p \in Modules : table[p] # None => LinksOf(p)' = LinksOf(p) /\ Imports(p)' = Imports(p)
         /\ \A m \in Modules : Below(m) \subseteq Below(m)'
         /\ \A n \in Names : object' = object /\ Settled(n) => Settled(n)'
<1>1. \A p \in Modules : table[p] # None => LinksOf(p)' = LinksOf(p) /\ Imports(p)' = Imports(p)
  BY DEF LinksOf, Imports
<1>2. \A p \in Modules : Imports(p) \subseteq Imports(p)'
  <2>1. ASSUME NEW p \in Modules, table[p] = None
        PROVE  Imports(p) = {}
    <3>1. LinksOf(p) = << >>
      BY <2>1 DEF LinksOf
    <3> QED
      BY <3>1 DEF Imports, Range
  <2> QED
    BY <1>1, <2>1
<1>3. ASSUME NEW m \in Modules, NEW n \in Below(m)
      PROVE  n \in Below(m)'
  <2>1. ASSUME NEW S \in SUBSET Modules, m \in S, Closed(S)'
        PROVE  n \in S
    <3>1. Closed(S)
      BY <1>2, <2>1 DEF Closed
    <3> QED
      BY <2>1, <3>1, BelowMinimal
  <2> QED
    BY <2>1 DEF Below
<1>4. \A n \in Names : object' = object /\ Settled(n) => Settled(n)'
  BY DEF Settled, Modules
<1> QED
  BY <1>1, <1>3, <1>4

-----------------------------------------------------------------------------
(* Every step of a program that is loaded or runs keeps the invariant.     *)

LoaderTypeOK ==
  /\ table \in [Modules -> Object \cup {None}]
  /\ loading \in Seq(Constructors)
  /\ initOrder \in Seq(Names) /\ calls \in Seq(Modules)
  /\ exitCode \in {None, "0", "1", "fatal"}

(* The innermost constructor, its next import, and what Skip does.         *)
LEMMA TopConstructor ==
  ASSUME LoaderTypeOK, loading # << >>
  PROVE  \E l \in Nat :
           /\ Len(loading) = l /\ l >= 1 /\ l \in 1..Len(loading) /\ l \in DOMAIN loading
           /\ Constructor = loading[l] /\ loading[l] \in Constructors
<1>1. loading \in Seq(Constructors)
  BY DEF LoaderTypeOK
<1>2. /\ Len(loading) \in Nat \ {0} /\ Len(loading) \in DOMAIN loading
      /\ Constructor = loading[Len(loading)] /\ Constructor \in Constructors
  BY <1>1, LastOfSeq DEF Constructor
<1> QED
  BY <1>1, <1>2

LEMMA TopLink ==
  ASSUME LoaderTypeOK, AtLink
  PROVE  \E l \in Nat, n \in Names :
           /\ Len(loading) = l /\ l >= 1 /\ l \in 1..Len(loading) /\ l \in DOMAIN loading
           /\ Constructor = loading[l] /\ loading[l] \in Constructors
           /\ loading[l].todo # << >> /\ Head(loading[l].todo).name = n /\ NextLink.name = n
           /\ Head(loading[l].todo) \in Range(loading[l].todo)
<1>1. loading # << >> /\ Constructor.todo # << >>
  BY DEF AtLink
<1>2. PICK l \in Nat :
        /\ Len(loading) = l /\ l >= 1 /\ l \in 1..Len(loading) /\ l \in DOMAIN loading
        /\ Constructor = loading[l] /\ loading[l] \in Constructors
  BY <1>1, TopConstructor
<1>3. loading[l].todo \in Seq(Import) /\ loading[l].todo # << >>
  BY <1>1, <1>2 DEF Constructors
<1>4. Head(loading[l].todo) \in Import /\ Head(loading[l].todo) \in Range(loading[l].todo)
  BY <1>3, HeadOfSeq
<1>5. NextLink = Head(loading[l].todo) /\ Head(loading[l].todo).name \in Names
  BY <1>2, <1>4 DEF NextLink, Import
<1> QED
  BY <1>2, <1>3, <1>4, <1>5

Skipped(ls, l) == [ls EXCEPT ![l].todo = Tail(@)]

LEMMA SkipAdvances ==
  ASSUME NEW ls \in Seq(Constructors), NEW l \in Nat, Len(ls) = l, l >= 1, ls[l].todo # << >>
  PROVE  /\ Skipped(ls, l) \in Seq(Constructors) /\ Len(Skipped(ls, l)) = l
         /\ \A k \in 1..(l - 1) : Skipped(ls, l)[k] = ls[k]
         /\ Skipped(ls, l)[l].module = ls[l].module /\ Skipped(ls, l)[l].todo = Tail(ls[l].todo)
<1>1. l \in DOMAIN ls
  OBVIOUS
<1>2. ls[l] \in Constructors
  BY <1>1, ElementOf, Zenon
<1>3. Tail(ls[l].todo) \in Seq(Import)
  BY <1>2, HeadOfSeq DEF Constructors
<1> DEFINE a == [ls[l] EXCEPT !.todo = Tail(@)]
<1>4. a \in Constructors /\ a.module = ls[l].module /\ a.todo = Tail(ls[l].todo)
  BY <1>2, <1>3 DEF Constructors
<1>5. Replaced(ls, l, a, Skipped(ls, l))
  BY <1>1 DEF Skipped, Replaced
<1> HIDE DEF a
<1>6. a \in Constructors
  BY <1>4
<1>7. Skipped(ls, l) \in Seq(Constructors) /\ LastReplaced(ls, l, a, Skipped(ls, l))
  BY <1>1, <1>5, <1>6, ReplacedLast, Zenon
<1> QED
  BY <1>4, <1>7 DEF LastReplaced

(* A step after which the l-th constructor goes on, with nothing entered.  *)
Skips(l) ==
  /\ l \in 1..Len(loading) /\ loading[l].todo # << >>
  /\ loading' \in Seq(Constructors) /\ Len(loading') = l
  /\ \A k \in 1..(l - 1) : loading'[k] = loading[k]
  /\ loading'[l].module = loading[l].module /\ loading'[l].todo = Tail(loading[l].todo)
  /\ UNCHANGED <<object, table>>
  /\ Settled(Head(loading[l].todo).name)

LEMMA SkipKeeps ==
  ASSUME LoaderTypeOK, NextInv, SettledInv, NEW l, Skips(l)
  PROVE  /\ NextInv'
         /\ \A k \in 1..l : loading'[k].module = loading[k].module
         /\ \A k \in 1..l : \A i \in Range(LinksOf(loading'[k].module)) :
              i \in Range(loading'[k].todo) \/ Settled(i.name)
<1>1. loading \in Seq(Constructors) /\ Len(loading) \in Nat /\ l \in Nat /\ l >= 1 /\ l <= Len(loading)
  BY DEF LoaderTypeOK, Skips
<1>2. /\ Len(loading') = l /\ DOMAIN loading' = 1..l
      /\ \A k \in 1..l : k = l \/ k \in 1..(l - 1)
      /\ \A k \in 1..l : k \in DOMAIN loading /\ k \in 1..Len(loading)
  BY <1>1 DEF Skips
<1>3. /\ \A k \in 1..(l - 1) : loading'[k] = loading[k]
      /\ loading'[l].module = loading[l].module /\ loading'[l].todo = Tail(loading[l].todo)
      /\ loading[l].todo # << >> /\ Settled(Head(loading[l].todo).name)
      /\ UNCHANGED <<object, table>>
  BY DEF Skips
<1>4. \A k \in 1..l : loading'[k].module = loading[k].module
  BY <1>2, <1>3
<1>5. Range(loading[l].todo) = Range(Tail(loading[l].todo)) \cup {Head(loading[l].todo)}
  <2>1. l \in DOMAIN loading
    BY <1>1
  <2>2. loading[l] \in Constructors
    BY <1>1, <2>1, ElementOf, Zenon
  <2>3. loading[l].todo \in Seq(Import)
    BY <2>2 DEF Constructors
  <2> QED
    BY <1>3, <2>3, HeadOfSeq
<1>6. \A k \in 1..l : /\ Range(loading'[k].todo) \subseteq Range(loading[k].todo)
                      /\ \A i \in Range(loading[k].todo) : i \in Range(loading'[k].todo) \/ Settled(i.name)
  BY <1>2, <1>3, <1>5
<1>7. \A k \in 1..l : Range(loading[k].todo) \subseteq Range(LinksOf(loading[k].module))
  BY <1>2 DEF NextInv
<1>8. ASSUME NEW k \in 1..(l - 1)
      PROVE  loading'[k].todo # << >> /\ Head(loading'[k].todo).name = loading'[k + 1].module
  <2>1. k \in 1..(Len(loading) - 1) /\ k + 1 \in 1..l
    BY <1>1
  <2>2. loading[k].todo # << >> /\ Head(loading[k].todo).name = loading[k + 1].module
    BY <2>1 DEF NextInv
  <2> QED
    BY <1>3, <1>4, <2>1, <2>2
<1>9. \A m : LinksOf(m)' = LinksOf(m) /\ Below(m)' = Below(m)
  BY <1>3 DEF LinksOf, Below, Closed, Imports
<1>10. \A h, k \in 1..l : h <= k => loading'[k].module \in Below(loading'[h].module)
  BY <1>2, <1>4 DEF NextInv
<1>11. NextInv'
  <2>1. \A k \in 1..l : Range(loading'[k].todo) \subseteq Range(LinksOf(loading'[k].module))
    BY <1>4, <1>6, <1>7
  <2> QED
    BY <1>2, <1>3, <1>8, <1>10, <2>1 DEF NextInv, LinksOf, Below, Closed, Imports
<1>12. ASSUME NEW k \in 1..l, NEW i \in Range(LinksOf(loading'[k].module))
       PROVE  i \in Range(loading'[k].todo) \/ Settled(i.name)
  <2>1. i \in Range(LinksOf(loading[k].module)) /\ k \in DOMAIN loading
    BY <1>2, <1>4, <1>12
  <2>2. loading # << >>
    BY <1>1
  <2>3. i \in Range(loading[k].todo) \/ Settled(i.name)
    BY <2>1, <2>2 DEF SettledInv
  <2> QED
    BY <1>6, <2>3
<1> QED
  BY <1>4, <1>11, <1>12

LoaderOK == LoaderTypeOK /\ LoaderInv

LoaderFrame ==
  /\ command' = IF Ended THEN "none" ELSE command
  /\ importing' = IF Ended THEN << >> ELSE importing
  /\ UNCHANGED <<source, object, analyzers, error>>

(* No program, before and after a run.                                     *)
LEMMA NoProgram ==
  ASSUME loading' = << >>, calls' = << >>, initOrder' = << >>
  PROVE  LoaderInv'
<1>1. /\ Len(loading') = 0 /\ DOMAIN loading' = {} /\ DOMAIN initOrder' = {}
      /\ Range(initOrder') = {}
  BY DEF Range
<1>2. PhaseInv' /\ NextInv' /\ SettledInv' /\ OrderInv' /\ CallsInv'
  BY <1>1 DEF PhaseInv, NextInv, SettledInv, OrderInv, CallsInv
<1>3. EnteredInv'
  BY <1>1 DEF EnteredInv, IsInjective
<1> QED
  BY <1>2, <1>3 DEF LoaderInv

LEMMA StepExit ==
  ASSUME LoaderOK, NEW code \in {"0", "1", "fatal"}, Exit(code)
  PROVE  LoaderOK'
<1>1. LoaderInv'
  BY NoProgram DEF Exit
<1>2. LoaderTypeOK'
  <2>1. << >> \in Seq(Constructors) /\ << >> \in Seq(Names) /\ << >> \in Seq(Modules)
    OBVIOUS
  <2> QED
    BY <2>1 DEF LoaderTypeOK, Exit
<1> QED
  BY <1>1, <1>2 DEF LoaderOK

LEMMA StepBeginLoading ==
  ASSUME LoaderOK, program \in Object, None \notin Object, BeginLoading, LoaderFrame
  PROVE  LoaderOK'
<1> DEFINE c == [module |-> Main, todo |-> program.links]
<1>1. c \in Constructors /\ c.module = Main /\ c.todo = program.links
  BY DEF Constructors, Modules, Object
<1> HIDE DEF c
<1>2. /\ command \in {"neon", "neonx"} /\ analyzers = << >>
      /\ loading' = <<c>> /\ initOrder' = << >> /\ exitCode' = None /\ calls' = << >>
      /\ table' = [[m \in Modules |-> None] EXCEPT ![Main] = program]
      /\ UNCHANGED <<source, object, analyzers, error>>
  BY DEF BeginLoading, LoaderFrame, LoaderOK, LoaderInv, PhaseInv, c
<1>3. Main \in Modules /\ Main \notin Names /\ Names \subseteq Modules
  BY MainIsNoName DEF Modules
<1>4. /\ table' \in [Modules -> Object \cup {None}] /\ table'[Main] = program
      /\ \A m \in Names : table'[m] = None
  BY <1>2, <1>3
<1>5. /\ loading' \in Seq(Constructors) /\ Len(loading') = 1 /\ DOMAIN loading' = {1} /\ loading'[1] = c
      /\ loading' # << >> /\ 2..Len(loading') = {} /\ 1..(Len(loading') - 1) = {}
  BY <1>1, <1>2
<1>6. DOMAIN initOrder' = {} /\ Range(initOrder') = {} /\ initOrder' \in Seq(Names) /\ calls' \in Seq(Modules)
  BY <1>2 DEF Range
<1>7. LinksOf(Main)' = program.links /\ program # None
  BY <1>4 DEF LinksOf
<1>8. LoaderTypeOK'
  BY <1>2, <1>4, <1>5, <1>6 DEF LoaderTypeOK
<1>9. PhaseInv'
  BY <1>2, <1>5 DEF PhaseInv, LoaderFrame, Ended
<1>10. EnteredInv'
  BY <1>1, <1>4, <1>5, <1>6, <1>7 DEF EnteredInv, IsInjective
<1>11. NextInv'
  <2>1. Main \in Below(Main)'
    BY <1>3 DEF Below
  <2> QED
    BY <1>1, <1>5, <1>7, <2>1 DEF NextInv
<1>12. SettledInv'
  BY <1>1, <1>5, <1>6, <1>7 DEF SettledInv
<1>13. OrderInv' /\ CallsInv'
  BY <1>2, <1>6 DEF OrderInv, CallsInv
<1> QED
  BY <1>8, <1>9, <1>10, <1>11, <1>12, <1>13 DEF LoaderOK, LoaderInv

LEMMA StepSkip ==
  ASSUME LoaderOK, AtLink, Settled(NextLink.name), Skip, UNCHANGED <<table, initOrder, calls, exitCode>>, LoaderFrame
  PROVE  LoaderOK'
<1>1. LoaderTypeOK /\ PhaseInv /\ EnteredInv /\ NextInv /\ SettledInv /\ OrderInv
  BY DEF LoaderOK, LoaderInv
<1>2. PICK l \in Nat, n \in Names :
           /\ Len(loading) = l /\ l >= 1 /\ l \in 1..Len(loading) /\ l \in DOMAIN loading
           /\ Constructor = loading[l] /\ loading[l] \in Constructors
           /\ loading[l].todo # << >> /\ Head(loading[l].todo).name = n /\ NextLink.name = n
           /\ Head(loading[l].todo) \in Range(loading[l].todo)
  BY <1>1, TopLink
<1>3. loading \in Seq(Constructors) /\ loading # << >>
  BY <1>1 DEF LoaderTypeOK, AtLink
<1>4. loading' = Skipped(loading, l)
  BY <1>2 DEF Skip, Skipped
<1>5. Skips(l)
  <2>1. /\ Skipped(loading, l) \in Seq(Constructors) /\ Len(Skipped(loading, l)) = l
        /\ \A k \in 1..(l - 1) : Skipped(loading, l)[k] = loading[k]
        /\ Skipped(loading, l)[l].module = loading[l].module /\ Skipped(loading, l)[l].todo = Tail(loading[l].todo)
    BY <1>2, <1>3, SkipAdvances
  <2>2. Settled(n)
    BY <1>2
  <2> QED
    BY <1>2, <1>4, <2>1, <2>2 DEF Skips, LoaderFrame
<1>6. /\ NextInv'
      /\ \A k \in 1..l : loading'[k].module = loading[k].module
      /\ \A k \in 1..l : \A i \in Range(LinksOf(loading'[k].module)) :
           i \in Range(loading'[k].todo) \/ Settled(i.name)
  BY <1>1, <1>5, SkipKeeps
<1>7. /\ loading' \in Seq(Constructors) /\ Len(loading') = l /\ loading' # << >>
      /\ DOMAIN loading' = 1..l /\ DOMAIN loading = 1..l
  BY <1>2, <1>3, <1>5 DEF Skips
<1>8. UNCHANGED <<object, table, initOrder, calls, exitCode, analyzers, command>> /\ calls = << >>
  BY <1>1, <1>3, <1>7 DEF LoaderFrame, Ended, PhaseInv
<1>9. PhaseInv'
  BY <1>1, <1>3, <1>7, <1>8 DEF PhaseInv
<1>10. EnteredInv'
  <2>1. 1 \in 1..l /\ \A k \in 2..l : k \in 1..l
    BY <1>2
  <2>2. /\ loading[1].module = Main
        /\ \A k \in 2..l : loading[k].module \in Names
        /\ \A j, k \in 1..l : loading[j].module = loading[k].module => j = k
        /\ IsInjective(initOrder)
        /\ \A k \in 1..l : loading[k].module \notin Range(initOrder) /\ table[loading[k].module] # None
        /\ \A m \in Range(initOrder) : table[m] # None
        /\ \A m \in Names : table[m] # None => m \in Range(initOrder) \/ \E k \in 1..l : loading[k].module = m
    BY <1>1, <1>2, <1>3, <1>7 DEF EnteredInv
  <2>3. /\ loading'[1].module = Main
        /\ \A k \in 2..l : loading'[k].module \in Names
        /\ \A j, k \in 1..l : loading'[j].module = loading'[k].module => j = k
        /\ \A k \in 1..l : loading'[k].module \notin Range(initOrder) /\ table[loading'[k].module] # None
        /\ \A m \in Names : table[m] # None => m \in Range(initOrder) \/ \E k \in 1..l : loading'[k].module = m
    BY <1>6, <2>1, <2>2
  <2>4. IsInjective(initOrder')
    BY <1>8, <2>2 DEF IsInjective
  <2>5. \A m \in Range(initOrder') : table'[m] # None
    BY <1>8, <2>2
  <2> QED
    BY <1>7, <1>8, <2>3, <2>4, <2>5 DEF EnteredInv
<1>11. SettledInv'
  BY <1>1, <1>3, <1>6, <1>7, <1>8 DEF SettledInv, Settled, LinksOf, Imports
<1>12. OrderInv'
  BY <1>1, <1>8 DEF OrderInv, LinksOf, Below, Closed, Imports
<1>13. CallsInv'
  BY <1>8 DEF CallsInv
<1>14. LoaderTypeOK'
  BY <1>1, <1>7, <1>8 DEF LoaderTypeOK
<1> QED
  BY <1>6, <1>9, <1>10, <1>11, <1>12, <1>13, <1>14 DEF LoaderOK, LoaderInv

LEMMA StepLoadAgain ==
  ASSUME LoaderOK, LoadAgain, LoaderFrame
  PROVE  LoaderOK'
<1>1. AtLink /\ Settled(NextLink.name) /\ Skip /\ UNCHANGED <<table, initOrder, calls, exitCode>>
  BY DEF LoadAgain, Settled
<1> QED
  BY <1>1, StepSkip

LEMMA StepLoadNotFound ==
  ASSUME LoaderOK, LoadNotFound, LoaderFrame
  PROVE  LoaderOK'
<1>1. CASE NextLink.optional
  <2>1. AtLink /\ Settled(NextLink.name) /\ Skip /\ UNCHANGED <<table, initOrder, calls, exitCode>>
    BY <1>1 DEF LoadNotFound, Settled
  <2> QED
    BY <2>1, StepSkip
<1>2. CASE ~NextLink.optional
  BY <1>2, StepExit DEF LoadNotFound
<1> QED
  BY <1>1, <1>2

LEMMA StepLoadModule ==
  ASSUME LoaderOK, object \in [Names -> Object \cup {None}], None \notin Object, LoadModule, LoaderFrame
  PROVE  LoaderOK'
<1>1. LoaderTypeOK /\ PhaseInv /\ EnteredInv /\ NextInv /\ SettledInv /\ OrderInv
  BY DEF LoaderOK, LoaderInv
<1>2. AtLink
  BY DEF LoadModule
<1>3. PICK l \in Nat, n \in Names :
           /\ Len(loading) = l /\ l >= 1 /\ l \in 1..Len(loading) /\ l \in DOMAIN loading
           /\ Constructor = loading[l] /\ loading[l] \in Constructors
           /\ loading[l].todo # << >> /\ Head(loading[l].todo).name = n /\ NextLink.name = n
           /\ Head(loading[l].todo) \in Range(loading[l].todo)
  BY <1>1, <1>2, TopLink
<1>4. loading \in Seq(Constructors) /\ loading # << >> /\ table \in [Modules -> Object \cup {None}]
  BY <1>1, <1>2 DEF LoaderTypeOK, AtLink
<1> DEFINE c == [module |-> n, todo |-> object[n].links]
<1>5. /\ table[n] = None /\ object[n] # None
      /\ table' = [table EXCEPT ![n] = object[n]]
      /\ loading' = Append(loading, c)
      /\ UNCHANGED <<initOrder, calls, exitCode, source, object, analyzers, error>>
  BY <1>3 DEF LoadModule, LoaderFrame
<1>6. n \in Modules /\ object[n] \in Object
  BY <1>5 DEF Modules
<1>7. c \in Constructors /\ c.module = n /\ c.todo = object[n].links
  BY <1>6 DEF Constructors, Object
<1> HIDE DEF c
<1>8. /\ loading' \in Seq(Constructors) /\ Len(loading') = l + 1 /\ loading'[l + 1] = c
      /\ \A k \in 1..l : loading'[k] = loading[k]
      /\ DOMAIN loading' = 1..(l + 1) /\ DOMAIN loading = 1..l /\ loading' # << >>
  BY <1>3, <1>4, <1>5, <1>7
<1>9. /\ table' \in [Modules -> Object \cup {None}] /\ table'[n] = object[n]
      /\ \A m \in Modules : m # n => table'[m] = table[m]
  BY <1>4, <1>5, <1>6
<1>10. /\ \A p \in Modules : table[p] # None => LinksOf(p)' = LinksOf(p) /\ Imports(p)' = Imports(p)
       /\ \A m \in Modules : Below(m) \subseteq Below(m)'
       /\ \A m \in Names : Settled(m) => Settled(m)'
  BY <1>4, <1>5, <1>9, TableGrows
<1>11. \A k \in 1..(l + 1) : k = l + 1 \/ k \in 1..l
  BY <1>3
<1>12. \A k \in 1..l : /\ loading[k].module \in Modules /\ table[loading[k].module] # None
                       /\ loading[k].module # n
  <2>1. \A k \in 1..l : loading[k] \in Constructors
    BY <1>4, <1>8, ElementOf
  <2> QED
    BY <1>1, <1>5, <1>8, <2>1 DEF EnteredInv, Constructors
<1>13. UNCHANGED <<analyzers, command>> /\ calls = << >>
  BY <1>1, <1>4, <1>8 DEF LoaderFrame, Ended, PhaseInv
<1>14. PhaseInv'
  BY <1>1, <1>4, <1>5, <1>8, <1>13 DEF PhaseInv
<1>15. LoaderTypeOK'
  BY <1>1, <1>5, <1>8, <1>9 DEF LoaderTypeOK
<1>16. Names \subseteq Modules /\ Range(initOrder) \subseteq Names
  BY <1>1, ElementsOfSeq DEF LoaderTypeOK, Modules
<1>17. \A m \in Range(initOrder) : table[m] # None /\ m # n
  BY <1>1, <1>5 DEF EnteredInv
<1>18. LinksOf(n)' = object[n].links
  BY <1>5, <1>9 DEF LinksOf
<1>19. EnteredInv'
  <2>1. /\ loading[1].module = Main
        /\ \A k \in 2..l : loading[k].module \in Names
        /\ \A j, k \in 1..l : loading[j].module = loading[k].module => j = k
        /\ IsInjective(initOrder)
        /\ \A k \in 1..l : loading[k].module \notin Range(initOrder)
        /\ \A m \in Names : table[m] # None => m \in Range(initOrder) \/ \E k \in 1..l : loading[k].module = m
    BY <1>1, <1>3, <1>4, <1>8 DEF EnteredInv
  <2>2. loading'[1].module = Main
    BY <1>3, <1>8, <2>1
  <2>3. \A k \in 2..(l + 1) : loading'[k].module \in Names
    <3>1. \A k \in 2..(l + 1) : k = l + 1 \/ (k \in 2..l /\ k \in 1..l)
      BY <1>3
    <3> QED
      BY <1>7, <1>8, <2>1, <3>1
  <2>4. \A j, k \in 1..(l + 1) : loading'[j].module = loading'[k].module => j = k
    BY <1>7, <1>8, <1>11, <1>12, <2>1
  <2>5. \A k \in 1..(l + 1) : loading'[k].module \notin Range(initOrder) /\ table'[loading'[k].module] # None
    BY <1>5, <1>6, <1>7, <1>8, <1>9, <1>11, <1>12, <1>17, <2>1
  <2>6. \A m \in Range(initOrder) : table'[m] # None
    BY <1>9, <1>16, <1>17
  <2>7. \A m \in Names : table'[m] # None => m \in Range(initOrder) \/ \E k \in 1..(l + 1) : loading'[k].module = m
    <3>1. \A k \in 1..l : k \in 1..(l + 1)
      BY <1>3
    <3>2. l + 1 \in 1..(l + 1)
      BY <1>3
    <3> QED
      BY <1>7, <1>8, <1>9, <1>16, <2>1, <3>1, <3>2
  <2> QED
    BY <1>5, <1>8, <2>1, <2>2, <2>3, <2>4, <2>5, <2>6, <2>7 DEF EnteredInv
<1>20. NextInv'
  <2>1. ASSUME NEW k \in 1..(l + 1)
        PROVE  Range(loading'[k].todo) \subseteq Range(LinksOf(loading[k].module)')
    <3>1. CASE k = l + 1
      <4>1. LinksOf(loading[k].module)' = LinksOf(n)'
        BY <1>7, <1>8, <3>1 DEF LinksOf
      <4> QED
        BY <1>7, <1>8, <1>18, <3>1, <4>1
    <3>2. CASE k \in 1..l
      <4>1. PICK m \in Modules : loading[k].module = m /\ table[m] # None
        BY <1>12, <3>2
      <4>2. LinksOf(loading[k].module)' = LinksOf(m)'
        BY <1>8, <3>2, <4>1 DEF LinksOf
      <4>3. LinksOf(m)' = LinksOf(m)
        BY <1>10, <4>1
      <4>4. Range(loading[k].todo) \subseteq Range(LinksOf(m))
        BY <1>1, <1>8, <3>2, <4>1 DEF NextInv
      <4> QED
        BY <1>8, <3>2, <4>2, <4>3, <4>4
    <3> QED
      BY <1>11, <3>1, <3>2
  <2>2. ASSUME NEW k \in 1..l
        PROVE  loading'[k].todo # << >> /\ Head(loading'[k].todo).name = loading'[k + 1].module
    <3>1. CASE k = l
      BY <1>3, <1>7, <1>8, <3>1
    <3>2. CASE k # l
      <4>1. k \in 1..(Len(loading) - 1) /\ k + 1 \in 1..l
        BY <1>3, <3>2
      <4>2. loading[k].todo # << >> /\ Head(loading[k].todo).name = loading[k + 1].module
        BY <1>1, <4>1 DEF NextInv
      <4> QED
        BY <1>8, <4>1, <4>2
    <3> QED
      BY <3>1, <3>2
  <2>3. 1..(Len(loading') - 1) = 1..l
    BY <1>3, <1>8
  <2>4. ASSUME NEW h \in 1..(l + 1), NEW k \in 1..(l + 1), h <= k
        PROVE  loading'[k].module \in Below(loading[h].module)'
    <3>1. PICK x \in Modules, y \in Modules : loading'[h].module = x /\ loading'[k].module = y
      <4>1. h \in DOMAIN loading' /\ k \in DOMAIN loading'
        BY <1>8
      <4>2. loading'[h] \in Constructors /\ loading'[k] \in Constructors
        BY <1>8, <4>1, ElementOf, Zenon
      <4> QED
        BY <4>2 DEF Constructors
    <3>2. Below(loading[h].module)' = Below(x)'
      BY <3>1 DEF Below
    <3>3. CASE k = l + 1 /\ h = l + 1
      BY <3>1, <3>2, <3>3 DEF Below
    <3>4. CASE k = l + 1 /\ h \in 1..l
      <4>1. PICK z \in Modules : loading[l].module = z /\ table[z] # None
        BY <1>3, <1>12
      <4>2. z \in Below(x)
        <5>1. h <= l /\ h \in DOMAIN loading /\ loading[h].module = x
          BY <1>3, <1>8, <3>1, <3>4
        <5>2. loading[l].module \in Below(loading[h].module)
          BY <1>1, <1>3, <5>1 DEF NextInv
        <5> QED
          BY <4>1, <5>1, <5>2
      <4>3. z \in Below(x)'
        BY <1>10, <4>2
      <4>4. Head(loading[l].todo) \in Range(LinksOf(z))
        BY <1>1, <1>3, <4>1 DEF NextInv
      <4>5. n \in Imports(z)
        BY <1>3, <4>4 DEF Imports
      <4>6. n \in Imports(z)'
        BY <1>10, <4>1, <4>5
      <4>7. n \in Below(x)'
        BY <1>6, <4>3, <4>6 DEF Below, Closed
      <4> QED
        BY <1>7, <1>8, <3>2, <3>4, <4>7
    <3>5. CASE k \in 1..l
      <4>1. h \in 1..l
        BY <1>3, <2>4, <3>5
      <4>2. y \in Below(x)
        BY <1>1, <1>8, <2>4, <3>1, <3>5, <4>1 DEF NextInv
      <4> QED
        BY <1>10, <3>1, <3>2, <4>2
    <3> QED
      BY <1>11, <3>3, <3>4, <3>5
  <2> QED
    BY <1>8, <2>1, <2>2, <2>3, <2>4 DEF NextInv
<1>21. SettledInv'
  <2>1. ASSUME NEW k \in 1..(l + 1), NEW i \in Range(LinksOf(loading[k].module)')
        PROVE  i \in Range(loading'[k].todo) \/ Settled(i.name)'
    <3>1. CASE k = l + 1
      <4>1. LinksOf(loading[k].module)' = LinksOf(n)'
        BY <1>7, <1>8, <3>1 DEF LinksOf
      <4> QED
        BY <1>7, <1>8, <1>18, <2>1, <3>1, <4>1
    <3>2. CASE k \in 1..l
      <4>1. PICK m \in Modules : loading[k].module = m /\ table[m] # None
        BY <1>12, <3>2
      <4>2. LinksOf(loading[k].module)' = LinksOf(m)'
        BY <1>8, <3>2, <4>1 DEF LinksOf
      <4>3. LinksOf(m)' = LinksOf(m) /\ LinksOf(m) \in Seq(Import)
        BY <1>4, <1>10, <4>1, ImportsTyped
      <4>4. i \in Range(LinksOf(m)) /\ i.name \in Names
        <5>1. i \in Range(LinksOf(m))
          BY <2>1, <4>2, <4>3
        <5>2. Range(LinksOf(m)) \subseteq Import
          BY <4>3, ElementsOfSeq
        <5> QED
          BY <5>1, <5>2 DEF Import
      <4>5. i \in Range(loading[k].todo) \/ Settled(i.name)
        BY <1>1, <1>4, <1>8, <3>2, <4>1, <4>4 DEF SettledInv
      <4>6. Settled(i.name) => Settled(i.name)'
        BY <1>10, <4>4
      <4> QED
        BY <1>8, <3>2, <4>5, <4>6
    <3> QED
      BY <1>11, <3>1, <3>2
  <2>2. ASSUME NEW m \in Range(initOrder), NEW p \in Imports(m)'
        PROVE  Settled(p)'
    <3>1. Imports(m)' = Imports(m) /\ m \in Modules
      BY <1>10, <1>16, <1>17
    <3>2. p \in Imports(m) /\ p \in Names
      BY <1>4, <2>2, <3>1, ImportsTyped
    <3>3. Settled(p)
      BY <1>1, <1>4, <3>2 DEF SettledInv
    <3> QED
      BY <1>10, <3>2, <3>3
  <2> QED
    BY <1>5, <1>8, <2>1, <2>2 DEF SettledInv
<1>22. OrderInv'
  <2>1. ASSUME NEW k \in DOMAIN initOrder, NEW j \in 1..k, NEW p \in Imports(initOrder[j])'
        PROVE  \/ table'[p] = None /\ object'[p] = None
               \/ initOrder[k] \in Below(p)'
               \/ \E h \in 1..k : initOrder[h] = p
    <3>1. j \in DOMAIN initOrder
      BY <1>1 DEF LoaderTypeOK
    <3>2. PICK m \in Range(initOrder) : initOrder[j] = m
      BY <3>1 DEF Range
    <3>3. m \in Modules /\ Imports(initOrder[j])' = Imports(m)' /\ Imports(m)' = Imports(m)
      BY <1>5, <1>10, <1>16, <1>17, <3>2 DEF Imports, LinksOf
    <3>4. p \in Imports(m) /\ p \in Names
      BY <1>4, <2>1, <3>3, ImportsTyped
    <3>5. \/ table[p] = None /\ object[p] = None
          \/ initOrder[k] \in Below(p)
          \/ \E h \in 1..k : initOrder[h] = p
      BY <1>1, <3>2, <3>4 DEF OrderInv
    <3>6. CASE table[p] = None /\ object[p] = None
      BY <1>5, <1>9, <1>16, <3>4, <3>6
    <3>7. CASE initOrder[k] \in Below(p)
      BY <1>10, <1>16, <3>4, <3>7
    <3> QED
      BY <3>5, <3>6, <3>7
  <2> QED
    BY <1>5, <2>1 DEF OrderInv
<1>23. CallsInv'
  BY <1>5, <1>13 DEF CallsInv
<1> QED
  BY <1>14, <1>15, <1>19, <1>20, <1>21, <1>22, <1>23 DEF LoaderOK, LoaderInv

LEMMA StepLoaded ==
  ASSUME LoaderOK, Loaded, LoaderFrame
  PROVE  LoaderOK'
<1>1. LoaderTypeOK /\ PhaseInv /\ EnteredInv /\ NextInv /\ SettledInv /\ OrderInv
  BY DEF LoaderOK, LoaderInv
<1>2. /\ loading \in Seq(Constructors) /\ table \in [Modules -> Object \cup {None}]
      /\ initOrder \in Seq(Names)
  BY <1>1 DEF LoaderTypeOK
<1>3. loading # << >>
  BY <1>2 DEF Loaded
<1>4. PICK K \in Nat :
           /\ Len(loading) = K /\ K >= 1 /\ K \in 1..Len(loading) /\ K \in DOMAIN loading
           /\ Constructor = loading[K] /\ loading[K] \in Constructors
  BY <1>1, <1>3, TopConstructor
<1> DEFINE l == K - 1
           ls == Front(loading)
           x == loading[K].module
<1>5. l \in Nat /\ l >= 1 /\ K = l + 1 /\ K >= 2
  BY <1>4 DEF Loaded
<1>6. ls \in Seq(Constructors) /\ Len(ls) = l /\ \A k \in 1..l : ls[k] = loading[k]
  BY <1>2, <1>3, <1>4, LastOfSeq
<1>7. loading' = Skipped(ls, l) /\ initOrder' = Append(initOrder, x) /\ loading[K].todo = << >>
  BY <1>4 DEF Loaded, Skipped
<1> HIDE DEF l, ls
<1>8. UNCHANGED <<table, calls, exitCode, source, object, analyzers>>
  BY DEF Loaded, LoaderFrame
<1>9. /\ DOMAIN loading = 1..K /\ 1..K = 1..l \cup {K} /\ l \in 1..l
      /\ \A k \in 1..l : k \in 1..K /\ k # K /\ k \in DOMAIN loading
  BY <1>2, <1>4, <1>5
<1>10. /\ x \in Names /\ x \notin Range(initOrder) /\ table[x] # None
       /\ \A k \in 1..l : loading[k].module # x
  <2>1. K \in 2..Len(loading)
    BY <1>4, <1>5
  <2>2. \A j, k \in 1..K : loading[j].module = loading[k].module => j = k
    BY <1>1, <1>9 DEF EnteredInv
  <2>3. x \in Names /\ x \notin Range(initOrder) /\ table[x] # None
    BY <1>1, <1>4, <2>1 DEF EnteredInv
  <2> QED
    BY <1>4, <1>5, <1>9, <2>2, <2>3
<1> HIDE DEF x
<1>11. loading[l].todo # << >> /\ Head(loading[l].todo).name = x
  <2>1. l \in 1..(Len(loading) - 1)
    BY <1>4, <1>5
  <2> QED
    BY <1>1, <1>5, <2>1 DEF NextInv, x
<1>12. Skips(l)
  <2>1. ls[l] = loading[l]
    BY <1>6, <1>9
  <2>2. ls[l].todo # << >>
    BY <1>11, <2>1, Zenon
  <2>3. /\ Skipped(ls, l) \in Seq(Constructors) /\ Len(Skipped(ls, l)) = l
        /\ \A k \in 1..(l - 1) : Skipped(ls, l)[k] = ls[k]
        /\ Skipped(ls, l)[l].module = ls[l].module /\ Skipped(ls, l)[l].todo = Tail(ls[l].todo)
    BY <1>5, <1>6, <2>2, SkipAdvances, Zenon
  <2>4. \A k \in 1..(l - 1) : k \in 1..l
    BY <1>5
  <2>5. \A k \in 1..(l - 1) : loading'[k] = loading[k]
    BY <1>6, <1>7, <2>3, <2>4
  <2>6. Settled(Head(loading[l].todo).name)
    BY <1>10, <1>11 DEF Settled
  <2>7. l \in 1..Len(loading)
    BY <1>4, <1>5
  <2> QED
    BY <1>7, <1>8, <1>11, <2>1, <2>3, <2>5, <2>6, <2>7 DEF Skips
<1>13. /\ NextInv'
       /\ \A k \in 1..l : loading'[k].module = loading[k].module
       /\ \A k \in 1..l : \A i \in Range(LinksOf(loading'[k].module)) :
            i \in Range(loading'[k].todo) \/ Settled(i.name)
  BY <1>1, <1>12, SkipKeeps
<1>14. /\ loading' \in Seq(Constructors) /\ Len(loading') = l /\ loading' # << >> /\ DOMAIN loading' = 1..l
  BY <1>5, <1>12 DEF Skips
<1>15. PICK N \in Nat : Len(initOrder) = N
  BY <1>2
<1>16. /\ initOrder' \in Seq(Names) /\ Len(initOrder') = N + 1 /\ initOrder'[N + 1] = x
       /\ \A k \in 1..N : initOrder'[k] = initOrder[k]
       /\ DOMAIN initOrder' = 1..(N + 1) /\ DOMAIN initOrder = 1..N
       /\ \A k \in 1..(N + 1) : k = N + 1 \/ k \in 1..N
  BY <1>2, <1>7, <1>10, <1>15
<1>17. Range(initOrder') = Range(initOrder) \cup {x}
  <2>1. N + 1 \in 1..(N + 1) /\ \A k \in 1..N : k \in 1..(N + 1)
    OBVIOUS
  <2> QED
    BY <1>16, <2>1 DEF Range
<1>18. UNCHANGED command /\ calls = << >>
  BY <1>1, <1>3, <1>14 DEF LoaderFrame, Ended, PhaseInv
<1>19. PhaseInv'
  BY <1>1, <1>3, <1>8, <1>14, <1>18 DEF PhaseInv
<1>20. LoaderTypeOK'
  BY <1>1, <1>8, <1>14, <1>16 DEF LoaderTypeOK
<1>21. EnteredInv'
  <2>1. /\ loading[1].module = Main
        /\ \A k \in 2..K : loading[k].module \in Names
        /\ \A j, k \in 1..K : loading[j].module = loading[k].module => j = k
        /\ IsInjective(initOrder)
        /\ \A k \in 1..K : loading[k].module \notin Range(initOrder) /\ table[loading[k].module] # None
        /\ \A m \in Range(initOrder) : table[m] # None
        /\ \A m \in Names : table[m] # None => m \in Range(initOrder) \/ \E k \in 1..K : loading[k].module = m
    BY <1>1, <1>3, <1>4, <1>9 DEF EnteredInv
  <2>2. 1 \in 1..l /\ \A k \in 2..l : k \in 1..l /\ k \in 2..K
    BY <1>5
  <2>3. loading'[1].module = Main /\ \A k \in 2..l : loading'[k].module \in Names
    BY <1>13, <2>1, <2>2
  <2>4. \A j, k \in 1..l : loading'[j].module = loading'[k].module => j = k
    BY <1>9, <1>13, <2>1
  <2>5. IsInjective(initOrder')
    <3>1. \A k \in 1..N : initOrder[k] # x
      BY <1>10, <1>16 DEF Range
    <3>2. \A j, k \in 1..N : initOrder[j] = initOrder[k] => j = k
      BY <1>16, <2>1 DEF IsInjective
    <3>3. \A j, k \in 1..(N + 1) : initOrder'[j] = initOrder'[k] => j = k
      BY <1>16, <3>1, <3>2
    <3> QED
      BY <1>16, <3>3 DEF IsInjective
  <2>6. \A k \in 1..l : loading'[k].module \notin Range(initOrder') /\ table[loading'[k].module] # None
    BY <1>9, <1>10, <1>13, <1>17, <2>1
  <2>7. \A m \in Range(initOrder') : table[m] # None
    BY <1>10, <1>17, <2>1
  <2>8. \A m \in Names : table[m] # None => m \in Range(initOrder') \/ \E k \in 1..l : loading'[k].module = m
    <3>1. ASSUME NEW m \in Names, table[m] # None, m \notin Range(initOrder')
          PROVE  \E k \in 1..l : loading'[k].module = m
      <4>1. PICK k \in 1..K : loading[k].module = m
        BY <1>17, <2>1, <3>1
      <4>2. k # K
        BY <1>17, <3>1, <4>1 DEF x
      <4> QED
        BY <1>9, <1>13, <4>1, <4>2
    <3> QED
      BY <3>1
  <2> QED
    BY <1>8, <1>14, <2>3, <2>4, <2>5, <2>6, <2>7, <2>8 DEF EnteredInv
<1>22. \A n \in Imports(x) : Settled(n)
  <2>1. Range(loading[K].todo) = {}
    BY <1>7 DEF Range
  <2>2. \A i \in Range(LinksOf(x)) : Settled(i.name)
    BY <1>1, <1>3, <1>4, <2>1 DEF SettledInv, x
  <2> QED
    BY <2>2 DEF Imports
<1>23. \A m \in Range(initOrder') : \A n \in Imports(m) : Settled(n)
  BY <1>1, <1>3, <1>17, <1>22 DEF SettledInv
<1>24. SettledInv'
  BY <1>8, <1>13, <1>14, <1>23 DEF SettledInv, Settled, Imports, LinksOf
<1>25. OrderInv'
  <2>1. ASSUME NEW k \in 1..(N + 1), NEW j \in 1..k, NEW n \in Imports(initOrder'[j])
        PROVE  \/ table[n] = None /\ object[n] = None
               \/ initOrder'[k] \in Below(n)
               \/ \E h \in 1..k : initOrder'[h] = n
    <3>1. CASE k \in 1..N
      <4>1. \A h \in 1..k : h \in 1..N /\ initOrder'[h] = initOrder[h]
        BY <1>16, <3>1
      <4> QED
        BY <1>1, <1>16, <2>1, <3>1, <4>1 DEF OrderInv
    <3>2. CASE k = N + 1
      <4>1. j \in 1..(N + 1) /\ initOrder'[k] = x
        BY <1>16, <3>2
      <4>2. PICK m \in Range(initOrder') : initOrder'[j] = m
        BY <1>16, <4>1 DEF Range
      <4>3. Range(initOrder') \subseteq Names
        BY <1>16, ElementsOfSeq
      <4>4. n \in Names
        BY <1>2, <2>1, <4>2, <4>3, ImportsTyped DEF Modules
      <4>5. Settled(n)
        BY <1>23, <2>1, <4>2
      <4>6. CASE table[n] # None
        <5>1. n \in Range(initOrder) \/ \E h \in 1..K : loading[h].module = n
          BY <1>1, <1>3, <1>9, <4>4, <4>6 DEF EnteredInv
        <5>2. CASE n \in Range(initOrder)
          <6>1. PICK h \in 1..N : initOrder[h] = n
            BY <1>16, <5>2 DEF Range
          <6>2. h \in 1..k /\ initOrder'[h] = n
            BY <1>16, <3>2, <6>1
          <6> QED
            BY <6>2
        <5>3. ASSUME NEW h \in 1..K, loading[h].module = n
              PROVE  x \in Below(n)
          <6>1. h \in DOMAIN loading /\ h <= K
            BY <1>4, <1>9
          <6> QED
            BY <1>1, <1>4, <5>3, <6>1 DEF NextInv, x
        <5> QED
          BY <4>1, <5>1, <5>2, <5>3
      <4> QED
        BY <4>5, <4>6 DEF Settled
    <3> QED
      BY <1>16, <3>1, <3>2
  <2>2. ASSUME NEW k \in DOMAIN initOrder', NEW j \in 1..k, NEW n \in Imports(initOrder[j])'
        PROVE  \/ table'[n] = None /\ object'[n] = None
               \/ initOrder'[k] \in Below(n)'
               \/ \E h \in 1..k : initOrder'[h] = n
    <3>1. k \in 1..(N + 1)
      BY <1>16
    <3>2. n \in Imports(initOrder'[j])
      BY <1>8, <2>2 DEF Imports, LinksOf
    <3>3. Below(n)' = Below(n)
      BY <1>8 DEF Below, Closed, Imports, LinksOf
    <3> QED
      BY <1>8, <2>1, <3>1, <3>2, <3>3
  <2> QED
    BY <2>2 DEF OrderInv
<1>26. CallsInv'
  BY <1>8, <1>18 DEF CallsInv
<1> QED
  BY <1>13, <1>19, <1>20, <1>21, <1>24, <1>25, <1>26 DEF LoaderOK, LoaderInv

(* The order, and what was entered, once the constructors are done.        *)
LEMMA StepRunning ==
  ASSUME LoaderOK, loading' = << >>, calls' \in Seq(Modules), calls' # << >>, CallsInv',
         loading # << >> \/ calls # << >>, UNCHANGED <<table, initOrder, exitCode>>, LoaderFrame
  PROVE  LoaderOK'
<1>1. LoaderTypeOK /\ PhaseInv /\ EnteredInv /\ NextInv /\ SettledInv /\ OrderInv
  BY DEF LoaderOK, LoaderInv
<1>2. UNCHANGED <<command, analyzers, object>>
  BY DEF LoaderFrame, Ended
<1>3. Len(loading') = 0 /\ DOMAIN loading' = {} /\ 2..Len(loading') = {} /\ 1..(Len(loading') - 1) = {}
  OBVIOUS
<1>4. PhaseInv'
  BY <1>1, <1>2 DEF PhaseInv
<1>5. EnteredInv'
  <2>1. IsInjective(initOrder')
    BY <1>1 DEF EnteredInv, IsInjective
  <2>2. \A m \in Range(initOrder') : table'[m] # None
    BY <1>1 DEF EnteredInv
  <2> QED
    BY <1>3, <2>1, <2>2 DEF EnteredInv
<1>6. NextInv' /\ SettledInv'
  BY <1>3 DEF NextInv, SettledInv
<1>7. OrderInv'
  BY <1>1, <1>2 DEF OrderInv, LinksOf, Below, Closed, Imports
<1>8. LoaderTypeOK'
  <2>1. << >> \in Seq(Constructors)
    OBVIOUS
  <2> QED
    BY <1>1, <2>1 DEF LoaderTypeOK
<1> QED
  BY <1>4, <1>5, <1>6, <1>7, <1>8 DEF LoaderOK, LoaderInv

LEMMA StepBeginExecution ==
  ASSUME LoaderOK, BeginExecution, LoaderFrame
  PROVE  LoaderOK'
<1>1. initOrder \in Seq(Names) /\ Names \subseteq Modules /\ Main \in Modules
  BY DEF LoaderOK, LoaderTypeOK, Modules
<1>2. PICK N \in Nat : Len(initOrder) = N
  BY <1>1
<1>3. /\ loading # << >> /\ loading' = << >> /\ UNCHANGED <<table, initOrder, exitCode>>
      /\ calls' = <<Main>> \o Reverse(initOrder)
  <2>1. Len(loading) = 1
    BY DEF BeginExecution
  <2>2. loading # << >>
    BY <2>1
  <2> QED
    BY <2>2, Zenon DEF BeginExecution
<1> DEFINE r == Reverse(initOrder)
<1>4. r = [k \in 1..N |-> initOrder[N - k + 1]]
  BY <1>2 DEF Reverse
<1>5. \A k \in 1..N : N - k + 1 \in 1..N /\ initOrder[N - k + 1] \in Modules
  BY <1>1, <1>2
<1>6. r \in [1..N -> Modules]
  BY <1>4, <1>5
<1>7. r \in Seq(Modules)
  BY <1>6
<1>8. Len(r) = N /\ \A k \in 1..N : r[k] = initOrder[N - k + 1]
  BY <1>4, <1>6, <1>7
<1> HIDE DEF r
<1>9. <<Main>> \in Seq(Modules) /\ Len(<<Main>>) = 1 /\ <<Main>>[1] = Main
  BY <1>1
<1>10. calls' = <<Main>> \o r
  BY <1>3 DEF r
<1>11. /\ calls' \in Seq(Modules) /\ Len(calls') = N + 1 /\ calls'[1] = Main
       /\ \A k \in 2..(N + 1) : calls'[k] = r[k - 1]
  BY <1>1, <1>7, <1>8, <1>9, <1>10
<1>12. ASSUME NEW k \in 2..Len(calls')
       PROVE  calls'[k] = initOrder[Len(initOrder) + 2 - k]
  <2>1. k \in 2..(N + 1) /\ k - 1 \in 1..N /\ N - (k - 1) + 1 = Len(initOrder) + 2 - k
    BY <1>2, <1>11
  <2> QED
    BY <1>8, <1>11, <2>1
<1>13. CallsInv'
  BY <1>2, <1>3, <1>11, <1>12 DEF CallsInv
<1>14. calls' # << >>
  BY <1>11
<1> QED
  BY <1>3, <1>11, <1>13, <1>14, StepRunning

(* The calls that are left are the first of those there were.              *)
LEMMA CallsLeft ==
  ASSUME LoaderOK, calls # << >>, NEW k \in 1..Len(calls), calls' = SubSeq(calls, 1, k),
         UNCHANGED <<table, loading, initOrder, exitCode>>, LoaderFrame
  PROVE  LoaderOK'
<1>1. calls \in Seq(Modules) /\ loading' = << >> /\ CallsInv /\ initOrder \in Seq(Names)
  BY DEF LoaderOK, LoaderTypeOK, LoaderInv, PhaseInv
<1>2. Len(calls) \in Nat /\ k \in Nat /\ k >= 1 /\ k <= Len(calls)
  BY <1>1
<1>3. calls' \in Seq(Modules) /\ Len(calls') = k /\ \A i \in 1..k : calls'[i] = calls[i]
  BY <1>1, <1>2
<1>4. calls' # << >> /\ 1 \in 1..k /\ \A i \in 2..k : i \in 1..k /\ i \in 2..Len(calls)
  BY <1>2, <1>3
<1>5. Len(calls) <= Len(initOrder) + 1 /\ Len(initOrder) \in Nat
  BY <1>1 DEF CallsInv
<1>6. CallsInv'
  <2>1. Len(calls') <= Len(initOrder) + 1
    BY <1>2, <1>3, <1>5
  <2>2. calls'[1] = Main
    BY <1>1, <1>3, <1>4 DEF CallsInv
  <2>3. \A i \in 2..k : calls'[i] = initOrder[Len(initOrder) + 2 - i]
    BY <1>1, <1>3, <1>4 DEF CallsInv
  <2> QED
    BY <1>3, <2>1, <2>2, <2>3 DEF CallsInv
<1> QED
  BY <1>1, <1>3, <1>4, <1>6, StepRunning

LEMMA StepReturn ==
  ASSUME LoaderOK, Return, LoaderFrame
  PROVE  LoaderOK'
<1>1. CASE Len(calls) = 1
  BY <1>1, StepExit DEF Return
<1>2. CASE Len(calls) # 1
  <2>1. calls # << >> /\ calls' = Front(calls) /\ UNCHANGED <<table, loading, initOrder, exitCode>>
    BY <1>2, Zenon DEF Return, Running
  <2>4. calls \in Seq(Modules)
    BY DEF LoaderOK, LoaderTypeOK
  <2>2. Len(calls) - 1 \in 1..Len(calls)
    <3>1. PICK n \in Nat : Len(calls) = n
      BY <2>4
    <3>2. n # 0
      BY <2>1, <2>4, <3>1
    <3> QED
      BY <1>2, <3>1, <3>2
  <2>3. calls' = SubSeq(calls, 1, Len(calls) - 1)
    BY <2>1 DEF Front
  <2> QED
    BY <2>1, <2>2, <2>3, CallsLeft
<1> QED
  BY <1>1, <1>2

LEMMA StepRaise ==
  ASSUME LoaderOK, Raise, LoaderFrame
  PROVE  LoaderOK'
<1>1. CASE Exit("1")
  BY <1>1, StepExit
<1>2. ASSUME NEW k \in DOMAIN calls, calls' = SubSeq(calls, 1, k), UNCHANGED <<table, loading, initOrder, exitCode>>
      PROVE  LoaderOK'
  <2>1. calls # << >> /\ calls \in Seq(Modules)
    BY DEF Raise, Running, LoaderOK, LoaderTypeOK
  <2>2. k \in 1..Len(calls)
    BY <2>1
  <2> QED
    BY <1>2, <2>1, <2>2, CallsLeft
<1> QED
  BY <1>1, <1>2 DEF Raise

LEMMA StepCallUnknown ==
  ASSUME LoaderOK, CallUnknown, LoaderFrame
  PROVE  LoaderOK'
  BY StepExit DEF CallUnknown

-----------------------------------------------------------------------------
(* The whole invariant.                                                    *)

LEMMA Parts ==
  IInv <=> BuildInv /\ LoaderOK
  BY DEF IInv, TypeOK, BuildInv, LoaderOK, LoaderTypeOK

LEMMA StepLoadOrRun ==
  ASSUME IInv, LoadOrRun
  PROVE  IInv'
<1>1. BuildInv /\ LoaderOK
  BY Parts
<1>2. LoaderFrame /\ (Load \/ Run) /\ (program' = IF Ended THEN None ELSE program)
  BY DEF LoadOrRun, LoaderFrame
<1>3. analyzers = << >> /\ command \in {"neon", "neonx"}
  <2>1. CASE BeginLoading
    BY <2>1 DEF BeginLoading
  <2>2. LoadAgain \/ LoadNotFound \/ LoadModule => loading # << >>
    BY DEF LoadAgain, LoadNotFound, LoadModule, AtLink
  <2>3. Loaded \/ BeginExecution => Len(loading) > 1 \/ Len(loading) = 1
    BY DEF Loaded, BeginExecution
  <2>4. Len(loading) > 1 \/ Len(loading) = 1 => loading # << >>
    OBVIOUS
  <2>5. Run => calls # << >>
    BY DEF Run, Return, Raise, CallUnknown, Running
  <2>6. loading # << >> \/ calls # << >> => command \in {"neon", "neonx"} /\ analyzers = << >>
    BY <1>1 DEF LoaderOK, LoaderInv, PhaseInv
  <2> QED
    BY <1>2, <2>1, <2>2, <2>3, <2>4, <2>5, <2>6 DEF Load
<1>4. program \in Object /\ None \notin Object /\ object \in [Names -> Object \cup {None}]
  BY <1>1, <1>3, ConstantTypes DEF BuildInv, BuildTypeOK, CommandInv
<1>5. LoaderOK'
  BY <1>1, <1>2, <1>4, StepBeginLoading, StepLoadAgain, StepLoadNotFound, StepLoadModule, StepLoaded,
     StepBeginExecution, StepReturn, StepRaise, StepCallUnknown DEF Load, Run
<1>6. BuildInv'
  <2>1. analyzers' = << >>
    BY <1>2, <1>3 DEF LoaderFrame
  <2>2. ChainInv' /\ ImportingInv' /\ NestedInv' /\ NoObjectWhileCompiling' /\ FreshInv'
    BY <2>1, NoAnalyzer
  <2>3. CommandInv'
    BY <1>2, <1>3, <1>4, <2>1 DEF LoaderFrame, CommandInv
  <2>4. BuildTypeOK'
    <3>1. importing \in Seq(Names) /\ << >> \in Seq(Names)
      BY <1>1 DEF BuildInv, BuildTypeOK
    <3> QED
      BY <1>1, <1>2, <3>1 DEF BuildInv, BuildTypeOK, LoaderFrame
  <2> QED
    BY <2>2, <2>3, <2>4 DEF BuildInv
<1>7. (BuildInv /\ LoaderOK => IInv)'
  BY DEF IInv, TypeOK, BuildInv, LoaderOK, LoaderTypeOK
<1> QED
  BY <1>5, <1>6, <1>7

LEMMA StepBuild ==
  ASSUME IInv, Command \/ Compile, UNCHANGED loaderVars
  PROVE  IInv'
<1>1. BuildInv /\ LoaderOK
  BY Parts
<1>2. BuildInv'
  BY <1>1, StepCommand, StepCompile
<1>3. UNCHANGED <<table, loading, initOrder, calls, exitCode>>
  BY DEF loaderVars
<1>4. loading = << >> /\ calls = << >> /\ initOrder = << >>
  <2>1. CASE Compile
    <3>1. analyzers # << >>
      BY <2>1 DEF Compile, ImportAgain, ImportRecursive, ImportNotFound, ImportObject, ImportSource,
                  UnknownName, Finish, Importing, AtEnd
    <3> QED
      BY <1>1, <3>1 DEF LoaderOK, LoaderInv, PhaseInv
  <2>2. CASE Command
    <3>1. command \in {"none", "neonc"}
      BY <2>2 DEF Command, Edit, Delete, StartNeonc, StartNeon, StartNeonx, EndNeonc
    <3> QED
      BY <1>1, <3>1 DEF LoaderOK, LoaderInv, PhaseInv
  <2> QED
    BY <2>1, <2>2
<1>5. LoaderOK'
  <2>1. LoaderInv'
    BY <1>3, <1>4, NoProgram
  <2> QED
    BY <1>1, <1>3, <2>1 DEF LoaderOK, LoaderTypeOK
<1>6. (BuildInv /\ LoaderOK => IInv)'
  BY DEF IInv, TypeOK, BuildInv, LoaderOK, LoaderTypeOK
<1> QED
  BY <1>2, <1>5, <1>6

LEMMA Initially ==
  ASSUME Init
  PROVE  IInv
<1>1. loading = << >> /\ initOrder = << >> /\ calls = << >> /\ exitCode = None
      /\ table = [m \in Modules |-> None] /\ analyzers = << >> /\ importing = << >>
      /\ command = "none" /\ program = None /\ error = None /\ object = [m \in Names |-> None]
  BY DEF Init, BuildInit, LoaderInit
<1>2. source \in [Names -> Text \cup {None}]
  <2>1. \A m \in Names : Texts[m] \subseteq Text
    BY ConstantTypes
  <2>2. DOMAIN source = Names /\ source = [m \in Names |-> source[m]] /\ \A m \in Names : source[m] \in Texts[m] \cup {None}
    BY DEF Init, BuildInit
  <2> QED
    BY <2>1, <2>2
<1>3. /\ << >> \in Seq(Analyzer) /\ << >> \in Seq(Names) /\ << >> \in Seq(Constructors) /\ << >> \in Seq(Modules)
      /\ Len(<< >>) = 0 /\ DOMAIN << >> = {} /\ Range(<< >>) = {}
  BY DEF Range
<1>4. TypeOK
  BY <1>1, <1>2, <1>3 DEF TypeOK, BuildTypeOK
<1>5. BuildInv
  BY <1>1, <1>3, <1>4 DEF BuildInv, TypeOK, CommandInv, ChainInv, ImportingInv, NestedInv, NoObjectWhileCompiling, FreshInv
<1>6. LoaderInv
  BY <1>1, <1>3 DEF LoaderInv, PhaseInv, EnteredInv, NextInv, SettledInv, OrderInv, CallsInv, IsInjective
<1> QED
  BY <1>4, <1>5, <1>6 DEF IInv

(* The invariant holds always: it is true at first, and every step of a    *)
(* command, a compilation, the loading of a program and its run keeps it.  *)
THEOREM Invariance == Spec => []IInv
<1>1. Init => IInv
  BY Initially
<1>2. IInv /\ [Next]_vars => IInv'
  <2> SUFFICES ASSUME IInv, [Next]_vars
               PROVE  IInv'
    OBVIOUS
  <2>1. CASE Next
    <3>1. CASE (Command \/ Compile) /\ UNCHANGED loaderVars
      BY <3>1, StepBuild
    <3>2. CASE LoadOrRun
      BY <3>2, StepLoadOrRun
    <3> QED
      BY <2>1, <3>1, <3>2 DEF Next
  <2>2. CASE UNCHANGED vars
    <3>1. UNCHANGED <<source, object, command, analyzers, importing, program, error,
                      table, loading, initOrder, calls, exitCode>>
      BY <2>2 DEF vars, buildVars, loaderVars
    <3>2. TypeOK'
      BY <3>1 DEF IInv, TypeOK, BuildTypeOK
    <3>3. BuildInv'
      <4>1. BuildTypeOK' /\ CommandInv' /\ NoObjectWhileCompiling'
        BY <3>1 DEF IInv, BuildTypeOK, BuildInv, CommandInv, NoObjectWhileCompiling
      <4>2. ChainInv'
        BY <3>1 DEF IInv, BuildInv, ChainInv
      <4>3. ImportingInv'
        BY <3>1 DEF IInv, BuildInv, ImportingInv
      <4>4. NestedInv'
        BY <3>1 DEF IInv, BuildInv, NestedInv
      <4>5. FreshInv'
        BY <3>1 DEF IInv, BuildInv, FreshInv, UpToDate
      <4> QED
        BY <4>1, <4>2, <4>3, <4>4, <4>5 DEF BuildInv
    <3>4. PhaseInv' /\ CallsInv'
      BY <3>1 DEF IInv, LoaderInv, PhaseInv, CallsInv
    <3>6. EnteredInv'
      BY <3>1 DEF IInv, LoaderInv, EnteredInv, IsInjective
    <3>5. SettledInv'
      BY <3>1 DEF IInv, LoaderInv, SettledInv, Settled, LinksOf, Imports
    <3>7. NextInv'
      BY <3>1 DEF IInv, LoaderInv, NextInv, LinksOf, Imports, Below, Closed
    <3>8. OrderInv'
      BY <3>1 DEF IInv, LoaderInv, OrderInv, LinksOf, Imports, Below, Closed
    <3> QED
      BY <3>2, <3>3, <3>4, <3>5, <3>6, <3>7, <3>8 DEF IInv, LoaderInv
  <2> QED
    BY <2>1, <2>2
<1> QED
  BY <1>1, <1>2, PTL DEF Spec

(* Every variable of the model keeps to its type.                          *)
THEOREM TypeCorrect == Spec => []TypeOK
  BY Invariance, PTL DEF IInv

(* A file whose compilation fails leaves no object behind.                 *)
THEOREM NoObjectIsLeft == Spec => []NoObjectWhileCompiling
<1>1. IInv => NoObjectWhileCompiling
  BY DEF IInv, BuildInv
<1> QED
  BY <1>1, Invariance, PTL

(* A file is compiled against objects of what its imports are now.         *)
THEOREM FreshImports == Spec => ImportsAreFresh
<1>1. IInv /\ Finish => \A n \in Names : Current.modules[n] # None =>
         /\ object[n] # None /\ source[n] \in {None, object[n].text}
         /\ Current.modules[n] = object[n].text.exports
  <2> SUFFICES ASSUME IInv, Finish, NEW n \in Names, Current.modules[n] # None
               PROVE  /\ object[n] # None /\ source[n] \in {None, object[n].text}
                      /\ Current.modules[n] = object[n].text.exports
    OBVIOUS
  <2>1. BuildTypeOK /\ FreshInv /\ analyzers # << >>
    BY DEF IInv, BuildInv, Finish, AtEnd
  <2>2. Len(analyzers) \in DOMAIN analyzers /\ Current = analyzers[Len(analyzers)]
    BY <2>1, CurrentTyped
  <2> QED
    BY <2>1, <2>2 DEF FreshInv, UpToDate
<1> QED
  BY <1>1, Invariance, PTL DEF ImportsAreFresh

(* A module is initialised once, and after what it imports.                *)
THEOREM InitialisedInOrder == Spec => []InitAfterImports
<1>1. IInv => InitAfterImports
  <2> SUFFICES ASSUME IInv
               PROVE  InitAfterImports
    OBVIOUS
  <2>1. TypeOK /\ EnteredInv /\ OrderInv /\ initOrder \in Seq(Names)
    BY DEF IInv, LoaderInv, TypeOK
  <2>2. ASSUME NEW k \in DOMAIN initOrder, NEW n \in Imports(initOrder[k])
        PROVE  table[n] = None \/ initOrder[k] \in Below(n) \/ \E j \in 1..(k - 1) : initOrder[j] = n
    <3>1. k \in Nat /\ k \in 1..k /\ initOrder[k] \in Modules
      BY <2>1 DEF Modules
    <3>2. \/ table[n] = None
          \/ initOrder[k] \in Below(n)
          \/ \E h \in 1..k : initOrder[h] = n
      BY <2>1, <2>2, <3>1 DEF OrderInv
    <3>3. ASSUME NEW h \in 1..k, initOrder[h] = n
          PROVE  initOrder[k] \in Below(n) \/ \E j \in 1..(k - 1) : initOrder[j] = n
      <4>1. CASE h = k
        BY <3>1, <3>3, <4>1, BelowItself
      <4>2. CASE h # k
        <5>1. h \in 1..(k - 1)
          BY <3>1, <4>2
        <5> QED
          BY <3>3, <5>1
      <4> QED
        BY <4>1, <4>2
    <3> QED
      BY <3>2, <3>3
  <2> QED
    BY <2>1, <2>2 DEF InitAfterImports, EnteredInv
<1> QED
  BY <1>1, Invariance, PTL

(* While a module that is in no cycle runs, those whose functions it may   *)
(* reach were initialised: the modules up to it in the order, and those    *)
(* that are missing, are closed under imports.                             *)
THEOREM CalledAfterInit == Spec => []NoCallBeforeInit
<1>1. IInv => NoCallBeforeInit
  <2> SUFFICES ASSUME IInv, calls # << >>, ~InCycle(Last(calls)), NEW k \in 1..(Len(calls) - 1)
               PROVE  calls[k] \notin Below(Last(calls))
    BY DEF NoCallBeforeInit
  <2>1. /\ calls \in Seq(Modules) /\ initOrder \in Seq(Names) /\ table \in [Modules -> Object \cup {None}]
        /\ EnteredInv /\ OrderInv /\ CallsInv
    BY DEF IInv, TypeOK, LoaderInv
  <2>2. PICK c \in Nat, N \in Nat : Len(calls) = c /\ Len(initOrder) = N
    BY <2>1
  <2>3. k \in Nat /\ 1 <= k /\ k < c /\ c <= N + 1 /\ k \in DOMAIN calls
    BY <2>1, <2>2 DEF CallsInv
  <2>4. Last(calls) = calls[c]
    BY <2>2 DEF Last
  <2> DEFINE K == N + 2 - c
  <2>5. K \in Nat /\ K >= 1 /\ K <= N /\ K \in DOMAIN initOrder /\ c \in 2..Len(calls)
    BY <2>1, <2>2, <2>3
  <2>6. calls[c] = initOrder[K]
    BY <2>1, <2>2, <2>5 DEF CallsInv
  <2> HIDE DEF K
  <2>7. PICK x \in Names : initOrder[K] = x
    BY <2>1, <2>5
  <2>8. ~InCycle(x) /\ x \in Modules /\ Names \in SUBSET Modules
    BY <2>4, <2>6, <2>7 DEF Modules
  <2>9. Below(x) \subseteq Names
    <3>1. \A p \in Names : Imports(p) \subseteq Names
      BY <2>1, ImportsTyped DEF Modules
    <3>2. Closed(Names)
      BY <3>1 DEF Closed
    <3> QED
      BY <2>8, <3>2, BelowMinimal
  <2> DEFINE S == {p \in Below(x) : table[p] = None \/ \E h \in 1..K : initOrder[h] = p}
  <2>10. x \in S
    <3>1. x \in Below(x) /\ K \in 1..K
      BY <2>5, <2>8, BelowItself
    <3> QED
      BY <2>7, <3>1
  <2>11. ASSUME NEW p \in S, NEW n \in Imports(p)
         PROVE  n \in S
    <3>1. p \in Below(x) /\ p \in Modules /\ n \in Names /\ n \in Modules
      BY <2>1, <2>9, <2>11, ImportsTyped DEF Modules
    <3>2. n \in Below(x)
      BY <3>1, <2>11, BelowImport
    <3>3. CASE table[p] = None
      <4>1. Imports(p) = {}
        BY <3>3 DEF Imports, LinksOf, Range
      <4> QED
        BY <2>11, <4>1
    <3>4. ASSUME NEW h \in 1..K, initOrder[h] = p
          PROVE  n \in S
      <4>1. \/ table[n] = None
            \/ x \in Below(n)
            \/ \E j \in 1..K : initOrder[j] = n
        BY <2>1, <2>5, <2>7, <2>11, <3>4 DEF OrderInv
      <4>2. CASE x \in Below(n)
        <5>1. CASE p = x
          BY <2>8, <2>11, <4>2, <5>1 DEF InCycle
        <5>2. CASE p # x
          <6>1. PICK q \in Imports(x) : p \in Below(q)
            BY <2>1, <2>8, <3>1, <5>2, BelowFirst
          <6>2. n \in Below(q)
            BY <2>11, <3>1, <6>1, BelowImport
          <6>3. x \in Below(q)
            BY <2>1, <4>2, <6>2, BelowTransitive
          <6> QED
            BY <2>8, <6>1, <6>3 DEF InCycle
        <5> QED
          BY <5>1, <5>2
      <4> QED
        BY <3>2, <4>1, <4>2
    <3> QED
      BY <2>11, <3>3, <3>4
  <2>12. Below(x) \subseteq S
    <3>1. S \in SUBSET Modules
      BY <2>8, <2>9
    <3>2. Closed(S)
      <4> HIDE DEF S
      <4> QED
        BY <2>11 DEF Closed
    <3> HIDE DEF S
    <3> QED
      BY <2>10, <3>1, <3>2, BelowMinimal
  <2>13. ASSUME calls[k] \in Below(x)
         PROVE  FALSE
    <3>1. CASE k = 1
      <4>1. calls[k] = Main
        BY <2>1, <3>1 DEF CallsInv
      <4> QED
        BY <2>9, <2>13, <4>1, MainIsNoName
    <3>2. CASE k # 1
      <4> DEFINE i == N + 2 - k
      <4>1. i \in 1..N /\ i > K /\ k \in 2..Len(calls) /\ i \in DOMAIN initOrder
        BY <2>1, <2>2, <2>3, <3>2 DEF K
      <4>2. calls[k] = initOrder[i]
        BY <2>1, <2>2, <4>1 DEF CallsInv
      <4> HIDE DEF i
      <4>3. initOrder[i] \in Range(initOrder)
        BY <4>1 DEF Range
      <4>4. table[initOrder[i]] # None
        BY <2>1, <4>3 DEF EnteredInv
      <4>5. PICK h \in 1..K : initOrder[h] = initOrder[i]
        BY <2>12, <2>13, <4>2, <4>4
      <4>6. h \in DOMAIN initOrder /\ h # i
        BY <2>1, <2>2, <2>5, <4>1
      <4> QED
        BY <2>1, <4>1, <4>5, <4>6 DEF EnteredInv, IsInjective
    <3> QED
      BY <3>1, <3>2
  <2> QED
    BY <2>4, <2>6, <2>7, <2>13
<1> QED
  BY <1>1, Invariance, PTL
=============================================================================
