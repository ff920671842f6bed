----------------------------- MODULE Exec_proofs -----------------------------
(***************************************************************************)
(* Proofs about module Exec, for every set of well-formed programs, every  *)
(* recursion limit and any number of interrupts.                           *)
(***************************************************************************)
EXTENDS Exec, SequenceTheorems, WellFoundedInduction, TLAPS

-----------------------------------------------------------------------------
(* A non-empty set of natural numbers has a least element, a bounded one a *)
(* greatest element: what raise_literal's searches rely on.                *)
LEMMA MinOfNaturals ==
  ASSUME NEW S \in SUBSET Nat, S # {}
  PROVE  Min(S) \in S /\ \A y \in S : Min(S) <= y
<1>1. PICK x \in S : \A y \in S : ~ (<<y, x>> \in OpToRel(<, Nat))
  BY NatLessThanWellFounded, WFMin
<1>2. \A y \in S : ~ (y < x)
  BY <1>1 DEF OpToRel
<1>3. x \in S /\ \A y \in S : x <= y
  BY <1>2
<1> QED
  BY <1>3 DEF Min

LEMMA MaxOfNaturals ==
  ASSUME NEW n \in Nat, NEW S \in SUBSET (0..n), S # {}
  PROVE  Max(S) \in S /\ \A y \in S : y <= Max(S)
<1> DEFINE T == {n - y : y \in S}
<1>1. T \in SUBSET Nat /\ T # {}
  <2>1. \A y \in S : y \in 0..n
    OBVIOUS
  <2>2. \A y \in S : n - y \in Nat
    BY <2>1
  <2>3. PICK y \in S : TRUE
    OBVIOUS
  <2> QED
    BY <2>2, <2>3
<1>2. Min(T) \in T /\ \A z \in T : Min(T) <= z
  BY <1>1, MinOfNaturals
<1>3. PICK x \in S : Min(T) = n - x
  BY <1>2
<1>4. \A y \in S : n - x <= n - y
  BY <1>2, <1>3
<1>5. x \in S /\ \A y \in S : x >= y
  BY <1>4
<1> QED
  BY <1>5 DEF Max

(* What an instruction takes and leaves are numbers of cells.              *)
LEMMA EffectTypes ==
  ASSUME NEW ins \in Instruction
  PROVE  Consumed(ins) \in Nat /\ Produced(ins) \in Nat
<1>1. ins.n \in Nat /\ ins.in \in Nat /\ ins.out \in Nat
  BY DEF Instruction
<1>2. Consumed(ins) \in Nat
  BY <1>1 DEF Consumed
<1>3. Produced(ins) \in Nat
  BY <1>1 DEF Produced
<1> QED
  BY <1>2, <1>3

-----------------------------------------------------------------------------
(* The parts of a program.                                                 *)
LEMMA LiveTypes ==
  ASSUME NEW p, ProgramTypes(p), NEW m \in DOMAIN p.code, NEW i \in Live(p, m)
  PROVE  /\ i \in 1..Len(p.code[m])
         /\ Len(p.code[m]) \in Nat
         /\ i \in Nat /\ i < EndOf(p, m)
         /\ p.code[m][i] \in Instruction
         /\ p.depth[m][i] \in Nat
         /\ p.owner[m][i] \in DOMAIN p.funcs[m]
         /\ p.funcs[m][p.owner[m][i]] \in FunctionInfo
         /\ FunctionOf(p, <<m, i>>) \in FunctionInfo
<1>1. p.code[m] \in Seq(Instruction) /\ p.funcs[m] \in Seq(FunctionInfo)
  BY DEF ProgramTypes
<1>2. p.depth[m] \in Seq(Int) /\ Len(p.depth[m]) = Len(p.code[m])
  BY DEF ProgramTypes
<1>3. p.owner[m] \in Seq(DOMAIN p.funcs[m]) /\ Len(p.owner[m]) = Len(p.code[m])
  BY DEF ProgramTypes
<1>4. i \in DOMAIN p.code[m] /\ p.depth[m][i] >= 0
  BY DEF Live
<1>5. DOMAIN p.code[m] = 1..Len(p.code[m]) /\ Len(p.code[m]) \in Nat
  BY <1>1, LenProperties
<1>6. i \in 1..Len(p.code[m])
  BY <1>4, <1>5
<1>7. p.code[m][i] \in Instruction
  BY <1>1, <1>6, ElementOfSeq
<1>8. p.depth[m][i] \in Int
  BY <1>2, <1>6, ElementOfSeq
<1>9. p.owner[m][i] \in DOMAIN p.funcs[m]
  BY <1>3, <1>6, ElementOfSeq
<1>10. p.funcs[m][p.owner[m][i]] \in FunctionInfo
  BY <1>1, <1>9, LenProperties, ElementOfSeq
<1> QED
  BY <1>4, <1>5, <1>6, <1>7, <1>8, <1>9, <1>10 DEF EndOf, FunctionOf

LEMMA RangeType ==
  ASSUME NEW p, ProgramTypes(p), NEW m \in DOMAIN p.code
  PROVE  /\ DOMAIN p.exc[m] \in SUBSET Nat
         /\ \A j \in DOMAIN p.exc[m] :
              /\ p.exc[m][j] \in ExceptionInfo
              /\ p.exc[m][j].start \in Nat
              /\ p.exc[m][j].end \in Nat
              /\ p.exc[m][j].handler \in Nat
              /\ p.exc[m][j].depth \in Int
<1>1. p.exc[m] \in Seq(ExceptionInfo)
  BY DEF ProgramTypes
<1>2. DOMAIN p.exc[m] = 1..Len(p.exc[m]) /\ Len(p.exc[m]) \in Nat
  BY <1>1, LenProperties
<1>3. \A j \in DOMAIN p.exc[m] : p.exc[m][j] \in ExceptionInfo
  BY <1>1, <1>2, ElementOfSeq
<1> QED
  BY <1>2, <1>3 DEF ExceptionInfo

(* What the contract says of a live instruction.                           *)
LEMMA LiveOK ==
  ASSUME NEW p, WellFormed(p), NEW m \in DOMAIN p.code, NEW i \in Live(p, m)
  PROVE  /\ InstrOK(p, m, i)
         /\ ModuloOK(p, m, i)
         /\ \A j \in DOMAIN p.exc[m] : CoverOK(p, m, i, p.exc[m][j])
         /\ \A j \in DOMAIN p.exc[m] : p.exc[m][j].end <= EndOf(p, m)
BY DEF WellFormed

-----------------------------------------------------------------------------
(* The transitions of a consistent state.                                  *)

(* Control moves on inside the running function.                           *)
LEMMA Flow ==
  ASSUME NEW p, NEW cs, NEW fr, NEW m, NEW i, NEW d, NEW j, NEW e,
         Len(cs) \in Nat,
         Consistent(p, cs, fr, m, i, d), Len(cs) > 0,
         FlowsTo(p, m, i, j, e)
  PROVE  Consistent(p, cs, fr, m, j, fr[Len(fr)].opstack_depth + e)
<1>1. \A k \in 1..Len(cs) : FunctionOf(p, Place(cs, m, j, k)) = FunctionOf(p, Place(cs, m, i, k))
  BY DEF FlowsTo, Place, FunctionOf
<1>2. Len(fr) = Len(cs)
  BY DEF Consistent
<1>3. Active(p, cs, fr, m, j, fr[Len(fr)].opstack_depth + e)
  <2>1. Active(p, cs, fr, m, i, d)
    BY DEF Consistent
  <2> QED
    BY <1>1, <2>1 DEF Active, FlowsTo
<1>4. \A k \in 1..Len(cs) : fr[k].nest = FunctionOf(p, Place(cs, m, j, k)).nest
  BY <1>1 DEF Consistent
<1>5. \A k \in 1..(Len(cs) - 1) :
        Suspended(p, cs[k + 1], fr[k].opstack_depth, fr[k + 1].opstack_depth,
                  FunctionOf(p, Place(cs, m, j, k + 1)).results)
  <2>1. \A k \in 1..(Len(cs) - 1) : k + 1 \in 1..Len(cs)
    OBVIOUS
  <2> QED
    BY <1>1, <2>1 DEF Consistent
<1>6. \A k, l \in 1..Len(cs) : k <= l => fr[k].opstack_depth <= fr[l].opstack_depth
  BY DEF Consistent
<1> QED
  BY <1>2, <1>3, <1>4, <1>5, <1>6 DEF Consistent

LEMMA OneLess ==
  ASSUME NEW n \in Nat, NEW l, l = n + 1
  PROVE  l - 1 = n
  OBVIOUS

(***************************************************************************)
(* A call from address i, whose arguments are the top cells of the caller, *)
(* left in the d cells that remain once a function pointer is popped.      *)
(***************************************************************************)
LEMMA Call ==
  ASSUME NEW p, ProgramTypes(p), WellFormed(p),
         NEW cs \in Seq(Addresses(p)), NEW fr \in Seq(FrameType),
         NEW m \in DOMAIN p.code, NEW i, NEW d,
         Consistent(p, cs, fr, m, i, d), Len(cs) > 0,
         p.code[m][i].op \in CallOps,
         NEW g \in Callees(p, m, p.code[m][i]),
         NEW f \in FrameType,
         f.nest = p.funcs[g[1]][g[2]].nest,
         f.opstack_depth = fr[Len(fr)].opstack_depth + p.depth[m][i] - Consumed(p.code[m][i])
  PROVE  Consistent(p, Append(cs, <<m, i + 1>>), Append(fr, f), g[1], p.funcs[g[1]][g[2]].entry,
                    f.opstack_depth + p.funcs[g[1]][g[2]].params)
<1> DEFINE n == Len(cs)
           fn == p.funcs[g[1]][g[2]]
           cs2 == Append(cs, <<m, i + 1>>)
           fr2 == Append(fr, f)
           ins == p.code[m][i]
           base == fr[n].opstack_depth
<1>1. /\ n \in Nat /\ n > 0 /\ Len(fr) = n
      /\ i \in Live(p, m)
      /\ Active(p, cs, fr, m, i, d)
  BY LenProperties DEF Consistent, Active
<1>2. /\ i \in Nat /\ ins \in Instruction /\ p.depth[m][i] \in Nat
      /\ p.owner[m][i] \in DOMAIN p.funcs[m]
  BY <1>1, LiveTypes
<1>3. InstrOK(p, m, i) /\ \A j \in DOMAIN p.exc[m] : CoverOK(p, m, i, p.exc[m][j])
  BY <1>1, LiveOK
<1>4. /\ g[1] \in DOMAIN p.code
      /\ g[2] \in DOMAIN p.funcs[g[1]]
      /\ fn.params = ins.in
      /\ fn.results = ins.out
  BY <1>3 DEF InstrOK
<1>5. FunctionOK(p, g[1], g[2])
  BY <1>4 DEF WellFormed
<1>6. fn \in FunctionInfo
  <2>1. p.funcs[g[1]] \in Seq(FunctionInfo)
    BY <1>4 DEF ProgramTypes
  <2> QED
    BY <2>1, <1>4, LenProperties, ElementOfSeq
<1>7. <<m, i + 1>> \in Addresses(p)
  BY <1>2 DEF Addresses
<1>8. /\ Len(cs2) = n + 1 /\ cs2[n + 1] = <<m, i + 1>>
      /\ \A k \in 1..n : cs2[k] = cs[k]
      /\ Len(fr2) = n + 1 /\ fr2[n + 1] = f
      /\ \A k \in 1..n : fr2[k] = fr[k]
  BY <1>1, <1>7, AppendProperties
<1>9. /\ ins.in \in Nat /\ ins.out \in Nat /\ Consumed(ins) \in Nat
      /\ p.depth[m][i] - Consumed(ins) \in Nat
      /\ Produced(ins) = ins.out
      /\ ins.op \notin NoFallThrough /\ RaisesAfter(ins)
  <2>1. ins.in \in Nat /\ ins.out \in Nat
    BY <1>2 DEF Instruction
  <2>2. Consumed(ins) \in Nat
    BY <1>2, EffectTypes
  <2>5. Produced(ins) = ins.out
    <3> HIDE DEF ins
    <3>1. ins.op \in {"CALLF", "CALLMF", "CALLI", "CALLV"}
      BY DEF CallOps, ins
    <3> QED
      BY <3>1 DEF Produced, PushOps, LoadOps, ArithOps, CompareOps, IndexRefOps,
                  IndexValueOps, InOps
  <2>3. p.depth[m][i] - Consumed(ins) >= 0
    BY <1>3 DEF InstrOK
  <2>4. ins.op \notin NoFallThrough /\ RaisesAfter(ins)
    BY DEF CallOps, NoFallThrough, RaisesAfter
  <2> QED
    BY <1>2, <2>1, <2>2, <2>3, <2>4, <2>5
<1>10. FlowsTo(p, m, i, i + 1, p.depth[m][i] - Consumed(ins) + ins.out)
  BY <1>3, <1>9 DEF InstrOK
<1>11. \A k \in 1..n : FunctionOf(p, Place(cs2, g[1], fn.entry, k)) = FunctionOf(p, Place(cs, m, i, k))
  <2> SUFFICES ASSUME NEW k \in 1..n
               PROVE  FunctionOf(p, Place(cs2, g[1], fn.entry, k)) = FunctionOf(p, Place(cs, m, i, k))
    OBVIOUS
  <2>1. Place(cs2, g[1], fn.entry, k) = cs2[k + 1]
    BY <1>1, <1>8 DEF Place
  <2>2. CASE k = n
    <3>1. cs2[k + 1] = <<m, i + 1>> /\ Place(cs, m, i, k) = <<m, i>>
      BY <2>2, <1>8 DEF Place
    <3>2. p.owner[m][i + 1] = p.owner[m][i]
      BY <1>10 DEF FlowsTo
    <3>3. FunctionOf(p, <<m, i + 1>>) = FunctionOf(p, <<m, i>>)
      BY <3>2 DEF FunctionOf
    <3> QED
      BY <2>1, <3>1, <3>3
  <2>3. CASE k # n
    <3>1. k + 1 \in 1..n
      BY <2>3, <1>1
    <3>2. cs2[k + 1] = cs[k + 1] /\ Place(cs, m, i, k) = cs[k + 1]
      BY <2>3, <3>1, <1>8 DEF Place
    <3> QED
      BY <2>1, <3>2
  <2> QED
    BY <2>2, <2>3
<1>12. FunctionOf(p, Place(cs2, g[1], fn.entry, n + 1)) = fn
  BY <1>5, <1>8 DEF Place, FunctionOf, FunctionOK
<1>13. base \in Int /\ f.opstack_depth \in Int /\ base <= f.opstack_depth
  <2>1. fr[n] \in FrameType
    BY <1>1, ElementOfSeq
  <2> QED
    BY <2>1, <1>1, <1>2, <1>9 DEF FrameType
<1>14. Active(p, cs2, fr2, g[1], fn.entry, f.opstack_depth + fn.params)
  <2>1. cs2[1] = cs[1] /\ fr2[1] = fr[1] /\ fr2[Len(fr2)] = f
    BY <1>1, <1>8
  <2>2. FunctionOf(p, Place(cs2, g[1], fn.entry, 1)).results = 0
    BY <1>1, <1>11 DEF Active
  <2> QED
    BY <2>1, <2>2, <1>1, <1>5 DEF Active, FunctionOK
<1>15. \A k \in 1..Len(cs2) : fr2[k].nest = FunctionOf(p, Place(cs2, g[1], fn.entry, k)).nest
  <2>1. \A k \in 1..n : fr2[k].nest = FunctionOf(p, Place(cs2, g[1], fn.entry, k)).nest
    BY <1>1, <1>8, <1>11 DEF Consistent
  <2>2. fr2[n + 1].nest = FunctionOf(p, Place(cs2, g[1], fn.entry, n + 1)).nest
    BY <1>8, <1>12
  <2>3. \A k \in 1..Len(cs2) : k \in 1..n \/ k = n + 1
    BY <1>1, <1>8
  <2> QED
    BY <2>1, <2>2, <2>3
<1>16. Suspended(p, <<m, i + 1>>, base, f.opstack_depth, fn.results)
  <2>1. i + 1 \in Live(p, m) /\ p.depth[m][i + 1] = p.depth[m][i] - Consumed(ins) + ins.out
    BY <1>10 DEF FlowsTo
  <2>2. f.opstack_depth + fn.results = base + p.depth[m][i + 1]
    BY <2>1, <1>1, <1>2, <1>4, <1>9, <1>13
  <2>3. Handled(p, m, i + 1, i + 1, f.opstack_depth - base)
    <3> SUFFICES ASSUME NEW j \in DOMAIN p.exc[m], InRange(p.exc[m][j], i + 1)
                 PROVE  /\ 0 <= p.exc[m][j].depth
                        /\ p.exc[m][j].depth <= f.opstack_depth - base
                        /\ FlowsTo(p, m, i + 1, p.exc[m][j].handler, p.exc[m][j].depth + 1)
      BY DEF Handled
    <3>1. /\ 0 <= p.exc[m][j].depth
          /\ p.exc[m][j].depth <= p.depth[m][i] - Consumed(ins)
          /\ FlowsTo(p, m, i, p.exc[m][j].handler, p.exc[m][j].depth + 1)
      BY <1>3, <1>9 DEF CoverOK
    <3>2. f.opstack_depth - base = p.depth[m][i] - Consumed(ins)
      BY <1>1, <1>2, <1>9, <1>13
    <3> QED
      BY <3>1, <3>2, <1>10 DEF FlowsTo
  <2> QED
    BY <2>1, <2>2, <2>3 DEF Suspended, DepthAt
<1>17. \A k \in 1..(Len(cs2) - 1) :
         Suspended(p, cs2[k + 1], fr2[k].opstack_depth, fr2[k + 1].opstack_depth,
                   FunctionOf(p, Place(cs2, g[1], fn.entry, k + 1)).results)
  <2> SUFFICES ASSUME NEW k \in 1..n
               PROVE  Suspended(p, cs2[k + 1], fr2[k].opstack_depth, fr2[k + 1].opstack_depth,
                                FunctionOf(p, Place(cs2, g[1], fn.entry, k + 1)).results)
    <3>1. n \in Nat /\ Len(cs2) = n + 1
      BY <1>1, <1>8, Zenon
    <3>2. Len(cs2) - 1 = n
      BY <3>1, OneLess, Zenon
    <3> QED
      BY <3>2, Zenon
  <2>1. CASE k = n
    BY <2>1, <1>8, <1>12, <1>16
  <2>2. CASE k # n
    <3>1. k + 1 \in 1..n /\ k \in 1..(n - 1)
      BY <2>2, <1>1
    <3> QED
      BY <3>1, <1>8, <1>11 DEF Consistent
  <2> QED
    BY <2>1, <2>2
<1>18. \A k, l \in 1..Len(cs2) : k <= l => fr2[k].opstack_depth <= fr2[l].opstack_depth
  <2> SUFFICES ASSUME NEW k \in 1..(n + 1), NEW l \in 1..(n + 1), k <= l
               PROVE  fr2[k].opstack_depth <= fr2[l].opstack_depth
    BY <1>8
  <2>1. \A x \in 1..n : fr2[x].opstack_depth \in Int /\ fr2[x].opstack_depth <= base
    <3>1. \A x \in 1..n : fr[x] \in FrameType
      BY <1>1, ElementOfSeq
    <3>2. \A x \in 1..n : fr[x].opstack_depth \in Int
      BY <3>1 DEF FrameType
    <3>3. \A x \in 1..n : fr[x].opstack_depth <= base
      BY <1>1 DEF Consistent
    <3> QED
      BY <3>2, <3>3, <1>8
  <2>2. CASE l = n + 1
    BY <2>1, <2>2, <1>1, <1>8, <1>13
  <2>3. CASE l # n + 1
    BY <2>3, <1>1, <1>8 DEF Consistent
  <2> QED
    BY <2>2, <2>3
<1>19. Len(fr2) = Len(cs2) /\ ~(Len(cs2) = 0)
  BY <1>1, <1>8
<1> HIDE DEF cs2, fr2, fn
<1> QED
  BY <1>14, <1>15, <1>17, <1>18, <1>19 DEF Consistent, cs2, fr2, fn

(* The activations above the k-th are gone, and it resumes.                *)
LEMMA Unwind ==
  ASSUME NEW p, NEW cs \in Seq(Addresses(p)), NEW fr \in Seq(FrameType),
         NEW m, NEW i, NEW d,
         Consistent(p, cs, fr, m, i, d),
         NEW k \in 1..(Len(cs) - 1)
  PROVE  Consistent(p, SubSeq(cs, 1, k), SubSeq(fr, 1, k), cs[k + 1][1], cs[k + 1][2],
                    fr[k].opstack_depth + DepthAt(p, cs[k + 1]))
<1> DEFINE n == Len(cs)
           cs2 == SubSeq(cs, 1, k)
           fr2 == SubSeq(fr, 1, k)
           m2 == cs[k + 1][1]
           i2 == cs[k + 1][2]
           d2 == fr[k].opstack_depth + DepthAt(p, cs[k + 1])
<1>1. n \in Nat /\ k \in 1..n /\ k + 1 \in 1..n /\ Len(fr) = n /\ k < n /\ k \in Nat
  BY LenProperties DEF Consistent
<1>2. Active(p, cs, fr, m, i, d)
  BY <1>1 DEF Consistent
<1>3. Len(cs2) = k /\ Len(fr2) = k /\ \A x \in 1..k : cs2[x] = cs[x] /\ fr2[x] = fr[x]
  <2>1. \A x \in 1..k : cs[x] \in Addresses(p) /\ fr[x] \in FrameType
    BY <1>1, ElementOfSeq
  <2> QED
    BY <2>1, <1>1, SubSeqProperties
<1>4. cs[k + 1] = <<m2, i2>>
  BY <1>1, ElementOfSeq DEF Addresses
<1>5. \A x \in 1..k : Place(cs2, m2, i2, x) = Place(cs, m, i, x)
  <2> SUFFICES ASSUME NEW x \in 1..k
               PROVE  Place(cs2, m2, i2, x) = Place(cs, m, i, x)
    OBVIOUS
  <2>1. Place(cs, m, i, x) = cs[x + 1]
    BY <1>1 DEF Place
  <2>2. CASE x = k
    <3>1. Place(cs2, m2, i2, x) = <<m2, i2>>
      BY <2>2, <1>3 DEF Place
    <3> QED
      BY <3>1, <2>1, <2>2, <1>4
  <2>3. CASE x # k
    <3>1. x + 1 \in 1..k
      BY <2>3, <1>1
    <3>2. Place(cs2, m2, i2, x) = cs2[x + 1]
      BY <2>3, <1>3 DEF Place
    <3> QED
      BY <3>1, <3>2, <2>1, <1>3
  <2> QED
    BY <2>2, <2>3
<1>6. Active(p, cs2, fr2, m2, i2, d2)
  <2>1. cs2[1] = cs[1] /\ fr2[1] = fr[1] /\ fr2[Len(fr2)] = fr[k]
    BY <1>1, <1>3
  <2>2. i2 \in Live(p, m2)
    BY DEF Consistent, Suspended
  <2>3. d2 = fr[k].opstack_depth + p.depth[m2][i2]
    BY DEF DepthAt
  <2>4. Place(cs2, m2, i2, 1) = Place(cs, m, i, 1)
    BY <1>1, <1>5
  <2> QED
    BY <2>1, <2>2, <2>3, <2>4, <1>2 DEF Active
<1>7. \A x \in 1..Len(cs2) : fr2[x].nest = FunctionOf(p, Place(cs2, m2, i2, x)).nest
  <2>1. \A x \in 1..k : x \in 1..n /\ fr[x].nest = FunctionOf(p, Place(cs, m, i, x)).nest
    BY <1>1 DEF Consistent
  <2> QED
    BY <2>1, <1>3, <1>5
<1>8. \A x \in 1..(Len(cs2) - 1) :
        Suspended(p, cs2[x + 1], fr2[x].opstack_depth, fr2[x + 1].opstack_depth,
                  FunctionOf(p, Place(cs2, m2, i2, x + 1)).results)
  <2> SUFFICES ASSUME NEW x \in 1..(k - 1)
               PROVE  Suspended(p, cs2[x + 1], fr2[x].opstack_depth, fr2[x + 1].opstack_depth,
                                FunctionOf(p, Place(cs2, m2, i2, x + 1)).results)
    BY <1>3
  <2>1. x \in 1..k /\ x + 1 \in 1..k /\ x \in 1..(Len(cs) - 1)
    BY <1>1
  <2>2. Suspended(p, cs[x + 1], fr[x].opstack_depth, fr[x + 1].opstack_depth,
                  FunctionOf(p, Place(cs, m, i, x + 1)).results)
    BY <2>1 DEF Consistent
  <2> QED
    BY <2>1, <2>2, <1>3, <1>5
<1>9. \A x, y \in 1..Len(cs2) : x <= y => fr2[x].opstack_depth <= fr2[y].opstack_depth
  <2>1. \A x \in 1..k : x \in 1..n
    BY <1>1
  <2> QED
    BY <2>1, <1>3 DEF Consistent
<1>10. Len(fr2) = Len(cs2) /\ ~(Len(cs2) = 0)
  BY <1>1, <1>3
<1> HIDE DEF cs2, fr2, m2, i2, d2
<1> QED
  BY <1>6, <1>7, <1>8, <1>9, <1>10 DEF Consistent, cs2, fr2, m2, i2, d2

(* A return: the caller resumes with the results on its stack.             *)
LEMMA Return ==
  ASSUME NEW p, ProgramTypes(p), WellFormed(p),
         NEW cs \in Seq(Addresses(p)), NEW fr \in Seq(FrameType),
         NEW m \in DOMAIN p.code, NEW i, NEW d,
         Consistent(p, cs, fr, m, i, d), Len(cs) > 0,
         p.code[m][i].op = "RET"
  PROVE  Consistent(p, Front(cs), Front(fr), Last(cs)[1], Last(cs)[2], d)
<1> DEFINE n == Len(cs)
<1>1. /\ n \in Nat /\ n > 0 /\ Len(fr) = n
      /\ i \in Live(p, m)
      /\ Active(p, cs, fr, m, i, d)
  BY LenProperties DEF Consistent, Active
<1>2. d = fr[n].opstack_depth + FunctionOf(p, <<m, i>>).results
  <2>1. InstrOK(p, m, i)
    BY <1>1, LiveOK
  <2> QED
    BY <2>1, <1>1 DEF InstrOK, Active, FunctionOf
<1>3. Place(cs, m, i, n) = <<m, i>>
  BY DEF Place
<1>4. CASE n = 1
  <2>1. Last(cs) = <<p.main, EndOf(p, p.main)>> /\ d = 0
    BY <1>1, <1>2, <1>3, <1>4 DEF Active, Last
  <2>2. Stopped(p, Last(cs)[1], Last(cs)[2], d)
    BY <2>1 DEF Stopped
  <2>3. Front(cs) = <<>> /\ Front(fr) = <<>>
    BY <1>1, <1>4, SubSeqEmpty DEF Front
  <2>4. Len(<<>>) = 0 /\ 1..0 = {} /\ 1..(0 - 1) = {}
    OBVIOUS
  <2>5. Consistent(p, <<>>, <<>>, Last(cs)[1], Last(cs)[2], d)
    BY <2>2, <2>4 DEF Consistent
  <2> QED
    BY <2>3, <2>5
<1>5. CASE n > 1
  <2>1. n - 1 \in 1..(n - 1) /\ (n - 1) + 1 = n
    BY <1>1, <1>5
  <2>2. Consistent(p, SubSeq(cs, 1, n - 1), SubSeq(fr, 1, n - 1), cs[n][1], cs[n][2],
                   fr[n - 1].opstack_depth + DepthAt(p, cs[n]))
    BY <2>1, Unwind
  <2>3. Suspended(p, cs[n], fr[n - 1].opstack_depth, fr[n].opstack_depth,
                  FunctionOf(p, <<m, i>>).results)
    <3>1. Suspended(p, cs[(n - 1) + 1], fr[n - 1].opstack_depth, fr[(n - 1) + 1].opstack_depth,
                    FunctionOf(p, Place(cs, m, i, (n - 1) + 1)).results)
      BY <2>1 DEF Consistent
    <3> QED
      BY <2>1, <3>1, <1>3
  <2>4. d = fr[n - 1].opstack_depth + DepthAt(p, cs[n])
    BY <2>3, <1>2 DEF Suspended
  <2> QED
    BY <2>2, <2>4, <1>1 DEF Front, Last
<1> QED
  BY <1>1, <1>4, <1>5

(***************************************************************************)
(* An exception caught in activation k, where the search looks at address  *)
(* tip in the top activation and at the return address in the others.      *)
(***************************************************************************)
LEMMA Catch ==
  ASSUME NEW p, NEW cs \in Seq(Addresses(p)), NEW fr \in Seq(FrameType),
         NEW m, NEW i, NEW d,
         ProgramTypes(p), m \in DOMAIN p.code,
         Consistent(p, cs, fr, m, i, d), Len(cs) > 0,
         NEW tip, NEW left \in Int,
         fr[Len(fr)].opstack_depth <= left,
         Handled(p, m, i, tip, left - fr[Len(fr)].opstack_depth),
         NEW k \in 1..Len(cs),
         NEW j \in DOMAIN p.exc[Place(cs, m, tip, k)[1]],
         InRange(p.exc[Place(cs, m, tip, k)[1]][j], Place(cs, m, tip, k)[2])
  PROVE  LET at == Place(cs, m, tip, k)
             e == p.exc[at[1]][j]
         IN  /\ Consistent(p, SubSeq(cs, 1, k), SubSeq(fr, 1, k), at[1], e.handler,
                           fr[k].opstack_depth + (e.depth + 1))
             /\ fr[k].opstack_depth + e.depth <= left
             /\ fr[k].opstack_depth \in Int
             /\ e.depth \in Int
<1> DEFINE n == Len(cs)
           at == Place(cs, m, tip, k)
           e == p.exc[at[1]][j]
<1>1. n \in Nat /\ Len(fr) = n /\ k \in 1..n
  BY LenProperties DEF Consistent
<1>2. \A x \in 1..n : fr[x].opstack_depth \in Int
  <2>1. \A x \in 1..n : fr[x] \in FrameType
    BY <1>1, ElementOfSeq
  <2> QED
    BY <2>1 DEF FrameType
<1>3. CASE k = n
  <2>1. at = <<m, tip>>
    BY <1>3 DEF Place
  <2>2. e.depth \in Int
    BY <2>1, RangeType
  <2>3. e.depth <= left - fr[n].opstack_depth /\ FlowsTo(p, m, i, e.handler, e.depth + 1)
    BY <2>1, <1>1 DEF Handled
  <2>4. Consistent(p, cs, fr, m, e.handler, fr[n].opstack_depth + (e.depth + 1))
    BY <2>3, <1>1, Flow
  <2>5. SubSeq(cs, 1, k) = cs /\ SubSeq(fr, 1, k) = fr
    BY <1>1, <1>3, SubSeqFull
  <2>6. Consistent(p, SubSeq(cs, 1, k), SubSeq(fr, 1, k), at[1], e.handler,
                   fr[k].opstack_depth + (e.depth + 1))
    <3>1. at[1] = m
      BY <2>1
    <3> HIDE DEF at, e
    <3> QED
      BY <3>1, <2>4, <2>5, <1>3
  <2>7. fr[k].opstack_depth + e.depth <= left
    BY <2>2, <2>3, <1>1, <1>2, <1>3
  <2> QED
    BY <2>2, <2>6, <2>7, <1>2
<1>4. CASE k # n
  <2>1. k \in 1..(n - 1) /\ k + 1 \in 1..n
    BY <1>1, <1>4
  <2>2. at = cs[k + 1]
    BY <1>4 DEF Place
  <2>3. Suspended(p, at, fr[k].opstack_depth, fr[k + 1].opstack_depth,
                  FunctionOf(p, Place(cs, m, i, k + 1)).results)
    BY <2>1, <2>2 DEF Consistent
  <2>4. /\ e.depth <= fr[k + 1].opstack_depth - fr[k].opstack_depth
        /\ FlowsTo(p, at[1], at[2], e.handler, e.depth + 1)
    BY <2>3 DEF Suspended, Handled
  <2>5. e.depth \in Int
    <3>1. at[1] \in DOMAIN p.code
      BY <2>1, <2>2, ElementOfSeq DEF Addresses
    <3> QED
      BY <3>1, RangeType
  <2>6. Consistent(p, SubSeq(cs, 1, k), SubSeq(fr, 1, k), at[1], at[2],
                   fr[k].opstack_depth + DepthAt(p, at))
    BY <2>1, <2>2, Unwind
  <2>7. /\ Len(SubSeq(cs, 1, k)) = k
        /\ Len(SubSeq(fr, 1, k)) = k
        /\ SubSeq(fr, 1, k)[k] = fr[k]
    <3>1. \A x \in 1..k : cs[x] \in Addresses(p) /\ fr[x] \in FrameType
      BY <1>1, ElementOfSeq
    <3> QED
      BY <3>1, <1>1, SubSeqProperties
  <2>8. Consistent(p, SubSeq(cs, 1, k), SubSeq(fr, 1, k), at[1], e.handler,
                   fr[k].opstack_depth + (e.depth + 1))
    <3> DEFINE cs2 == SubSeq(cs, 1, k)
               fr2 == SubSeq(fr, 1, k)
               d2 == fr[k].opstack_depth + DepthAt(p, at)
               h == e.depth + 1
    <3>1. Len(cs2) \in Nat /\ Len(cs2) > 0 /\ fr2[Len(fr2)] = fr[k]
      BY <2>7, <1>1
    <3>2. Consistent(p, cs2, fr2, at[1], at[2], d2)
      BY <2>6
    <3>3. FlowsTo(p, at[1], at[2], e.handler, h)
      BY <2>4
    <3> HIDE DEF cs2, fr2, at, e, d2, h
    <3>4. Consistent(p, cs2, fr2, at[1], e.handler, fr2[Len(fr2)].opstack_depth + h)
      BY <3>1, <3>2, <3>3, Flow
    <3>5. Consistent(p, cs2, fr2, at[1], e.handler, fr[k].opstack_depth + h)
      BY <3>1, <3>4
    <3> QED
      BY <3>5 DEF cs2, fr2, h
  <2>9. fr[k + 1].opstack_depth <= left
    <3>1. fr[k + 1].opstack_depth <= fr[n].opstack_depth
      BY <2>1, <1>1 DEF Consistent
    <3> QED
      BY <3>1, <2>1, <1>1, <1>2
  <2>10. fr[k].opstack_depth + e.depth <= left
    <3> DEFINE kept == e.depth
               below == fr[k].opstack_depth
               above == fr[k + 1].opstack_depth
    <3>1. kept \in Int /\ below \in Int /\ above \in Int
      BY <2>1, <2>5, <1>2
    <3>2. kept <= above - below /\ above <= left
      BY <2>4, <2>9
    <3> HIDE DEF kept, below, above
    <3>3. below + kept <= left
      BY <3>1, <3>2
    <3> QED
      BY <3>3 DEF kept, below
  <2> QED
    BY <2>5, <2>8, <2>10, <1>1, <1>2
<1> QED
  BY <1>3, <1>4

-----------------------------------------------------------------------------
(* raise_literal.                                                          *)

(* Whatever it is given, the state it leaves has the right types.          *)
LEMMA RaiseTypes ==
  ASSUME TypeOK, NEW tip \in Nat, NEW exc, NEW d \in Int,
         raise_literal(tip, exc, d)
  PROVE  /\ module' \in DOMAIN prog.code
         /\ ip' \in Nat
         /\ depth' \in Int
         /\ callstack' \in Seq(Addresses(prog))
         /\ frames' \in Seq(FrameType)
         /\ exit_code' \in {exit_code, 1}
         /\ Len(callstack') <= Len(callstack)
<1> DEFINE n == Len(callstack)
           sp == Catchers(tip, exc)
<1>1. /\ ProgramTypes(prog) /\ module \in DOMAIN prog.code
      /\ callstack \in Seq(Addresses(prog)) /\ frames \in Seq(FrameType)
      /\ n \in Nat /\ Len(frames) \in Nat
  BY ProgramsAssumption, LenProperties DEF TypeOK
<1>2. \A k \in 0..n : /\ At(k, tip) \in Addresses(prog)
                      /\ At(k, tip)[1] \in DOMAIN prog.code /\ At(k, tip)[2] \in Nat
  <2> SUFFICES ASSUME NEW k \in 0..n
               PROVE  At(k, tip) \in Addresses(prog)
    BY DEF Addresses
  <2>1. CASE k = n
    BY <2>1, <1>1 DEF At, Addresses
  <2>2. CASE k # n
    <3>1. k + 1 \in 1..n
      BY <2>2, <1>1
    <3> QED
      BY <2>2, <3>1, <1>1, ElementOfSeq DEF At
  <2> QED
    BY <2>1, <2>2
<1>3. \A k \in 0..n : SubSeq(callstack, 1, k) \in Seq(Addresses(prog)) /\ Len(SubSeq(callstack, 1, k)) = k
  <2> SUFFICES ASSUME NEW k \in 0..n
               PROVE  SubSeq(callstack, 1, k) \in Seq(Addresses(prog)) /\ Len(SubSeq(callstack, 1, k)) = k
    OBVIOUS
  <2>1. \A x \in 1..k : x \in 1..n
    BY <1>1
  <2>2. \A x \in 1..k : callstack[x] \in Addresses(prog)
    BY <2>1, <1>1, ElementOfSeq
  <2> QED
    BY <2>2, <1>1, SubSeqProperties
<1>4. \A g \in Nat : SubSeq(frames, 1, Len(frames) - g) \in Seq(FrameType)
  <2> SUFFICES ASSUME NEW g \in Nat
               PROVE  SubSeq(frames, 1, Len(frames) - g) \in Seq(FrameType)
    OBVIOUS
  <2>1. \A x \in 1..(Len(frames) - g) : x \in 1..Len(frames)
    BY <1>1
  <2>2. \A x \in 1..(Len(frames) - g) : frames[x] \in FrameType
    BY <2>1, <1>1, ElementOfSeq
  <2> QED
    BY <2>2, <1>1, SubSeqProperties
<1>5. CASE sp = {}
  <2>1. Unhandled(tip, d)
    BY <1>5 DEF raise_literal
  <2> DEFINE past == {k \in 0..n : At(k, tip)[2] >= EndOf(prog, At(k, tip)[1])}
             top == Max(past \cup {0})
  <2>2. top \in 0..n
    <3>1. past \cup {0} \in SUBSET (0..n) /\ past \cup {0} # {}
      BY <1>1
    <3> HIDE DEF past
    <3> QED
      BY <3>1, <1>1, MaxOfNaturals
  <2>3. /\ module' = At(top, tip)[1] /\ ip' = At(top, tip)[2]
        /\ callstack' = SubSeq(callstack, 1, top)
        /\ frames' = SubSeq(frames, 1, Len(frames) - n)
        /\ depth' = d /\ exit_code' = 1
    BY <2>1 DEF Unhandled
  <2> HIDE DEF top
  <2> QED
    BY <2>2, <2>3, <1>1, <1>2, <1>3, <1>4
<1>6. CASE sp # {}
  <2> DEFINE k == Max(sp)
             at == At(k, tip)
             j == Min(Entries(at[1], at[2], exc))
             e == prog.exc[at[1]][j]
             kept == PopFrames(n - k)
             base == IF kept = <<>> THEN 0 ELSE Last(kept).opstack_depth
  <2>1. k \in sp /\ k \in 0..n
    BY <1>1, <1>6, MaxOfNaturals DEF Catchers
  <2>2. j \in DOMAIN prog.exc[at[1]]
    <3>1. Entries(at[1], at[2], exc) # {}
      BY <2>1 DEF Catchers
    <3>2. Entries(at[1], at[2], exc) \in SUBSET (DOMAIN prog.exc[at[1]])
      BY DEF Entries
    <3>3. Entries(at[1], at[2], exc) \in SUBSET Nat
      BY <3>2, <2>1, <1>1, <1>2, RangeType
    <3> QED
      BY <3>1, <3>2, <3>3, MinOfNaturals
  <2>3. e.handler \in Nat /\ e.depth \in Int
    BY <2>1, <2>2, <1>1, <1>2, RangeType
  <2>4. Caught(k, at, j, d)
    BY <1>6 DEF raise_literal
  <2>5. /\ module' = at[1] /\ ip' = e.handler
        /\ frames' = kept /\ callstack' = SubSeq(callstack, 1, k)
        /\ depth' = Truncate(d, base + e.depth) + 1
        /\ exit_code' = exit_code
    BY <2>4 DEF Caught
  <2>6. kept \in Seq(FrameType)
    <3>1. n - k \in Nat
      BY <2>1, <1>1
    <3> QED
      BY <3>1, <1>4 DEF PopFrames
  <2>7. base \in Int
    <3>1. CASE kept # <<>>
      <4>1. Len(kept) \in 1..Len(kept)
        BY <3>1, <2>6, EmptySeq
      <4>2. Last(kept) \in FrameType
        BY <4>1, <2>6, ElementOfSeq DEF Last
      <4> QED
        BY <3>1, <4>2 DEF FrameType
    <3> QED
      BY <3>1
  <2> HIDE DEF k, e, j, base, kept, at
  <2>8. at[1] \in DOMAIN prog.code
    BY <2>1, <1>2 DEF at
  <2> QED
    BY <2>1, <2>3, <2>5, <2>6, <2>7, <2>8, <1>1, <1>3 DEF Truncate
<1> QED
  BY <1>5, <1>6

(***************************************************************************)
(* When the top activation has d cells in all, and every range around tip  *)
(* keeps only cells that are there, the handler finds what it expects.     *)
(***************************************************************************)
LEMMA RaiseConsistent ==
  ASSUME TypeOK, WellFormed(prog),
         Consistent(prog, callstack, frames, module, ip, depth), Len(callstack) > 0,
         NEW tip \in Nat, NEW exc, NEW d \in Int,
         frames[Len(frames)].opstack_depth <= d,
         Handled(prog, module, ip, tip, d - frames[Len(frames)].opstack_depth),
         raise_literal(tip, exc, d)
  PROVE  \/ exit_code' = 1
         \/ Consistent(prog, callstack', frames', module', ip', depth')
<1> DEFINE n == Len(callstack)
           sp == Catchers(tip, exc)
<1>1. /\ ProgramTypes(prog) /\ module \in DOMAIN prog.code
      /\ callstack \in Seq(Addresses(prog)) /\ frames \in Seq(FrameType)
      /\ n \in Nat /\ n > 0 /\ Len(frames) = n
  BY ProgramsAssumption, LenProperties DEF TypeOK, Consistent
<1>2. CASE sp = {}
  BY <1>2 DEF raise_literal, Unhandled
<1>3. CASE sp # {}
  <2> DEFINE k == Max(sp)
             at == At(k, tip)
             j == Min(Entries(at[1], at[2], exc))
             e == prog.exc[at[1]][j]
             kept == PopFrames(n - k)
             base == IF kept = <<>> THEN 0 ELSE Last(kept).opstack_depth
  <2>1. k \in sp /\ k \in 0..n
    BY <1>1, <1>3, MaxOfNaturals DEF Catchers
  <2>2. Entries(at[1], at[2], exc) # {}
    BY <2>1 DEF Catchers
  <2>3. k # 0
    <3> SUFFICES ASSUME k = 0 PROVE FALSE
      OBVIOUS
    <3>1. at = <<prog.main, EndOf(prog, prog.main)>>
      BY <1>1 DEF At, Consistent, Active
    <3>2. prog.main \in DOMAIN prog.code
      BY <1>1 DEF ProgramTypes
    <3>3. EndOf(prog, prog.main) \in Nat
      BY <3>2, <1>1, LenProperties DEF EndOf, ProgramTypes
    <3>4. \A x \in DOMAIN prog.exc[prog.main] :
            prog.exc[prog.main][x].end \in Nat /\ prog.exc[prog.main][x].end <= EndOf(prog, prog.main)
      BY <3>2, <1>1, RangeType DEF WellFormed
    <3>5. Entries(prog.main, EndOf(prog, prog.main), exc) = {}
      BY <3>3, <3>4 DEF Entries, InRange
    <3> QED
      BY <3>1, <3>5, <2>2
  <2>4. k \in 1..n
    BY <2>1, <2>3, <1>1
  <2>5. at = Place(callstack, module, tip, k)
    BY DEF At, Place
  <2>6. at[1] \in DOMAIN prog.code
    <3>1. CASE k = n
      BY <3>1, <1>1 DEF At
    <3>2. CASE k # n
      <4>1. k + 1 \in 1..n
        BY <3>2, <2>4, <1>1
      <4>2. callstack[k + 1] \in Addresses(prog)
        BY <4>1, <1>1, ElementOfSeq
      <4> QED
        BY <3>2, <4>2 DEF At, Addresses
    <3> QED
      BY <3>1, <3>2
  <2>7. j \in DOMAIN prog.exc[at[1]] /\ InRange(e, at[2])
    <3>1. Entries(at[1], at[2], exc) \in SUBSET (DOMAIN prog.exc[at[1]])
      BY DEF Entries
    <3>2. Entries(at[1], at[2], exc) \in SUBSET Nat
      BY <3>1, <2>6, <1>1, RangeType
    <3>3. j \in Entries(at[1], at[2], exc)
      BY <2>2, <3>2, MinOfNaturals
    <3> QED
      BY <3>3 DEF Entries
  <2>8. Caught(k, at, j, d)
    BY <1>3 DEF raise_literal
  <2>9. /\ module' = at[1] /\ ip' = e.handler
        /\ frames' = kept /\ callstack' = SubSeq(callstack, 1, k)
        /\ depth' = Truncate(d, base + e.depth) + 1
    BY <2>8, <1>1 DEF Caught
  <2>10. kept = SubSeq(frames, 1, k) /\ kept # <<>> /\ Last(kept) = frames[k]
    <3>1. n - (n - k) = k
      BY <2>4, <1>1
    <3>2. \A x \in 1..k : frames[x] \in FrameType
      BY <2>4, <1>1, ElementOfSeq
    <3>3. Len(SubSeq(frames, 1, k)) = k /\ SubSeq(frames, 1, k)[k] = frames[k]
      BY <3>2, <2>4, SubSeqProperties
    <3>4. SubSeq(frames, 1, k) # <<>>
      <4>1. Len(<<>>) = 0 /\ k # 0
        BY <2>3
      <4> HIDE DEF k
      <4> QED
        BY <4>1, <3>3
    <3> QED
      BY <1>1, <3>1, <3>3, <3>4 DEF Last, PopFrames
  <2>11. /\ Consistent(prog, SubSeq(callstack, 1, k), SubSeq(frames, 1, k), at[1], e.handler,
                       frames[k].opstack_depth + (e.depth + 1))
         /\ frames[k].opstack_depth + e.depth <= d
         /\ frames[k].opstack_depth \in Int
         /\ e.depth \in Int
    <3> HIDE DEF k, j
    <3> QED
      BY <2>4, <2>5, <2>7, <1>1, Catch
  <2>12. depth' = frames[k].opstack_depth + (e.depth + 1)
    <3>1. base = frames[k].opstack_depth
      BY <2>10
    <3> DEFINE above == e.depth
               to == base + above
    <3>2. base \in Int /\ above \in Int /\ to <= d
      BY <3>1, <2>11
    <3>3. depth' = Truncate(d, to) + 1
      BY <2>9
    <3> HIDE DEF base, above
    <3>4. to \in Int /\ to + 1 = base + (above + 1)
      BY <3>2
    <3> HIDE DEF to
    <3>5. Truncate(d, to) = to
      BY <3>2, <3>4, <1>1 DEF Truncate
    <3>6. depth' = base + (above + 1)
      BY <3>3, <3>4, <3>5
    <3> QED
      BY <3>1, <3>6 DEF above
  <2> HIDE DEF k, e, at, kept
  <2> QED
    BY <2>9, <2>10, <2>11, <2>12
<1> QED
  BY <1>2, <1>3

-----------------------------------------------------------------------------
(* The instruction tables.                                                 *)
(* When an instruction raises, no more than its operands are gone; if the  *)
(* search starts behind it, the contract covers that address too.          *)
LEMMA ThrowsBounded ==
  ASSUME NEW ins \in Instruction, NEW t \in Throws(ins)
  PROVE  /\ t.gone \in Int /\ t.gone <= Consumed(ins)
         /\ t.off = 0 \/ (t.off = 1 /\ RaisesAfter(ins))
<1>1. ins.n \in Nat /\ ins.in \in Nat /\ ins.out \in Nat
  BY DEF Instruction
<1> USE DEF Throw, CallOps, PushOps, LoadOps, StoreOps, ArithOps, CompareOps,
            IndexRefOps, IndexValueOps, InOps
<1>2. CASE ins.op = "NEGN"
  BY <1>1, <1>2 DEF Throws, Consumed
<1>3. CASE ins.op \in ArithOps
  BY <1>1, <1>3 DEF Throws, Consumed
<1>4. CASE ins.op \in IndexRefOps
  BY <1>1, <1>4 DEF Throws, Consumed, RaisesAfter
<1>5. CASE ins.op \in IndexValueOps
  BY <1>1, <1>5 DEF Throws, Consumed, RaisesAfter
<1>6. CASE ins.op = "CALLP"
  BY <1>1, <1>6 DEF Throws, Consumed
<1>7. CASE ins.op = "CALLX"
  BY <1>1, <1>7 DEF Throws, Consumed, RaisesAfter
<1>8. CASE ins.op = "EXCEPT"
  BY <1>1, <1>8 DEF Throws, Consumed
<1>9. CASE ins.op = "CALLI"
  BY <1>1, <1>9 DEF Throws, Consumed, RaisesAfter
<1>10. CASE ins.op \in CallOps \ {"CALLI"}
  BY <1>1, <1>10 DEF Throws, Consumed, RaisesAfter
<1>11. CASE ins.op \notin {"NEGN", "CALLP", "CALLX", "EXCEPT"} \cup ArithOps \cup IndexRefOps
                           \cup IndexValueOps \cup CallOps
  BY <1>11 DEF Throws
<1> QED
  BY <1>2, <1>3, <1>4, <1>5, <1>6, <1>7, <1>8, <1>9, <1>10, <1>11

(***************************************************************************)
(* The two tables agree: what the handlers of exec.cpp do to the operand   *)
(* stack is what the code generator records for every instruction after    *)
(* which control continues.                                                *)
(***************************************************************************)
THEOREM TablesAgree ==
  ASSUME NEW ins \in Instruction, ins.op \notin {"EXCEPT", "RET", "JUMP"}
  PROVE  Produced(ins) - Consumed(ins) = EmitDelta(ins)
<1>1. ins.n \in Nat /\ ins.in \in Nat /\ ins.out \in Nat /\ ins.op \in Opcodes
  BY DEF Instruction
<1> USE DEF Produced, Consumed, EmitDelta, EmitTable, EmitOperand, StackDelta,
            CallOps, PushOps, LoadOps, StoreOps, ArithOps, CompareOps,
            IndexRefOps, IndexValueOps, InOps, StackOps
<1>2. CASE ins.op \in PushOps \cup LoadOps
  BY <1>1, <1>2
<1>3. CASE ins.op \in StoreOps
  BY <1>1, <1>3
<1>4. CASE ins.op \in ArithOps \cup IndexRefOps \cup IndexValueOps \cup InOps \cup {"INDEXDW"}
  BY <1>1, <1>4
<1>5. CASE ins.op \in CompareOps
  BY <1>1, <1>5
<1>6. CASE ins.op \in CallOps \cup {"CALLP"}
  BY <1>1, <1>6
<1>7. CASE ins.op \in StackOps
  BY <1>1, <1>7
<1>8. CASE ins.op \in {"NEGN", "NOTB", "CALLX", "JUMPTBL", "JF", "JT"}
  BY <1>1, <1>8
<1> QED
  BY <1>1, <1>2, <1>3, <1>4, <1>5, <1>6, <1>7, <1>8 DEF Opcodes, BranchOps

-----------------------------------------------------------------------------
(* The steps of the executor.                                              *)

(* What is known before an instruction is executed.                        *)
LEMMA Current ==
  ASSUME IInv, CodeIsWellFormed, Running
  PROVE  /\ ProgramTypes(prog) /\ WellFormed(prog)
         /\ module \in DOMAIN prog.code
         /\ callstack \in Seq(Addresses(prog)) /\ frames \in Seq(FrameType)
         /\ Len(callstack) \in Nat /\ Len(callstack) > 0 /\ Len(frames) = Len(callstack)
         /\ Consistent(prog, callstack, frames, module, ip, depth)
         /\ ip \in Live(prog, module) /\ ip \in Nat
         /\ Ins \in Instruction
         /\ InstrOK(prog, module, ip)
         /\ \A j \in DOMAIN prog.exc[module] : CoverOK(prog, module, ip, prog.exc[module][j])
         /\ frames[Len(frames)].opstack_depth \in Int
         /\ prog.depth[module][ip] \in Nat
         /\ depth = frames[Len(frames)].opstack_depth + prog.depth[module][ip]
         /\ depth \in Int
<1>1. /\ prog \in Programs /\ module \in DOMAIN prog.code
      /\ callstack \in Seq(Addresses(prog)) /\ frames \in Seq(FrameType)
      /\ depth \in Int
  BY DEF IInv, TypeOK
<1>2. ProgramTypes(prog) /\ WellFormed(prog)
  BY <1>1, ProgramsAssumption DEF CodeIsWellFormed
<1>3. Consistent(prog, callstack, frames, module, ip, depth)
  BY DEF IInv, Running
<1>4. Len(callstack) \in Nat /\ Len(callstack) > 0 /\ Len(frames) = Len(callstack)
  <2>1. callstack # <<>>
    BY DEF Running
  <2> QED
    BY <2>1, <1>1, <1>3, LenProperties, EmptySeq DEF Consistent
<1>5. Active(prog, callstack, frames, module, ip, depth)
  BY <1>3, <1>4 DEF Consistent
<1>6. /\ ip \in Live(prog, module)
      /\ depth = frames[Len(frames)].opstack_depth + prog.depth[module][ip]
  BY <1>5 DEF Active
<1>7. frames[Len(frames)].opstack_depth \in Int
  <2>1. Len(frames) \in 1..Len(frames)
    BY <1>4
  <2>2. frames[Len(frames)] \in FrameType
    BY <2>1, <1>1, ElementOfSeq
  <2> QED
    BY <2>2 DEF FrameType
<1>8. ip \in Nat /\ Ins \in Instruction /\ prog.depth[module][ip] \in Nat
  BY <1>1, <1>2, <1>6, LiveTypes DEF Ins, Code
<1>9. /\ InstrOK(prog, module, ip)
      /\ \A j \in DOMAIN prog.exc[module] : CoverOK(prog, module, ip, prog.exc[module][j])
  BY <1>1, <1>2, <1>6, LiveOK
<1> QED
  BY <1>1, <1>2, <1>3, <1>4, <1>6, <1>7, <1>8, <1>9

(***************************************************************************)
(* What a handler does to the machine: the state has the right types and   *)
(* is consistent, and a call was made below the recursion limit.           *)
(***************************************************************************)
Moved ==
  /\ module' \in DOMAIN prog.code
  /\ ip' \in Nat
  /\ depth' \in Int
  /\ callstack' \in Seq(Addresses(prog))
  /\ frames' \in Seq(FrameType)
  /\ exit_code' \in {0, 1}
  /\ exit_code' = 0 => Consistent(prog, callstack', frames', module', ip', depth')
  /\ Len(callstack') <= Len(callstack) \/ Len(callstack') <= RecursionLimit

LEMMA MovedToCheck ==
  ASSUME IInv, Moved, ToCheck
  PROVE  IInv' /\ prog' = prog
<1>1. /\ prog' = prog /\ interrupted' = interrupted /\ interrupts' = interrupts
      /\ start_ip' = start_ip /\ pc' = "check"
  BY DEF ToCheck, loopVars
<1>2. TypeOK'
  BY <1>1 DEF IInv, TypeOK, Moved
<1> QED
  BY <1>1, <1>2 DEF IInv, Moved

(* Control moves to address j of the running function.                     *)
LEMMA FlowMoves ==
  ASSUME IInv, CodeIsWellFormed, Running, NEW j, NEW e,
         FlowsTo(prog, module, ip, j, e),
         ip' = j, depth' = frames[Len(frames)].opstack_depth + e,
         UNCHANGED <<module, callstack, frames, exit_code>>
  PROVE  Moved
<1>1. /\ module \in DOMAIN prog.code /\ ProgramTypes(prog)
      /\ callstack \in Seq(Addresses(prog)) /\ frames \in Seq(FrameType)
      /\ Len(callstack) \in Nat /\ Len(callstack) > 0
      /\ Consistent(prog, callstack, frames, module, ip, depth)
      /\ frames[Len(frames)].opstack_depth \in Int
  BY Current
<1>2. j \in Nat /\ e \in Int
  <2>1. j \in Live(prog, module) /\ e = prog.depth[module][j]
    BY DEF FlowsTo
  <2>2. j \in Nat /\ prog.depth[module][j] \in Nat
    BY <2>1, <1>1, LiveTypes
  <2> QED
    BY <2>1, <2>2
<1>3. Consistent(prog, callstack, frames, module, j, frames[Len(frames)].opstack_depth + e)
  BY <1>1, Flow
<1>4. exit_code' = 0
  BY DEF Running
<1> QED
  BY <1>1, <1>2, <1>3, <1>4 DEF Moved

LEMMA StraightMoves ==
  ASSUME IInv, CodeIsWellFormed, Running, Ins.op \notin NoFallThrough, Straight
  PROVE  Moved
<1> DEFINE e == prog.depth[module][ip] - Consumed(Ins) + Produced(Ins)
<1>1. /\ InstrOK(prog, module, ip) /\ Ins \in Instruction
      /\ frames[Len(frames)].opstack_depth \in Int
      /\ prog.depth[module][ip] \in Nat
      /\ depth = frames[Len(frames)].opstack_depth + prog.depth[module][ip]
  BY Current
<1>2. FlowsTo(prog, module, ip, ip + 1, e)
  BY <1>1 DEF InstrOK, Ins, Code
<1>3. depth' = frames[Len(frames)].opstack_depth + e
  BY <1>1, EffectTypes DEF Straight
<1>4. ip' = ip + 1 /\ UNCHANGED <<module, callstack, frames, exit_code>>
  BY DEF Straight
<1> HIDE DEF e
<1> QED
  BY <1>2, <1>3, <1>4, FlowMoves

LEMMA BranchMoves ==
  ASSUME IInv, CodeIsWellFormed, Running, NEW j, Branch(j), Produced(Ins) = 0,
         FlowsTo(prog, module, ip, j,
                 prog.depth[module][ip] - Consumed(Ins) + Produced(Ins))
  PROVE  Moved
<1> DEFINE e == prog.depth[module][ip] - Consumed(Ins) + Produced(Ins)
<1>1. /\ Ins \in Instruction
      /\ frames[Len(frames)].opstack_depth \in Int
      /\ prog.depth[module][ip] \in Nat
      /\ depth = frames[Len(frames)].opstack_depth + prog.depth[module][ip]
  BY Current
<1>2. depth' = frames[Len(frames)].opstack_depth + e
  BY <1>1, EffectTypes DEF Branch
<1>3. ip' = j /\ UNCHANGED <<module, callstack, frames, exit_code>>
  BY DEF Branch
<1> HIDE DEF e
<1> QED
  BY <1>2, <1>3, FlowMoves DEF e

(* The contract covers the address such a search starts from.              *)
LEMMA Covered ==
  ASSUME IInv, CodeIsWellFormed, Running,
         NEW off, off = 0 \/ (off = 1 /\ RaisesAfter(Ins)),
         NEW gone \in Int, gone <= Consumed(Ins)
  PROVE  /\ ip + off \in Nat /\ depth - gone \in Int
         /\ frames[Len(frames)].opstack_depth <= depth - gone
         /\ Handled(prog, module, ip, ip + off,
                    (depth - gone) - frames[Len(frames)].opstack_depth)
<1> DEFINE base == frames[Len(frames)].opstack_depth
           tip == ip + off
           d == depth - gone
<1>1. /\ ProgramTypes(prog) /\ WellFormed(prog)
      /\ Len(callstack) \in Nat /\ Len(callstack) > 0
      /\ Consistent(prog, callstack, frames, module, ip, depth)
      /\ ip \in Nat /\ Ins \in Instruction
      /\ InstrOK(prog, module, ip)
      /\ base \in Int /\ prog.depth[module][ip] \in Nat
      /\ depth = base + prog.depth[module][ip] /\ depth \in Int
      /\ module \in DOMAIN prog.code
  BY Current
<1>2. \A j \in DOMAIN prog.exc[module] : CoverOK(prog, module, ip, prog.exc[module][j])
  BY Current
<1>3. /\ tip \in Nat /\ d \in Int
      /\ Consumed(Ins) \in Nat
      /\ prog.depth[module][ip] - Consumed(Ins) >= 0
  BY <1>1, EffectTypes DEF InstrOK, Ins, Code
<1>4. base <= d /\ prog.depth[module][ip] - Consumed(Ins) <= d - base
  <2> DEFINE local == prog.depth[module][ip]
             taken == Consumed(Ins)
  <2>1. /\ base \in Int /\ local \in Int /\ taken \in Int
        /\ depth = base + local /\ local - taken >= 0 /\ gone <= taken
    BY <1>1, <1>3
  <2> HIDE DEF local, taken, base
  <2> QED
    BY <2>1 DEF local, taken
<1>5. Handled(prog, module, ip, tip, d - base)
  <2> SUFFICES ASSUME NEW j \in DOMAIN prog.exc[module], InRange(prog.exc[module][j], tip)
               PROVE  /\ 0 <= prog.exc[module][j].depth
                      /\ prog.exc[module][j].depth <= d - base
                      /\ FlowsTo(prog, module, ip, prog.exc[module][j].handler,
                                 prog.exc[module][j].depth + 1)
    BY DEF Handled
  <2>1. \/ InRange(prog.exc[module][j], ip)
        \/ RaisesAfter(Ins) /\ InRange(prog.exc[module][j], ip + 1)
    BY <1>1
  <2>2. /\ 0 <= prog.exc[module][j].depth
        /\ prog.exc[module][j].depth <= prog.depth[module][ip] - Consumed(Ins)
        /\ FlowsTo(prog, module, ip, prog.exc[module][j].handler, prog.exc[module][j].depth + 1)
    BY <2>1, <1>2 DEF CoverOK, Ins, Code
  <2>3. prog.exc[module][j].depth \in Int
    BY <1>1, RangeType
  <2>4. prog.exc[module][j].depth <= d - base
    <3> DEFINE local == prog.depth[module][ip]
               taken == Consumed(Ins)
               kept == prog.exc[module][j].depth
    <3>1. /\ local \in Int /\ taken \in Int /\ kept \in Int /\ d - base \in Int
      <4>1. local \in Int
        <5>1. local \in Nat
          BY <1>1, Zenon
        <5> HIDE DEF local
        <5> QED
          BY <5>1
      <4>2. taken \in Int
        BY <1>3
      <4>3. d \in Int /\ base \in Int
        BY <1>1, <1>3, Zenon
      <4> HIDE DEF local, taken, d, base
      <4> QED
        BY <2>3, <4>1, <4>2, <4>3 DEF kept
    <3>2. kept <= local - taken
      BY <2>2
    <3>3. local - taken <= d - base
      BY <1>4
    <3> HIDE DEF local, taken, kept, d, base
    <3> QED
      BY <3>1, <3>2, <3>3 DEF kept
  <2> QED
    BY <2>2, <2>4
<1> QED
  BY <1>3, <1>4, <1>5

(* An exception raised by the instruction, with up to its operands gone.   *)
LEMMA RaiseMoves ==
  ASSUME IInv, CodeIsWellFormed, Running,
         NEW off, off = 0 \/ (off = 1 /\ RaisesAfter(Ins)),
         NEW gone \in Int, gone <= Consumed(Ins), NEW exc,
         raise_literal(ip + off, exc, depth - gone)
  PROVE  Moved
<1> DEFINE tip == ip + off
           d == depth - gone
<1>1. /\ ProgramTypes(prog) /\ WellFormed(prog)
      /\ Len(callstack) \in Nat /\ Len(callstack) > 0
      /\ Consistent(prog, callstack, frames, module, ip, depth)
  BY Current
<1>2. /\ tip \in Nat /\ d \in Int
      /\ frames[Len(frames)].opstack_depth <= d
      /\ Handled(prog, module, ip, tip, d - frames[Len(frames)].opstack_depth)
  BY Covered
<1>3. raise_literal(tip, exc, d) /\ TypeOK /\ exit_code = 0
  BY DEF IInv, Running
<1> HIDE DEF tip, d
<1>4. /\ module' \in DOMAIN prog.code /\ ip' \in Nat /\ depth' \in Int
      /\ callstack' \in Seq(Addresses(prog)) /\ frames' \in Seq(FrameType)
      /\ exit_code' \in {0, 1} /\ Len(callstack') <= Len(callstack)
  BY <1>2, <1>3, RaiseTypes
<1>5. exit_code' = 1 \/ Consistent(prog, callstack', frames', module', ip', depth')
  BY <1>1, <1>2, <1>3, RaiseConsistent
<1> QED
  BY <1>4, <1>5 DEF Moved

LEMMA ThrowMoves ==
  ASSUME IInv, CodeIsWellFormed, Running, Raise(Throws(Ins))
  PROVE  Moved
<1>1. Ins \in Instruction
  BY Current
<1>2. PICK t \in Throws(Ins) : raise_literal(ip + t.off, t.exc, depth - t.gone)
  BY DEF Raise
<1>3. t.gone \in Int /\ t.gone <= Consumed(Ins) /\ (t.off = 0 \/ (t.off = 1 /\ RaisesAfter(Ins)))
  BY <1>1, ThrowsBounded
<1> QED
  BY <1>2, <1>3, RaiseMoves

(* A call, with the function pointer or interface popped.                  *)
LEMMA InvokeMoves ==
  ASSUME IInv, CodeIsWellFormed, Running, ~AtLimit, Ins.op \in CallOps,
         NEW g \in Callees(prog, module, Ins), NEW d,
         d = depth - (Consumed(Ins) - Ins.in),
         invoke(g[1], g[2], d)
  PROVE  Moved
<1> DEFINE fn == prog.funcs[g[1]][g[2]]
           base == frames[Len(frames)].opstack_depth
           f == Frame(fn.nest, StaticOuter(fn.nest), d - fn.params)
<1>1. /\ ProgramTypes(prog) /\ WellFormed(prog)
      /\ module \in DOMAIN prog.code
      /\ callstack \in Seq(Addresses(prog)) /\ frames \in Seq(FrameType)
      /\ Len(callstack) \in Nat /\ Len(callstack) > 0 /\ Len(frames) = Len(callstack)
      /\ Consistent(prog, callstack, frames, module, ip, depth)
      /\ ip \in Nat /\ Ins \in Instruction
      /\ InstrOK(prog, module, ip)
      /\ base \in Int /\ prog.depth[module][ip] \in Nat
      /\ depth = base + prog.depth[module][ip] /\ depth \in Int
  BY Current
<1>2. /\ g[1] \in DOMAIN prog.code /\ g[2] \in DOMAIN prog.funcs[g[1]]
      /\ fn.params = Ins.in
  BY <1>1 DEF InstrOK, Ins, Code
<1>3. fn \in FunctionInfo
  <2>1. prog.funcs[g[1]] \in Seq(FunctionInfo)
    BY <1>1, <1>2 DEF ProgramTypes
  <2> QED
    BY <2>1, <1>2, LenProperties, ElementOfSeq
<1>4. fn.nest \in Nat /\ fn.entry \in Nat /\ fn.params \in Nat
  BY <1>3 DEF FunctionInfo
<1>5. StaticOuter(fn.nest) \in Seq(Nat)
  <2> DEFINE chain == <<Len(frames)>> \o Last(frames).outer
             fits == {k \in DOMAIN chain : frames[chain[k]].nest < fn.nest}
  <2>1. Len(frames) \in 1..Len(frames)
    BY <1>1
  <2>2. Last(frames) \in FrameType
    BY <2>1, <1>1, ElementOfSeq DEF Last
  <2>3. Last(frames).outer \in Seq(Nat)
    BY <2>2 DEF FrameType
  <2>4. <<Len(frames)>> \in Seq(Nat)
    BY <1>1
  <2>5. chain \in Seq(Nat) /\ DOMAIN chain = 1..Len(chain) /\ Len(chain) \in Nat
    BY <2>3, <2>4, ConcatProperties, LenProperties
  <2>6. \A k \in DOMAIN chain : chain[k] \in Nat
    BY <2>5, ElementOfSeq
  <2>7. \A k \in fits : SubSeq(chain, k, Len(chain)) \in Seq(Nat)
    <3> SUFFICES ASSUME NEW k \in fits PROVE SubSeq(chain, k, Len(chain)) \in Seq(Nat)
      OBVIOUS
    <3>1. k \in 1..Len(chain)
      BY <2>5
    <3>2. \A x \in k..Len(chain) : chain[x] \in Nat
      BY <3>1, <2>5, <2>6
    <3> HIDE DEF chain, fits
    <3>3. Len(chain) \in Int /\ k \in Int
      BY <3>1, <2>5
    <3> QED
      BY <3>2, <3>3, SubSeqProperties
  <2>8. fits # {} => Min(fits) \in fits
    <3>1. fits \in SUBSET Nat
      BY <2>5
    <3> HIDE DEF fits
    <3> QED
      BY <3>1, MinOfNaturals
  <2>9. StaticOuter(fn.nest) = <<>> \/ (fits # {} /\ StaticOuter(fn.nest) = SubSeq(chain, Min(fits), Len(chain)))
    BY DEF StaticOuter
  <2>10. <<>> \in Seq(Nat)
    OBVIOUS
  <2> HIDE DEF chain, fits
  <2> QED
    BY <2>7, <2>8, <2>9, <2>10
<1>6. /\ f \in FrameType /\ f.nest = fn.nest /\ f.opstack_depth = d - fn.params
      /\ d \in Int /\ d - fn.params = depth - Consumed(Ins)
  <2>1. Consumed(Ins) \in Nat /\ Ins.in \in Nat
    BY <1>1, EffectTypes DEF Instruction
  <2>2. d \in Int /\ d - fn.params \in Int /\ d - fn.params = depth - Consumed(Ins)
    BY <2>1, <1>1, <1>2
  <2> QED
    BY <2>2, <1>4, <1>5 DEF Frame, FrameType
<1>7. /\ callstack' = Append(callstack, <<module, ip + 1>>)
      /\ frames' = Append(frames, f)
      /\ module' = g[1] /\ ip' = fn.entry /\ depth' = d /\ exit_code' = exit_code
  BY DEF invoke
<1> HIDE DEF f
<1>8. f.opstack_depth = base + prog.depth[module][ip] - Consumed(prog.code[module][ip])
  <2>1. Ins = prog.code[module][ip]
    BY DEF Ins, Code
  <2>2. /\ f.opstack_depth = depth - Consumed(Ins) /\ depth = base + prog.depth[module][ip]
        /\ base \in Int /\ prog.depth[module][ip] \in Int /\ Consumed(Ins) \in Int
    BY <1>1, <1>6, EffectTypes
  <2> HIDE DEF base
  <2>3. f.opstack_depth = base + prog.depth[module][ip] - Consumed(Ins)
    BY <2>2
  <2> QED
    BY <2>1, <2>3
<1>9. prog.code[module][ip].op \in CallOps /\ g \in Callees(prog, module, prog.code[module][ip])
  BY DEF Ins, Code
<1>10. d = f.opstack_depth + fn.params
  BY <1>4, <1>6
<1>11. Consistent(prog, callstack', frames', module', ip', depth')
  <2>1. Consistent(prog, Append(callstack, <<module, ip + 1>>), Append(frames, f), g[1], fn.entry,
                   f.opstack_depth + fn.params)
    BY <1>1, <1>6, <1>8, <1>9, Call
  <2> HIDE DEF fn
  <2> QED
    BY <2>1, <1>7, <1>10
<1>12. /\ callstack' \in Seq(Addresses(prog)) /\ Len(callstack') = Len(callstack) + 1
       /\ frames' \in Seq(FrameType)
  <2>1. <<module, ip + 1>> \in Addresses(prog)
    BY <1>1 DEF Addresses
  <2> QED
    BY <2>1, <1>1, <1>6, <1>7, AppendProperties
<1>13. Len(callstack') <= RecursionLimit
  BY <1>1, <1>12, RecursionLimitAssumption DEF AtLimit
<1> HIDE DEF fn
<1> QED
  BY <1>2, <1>4, <1>6, <1>7, <1>11, <1>12, <1>13 DEF Moved, Running

LEMMA OverflowMoves ==
  ASSUME IInv, CodeIsWellFormed, Running, Ins.op \in CallOps, StackOverflow
  PROVE  Moved
<1>1. Consumed(Ins) \in Nat /\ depth - 0 = depth
  BY Current, EffectTypes
<1>2. RaisesAfter(Ins)
  BY DEF RaisesAfter
<1>3. raise_literal(ip + 1, PANIC, depth - 0)
  BY <1>1 DEF StackOverflow
<1> QED
  BY <1>1, <1>2, <1>3, RaiseMoves

LEMMA ReturnMoves ==
  ASSUME IInv, CodeIsWellFormed, Running, exec_RET
  PROVE  Moved
<1> DEFINE n == Len(callstack)
<1>1. /\ ProgramTypes(prog) /\ WellFormed(prog)
      /\ module \in DOMAIN prog.code
      /\ callstack \in Seq(Addresses(prog)) /\ frames \in Seq(FrameType)
      /\ n \in Nat /\ n > 0 /\ Len(frames) = n
      /\ Consistent(prog, callstack, frames, module, ip, depth)
      /\ depth \in Int
  BY Current
<1>2. /\ frames' = Front(frames) /\ callstack' = Front(callstack)
      /\ module' = Last(callstack)[1] /\ ip' = Last(callstack)[2]
      /\ depth' = depth /\ exit_code' = exit_code /\ Ins.op = "RET"
  BY DEF exec_RET, Fetch, Resume
<1>3. Consistent(prog, Front(callstack), Front(frames), Last(callstack)[1], Last(callstack)[2], depth)
  BY <1>1, <1>2, Return DEF Ins, Code
<1>4. Last(callstack)[1] \in DOMAIN prog.code /\ Last(callstack)[2] \in Nat
  <2>1. n \in 1..n
    BY <1>1
  <2>2. Last(callstack) \in Addresses(prog)
    BY <2>1, <1>1, ElementOfSeq DEF Last
  <2> QED
    BY <2>2 DEF Addresses
<1>5. /\ Front(callstack) \in Seq(Addresses(prog)) /\ Front(frames) \in Seq(FrameType)
      /\ Len(Front(callstack)) <= n
  <2>1. \A x \in 1..(n - 1) : x \in 1..n
    BY <1>1
  <2>2. \A x \in 1..(n - 1) : callstack[x] \in Addresses(prog) /\ frames[x] \in FrameType
    BY <2>1, <1>1, ElementOfSeq
  <2> QED
    BY <2>2, <1>1, SubSeqProperties DEF Front
<1> QED
  BY <1>1, <1>2, <1>3, <1>4, <1>5 DEF Moved, Running

(* An exception for which the top activation has a handler.                *)
LEMMA CaughtHere ==
  ASSUME TypeOK, callstack # <<>>, Len(frames) = Len(callstack),
         NEW tip, NEW exc, NEW d,
         Entries(module, tip, exc) # {},
         raise_literal(tip, exc, d)
  PROVE  LET j == Min(Entries(module, tip, exc))
             e == prog.exc[module][j]
             base == frames[Len(frames)].opstack_depth
         IN  /\ j \in DOMAIN prog.exc[module] /\ InRange(e, tip)
             /\ ip' = e.handler
             /\ depth' = Truncate(d, base + e.depth) + 1
             /\ UNCHANGED <<module, callstack, frames, exit_code>>
<1> DEFINE n == Len(callstack)
           sp == Catchers(tip, exc)
           j == Min(Entries(module, tip, exc))
<1>1. /\ ProgramTypes(prog) /\ module \in DOMAIN prog.code
      /\ callstack \in Seq(Addresses(prog)) /\ frames \in Seq(FrameType)
      /\ n \in Nat /\ n > 0 /\ Len(frames) = n
  BY ProgramsAssumption, LenProperties, EmptySeq DEF TypeOK
<1>2. At(n, tip) = <<module, tip>>
  BY DEF At
<1>3. n \in sp
  BY <1>1, <1>2 DEF Catchers
<1>4. Max(sp) = n
  <2>1. sp \in SUBSET (0..n)
    BY DEF Catchers
  <2> HIDE DEF sp
  <2>2. Max(sp) \in sp /\ n <= Max(sp)
    BY <2>1, <1>1, <1>3, MaxOfNaturals
  <2>3. Max(sp) \in 0..n
    BY <2>1, <2>2
  <2> HIDE DEF n
  <2> QED
    BY <2>2, <2>3, <1>1
<1>5. Caught(n, <<module, tip>>, j, d)
  BY <1>2, <1>3, <1>4 DEF raise_literal
<1>6. j \in Entries(module, tip, exc)
  <2>1. Entries(module, tip, exc) \in SUBSET Nat
    BY <1>1, RangeType DEF Entries
  <2> QED
    BY <2>1, MinOfNaturals
<1>7. SubSeq(frames, 1, Len(frames) - (n - n)) = frames /\ SubSeq(callstack, 1, n) = callstack
  <2>1. Len(frames) - (n - n) = Len(frames)
    BY <1>1
  <2> QED
    BY <2>1, <1>1, SubSeqFull
<1>8. frames # <<>>
  BY <1>1, EmptySeq
<1>9. /\ ip' = prog.exc[module][j].handler
      /\ depth' = Truncate(d, frames[Len(frames)].opstack_depth + prog.exc[module][j].depth) + 1
      /\ UNCHANGED <<module, callstack, frames, exit_code>>
  <2> HIDE DEF j
  <2> QED
    BY <1>5, <1>7, <1>8 DEF Caught, Last, PopFrames
<1> QED
  BY <1>6, <1>9 DEF Entries

-----------------------------------------------------------------------------
(* The three steps that do not lead to the interrupt test in one go.       *)

Kept == prog' = prog /\ (Len(callstack') <= Len(callstack) \/ Len(callstack') <= RecursionLimit)

LEMMA ModuloKeeps ==
  ASSUME IInv, CodeIsWellFormed, exec_MODN
  PROVE  IInv' /\ Kept
<1> DEFINE found == Entries(module, ip, PANIC)
           j == Min(found)
           e == prog.exc[module][j]
           base == frames[Len(frames)].opstack_depth
<1>1. Running /\ Ins.op = "MODN" /\ raise_literal(ip, PANIC, depth - 1)
  BY DEF exec_MODN, Fetch
<1>2. /\ prog' = prog /\ interrupted' = interrupted /\ interrupts' = interrupts
      /\ start_ip' = ip /\ pc' = "again"
  BY DEF exec_MODN, loopVars
<1>3. /\ Len(callstack) \in Nat /\ Len(callstack) > 0 /\ Len(frames) = Len(callstack)
      /\ callstack \in Seq(Addresses(prog)) /\ frames \in Seq(FrameType)
      /\ ip \in Live(prog, module) /\ ip \in Nat
      /\ base \in Int /\ prog.depth[module][ip] \in Nat
      /\ depth = base + prog.depth[module][ip]
      /\ ProgramTypes(prog) /\ WellFormed(prog) /\ module \in DOMAIN prog.code
  BY <1>1, Current
<1>4. \A x \in DOMAIN prog.exc[module] : CoverOK(prog, module, ip, prog.exc[module][x])
  BY <1>1, Current
<1>5. Consumed(Ins) = 2
  BY <1>1 DEF Consumed, PushOps, LoadOps, ArithOps
<1>6. Moved
  <2>1. raise_literal(ip + 0, PANIC, depth - 1)
    BY <1>1, <1>3
  <2> QED
    BY <2>1, <1>1, <1>5, RaiseMoves
<1>7. found # {}
  <2>1. PICK x \in DOMAIN prog.exc[module] :
          InRange(prog.exc[module][x], ip) /\ prog.exc[module][x].exc = PANIC
    BY <1>1, <1>3, LiveOK DEF ModuloOK, Ins, Code
  <2>2. Matches(PANIC, PANIC)
    BY DEF Matches, IsPrefix, PANIC
  <2> QED
    BY <2>1, <2>2 DEF Entries
<1>8. /\ j \in DOMAIN prog.exc[module] /\ InRange(e, ip)
      /\ ip' = e.handler
      /\ depth' = Truncate(depth - 1, base + e.depth) + 1
      /\ UNCHANGED <<module, callstack, frames, exit_code>>
  <2>1. TypeOK /\ callstack # <<>>
    BY <1>1 DEF IInv, Running
  <2> QED
    BY <2>1, <1>1, <1>3, <1>7, CaughtHere
<1>9. depth' = base + e.depth + 1
  <2>1. e.depth <= prog.depth[module][ip] - Consumed(prog.code[module][ip])
    BY <1>4, <1>8 DEF CoverOK
  <2>2. e.depth \in Int
    BY <1>3, <1>8, RangeType
  <2>3. e.depth <= prog.depth[module][ip] - 2
    BY <2>1, <1>5 DEF Ins, Code
  <2> HIDE DEF e, base
  <2> QED
    BY <2>2, <2>3, <1>3, <1>8 DEF Truncate
<1>10. Again'
  <2>1. callstack' # <<>> /\ exit_code' = 0
    BY <1>1, <1>8 DEF Running
  <2>2. Entries(module, start_ip, PANIC)' = found
    BY <1>2, <1>8 DEF Entries
  <2>3. Last(frames)'.opstack_depth = base
    BY <1>8 DEF Last
  <2> HIDE DEF found, base
  <2> QED
    BY <2>1, <2>2, <2>3, <1>2, <1>7, <1>8, <1>9 DEF Again
<1>11. TypeOK'
  BY <1>2, <1>3, <1>6 DEF IInv, TypeOK, Moved
<1>12. exit_code' = 0
  BY <1>1, <1>8 DEF Running
<1> QED
  BY <1>2, <1>6, <1>10, <1>11, <1>12 DEF IInv, Moved, Kept

(* The second exception of MODN changes nothing.                           *)
LEMMA AgainStays ==
  ASSUME IInv, RaiseAgain
  PROVE  UNCHANGED <<module, ip, depth, callstack, frames, exit_code>>
<1> DEFINE found == Entries(module, start_ip, PANIC)
           e == prog.exc[module][Min(found)]
           base == frames[Len(frames)].opstack_depth
<1>1. /\ TypeOK /\ Again /\ raise_literal(start_ip, PANIC, depth) /\ ToCheck
      /\ exit_code = 0
      /\ Consistent(prog, callstack, frames, module, ip, depth)
  BY DEF RaiseAgain, IInv
<1>2. /\ callstack # <<>> /\ found # {} /\ ip = e.handler /\ depth = base + e.depth + 1
  BY <1>1 DEF Again, Last
<1>3. /\ callstack \in Seq(Addresses(prog)) /\ frames \in Seq(FrameType)
      /\ Len(frames) = Len(callstack) /\ Len(callstack) \in Nat /\ Len(callstack) > 0
      /\ ProgramTypes(prog) /\ module \in DOMAIN prog.code
  BY <1>1, <1>2, ProgramsAssumption, LenProperties, EmptySeq DEF TypeOK, Consistent
<1>4. /\ Min(found) \in DOMAIN prog.exc[module]
      /\ ip' = e.handler
      /\ depth' = Truncate(depth, base + e.depth) + 1
      /\ UNCHANGED <<module, callstack, frames, exit_code>>
  BY <1>1, <1>2, <1>3, CaughtHere
<1>5. e.depth \in Int /\ base \in Int
  <2>1. Len(frames) \in 1..Len(frames)
    BY <1>3
  <2>2. frames[Len(frames)] \in FrameType
    BY <2>1, <1>3, ElementOfSeq
  <2> QED
    BY <2>2, <1>3, <1>4, RangeType DEF FrameType
<1>6. ip' = ip /\ depth' = depth
  <2> HIDE DEF e, base
  <2> QED
    BY <1>2, <1>4, <1>5 DEF Truncate
<1> QED
  BY <1>4, <1>6

LEMMA AgainKeeps ==
  ASSUME IInv, CodeIsWellFormed, RaiseAgain
  PROVE  IInv' /\ Kept
<1>1. UNCHANGED <<module, ip, depth, callstack, frames, exit_code>>
  BY AgainStays
<1>2. /\ TypeOK /\ ToCheck /\ exit_code = 0
      /\ Consistent(prog, callstack, frames, module, ip, depth)
  BY DEF RaiseAgain, IInv
<1>3. Len(callstack) \in Nat
  BY <1>2, LenProperties DEF TypeOK
<1>4. Moved
  BY <1>1, <1>2, <1>3 DEF TypeOK, Moved
<1> QED
  BY <1>2, <1>4, MovedToCheck DEF Moved, Kept

(* An interrupt raised after the program has ended is not caught.          *)
LEMMA LateInterrupt ==
  ASSUME IInv, CodeIsWellFormed, ~Running, raise_literal(ip, Interrupted, depth)
  PROVE  exit_code' # 0
<1>1. /\ TypeOK
      /\ exit_code = 0 => Consistent(prog, callstack, frames, module, ip, depth)
  BY DEF IInv
<1>2. /\ callstack \in Seq(Addresses(prog)) /\ frames \in Seq(FrameType)
      /\ Len(callstack) \in Nat
      /\ module \in DOMAIN prog.code /\ ip \in Nat /\ depth \in Int /\ exit_code \in {0, 1}
      /\ ProgramTypes(prog)
  BY <1>1, ProgramsAssumption, LenProperties DEF TypeOK
<1>3. CASE exit_code # 0
  <2>1. exit_code' \in {exit_code, 1}
    BY <1>1, <1>2, RaiseTypes
  <2> QED
    BY <1>3, <2>1
<1>4. CASE exit_code = 0
  <2>1. callstack = <<>>
    <3> SUFFICES ASSUME callstack # <<>> PROVE FALSE
      OBVIOUS
    <3>1. Len(callstack) > 0
      BY <1>2, EmptySeq
    <3>2. ip \in Live(prog, module)
      BY <3>1, <1>4, <1>1 DEF Consistent, Active
    <3>3. ip < EndOf(prog, module)
      BY <3>2, <1>2, LiveTypes
    <3> QED
      BY <3>3, <1>4 DEF Running
  <2>2. Len(callstack) = 0 /\ module = prog.main /\ ip = EndOf(prog, prog.main)
    <3>1. Len(callstack) = 0
      BY <2>1
    <3> QED
      BY <3>1, <1>4, <1>1 DEF Consistent, Stopped
  <2>3. Entries(module, ip, Interrupted) = {}
    <3>1. \A x \in DOMAIN prog.exc[module] :
            prog.exc[module][x].end \in Nat /\ prog.exc[module][x].end <= ip
      <4>1. WellFormed(prog)
        BY <1>1 DEF TypeOK, CodeIsWellFormed
      <4> QED
        BY <4>1, <2>2, <1>2, RangeType DEF WellFormed
    <3> QED
      BY <3>1, <1>2 DEF Entries, InRange
  <2>4. Catchers(ip, Interrupted) = {}
    <3>1. \A k \in 0..Len(callstack) : At(k, ip) = <<module, ip>>
      BY <2>2 DEF At
    <3> QED
      BY <3>1, <2>3 DEF Catchers
  <2> QED
    BY <2>4 DEF raise_literal, Unhandled
<1> QED
  BY <1>3, <1>4

LEMMA CheckKeeps ==
  ASSUME IInv, CodeIsWellFormed, CheckInterrupted
  PROVE  IInv' /\ Kept
<1>1. /\ TypeOK
      /\ exit_code = 0 => Consistent(prog, callstack, frames, module, ip, depth)
      /\ prog' = prog /\ interrupts' = interrupts /\ start_ip' = start_ip
      /\ pc' = "fetch" /\ interrupted' \in BOOLEAN
  BY DEF IInv, TypeOK, CheckInterrupted
<1>2. /\ callstack \in Seq(Addresses(prog)) /\ frames \in Seq(FrameType)
      /\ Len(callstack) \in Nat
      /\ module \in DOMAIN prog.code /\ ip \in Nat /\ depth \in Int /\ exit_code \in {0, 1}
      /\ ProgramTypes(prog)
  BY <1>1, ProgramsAssumption, LenProperties DEF TypeOK
<1>3. Moved
  <2>1. CASE ~interrupted
    <3>1. UNCHANGED <<module, ip, depth, callstack, frames, exit_code>>
      BY <2>1 DEF CheckInterrupted
    <3> QED
      BY <3>1, <1>1, <1>2 DEF Moved
  <2>2. CASE interrupted
    <3>1. raise_literal(ip, Interrupted, depth)
      BY <2>2 DEF CheckInterrupted
    <3>2. CASE Running
      <4>1. Consumed(Ins) \in Nat /\ depth - 0 = depth /\ ip + 0 = ip
        BY <3>2, Current, EffectTypes
      <4>2. raise_literal(ip + 0, Interrupted, depth - 0)
        BY <3>1, <4>1
      <4> QED
        BY <3>2, <4>1, <4>2, RaiseMoves
    <3>3. CASE ~Running
      <4>1. /\ module' \in DOMAIN prog.code /\ ip' \in Nat /\ depth' \in Int
            /\ callstack' \in Seq(Addresses(prog)) /\ frames' \in Seq(FrameType)
            /\ exit_code' \in {exit_code, 1} /\ Len(callstack') <= Len(callstack)
        BY <1>1, <1>2, <3>1, RaiseTypes
      <4>2. exit_code' # 0
        BY <3>1, <3>3, LateInterrupt
      <4> QED
        BY <4>1, <4>2, <1>2 DEF Moved
    <3> QED
      BY <3>2, <3>3
  <2> QED
    BY <2>1, <2>2
<1>4. TypeOK'
  BY <1>1, <1>3 DEF TypeOK, Moved
<1> QED
  BY <1>1, <1>3, <1>4 DEF IInv, Moved, Kept

-----------------------------------------------------------------------------
(* Every instruction handler that leads to the interrupt test.             *)
LEMMA HandlerKeeps ==
  ASSUME IInv, CodeIsWellFormed,
         \/ exec_PUSH \/ exec_LOAD \/ exec_STORE \/ exec_ARITH \/ exec_COMPARE
         \/ exec_INDEX \/ exec_INDEXDW \/ exec_IN \/ exec_STACK
         \/ exec_CALLP \/ exec_CALLX \/ exec_EXCEPT
         \/ exec_JUMP \/ exec_JF \/ exec_JUMPTBL
         \/ exec_CALLF \/ exec_CALLMF \/ exec_CALLI \/ exec_CALLV \/ exec_RET
  PROVE  IInv' /\ Kept
<1>1. ASSUME Running, Straight, Ins.op \notin NoFallThrough
      PROVE  Moved /\ ToCheck
  BY <1>1, StraightMoves DEF Straight
<1>2. ASSUME Running, Raise(Throws(Ins))
      PROVE  Moved /\ ToCheck
  BY <1>2, ThrowMoves DEF Raise
<1>3. CASE \/ exec_PUSH \/ exec_LOAD \/ exec_STORE \/ exec_ARITH \/ exec_COMPARE
           \/ exec_INDEX \/ exec_INDEXDW \/ exec_IN \/ exec_STACK
           \/ exec_CALLP \/ exec_CALLX \/ exec_EXCEPT
  <2>1. /\ Running
        /\ (Straight /\ Ins.op \notin NoFallThrough) \/ Raise(Throws(Ins))
    BY <1>3 DEF exec_PUSH, exec_LOAD, exec_STORE, exec_ARITH, exec_COMPARE, exec_INDEX,
                exec_INDEXDW, exec_IN, exec_STACK, exec_CALLP, exec_CALLX, exec_EXCEPT, Fetch,
                NoFallThrough, PushOps, LoadOps, StoreOps, ArithOps, CompareOps, IndexRefOps,
                IndexValueOps, InOps, StackOps
  <2>2. Moved /\ ToCheck
    BY <2>1, <1>1, <1>2
  <2> QED
    BY <2>2, MovedToCheck DEF Moved, Kept
<1>4. CASE exec_JUMP \/ exec_JF \/ exec_JUMPTBL
  <2>1. Running /\ Ins.op \in {"JUMP", "JF", "JT", "JUMPTBL"} /\ ToCheck
    BY <1>4 DEF exec_JUMP, exec_JF, exec_JUMPTBL, Fetch, Branch
  <2>2. Produced(Ins) = 0
    BY <2>1 DEF Produced, PushOps, LoadOps, ArithOps, CompareOps, IndexRefOps, IndexValueOps, InOps
  <2>3. InstrOK(prog, module, ip)
    BY <2>1, Current
  <2> DEFINE after == prog.depth[module][ip] - Consumed(Ins) + Produced(Ins)
  <2>4. PICK j : Branch(j) /\ FlowsTo(prog, module, ip, j, after)
    <3>1. CASE exec_JUMP
      BY <3>1, <2>3 DEF exec_JUMP, Fetch, InstrOK, Ins, Code, BranchOps
    <3>2. CASE exec_JF
      BY <3>2, <2>3 DEF exec_JF, Fetch, InstrOK, Ins, Code, BranchOps, NoFallThrough
    <3>3. CASE exec_JUMPTBL
      BY <3>3, <2>3 DEF exec_JUMPTBL, Fetch, InstrOK, Ins, Code
    <3> QED
      BY <1>4, <3>1, <3>2, <3>3
  <2>5. Moved
    BY <2>1, <2>2, <2>4, BranchMoves
  <2> QED
    BY <2>1, <2>5, MovedToCheck DEF Moved, Kept
<1>5. CASE exec_CALLF \/ exec_CALLMF \/ exec_CALLI \/ exec_CALLV
  <2>1. Running /\ Ins.op \in CallOps /\ ToCheck /\ Ins \in Instruction /\ depth \in Int
    BY <1>5, Current DEF exec_CALLF, exec_CALLMF, exec_CALLI, exec_CALLV, Fetch, CallOps
  <2>2. Ins.in \in Nat
    BY <2>1 DEF Instruction
  <2>3. /\ Ins.op \in {"CALLF", "CALLMF"} => Consumed(Ins) = Ins.in
        /\ Ins.op \in {"CALLI", "CALLV"} => Consumed(Ins) = Ins.in + 1
    BY DEF Consumed, PushOps, LoadOps, StoreOps, ArithOps, CompareOps, IndexRefOps,
           IndexValueOps, InOps
  <2>4. /\ Ins.op \in {"CALLF", "CALLMF"} => depth = depth - (Consumed(Ins) - Ins.in)
        /\ Ins.op \in {"CALLI", "CALLV"} => depth - 1 = depth - (Consumed(Ins) - Ins.in)
    BY <2>1, <2>2, <2>3
  <2>5. CASE StackOverflow
    BY <2>1, <2>5, OverflowMoves, MovedToCheck DEF Moved, Kept
  <2>6. CASE exec_CALLI /\ raise_literal(ip + 1, PANIC, depth - 1)
    <3>1. Ins.op = "CALLI"
      BY <2>6 DEF exec_CALLI, Fetch
    <3>2. 1 <= Consumed(Ins) /\ RaisesAfter(Ins)
      BY <2>2, <2>3, <3>1 DEF RaisesAfter, CallOps
    <3>3. Moved
      BY <2>1, <2>6, <3>2, RaiseMoves
    <3> QED
      BY <2>1, <3>3, MovedToCheck DEF Moved, Kept
  <2>7. CASE ~AtLimit /\ \E g \in Callees(prog, module, Ins) :
               \E d : d = depth - (Consumed(Ins) - Ins.in) /\ invoke(g[1], g[2], d)
    <3>1. Moved
      BY <2>1, <2>7, InvokeMoves
    <3> QED
      BY <2>1, <3>1, MovedToCheck DEF Moved, Kept
  <2>8. CASE exec_CALLF
    <3>1. Ins.op = "CALLF" /\ <<module, Ins.fn>> \in Callees(prog, module, Ins)
      BY <2>8 DEF exec_CALLF, Fetch, Callees
    <3>2. StackOverflow \/ (~AtLimit /\ invoke(<<module, Ins.fn>>[1], <<module, Ins.fn>>[2], depth))
      BY <2>8 DEF exec_CALLF
    <3>3. depth = depth - (Consumed(Ins) - Ins.in)
      BY <2>4, <3>1
    <3> QED
      BY <2>5, <2>7, <3>1, <3>2, <3>3
  <2>9. CASE exec_CALLMF
    <3>1. Ins.op = "CALLMF" /\ <<Ins.mod, Ins.fn>> \in Callees(prog, module, Ins)
      BY <2>9 DEF exec_CALLMF, Fetch, Callees
    <3>2. StackOverflow \/ (~AtLimit /\ invoke(<<Ins.mod, Ins.fn>>[1], <<Ins.mod, Ins.fn>>[2], depth))
      BY <2>9 DEF exec_CALLMF
    <3>3. depth = depth - (Consumed(Ins) - Ins.in)
      BY <2>4, <3>1
    <3> QED
      BY <2>5, <2>7, <3>1, <3>2, <3>3
  <2>10. CASE exec_CALLI \/ exec_CALLV
    <3>1. Ins.op \in {"CALLI", "CALLV"} /\ Callees(prog, module, Ins) = Ins.impl
      BY <2>10 DEF exec_CALLI, exec_CALLV, Fetch, Callees
    <3>2. \/ StackOverflow
          \/ exec_CALLI /\ raise_literal(ip + 1, PANIC, depth - 1)
          \/ ~AtLimit /\ \E g \in Ins.impl : invoke(g[1], g[2], depth - 1)
      BY <2>10 DEF exec_CALLI, exec_CALLV
    <3>3. depth - 1 = depth - (Consumed(Ins) - Ins.in)
      BY <2>4, <3>1
    <3> QED
      BY <2>5, <2>6, <2>7, <3>1, <3>2, <3>3
  <2> QED
    BY <1>5, <2>8, <2>9, <2>10
<1>6. CASE exec_RET
  <2>1. Running /\ ToCheck
    BY <1>6 DEF exec_RET, Fetch
  <2>2. Moved
    BY <1>6, <2>1, ReturnMoves
  <2> QED
    BY <2>1, <2>2, MovedToCheck DEF Moved, Kept
<1> QED
  BY <1>3, <1>4, <1>5, <1>6

(* Every step.                                                             *)
LEMMA StepKeeps ==
  ASSUME IInv, CodeIsWellFormed, [Next]_vars
  PROVE  IInv' /\ Kept
<1>1. Len(callstack) \in Nat
  BY LenProperties DEF IInv, TypeOK
<1>2. CASE exec_MODN
  BY <1>2, ModuloKeeps
<1>3. CASE RaiseAgain
  BY <1>3, AgainKeeps
<1>4. CASE CheckInterrupted
  BY <1>4, CheckKeeps
<1>5. CASE interrupt
  <2>1. /\ UNCHANGED <<prog, module, ip, depth, callstack, frames, exit_code, pc, start_ip>>
        /\ interrupted' = TRUE /\ interrupts' = interrupts + 1 /\ interrupts < MaxInterrupts
    BY <1>5 DEF interrupt
  <2>2. TypeOK'
    BY <2>1, MaxInterruptsAssumption DEF IInv, TypeOK
  <2>3. Again => Again'
    BY <2>1 DEF Again, Entries
  <2> QED
    BY <2>1, <2>2, <2>3, <1>1 DEF IInv, Kept
<1>6. CASE UNCHANGED vars
  <2>1. UNCHANGED <<prog, module, ip, depth, callstack, frames, exit_code, interrupted, interrupts,
                    pc, start_ip>>
    BY <1>6 DEF vars
  <2>2. TypeOK'
    BY <2>1 DEF IInv, TypeOK
  <2>3. Again => Again'
    BY <2>1 DEF Again, Entries
  <2> QED
    BY <2>1, <2>2, <2>3, <1>1 DEF IInv, Kept
<1>7. CASE Step
  BY <1>2, <1>3, <1>4, <1>7, HandlerKeeps DEF Step
<1> QED
  BY <1>5, <1>6, <1>7 DEF Next, Terminated

-----------------------------------------------------------------------------
(***************************************************************************)
(* What a step does to the activations, if it does not end the run: it     *)
(* enters a function on top of them, or it leaves those that remain where  *)
(* they were, the top one in the same function.                            *)
(***************************************************************************)
Stays(x) ==
  LET here == Place(callstack, module, ip, x)
      there == Place(callstack', module', ip', x)
  IN  /\ callstack'[x] = callstack[x]
      /\ frames'[x] = frames[x]
      /\ there[1] = here[1]
      /\ OwnerAt(prog, there) = OwnerAt(prog, here)

Unwound ==
  /\ Len(callstack') <= Len(callstack)
  /\ \A x \in 1..Len(callstack') : Stays(x)

Entered ==
  /\ Running
  /\ Ins.op \in CallOps
  /\ \E g \in Callees(prog, module, Ins) : \E d : invoke(g[1], g[2], d)

(* Control moves within the running function, or not at all.               *)
LEMMA InPlace ==
  ASSUME UNCHANGED <<module, callstack, frames>>, Len(callstack) \in Nat,
         ip' = ip \/ (\E e : FlowsTo(prog, module, ip, ip', e))
  PROVE  Unwound
<1>1. prog.owner[module][ip'] = prog.owner[module][ip]
  BY DEF FlowsTo
<1>2. \A x \in 1..Len(callstack) : Stays(x)
  BY <1>1 DEF Stays, Place, OwnerAt
<1> QED
  BY <1>2 DEF Unwound

(* The k activations that are left, the top one going on at address a.     *)
LEMMA Left ==
  ASSUME TypeOK, Len(frames) = Len(callstack), NEW k \in 0..Len(callstack),
         callstack' = SubSeq(callstack, 1, k), frames' = SubSeq(frames, 1, k),
         k # 0 => /\ module' = Place(callstack, module, ip, k)[1]
                  /\ OwnerAt(prog, <<module', ip'>>) = OwnerAt(prog, Place(callstack, module, ip, k))
  PROVE  Unwound
<1> DEFINE n == Len(callstack)
<1>1. /\ callstack \in Seq(Addresses(prog)) /\ frames \in Seq(FrameType)
      /\ n \in Nat /\ Len(frames) = n
  BY LenProperties DEF TypeOK
<1>2. /\ Len(callstack') = k /\ Len(frames') = k
      /\ \A x \in 1..k : callstack'[x] = callstack[x] /\ frames'[x] = frames[x]
  <2>1. \A x \in 1..k : callstack[x] \in Addresses(prog) /\ frames[x] \in FrameType
    BY <1>1, ElementOfSeq
  <2> QED
    BY <2>1, <1>1, SubSeqProperties
<1>3. ASSUME NEW x \in 1..k
      PROVE  Stays(x)
  <2>1. CASE x = k
    <3>1. Place(callstack', module', ip', x) = <<module', ip'>>
      BY <2>1, <1>2 DEF Place
    <3>2. /\ module' = Place(callstack, module, ip, x)[1]
          /\ OwnerAt(prog, <<module', ip'>>) = OwnerAt(prog, Place(callstack, module, ip, x))
      BY <2>1
    <3>3. <<module', ip'>>[1] = module'
      OBVIOUS
    <3>4. callstack'[x] = callstack[x] /\ frames'[x] = frames[x]
      BY <1>2
    <3> QED
      BY <3>1, <3>2, <3>3, <3>4, Zenon DEF Stays
  <2>2. CASE x # k
    <3>1. x + 1 \in 1..k /\ x # n
      BY <2>2, <1>1
    <3>2. Place(callstack', module', ip', x) = Place(callstack, module, ip, x)
      BY <2>2, <3>1, <1>2 DEF Place
    <3> QED
      BY <3>2, <1>2 DEF Stays
  <2> QED
    BY <2>1, <2>2
<1> QED
  BY <1>1, <1>2, <1>3 DEF Unwound

(* Where the handler is found.                                             *)
LEMMA CaughtSomewhere ==
  ASSUME ProgramTypes(prog), module \in DOMAIN prog.code,
         callstack \in Seq(Addresses(prog)), Len(callstack) \in Nat,
         NEW tip, NEW exc, NEW d,
         raise_literal(tip, exc, d), exit_code' # 1
  PROVE  \E k \in 0..Len(callstack) : \E at : \E j \in DOMAIN prog.exc[at[1]] :
           /\ at = At(k, tip)
           /\ InRange(prog.exc[at[1]][j], at[2])
           /\ Caught(k, at, j, d)
<1> DEFINE n == Len(callstack)
           sp == Catchers(tip, exc)
<1>1. sp # {}
  BY DEF raise_literal, Unhandled
<1>2. Max(sp) \in sp /\ Max(sp) \in 0..n
  BY <1>1, MaxOfNaturals DEF Catchers
<1>3. PICK k : k = Max(sp)
  OBVIOUS
<1>4. PICK at : at = At(k, tip)
  OBVIOUS
<1>5. k \in 0..n /\ Entries(at[1], at[2], exc) # {}
  BY <1>2, <1>3, <1>4 DEF Catchers
<1>6. at[1] \in DOMAIN prog.code
  <2>1. CASE k = n
    BY <2>1, <1>4 DEF At
  <2>2. CASE k # n
    <3>1. k + 1 \in 1..n
      BY <2>2, <1>5
    <3>2. callstack[k + 1] \in Addresses(prog)
      BY <3>1, ElementOfSeq
    <3> QED
      BY <2>2, <3>2, <1>4 DEF At, Addresses
  <2> QED
    BY <2>1, <2>2
<1>7. PICK j : j = Min(Entries(at[1], at[2], exc))
  OBVIOUS
<1>8. j \in Entries(at[1], at[2], exc)
  <2>1. Entries(at[1], at[2], exc) \in SUBSET Nat
    BY <1>6, RangeType DEF Entries
  <2> QED
    BY <2>1, <1>5, <1>7, MinOfNaturals
<1>9. Caught(k, at, j, d)
  BY <1>1, <1>3, <1>4, <1>7 DEF raise_literal
<1>10. j \in DOMAIN prog.exc[at[1]] /\ InRange(prog.exc[at[1]][j], at[2])
  BY <1>8 DEF Entries
<1> QED
  BY <1>4, <1>5, <1>9, <1>10

(* An exception leaves the activations below the one that catches it.      *)
LEMMA RaiseUnwinds ==
  ASSUME TypeOK,
         Consistent(prog, callstack, frames, module, ip, depth), Len(callstack) > 0,
         NEW tip, NEW exc, NEW d, NEW w,
         Handled(prog, module, ip, tip, w),
         raise_literal(tip, exc, d), exit_code' # 1
  PROVE  Unwound /\ exit_code' = exit_code
<1> DEFINE n == Len(callstack)
<1>1. /\ ProgramTypes(prog) /\ module \in DOMAIN prog.code
      /\ callstack \in Seq(Addresses(prog)) /\ frames \in Seq(FrameType)
      /\ n \in Nat /\ n > 0 /\ Len(frames) = n
  BY ProgramsAssumption, LenProperties DEF TypeOK, Consistent
<1>2. \E k \in 0..n : \E at : \E j \in DOMAIN prog.exc[at[1]] :
        /\ at = At(k, tip)
        /\ InRange(prog.exc[at[1]][j], at[2])
        /\ Caught(k, at, j, d)
  BY <1>1, CaughtSomewhere
<1>3. PICK k \in 0..n : \E at : \E j \in DOMAIN prog.exc[at[1]] :
        /\ at = At(k, tip)
        /\ InRange(prog.exc[at[1]][j], at[2])
        /\ Caught(k, at, j, d)
  BY <1>2
<1>4. PICK at : \E j \in DOMAIN prog.exc[at[1]] :
        /\ at = At(k, tip)
        /\ InRange(prog.exc[at[1]][j], at[2])
        /\ Caught(k, at, j, d)
  BY <1>3
<1>5. PICK j \in DOMAIN prog.exc[at[1]] :
        /\ at = At(k, tip)
        /\ InRange(prog.exc[at[1]][j], at[2])
        /\ Caught(k, at, j, d)
  BY <1>4
<1>6. /\ module' = at[1] /\ ip' = prog.exc[at[1]][j].handler
      /\ frames' = PopFrames(n - k) /\ callstack' = SubSeq(callstack, 1, k)
      /\ exit_code' = exit_code
  BY <1>5, <1>1 DEF Caught
<1>7. frames' = SubSeq(frames, 1, k)
  <2>1. n - (n - k) = k
    BY <1>1
  <2> QED
    BY <2>1, <1>1, <1>6 DEF PopFrames
<1>8. ASSUME k # 0
      PROVE  /\ module' = Place(callstack, module, ip, k)[1]
             /\ OwnerAt(prog, <<module', ip'>>) = OwnerAt(prog, Place(callstack, module, ip, k))
  <2>1. CASE k = n
    <3>1. at = <<module, tip>> /\ Place(callstack, module, ip, k) = <<module, ip>>
      BY <2>1, <1>5 DEF At, Place
    <3>2. at[1] = module /\ at[2] = tip
      BY <3>1
    <3>3. prog.owner[module][ip'] = prog.owner[module][ip]
      BY <3>2, <1>5, <1>6 DEF Handled, FlowsTo
    <3> QED
      BY <3>1, <3>2, <3>3, <1>6 DEF OwnerAt
  <2>2. CASE k # n
    <3>1. k \in 1..(n - 1)
      BY <2>2, <1>1, <1>8
    <3>2. at = callstack[k + 1] /\ Place(callstack, module, ip, k) = callstack[k + 1]
      BY <2>2, <1>5 DEF At, Place
    <3>3. Handled(prog, at[1], at[2], at[2], frames[k + 1].opstack_depth - frames[k].opstack_depth)
      BY <3>1, <3>2, <1>1 DEF Consistent, Suspended
    <3>4. prog.owner[at[1]][ip'] = prog.owner[at[1]][at[2]]
      BY <3>3, <1>5, <1>6 DEF Handled, FlowsTo
    <3> QED
      BY <3>2, <3>4, <1>6 DEF OwnerAt
  <2> QED
    BY <2>1, <2>2
<1>9. Unwound
  BY <1>1, <1>6, <1>7, <1>8, Left
<1> QED
  BY <1>6, <1>9

LEMMA ThrownUnwinds ==
  ASSUME IInv, CodeIsWellFormed, Running, exit_code' = 0,
         NEW off, off = 0 \/ (off = 1 /\ RaisesAfter(Ins)),
         NEW gone \in Int, gone <= Consumed(Ins), NEW exc,
         raise_literal(ip + off, exc, depth - gone)
  PROVE  Unwound
<1> DEFINE tip == ip + off
           d == depth - gone
           w == d - frames[Len(frames)].opstack_depth
<1>1. /\ Consistent(prog, callstack, frames, module, ip, depth)
      /\ Len(callstack) > 0
  BY Current
<1>2. Handled(prog, module, ip, tip, w)
  BY Covered
<1>3. TypeOK /\ raise_literal(tip, exc, d) /\ exit_code' # 1
  BY DEF IInv
<1> HIDE DEF tip, d, w
<1> QED
  BY <1>1, <1>2, <1>3, RaiseUnwinds

LEMMA ReturnUnwinds ==
  ASSUME IInv, CodeIsWellFormed, exec_RET
  PROVE  Unwound
<1> DEFINE n == Len(callstack)
<1>1. /\ TypeOK /\ callstack \in Seq(Addresses(prog)) /\ Len(frames) = n /\ n \in Nat /\ n > 0
  BY Current DEF exec_RET, Fetch, IInv
<1>2. /\ callstack' = SubSeq(callstack, 1, n - 1) /\ frames' = SubSeq(frames, 1, n - 1)
      /\ module' = callstack[n][1] /\ ip' = callstack[n][2]
  BY <1>1 DEF exec_RET, Resume, Front, Last
<1>3. Place(callstack, module, ip, n - 1) = callstack[n]
  BY <1>1 DEF Place
<1>4. /\ module' = Place(callstack, module, ip, n - 1)[1]
      /\ OwnerAt(prog, <<module', ip'>>) = OwnerAt(prog, Place(callstack, module, ip, n - 1))
  BY <1>2, <1>3 DEF OwnerAt
<1>5. n - 1 \in 0..n
  BY <1>1
<1> QED
  BY <1>1, <1>2, <1>4, <1>5, Left

LEMMA StepShape ==
  ASSUME IInv, CodeIsWellFormed, [Next]_vars, exit_code' = 0
  PROVE  exit_code = 0 /\ (Unwound \/ Entered)
<1>1. Len(callstack) \in Nat /\ exit_code \in {0, 1}
  BY LenProperties DEF IInv, TypeOK
<1>2. ASSUME Running
      PROVE  exit_code = 0 /\ Consumed(Ins) \in Nat /\ InstrOK(prog, module, ip)
             /\ Ins \in Instruction /\ depth \in Int /\ ip \in Nat
  BY <1>2, Current, EffectTypes DEF Running
<1>3. CASE \/ exec_PUSH \/ exec_LOAD \/ exec_STORE \/ exec_ARITH \/ exec_COMPARE
           \/ exec_INDEX \/ exec_INDEXDW \/ exec_IN \/ exec_STACK
           \/ exec_CALLP \/ exec_CALLX \/ exec_EXCEPT
  <2>1. /\ Running
        /\ (Straight /\ Ins.op \notin NoFallThrough) \/ Raise(Throws(Ins))
    BY <1>3 DEF exec_PUSH, exec_LOAD, exec_STORE, exec_ARITH, exec_COMPARE, exec_INDEX,
                exec_INDEXDW, exec_IN, exec_STACK, exec_CALLP, exec_CALLX, exec_EXCEPT, Fetch,
                NoFallThrough, PushOps, LoadOps, StoreOps, ArithOps, CompareOps, IndexRefOps,
                IndexValueOps, InOps, StackOps
  <2>2. CASE Straight /\ Ins.op \notin NoFallThrough
    <3>1. \E e : FlowsTo(prog, module, ip, ip + 1, e)
      BY <2>1, <2>2, <1>2 DEF InstrOK, Ins, Code
    <3>2. ip' = ip + 1 /\ UNCHANGED <<module, callstack, frames>>
      BY <2>2 DEF Straight
    <3> QED
      BY <2>1, <3>1, <3>2, <1>1, <1>2, InPlace
  <2>3. CASE Raise(Throws(Ins))
    <3>1. PICK t \in Throws(Ins) : raise_literal(ip + t.off, t.exc, depth - t.gone)
      BY <2>3 DEF Raise
    <3>2. /\ t.gone \in Int /\ t.gone <= Consumed(Ins)
          /\ t.off = 0 \/ (t.off = 1 /\ RaisesAfter(Ins))
      BY <2>1, <1>2, ThrowsBounded
    <3> QED
      BY <2>1, <3>1, <3>2, <1>2, ThrownUnwinds
  <2> QED
    BY <2>1, <2>2, <2>3
<1>4. CASE exec_JUMP \/ exec_JF \/ exec_JUMPTBL
  <2>1. Running
    BY <1>4 DEF exec_JUMP, exec_JF, exec_JUMPTBL, Fetch
  <2>2. PICK j : Branch(j) /\ \E e : FlowsTo(prog, module, ip, j, e)
    <3>1. InstrOK(prog, module, ip)
      BY <2>1, <1>2
    <3>2. CASE exec_JUMP
      BY <3>1, <3>2 DEF exec_JUMP, Fetch, InstrOK, Ins, Code, BranchOps
    <3>3. CASE exec_JF
      BY <3>1, <3>3 DEF exec_JF, Fetch, InstrOK, Ins, Code, BranchOps, NoFallThrough
    <3>4. CASE exec_JUMPTBL
      BY <3>1, <3>4 DEF exec_JUMPTBL, Fetch, InstrOK, Ins, Code
    <3> QED
      BY <1>4, <3>2, <3>3, <3>4
  <2>3. ip' = j /\ UNCHANGED <<module, callstack, frames>>
    BY <2>2 DEF Branch
  <2> QED
    BY <2>1, <2>2, <2>3, <1>1, <1>2, InPlace
<1>5. CASE exec_CALLF \/ exec_CALLMF \/ exec_CALLI \/ exec_CALLV
  <2>1. Running /\ Ins.op \in CallOps
    BY <1>5 DEF exec_CALLF, exec_CALLMF, exec_CALLI, exec_CALLV, Fetch, CallOps
  <2>2. RaisesAfter(Ins)
    BY <2>1 DEF RaisesAfter
  <2>3. \/ raise_literal(ip + 1, PANIC, depth)
        \/ exec_CALLI /\ raise_literal(ip + 1, PANIC, depth - 1)
        \/ \E g \in Callees(prog, module, Ins) : \E d : invoke(g[1], g[2], d)
    <3>1. CASE exec_CALLF
      <4>1. <<module, Ins.fn>> \in Callees(prog, module, Ins)
        BY <3>1 DEF exec_CALLF, Fetch, Callees
      <4>2. StackOverflow \/ invoke(<<module, Ins.fn>>[1], <<module, Ins.fn>>[2], depth)
        BY <3>1 DEF exec_CALLF
      <4> QED
        BY <4>1, <4>2 DEF StackOverflow
    <3>2. CASE exec_CALLMF
      <4>1. <<Ins.mod, Ins.fn>> \in Callees(prog, module, Ins)
        BY <3>2 DEF exec_CALLMF, Fetch, Callees
      <4>2. StackOverflow \/ invoke(<<Ins.mod, Ins.fn>>[1], <<Ins.mod, Ins.fn>>[2], depth)
        BY <3>2 DEF exec_CALLMF
      <4> QED
        BY <4>1, <4>2 DEF StackOverflow
    <3>3. CASE exec_CALLI \/ exec_CALLV
      <4>1. Callees(prog, module, Ins) = Ins.impl
        BY <3>3 DEF exec_CALLI, exec_CALLV, Fetch, Callees
      <4>2. \/ StackOverflow
            \/ exec_CALLI /\ raise_literal(ip + 1, PANIC, depth - 1)
            \/ \E g \in Ins.impl : invoke(g[1], g[2], depth - 1)
        BY <3>3 DEF exec_CALLI, exec_CALLV
      <4> QED
        BY <4>1, <4>2 DEF StackOverflow
    <3> QED
      BY <1>5, <3>1, <3>2, <3>3
  <2>4. CASE raise_literal(ip + 1, PANIC, depth)
    <3>1. depth - 0 = depth
      BY <2>1, <1>2
    <3>2. raise_literal(ip + 1, PANIC, depth - 0)
      BY <3>1, <2>4
    <3> QED
      BY <2>1, <2>2, <3>2, <1>2, ThrownUnwinds
  <2>5. CASE exec_CALLI /\ raise_literal(ip + 1, PANIC, depth - 1)
    <3>1. Ins.op = "CALLI" /\ Ins.in \in Nat
      BY <2>1, <2>5, <1>2 DEF exec_CALLI, Fetch, Instruction
    <3>2. 1 <= Consumed(Ins)
      BY <3>1 DEF Consumed, PushOps, LoadOps, StoreOps, ArithOps, CompareOps, IndexRefOps,
                  IndexValueOps, InOps
    <3> QED
      BY <2>1, <2>2, <2>5, <3>2, <1>2, ThrownUnwinds
  <2>6. CASE \E g \in Callees(prog, module, Ins) : \E d : invoke(g[1], g[2], d)
    BY <2>1, <2>6, <1>2 DEF Entered
  <2> QED
    BY <2>3, <2>4, <2>5, <2>6
<1>6. CASE exec_RET
  <2>1. Running
    BY <1>6 DEF exec_RET, Fetch
  <2> QED
    BY <1>2, <1>6, <2>1, ReturnUnwinds
<1>7. CASE exec_MODN
  <2>1. Running /\ Ins.op = "MODN" /\ raise_literal(ip, PANIC, depth - 1)
    BY <1>7 DEF exec_MODN, Fetch
  <2>2. 1 <= Consumed(Ins)
    BY <2>1 DEF Consumed, PushOps, LoadOps, StoreOps, ArithOps
  <2>3. raise_literal(ip + 0, PANIC, depth - 1)
    BY <2>1, <1>2
  <2> QED
    BY <2>1, <2>2, <2>3, <1>2, ThrownUnwinds
<1>8. CASE RaiseAgain
  <2>1. UNCHANGED <<module, ip, depth, callstack, frames, exit_code>>
    BY <1>8, AgainStays
  <2> QED
    BY <2>1, <1>1, InPlace
<1>9. CASE CheckInterrupted
  <2>1. CASE ~interrupted
    <3>1. UNCHANGED <<module, ip, depth, callstack, frames, exit_code>>
      BY <1>9, <2>1 DEF CheckInterrupted
    <3> QED
      BY <3>1, <1>1, InPlace
  <2>2. CASE interrupted
    <3>1. raise_literal(ip, Interrupted, depth)
      BY <1>9, <2>2 DEF CheckInterrupted
    <3>2. Running
      BY <3>1, LateInterrupt
    <3>3. raise_literal(ip + 0, Interrupted, depth - 0)
      <4>1. ip + 0 = ip /\ depth - 0 = depth
        BY <3>2, <1>2
      <4> QED
        BY <3>1, <4>1
    <3> QED
      BY <3>2, <3>3, <1>2, ThrownUnwinds
  <2> QED
    BY <2>1, <2>2
<1>10. CASE interrupt \/ UNCHANGED vars
  <2>1. UNCHANGED <<module, ip, depth, callstack, frames, exit_code>>
    BY <1>10 DEF interrupt, vars
  <2> QED
    BY <2>1, <1>1, InPlace
<1> QED
  BY <1>3, <1>4, <1>5, <1>6, <1>7, <1>8, <1>9, <1>10 DEF Next, Step, Terminated

(* What a call adds, and that it leaves the others where they were.        *)
OnTop(g, l, f) ==
  /\ l[1] = g[1]
  /\ OwnerAt(prog, l) = g[2]
  /\ f.outer = StaticOuter(prog.funcs[g[1]][g[2]].nest)

LEMMA Entering ==
  ASSUME IInv, CodeIsWellFormed, Entered
  PROVE  /\ Len(callstack') = Len(callstack) + 1
         /\ \A x \in 1..Len(callstack) : Stays(x)
         /\ callstack'[Len(callstack) + 1] = <<module, ip + 1>>
         /\ \E g \in Callees(prog, module, Ins) :
              OnTop(g, Place(callstack', module', ip', Len(callstack) + 1), frames'[Len(callstack) + 1])
<1> DEFINE n == Len(callstack)
<1>1. /\ ProgramTypes(prog) /\ WellFormed(prog)
      /\ callstack \in Seq(Addresses(prog)) /\ frames \in Seq(FrameType)
      /\ n \in Nat /\ n > 0 /\ Len(frames) = n
      /\ module \in DOMAIN prog.code /\ ip \in Nat
      /\ Ins.op \in CallOps /\ InstrOK(prog, module, ip)
  BY Current DEF Entered
<1>2. PICK g \in Callees(prog, module, Ins) : \E d : invoke(g[1], g[2], d)
  BY DEF Entered
<1>3. PICK d : invoke(g[1], g[2], d)
  BY <1>2
<1> DEFINE fn == prog.funcs[g[1]][g[2]]
           base == d - fn.params
<1>4. PICK f : f = Frame(fn.nest, StaticOuter(fn.nest), base)
  OBVIOUS
<1>5. /\ callstack' = Append(callstack, <<module, ip + 1>>)
      /\ frames' = Append(frames, f)
      /\ module' = g[1] /\ ip' = fn.entry
  BY <1>3, <1>4 DEF invoke
<1>6. /\ Len(callstack') = n + 1 /\ callstack'[n + 1] = <<module, ip + 1>>
      /\ frames'[n + 1] = f
      /\ \A x \in 1..n : callstack'[x] = callstack[x] /\ frames'[x] = frames[x]
  <2>1. <<module, ip + 1>> \in Addresses(prog)
    BY <1>1 DEF Addresses
  <2> QED
    BY <2>1, <1>1, <1>5, AppendProperties
<1>7. prog.owner[module][ip + 1] = prog.owner[module][ip]
  BY <1>1 DEF InstrOK, FlowsTo, Ins, Code, CallOps, NoFallThrough
<1>8. ASSUME NEW x \in 1..n
      PROVE  Stays(x)
  <2>1. CASE x = n
    <3>1. Place(callstack', module', ip', x) = <<module, ip + 1>>
      BY <2>1, <1>1, <1>6 DEF Place
    <3>2. Place(callstack, module, ip, x) = <<module, ip>>
      BY <2>1 DEF Place
    <3> QED
      BY <3>1, <3>2, <1>6, <1>7 DEF Stays, OwnerAt
  <2>2. CASE x # n
    <3>1. x + 1 \in 1..n /\ x # n + 1
      BY <2>2, <1>1
    <3>2. Place(callstack', module', ip', x) = callstack'[x + 1]
      BY <3>1, <1>6 DEF Place
    <3>3. Place(callstack, module, ip, x) = callstack[x + 1]
      BY <2>2 DEF Place
    <3> QED
      BY <3>1, <3>2, <3>3, <1>6 DEF Stays
  <2> QED
    BY <2>1, <2>2
<1>9. /\ Place(callstack', module', ip', n + 1) = <<g[1], fn.entry>>
      /\ OwnerAt(prog, <<g[1], fn.entry>>) = g[2]
  <2>1. g[1] \in DOMAIN prog.code /\ g[2] \in DOMAIN prog.funcs[g[1]]
    BY <1>1 DEF InstrOK, Ins, Code
  <2>2. FunctionOK(prog, g[1], g[2])
    BY <2>1, <1>1 DEF WellFormed
  <2> QED
    BY <2>2, <1>5, <1>6 DEF Place, OwnerAt, FunctionOK
<1>10. OnTop(g, Place(callstack', module', ip', n + 1), frames'[n + 1])
  <2>1. f.outer = StaticOuter(fn.nest)
    BY <1>4 DEF Frame
  <2> QED
    BY <2>1, <1>6, <1>9 DEF OnTop
<1> QED
  BY <1>6, <1>8, <1>10, Zenon

-----------------------------------------------------------------------------
(* The static links.                                                       *)

(* What invoke's walk along the static chain of the caller comes to, if    *)
(* each frame of that chain is nested one level less than the one before.  *)
Descends(outer, top) ==
  \A j \in 1..(top - 1) : j \in DOMAIN outer /\ frames[outer[j]].nest = top - j

Continues(links, n, outer, out, nest) ==
  \A j \in 1..(nest - 1) :
    /\ j \in DOMAIN links
    /\ links[j] = IF out + j = 1 THEN n ELSE outer[out + j - 1]

LEMMA OuterFound ==
  ASSUME frames \in Seq(FrameType), NEW n \in Nat, Len(frames) = n, n > 0,
         NEW nest \in Nat, nest > 1, NEW top \in Nat, frames[n].nest = top,
         NEW out \in Nat, out = top - nest + 1,
         NEW outer \in Seq(Nat), outer = frames[n].outer,
         Descends(outer, top)
  PROVE  Continues(StaticOuter(nest), n, outer, out, nest)
<1> SUFFICES ASSUME NEW j \in 1..(nest - 1)
             PROVE  /\ j \in DOMAIN StaticOuter(nest)
                    /\ StaticOuter(nest)[j] = IF out + j = 1 THEN n ELSE outer[out + j - 1]
  BY Zenon DEF Continues
<1>13. \A x \in 1..(top - 1) : x \in DOMAIN outer /\ frames[outer[x]].nest = top - x
  BY Zenon DEF Descends
<1> DEFINE chain == <<n>> \o outer
           fits == {k \in DOMAIN chain : frames[chain[k]].nest < nest}
<1>1. PICK m \in Nat : Len(outer) = m /\ DOMAIN outer = 1..m
  BY LenProperties
<1>2. /\ chain \in Seq(Nat) /\ Len(chain) = m + 1 /\ DOMAIN chain = 1..(m + 1)
      /\ chain[1] = n
      /\ \A x \in 1..m : chain[x + 1] = outer[x]
  <2>1. <<n>> \in Seq(Nat) /\ Len(<<n>>) = 1 /\ <<n>>[1] = n
    OBVIOUS
  <2>2. chain \in Seq(Nat) /\ Len(chain) = 1 + m
    BY <2>1, <1>1, ConcatProperties
  <2>3. \A x \in 1..(1 + m) : chain[x] = IF x <= 1 THEN <<n>>[x] ELSE outer[x - 1]
    BY <2>1, <1>1, ConcatProperties
  <2>4. \A x \in 1..m : x + 1 \in 1..(1 + m) /\ ~(x + 1 <= 1) /\ (x + 1) - 1 = x
    OBVIOUS
  <2>5. 1 \in 1..(1 + m) /\ 1 + m = m + 1
    OBVIOUS
  <2> HIDE DEF chain
  <2> QED
    BY <2>1, <2>2, <2>3, <2>4, <2>5, LenProperties
<1>3. /\ top >= 1 /\ out + 1 \in 1..top /\ top <= m + 1
      /\ out + nest = top + 1
  <2>1. top >= 1 /\ out + 1 \in 1..top /\ out + nest = top + 1
    OBVIOUS
  <2>2. top - 1 > 0 => top - 1 \in 1..m
    <3>1. top - 1 > 0 => top - 1 \in 1..(top - 1)
      BY <2>1
    <3> QED
      BY <3>1, <1>1, <1>13
  <2> QED
    BY <2>1, <2>2
<1>4. ASSUME NEW x \in 1..top
      PROVE  frames[chain[x]].nest = top - x + 1
  <2>1. CASE x = 1
    <3>1. chain[x] = n
      BY <2>1, <1>2
    <3> HIDE DEF chain
    <3> QED
      BY <2>1, <3>1
  <2>2. CASE x # 1
    <3>1. x - 1 \in 1..(top - 1) /\ x - 1 \in 1..m /\ (x - 1) + 1 = x
      BY <2>2, <1>3
    <3>2. chain[x] = outer[x - 1]
      BY <3>1, <1>2
    <3>3. frames[outer[x - 1]].nest = top - (x - 1)
      BY <3>1, <1>13
    <3> HIDE DEF chain
    <3> QED
      BY <3>2, <3>3
  <2> QED
    BY <2>1, <2>2
<1> HIDE DEF chain
<1>5. out + 1 \in fits
  <2>1. out + 1 \in DOMAIN chain
    BY <1>2, <1>3
  <2>2. frames[chain[out + 1]].nest = nest - 1
    <3>1. out + 1 \in 1..top /\ top - (out + 1) + 1 = nest - 1
      BY <1>3
    <3>2. frames[chain[out + 1]].nest = top - (out + 1) + 1
      BY <3>1, <1>4
    <3> QED
      BY <3>1, <3>2
  <2> QED
    BY <2>1, <2>2
<1>6. \A x \in fits : out + 1 <= x
  <2> SUFFICES ASSUME NEW x \in fits, ~(out + 1 <= x) PROVE FALSE
    OBVIOUS
  <2>1. x \in 1..(m + 1)
    BY <1>2
  <2>2. x <= out /\ out <= top /\ x \in 1..top
    BY <2>1, <1>3
  <2>3. frames[chain[x]].nest = top - x + 1
    BY <2>2, <1>4
  <2>4. top - x + 1 < nest
    BY <2>3
  <2> QED
    BY <2>2, <2>4, <1>3
<1>7. Min(fits) = out + 1
  <2>1. fits \in SUBSET Nat
    BY <1>2
  <2> HIDE DEF fits
  <2>2. Min(fits) \in fits /\ Min(fits) <= out + 1
    BY <2>1, <1>5, MinOfNaturals
  <2>3. Min(fits) \in Nat /\ out + 1 <= Min(fits)
    BY <2>1, <2>2, <1>6
  <2> QED
    BY <2>2, <2>3
<1>8. StaticOuter(nest) = SubSeq(chain, out + 1, m + 1)
  <2>1. frames # <<>>
    BY EmptySeq
  <2>2. chain = <<Len(frames)>> \o Last(frames).outer
    BY DEF chain, Last
  <2>3. fits # {}
    BY <1>5
  <2>4. StaticOuter(nest) = IF fits = {} THEN <<>> ELSE SubSeq(chain, Min(fits), Len(chain))
    BY <2>1, <2>2, Zenon DEF StaticOuter
  <2> HIDE DEF fits
  <2> QED
    BY <2>3, <2>4, <1>2, <1>7
<1>9. /\ Len(SubSeq(chain, out + 1, m + 1)) = (m + 1) - (out + 1) + 1
      /\ \A x \in 1..((m + 1) - (out + 1) + 1) :
           SubSeq(chain, out + 1, m + 1)[x] = chain[out + 1 + x - 1]
      /\ SubSeq(chain, out + 1, m + 1) \in Seq(Nat)
  <2>1. \A x \in (out + 1)..(m + 1) : x \in 1..Len(chain)
    BY <1>2
  <2>2. \A x \in (out + 1)..(m + 1) : chain[x] \in Nat
    BY <2>1, <1>2, ElementOfSeq
  <2>3. out + 1 \in Int /\ m + 1 \in Int /\ out + 1 <= m + 1
    BY <1>3
  <2> QED
    BY <2>2, <2>3, <1>2, SubSeqProperties
<1>10. j \in 1..((m + 1) - (out + 1) + 1) /\ out + j \in 1..top /\ out + 1 + j - 1 = out + j
  BY <1>3
<1>11. StaticOuter(nest)[j] = chain[out + j] /\ j \in DOMAIN StaticOuter(nest)
  BY <1>8, <1>9, <1>10, LenProperties
<1>12. chain[out + j] = IF out + j = 1 THEN n ELSE outer[out + j - 1]
  <2>1. out + j # 1 => (out + j - 1) \in 1..m /\ (out + j - 1) + 1 = out + j
    BY <1>3, <1>10
  <2> QED
    BY <2>1, <1>2
<1> QED
  BY <1>11, <1>12

(* The links of an activation hold as long as it and those below it stay.  *)
LEMMA LinksStay ==
  ASSUME prog' = prog, NEW k \in Nat, \A x \in 1..k : Stays(x), k > 0,
         Links(prog, callstack, frames, module, ip, k)
  PROVE  Links(prog, callstack', frames', module', ip', k)
<1>1. \A x \in 1..k : /\ Place(callstack', module', ip', x)[1] = Place(callstack, module, ip, x)[1]
                      /\ OwnerAt(prog, Place(callstack', module', ip', x))
                           = OwnerAt(prog, Place(callstack, module, ip, x))
                      /\ frames'[x] = frames[x]
  BY DEF Stays
<1>2. \A x \in 1..k : FunctionOf(prog, Place(callstack', module', ip', x))
                        = FunctionOf(prog, Place(callstack, module, ip, x))
  BY <1>1 DEF FunctionOf, OwnerAt
<1>3. k \in 1..k /\ \A x \in 1..(k - 1) : x \in 1..k
  OBVIOUS
<1>4. frames'[k] = frames[k]
  BY <1>1, <1>3
<1>5. /\ FunctionOf(prog, Place(callstack', module', ip', k))
           = FunctionOf(prog, Place(callstack, module, ip, k))
      /\ Place(callstack', module', ip', k)[1] = Place(callstack, module, ip, k)[1]
  BY <1>1, <1>2, <1>3
<1> QED
  BY <1>1, <1>3, <1>4, <1>5 DEF Links

-----------------------------------------------------------------------------
(* The initial state.                                                      *)

(* A module's top-level code can be suspended before its first instruction. *)
LEMMA EntryOK ==
  ASSUME NEW p, ProgramTypes(p), WellFormed(p), NEW m \in DOMAIN p.code
  PROVE  LET a == p.funcs[m][1].entry
         IN  /\ a \in Live(p, m) /\ a \in Nat
             /\ p.depth[m][a] = 0
             /\ FunctionOf(p, <<m, a>>) = p.funcs[m][1]
             /\ p.funcs[m][1].nest = 0 /\ p.funcs[m][1].results = 0
             /\ Suspended(p, <<m, a>>, 0, 0, 0)
<1> DEFINE a == p.funcs[m][1].entry
<1>1. BodyOK(p, m) /\ FunctionOK(p, m, 1)
  BY DEF WellFormed, BodyOK
<1>2. /\ a \in Live(p, m) /\ p.depth[m][a] = 0 /\ p.owner[m][a] = 1
      /\ p.funcs[m][1].nest = 0 /\ p.funcs[m][1].results = 0
  BY <1>1 DEF BodyOK, FunctionOK
<1>3. a \in Nat /\ p.code[m][a] \in Instruction
  BY <1>2, LiveTypes
<1>4. FunctionOf(p, <<m, a>>) = p.funcs[m][1]
  BY <1>2 DEF FunctionOf
<1>5. Handled(p, m, a, a, 0)
  <2> SUFFICES ASSUME NEW j \in DOMAIN p.exc[m], InRange(p.exc[m][j], a)
               PROVE  /\ 0 <= p.exc[m][j].depth
                      /\ p.exc[m][j].depth <= 0
                      /\ FlowsTo(p, m, a, p.exc[m][j].handler, p.exc[m][j].depth + 1)
    BY DEF Handled
  <2> DEFINE taken == Consumed(p.code[m][a])
             kept == p.exc[m][j].depth
  <2>1. 0 <= kept /\ kept <= 0 - taken /\ FlowsTo(p, m, a, p.exc[m][j].handler, kept + 1)
    BY <1>2, LiveOK DEF CoverOK
  <2>2. taken \in Nat /\ kept \in Int
    BY <1>3, EffectTypes, RangeType
  <2> HIDE DEF taken, kept
  <2>3. 0 <= kept /\ kept <= 0
    BY <2>1, <2>2
  <2> QED
    BY <2>1, <2>3 DEF kept
<1>6. Suspended(p, <<m, a>>, 0, 0, 0)
  <2>1. DepthAt(p, <<m, a>>) = 0 /\ 0 - 0 = 0 /\ 0 + 0 = 0
    BY <1>2 DEF DepthAt
  <2> QED
    BY <2>1, <1>2, <1>5 DEF Suspended
<1> QED
  BY <1>2, <1>3, <1>4, <1>6

LEMMA StartedType ==
  ASSUME ProgramTypes(prog)
  PROVE  /\ Started \in Seq(DOMAIN prog.code)
         /\ Len(Started) \in Nat /\ Len(Started) >= 1
         /\ Started[1] = prog.main
<1>1. prog.main \in DOMAIN prog.code /\ prog.init \in Seq(DOMAIN prog.code)
  BY DEF ProgramTypes
<1>2. Len(prog.init) \in Nat
  BY <1>1, LenProperties
<1>3. Reverse(prog.init) \in Seq(DOMAIN prog.code)
  <2>1. \A i \in 1..Len(prog.init) : (Len(prog.init) - i) + 1 \in 1..Len(prog.init)
    BY <1>2
  <2>2. \A i \in 1..Len(prog.init) : prog.init[(Len(prog.init) - i) + 1] \in DOMAIN prog.code
    BY <2>1, <1>1, ElementOfSeq
  <2> QED
    BY <2>2, <1>2, IsASeq DEF Reverse
<1>4. <<prog.main>> \in Seq(DOMAIN prog.code) /\ Len(<<prog.main>>) = 1 /\ <<prog.main>>[1] = prog.main
  <2> DEFINE x == prog.main
             S == DOMAIN prog.code
  <2>1. x \in S
    BY <1>1
  <2> HIDE DEF x, S
  <2>2. <<x>> \in Seq(S) /\ Len(<<x>>) = 1 /\ <<x>>[1] = x
    BY <2>1
  <2> QED
    BY <2>2 DEF x, S
<1>5. Len(Reverse(prog.init)) \in Nat
  BY <1>3, LenProperties
<1>6. /\ Started \in Seq(DOMAIN prog.code)
      /\ Len(Started) = 1 + Len(Reverse(prog.init))
  <2> DEFINE s1 == <<prog.main>>
             s2 == Reverse(prog.init)
             S == DOMAIN prog.code
  <2>1. s1 \in Seq(S) /\ s2 \in Seq(S) /\ Len(s1) = 1
    BY <1>3, <1>4
  <2> HIDE DEF s1, s2, S
  <2>2. s1 \o s2 \in Seq(S) /\ Len(s1 \o s2) = Len(s1) + Len(s2)
    BY <2>1, ConcatProperties
  <2> QED
    BY <2>1, <2>2 DEF Started, s1, s2, S
<1>7. Started[1] = prog.main
  <2> DEFINE s1 == <<prog.main>>
             s2 == Reverse(prog.init)
  <2>1. s1 \in Seq(DOMAIN prog.code) /\ s2 \in Seq(DOMAIN prog.code)
    BY <1>3, <1>4
  <2>2. Len(s1) = 1 /\ s1[1] = prog.main /\ 1 \in 1..(Len(s1) + Len(s2))
    BY <1>4, <1>5
  <2> HIDE DEF s1, s2
  <2>3. (s1 \o s2)[1] = IF 1 <= Len(s1) THEN s1[1] ELSE s2[1 - Len(s1)]
    BY <2>1, <2>2, ConcatProperties
  <2> QED
    BY <2>2, <2>3 DEF Started, s1, s2
<1> QED
  BY <1>5, <1>6, <1>7

LEMMA InitKeeps ==
  ASSUME Init, CodeIsWellFormed
  PROVE  IInv /\ Len(callstack) = Len(Started)
<1> DEFINE n == Len(Started)
           a(k) == prog.funcs[Started[k]][1].entry
<1>1. ProgramTypes(prog) /\ WellFormed(prog) /\ prog \in Programs
  BY ProgramsAssumption DEF Init, CodeIsWellFormed
<1>2. Started \in Seq(DOMAIN prog.code) /\ n \in Nat /\ n >= 1 /\ Started[1] = prog.main
  BY <1>1, StartedType
<1>3. \A k \in 1..n : Started[k] \in DOMAIN prog.code
  BY <1>2, ElementOfSeq
<1>4. \A k \in 1..n :
        /\ a(k) \in Live(prog, Started[k]) /\ a(k) \in Nat
        /\ prog.depth[Started[k]][a(k)] = 0
        /\ FunctionOf(prog, <<Started[k], a(k)>>) = prog.funcs[Started[k]][1]
        /\ prog.funcs[Started[k]][1].nest = 0 /\ prog.funcs[Started[k]][1].results = 0
        /\ Suspended(prog, <<Started[k], a(k)>>, 0, 0, 0)
  BY <1>1, <1>3, EntryOK
<1>5. /\ module = Started[n] /\ ip = a(n) /\ depth = 0 /\ exit_code = 0
      /\ interrupted = FALSE /\ interrupts = 0 /\ pc = "fetch" /\ start_ip = 0
      /\ callstack = [k \in 1..n |-> IF k = 1 THEN <<prog.main, EndOf(prog, prog.main)>>
                                     ELSE <<Started[k - 1], a(k - 1)>>]
      /\ frames = [k \in 1..n |-> Frame(prog.funcs[Started[k]][1].nest, <<>>, 0)]
  BY DEF Init, Last, Entry
<1>6. EndOf(prog, prog.main) \in Nat /\ prog.main \in DOMAIN prog.code
  BY <1>1, LenProperties DEF ProgramTypes, EndOf
<1> HIDE DEF n, a
<1>7. \A k \in 1..n : /\ callstack[k] \in Addresses(prog)
                      /\ frames[k] \in FrameType
                      /\ frames[k].nest = 0 /\ frames[k].opstack_depth = 0
  <2> SUFFICES ASSUME NEW k \in 1..n
               PROVE  /\ callstack[k] \in Addresses(prog)
                      /\ frames[k] \in FrameType
                      /\ frames[k].nest = 0 /\ frames[k].opstack_depth = 0
    OBVIOUS
  <2>1. CASE k = 1
    <3>1. callstack[k] = <<prog.main, EndOf(prog, prog.main)>>
      BY <2>1, <1>5
    <3>2. frames[k] = Frame(0, <<>>, 0)
      BY <1>4, <1>5
    <3> QED
      BY <3>1, <3>2, <1>6 DEF Addresses, Frame, FrameType
  <2>2. CASE k # 1
    <3>1. k - 1 \in 1..n
      BY <2>2, <1>2
    <3>2. callstack[k] = <<Started[k - 1], a(k - 1)>>
      BY <2>2, <1>5
    <3> DEFINE mm == Started[k - 1]
               aa == a(k - 1)
    <3>3. mm \in DOMAIN prog.code /\ aa \in Nat
      BY <3>1, <1>3, <1>4
    <3>4. callstack[k] = <<mm, aa>>
      BY <3>2
    <3>5. frames[k] = Frame(0, <<>>, 0)
      BY <1>4, <1>5
    <3>6. <<>> \in Seq(Nat)
      OBVIOUS
    <3> HIDE DEF mm, aa
    <3> QED
      BY <3>3, <3>4, <3>5, <3>6 DEF Addresses, Frame, FrameType
  <2>3. frames[k] = Frame(0, <<>>, 0)
    BY <1>4, <1>5
  <2>4. <<>> \in Seq(Nat)
    OBVIOUS
  <2> QED
    BY <2>1, <2>2, <2>3, <2>4 DEF Frame, FrameType
<1>8. /\ callstack \in Seq(Addresses(prog)) /\ frames \in Seq(FrameType)
      /\ Len(callstack) = n /\ Len(frames) = n
  <2>1. DOMAIN callstack = 1..n /\ DOMAIN frames = 1..n
    BY <1>5
  <2>2. callstack = [k \in 1..n |-> callstack[k]] /\ frames = [k \in 1..n |-> frames[k]]
    BY <1>5
  <2>3. callstack \in Seq(Addresses(prog)) /\ frames \in Seq(FrameType)
    <3> DEFINE cs(k) == callstack[k]
               fr(k) == frames[k]
    <3>1. /\ \A k \in 1..n : cs(k) \in Addresses(prog)
          /\ \A k \in 1..n : fr(k) \in FrameType
      BY <1>7
    <3> HIDE DEF cs, fr
    <3>2. [k \in 1..n |-> cs(k)] \in Seq(Addresses(prog))
      BY <3>1, <1>2, IsASeq
    <3>3. [k \in 1..n |-> fr(k)] \in Seq(FrameType)
      BY <3>1, <1>2, IsASeq
    <3> QED
      BY <2>2, <3>2, <3>3 DEF cs, fr
  <2> QED
    BY <2>1, <2>3, <1>2, LenProperties
<1>9. \A k \in 1..n : Place(callstack, module, ip, k) = <<Started[k], a(k)>>
  <2> SUFFICES ASSUME NEW k \in 1..n
               PROVE  Place(callstack, module, ip, k) = <<Started[k], a(k)>>
    OBVIOUS
  <2>1. CASE k = n
    BY <2>1, <1>5, <1>8 DEF Place
  <2>2. CASE k # n
    <3>1. k + 1 \in 1..n /\ k + 1 # 1 /\ (k + 1) - 1 = k
      BY <2>2, <1>2
    <3> QED
      BY <2>2, <3>1, <1>5, <1>8 DEF Place
  <2> QED
    BY <2>1, <2>2
<1>10. n \in 1..n /\ 1 \in 1..n
  BY <1>2
<1>11. Active(prog, callstack, frames, module, ip, depth)
  <2>1. callstack[1] = <<prog.main, EndOf(prog, prog.main)>> /\ frames[1].opstack_depth = 0
    BY <1>5, <1>7, <1>10
  <2>2. FunctionOf(prog, Place(callstack, module, ip, 1)).results = 0
    BY <1>4, <1>9, <1>10
  <2>3. ip \in Live(prog, module) /\ depth = frames[Len(frames)].opstack_depth + prog.depth[module][ip]
    <3>1. a(n) \in Live(prog, Started[n]) /\ prog.depth[Started[n]][a(n)] = 0
      BY <1>4, <1>10
    <3>2. frames[Len(frames)].opstack_depth = 0
      BY <1>7, <1>8, <1>10
    <3> QED
      BY <3>1, <3>2, <1>5
  <2> QED
    BY <2>1, <2>2, <2>3 DEF Active
<1>12. \A k \in 1..Len(callstack) :
         frames[k].nest = FunctionOf(prog, Place(callstack, module, ip, k)).nest
  BY <1>4, <1>7, <1>8, <1>9
<1>13. \A k \in 1..(Len(callstack) - 1) :
         Suspended(prog, callstack[k + 1], frames[k].opstack_depth, frames[k + 1].opstack_depth,
                   FunctionOf(prog, Place(callstack, module, ip, k + 1)).results)
  <2> SUFFICES ASSUME NEW k \in 1..(n - 1)
               PROVE  Suspended(prog, callstack[k + 1], frames[k].opstack_depth,
                                frames[k + 1].opstack_depth,
                                FunctionOf(prog, Place(callstack, module, ip, k + 1)).results)
    BY <1>8
  <2>1. k \in 1..n /\ k + 1 \in 1..n /\ k + 1 # 1 /\ (k + 1) - 1 = k
    BY <1>2
  <2>2. callstack[k + 1] = <<Started[k], a(k)>>
    BY <2>1, <1>5
  <2>3. FunctionOf(prog, Place(callstack, module, ip, k + 1)).results = 0
    BY <2>1, <1>4, <1>9
  <2>4. frames[k].opstack_depth = 0 /\ frames[k + 1].opstack_depth = 0
    BY <2>1, <1>7
  <2> QED
    BY <2>1, <2>2, <2>3, <2>4, <1>4
<1>14. \A j, k \in 1..Len(callstack) : j <= k => frames[j].opstack_depth <= frames[k].opstack_depth
  BY <1>7, <1>8
<1>15. Consistent(prog, callstack, frames, module, ip, depth)
  BY <1>2, <1>8, <1>11, <1>12, <1>13, <1>14 DEF Consistent
<1>16. TypeOK
  <2>1. Started[n] \in DOMAIN prog.code /\ a(n) \in Nat
    BY <1>3, <1>4, <1>10
  <2>2. module \in DOMAIN prog.code /\ ip \in Nat
    BY <2>1, <1>5
  <2>3. /\ depth \in Int /\ exit_code \in {0, 1}
        /\ pc \in {"fetch", "again", "check"} /\ start_ip \in Nat
    BY <1>5
  <2>4. interrupted \in BOOLEAN
    BY <1>5, Zenon
  <2>5. interrupts \in 0..MaxInterrupts
    <3>1. interrupts = 0
      BY <1>5
    <3> QED
      BY <3>1, MaxInterruptsAssumption
  <2> QED
    BY <2>2, <2>3, <2>4, <2>5, <1>1, <1>8 DEF TypeOK
<1> QED
  BY <1>5, <1>8, <1>15, <1>16 DEF IInv, n

-----------------------------------------------------------------------------
(* Every step keeps the static links.                                      *)
LEMMA LinkedKept ==
  ASSUME IInv, CodeIsWellFormed, CallsAreLexical, Linked, [Next]_vars
  PROVE  Linked'
<1> SUFFICES ASSUME exit_code' = 0
             PROVE  \A k \in 1..Len(callstack') :
                      Links(prog, callstack', frames', module', ip', k)
  <2>1. prog' = prog
    BY StepKeeps DEF Kept
  <2> QED
    BY <2>1 DEF Linked
<1>1. prog' = prog /\ exit_code = 0 /\ (Unwound \/ Entered)
  BY StepKeeps, StepShape DEF Kept
<1>2. PICK n \in Nat : Len(callstack) = n
  BY LenProperties DEF IInv, TypeOK
<1>3. \A k \in 1..n : Links(prog, callstack, frames, module, ip, k)
  BY <1>1, <1>2 DEF Linked
<1>4. CASE Unwound
  <2>1. IInv'
    BY StepKeeps
  <2>2. PICK m \in Nat : Len(callstack') = m
    BY <2>1, LenProperties DEF IInv, TypeOK
  <2>3. m <= n /\ \A x \in 1..m : Stays(x)
    BY <1>2, <1>4, <2>2 DEF Unwound
  <2>4. ASSUME NEW k \in 1..m
        PROVE  Links(prog, callstack', frames', module', ip', k)
    <3>1. k \in 1..n /\ k \in Nat /\ k > 0 /\ \A x \in 1..k : Stays(x)
      BY <2>3
    <3> QED
      BY <3>1, <1>1, <1>3, LinksStay
  <2> QED
    BY <2>2, <2>4
<1>5. CASE Entered
  <2>1. /\ Len(callstack') = n + 1
        /\ \A x \in 1..n : Stays(x)
    BY <1>2, <1>5, Entering
  <2>2. PICK g \in Callees(prog, module, Ins) :
          OnTop(g, Place(callstack', module', ip', n + 1), frames'[n + 1])
    BY <1>2, <1>5, Entering
  <2>3. ASSUME NEW k \in 1..n
        PROVE  Links(prog, callstack', frames', module', ip', k)
    <3>1. k \in Nat /\ k > 0 /\ \A x \in 1..k : Stays(x)
      BY <2>1
    <3> QED
      BY <3>1, <1>1, <1>3, LinksStay
  <2>4. Links(prog, callstack', frames', module', ip', n + 1)
    <3> DEFINE h == prog.owner[module][ip]
               fn == prog.funcs[g[1]][g[2]]
    <3>1. /\ ProgramTypes(prog) /\ WellFormed(prog)
          /\ module \in DOMAIN prog.code /\ ip \in Live(prog, module)
          /\ frames \in Seq(FrameType) /\ n > 0 /\ Len(frames) = n
          /\ Consistent(prog, callstack, frames, module, ip, depth)
          /\ InstrOK(prog, module, ip)
      BY <1>2, <1>5, Current DEF Entered
    <3>2. LexicallyScoped(prog)
      BY DEF IInv, TypeOK, CallsAreLexical
    <3>3. /\ g[1] \in DOMAIN prog.code /\ g[2] \in DOMAIN prog.funcs[g[1]]
      BY <3>1 DEF InstrOK, Ins, Code
    <3>4. fn \in FunctionInfo /\ fn.nest \in Nat
      <4>1. prog.funcs[g[1]] \in Seq(FunctionInfo)
        BY <3>1, <3>3 DEF ProgramTypes
      <4>2. fn \in FunctionInfo
        BY <4>1, <3>3, LenProperties, ElementOfSeq
      <4> QED
        BY <4>2 DEF FunctionInfo
    <3>5. /\ h \in DOMAIN prog.funcs[module]
          /\ prog.funcs[module][h] \in FunctionInfo
      BY <3>1, LiveTypes
    <3>15. PICK hf : hf = prog.funcs[module][h]
      OBVIOUS
    <3>6. PICK top \in Nat : hf.nest = top
      BY <3>5, <3>15 DEF FunctionInfo
    <3>7. PICK there : there = Place(callstack', module', ip', n + 1)
      OBVIOUS
    <3>8. there[1] = g[1] /\ FunctionOf(prog, there) = fn
      BY <2>2, <3>7 DEF OnTop, OwnerAt, FunctionOf
    <3>9. PICK nest \in Nat : fn.nest = nest
      BY <3>4
    <3>10. PICK links : links = frames'[n + 1].outer
      OBVIOUS
    <3>11. links = StaticOuter(nest)
      BY <2>2, <3>9, <3>10 DEF OnTop
    <3>12. ASSUME nest > 1, NEW j \in 1..(nest - 1)
           PROVE  /\ j \in DOMAIN links
                  /\ links[j] \in 1..n
                  /\ Place(callstack', module', ip', links[j])[1] = g[1]
                  /\ OwnerAt(prog, Place(callstack', module', ip', links[j])) = fn.chain[j]
      <4> DEFINE o == top - nest + 1
      <4>1. /\ g[1] = module /\ o >= 0
            /\ \A k \in 1..(nest - 1) : fn.chain[k] = Around(prog, module, h)[o + k]
        <5>1. InScope(prog, module, h, g)
          BY <3>1, <3>2 DEF LexicallyScoped, Ins, Code
        <5> QED
          BY <5>1, <3>6, <3>9, <3>12, <3>15 DEF InScope
      <4>2. PICK out \in Nat : out = o
        BY <4>1
      <4>3. n \in 1..n /\ frames[n] \in FrameType
        BY <3>1, ElementOfSeq
      <4>4. PICK outer \in Seq(Nat) : outer = frames[n].outer
        BY <4>3 DEF FrameType
      <4>5. PICK here : here = Place(callstack, module, ip, n)
        OBVIOUS
      <4>6. here[1] = module /\ FunctionOf(prog, here) = hf /\ OwnerAt(prog, here) = h
        <5>1. here = <<module, ip>>
          BY <4>5, <1>2 DEF Place
        <5> QED
          BY <5>1, <3>15 DEF FunctionOf, OwnerAt
      <4>7. frames[n].nest = top
        <5>1. frames[n].nest = FunctionOf(prog, here).nest
          BY <3>1, <4>3, <4>5, <1>2 DEF Consistent
        <5> QED
          BY <5>1, <3>6, <4>6
      <4>8. \A x \in 1..(top - 1) :
              /\ x \in DOMAIN outer
              /\ outer[x] \in 1..(n - 1)
              /\ Place(callstack, module, ip, outer[x])[1] = module
              /\ OwnerAt(prog, Place(callstack, module, ip, outer[x])) = hf.chain[x]
        <5>1. Links(prog, callstack, frames, module, ip, n)
          BY <1>3, <4>3
        <5>2. \A x \in 1..(FunctionOf(prog, here).nest - 1) :
                /\ x \in DOMAIN outer
                /\ outer[x] \in 1..(n - 1)
                /\ Place(callstack, module, ip, outer[x])[1] = here[1]
                /\ OwnerAt(prog, Place(callstack, module, ip, outer[x]))
                     = FunctionOf(prog, here).chain[x]
          BY <5>1, <4>4, <4>5, Zenon DEF Links
        <5> QED
          BY <5>2, <3>6, <4>6
      <4>9. \A x \in 1..(top - 1) : prog.funcs[module][hf.chain[x]].nest = top - x
        <5>1. ChainOK(prog, module, h)
          BY <3>1, <3>2, <3>5 DEF LexicallyScoped
        <5>2. \A x \in 1..(hf.nest - 1) : prog.funcs[module][hf.chain[x]].nest = hf.nest - x
          BY <5>1, <3>15, Zenon DEF ChainOK
        <5> QED
          BY <5>2, <3>6
      <4>10. ASSUME NEW x \in 1..(top - 1)
             PROVE  frames[outer[x]].nest = top - x
        <5>1. outer[x] \in 1..n
          BY <4>8
        <5>2. PICK l : l = Place(callstack, module, ip, outer[x])
          OBVIOUS
        <5>3. l[1] = module /\ prog.owner[module][l[2]] = hf.chain[x]
          BY <4>8, <5>2 DEF OwnerAt
        <5>4. prog.funcs[module][hf.chain[x]].nest = top - x
          BY <4>9
        <5>5. FunctionOf(prog, l).nest = top - x
          BY <5>3, <5>4 DEF FunctionOf
        <5>6. frames[outer[x]].nest = FunctionOf(prog, l).nest
          BY <5>1, <5>2, <3>1, <1>2 DEF Consistent
        <5> QED
          BY <5>5, <5>6
      <4>11. /\ j \in DOMAIN StaticOuter(nest)
             /\ StaticOuter(nest)[j] = IF out + j = 1 THEN n ELSE outer[out + j - 1]
        <5>1. Descends(outer, top)
          BY <4>8, <4>10 DEF Descends
        <5> HIDE DEF o
        <5>2. frames \in Seq(FrameType) /\ Len(frames) = n /\ n > 0
          BY <3>1
        <5>3. nest > 1 /\ j \in 1..(nest - 1) /\ out = top - nest + 1
          BY <3>12, <4>2 DEF o
        <5>4. Continues(StaticOuter(nest), n, outer, out, nest)
          BY <5>1, <5>2, <5>3, <4>4, <4>7, OuterFound
        <5> QED
          BY <5>3, <5>4, Zenon DEF Continues
      <4>12. out + j \in 1..top
        BY <3>12, <4>2
      <4>13. fn.chain[j] = IF out + j = 1 THEN h ELSE hf.chain[out + j - 1]
        <5>1. fn.chain[j] = Around(prog, module, h)[out + j]
          BY <4>1, <4>2
        <5>2. Around(prog, module, h) = [k \in 1..hf.nest |-> IF k = 1 THEN h ELSE hf.chain[k - 1]]
          BY <3>15, Zenon DEF Around
        <5> HIDE DEF h, fn
        <5> QED
          BY <5>1, <5>2, <4>12, <3>6
      <4>14. CASE out + j = 1
        <5>1. links[j] = n /\ fn.chain[j] = h
          BY <4>11, <4>13, <4>14, <3>11
        <5>2. Stays(n)
          BY <2>1, <4>3
        <5>3. /\ Place(callstack', module', ip', n)[1] = module
              /\ OwnerAt(prog, Place(callstack', module', ip', n)) = h
          BY <5>2, <4>5, <4>6 DEF Stays
        <5> QED
          BY <5>1, <5>3, <4>1, <4>3, <4>11, <3>11
      <4>15. CASE out + j # 1
        <5>1. PICK x : x = out + j - 1
          OBVIOUS
        <5>2. x \in 1..(top - 1)
          BY <5>1, <4>12, <4>15
        <5>3. links[j] = outer[x] /\ fn.chain[j] = hf.chain[x]
          BY <5>1, <4>11, <4>13, <4>15, <3>11
        <5>4. outer[x] \in 1..n /\ Stays(outer[x])
          BY <5>2, <4>8, <2>1
        <5>5. /\ Place(callstack', module', ip', outer[x])[1] = module
              /\ OwnerAt(prog, Place(callstack', module', ip', outer[x]))
                   = hf.chain[x]
          BY <5>2, <5>4, <4>8 DEF Stays
        <5> QED
          BY <5>3, <5>4, <5>5, <4>1, <4>11, <3>11
      <4> QED
        BY <4>14, <4>15
    <3>13. \A j \in 1..(nest - 1) : nest > 1
      OBVIOUS
    <3>14. n + 1 - 1 = n
      OBVIOUS
    <3> HIDE DEF fn
    <3> QED
      BY <3>7, <3>8, <3>9, <3>10, <3>12, <3>13, <3>14 DEF Links
  <2>5. \A k \in 1..(n + 1) : k \in 1..n \/ k = n + 1
    OBVIOUS
  <2> QED
    BY <2>1, <2>3, <2>4, <2>5
<1> QED
  BY <1>1, <1>4, <1>5

LEMMA LinkedAtFirst ==
  ASSUME Init, CodeIsWellFormed
  PROVE  Linked
<1>1. IInv
  BY InitKeeps
<1>2. Consistent(prog, callstack, frames, module, ip, depth)
  BY <1>1 DEF Init, IInv
<1>3. ASSUME NEW k \in 1..Len(callstack)
      PROVE  frames[k].nest = 0
  <2>1. Len(callstack) = Len(Started) /\ Len(Started) \in Nat
    BY InitKeeps, StartedType, ProgramsAssumption DEF Init
  <2>2. k \in 1..Len(Started) /\ Started \in Seq(DOMAIN prog.code)
    BY <2>1, StartedType, ProgramsAssumption DEF Init
  <2>3. Started[k] \in DOMAIN prog.code
    BY <2>2, <2>1, ElementOfSeq
  <2>4. prog.funcs[Started[k]][1].nest = 0
    BY <2>3 DEF Init, CodeIsWellFormed, WellFormed, BodyOK
  <2>5. frames[k] = Frame(prog.funcs[Started[k]][1].nest, <<>>, 0)
    BY <2>2 DEF Init
  <2> QED
    BY <2>4, <2>5 DEF Frame
<1>4. \A k \in 1..Len(callstack) : FunctionOf(prog, Place(callstack, module, ip, k)).nest = 0
  BY <1>2, <1>3 DEF Consistent
<1>5. 1..(0 - 1) = {}
  OBVIOUS
<1> QED
  BY <1>4, <1>5 DEF Linked, Links

-----------------------------------------------------------------------------
(* The return addresses, and where the search of a handler looks.          *)
LEMMA ResumableKept ==
  ASSUME IInv, CodeIsWellFormed, Resumable, [Next]_vars
  PROVE  Resumable'
<1> SUFFICES ASSUME exit_code' = 0, NEW k \in 2..Len(callstack')
             PROVE  Resumes(prog, callstack'[k])
  <2>1. prog' = prog
    BY StepKeeps DEF Kept
  <2> QED
    BY <2>1 DEF Resumable
<1>1. exit_code = 0 /\ (Unwound \/ Entered)
  BY StepShape
<1>2. PICK n \in Nat : Len(callstack) = n
  BY LenProperties DEF IInv, TypeOK
<1>3. \A x \in 2..n : Resumes(prog, callstack[x])
  BY <1>1, <1>2 DEF Resumable
<1>4. CASE Unwound
  <2>1. PICK m \in Nat : Len(callstack') = m
    <3>1. IInv'
      BY StepKeeps
    <3> QED
      BY <3>1, LenProperties DEF IInv, TypeOK
  <2>2. m <= n /\ \A x \in 1..m : callstack'[x] = callstack[x]
    BY <1>2, <1>4, <2>1 DEF Unwound, Stays
  <2>3. k \in 1..m /\ k \in 2..n
    BY <2>1, <2>2
  <2> QED
    BY <2>2, <2>3, <1>3
<1>5. CASE Entered
  <2>1. /\ Len(callstack') = n + 1
        /\ \A x \in 1..n : callstack'[x] = callstack[x]
        /\ callstack'[n + 1] = <<module, ip + 1>>
    BY <1>2, <1>5, Entering DEF Stays
  <2>2. CASE k = n + 1
    <3>1. ip \in Live(prog, module) /\ Ins.op \in CallOps /\ ip \in Nat
      BY <1>5, Current DEF Entered
    <3>2. ip + 1 - 1 = ip
      BY <3>1
    <3>3. <<module, ip + 1>>[1] = module /\ <<module, ip + 1>>[2] = ip + 1
      OBVIOUS
    <3> QED
      BY <3>1, <3>2, <3>3, <2>1, <2>2 DEF Resumes, Ins, Code
  <2>3. CASE k # n + 1
    <3>1. k \in 1..n /\ k \in 2..n
      BY <2>1, <2>3
    <3> QED
      BY <3>1, <2>1, <1>3
  <2> QED
    BY <2>2, <2>3
<1> QED
  BY <1>1, <1>4, <1>5

LEMMA ResumableAtFirst ==
  ASSUME Init, CodeIsWellFormed
  PROVE  Resumable
<1> DEFINE n == Len(Started)
<1>1. ProgramTypes(prog)
  BY ProgramsAssumption DEF Init
<1>2. Started \in Seq(DOMAIN prog.code) /\ n \in Nat
  BY <1>1, StartedType
<1>3. callstack = [k \in 1..n |-> IF k = 1 THEN <<prog.main, EndOf(prog, prog.main)>>
                                  ELSE <<Started[k - 1], Entry(Started[k - 1])>>]
  BY DEF Init
<1>4. Len(callstack) = n
  BY InitKeeps
<1>5. prog.init = <<>> => n = 1
  <2> SUFFICES ASSUME prog.init = <<>> PROVE n = 1
    OBVIOUS
  <2>1. Reverse(prog.init) = <<>>
    BY DEF Reverse
  <2>2. <<prog.main>> \o <<>> = <<prog.main>>
    OBVIOUS
  <2>3. Started = <<prog.main>>
    BY <2>1, <2>2 DEF Started
  <2> QED
    BY <2>3
<1>6. ASSUME NEW k \in 2..n
      PROVE  Resumes(prog, callstack[k])
  <2>1. k \in 1..n /\ k # 1
    OBVIOUS
  <2>2. callstack[k] = <<Started[k - 1], Entry(Started[k - 1])>>
    BY <2>1, <1>3
  <2>3. prog.init # <<>>
    <3>1. k \in 2..n
      BY <1>6
    <3>2. n # 1
      <4> HIDE DEF n
      <4> QED
        BY <3>1
    <3> QED
      BY <3>2, <1>5
  <2>4. PICK m, a : m = Started[k - 1] /\ a = Entry(m)
    OBVIOUS
  <2>5. callstack[k] = <<m, a>> /\ a = prog.funcs[m][1].entry
    BY <2>2, <2>4 DEF Entry
  <2> QED
    BY <2>3, <2>5 DEF Resumes
<1> QED
  BY <1>4, <1>6 DEF Resumable

LEMMA SameEntries ==
  ASSUME NEW m, NEW a, NEW exc,
         \A j \in DOMAIN prog.exc[m] : Together(prog.exc[m][j], a)
  PROVE  Entries(m, a, exc) = Entries(m, a - 1, exc)
BY DEF Entries, Together

(* In every activation the search finds the entries that cover what that   *)
(* activation is executing.                                                *)
LEMMA SearchedIsExecuting ==
  ASSUME IInv, CodeIsWellFormed, HandlersEnclose, Resumable, Running,
         NEW off, off = 0 \/ (off = 1 /\ RaisesAfter(Ins)),
         NEW exc, NEW k \in 0..Len(callstack)
  PROVE  Entries(At(k, ip + off)[1], At(k, ip + off)[2], exc)
           = Entries(Executing(k)[1], Executing(k)[2], exc)
<1>1. /\ ProgramTypes(prog) /\ module \in DOMAIN prog.code
      /\ callstack \in Seq(Addresses(prog))
      /\ Consistent(prog, callstack, frames, module, ip, depth)
      /\ ip \in Live(prog, module) /\ ip \in Nat
      /\ Len(callstack) > 0
  BY Current
<1>2. RangesEnclose(prog)
  BY DEF IInv, TypeOK, HandlersEnclose
<1>3. PICK n \in Nat : Len(callstack) = n
  BY <1>1, LenProperties
<1>4. CASE k = n
  <2>1. At(k, ip + off) = <<module, ip + off>> /\ Executing(k) = <<module, ip>>
    BY <1>3, <1>4 DEF At, Executing
  <2>2. CASE off = 0
    <3>1. ip + off = ip
      BY <2>2, <1>1
    <3> QED
      BY <2>1, <3>1
  <2>3. CASE off = 1 /\ RaisesAfter(Ins)
    <3>1. PICK a : a = ip + 1
      OBVIOUS
    <3>2. \A j \in DOMAIN prog.exc[module] : Together(prog.exc[module][j], a)
      BY <2>3, <3>1, <1>1, <1>2 DEF RangesEnclose, Ins, Code
    <3>3. Entries(module, a, exc) = Entries(module, a - 1, exc)
      BY <3>2, SameEntries
    <3>4. a - 1 = ip /\ ip + off = a
      BY <3>1, <2>3, <1>1
    <3> QED
      BY <2>1, <3>3, <3>4
  <2> QED
    BY <2>2, <2>3
<1>5. CASE k # n
  <2>1. k + 1 \in 1..n
    BY <1>3, <1>5
  <2>2. PICK l : l = callstack[k + 1]
    OBVIOUS
  <2>3. l \in Addresses(prog)
    BY <2>1, <2>2, <1>1, <1>3, ElementOfSeq
  <2>4. l[1] \in DOMAIN prog.code /\ l[2] \in Nat
    BY <2>3 DEF Addresses
  <2>5. \A j \in DOMAIN prog.exc[l[1]] : Together(prog.exc[l[1]][j], l[2])
    <3>1. CASE k = 0
      <4>1. l = <<prog.main, EndOf(prog, prog.main)>>
        BY <2>2, <3>1, <1>1, <1>3 DEF Consistent, Active
      <4> QED
        BY <4>1, <1>1, <1>2 DEF RangesEnclose, ProgramTypes
    <3>2. CASE k # 0
      <4>1. k + 1 \in 2..Len(callstack)
        BY <3>2, <2>1, <1>3
      <4>2. Resumes(prog, l)
        BY <4>1, <2>2 DEF Resumable, Running
      <4>3. CASE prog.init # <<>> /\ l[2] = prog.funcs[l[1]][1].entry
        BY <4>3, <2>4, <1>2 DEF RangesEnclose
      <4>4. CASE l[2] - 1 \in Live(prog, l[1]) /\ prog.code[l[1]][l[2] - 1].op \in CallOps
        <5>1. RaisesAfter(prog.code[l[1]][l[2] - 1])
          BY <4>4 DEF RaisesAfter
        <5>2. \A j \in DOMAIN prog.exc[l[1]] : Together(prog.exc[l[1]][j], (l[2] - 1) + 1)
          BY <5>1, <4>4, <2>4, <1>2 DEF RangesEnclose
        <5>3. (l[2] - 1) + 1 = l[2]
          BY <2>4
        <5> QED
          BY <5>2, <5>3
      <4> QED
        BY <4>2, <4>3, <4>4 DEF Resumes
    <3> QED
      BY <3>1, <3>2
  <2>6. Entries(l[1], l[2], exc) = Entries(l[1], l[2] - 1, exc)
    BY <2>5, SameEntries
  <2>7. At(k, ip + off) = l /\ Executing(k) = <<l[1], l[2] - 1>>
    BY <2>2, <1>3, <1>5 DEF At, Executing
  <2> QED
    BY <2>6, <2>7
<1> QED
  BY <1>4, <1>5

-----------------------------------------------------------------------------
(* The theorems.                                                           *)

(***************************************************************************)
(* The invariant: whatever well-formed program runs, whatever it raises    *)
(* and whenever it is interrupted, the running activation and all the      *)
(* suspended ones have the operand depths the compiler counted.            *)
(***************************************************************************)
THEOREM Invariance ==
  ASSUME CodeIsWellFormed
  PROVE  Spec => []IInv
<1>1. Init => IInv
  BY InitKeeps
<1>2. IInv /\ [Next]_vars => IInv'
  BY StepKeeps
<1> QED
  BY <1>1, <1>2, PTL DEF Spec

(* Every variable of the executor keeps its type.                          *)
THEOREM TypeCorrect ==
  ASSUME CodeIsWellFormed
  PROVE  Spec => []TypeOK
<1>1. IInv => TypeOK
  BY DEF IInv
<1> QED
  BY <1>1, Invariance, PTL

(* exec_loop never reports "stack depth mismatch".                         *)
THEOREM DepthCorrect ==
  ASSUME CodeIsWellFormed
  PROVE  Spec => []DepthAgrees
<1>1. IInv => DepthAgrees
  BY Current DEF DepthAgrees, Last
<1> QED
  BY <1>1, Invariance, PTL

(* The frame stack mirrors the call stack.                                 *)
THEOREM FramesCorrect ==
  ASSUME CodeIsWellFormed
  PROVE  Spec => []FramesMirrorCalls
<1>1. IInv => FramesMirrorCalls
  <2> SUFFICES ASSUME IInv PROVE FramesMirrorCalls
    OBVIOUS
  <2>1. exit_code = 0 => Len(frames) = Len(callstack)
    BY DEF IInv, Consistent
  <2>2. ASSUME Running, NEW k \in DOMAIN frames
        PROVE  frames[k].nest = prog.funcs[Location(k)[1]][FunctionAt(k)].nest
    <3>1. /\ Len(frames) = Len(callstack) /\ frames \in Seq(FrameType)
          /\ Consistent(prog, callstack, frames, module, ip, depth)
      BY <2>2, Current
    <3>2. k \in 1..Len(callstack)
      BY <3>1, <2>2, LenProperties
    <3>3. frames[k].nest = FunctionOf(prog, Place(callstack, module, ip, k)).nest
      BY <3>1, <3>2 DEF Consistent
    <3> QED
      BY <3>3 DEF FunctionOf, FunctionAt, Location, At, Place
  <2> QED
    BY <2>1, <2>2 DEF FramesMirrorCalls
<1> QED
  BY <1>1, Invariance, PTL

(* exec() never fails its assertion that the operand stack is empty.       *)
THEOREM ExitCorrect ==
  ASSUME CodeIsWellFormed
  PROVE  Spec => []CleanExit
<1>1. IInv => CleanExit
  <2> SUFFICES ASSUME IInv, Halted, exit_code = 0 PROVE depth = 0 /\ frames = <<>>
    BY DEF CleanExit
  <2>1. /\ Consistent(prog, callstack, frames, module, ip, depth)
        /\ callstack \in Seq(Addresses(prog)) /\ frames \in Seq(FrameType)
        /\ ProgramTypes(prog) /\ module \in DOMAIN prog.code
    BY ProgramsAssumption DEF IInv, TypeOK
  <2>2. Len(callstack) \in Nat
    BY <2>1, LenProperties
  <2>3. CASE Len(callstack) > 0
    <3>1. ip \in Live(prog, module)
      BY <2>1, <2>3 DEF Consistent, Active
    <3>2. ip < EndOf(prog, module)
      BY <2>1, <3>1, LiveTypes
    <3>3. callstack # <<>>
      BY <2>1, <2>3, EmptySeq
    <3> QED
      BY <3>2, <3>3 DEF Halted, Running
  <2>4. CASE Len(callstack) = 0
    BY <2>1, <2>4, EmptySeq DEF Consistent, Stopped
  <2> QED
    BY <2>2, <2>3, <2>4
<1> QED
  BY <1>1, Invariance, PTL

(* The second exception of MODN goes where the first one went, provided    *)
(* (ModuloOK) that each MODN is in the range of a handler for PANIC.       *)
THEOREM SecondRaiseCorrect ==
  ASSUME CodeIsWellFormed
  PROVE  Spec => []SecondRaiseStays
<1>1. IInv => SecondRaiseStays
  <2> SUFFICES ASSUME IInv, pc = "again", exit_code = 0 PROVE SecondRaiseStays
    BY DEF SecondRaiseStays
  <2>1. /\ Again /\ callstack \in Seq(Addresses(prog))
    BY DEF IInv, TypeOK
  <2> DEFINE n == Len(callstack)
             found == Catchers(start_ip, PANIC)
  <2>2. n \in Nat
    BY <2>1, LenProperties
  <2>3. n \in found /\ found \in SUBSET (0..n)
    BY <2>1, <2>2 DEF Catchers, At, Again
  <2>4. Max(found) = n
    <3> HIDE DEF found
    <3>1. Max(found) \in found /\ n <= Max(found)
      BY <2>2, <2>3, MaxOfNaturals
    <3>2. Max(found) \in 0..n
      BY <2>3, <3>1
    <3> HIDE DEF n
    <3> QED
      BY <3>1, <3>2, <2>2
  <2> QED
    BY <2>1, <2>3, <2>4 DEF SecondRaiseStays, Again
<1> QED
  BY <1>1, Invariance, PTL

(* The call stack is never deeper than the recursion limit allows.         *)
THEOREM RecursionCorrect ==
  ASSUME CodeIsWellFormed
  PROVE  Spec => []RecursionBounded
<1>1. Init => RecursionBounded
  BY InitKeeps, StartedType, RecursionLimitAssumption, ProgramsAssumption
     DEF RecursionBounded, Init
<1>2. RecursionBounded /\ IInv /\ [Next]_vars => RecursionBounded'
  <2> SUFFICES ASSUME RecursionBounded, IInv, [Next]_vars PROVE RecursionBounded'
    OBVIOUS
  <2>1. IInv' /\ Kept
    BY StepKeeps
  <2>2. /\ Len(callstack) \in Nat /\ Len(callstack') \in Nat
        /\ ProgramTypes(prog) /\ prog' = prog
    BY <2>1, LenProperties, ProgramsAssumption DEF IInv, TypeOK, Kept
  <2>3. Len(Started) \in Nat /\ Len(Started)' = Len(Started)
    BY <2>2, StartedType DEF Started
  <2> QED
    BY <2>1, <2>2, <2>3, RecursionLimitAssumption DEF RecursionBounded, Kept
<1> QED
  BY <1>1, <1>2, Invariance, PTL DEF Spec

(***************************************************************************)
(* PUSHPOL reaches the variables of the lexically enclosing functions, if  *)
(* functions are only called where their names are visible: whatever was   *)
(* called, caught or returned from in between, the outer pointers lead     *)
(* from the frame of a function to frames of the functions around it.      *)
(***************************************************************************)
THEOREM StaticLinksCorrect ==
  ASSUME CodeIsWellFormed, CallsAreLexical
  PROVE  Spec => []StaticLinkIsLexical
<1>1. Init => Linked
  BY LinkedAtFirst
<1>2. IInv /\ Linked /\ [Next]_vars => Linked'
  BY LinkedKept
<1>3. IInv /\ Linked => StaticLinkIsLexical
  <2> SUFFICES ASSUME IInv, Linked, Running, NEW k \in DOMAIN frames
               PROVE  LET f == prog.funcs[Location(k)[1]][FunctionAt(k)]
                      IN  \A j \in 1..(f.nest - 1) :
                            /\ j \in DOMAIN frames[k].outer
                            /\ frames[k].outer[j] < k
                            /\ Location(frames[k].outer[j])[1] = Location(k)[1]
                            /\ FunctionAt(frames[k].outer[j]) = f.chain[j]
    BY DEF StaticLinkIsLexical
  <2>1. k \in 1..Len(callstack) /\ exit_code = 0
    BY Current, LenProperties DEF Running
  <2>2. Links(prog, callstack, frames, module, ip, k)
    BY <2>1 DEF Linked
  <2>3. \A x : Location(x) = Place(callstack, module, ip, x)
    BY DEF Location, At, Place
  <2>4. \A x : FunctionAt(x) = OwnerAt(prog, Location(x))
    BY DEF FunctionAt, OwnerAt
  <2>5. FunctionOf(prog, Location(k)) = prog.funcs[Location(k)[1]][FunctionAt(k)]
    BY DEF FunctionOf, FunctionAt
  <2>6. PICK f : f = FunctionOf(prog, Location(k))
    OBVIOUS
  <2>7. \A j \in 1..(f.nest - 1) :
          /\ j \in DOMAIN frames[k].outer
          /\ frames[k].outer[j] \in 1..(k - 1)
          /\ Location(frames[k].outer[j])[1] = Location(k)[1]
          /\ FunctionAt(frames[k].outer[j]) = f.chain[j]
    BY <2>2, <2>3, <2>4, <2>6, Zenon DEF Links
  <2>8. \A x \in 1..(k - 1) : x < k
    BY <2>1
  <2> QED
    BY <2>5, <2>6, <2>7, <2>8
<1> QED
  BY <1>1, <1>2, <1>3, Invariance, PTL DEF Spec

(***************************************************************************)
(* Unless an exception range begins or ends right behind a call (or at the *)
(* start of a module that imports others), raise_literal, which searches   *)
(* at return addresses, finds the TRY that encloses what is being executed. *)
(***************************************************************************)
THEOREM HandlersCorrect ==
  ASSUME CodeIsWellFormed, HandlersEnclose
  PROVE  Spec => []HandlerIsEnclosing
<1>1. Init => Resumable
  BY ResumableAtFirst
<1>2. IInv /\ Resumable /\ [Next]_vars => Resumable'
  BY ResumableKept
<1>3. IInv /\ Resumable => HandlerIsEnclosing
  <2> SUFFICES ASSUME IInv, Resumable, Running, NEW t \in Throws(Ins)
               PROVE  SameHandler(ip + t.off, t.exc)
    BY DEF HandlerIsEnclosing
  <2> DEFINE tip == ip + t.off
             found == Catchers(tip, t.exc)
  <2>1. t.off = 0 \/ (t.off = 1 /\ RaisesAfter(Ins))
    BY Current, ThrowsBounded
  <2>2. \A k \in 0..Len(callstack) :
          Entries(At(k, tip)[1], At(k, tip)[2], t.exc)
            = Entries(Executing(k)[1], Executing(k)[2], t.exc)
    BY <2>1, SearchedIsExecuting
  <2> HIDE DEF tip
  <2>3. found = Enclosing(t.exc)
    BY <2>2 DEF Catchers, Enclosing
  <2>4. found # {} => Max(found) \in 0..Len(callstack)
    <3>1. Len(callstack) \in Nat /\ found \in SUBSET (0..Len(callstack))
      BY Current DEF Catchers
    <3> HIDE DEF found
    <3> QED
      BY <3>1, MaxOfNaturals
  <2> HIDE DEF found
  <2>5. SameHandler(tip, t.exc)
    BY <2>2, <2>3, <2>4 DEF SameHandler, found
  <2> QED
    BY <2>5 DEF tip
<1> QED
  BY <1>1, <1>2, <1>3, Invariance, PTL DEF Spec

(***************************************************************************)
(* No step changes the activations below the top, or the cells below the   *)
(* base of the activation above one that remains.                          *)
(***************************************************************************)
THEOREM CallersAreKept ==
  ASSUME CodeIsWellFormed
  PROVE  Spec => CallersKept
<1> DEFINE A == \A k \in 1..(Len(callstack) - 1) : k < Len(callstack') /\ exit_code' = 0 =>
                  /\ frames'[k] = frames[k]
                  /\ callstack'[k + 1] = callstack[k + 1]
                  /\ frames[k + 1].opstack_depth <= depth'
<1>1. IInv /\ [Next]_vars => A
  <2> SUFFICES ASSUME IInv, [Next]_vars, NEW k \in 1..(Len(callstack) - 1),
                      k < Len(callstack'), exit_code' = 0
               PROVE  /\ frames'[k] = frames[k]
                      /\ callstack'[k + 1] = callstack[k + 1]
                      /\ frames[k + 1].opstack_depth <= depth'
    OBVIOUS
  <2>1. IInv' /\ prog' = prog /\ (Unwound \/ Entered)
    BY StepKeeps, StepShape DEF Kept
  <2>2. /\ Consistent(prog, callstack', frames', module', ip', depth')
        /\ frames' \in Seq(FrameType)
        /\ prog \in Programs /\ module' \in DOMAIN prog.code
    BY <2>1 DEF IInv, TypeOK
  <2>3. PICK n \in Nat, m \in Nat : Len(callstack) = n /\ Len(callstack') = m
    BY <2>1, LenProperties DEF IInv, TypeOK
  <2>4. k \in 1..n /\ k + 1 \in 1..n /\ k \in 1..m /\ k + 1 \in 1..m /\ m \in 1..m
    BY <2>3
  <2>5. Stays(k) /\ Stays(k + 1)
    BY <2>1, <2>3, <2>4, Entering DEF Unwound
  <2>6. /\ frames'[k] = frames[k] /\ frames'[k + 1] = frames[k + 1]
        /\ callstack'[k + 1] = callstack[k + 1]
    BY <2>5 DEF Stays
  <2>7. /\ Len(frames') = m
        /\ frames'[k + 1].opstack_depth <= frames'[m].opstack_depth
        /\ Active(prog, callstack', frames', module', ip', depth')
    BY <2>2, <2>3, <2>4 DEF Consistent
  <2>8. /\ frames'[m].opstack_depth \in Int /\ frames'[k + 1].opstack_depth \in Int
    <3>1. frames'[m] \in FrameType /\ frames'[k + 1] \in FrameType
      BY <2>2, <2>4, <2>7, ElementOfSeq
    <3> QED
      BY <3>1 DEF FrameType
  <2>9. prog.depth[module'][ip'] \in Nat /\ depth' = frames'[m].opstack_depth + prog.depth[module'][ip']
    BY <2>2, <2>7, LiveTypes, ProgramsAssumption DEF Active
  <2>10. frames'[k + 1].opstack_depth <= depth'
    BY <2>7, <2>8, <2>9
  <2> QED
    BY <2>6, <2>10
<1>2. IInv /\ [Next]_vars => [A]_vars
  BY <1>1
<1> QED
  BY <1>2, Invariance, PTL DEF Spec, CallersKept

=============================================================================
