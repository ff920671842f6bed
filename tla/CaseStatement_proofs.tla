------------------------ MODULE CaseStatement_proofs ------------------------
(***************************************************************************)
(* Proofs about module CaseStatement, for every set of conditions, any     *)
(* widths of the integer types and any density of the jump table.          *)
(***************************************************************************)
EXTENDS CaseStatement, WellFoundedInduction, SequenceTheorems, TLAPS

(* Every value of a WHEN clause is strictly within the limits of int32_t.  *)
ValuesFit ==
  \A c \in Conditions : c.comp = "EQ" => INT32_MIN < c.low[1] /\ c.low[1] < INT32_MAX

(* No condition is a strict comparison.                                    *)
NoStrictComparison == \A c \in Conditions : c.comp \notin {"LT", "GT"}

(* The analyzer refuses a range whose limits are in the wrong order.       *)
RangesAscend == \A c \in Conditions : c.comp = "TO" => AtMost(c.low, c.high)

(* The statement may be executed with the numbers that conditions compare  *)
(* with, and with the ones 1 below and above.                              *)
LimitsWitnessed ==
  \A c \in Conditions :
    /\ \A n \in {-1, 0, 1} : SubtractInt(c.low, n) \in Witnesses
    /\ c.comp = "TO" => c.high \in Witnesses

-----------------------------------------------------------------------------
(* A non-empty bounded set of integers has a least and a greatest element. *)
LEMMA LeastElement ==
  ASSUME NEW S \in SUBSET Nat, S # {}
  PROVE  \E m \in S : \A y \in S : m <= y
<1>1. PICK m \in S : \A y \in S : ~ (<<y, m>> \in OpToRel(<, Nat))
  BY NatLessThanWellFounded, WFMin
<1>2. \A y \in S : ~ (y < m)
  BY <1>1 DEF OpToRel
<1>3. m \in S /\ \A y \in S : m <= y
  BY <1>2
<1> QED
  BY <1>3

LEMMA MinOfBounded ==
  ASSUME NEW lo \in Int, NEW hi \in Int, NEW S \in SUBSET (lo..hi), S # {}
  PROVE  Min(S) \in S /\ \A y \in S : Min(S) <= y
<1> DEFINE T == {y - lo : y \in S}
<1>1. \A y \in S : y \in Int /\ y - lo \in Nat
  OBVIOUS
<1>2. T \in SUBSET Nat /\ T # {}
  BY <1>1
<1>3. PICK t \in T : \A z \in T : t <= z
  BY <1>2, LeastElement
<1>4. PICK m \in S : t = m - lo
  BY <1>3
<1>5. \A y \in S : m - lo <= y - lo
  BY <1>3, <1>4
<1>6. ASSUME NEW y \in S PROVE m <= y
  <2>1. m \in Int /\ y \in Int /\ m - lo <= y - lo
    BY <1>1, <1>5
  <2> QED
    BY <2>1
<1> QED
  BY <1>6 DEF Min

LEMMA MaxOfBounded ==
  ASSUME NEW lo \in Int, NEW hi \in Int, NEW S \in SUBSET (lo..hi), S # {}
  PROVE  Max(S) \in S /\ \A y \in S : y <= Max(S)
<1> DEFINE T == {hi - y : y \in S}
<1>1. \A y \in S : y \in Int /\ hi - y \in Nat
  OBVIOUS
<1>2. T \in SUBSET Nat /\ T # {}
  BY <1>1
<1>3. PICK t \in T : \A z \in T : t <= z
  BY <1>2, LeastElement
<1>4. PICK m \in S : t = hi - m
  BY <1>3
<1>5. \A y \in S : hi - m <= hi - y
  BY <1>3, <1>4
<1>6. ASSUME NEW y \in S PROVE m >= y
  <2>1. m \in Int /\ y \in Int /\ hi - m <= hi - y
    BY <1>1, <1>5
  <2> QED
    BY <2>1
<1> QED
  BY <1>6 DEF Max

-----------------------------------------------------------------------------
(* A number is an integer part and a fraction, and is determined by them.  *)
LEMMA NumberParts ==
  ASSUME NEW a \in Number
  PROVE  /\ a[1] \in Int /\ a[2] \in Int
         /\ \A b \in Number : a = b <=> a[1] = b[1] /\ a[2] = b[2]
<1>1. Unit \in Nat
  BY ConstantTypes
<1>2. PICK m \in Int, f \in Fractions : a = <<m, f>>
  BY DEF Number
<1>3. f \in Int
  BY <1>1 DEF Fractions
<1>4. ASSUME NEW b \in Number PROVE a = b <=> a[1] = b[1] /\ a[2] = b[2]
  <2>1. PICK n \in Int, g \in Fractions : b = <<n, g>>
    BY DEF Number
  <2> QED
    BY <1>2, <2>1
<1> QED
  BY <1>2, <1>3, <1>4

(* The conditions of a statement are conditions, of clauses that exist.    *)
LEMMA PlacedTypes ==
  ASSUME NEW cl \in Seq(Seq(Conditions)), NEW q \in Placed(cl)
  PROVE  /\ q[1] \in 1..Len(cl)
         /\ q[2] \in Conditions /\ q[2] \in Condition
<1>1. PICK p \in Positions(cl) : q = <<p[1], cl[p[1]][p[2]]>>
  BY DEF Placed
<1>2. PICK k \in DOMAIN cl : p \in {<<k, j>> : j \in DOMAIN cl[k]}
  BY <1>1 DEF Positions
<1>3. PICK j \in DOMAIN cl[k] : p = <<k, j>>
  BY <1>2
<1>4. k \in 1..Len(cl) /\ cl[k] \in Seq(Conditions)
  OBVIOUS
<1>5. cl[k][j] \in Conditions
  BY <1>3, <1>4
<1> QED
  BY <1>1, <1>3, <1>4, <1>5, ConstantTypes

(* Where some clause matches, the first one that does is one of them.      *)
LEMMA LinearMatches ==
  ASSUME NEW cl \in Seq(Seq(Conditions)), NEW a \in Number
  PROVE  /\ Linear(cl, a) \in 0..Len(cl)
         /\ IF Matching(cl, a) = {} THEN Linear(cl, a) = 0
                                    ELSE Linear(cl, a) \in Matching(cl, a)
<1>1. Matching(cl, a) \in SUBSET (1..Len(cl)) /\ Len(cl) \in Nat
  BY PlacedTypes DEF Matching
<1>2. ASSUME Matching(cl, a) # {} PROVE Min(Matching(cl, a)) \in Matching(cl, a)
  BY <1>1, <1>2, MinOfBounded, 1 \in Int, Len(cl) \in Int
<1> QED
  BY <1>1, <1>2 DEF Linear

-----------------------------------------------------------------------------
(* The jump table.                                                         *)

(* The entries of the table are the clauses of its values.                 *)
LEMMA TableTypes ==
  ASSUME NEW cl \in Seq(Seq(Conditions)), UsesTable(cl)
  PROVE  /\ Keys(cl) \in SUBSET (INT32_MIN..INT32_MAX) /\ Keys(cl) # {}
         /\ INT32_MIN \in Int /\ INT32_MAX \in Nat
         /\ \A n \in Keys(cl) : ClauseOf(cl, n) \in 1..Len(cl) /\ <<n, ClauseOf(cl, n)>> \in values(cl)
<1>1. INT32_MIN \in Int /\ INT32_MAX \in Nat /\ Len(cl) \in Nat
  BY ConstantTypes DEF INT32_MIN
<1>2. ASSUME NEW v \in values(cl)
      PROVE  v[1] \in INT32_MIN..INT32_MAX /\ v[2] \in 1..Len(cl) /\ v = <<v[1], v[2]>>
  <2>1. PICK q \in Placed(cl) : Tabulated(q[2]) /\ v = <<ToInt32(q[2].low), q[1]>>
    BY DEF values
  <2>2. q[1] \in 1..Len(cl) /\ q[2].low \in Number
    BY PlacedTypes DEF Condition
  <2>3. q[2].low[1] \in Int
    BY <2>2, NumberParts
  <2>4. ToInt32(q[2].low) \in Int
    BY <1>1, <2>3 DEF ToInt32
  <2> QED
    BY <1>1, <2>1, <2>2, <2>4 DEF Tabulated
<1>3. ASSUME NEW n \in Keys(cl)
      PROVE  ClauseOf(cl, n) \in 1..Len(cl) /\ <<n, ClauseOf(cl, n)>> \in values(cl)
  <2> DEFINE S == {v[2] : v \in {w \in values(cl) : w[1] = n}}
  <2>1. S \in SUBSET (1..Len(cl)) /\ S # {}
    BY <1>2 DEF Keys
  <2>2. Max(S) \in S
    <3> HIDE DEF S
    <3>1. 1 \in Int /\ Len(cl) \in Int
      BY <1>1
    <3> QED
      BY <2>1, <3>1, MaxOfBounded
  <2>3. ClauseOf(cl, n) \in S
    BY <2>2 DEF ClauseOf
  <2> QED
    BY <1>2, <2>1, <2>3
<1> QED
  BY <1>1, <1>2, <1>3 DEF Keys, UsesTable

(* When they fit, the values in the table are those of the WHEN clauses.   *)
LEMMA TableIsComplete ==
  ASSUME ValuesFit, NEW cl \in Seq(Seq(Conditions)), UsesTable(cl), NEW a \in Number
  PROVE  /\ \A k : k \in Matching(cl, a) <=> IsInteger(a) /\ <<a[1], k>> \in values(cl)
<1>1. ASSUME NEW q \in Placed(cl)
      PROVE  /\ q[2].comp = "EQ" /\ IsInteger(q[2].low) /\ q[2].low \in Number
             /\ Tabulated(q[2]) /\ ToInt32(q[2].low) = q[2].low[1]
  <2>1. q[2] \in Conditions /\ q[2] \in Condition
    BY PlacedTypes
  <2>2. q[2].comp = "EQ" /\ IsInteger(q[2].low)
    BY DEF UsesTable, all_integer_equality
  <2>3. q[2].low \in Number
    BY <2>1 DEF Condition
  <2>4. INT32_MIN < q[2].low[1] /\ q[2].low[1] < INT32_MAX
    BY <2>1, <2>2 DEF ValuesFit
  <2>5. q[2].low[1] \in Int /\ INT32_MIN \in Int /\ INT32_MAX \in Int
    BY <2>3, NumberParts, ConstantTypes DEF INT32_MIN
  <2>6. ToInt32(q[2].low) = q[2].low[1]
    BY <2>4, <2>5 DEF ToInt32
  <2> QED
    BY <2>2, <2>3, <2>4, <2>6 DEF Tabulated
<1>2. ASSUME NEW q \in Placed(cl)
      PROVE  Holds(q[2], a) <=> IsInteger(a) /\ a[1] = ToInt32(q[2].low)
  <2>1. Holds(q[2], a) <=> a = q[2].low
    BY <1>1 DEF Holds, Compare
  <2>2. a = q[2].low <=> a[1] = q[2].low[1] /\ a[2] = q[2].low[2]
    BY <1>1, NumberParts
  <2> QED
    BY <1>1, <2>1, <2>2 DEF IsInteger
<1>3. ASSUME NEW k, k \in Matching(cl, a) PROVE IsInteger(a) /\ <<a[1], k>> \in values(cl)
  <2>1. PICK q \in Placed(cl) : Holds(q[2], a) /\ k = q[1]
    BY <1>3 DEF Matching
  <2> QED
    BY <1>1, <1>2, <2>1 DEF values
<1>4. ASSUME NEW k, IsInteger(a), <<a[1], k>> \in values(cl) PROVE k \in Matching(cl, a)
  <2>1. PICK q \in Placed(cl) : <<a[1], k>> = <<ToInt32(q[2].low), q[1]>>
    BY <1>4 DEF values
  <2> QED
    BY <1>2, <1>4, <2>1 DEF Matching
<1> QED
  BY <1>3, <1>4

(***************************************************************************)
(* The jump table takes a clause that matches: the number less the minimum *)
(* is below the range exactly for the numbers up to the maximum, and the   *)
(* conversion to uint32_t does not bring a larger one back into it.  The   *)
(* sign bit is that of the difference, but for a zero less a minimum of 0. *)
(***************************************************************************)
LEMMA JumpTableMatches ==
  ASSUME ValuesFit, NEW cl \in Seq(Seq(Conditions)), UsesTable(cl), NEW a \in Number,
         NEW sign \in Signs(a)
  PROVE  IF Matching(cl, a) = {} THEN JumpTable(cl, a, sign) = 0
         ELSE \/ JumpTable(cl, a, sign) \in Matching(cl, a)
              \/ JumpTable(cl, a, sign) = 0 /\ sign /\ a = Zero /\ Min(Keys(cl)) = 0
<1> DEFINE min == Min(Keys(cl))
           max == Max(Keys(cl))
           range == max - min + 1
           n == SubtractInt(a, min)
           i == ToUint32(n)
           negative == IF min = 0 THEN sign ELSE n[1] < 0
           hit == IsInteger(n) /\ ~negative /\ i < range /\ min + i \in Keys(cl)
           overlooked == sign /\ a = Zero /\ min = 0
<1>1. /\ Keys(cl) \in SUBSET (INT32_MIN..INT32_MAX) /\ Keys(cl) # {}
      /\ INT32_MIN \in Int /\ INT32_MAX \in Nat
  BY TableTypes
<1>2. /\ min \in Keys(cl) /\ \A y \in Keys(cl) : min <= y
      /\ max \in Keys(cl) /\ \A y \in Keys(cl) : y <= max
  <2>1. INT32_MAX \in Int
    BY <1>1
  <2>2. min \in Keys(cl) /\ \A y \in Keys(cl) : min <= y
    BY <1>1, <2>1, MinOfBounded
  <2>3. max \in Keys(cl) /\ \A y \in Keys(cl) : y <= max
    BY <1>1, <2>1, MaxOfBounded
  <2> QED
    BY <2>2, <2>3
<1>3. /\ min \in Int /\ max \in Int /\ a[1] \in Int
      /\ n[1] = a[1] - min /\ (IsInteger(n) <=> IsInteger(a))
  BY <1>1, <1>2, NumberParts DEF SubtractInt, IsInteger
<1>4. range < MaxRange /\ MaxRange \in Nat /\ MaxRange <= INT32_MAX
      /\ UINT32_MAX = 2 * INT32_MAX + 1
  BY ConstantTypes DEF UsesTable
<1>5. JumpTable(cl, a, sign) = IF hit THEN ClauseOf(cl, min + i) ELSE 0
  BY DEF JumpTable
<1>6. n[1] >= 0 /\ i < range => i = n[1] /\ min + i = a[1]
  <2> HIDE DEF min, max, n
  <2> QED
    BY <1>1, <1>3, <1>4 DEF ToUint32
<1>7. /\ ~negative => n[1] >= 0
      /\ negative => overlooked \/ n[1] < 0
  <2>1. CASE min # 0
    <3> HIDE DEF min, n
    <3> QED
      BY <1>3, <2>1
  <2>2. CASE min = 0
    <3>1. n[1] = a[1] /\ (negative <=> sign)
      BY <1>3, <2>2
    <3>2. CASE a = Zero
      <4>1. a[1] = 0
        BY <3>2 DEF Zero
      <4> QED
        BY <2>2, <3>1, <3>2, <4>1
    <3>3. CASE a # Zero
      <4>1. sign <=> a[1] < 0
        BY <3>3 DEF Signs
      <4> HIDE DEF min, n, negative
      <4> QED
        BY <1>3, <3>1, <4>1
    <3> QED
      BY <3>2, <3>3
  <2> QED
    BY <2>1, <2>2
<1>8. CASE hit
  <2>1. IsInteger(a) /\ min + i = a[1] /\ a[1] \in Keys(cl)
    BY <1>3, <1>6, <1>7, <1>8
  <2>2. <<a[1], ClauseOf(cl, a[1])>> \in values(cl)
    BY <2>1, TableTypes
  <2>3. ClauseOf(cl, a[1]) \in Matching(cl, a)
    BY <2>1, <2>2, TableIsComplete
  <2> QED
    BY <1>5, <1>8, <2>1, <2>3
<1>9. ASSUME ~hit, ~overlooked, NEW k \in Matching(cl, a) PROVE FALSE
  <2>1. IsInteger(a) /\ a[1] \in Keys(cl)
    <3>1. IsInteger(a) /\ <<a[1], k>> \in values(cl)
      BY <1>9, TableIsComplete
    <3> QED
      BY <3>1 DEF Keys
  <2>2. min <= a[1] /\ a[1] <= max
    BY <1>2, <2>1
  <2>3. n[1] >= 0 /\ i = n[1] /\ i < range
    <3> HIDE DEF min, max, n
    <3> QED
      BY <1>1, <1>3, <1>4, <2>2 DEF ToUint32
  <2> QED
    BY <1>3, <1>6, <1>7, <1>9, <2>1, <2>3
<1> QED
  BY <1>5, <1>8, <1>9

-----------------------------------------------------------------------------
(* The overlap test.                                                       *)

(* AtMost is an order on the numbers.                                      *)
LEMMA AtMostOrder ==
  ASSUME NEW a \in Number
  PROVE  /\ AtMost(a, a)
         /\ \A l, h \in Number : AtMost(l, a) /\ AtMost(a, h) => AtMost(l, h)
         /\ \A l, h \in Number : AtMost(l, a) /\ AtMost(a, h) /\ l = h => a = l
<1>1. AtMost(a, a)
  BY DEF AtMost
<1>2. ASSUME NEW l \in Number, NEW h \in Number, AtMost(l, a), AtMost(a, h)
      PROVE  AtMost(l, h) /\ (l = h => a = l)
  <2>1. /\ a[1] \in Int /\ a[2] \in Int /\ l[1] \in Int /\ l[2] \in Int
        /\ h[1] \in Int /\ h[2] \in Int
    BY NumberParts
  <2>2. /\ (a = l <=> a[1] = l[1] /\ a[2] = l[2]) /\ (a = h <=> a[1] = h[1] /\ a[2] = h[2])
        /\ (l = h <=> l[1] = h[1] /\ l[2] = h[2])
    BY NumberParts
  <2> QED
    BY <1>2, <2>1, <2>2 DEF AtMost, Less
<1> QED
  BY <1>1, <1>2

(* It is total, and a number is between the ones 1 below and above.        *)
LEMMA AtMostTotal ==
  ASSUME NEW a \in Number
  PROVE  /\ \A b \in Number : AtMost(a, b) \/ AtMost(b, a)
         /\ SubtractInt(a, 0) = a
         /\ AtMost(SubtractInt(a, 1), a) /\ AtMost(a, SubtractInt(a, -1))
         /\ SubtractInt(a, 1) # a /\ SubtractInt(a, -1) # a
         /\ SubtractInt(a, 1) # SubtractInt(a, -1)
<1>1. PICK m \in Int, f \in Fractions : a = <<m, f>>
  BY DEF Number
<1>2. f \in Int
  BY <1>1, NumberParts
<1>3. \A n \in {-1, 0, 1} : SubtractInt(a, n) = <<m - n, f>>
  BY <1>1 DEF SubtractInt
<1>4. /\ SubtractInt(a, 0) = a
      /\ AtMost(SubtractInt(a, 1), a) /\ AtMost(a, SubtractInt(a, -1))
      /\ SubtractInt(a, 1) # a /\ SubtractInt(a, -1) # a
      /\ SubtractInt(a, 1) # SubtractInt(a, -1)
  BY <1>1, <1>2, <1>3 DEF AtMost, Less
<1>5. ASSUME NEW b \in Number PROVE AtMost(a, b) \/ AtMost(b, a)
  <2>1. PICK n \in Int, g \in Fractions : b = <<n, g>>
    BY DEF Number
  <2>2. g \in Int
    BY <2>1, NumberParts
  <2> QED
    BY <1>1, <1>2, <2>1, <2>2 DEF AtMost, Less
<1> QED
  BY <1>4, <1>5

(***************************************************************************)
(* Two conditions that no number may satisfy together, unless one of them  *)
(* is a strict comparison, are told to overlap when some number does.      *)
(***************************************************************************)
LEMMA OverlapFound ==
  ASSUME NEW c \in Condition, NEW d \in Condition,
         c.comp \notin {"LT", "GT"}, d.comp \notin {"LT", "GT"},
         NEW a \in Number, Holds(c, a), Holds(d, a)
  PROVE  overlaps(c, d)
<1>1. /\ c.comp \in {"EQ", "NE", "LE", "GE", "TO"} /\ d.comp \in {"EQ", "NE", "LE", "GE", "TO"}
      /\ c.low \in Number /\ c.high \in Number /\ d.low \in Number /\ d.high \in Number
  BY DEF Condition, Comparisons
<1>2. /\ AtMost(a, a)
      /\ \A l \in Number : AtMost(l, a) => \A h \in Number : AtMost(a, h) => AtMost(l, h)
      /\ \A l, h \in Number : AtMost(l, a) /\ AtMost(a, h) /\ l = h => a = l
  BY AtMostOrder
<1>3. CASE c.comp = "TO" /\ d.comp = "TO"
  BY <1>1, <1>2, <1>3 DEF overlaps, CheckRanges, Holds
<1>4. ASSUME NEW e \in Condition, NEW r \in Condition, Holds(e, a), Holds(r, a),
             e.comp \in {"EQ", "NE", "LE", "GE"}, r.comp = "TO"
      PROVE  CheckRange(e, r)
  <2>1. e.low \in Number /\ r.low \in Number /\ r.high \in Number
    BY DEF Condition
  <2>2. AtMost(r.low, a) /\ AtMost(a, r.high) /\ Compare(e.comp, a, e.low)
    BY <1>4 DEF Holds
  <2>3. CASE e.comp = "EQ"
    BY <2>2, <2>3 DEF CheckRange, Compare
  <2>4. CASE e.comp = "NE"
    BY <1>2, <2>1, <2>2, <2>4 DEF CheckRange, Compare
  <2>5. CASE e.comp = "LE"
    BY <1>2, <2>1, <2>2, <2>5 DEF CheckRange, Compare
  <2>6. CASE e.comp = "GE"
    BY <1>2, <2>1, <2>2, <2>6 DEF CheckRange, Compare
  <2> QED
    BY <1>4, <2>3, <2>4, <2>5, <2>6
<1>5. ASSUME c.comp # "TO", d.comp # "TO" PROVE CheckComparisons(c, d)
  <2>1. Compare(c.comp, a, c.low) /\ Compare(d.comp, a, d.low)
    BY <1>5 DEF Holds
  <2>2. CASE c.comp = "EQ"
    BY <1>1, <1>2, <2>1, <2>2 DEF CheckComparisons, Compare
  <2>3. CASE c.comp = "NE"
    BY <1>1, <1>2, <2>1, <2>3 DEF CheckComparisons, Compare
  <2>4. CASE c.comp = "LE"
    BY <1>1, <1>2, <1>5, <2>1, <2>4 DEF CheckComparisons, Compare
  <2>5. CASE c.comp = "GE"
    BY <1>1, <1>2, <1>5, <2>1, <2>5 DEF CheckComparisons, Compare
  <2> QED
    BY <1>1, <1>5, <2>2, <2>3, <2>4, <2>5
<1>6. CASE c.comp = "TO" /\ d.comp # "TO"
  BY <1>1, <1>4, <1>6 DEF overlaps
<1>7. CASE c.comp # "TO" /\ d.comp = "TO"
  BY <1>1, <1>4, <1>7 DEF overlaps
<1>8. CASE c.comp # "TO" /\ d.comp # "TO"
  BY <1>5, <1>8 DEF overlaps
<1> QED
  BY <1>3, <1>6, <1>7, <1>8

(***************************************************************************)
(* Conversely, two such conditions that are told to overlap are satisfied  *)
(* by one of the numbers they compare with, or by one next to it.          *)
(***************************************************************************)
Satisfied(c, d) == \E a \in Witnesses : Holds(c, a) /\ Holds(d, a)

LEMMA OverlapIsReal ==
  ASSUME RangesAscend, LimitsWitnessed, NEW c \in Conditions, NEW d \in Conditions,
         c.comp \notin {"LT", "GT"}, d.comp \notin {"LT", "GT"}, overlaps(c, d)
  PROVE  Satisfied(c, d)
<1>1. \A e \in {c, d} :
        /\ e.comp \in {"EQ", "NE", "LE", "GE", "TO"} /\ e.low \in Number /\ e.high \in Number
        /\ e.low \in Witnesses /\ SubtractInt(e.low, 1) \in Witnesses
        /\ SubtractInt(e.low, -1) \in Witnesses
        /\ e.comp = "TO" => AtMost(e.low, e.high) /\ e.high \in Witnesses
  <2> SUFFICES ASSUME NEW e \in {c, d}
               PROVE  /\ e.comp \in {"EQ", "NE", "LE", "GE", "TO"}
                      /\ e.low \in Number /\ e.high \in Number
                      /\ e.low \in Witnesses /\ SubtractInt(e.low, 1) \in Witnesses
                      /\ SubtractInt(e.low, -1) \in Witnesses
                      /\ e.comp = "TO" => AtMost(e.low, e.high) /\ e.high \in Witnesses
    OBVIOUS
  <2>1. e \in Conditions /\ e \in Condition
    BY ConstantTypes
  <2>2. e.comp \in {"EQ", "NE", "LE", "GE", "TO"} /\ e.low \in Number /\ e.high \in Number
    BY <2>1 DEF Condition, Comparisons
  <2>3. SubtractInt(e.low, 0) = e.low
    BY <2>2, AtMostTotal
  <2> QED
    BY <2>1, <2>2, <2>3 DEF RangesAscend, LimitsWitnessed
<1>2. ASSUME NEW e \in {c, d}, NEW r \in {c, d}, e.comp # "TO", r.comp = "TO", CheckRange(e, r)
      PROVE  Satisfied(e, r)
  <2>1. AtMost(r.low, r.low) /\ AtMost(r.high, r.high) /\ AtMost(r.low, r.high)
    BY <1>1, <1>2, AtMostOrder
  <2>2. Holds(r, r.low) /\ Holds(r, r.high)
    BY <1>2, <2>1 DEF Holds
  <2>3. CASE e.comp = "EQ"
    BY <1>1, <1>2, <2>3 DEF CheckRange, Holds, Compare, Satisfied
  <2>4. CASE e.comp = "NE"
    BY <1>1, <1>2, <2>2, <2>4 DEF CheckRange, Holds, Compare, Satisfied
  <2>5. CASE e.comp = "LE"
    BY <1>1, <1>2, <2>2, <2>5 DEF CheckRange, Holds, Compare, Satisfied
  <2>6. CASE e.comp = "GE"
    BY <1>1, <1>2, <2>2, <2>6 DEF CheckRange, Holds, Compare, Satisfied
  <2> QED
    BY <1>1, <1>2, <2>3, <2>4, <2>5, <2>6
<1>3. CASE c.comp = "TO" /\ d.comp = "TO"
  <2>1. AtMost(d.low, c.high) /\ AtMost(c.low, d.high)
    BY <1>3 DEF overlaps, CheckRanges
  <2>2. AtMost(c.low, c.low) /\ AtMost(d.low, d.low) /\ (AtMost(c.low, d.low) \/ AtMost(d.low, c.low))
    BY <1>1, AtMostOrder, AtMostTotal
  <2> QED
    BY <1>1, <1>3, <2>1, <2>2 DEF Holds, Satisfied
<1>4. ASSUME c.comp # "TO", d.comp # "TO" PROVE Satisfied(c, d)
  <2> DEFINE v == c.low
             w == d.low
  <2>1. CheckComparisons(c, d)
    BY <1>4 DEF overlaps
  <2>2. /\ \A a : Holds(c, a) <=> Compare(c.comp, a, v)
        /\ \A a : Holds(d, a) <=> Compare(d.comp, a, w)
    BY <1>4 DEF Holds
  <2>3. /\ v \in Witnesses /\ AtMost(v, v)
        /\ SubtractInt(v, 1) \in Witnesses /\ AtMost(SubtractInt(v, 1), v)
        /\ SubtractInt(v, -1) \in Witnesses /\ AtMost(v, SubtractInt(v, -1))
        /\ SubtractInt(v, 1) # v /\ SubtractInt(v, -1) # v
        /\ SubtractInt(v, 1) # SubtractInt(v, -1)
    BY <1>1, AtMostOrder, AtMostTotal
  <2>4. /\ w \in Witnesses /\ AtMost(w, w)
        /\ SubtractInt(w, 1) \in Witnesses /\ AtMost(SubtractInt(w, 1), w)
        /\ SubtractInt(w, -1) \in Witnesses /\ AtMost(w, SubtractInt(w, -1))
        /\ SubtractInt(w, 1) # w /\ SubtractInt(w, -1) # w
    BY <1>1, AtMostOrder, AtMostTotal
  <2>5. AtMost(v, w) \/ AtMost(w, v)
    BY <1>1, AtMostTotal
  <2> HIDE DEF v, w
  <2>6. CASE c.comp = "EQ"
    BY <2>1, <2>2, <2>3, <2>6 DEF CheckComparisons, Compare, Satisfied, v, w
  <2>7. CASE c.comp = "NE"
    <3>1. CASE d.comp = "EQ"
      BY <2>1, <2>2, <2>4, <2>7, <3>1 DEF CheckComparisons, Compare, Satisfied, v, w
    <3>2. CASE d.comp = "NE"
      BY <2>2, <2>3, <2>7, <3>2 DEF Compare, Satisfied
    <3>3. CASE d.comp = "LE"
      BY <2>2, <2>4, <2>7, <3>3 DEF Compare, Satisfied
    <3>4. CASE d.comp = "GE"
      BY <2>2, <2>4, <2>7, <3>4 DEF Compare, Satisfied
    <3> QED
      BY <1>1, <1>4, <3>1, <3>2, <3>3, <3>4
  <2>8. CASE c.comp = "LE"
    <3>1. CASE d.comp = "EQ" \/ d.comp = "GE"
      BY <2>1, <2>2, <2>4, <2>8, <3>1 DEF CheckComparisons, Compare, Satisfied, v, w
    <3>2. CASE d.comp = "NE"
      BY <2>2, <2>3, <2>8, <3>2 DEF Compare, Satisfied
    <3>3. CASE d.comp = "LE"
      BY <2>2, <2>3, <2>4, <2>5, <2>8, <3>3 DEF Compare, Satisfied
    <3> QED
      BY <1>1, <1>4, <3>1, <3>2, <3>3
  <2>9. CASE c.comp = "GE"
    <3>1. CASE d.comp = "EQ" \/ d.comp = "LE"
      BY <2>1, <2>2, <2>4, <2>9, <3>1 DEF CheckComparisons, Compare, Satisfied, v, w
    <3>2. CASE d.comp = "NE"
      BY <2>2, <2>3, <2>9, <3>2 DEF Compare, Satisfied
    <3>3. CASE d.comp = "GE"
      BY <2>2, <2>3, <2>4, <2>5, <2>9, <3>3 DEF Compare, Satisfied
    <3> QED
      BY <1>1, <1>4, <3>1, <3>2, <3>3
  <2> QED
    BY <1>1, <1>4, <2>6, <2>7, <2>8, <2>9
<1>5. CASE c.comp = "TO" /\ d.comp # "TO"
  <2>1. Satisfied(d, c)
    BY <1>2, <1>5 DEF overlaps
  <2> QED
    BY <2>1 DEF Satisfied
<1>6. CASE c.comp # "TO" /\ d.comp = "TO"
  BY <1>2, <1>6 DEF overlaps
<1> QED
  BY <1>3, <1>4, <1>5, <1>6

-----------------------------------------------------------------------------
(* The steps of the analyzer.                                              *)

(* Statement more is cl with condition c added at place new.               *)
Extends(cl, more, new, c) ==
  /\ more \in Seq(Seq(Conditions)) /\ Len(cl) <= Len(more)
  /\ Positions(more) \subseteq Positions(cl) \cup {new}
  /\ more[new[1]][new[2]] = c
  /\ \A p \in Positions(cl) : more[p[1]][p[2]] = cl[p[1]][p[2]]

LEMMA PositionParts ==
  ASSUME NEW cl \in Seq(Seq(Conditions)), NEW p
  PROVE  p \in Positions(cl) <=>
           \E k \in 1..Len(cl) : \E j \in 1..Len(cl[k]) : p = <<k, j>> /\ cl[k][j] \in Conditions
<1>1. \A k \in 1..Len(cl) : cl[k] \in Seq(Conditions)
  OBVIOUS
<1>2. DOMAIN cl = 1..Len(cl) /\ \A k \in 1..Len(cl) : DOMAIN cl[k] = 1..Len(cl[k])
  BY <1>1
<1>3. \A k \in 1..Len(cl) : \A j \in 1..Len(cl[k]) : cl[k][j] \in Conditions
  BY <1>1
<1>4. p \in Positions(cl) <=> \E k \in DOMAIN cl : \E j \in DOMAIN cl[k] : p = <<k, j>>
  BY DEF Positions
<1> QED
  BY <1>2, <1>3, <1>4

(* The first condition an overlap is found with is one of them.            *)
LEMMA FirstIsOne ==
  ASSUME NEW cl \in Seq(Seq(Conditions)), NEW ps \in SUBSET Positions(cl), ps # {}
  PROVE  First(ps) \in ps /\ cl[First(ps)[1]][First(ps)[2]] \in Conditions
<1> DEFINE K == {p[1] : p \in ps}
           k == Min(K)
           J == {p[2] : p \in {q \in ps : q[1] = k}}
<1>1. \A p \in ps : \E m \in 1..Len(cl) : \E j \in 1..Len(cl[m]) :
        p = <<m, j>> /\ cl[m][j] \in Conditions
  BY PositionParts
<1>2. K \in SUBSET (1..Len(cl)) /\ K # {} /\ 1 \in Int /\ Len(cl) \in Int
  BY <1>1
<1>3. k \in K
  <2> HIDE DEF K
  <2> QED
    BY <1>2, MinOfBounded
<1>4. k \in 1..Len(cl)
  BY <1>2, <1>3
<1>5. cl[k] \in Seq(Conditions)
  BY <1>4
<1>6. J \in SUBSET (1..Len(cl[k])) /\ J # {} /\ Len(cl[k]) \in Int
  <2> HIDE DEF k
  <2>1. Len(cl[k]) \in Int
    BY <1>5
  <2>2. \A p \in ps : p[1] = k => p[2] \in 1..Len(cl[k])
    BY <1>1
  <2>3. \E p \in ps : p[1] = k
    BY <1>3
  <2> QED
    BY <2>1, <2>2, <2>3
<1>7. Min(J) \in J
  <2> HIDE DEF J
  <2> QED
    BY <1>2, <1>6, MinOfBounded
<1>8. First(ps) = <<k, Min(J)>>
  BY DEF First
<1>9. PICK p \in ps : p[1] = k /\ p[2] = Min(J)
  BY <1>7
<1>10. p = <<k, Min(J)>> /\ cl[k][Min(J)] \in Conditions
  <2> HIDE DEF k, J
  <2> QED
    BY <1>1, <1>9
<1> QED
  <2> HIDE DEF k, J
  <2> QED
    BY <1>8, <1>9, <1>10

(* A condition that begins a clause, and one that continues the last.      *)
LEMMA WhenExtends ==
  ASSUME NEW cl \in Seq(Seq(Conditions)), NEW c \in Conditions
  PROVE  Extends(cl, Append(cl, <<c>>), <<Len(cl) + 1, 1>>, c)
<1> DEFINE more == Append(cl, <<c>>)
<1>1. /\ <<c>> \in Seq(Conditions) /\ Len(cl) \in Nat
      /\ more \in Seq(Seq(Conditions)) /\ Len(more) = Len(cl) + 1
      /\ more[Len(cl) + 1] = <<c>> /\ \A k \in 1..Len(cl) : more[k] = cl[k]
  OBVIOUS
<1> HIDE DEF more
<1>2. ASSUME NEW p \in Positions(more) PROVE p \in Positions(cl) \cup {<<Len(cl) + 1, 1>>}
  <2>1. PICK k \in 1..Len(more) : \E j \in 1..Len(more[k]) :
          p = <<k, j>> /\ more[k][j] \in Conditions
    BY <1>1, PositionParts
  <2> PICK j \in 1..Len(more[k]) : p = <<k, j>> /\ more[k][j] \in Conditions
    BY <2>1
  <2>2. CASE k = Len(cl) + 1
    <3>1. Len(more[k]) = 1
      BY <1>1, <2>2
    <3> QED
      BY <2>1, <2>2, <3>1
  <2>3. CASE k # Len(cl) + 1
    <3>1. k \in 1..Len(cl) /\ more[k] = cl[k]
      BY <1>1, <2>3
    <3> QED
      BY <2>1, <3>1, PositionParts
  <2> QED
    BY <2>2, <2>3
<1>3. ASSUME NEW p \in Positions(cl) PROVE more[p[1]][p[2]] = cl[p[1]][p[2]]
  BY <1>1, PositionParts
<1>4. more[Len(cl) + 1][1] = c
  BY <1>1
<1>5. Len(cl) <= Len(more) /\ Positions(more) \subseteq Positions(cl) \cup {<<Len(cl) + 1, 1>>}
  BY <1>1, <1>2
<1>6. Extends(cl, more, <<Len(cl) + 1, 1>>, c)
  BY <1>1, <1>3, <1>4, <1>5 DEF Extends
<1> QED
  BY <1>6 DEF more

LEMMA CommaExtends ==
  ASSUME NEW cl \in Seq(Seq(Conditions)), cl # <<>>, NEW c \in Conditions
  PROVE  Extends(cl, [cl EXCEPT ![Len(cl)] = Append(@, c)],
                 <<Len(cl), Len(cl[Len(cl)]) + 1>>, c)
<1> DEFINE last == Len(cl)
           more == [cl EXCEPT ![last] = Append(@, c)]
           grown == Append(cl[last], c)
<1>1. last \in 1..Len(cl) /\ cl[last] \in Seq(Conditions)
  BY EmptySeq
<1>2. /\ grown \in Seq(Conditions) /\ Len(grown) = Len(cl[last]) + 1
      /\ grown[Len(grown)] = c /\ \A j \in 1..Len(cl[last]) : grown[j] = cl[last][j]
      /\ Len(cl[last]) \in Nat
  BY <1>1
<1>3. /\ more \in Seq(Seq(Conditions)) /\ Len(more) = Len(cl)
      /\ more[last] = grown /\ \A k \in 1..Len(cl) : k # last => more[k] = cl[k]
  BY <1>1, <1>2
<1> HIDE DEF more, grown, last
<1>4. ASSUME NEW p \in Positions(more)
      PROVE  p \in Positions(cl) \cup {<<last, Len(cl[last]) + 1>>}
  <2>1. PICK k \in 1..Len(more) : \E j \in 1..Len(more[k]) :
          p = <<k, j>> /\ more[k][j] \in Conditions
    BY <1>3, PositionParts
  <2> PICK j \in 1..Len(more[k]) : p = <<k, j>> /\ more[k][j] \in Conditions
    BY <2>1
  <2>2. CASE k # last
    <3>1. k \in 1..Len(cl) /\ more[k] = cl[k]
      BY <1>3, <2>2
    <3> QED
      BY <2>1, <3>1, PositionParts
  <2>3. CASE k = last /\ j # Len(cl[last]) + 1
    <3>1. more[k] = grown /\ j \in 1..(Len(cl[last]) + 1) /\ j # Len(cl[last]) + 1
      BY <1>2, <1>3, <2>3
    <3>2. j \in 1..Len(cl[last])
      BY <1>2, <3>1
    <3>3. cl[last][j] = more[k][j]
      BY <1>2, <3>1, <3>2
    <3> QED
      BY <1>1, <2>1, <2>3, <3>2, <3>3, PositionParts
  <2> QED
    BY <2>1, <2>2, <2>3
<1>5. ASSUME NEW p \in Positions(cl) PROVE more[p[1]][p[2]] = cl[p[1]][p[2]]
  <2>1. PICK k \in 1..Len(cl) : \E j \in 1..Len(cl[k]) : p = <<k, j>> /\ cl[k][j] \in Conditions
    BY PositionParts
  <2>2. PICK j \in 1..Len(cl[k]) : p = <<k, j>>
    BY <2>1
  <2>3. more[k][j] = cl[k][j]
    <3>1. CASE k = last
      BY <1>2, <1>3, <3>1
    <3>2. CASE k # last
      BY <1>3, <3>2
    <3> QED
      BY <3>1, <3>2
  <2>4. p[1] = k /\ p[2] = j
    BY <2>2
  <2> QED
    BY <2>3, <2>4
<1>6. more[last][Len(cl[last]) + 1] = c
  BY <1>2, <1>3
<1>7. Len(cl) <= Len(more)
  BY <1>1, <1>3
<1> QED
  BY <1>3, <1>4, <1>5, <1>6, <1>7 DEF Extends, more, last

(* Analyze either reports an overlap or extends the statement.             *)
LEMMA AnalyzeSteps ==
  ASSUME TypeOK, NEW c \in Conditions, NEW more, NEW new,
         Extends(clauses, more, new, c), Analyze(c, more)
  PROVE  /\ clauses' \in Seq(Seq(Conditions)) /\ Len(clauses) <= Len(clauses')
         /\ error' \in {<<>>} \cup (Conditions \X Conditions)
         /\ error' # <<>> => overlaps(error'[1], error'[2])
         /\ \/ UNCHANGED clauses
            \/ /\ clauses' = more
               /\ \A p \in Positions(clauses) : ~overlaps(c, clauses[p[1]][p[2]])
<1> DEFINE found == {p \in Positions(clauses) : overlaps(c, clauses[p[1]][p[2]])}
<1>1. clauses \in Seq(Seq(Conditions)) /\ Len(clauses) \in Nat
      /\ error \in {<<>>} \cup (Conditions \X Conditions)
  BY DEF TypeOK
<1>2. CASE found = {}
  <2>1. clauses' = more /\ error' = error /\ error = <<>>
    BY <1>2 DEF Analyze, Analyzing
  <2>2. \A p \in Positions(clauses) : ~overlaps(c, clauses[p[1]][p[2]])
    BY <1>2
  <2> HIDE DEF found
  <2> QED
    BY <1>1, <2>1, <2>2 DEF Extends
<1>3. CASE found # {}
  <2>1. UNCHANGED clauses /\ error' = <<c, clauses[First(found)[1]][First(found)[2]]>>
    BY <1>3 DEF Analyze
  <2>2. First(found) \in found /\ clauses[First(found)[1]][First(found)[2]] \in Conditions
    <3>1. found \in SUBSET Positions(clauses)
      OBVIOUS
    <3> HIDE DEF found
    <3> QED
      BY <1>1, <1>3, <3>1, FirstIsOne
  <2>3. overlaps(c, clauses[First(found)[1]][First(found)[2]])
    BY <2>2
  <2> HIDE DEF found
  <2> QED
    BY <1>1, <2>1, <2>2, <2>3
<1> QED
  BY <1>2, <1>3

LEMMA AnalyzerSteps ==
  ASSUME TypeOK, When \/ Comma
  PROVE  \E c \in Conditions : \E more, new :
           Extends(clauses, more, new, c) /\ Analyze(c, more)
<1>1. clauses \in Seq(Seq(Conditions))
  BY DEF TypeOK
<1>2. CASE When
  <2>1. PICK c \in Conditions : Analyze(c, Append(clauses, <<c>>))
    BY <1>2 DEF When
  <2> QED
    BY <1>1, <2>1, WhenExtends
<1>3. CASE Comma
  <2>1. clauses # <<>>
    BY <1>3 DEF Comma
  <2>2. PICK c \in Conditions : Analyze(c, [clauses EXCEPT ![Len(clauses)] = Append(@, c)])
    BY <1>3 DEF Comma
  <2> QED
    BY <1>1, <2>1, <2>2, CommaExtends
<1> QED
  BY <1>2, <1>3

-----------------------------------------------------------------------------
(* The theorems.                                                           *)

(* The types, and: a jump table is only used where UsesTable allows it.    *)
IInv == TypeOK /\ (phase = "table" => UsesTable(clauses))

LEMMA InitIInv == Init => IInv
<1> SUFFICES ASSUME Init PROVE IInv
  OBVIOUS
<1>1. Zero \in Number /\ FALSE \in Signs(Zero)
  BY ConstantTypes DEF Number, Fractions, Zero, Signs
<1>2. <<>> \in Seq(Seq(Conditions)) /\ Len(<<>>) = 0
  OBVIOUS
<1>3. x \in Number /\ minus \in Signs(x)
  BY <1>1 DEF Init
<1> QED
  BY <1>2, <1>3 DEF Init, IInv, TypeOK

LEMMA NextIInv == IInv /\ [Next]_vars => IInv'
<1> SUFFICES ASSUME IInv, [Next]_vars PROVE IInv'
  OBVIOUS
<1>1. /\ clauses \in Seq(Seq(Conditions)) /\ Len(clauses) \in Nat
      /\ error \in {<<>>} \cup (Conditions \X Conditions)
      /\ phase \in {"analyze", "table", "linear", "done"}
      /\ x \in Number /\ minus \in Signs(x) /\ taken \in 0..Len(clauses)
  BY DEF IInv, TypeOK
<1>2. CASE When \/ Comma
  <2> PICK c \in Conditions : \E more, new : Extends(clauses, more, new, c) /\ Analyze(c, more)
    BY <1>2, AnalyzerSteps DEF IInv
  <2>1. PICK more, new : Extends(clauses, more, new, c) /\ Analyze(c, more)
    OBVIOUS
  <2>2. /\ clauses' \in Seq(Seq(Conditions)) /\ Len(clauses) <= Len(clauses')
        /\ error' \in {<<>>} \cup (Conditions \X Conditions)
    BY <2>1, AnalyzeSteps DEF IInv
  <2>3. phase = "analyze" /\ UNCHANGED <<phase, x, minus, taken>>
    BY <2>1 DEF Analyze, Analyzing
  <2>4. taken' \in 0..Len(clauses')
    <3>1. Len(clauses') \in Nat
      BY <2>2
    <3> QED
      BY <1>1, <2>2, <2>3, <3>1
  <2> QED
    BY <1>1, <2>2, <2>3, <2>4 DEF IInv, TypeOK
<1>3. CASE Generate
  BY <1>1, <1>3 DEF Generate, IInv, TypeOK
<1>4. CASE Execute
  <2>1. x' \in Number /\ minus' \in Signs(x') /\ phase' = "done" /\ UNCHANGED <<clauses, error>>
    BY <1>4, ConstantTypes DEF Execute
  <2>2. taken' \in 0..Len(clauses)
    <3>1. CASE phase = "table"
      <4>1. taken' = JumpTable(clauses, x', minus') /\ UsesTable(clauses)
        BY <1>4, <3>1 DEF Execute, IInv
      <4>2. JumpTable(clauses, x', minus') = 0 \/ \E n \in Keys(clauses) :
              JumpTable(clauses, x', minus') = ClauseOf(clauses, n)
        BY DEF JumpTable
      <4>3. \A n \in Keys(clauses) : ClauseOf(clauses, n) \in 1..Len(clauses)
        BY <1>1, <4>1, TableTypes
      <4> QED
        BY <1>1, <4>1, <4>2, <4>3
    <3>2. CASE phase # "table"
      BY <1>1, <1>4, <2>1, <3>2, LinearMatches DEF Execute
    <3> QED
      BY <3>1, <3>2
  <2> QED
    BY <1>1, <2>1, <2>2 DEF IInv, TypeOK
<1>5. CASE UNCHANGED vars
  BY <1>1, <1>5 DEF vars, IInv, TypeOK
<1> QED
  BY <1>2, <1>3, <1>4, <1>5 DEF Next

(* Every variable keeps its type; in particular the clause that is taken   *)
(* is one of the statement, or WHEN OTHERS.                                *)
THEOREM TypeCorrect == Spec => []TypeOK
<1>1. IInv => TypeOK
  BY DEF IInv
<1> QED
  BY <1>1, InitIInv, NextIInv, PTL DEF Spec

(***************************************************************************)
(* If the values fit int32_t, the CASE statement takes a clause that       *)
(* matches and WHEN OTHERS only if none does, as a jump table just as      *)
(* clause by clause, whatever number it is executed with; except that a    *)
(* table from 0 takes WHEN OTHERS for a zero with the sign bit.            *)
(***************************************************************************)
THEOREM CaseCorrect ==
  ASSUME ValuesFit
  PROVE  Spec => []ClauseMatches
<1>1. Init => ClauseMatches
  BY DEF Init, ClauseMatches
<1>2. IInv /\ ClauseMatches /\ [Next]_vars => ClauseMatches'
  <2> SUFFICES ASSUME IInv, ClauseMatches, [Next]_vars, phase' = "done"
               PROVE  IF Matching(clauses', x') = {} THEN taken' = 0
                      ELSE taken' \in Matching(clauses', x') \/ (taken' = 0 /\ Overlooked')
    BY DEF ClauseMatches
  <2>1. clauses \in Seq(Seq(Conditions))
    BY DEF IInv, TypeOK
  <2>2. CASE Execute
    <3>1. x' \in Number /\ minus' \in Signs(x') /\ clauses' = clauses
      BY <2>2, ConstantTypes DEF Execute
    <3>2. CASE phase = "table"
      <4>1. taken' = JumpTable(clauses, x', minus') /\ UsesTable(clauses)
        BY <2>2, <3>2 DEF Execute, IInv
      <4> QED
        BY <2>1, <3>1, <4>1, JumpTableMatches DEF Overlooked
    <3>3. CASE phase # "table"
      <4>1. taken' = Linear(clauses, x')
        BY <2>2, <3>3 DEF Execute
      <4> QED
        BY <2>1, <3>1, <4>1, LinearMatches
    <3> QED
      BY <3>2, <3>3
  <2>3. CASE UNCHANGED vars
    BY <2>3 DEF vars, ClauseMatches, Overlooked
  <2>4. ~(When \/ Comma \/ Generate)
    BY DEF When, Comma, Analyze, Analyzing, Generate
  <2> QED
    BY <2>2, <2>3, <2>4 DEF Next
<1> QED
  BY <1>1, <1>2, InitIInv, NextIInv, PTL DEF Spec

(***************************************************************************)
(* If no condition is a strict comparison, no number satisfies two         *)
(* conditions of a statement that the analyzer has accepted so far.        *)
(***************************************************************************)
THEOREM ConditionsDisjoint ==
  ASSUME NoStrictComparison
  PROVE  Spec => []NoOverlap
<1>1. Init => NoOverlap
  BY DEF Init, NoOverlap, Positions
<1>2. IInv /\ NoOverlap /\ [Next]_vars => NoOverlap'
  <2> SUFFICES ASSUME IInv, NoOverlap, [Next]_vars PROVE NoOverlap'
    OBVIOUS
  <2>1. clauses \in Seq(Seq(Conditions))
    BY DEF IInv, TypeOK
  <2>2. CASE UNCHANGED clauses
    BY <2>2 DEF NoOverlap
  <2>3. CASE When \/ Comma
    <3> PICK c \in Conditions : \E more, new : Extends(clauses, more, new, c) /\ Analyze(c, more)
      BY <2>3, AnalyzerSteps DEF IInv
    <3>1. PICK more, new : Extends(clauses, more, new, c) /\ Analyze(c, more)
      OBVIOUS
    <3>2. \/ UNCHANGED clauses
          \/ /\ clauses' = more
             /\ \A p \in Positions(clauses) : ~overlaps(c, clauses[p[1]][p[2]])
      BY <3>1, AnalyzeSteps DEF IInv
    <3>3. SUFFICES ASSUME clauses' = more,
                          \A p \in Positions(clauses) : ~overlaps(c, clauses[p[1]][p[2]]),
                          NEW p \in Positions(more), NEW q \in Positions(more), p # q,
                          NEW a \in Witnesses,
                          Holds(more[p[1]][p[2]], a), Holds(more[q[1]][q[2]], a)
                   PROVE  FALSE
      BY <2>2, <3>2 DEF NoOverlap
    <3>4. ASSUME NEW r \in Positions(clauses), Holds(clauses[r[1]][r[2]], a), Holds(c, a)
          PROVE  FALSE
      <4>1. clauses[r[1]][r[2]] \in Conditions
        BY <2>1, PositionParts
      <4>2. a \in Number /\ c \in Condition /\ clauses[r[1]][r[2]] \in Condition
        BY <4>1, ConstantTypes
      <4>3. c.comp \notin {"LT", "GT"} /\ clauses[r[1]][r[2]].comp \notin {"LT", "GT"}
        BY <4>1 DEF NoStrictComparison
      <4> QED
        BY <3>3, <3>4, <4>2, <4>3, OverlapFound
    <3>5. CASE p = new
      BY <3>1, <3>3, <3>4, <3>5 DEF Extends
    <3>6. CASE q = new
      BY <3>1, <3>3, <3>4, <3>6 DEF Extends
    <3>7. CASE p # new /\ q # new
      BY <3>1, <3>3, <3>7 DEF Extends, NoOverlap
    <3> QED
      BY <3>5, <3>6, <3>7
  <2>4. Generate \/ Execute \/ UNCHANGED vars => UNCHANGED clauses
    BY DEF Generate, Execute, vars
  <2> QED
    BY <2>2, <2>3, <2>4 DEF Next
<1> QED
  BY <1>1, <1>2, InitIInv, NextIInv, PTL DEF Spec

(***************************************************************************)
(* If no condition is a strict comparison, the two conditions an overlap   *)
(* is reported for are satisfied by some number at once.                   *)
(***************************************************************************)
THEOREM AlarmsAreReal ==
  ASSUME NoStrictComparison, RangesAscend, LimitsWitnessed
  PROVE  Spec => []NoFalseAlarm
<1> DEFINE Reported == error # <<>> => overlaps(error[1], error[2])
<1>1. Init => Reported
  BY DEF Init
<1>2. IInv /\ Reported /\ [Next]_vars => Reported'
  <2> SUFFICES ASSUME IInv, Reported, [Next]_vars PROVE Reported'
    OBVIOUS
  <2>1. CASE When \/ Comma
    <3>1. PICK c \in Conditions : \E more, new : Extends(clauses, more, new, c) /\ Analyze(c, more)
      BY <2>1, AnalyzerSteps DEF IInv
    <3> QED
      BY <3>1, AnalyzeSteps DEF IInv
  <2>2. CASE ~(When \/ Comma)
    <3>1. error' = error
      BY <2>2 DEF Next, Generate, Execute, vars
    <3> QED
      BY <3>1
  <2> QED
    BY <2>1, <2>2
<1>3. IInv /\ Reported => NoFalseAlarm
  <2> SUFFICES ASSUME IInv, Reported, error # <<>>
               PROVE  Satisfied(error[1], error[2])
    BY DEF NoFalseAlarm, Satisfied, IInv
  <2>1. PICK c \in Conditions, d \in Conditions : error = <<c, d>>
    BY DEF IInv, TypeOK
  <2>2. c.comp \notin {"LT", "GT"} /\ d.comp \notin {"LT", "GT"}
    BY DEF NoStrictComparison
  <2>3. overlaps(c, d)
    BY <2>1
  <2> QED
    BY <2>1, <2>2, <2>3, OverlapIsReal
<1> QED
  BY <1>1, <1>2, <1>3, InitIInv, NextIInv, PTL DEF Spec

=============================================================================
