---------------------------- MODULE CaseStatement ----------------------------
(***************************************************************************)
(* The CASE statement over numbers: the analyzer's test that no two WHEN   *)
(* conditions overlap (analyzer.cpp), the code generator's choice between  *)
(* a jump table and clause by clause comparison (compiler.cpp), and the    *)
(* execution of either (exec.cpp).                                         *)
(*                                                                         *)
(* A number is a pair of its integer part and a fraction in units of       *)
(* 1/Unit above it.  The decimal arithmetic is taken to be exact: the      *)
(* values are integers and fractions of few digits.  Zero may have the     *)
(* sign bit, which no comparison tells from zero without it: the statement *)
(* is executed with a number and its sign.  The clause of WHEN OTHERS,     *)
(* which is always the last, is clause 0.                                  *)
(***************************************************************************)
EXTENDS Integers, Sequences, FiniteSets, FiniteSetsExt

CONSTANTS
  Conditions,    \* the WHEN conditions that occur in a program
  Witnesses,     \* the numbers the statement may be executed with
  Unit,          \* fractions are multiples of 1/Unit
  MaxConditions, \* bound: how many conditions a statement has
  INT32_MAX, UINT32_MAX,   \* the limits of the C++ types
  MaxRange, Density        \* a table has fewer than MaxRange entries, more than 1/Density full

Fractions == 0..(Unit - 1)
Number == Int \X Fractions
Comparisons == {"EQ", "NE", "LT", "GT", "LE", "GE"}

(* WHEN comp low, or WHEN low TO high.                                     *)
Condition == [comp: Comparisons \cup {"TO"}, low: Number, high: Number]

ASSUME ConstantTypes ==
  /\ Conditions \subseteq Condition
  /\ Unit \in Nat \ {0}
  /\ Witnesses \subseteq Number
  /\ INT32_MAX \in Nat /\ UINT32_MAX = 2 * INT32_MAX + 1
  /\ MaxRange \in Nat /\ MaxRange <= INT32_MAX
  /\ Density \in Nat \ {0}

INT32_MIN == -INT32_MAX - 1

VARIABLES
  clauses, \* the clauses: sequences of conditions
  error,   \* the two conditions an error is reported for
  phase,   \* "analyze", "table" or "linear" once there is code, "done"
  x, minus, \* the number the code was executed with, its sign bit
  taken     \* the clause it took

vars == <<clauses, error, phase, x, minus, taken>>

-----------------------------------------------------------------------------
(* Numbers.                                                                *)
Less(a, b) == a[1] < b[1] \/ (a[1] = b[1] /\ a[2] < b[2])
AtMost(a, b) == Less(a, b) \/ a = b
IsInteger(a) == a[2] = 0
Zero == <<0, 0>>

(* Unary minus of 0, for one, gives a zero with the sign bit.              *)
Signs(a) == IF a = Zero THEN BOOLEAN ELSE {a[1] < 0}
SubtractInt(a, n) == <<a[1] - n, a[2]>>

(* The conversions of an integer that does not fit give these values.      *)
ToInt32(a) == IF INT32_MIN <= a[1] /\ a[1] <= INT32_MAX THEN a[1] ELSE INT32_MIN
ToUint32(a) == IF a[1] <= UINT32_MAX THEN a[1] ELSE INT32_MAX + 1

Compare(comp, a, b) ==
  CASE comp = "EQ" -> a = b
    [] comp = "NE" -> a # b
    [] comp = "LT" -> Less(a, b)
    [] comp = "GT" -> Less(b, a)
    [] comp = "LE" -> AtMost(a, b)
    [] comp = "GE" -> AtMost(b, a)

(* What the code generated for a condition computes.                       *)
Holds(c, a) ==
  IF c.comp = "TO" THEN AtMost(c.low, a) /\ AtMost(a, c.high) ELSE Compare(c.comp, a, c.low)

-----------------------------------------------------------------------------
(***************************************************************************)
(* namespace overlap: check for two comparisons, for a comparison and a    *)
(* range, and for two ranges.                                              *)
(***************************************************************************)
CheckComparisons(c, d) ==
  LET v == c.low
      w == d.low
  IN  CASE c.comp = "EQ" -> Compare(d.comp, v, w)
        [] c.comp = "NE" -> d.comp = "EQ" => v # w
        [] c.comp = "LT" -> /\ d.comp = "EQ" => Less(v, w)
                            /\ d.comp \in {"GT", "GE"} => Less(w, v)
        [] c.comp = "GT" -> /\ d.comp = "EQ" => Less(w, v)
                            /\ d.comp \in {"LT", "LE"} => Less(v, w)
        [] c.comp = "LE" -> /\ d.comp \in {"EQ", "GE"} => AtMost(w, v)
                            /\ d.comp = "GT" => Less(w, v)
        [] c.comp = "GE" -> /\ d.comp \in {"EQ", "LE"} => AtMost(v, w)
                            /\ d.comp = "LT" => Less(v, w)

CheckRange_either(c, r) ==    \* Mutant: one of the two limits is enough.
  AtMost(r.low, c.low) \/ AtMost(c.low, r.high)

CheckRange(c, r) ==
  CASE c.comp = "EQ" -> AtMost(r.low, c.low) /\ AtMost(c.low, r.high)
    [] c.comp = "NE" -> c.low # r.low \/ c.low # r.high
    [] c.comp = "LT" -> Less(r.low, c.low)
    [] c.comp = "GT" -> Less(r.high, c.low)
    [] c.comp = "LE" -> AtMost(r.low, c.low)
    [] c.comp = "GE" -> AtMost(c.low, r.high)

CheckRanges_open(r, s) == Less(s.low, r.high) /\ Less(r.low, s.high)   \* Mutant.

CheckRanges(r, s) == AtMost(s.low, r.high) /\ AtMost(r.low, s.high)

(* ComparisonWhenCondition::overlaps and RangeWhenCondition::overlaps      *)
overlaps(c, d) ==
  IF c.comp = "TO" /\ d.comp = "TO" THEN CheckRanges(c, d)
  ELSE IF c.comp = "TO" THEN CheckRange(d, c)
  ELSE IF d.comp = "TO" THEN CheckRange(c, d)
  ELSE CheckComparisons(c, d)

-----------------------------------------------------------------------------
(* The conditions of a statement, each with its clause.                    *)
Positions(cl) == UNION {{<<k, j>> : j \in DOMAIN cl[k]} : k \in DOMAIN cl}
First(ps) ==
  LET k == Min({p[1] : p \in ps}) IN <<k, Min({p[2] : p \in {q \in ps : q[1] = k}})>>
Placed(cl) == {<<p[1], cl[p[1]][p[2]]>> : p \in Positions(cl)}

(***************************************************************************)
(* The jump table: the values that get an entry, and their clause.  A      *)
(* later value would replace an earlier one.                               *)
(***************************************************************************)
Tabulated(c) ==
  /\ c.comp = "EQ"
  /\ IsInteger(c.low)
  /\ INT32_MIN < ToInt32(c.low)
  /\ ToInt32(c.low) < INT32_MAX

values(cl) == {<<ToInt32(q[2].low), q[1]>> : q \in {r \in Placed(cl) : Tabulated(r[2])}}
Keys(cl) == {v[1] : v \in values(cl)}
ClauseOf(cl, n) == Max({v[2] : v \in {w \in values(cl) : w[1] = n}})

all_integer_equality(cl) ==
  \A q \in Placed(cl) : q[2].comp = "EQ" /\ IsInteger(q[2].low)

(* max - min + 1 may not fit an int32_t.  Computed wide it is not below    *)
(* MaxRange; wrapped around it is negative, and as a size_t more than the  *)
(* number of values: there is no table either way.                         *)
UsesTable(cl) ==
  /\ all_integer_equality(cl)
  /\ Keys(cl) # {}
  /\ LET range == Max(Keys(cl)) - Min(Keys(cl)) + 1
     IN  range < MaxRange /\ Cardinality(Keys(cl)) > range \div Density

(* SUBN and JUMPTBL: the entry that is taken, and the clause it jumps to.  *)
JumpTable_from_zero(cl, a, sign) ==    \* Mutant: min is not subtracted.
  LET min == Min(Keys(cl))
      i == ToUint32(a)
  IN  IF /\ IsInteger(a) /\ ~sign
         /\ i < Max(Keys(cl)) - min + 1
         /\ min + i \in Keys(cl)
      THEN ClauseOf(cl, min + i)
      ELSE 0

(* JUMPTBL tests the sign bit.  There is no SUBN when min is 0, and else    *)
(* its difference is a zero without the sign bit or no zero.               *)
JumpTable(cl, a, sign) ==
  LET min == Min(Keys(cl))
      range == Max(Keys(cl)) - min + 1
      n == SubtractInt(a, min)
      negative == IF min = 0 THEN sign ELSE n[1] < 0
      i == ToUint32(n)
  IN  IF /\ IsInteger(n) /\ ~negative
         /\ i < range
         /\ min + i \in Keys(cl)
      THEN ClauseOf(cl, min + i)
      ELSE 0

(* The comparisons one by one; the first clause that matches.              *)
Matching(cl, a) == {q[1] : q \in {r \in Placed(cl) : Holds(r[2], a)}}

Linear(cl, a) == IF Matching(cl, a) = {} THEN 0 ELSE Min(Matching(cl, a))

-----------------------------------------------------------------------------
Init == clauses = <<>> /\ error = <<>> /\ phase = "analyze"
        /\ x = Zero /\ minus = FALSE /\ taken = 0

Count == Cardinality(Positions(clauses))

Analyzing == phase = "analyze" /\ error = <<>>

(* The analyzer meets condition c, and tests it against all before it, in  *)
(* their order: the first it overlaps with is reported.  Otherwise more is *)
(* the statement from now on.                                              *)
Analyze(c, more) ==
  /\ Analyzing /\ Count < MaxConditions
  /\ LET found == {p \in Positions(clauses) : overlaps(c, clauses[p[1]][p[2]])}
     IN  IF found = {}
         THEN clauses' = more /\ UNCHANGED error
         ELSE /\ UNCHANGED clauses
              /\ error' = <<c, clauses[First(found)[1]][First(found)[2]]>>
  /\ UNCHANGED <<phase, x, minus, taken>>

(* It begins a clause, or it is a further condition of the last clause.    *)
When == \E c \in Conditions : Analyze(c, Append(clauses, <<c>>))
Comma ==
  /\ clauses # <<>>
  /\ \E c \in Conditions :
       Analyze(c, [clauses EXCEPT ![Len(clauses)] = Append(@, c)])

Generate ==
  /\ Analyzing
  /\ phase' = IF UsesTable(clauses) THEN "table" ELSE "linear"
  /\ UNCHANGED <<clauses, error, x, minus, taken>>

Execute ==
  /\ phase \in {"table", "linear"}
  /\ x' \in Witnesses
  /\ minus' \in Signs(x')
  /\ taken' = IF phase = "table" THEN JumpTable(clauses, x', minus') ELSE Linear(clauses, x')
  /\ phase' = "done"
  /\ UNCHANGED <<clauses, error>>

Next == When \/ Comma \/ Generate \/ Execute

Spec == Init /\ [][Next]_vars

-----------------------------------------------------------------------------
(* Properties.                                                             *)

TypeOK ==
  /\ clauses \in Seq(Seq(Conditions))
  /\ error \in {<<>>} \cup (Conditions \X Conditions)
  /\ phase \in {"analyze", "table", "linear", "done"}
  /\ x \in Number /\ minus \in Signs(x)
  /\ taken \in 0..Len(clauses)

(* A zero with the sign bit misses the entry of 0 in a table from 0: such a *)
(* table takes WHEN OTHERS for it, where comparisons would find the clause. *)
Overlooked == minus /\ x = Zero /\ UsesTable(clauses) /\ Min(Keys(clauses)) = 0

(* "WHEN <value>: equality match"; "WHEN OTHERS is executed when no other  *)
(* WHEN clauses match" (statements.adoc): whatever code was generated, the *)
(* clause executed is one that matches, and 0 only if none does.  The one  *)
(* exception is the zero that a table overlooks.                           *)
ClauseMatches ==
  phase = "done" =>
    IF Matching(clauses, x) = {} THEN taken = 0
    ELSE taken \in Matching(clauses, x) \/ (taken = 0 /\ Overlooked)

(* "The values of WHEN clauses must not overlap": no number satisfies two  *)
(* conditions of a statement the analyzer has accepted.                    *)
NoOverlap ==
  \A p, q \in Positions(clauses) : p # q =>
    ~ \E a \in Witnesses :
        Holds(clauses[p[1]][p[2]], a) /\ Holds(clauses[q[1]][q[2]], a)

(* The two conditions an overlap is reported for do overlap.               *)
NoFalseAlarm ==
  /\ TypeOK
  /\ error # <<>> => \E a \in Witnesses : Holds(error[1], a) /\ Holds(error[2], a)

-----------------------------------------------------------------------------
(***************************************************************************)
(* The instance that TLC checks: 4-bit integers and quarters.  Conditions  *)
(* use integers and halves, so that between any two of them there is a     *)
(* number to execute the statement with.                                   *)
(***************************************************************************)
Comparing(comps, numbers) ==
  [comp: comps, low: numbers, high: {<<0, 0>>}]
Ranging(numbers) ==
  {c \in [comp: {"TO"}, low: numbers, high: numbers] : AtMost(c.low, c.high)}

Whole(numbers) == {<<n, 0>> : n \in numbers}
Half == <<0, 2>>

Grid == ((-10..10) \X {0, 2}) \cup ({-1, 0} \X {1, 3})

Closed ==
  Comparing({"EQ"}, Whole({-6, -3, -2, -1, 0, 1, 2, 6}) \cup {Half})
    \cup Comparing({"NE", "LE", "GE"}, Whole({-1, 1}) \cup {Half})
    \cup Ranging(Whole({-1, 1}) \cup {Half})

=============================================================================
