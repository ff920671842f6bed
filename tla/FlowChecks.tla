----------------------------- MODULE FlowChecks -----------------------------
(***************************************************************************)
(* The analyzer's flow checks of one function body, made while it is read  *)
(* from left to right: VariableChecker (uninitialised and unused           *)
(* variables, OUT parameters) and the tests that a function cannot run off *)
(* its end and that a CHECK body leaves its block (analyzer.cpp, ast.cpp). *)
(*                                                                         *)
(* Beside the checks the module keeps what they are about: `reach', the    *)
(* set of variables assigned so far for every path of control that leads   *)
(* to this point of the body.  A condition may go either way and a call    *)
(* may raise any exception.  Assigning is never undone, so a second turn   *)
(* of a loop only repeats a path of the first with more assigned; the      *)
(* paths that take each loop once are enough, and the one that goes back   *)
(* to the head of a loop is dropped.                                       *)
(*                                                                         *)
(* A state is a point of a body; an action reads the next statement, or    *)
(* the keyword that opens, divides or closes a block.  Bodies of any       *)
(* length are covered; only their nesting is bounded.                      *)
(***************************************************************************)
EXTENDS Integers, Sequences, FiniteSets, FiniteSetsExt

CONSTANTS
  Vars,          \* the names of the function's variables and OUT parameters
  Signatures,    \* lists of OUT parameters a function may have, in the order of their declaration
  ReturnsValue,  \* whether the function has a return type
  MaxDepth       \* bound: how deep blocks nest

ASSUME ConstantTypes ==
  /\ Signatures \subseteq Seq(Vars)
  /\ ReturnsValue \in BOOLEAN
  /\ MaxDepth \in Nat

VARIABLES
  scopes,   \* VariableChecker's scopes, innermost last
  blocks,   \* the statements that are open, innermost last, the function first
  last,     \* what is known of the last statement of the innermost block
  reach,    \* the sets of variables assigned on the paths that lead here
  outParameters, \* the function's OUT parameters
  hasty,    \* variables that were assigned where the checker is too hasty
  verdict   \* "open", "accepted", or the number of the error

vars == <<outParameters, scopes, blocks, last, reach, hasty, verdict>>

(* IF and CASE are "if" until ELSE or WHEN OTHERS, "condition" while the    *)
(* condition of an ELSIF (or the constants of a WHEN) is read; LOOP and    *)
(* REPEAT are "loop"; WHILE, FOR and FOREACH are "while".                  *)
Loops == {"loop", "while"}
Kinds == {"function", "if", "condition", "else", "check", "try", "trap"} \cup Loops
Usage == {"unused", "declared_unused", "used"}

-----------------------------------------------------------------------------
(* Scopes.  Those of a handler's statements are missing: VariableChecker   *)
(* does not visit handlers.                                                *)
Scope == [conditional: BOOLEAN, assigned: SUBSET Vars, usage: UNION {[D -> Usage] : D \in SUBSET Vars}]

Inner(sc) == sc[Len(sc)]
Outer(sc) == SubSeq(sc, 1, Len(sc) - 1)
NewScope(conditional, assigned) == [conditional |-> conditional, assigned |-> assigned, usage |-> <<>>]

Visible(sc) == UNION {DOMAIN sc[k].usage : k \in DOMAIN sc}

(* The innermost scope that declares v, 0 if none does.                    *)
Declarer(sc, v) == Max({0} \cup {k \in DOMAIN sc : v \in DOMAIN sc[k].usage})

UsageIs(sc, v, u) == Declarer(sc, v) # 0 /\ sc[Declarer(sc, v)].usage[v] = u

SetUsage(sc, S, u) ==
  [k \in DOMAIN sc |-> [sc[k] EXCEPT !.usage =
     [v \in DOMAIN @ |-> IF v \in S /\ k = Declarer(sc, v) THEN u ELSE @[v]]]]

(* Mutant: conditional scopes are no barrier.                              *)
Crossed_conditional(sc, v) == {k \in DOMAIN sc : k >= Declarer(sc, v)}

(* The scopes mark_assigned(v) reaches: outwards up to v's own, and up to  *)
(* the first that is only executed on a condition.                         *)
Crossed(sc, v) ==
  {k \in DOMAIN sc : /\ k >= Declarer(sc, v)
                     /\ \A j \in (k + 1)..Len(sc) : ~sc[j].conditional}

MarkAssigned(sc, S) ==
  LET marked == [k \in DOMAIN sc |->
                   [sc[k] EXCEPT !.assigned = @ \cup {v \in S : k \in Crossed(sc, v)}]]
  IN SetUsage(marked, S, "used")

(* Marking a variable of an UNUSED statement is error 3260.                *)
MarkFails(sc, S) == \E v \in S : UsageIs(sc, v, "declared_unused")

HasUnused(sc) == \E v \in DOMAIN Inner(sc).usage : Inner(sc).usage[v] = "unused"

(* Mutant: any assignment anywhere will do.                                *)
OutParameterMissing_anywhere(sc) == \E i \in DOMAIN outParameters : UsageIs(sc, outParameters[i], "unused")

(* check_out_parameters ends at the first OUT parameter that is assigned.  *)
OutParameterMissing(sc) ==
  \E i \in DOMAIN outParameters :
     /\ \A j \in 1..i : outParameters[j] \notin Inner(sc).assigned
     /\ outParameters[i] \notin sc[Declarer(sc, outParameters[i])].assigned

-----------------------------------------------------------------------------
(* Blocks.  The first Len(scopes) of them are those of the scopes.         *)
Paths == SUBSET SUBSET Vars

Block == [kind: Kinds,
          first: BOOLEAN,          \* no branch of it is finished
          assigned: SUBSET Vars,   \* the intersection over its finished branches
          entry: Paths,            \* the paths that enter its next branch, or pass it over; those
                                   \* that enter the handlers of a TRY are the ones that raised
          after: Paths,            \* the paths that lead behind it so far
          left: BOOLEAN,           \* a statement that may leave it early was read
          returns: BOOLEAN, exits: BOOLEAN]  \* of all of its finished branches

Flow == [returns: BOOLEAN,  \* always_returns()
         exits: BOOLEAN]    \* is_scope_exit_statement()

Falls == [returns |-> FALSE, exits |-> FALSE]
Leaves == [returns |-> FALSE, exits |-> TRUE]
Returns == [returns |-> TRUE, exits |-> TRUE]

NewBlock(kind) ==
  [kind |-> kind, first |-> TRUE, assigned |-> {}, entry |-> IF kind \in {"loop", "try", "else"} THEN {} ELSE reach, after |-> {},
   left |-> FALSE, returns |-> TRUE, exits |-> TRUE]

Current == Inner(blocks)
InHandler == Len(scopes) < Len(blocks)
InCondition == Current.kind = "condition"

(* An exception on the paths P goes to the innermost open TRY body, if any. *)
Trying(bs) == Max({0} \cup {k \in DOMAIN bs : bs[k].kind = "try"})
RaiseTo(bs, P) ==
  IF Trying(bs) = 0 THEN bs
  ELSE [bs EXCEPT ![Trying(bs)].entry = @ \cup P, ![Trying(bs)].left = TRUE]

(* A TRY body that ends: none of its handlers may be for the exception.    *)
PassOn(b, bs) == IF b.left THEN RaiseTo(bs, b.entry) ELSE bs

(* Mutant: the last branch decides whether the statement leaves its block. *)
FinishBranch_last(b) ==
  [b EXCEPT !.first = FALSE,
            !.assigned = IF InHandler THEN @
                         ELSE IF b.first THEN Inner(scopes).assigned
                         ELSE @ \cap Inner(scopes).assigned,
            !.after = @ \cup reach,
            !.returns = @ /\ last.returns,
            !.exits = last.exits]

FinishBranch(b) ==
  [b EXCEPT !.first = FALSE,
            !.assigned = IF InHandler THEN @
                         ELSE IF b.first THEN Inner(scopes).assigned
                         ELSE @ \cap Inner(scopes).assigned,
            !.after = @ \cup reach,
            !.returns = @ /\ last.returns,
            !.exits = @ /\ last.exits]

(* A path leads around what is read now in block b: it has left b, or has  *)
(* taken an earlier branch without assigning v.                            *)
Evaded(b, v) == b.left \/ (b.kind = "condition" /\ \E r \in b.after : v \notin r)

(* The variables the checker takes for assigned although a path may lead   *)
(* around the assignment.                                                  *)
Hasty(bs, sc, S) == {v \in S : \E k \in DOMAIN sc : Evaded(bs[k], v) /\ k - 1 \in Crossed(sc, v)}

AddTo(P, v) == {r \cup {v} : r \in P}

-----------------------------------------------------------------------------
Open == verdict = "open"

FirstScope(outs) ==
  [conditional |-> FALSE, assigned |-> {}, usage |-> [v \in {outs[i] : i \in DOMAIN outs} |-> "unused"]]

Function ==
  [kind |-> "function", first |-> TRUE, assigned |-> {}, entry |-> {}, after |-> {},
   left |-> FALSE, returns |-> TRUE, exits |-> TRUE]

Init ==
  /\ outParameters \in Signatures
  /\ scopes = <<FirstScope(outParameters)>> /\ blocks = <<Function>> /\ last = Falls
  /\ reach = {{}} /\ hasty = {}
  /\ verdict = "open"

(* An error ends the compilation, and what is known of the body is gone.   *)
Reject(number) ==
  /\ scopes' = <<FirstScope(outParameters)>> /\ blocks' = <<Function>> /\ last' = Falls
  /\ reach' = {{}} /\ hasty' = {}
  /\ verdict' = number

-----------------------------------------------------------------------------
(* Statements.                                                             *)

(* VAR v, or VAR v := e and LET v := e.  A name may be declared again when *)
(* its scope is closed; it may still be in `assigned' then.  Declarations  *)
(* in handlers are left out.                                               *)
Declare(v, initialised) ==
  /\ Open /\ ~InHandler /\ v \notin Visible(scopes)
  /\ scopes' = [scopes EXCEPT ![Len(scopes)].usage = [x \in DOMAIN @ \cup {v} |-> IF x = v THEN "unused" ELSE @[x]],
                              ![Len(scopes)].assigned = IF initialised THEN @ \cup {v} ELSE @]
  /\ reach' = IF initialised THEN AddTo(reach, v) ELSE {r \ {v} : r \in reach}
  /\ hasty' = IF ~initialised /\ v \in Inner(scopes).assigned THEN hasty \cup {v} ELSE hasty
  /\ last' = Falls
  /\ UNCHANGED <<blocks, verdict>>

(* An expression that reads v.                                             *)
Read(v) ==
  /\ Open /\ v \in Visible(scopes)
  /\ IF InHandler
       THEN last' = Falls /\ UNCHANGED <<scopes, blocks, reach, hasty, verdict>>
     ELSE IF v \notin Inner(scopes).assigned THEN Reject("N3190")
     ELSE IF MarkFails(scopes, {v}) THEN Reject("N3260")
     ELSE /\ scopes' = SetUsage(scopes, {v}, "used")
          /\ last' = Falls
          /\ UNCHANGED <<blocks, reach, hasty, verdict>>

(* v := e, or f(OUT v) where raises says that f may raise an exception     *)
(* before it assigns; sometimes says that the call may not be evaluated, or*)
(* may raise and be caught: it is the right side of an AND, an OR or a     *)
(* chained comparison, in a part of an IF expression, in a TRY expression, *)
(* or in an ASSERT, which may be disabled.                                 *)
Assign(v, raises, sometimes) ==
  /\ Open /\ v \in Visible(scopes)
  /\ blocks' = IF raises THEN RaiseTo(blocks, reach) ELSE blocks
  /\ reach' = IF sometimes THEN reach \cup AddTo(reach, v) ELSE AddTo(reach, v)
  /\ last' = Falls
  /\ ~InHandler /\ ~MarkFails(scopes, {v})
  /\ scopes' = MarkAssigned(scopes, {v})
  /\ hasty' = hasty \cup (IF sometimes THEN {v} ELSE Hasty(blocks', scopes, {v}))
  /\ UNCHANGED verdict

(* The assignment in a handler, which the checker does not see.            *)
AssignInHandler(v, raises, sometimes) ==
  /\ Open /\ v \in Visible(scopes) /\ InHandler
  /\ blocks' = IF raises THEN RaiseTo(blocks, reach) ELSE blocks
  /\ reach' = IF sometimes THEN reach \cup AddTo(reach, v) ELSE AddTo(reach, v)
  /\ last' = Falls
  /\ UNCHANGED <<scopes, hasty, verdict>>

AssignFails(v) ==
  /\ Open /\ v \in Visible(scopes)
  /\ ~InHandler /\ MarkFails(scopes, {v})
  /\ Reject("N3260")

(* UNUSED v.                                                               *)
DeclareUnused(v) ==
  /\ Open /\ ~InHandler /\ v \in Visible(scopes)
  /\ IF UsageIs(scopes, v, "used")
       THEN Reject("N3259")
       ELSE /\ scopes' = SetUsage(scopes, {v}, "declared_unused")
            /\ last' = Falls
            /\ UNCHANGED <<blocks, reach, hasty, verdict>>

(* A call that may raise an exception.                                     *)
Call ==
  /\ Open
  /\ blocks' = RaiseTo(blocks, reach)
  /\ last' = Falls
  /\ UNCHANGED <<scopes, reach, hasty, verdict>>

Raise ==
  /\ Open
  /\ blocks' = RaiseTo(blocks, reach)
  /\ reach' = {}
  /\ last' = Returns
  /\ UNCHANGED <<scopes, hasty, verdict>>

(* RETURN, or EXIT FUNCTION in a function without a value.                 *)
Return ==
  /\ Open
  /\ IF ~InHandler /\ OutParameterMissing(scopes)
       THEN Reject("N3191")
       ELSE /\ reach' = {}
            /\ last' = Returns
            /\ UNCHANGED <<scopes, blocks, hasty, verdict>>

(* EXIT: leaves the loop that has the label.                               *)
Exit(k) ==
  /\ Open /\ blocks[k].kind \in Loops
  /\ blocks' = [blocks EXCEPT ![k].left = TRUE, ![k].after = @ \cup reach]
  /\ reach' = {}
  /\ last' = Leaves
  /\ UNCHANGED <<scopes, hasty, verdict>>

(* NEXT: the path goes back to the head of the loop.                       *)
Next_(k) ==
  /\ Open /\ blocks[k].kind \in Loops
  /\ reach' = {}
  /\ last' = Leaves
  /\ UNCHANGED <<scopes, blocks, hasty, verdict>>

-----------------------------------------------------------------------------
(* Blocks: opening, dividing and closing them.                             *)
Enter(kind) ==
  /\ Open /\ Len(blocks) <= MaxDepth
  /\ blocks' = Append(blocks, NewBlock(kind))
  /\ scopes' = IF InHandler THEN scopes
               ELSE Append(scopes, NewScope(kind \notin {"loop", "try"}, Inner(scopes).assigned))
  /\ last' = Falls
  /\ UNCHANGED <<reach, hasty, verdict>>

(* leave() reports the unused variables of the scope it closes.            *)
LeaveFails(kinds) ==
  /\ Open /\ Current.kind \in kinds
  /\ ~InHandler /\ HasUnused(scopes)
  /\ Reject("N3205")

CanLeave(kinds) ==
  /\ Open /\ Current.kind \in kinds
  /\ InHandler \/ ~HasUnused(scopes)

Left == IF InHandler THEN scopes ELSE Outer(scopes)

(* ELSE and WHEN OTHERS begin the last branch, ELSIF and WHEN the condition *)
(* of the next.  The condition is visited in the scope around the          *)
(* statement: until its branch begins, the scope of the branch is no       *)
(* barrier, and what is assigned is marked in both.                        *)
NextBranch(to) ==
  /\ CanLeave({"if"})
  /\ blocks' = Append(Outer(blocks), [FinishBranch(Current) EXCEPT !.kind = to, !.entry = {}])
  /\ scopes' = IF InHandler THEN scopes ELSE Append(Left, NewScope(to = "else", Inner(Left).assigned))
  /\ reach' = Current.entry
  /\ last' = Falls
  /\ UNCHANGED <<hasty, verdict>>

(* THEN, or the end of a WHEN's conditions.                                *)
BeginBranch ==
  /\ Open /\ InCondition
  /\ blocks' = [blocks EXCEPT ![Len(blocks)].kind = "if", ![Len(blocks)].entry = reach]
  /\ scopes' = IF InHandler THEN scopes ELSE [scopes EXCEPT ![Len(scopes)].conditional = TRUE]
  /\ last' = Falls
  /\ UNCHANGED <<reach, hasty, verdict>>

(* The end of an IF or CASE statement.  skips says that it may do nothing, *)
(* flow what the analyzer knows of it; joined are the variables assigned   *)
(* in all of its branches: they are marked as assigned, hence as used.     *)
EndBranches(skips, flow, joined) ==
  IF ~InHandler /\ MarkFails(Left, joined)
    THEN Reject("N3260")
    ELSE /\ reach' = Current.after \cup reach \cup (IF skips THEN Current.entry ELSE {})
         /\ blocks' = Outer(blocks)
         /\ last' = flow
         /\ scopes' = IF InHandler THEN scopes ELSE MarkAssigned(Left, joined)
         /\ hasty' = IF InHandler THEN hasty ELSE hasty \cup Hasty(blocks, Left, joined)
         /\ UNCHANGED verdict

Branches == FinishBranch(Current)

(* With ELSE or WHEN OTHERS one of the branches is taken.                  *)
EndIfElse ==
  /\ CanLeave({"else"})
  /\ EndBranches(FALSE, [returns |-> Branches.returns, exits |-> Branches.exits], Branches.assigned)

(* Without ELSE there is an empty last branch.                             *)
EndIf ==
  /\ CanLeave({"if"})
  /\ EndBranches(TRUE, Falls, Branches.assigned \cap Inner(Left).assigned)

(* Without WHEN OTHERS nothing may happen, unless the values are those of  *)
(* an ENUM or CHOICE and all of them are listed.                           *)
EndCase(exhaustive) ==
  /\ CanLeave({"if"})
  /\ EndBranches(~exhaustive, [returns |-> Branches.returns /\ exhaustive, exits |-> FALSE], {})

(* Mutant: EXIT is overlooked.                                             *)
EndLoop_left(endless) ==
  /\ CanLeave(Loops)
  /\ reach' = Current.after \cup
              (IF endless THEN {} ELSE reach \cup (IF Current.kind = "while" THEN Current.entry ELSE {}))
  /\ blocks' = Outer(blocks)
  /\ scopes' = Left
  /\ last' = [returns |-> endless, exits |-> FALSE]
  /\ UNCHANGED <<hasty, verdict>>

(* The end of a loop; endless says that it has no condition or that it is  *)
(* the constant that keeps the loop going.                                 *)
EndLoop(endless) ==
  /\ CanLeave(Loops)
  /\ reach' = Current.after \cup
              (IF endless THEN {} ELSE reach \cup (IF Current.kind = "while" THEN Current.entry ELSE {}))
  /\ blocks' = Outer(blocks)
  /\ scopes' = Left
  /\ last' = [returns |-> endless /\ ~Current.left, exits |-> FALSE]
  /\ UNCHANGED <<hasty, verdict>>

(* END CHECK: the body must have left the block around it.                 *)
EndCheck ==
  /\ CanLeave({"check"})
  /\ IF ~last.exits
       THEN Reject("N3201")
       ELSE /\ reach' = Current.entry \cup reach
            /\ blocks' = Outer(blocks)
            /\ scopes' = Left
            /\ last' = Falls
            /\ UNCHANGED <<hasty, verdict>>

(* TRAP ends the body of a TRY, or the handler before it, and begins a     *)
(* handler.                                                                *)
BeginTrap ==
  LET b == [FinishBranch(Current) EXCEPT !.kind = "trap", !.assigned = {}]
  IN /\ CanLeave({"try", "trap"})
     /\ blocks' = Append(IF Current.kind = "try" THEN PassOn(b, Outer(blocks)) ELSE Outer(blocks), b)
     /\ scopes' = Left
     /\ reach' = Current.entry
     /\ last' = Falls
     /\ UNCHANGED <<hasty, verdict>>

EndTry ==
  LET b == FinishBranch(Current)
  IN /\ CanLeave({"try", "trap"})
     /\ blocks' = IF Current.kind = "try" THEN PassOn(b, Outer(blocks)) ELSE Outer(blocks)
     /\ scopes' = Left
     /\ reach' = b.after
     /\ last' = [returns |-> b.returns, exits |-> FALSE]
     /\ UNCHANGED <<hasty, verdict>>

(* END FUNCTION.                                                           *)
EndFunction ==
  /\ Open /\ Len(blocks) = 1
  /\ IF OutParameterMissing(scopes) THEN Reject("N3191")
     ELSE IF HasUnused(scopes) THEN Reject("N3205")
     ELSE IF ReturnsValue /\ ~last.returns THEN Reject("N3085")
     ELSE /\ verdict' = "accepted"
          /\ UNCHANGED <<scopes, blocks, last, reach, hasty>>

(* What an expression may do, that of a condition included.                *)
Expression ==
  \/ \E v \in Vars :
       \/ Read(v)
       \/ \E raises, sometimes \in BOOLEAN : Assign(v, raises, sometimes) \/ AssignInHandler(v, raises, sometimes)
       \/ AssignFails(v)
  \/ Call

Statement ==
  \/ \E v \in Vars :
       \/ \E initialised \in BOOLEAN : Declare(v, initialised)
       \/ DeclareUnused(v)
  \/ Raise
  \/ Return
  \/ \E k \in DOMAIN blocks : Exit(k) \/ Next_(k)

Block_ ==
  \/ \E kind \in {"if", "else", "check", "try"} \cup Loops : Enter(kind)
  \/ LeaveFails(Kinds \ {"function"})
  \/ \E to \in {"condition", "else"} : NextBranch(to)
  \/ EndIfElse
  \/ EndIf
  \/ \E exhaustive \in BOOLEAN : EndCase(exhaustive)
  \/ \E endless \in BOOLEAN : EndLoop(endless)
  \/ EndCheck
  \/ BeginTrap
  \/ EndTry
  \/ EndFunction

Next ==
  /\ Expression \/ BeginBranch \/ (~InCondition /\ (Statement \/ Block_))
  /\ UNCHANGED outParameters

Spec == Init /\ [][Next]_vars

-----------------------------------------------------------------------------
TypeOK ==
  /\ outParameters \in Signatures
  /\ scopes \in Seq(Scope) /\ blocks \in Seq(Block)
  /\ Len(scopes) \in 1..Len(blocks) /\ Len(blocks) <= MaxDepth + 1
  /\ last \in Flow
  /\ reach \in Paths
  /\ hasty \subseteq Vars
  /\ verdict \in {"open", "accepted",
                "N3085", "N3190", "N3191", "N3201", "N3205", "N3259", "N3260"}

(* What a read is accepted for is assigned on every path that leads to it, *)
(* except for the variables where the checker is too hasty: those assigned *)
(* in the body of a LOOP, REPEAT or TRY behind a statement that may leave  *)
(* it, those assigned by the condition of an ELSIF that an earlier branch  *)
(* avoids, those assigned by an expression that may not be evaluated, and  *)
(* those declared again after a block with a variable of that name.        *)
ReadsInitialised ==
  /\ TypeOK
  /\ Open /\ ~InHandler =>
    \A v \in (Visible(scopes) \cap Inner(scopes).assigned) \ hasty : \A r \in reach : v \in r

(* The first OUT parameter is assigned on every path that returns where    *)
(* the checker looks, with the same exceptions.                            *)
OutParameterAssigned ==
  [][outParameters # <<>> /\ ((Return /\ Open') \/ (EndFunction /\ verdict' = "accepted")) =>
       InHandler \/ Head(outParameters) \in hasty \/ \A r \in reach : Head(outParameters) \in r]_vars

(* A function with a return type that is accepted has no path that runs    *)
(* off its end.                                                            *)
NoFallOff == verdict = "accepted" /\ ReturnsValue => reach = {}

(* A CHECK body never runs into the statement behind it, so what is behind *)
(* is executed only if the condition holds.                                *)
ChecksLeave == [][EndCheck /\ Open' => reach' \subseteq Current.entry]_vars

-----------------------------------------------------------------------------
\* An instance: functions without and with an OUT parameter.
AtMostOne == {<<>>} \cup {<<v>> : v \in Vars}
=============================================================================
