------------------------------ MODULE MCCodeGen ------------------------------
(***************************************************************************)
(* Model checking of CodeGen on all the sources of a small grammar: the    *)
(* body of function 2 is a loop around a compound statement in which       *)
(* another one is nested, with up to two simple statements in that;        *)
(* function 3 returns a number, function 4 is MAIN.  One source has one of *)
(* each instruction as well.                                               *)
(***************************************************************************)
EXTENDS CodeGen

LOCAL C == INSTANCE Compiler

Address == C!Op(<<>>, Instr("PUSHPL"))
Flag == C!Op(<<>>, Instr("PUSHB"))
CallG == C!Op(<<>>, [Instr("CALLF") EXCEPT !.fn = 3, !.out = 1])
Set == C!Assign(Address, C!Num)
Fail == <<"Fail">>

Simple ==
  {Set, C!Raise(Fail), C!Return(<<>>), C!ExitLoop("loop"),
   C!Assign(Address, C!Op(<<C!Num, CallG>>, Instr("ADDN"))),
   C!Assign(Address, C!Conditional(C!Conjunction(Flag, Flag), C!Num, CallG)),
   C!Assign(Address, C!Op(<<C!Num, C!TryExpr(CallG, <<PANIC>>, C!Num)>>, Instr("DIVN"))),
   C!Discard(C!TypeTest(C!Variable))}

Small == {<<s>> : s \in Simple} \cup {<<s, Set>> : s \in Simple}

Compound(bodies) ==
  {C!If(C!TypeTest(C!Variable), b, c) : b \in bodies, c \in {<<>>, <<C!NextLoop("loop")>>}}
    \cup {C!Try(b, <<C!Catch(<<Fail, PANIC>>, <<Set>>), C!Catch(<<Interrupted>>, c)>>) :
            b \in bodies, c \in {<<>>, <<C!Return(<<>>)>>}}
    \cup {C!Try(<<Set>>, <<C!Catch(<<Fail>>, b)>>) : b \in bodies}
    \cup {C!CaseTable(CallG, <<1, 0>>, <<b>>, <<Set>>) : b \in bodies}
    \cup {C!CaseLinear(C!Num, <<b, <<Set>> >>, <<>>) : b \in bodies}

Nested == Compound(UNION {{<<s>>, <<s, Set>>} : s \in Compound(Small)})

Source(s) ==
  LET body == <<C!Loop("loop", <<s>>, <<C!Increment(Address)>>), C!Return(<<>>)>>
      src == C!ModuleSource(<<>>, 4,
               <<C!Func(1, 1, FALSE, body, <<1>>),
                 C!Func(0, 0, TRUE, <<C!Return(<<C!Num>>)>>, <<1>>),
                 C!Func(0, 0, FALSE, <<>>, <<1>>)>>)
  IN  [calls |-> C!program(src), infos |-> C!FunctionTable(src)]

\* One of each instruction that is not a jump, behind the last RET.
Catalogue ==
  [Source(CHOOSE s \in Simple : TRUE) EXCEPT !.calls =
     @ \o SelectSeq([k \in DOMAIN Opcode |-> Emit(InstrN(Opcode[k], 1))],
                    LAMBDA c : c.i.op \notin BranchOps \cup {"JUMPTBL"})]

AllSources == {Source(s) : s \in Nested} \cup {Catalogue}

=============================================================================
