------------------------------ MODULE Programs ------------------------------
(***************************************************************************)
(* Programs to run: small sources that between them use every construct    *)
(* of module Compiler and every opcode family of module Bytecode.          *)
(***************************************************************************)
EXTENDS Compiler

CallF(f, in, out) == [Instr("CALLF") EXCEPT !.fn = f, !.in = in, !.out = out]
CallMF(m, f, in, out) == [Instr("CALLMF") EXCEPT !.mod = m, !.fn = f, !.in = in, !.out = out]
CallP(in, out, excs) == [Instr("CALLP") EXCEPT !.in = in, !.out = out, !.exc = excs]
CallI(in, out, impl) == [Instr("CALLI") EXCEPT !.in = in, !.out = out, !.impl = impl]
CallV(in, out, impl) == [Instr("CALLV") EXCEPT !.in = in, !.out = out, !.impl = impl]

Address == Op(<<>>, Instr("PUSHPL"))
Flag == Op(<<>>, Instr("PUSHB"))
Store(e) == Op(<<e, Address>>, Instr("STOREN"))
Less(a, b) == Op(<<a, b>>, Instr("LTN"))
Element(a, i) == Op(<<a, i>>, Instr("INDEXAV"))

FileError == <<"FileException">>
NotFound  == <<"FileException", "NotFound">>
IndexError == <<"IndexException">>

One(body, funcs) == [main |-> ModuleSource(body, 0, funcs)]

-----------------------------------------------------------------------------
(* Nested TRY statements and expressions, exceptions with sub-exceptions   *)
(* raised two calls deep, RETURN out of a TRY, a handler that raises.      *)
Nested ==
  LET thrower == Func(0, 0, FALSE,
        <<If(Flag, <<Raise(NotFound)>>, <<Raise(IndexError)>>)>>, <<1>>)
      middle == Func(1, 0, TRUE,
        <<Assign(Address, Num),
          Try(<<Perform1(Op(<<>>, CallF(2, 0, 0))), Return(<<Num>>)>>,
              <<Catch(<<NotFound, PANIC>>, <<If(Flag, <<Raise(FileError)>>, <<>>)>>)>>),
          Return(<<TryExpr(Op(<<Num, Variable>>, Instr("DIVN")), <<PANIC>>, Num)>>)>>, <<1>>)
  IN  One(<<Assign(Address, Num),
            Try(<<Assign(Address, Num),
                  Try(<<Discard(Op(<<Op(<<Num>>, CallF(3, 1, 1)), Num>>, Instr("ADDN")))>>,
                      <<Catch(<<IndexError>>, <<>>)>>),
                  Assign(Address, Num)>>,
                <<Catch(<<FileError>>, <<Assign(Address, Num)>>),
                  Catch(<<PANIC, Interrupted>>, <<>>)>>)>>,
          <<thrower, middle>>)

(* A function that recurses until the recursion limit stops it, nested     *)
(* functions that reach the variables of the functions around them, IN and *)
(* OUT parameters, and a call of MAIN.                                     *)
Recursive ==
  LET rec == Func(0, 1, FALSE,
        <<If(Flag, <<Assign(Address, Op(<<>>, CallF(4, 0, 1)))>>, <<>>)>>, <<1>>)
      inner == Func(1, 0, TRUE,
        <<If(Conjunction(Flag, Less(OuterVariable(1), Num)),
             <<Return(<<Op(<<Num>>, CallF(3, 1, 1))>>)>>,
             <<Assign(Address, Op(<<>>, CallF(2, 0, 1)))>>),
          Return(<<OuterVariable(1)>>)>>, <<4, 1>>)
      outer == Func(0, 1, FALSE,
        <<Assign(Address, Op(<<Num>>, CallF(3, 1, 1)))>>, <<1>>)
      Main == Func(0, 0, FALSE,
        <<Try(<<Assign(Address, Op(<<>>, CallF(4, 0, 1)))>>,
              <<Catch(<<PANIC>>, <<Assign(Address, Num)>>)>>)>>, <<1>>)
  IN  [main |-> ModuleSource(<<>>, 5, <<rec, inner, outer, Main>>)]

(* Two imported modules that initialize variables; calls between modules,  *)
(* through function pointers and interfaces, of predefined and extension   *)
(* functions.                                                              *)
Modules ==
  LET get == Func(0, 0, TRUE,
        <<Return(<<Op(<<Op(<<>>, Instr("PUSHS"))>>, CallP(1, 1, {FileError}))>>)>>, <<1>>)
      put == Func(1, 0, FALSE, <<Assign(Address, Num)>>, <<1>>)
      clock == Extension(0, 1, TRUE, {IndexError})
      tick == Extension(0, 1, FALSE, {})
      lib == ModuleSource(<<Assign(Op(<<>>, Instr("PUSHPG")), Num)>>, 0, <<get, put, clock, tick>>)
      other == ModuleSource(<<Assign(Op(<<>>, Instr("PUSHPG")), Op(<<>>, CallMF("lib", 2, 0, 1)))>>,
                            0, <<>>)
      pointer == Op(<<>>, Instr("PUSHMFP"))
      main == ModuleSource(
        <<Assign(Address, Op(<<pointer>>, CallI(0, 1, {<<"lib", 2>>}))),
          Try(<<Perform1(Op(<<Num, pointer>>, CallI(1, 0, {<<"lib", 3>>}))),
                Assign(Address, Num),
                Perform1(Op(<<Op(<<>>, Instr("PUSHCI")), Address>>, Instr("STOREJ"))),
                Assign(Address, Op(<<>>, CallMF("lib", 2, 0, 1))),
                Perform1(Store(Store(Op(<<>>, CallMF("lib", 4, 0, 2)))))>>,
              <<Catch(<<IndexError>>, <<>>), Catch(<<FileError>>, <<>>)>>),
          Perform1(Store(Op(<<>>, CallMF("lib", 5, 0, 1)))),
          Perform1(Op(<<Num, Op(<<>>, Instr("PUSHCI"))>>, CallV(1, 0, {<<"lib", 3>>})))>>,
        0, <<>>)
  IN  [main |-> main, lib |-> lib, other |-> other]

(* Loops, both forms of CASE, conditionals, aggregates and indexing.       *)
Loops ==
  LET array == Op(<<Num, Num>>, InstrN("CONSA", 2))
      dictionary == Op(<<Op(<<>>, Instr("PUSHS")), Num>>, InstrN("CONSD", 1))
      slot == Op(<<Address, Op(<<>>, Instr("PUSHS"))>>, Instr("INDEXDW"))
      cases == Func(0, 0, TRUE,
        <<CaseTable(Variable, <<1, 0, 2>>,
                    << <<Assign(Address, Op(<<Num>>, Instr("NEGN")))>>, <<Return(<<Num>>)>> >>,
                    <<Return(<<Conditional(Op(<<Flag>>, Instr("NOTB")), Num, Variable)>>)>>),
          CaseLinear(Variable,
                     << <<Return(<<Element(array, Num)>>)>>, <<Assign(slot, Num)>> >>,
                     <<Assign(Address, Num)>>),
          Try(<<Assign(Address, Op(<<Variable, Num>>, Instr("MODN")))>>, <<Catch(<<PANIC>>, <<>>)>>),
          Return(<<Num>>)>>, <<1>>)
  IN  One(<<Loop("repeat",
              <<If(Disjunction(Flag, Op(<<Op(<<>>, CallF(2, 0, 1)), array>>, Instr("INA"))),
                   <<ExitLoop("repeat")>>, <<>>),
                Discard(dictionary),
                If(Flag, <<NextLoop("repeat")>>, <<Discard(TypeTest(Variable))>>)>>,
              <<Increment(Address)>>)>>,
          <<cases>>)

(* The instructions the other programs do without, and a value that needs  *)
(* more than a small operand stack has.                                    *)
Instructions ==
  LET self == Op(<<>>, Instr("PUSHCI"))
      pointed == Perform1(Op(<<Num, Op(<<>>, Instr("PUSHFP"))>>, CallI(1, 0, {<<"main", 2>>})))
      dispatched == Perform1(Op(<<Num, self>>, CallV(1, 0, {<<"main", 2>>})))
      method == Func(1, 0, FALSE,
        <<Assign(Address, Num), If(Flag, <<pointed>>, <<If(Flag, <<dispatched>>, <<>>)>>)>>, <<1>>)
      value(op) == Op(<<Variable, Num>>, Instr(op))
      reference(op) == Op(<<Op(<<Address, Num>>, Instr(op))>>, Instr("LOADN"))
      maybe(e) == If(Flag, <<Assign(Address, e)>>, <<>>)
      caught(e) == TryExpr(e, <<PANIC>>, Num)
      three == Op(<<Op(<<Num, Num>>, Instr("DUPX1"))>>, InstrN("CONSA", 3))
      ten == Op([k \in 1..10 |-> Num], InstrN("CONSA", 10))
      swapped == Op(<<Op(<<Num, Num>>, Instr("SWAP"))>>, Instr("EXPN"))
  IN  One(<<maybe(Op(<<Flag, Flag>>, Instr("ANDB"))),
            maybe(Op(<<Num, Num>>, Instr("GTY"))),
            maybe(Op(<<>>, Instr("PUSHPEG"))),
            maybe(Op(<<Num, Num>>, InstrN("DROPN", 1))),
            maybe(ten),
            Try(<<Assign(Address, three), Assign(Address, value("INDEXDV")),
                  Assign(Address, reference("INDEXAR")), Assign(Address, reference("INDEXDR")),
                  Assign(Address, Op(<<>>, Instr("ALLOC")))>>,
                <<Catch(<<PANIC>>, <<>>)>>),
            Assign(Address, Op(<<Num, caught(value("INDEXDV"))>>, Instr("NEN"))),
            Assign(Address, Op(<<Num, caught(value("INDEXAN"))>>, Instr("SUBN"))),
            Assign(Address, caught(Op(<<Num>>, CallP(1, 1, {PANIC, IndexError})))),
            Assign(Address, swapped),
            pointed,
            dispatched>>,
          <<method>>)

(* A loop without calls that goes on when it is interrupted.               *)
Waiting ==
  One(<<Loop("wait",
          <<Try(<<If(Flag, <<ExitLoop("wait")>>, <<>>)>>, <<Catch(<<Interrupted>>, <<>>)>>)>>,
          <<>>)>>, <<>>)

-----------------------------------------------------------------------------
(* A function that may raise, called just before a TRY statement.          *)
Fails == Func(0, 0, FALSE, <<If(Flag, <<Raise(NotFound)>>, <<>>)>>, <<1>>)

CallThenTry ==
  One(<<Perform1(Op(<<>>, CallF(2, 0, 0))),
        Try(<<Assign(Address, Num)>>, <<Catch(<<FileError>>, <<Assign(Address, Num)>>)>>)>>,
      <<Fails>>)

=============================================================================
