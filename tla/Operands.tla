------------------------------- MODULE Operands -------------------------------
(***************************************************************************)
(* Who works on the operand stack, and what it finds there: the code that  *)
(* is generated for an expression or an assignment, an instruction at a    *)
(* time, and a predefined function in exec/cnex.                           *)
(*                                                                         *)
(* An instruction takes its operands for what the analyzer has found them  *)
(* to be.  A predefined function, which exec_CALLP takes from the table of *)
(* global.c, finds its arguments above what the caller has on the stack,   *)
(* and must leave its results in their place.  Nothing looks whether it    *)
(* does: the code generator has counted on the declaration in              *)
(* src/lib/*.neon.  rtl_raise does not end the function, it unwinds the    *)
(* operand stack to the height the handler has and comes back, so that a   *)
(* function that goes on works on the stack of the handler.                *)
(***************************************************************************)
EXTENDS Integers, NativeLibrary

E == INSTANCE Expressions
D == INSTANCE NativeDecls

CONSTANT Below      \* how many cells the caller has below the arguments

ASSUME BelowAssumption == Below \in Nat

Platforms == {"posix", "win32"}
NoHandler == -1

(***************************************************************************)
(* The table, a module of src/lib at a time.                               *)
(***************************************************************************)
builtin(p) ==
    ArrayFns @@ ArrayPartFns @@ ToStringFns @@ BytesFns @@ BytesPartFns @@ DictionaryFns
    @@ ObjectConversionFns @@ ObjectFns(p) @@ SubscriptFns(p) @@ StringFns @@ StringPartFns
builtinDecls ==
    D!ArrayDecls @@ D!BytesDecls @@ D!DictionaryDecls @@ D!ToStringDecls @@ D!StringDecls
    @@ D!ObjectDecls

PredefinedFunctions(p) ==
    [builtin  |-> builtin(p),
     global   |-> GlobalFns,
     binary   |-> Binary32Fns @@ BinaryShiftFns @@ Binary64Fns @@ BinaryShift64Fns
                    @@ BinaryBytesFns,
     datetime |-> DatetimeFns,
     debugger |-> DebuggerFns,
     file     |-> FileFns @@ (IF p = "win32" THEN FileWin32Fns
                              ELSE FilePosixFns @@ FilePosixOtherFns @@ FilePosixDirFns),
     io       |-> IoFns @@ IoOtherFns,
     math     |-> MathFirstFns @@ MathSecondFns @@ MathLastFns,
     mmap     |-> MmapFns @@ MmapOtherFns,
     net      |-> NetFns @@ NetTransferFns @@ NetSelectFns,
     os       |-> OsFns @@ (IF p = "win32" THEN OsWin32Fns ELSE OsPosixFns),
     process  |-> ProcessFns,
     random   |-> RandomFns,
     runtime  |-> RuntimeFns @@ CreateObject(p),
     sqlite   |-> SqliteFns @@ SqliteCursorFns,
     string   |-> StringSearchFns @@ StringOtherFns,
     struct   |-> StructFns,
     sys      |-> SysFns,
     textio   |-> TextioFns,
     time     |-> TimeFns(p)]
    @@ (IF p = "posix"
        THEN [posix |-> PosixFromAccess @@ PosixFromFork @@ PosixFromLockf @@ PosixFromRename
                          @@ PosixFromSysconf]
        ELSE <<>>)

Declared ==
    [builtin  |-> builtinDecls,   global |-> D!GlobalDecls,     binary   |-> D!BinaryDecls,
     datetime |-> D!DatetimeDecls, debugger |-> D!DebuggerDecls, file    |-> D!FileDecls,
     io       |-> D!IoDecls,      math   |-> D!MathDecls,       mmap     |-> D!MmapDecls,
     net      |-> D!NetDecls,     os     |-> D!OsDecls,         posix    |-> D!PosixDecls,
     process  |-> D!ProcessDecls, random |-> D!RandomDecls,     runtime  |-> D!RuntimeDecls,
     sqlite   |-> D!SqliteDecls,  string |-> D!StringModuleDecls, struct |-> D!StructDecls,
     sys      |-> D!SysDecls,     textio |-> D!TextioDecls,     time     |-> D!TimeDecls]

-----------------------------------------------------------------------------
VARIABLES
    fn,         \* the function: its platform, its module and its name; or the construct
    rest,       \* the stack operations, or the instructions, it has yet to do
    stack,      \* the operand stack
    handler,    \* the height of the stack at the innermost handler in force, or NoHandler
    guards,     \* those of the construct's own handlers, the innermost last
    raised,     \* it has raised
    promised,   \* the type of the value the construct promises
    status      \* "running", "returned", or how the process or the construct ended

vars == <<fn, rest, stack, handler, guards, raised, promised, status>>

OfNative == fn[1] \in Platforms
callerCell == IF OfNative THEN "caller" ELSE E!Simple("caller")
caller == [i \in 1..Below |-> callerCell]
Decl(f) == Declared[f[2]][f[3]]

InitNative ==
    \E p \in Platforms : \E m \in DOMAIN PredefinedFunctions(p) :
        \E name \in DOMAIN PredefinedFunctions(p)[m] :
            /\ fn = <<p, m, name>>
            /\ rest \in PredefinedFunctions(p)[m][name]
            /\ stack = caller \o Declared[m][name].args
            /\ handler \in NoHandler..Below
            /\ promised = E!TYPE_NOTHING

InitConstruct ==
    \E c \in E!Constructs : \E of \in E!Operands[c] :
        \E tree \in {E!Tree(c, of)} :
            /\ E!Accepted(tree)
            /\ fn = <<"construct", c, of>>
            /\ rest = E!Code(c, tree)
            /\ stack = caller
            /\ handler = NoHandler
            /\ promised = E!ResultType(c, of, tree)

Init == /\ InitNative \/ InitConstruct
        /\ guards = <<>>
        /\ raised = FALSE
        /\ status = "running"

-----------------------------------------------------------------------------
(***************************************************************************)
(* Predefined functions.                                                   *)
(***************************************************************************)
\* The next operation of the function is an op.
Doing(op) == /\ status = "running"
             /\ rest # <<>>
             /\ Head(rest).op = op
             /\ rest' = Tail(rest)
             /\ UNCHANGED <<fn, promised>>

Covers(n) == Len(stack) >= n

top_or_peek ==
    /\ Doing("read")
    /\ Covers(Head(rest).at + 1)
    /\ UNCHANGED <<stack, handler, guards, raised, status>>

pop ==
    /\ Doing("pop")
    /\ Covers(1)
    /\ stack' = Front(stack)
    /\ UNCHANGED <<handler, guards, raised, status>>

push ==
    /\ Doing("push")
    /\ stack' = Append(stack, Head(rest).kind)
    /\ UNCHANGED <<handler, guards, raised, status>>

\* fatal_error("Stack underflow error.")
Underflow ==
    /\ \/ Doing("read") /\ ~Covers(Head(rest).at + 1)
       \/ Doing("pop") /\ ~Covers(1)
    /\ status' = "underflow"
    /\ UNCHANGED <<stack, handler, guards, raised>>

\* The frames below are gone, and with the handler the part of the code it guards: what
\* is raised next goes to one further out.  Without a handler the stack is emptied.
exec_raiseLiteral ==
    /\ Doing("raise")
    /\ stack' = IF handler = NoHandler THEN <<>>
                ELSE Append(SubSeq(stack, 1, handler), "exception")
    /\ handler' \in NoHandler..handler
    /\ raised' = TRUE
    /\ UNCHANGED <<guards, status>>

EarlyReturn ==
    /\ Doing("return")
    /\ status' = "returned"
    /\ UNCHANGED <<stack, handler, guards, raised>>

EndOfFunction ==
    /\ status = "running"
    /\ rest = <<>>
    /\ status' = "returned"
    /\ UNCHANGED <<fn, rest, stack, handler, guards, raised, promised>>

ProcessEnds ==
    \E how \in {"exit", "crash"} :
        /\ Doing(how)
        /\ status' = how
        /\ UNCHANGED <<stack, handler, guards, raised>>

-----------------------------------------------------------------------------
(***************************************************************************)
(* Generated code.                                                         *)
(***************************************************************************)
Jumps == {"JF", "JT"}
Raising == {"NEGN", "arithmetic", "INDEXAR", "INDEXAW", "INDEXAV", "INDEXDR", "INDEXDV", "CALL",
            "CALLI", "CALLV", "EXCEPT"}

\* What the instruction finds, and what is below it.
arguments(i) == SubSeq(stack, Len(stack) - E!Arity(i) + 1, Len(stack))
beneath(i)   == SubSeq(stack, 1, Len(stack) - E!Arity(i))

\* An instruction does what it does only if no cell asserts.
Executes(i) ==
    /\ status = "running"
    /\ ~OfNative
    /\ rest # <<>>
    /\ i = Head(rest)
    /\ E!Arity(i) <= Len(stack)
    /\ E!Takes(i, arguments(i))
    /\ UNCHANGED <<fn, handler, raised, promised>>

instruction ==
    \E i \in {Head(rest)} :
        /\ Executes(i)
        /\ i.op \notin Jumps \cup {"TRY", "END"}
        /\ \E cells \in E!Gives(i, arguments(i)) : stack' = beneath(i) \o cells
        /\ rest' = Tail(rest)
        /\ UNCHANGED <<guards, status>>

\* JF jumps on FALSE and JT on TRUE, where it is known which it is.
jump ==
    \E i \in {Head(rest)} :
        /\ Executes(i)
        /\ i.op \in Jumps
        /\ \E is \in IF Last(stack).k = "bool" THEN {Last(stack).is} ELSE BOOLEAN :
              rest' = (IF is = (i.op = "JT") THEN i.arg.target ELSE i.arg.next) \o Tail(rest)
        /\ stack' = beneath(i)
        /\ UNCHANGED <<guards, status>>

\* Where the code guarded by a handler begins, and where it ends.
TryBegins ==
    \E i \in {Head(rest)} :
        /\ Executes(i)
        /\ i.op = "TRY"
        /\ rest' = i.arg.guarded \o E!EmitWith("END", i.arg.handler) \o Tail(rest)
        /\ guards' = Append(guards, Len(stack))
        /\ UNCHANGED <<stack, status>>
TryEnds ==
    \E i \in {Head(rest)} :
        /\ Executes(i)
        /\ i.op = "END"
        /\ rest' = Tail(rest)
        /\ guards' = Front(guards)
        /\ UNCHANGED <<stack, status>>

\* The innermost handler finds the exception above what was there when its guard began.
raise ==
    \E i \in {Head(rest)} :
        /\ Executes(i)
        /\ i.op \in Raising
        /\ IF guards = <<>>
           THEN /\ status' = "raised"
                /\ rest' = <<>>
                /\ stack' = <<>>
                /\ UNCHANGED guards
           ELSE /\ LET end == CHOOSE n \in DOMAIN rest :
                                 rest[n].op = "END" /\ \A m \in 1..(n - 1) : rest[m].op # "END"
                   IN  rest' = rest[end].arg \o SubSeq(rest, end + 1, Len(rest))
                /\ stack' = Append(SubSeq(stack, 1, Last(guards)), E!TypeRecord("ExceptionType"))
                /\ guards' = Front(guards)
                /\ UNCHANGED status

Next == \/ top_or_peek \/ pop \/ push \/ Underflow \/ exec_raiseLiteral
        \/ EarlyReturn \/ EndOfFunction \/ ProcessEnds
        \/ rest # <<>> /\ (instruction \/ jump \/ TryBegins \/ TryEnds \/ raise)

Spec == Init /\ [][Next]_vars

-----------------------------------------------------------------------------
(***************************************************************************)
(* The functions that do not do as declared.                               *)
(***************************************************************************)
\* What they leave on the stack is something else, on one path at least.
Misreturns(p) ==
    ({"file"} \X {"mkdir", "removeEmptyDirectory", "rename",       \* error: a String
                  "writeBytes", "writeLines"})                     \* the file's name
    \cup ({"io"} \X {"readBytes"})                                 \* a String
    \cup ({"net"} \X {"socket_accept"})                            \* a cell without a value
    \cup ({"os"} \X {"spawn"})                                     \* the process, no choice
    \cup IF p = "win32"
         THEN {"file"} \X {"copy", "copyOverwriteIfExists", "delete"}       \* error: a String
         ELSE ({"file"} \X {"copyOverwriteIfExists"})                       \* two errors
              \cup ({"posix"} \X {"gethostname", "read", "readlink",        \* OUT value first
                                  "pipe"})                                  \* no OUT values

\* They go on after they have raised.
GoesOn(p) ==
    {<<"mmap", "close">>, <<"mmap", "read">>, <<"net", "socket_select">>, <<"os", "kill">>,
     <<"os", "wait">>, <<"sqlite", "cursorFetch">>}
    \cup IF p = "win32"
         THEN {"builtin"} \X {"object__invokeMethod", "object__setProperty", "object__subscript"}
         ELSE {}

Among(functions) == <<fn[2], fn[3]>> \in functions

\* A choice is a record too, and Bytes are handed over as Strings.
Holds(cell, kind) ==
    \/ kind = "cell"
    \/ \E same \in {{cell}, {"str", "bytes"}, {"&str", "&bytes"}, {"arr", "rec"}} :
          {cell, kind} \subseteq same

(***************************************************************************)
(* Hand-written code and declaration agree: until it raises, a function    *)
(* looks only at its own arguments, takes each for what it is declared to  *)
(* be, and pops nothing of its caller's; and where it comes back without   *)
(* having raised, its arguments are gone, the result and the OUT values    *)
(* are in their place, and the caller's cells are untouched, so that the   *)
(* depth the code generator recorded after CALLP is right.                 *)
(***************************************************************************)
NativeAsDeclared ==
    ~raised =>
        /\ status = "running" /\ rest # <<>> =>
             /\ Head(rest).op = "read" =>
                  LET at == Len(stack) - Head(rest).at
                  IN  at > Below /\ Holds(stack[at], Head(rest).kind)
             /\ Head(rest).op = "pop" => Len(stack) > Below
        /\ status = "returned" /\ ~Among(Misreturns(fn[1])) =>
             /\ Len(stack) = Below + Len(Decl(fn).results)
             /\ SubSeq(stack, 1, Below) = caller
             /\ \A i \in DOMAIN Decl(fn).results : stack[Below + i] \in Decl(fn).results[i]

\* The constructs the analyzer lets pass although the code for them is not right.
\* As one type is a pointer's or an array's of them, it passes for the other.
PassesFor(type, from) ==
    /\ type # from
    /\ type.k \in {"FunctionPointer", "Array"}
    /\ \/ {type.k, from.k} = {"FunctionPointer"}
       \/ type = E!TypeArray(E!TypeValidPointer("Leaf"))
          /\ from = E!TypeArray(E!TypePointer("Leaf"))
EmptyLiterals == {E!EmptyArray, E!EmptyDictionary}

Overlooked(c, of) ==
    CASE c \in {"convert", "variadic"} -> PassesFor(of[1], of[2])
      \* `[[], [1]]': the elements are of the type of [].
      [] c \in {"array", "dictionary"} ->
           \/ PassesFor(of[1], of[2])
           \/ of[1] \in EmptyLiterals /\ of[2].k = of[1].k /\ of[2] # of[1]
      \* A pointer that may be NIL for INOUT or OUT VALID POINTER, and back.
      [] c = "call" ->
           \/ PassesFor(of[2], of[4])
           \/ of[1] # "IN" /\ {of[2].k, of[4].k} \in {{"Pointer", "ValidPointer"}, {"Array"}}
      \* A variable without a value.
      [] c = "default" -> of.k \in {"ValidPointer", "ValidInterfacePointer"}
      \* The pointer has not been tested to be VALID.
      [] c = "arrowcall" -> of[1].k = "InterfacePointer"
      \* `a = o = b': the second comparison is of what o was before it was converted.
      [] c = "chained" -> of[2] = E!TYPE_OBJECT
      \* `INC b[0]' of Bytes has no address.
      [] c = "increment" -> of[1] = "byte"
      [] OTHER -> FALSE

(***************************************************************************)
(* Analyzer, code generator and virtual machine agree: an instruction      *)
(* finds its operands above what the code before the expression left, and  *)
(* every cell of the kind, the address of the target, the array of the     *)
(* elements that the analyzer has accepted the expression for; and the     *)
(* value that comes of it is one of the expression's type.  What the       *)
(* analyzer lets pass and should not is Overlooked.                        *)
(***************************************************************************)
ConstructAsTyped ==
    ~Overlooked(fn[2], fn[3]) =>
        /\ status = "running" /\ rest # <<>> =>
             LET i == Head(rest)
             IN  Len(stack) - E!Arity(i) >= Below /\ E!Takes(i, arguments(i))
        /\ status = "returned" =>
             /\ SubSeq(stack, 1, Below) = caller
             /\ IF promised = E!TYPE_NOTHING THEN Len(stack) = Below
                ELSE Len(stack) = Below + 1 /\ E!Holds(stack[Below + 1], promised)

AsDeclared == IF OfNative THEN NativeAsDeclared ELSE ConstructAsTyped

(***************************************************************************)
(* Once rtl_raise has put the exception where the handler expects it, the  *)
(* function that raised leaves the stack alone and comes back: it neither  *)
(* takes the exception or cells of the handler's function, nor raises a    *)
(* second one, nor goes on with what it was told is not there.             *)
(***************************************************************************)
RaiseIsFinal ==
    [][raised /\ ~Among(GoesOn(fn[1])) =>
         stack' = stack /\ handler' = handler /\ status' \in {"running", "returned"}]_vars
=============================================================================
