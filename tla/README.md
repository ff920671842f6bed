# Neon: models, checks and proofs

Neon is a statically typed programming language. `src/src` holds the compiler
(lexer, parser, analyzer, code generator), which translates each source module
to bytecode, and the executor, a stack machine that loads a main module with
everything it imports and runs it. This directory models, in TLA+, the parts
of that system whose correctness depends on long sequences of steps: the parser
against the grammar kept beside it and the rule of precedence, the code generator's control flow, the executor's stacks, exceptions and interrupts, the
CASE statement from its analysis to its execution, the arrays that are shared
until they are written, the analyzer's flow checks, the heap and its collector,
separate compilation and loading, the debugger with its HTTP server, and the
five other executors of the repository against the first, the format of object files
with the programs that read it, and the analysis of typed expressions, the code for them and
the predefined functions of cnex against what the types promise. TLC checks the models
on small instances; TLAPS proves the main theorems about eight of them for all
instances.

## Inventory

| Component | State it keeps | Operations | What is hard | What makes it correct |
|---|---|---|---|---|
| Lexer, parser (`lexer.cpp`, `parser.cpp`, `pt.h`) | position among the tokens, depth of expressions, least column of a statement | tokenize, one `parse` function per construct | decisions on two tokens that are never taken back; members that every exit must restore; operators without precedence | it accepts what the grammar derives; an accepted expression has one meaning |
| Analyzer (`analyzer.cpp`, `ast.cpp`) | scopes, types, constants, loop stack, CASE clauses seen, VariableChecker's scopes, `s_importing` | one `analyze` per kind of node, `import_module` | order of declarations, overlap of CASE conditions, what every path has assigned, imports of imports | accepted programs have the types the code generator relies on; no two WHEN conditions overlap; no variable is read before it has a value; a function with a result returns |
| Code generator (`compiler.cpp`) | code, labels and fixups, static stack depth, exception table, function table, debug information | `emit`, `emit_jump`, `jump_target`, one `generate` per kind of node, `getObject` | one static depth must be right on all paths, exceptions included; order of the exception table | a contract with the executor: `WellFormed` below |
| Separate compilation, loader (`neonc.cpp`, `neon.cpp`, `bytecode.cpp`, `support*.cpp`, `Module` in `exec.cpp`) | source and object files, the analyzers at work, modules by name, initialization order | compile what is out of date, recursive import, one initializer per module | edits between commands, errors deep in the imports, cycles and shared imports | objects match their sources; each module once, after what it imports |
| Executor core (`exec.cpp`, `opstack.h`) | operand stack, call stack, frames, `module`/`ip`, exit code, interrupt flag | 101 instruction handlers, `invoke`, `raise_literal`, `interrupt`, `exec_loop` | exceptions through many frames, interrupts between any two instructions, two raises by one instruction, static links | the stacks stay consistent with each other and with what the code generator counted |
| Cells (`cell.cpp`, `lib/builtin.cpp`) | cells with shared arrays, strings and dictionaries | copy on write, address of an element | addresses that outlive a copy | values behave as if copied |
| Heap and collector (`exec.cpp`) | allocated cells, mark bits, allocation count | NEW, mark and sweep | roots the marking does not see, cycles | nothing reachable is reclaimed, everything else is |
| Callbacks (`exec_callback`, extension interface) | a nested `exec_loop` on the same stacks | call a Neon function from an extension | an exception that unwinds past the extension | the extension's caller sees the callback's result or its exception |
| Debugger (`httpserver.cpp`, `handle_*` in `exec.cpp`) | STOPPED/RUN/STEP/QUIT states, breakpoints, sockets | HTTP requests served between instructions | waiting for requests that cannot come | the program advances as the last request said |
| REPL (`repl.cpp`) | globals and declarations of earlier lines | analyze and run a line | lines that fail half way | an earlier line's variables keep their values |
| Runtime library of cnex (`exec/cnex/global.c`, `lib/*.c`) | the operand stack, during a call | about 300 functions, called by name through a table | hand-written stack handling on each path, `rtl_raise` that unwinds and returns | arguments and results as declared; nothing after an exception |
| Numbers (`number.cpp`), runtime library (`rtl_exec.cpp`, `intrinsic.cpp`) | error flags of the decimal library | arithmetic, predefined functions | one operation that sets two flags | each failure is reported once |
| Other executors (`exec/`) | as the executor core | the same handlers, in other languages | exceptions through several frames and modules, limits of their own | they do what `exec.cpp` does |
| Object files (`bytecode.cpp`, `exec/cnex/bytecode.c`), disassembler (`disassembler.cpp`), trace of cnex | a position in a string of bytes | write and read tables and code, show instructions | integers of variable width, tables of tables, operands known to six programs | what is read is what was written; all readers keep in step with the Emitter |
| Other back ends (`compiler_*.cpp`), tools | - | translation, output | - | out of scope: alternatives to the parts above |

How they interact: the analyzer hands a typed tree to the code generator; the
code generator's Emitter writes code and tables that the executor trusts
without checking (its checks are assertions and the trace mode); the executor
calls the runtime library and extension functions in C++, which raise
exceptions through `raise_literal` and may call back; a signal handler or
another thread calls `interrupt()`; the debugger's server runs between
instructions; the collector runs every so many allocations.

## Modules

| Module | Models | State and actions |
|---|---|---|
| `Bytecode` | instruction set: what each handler takes, leaves and raises (`exec.cpp`), what the Emitter counts for it (`compiler.cpp`); `WellFormed`, the contract between the two | constant level |
| `Emitter` | `Emitter`: `emit`, `emit_jump`, `jump_target`, the recording of TRY ranges, `getObject` | the Emitter as a record, one operator per call |
| `Compiler` | the `generate` methods as the sequence of Emitter calls they make | recursive, for TLC only |
| `CodeGen`, `CodeGen_proofs` | code generation of one module; the proofs | `em` is the Emitter; one action per kind of call, in the order the tree makes them |
| `Programs` | small programs that between them use every opcode family, and one on which the code departs from what it says | - |
| `Exec` | `exec_loop` and everything it calls for control | `callstack`, `frames`, `module`, `ip`, `exit_code`, `interrupted` are the executor's members; `depth` is the size of `stack`; one action per handler family |
| `Exec_proofs` | inductive invariant and proofs about `Exec` | - |
| `CaseStatement` | CASE over numbers: overlap test (`analyzer.cpp`), choice of a jump table (`compiler.cpp`), execution (`exec.cpp`) | `clauses` is what the analyzer has accepted; `When`, `Comma`, `Generate`, `Execute` |
| `CaseStatement_proofs` | inductive invariant and proofs about `CaseStatement` | - |
| `Containers` | what `std::vector` and `std::map` do to their contents | constant level |
| `Values` | what assignments, subscripts, array methods and INOUT arguments promise: variables hold values, a reference is a path of subscripts | `vars`, and `stack` with values and references; one action per instruction |
| `Cells`, `Cells_proofs` | `Cell` (`cell.cpp`), the instructions that use addresses and containers (`exec.cpp`), array methods (`lib/builtin.cpp`); implements `Values`; the proofs | `bufs` are the vectors and maps that `shared_ptr`s in `vars`, `stack` and each other point to, each named by the path of the first root that leads to it; `made` counts those that one instruction makes; the actions of `Values` |
| `FlowChecks`, `FlowChecks_proofs` | the analyzer's flow checks of one function body (`VariableChecker`, `always_returns`, CHECK) | `scopes` are VariableChecker's, `blocks` the open statements; one action per statement or keyword. `reach` is the set of variables assigned on each path to this point, which the checks are compared with; the proofs |
| `Heap`, `Heap_proofs` | NEW, the mark and sweep collector, and a program that uses pointers in any way; the proofs | `allocs`, `heap`, `todo` (the stack of `mark`), `marked`; `allocations` is the counter that starts a collection |
| `Build` | which objects `import_module`, `loadBytecode`, `neonc` and `neon` read, write and remove | `source` and `object` files, `analyzers` (one per file being compiled), `importing` is `s_importing` |
| `Loader`, `Modules`, `Modules_proofs` | the executor's recursive loading and the initialisation of modules; with `Build` and the commands; the proofs | `table`, `loading`, `initOrder`, `calls` |
| `DebugState`, `Debugging` | the debugger's states and requests; what it promises: one request at a time, no instruction while stopped | `state`, `stepDepth`, `breakpoints` are `debugger_state`, `debugger_step_source_depth`, `debugger_breakpoints` |
| `HttpDebugger`, `HttpDebugger_proofs` | `exec_loop` under a debugger with the HTTP server; implements `Debugging`; the proofs | `connected`, `ready`, `backlog` are the server's sockets, `client` the other ends |
| `Activations` | the state all other executors keep, and what their handlers have in common | as in `Exec`; `who` is the executor, `ended` how it was stopped |
| `Cnex`, `Gonex`, `Pynex`, `Jnex`, `Csnex` | the loop and handlers of the executors in C, Go, Python, Java and C# | one action per handler family, named as in the source |
| `Executors` | these five against `Exec` | - |
| `Parser` | `parser.cpp`: each parse function is a sequence of commands (take a token, refuse one, look ahead, call, make a node), run as tokens arrive | `tokens` read so far; `parser` has the members of `Parser`, and in `todo` its call stack; actions `ReadToken`, `ReadEnd` |
| `Grammar` | `contrib/grammar/neon.ebnf`, and a recogniser that tries all derivations; where the parser differs the production follows the parser, and a comment says how; what an expression may mean under the rule of precedence of `expressions.adoc`, and what the parser's nodes mean | constant level, recursive, for TLC only |
| `NativeLibrary` | the predefined functions of cnex (`global.c`, `lib/*.c`): for each, the set of its paths, a path being the stack operations it makes | constant level |
| `NativeDecls` | their declarations in `src/lib/*.neon` | constant level |
| `Ast` | the types of `ast.cpp` and which of them convert to which | constant level |
| `Analysis` | `make_converter` and the other conversions of `ast.cpp`, as the nodes they make; what the `analyze` functions of `analyzer.cpp` make of each expression and assignment whose operands have given types, or that they refuse it | constant level, recursive, for TLC only |
| `Instructions` | the kinds of cells each handler of `exec.cpp` takes and leaves | constant level |
| `ExprCode` | the code that `compiler.cpp` generates for the nodes of `Analysis` | constant level, recursive, for TLC only |
| `Expressions` | every construct of `Analysis` with operands of every type | constant level |
| `Operands` | the code of one of them on the operand stack, or the call of a predefined function by `exec_CALLP` in cnex | `of` is what runs and `rest` what it has yet to do, `stack` the kinds of cells, `handler` (the height at the TRY that is next); one action per stack operation of `stack.c` and one per instruction |
| `ObjectFile` | the bytes `getBytes` and the Emitter write; the loaders of `exec.cpp` and cnex, the disassembler and the trace of cnex that read them | constant level |
| `MCExec`, `MCCodeGen` | instances for TLC; the other runs give all constants in the configuration, with operators defined at the end of the module where a value is not a plain set (the declarations of `Cells`, the topics of `Parser`) | - |

A definition whose comment begins with "Mutant:" is a plausible bug in the
definition after it; no specification uses it. Each property of a passing run
has a mutant that breaks it.

Abstractions that matter:

* In `Exec` the operand stack is its depth. Whatever depends on a value (which
  way a branch goes, whether an index is in range, which function a pointer
  names) is a nondeterministic choice, so the model has every behaviour of the
  control state that the program has, and more.
* An address is an index of the instruction sequence, from 1, where the code
  uses byte offsets. The six-byte stride of `JUMPTBL` becomes one instruction.
* One iteration of `exec_loop` is up to three steps (`pc`): the handler, the
  second exception of MODN, the test of the interrupt flag; `interrupt()` may
  happen between any two of them.
* A frame keeps its static chain as a sequence of frame numbers. The walk along
  `outer` in `invoke` drops the frames nested as deep as the callee.
* An exception name is the sequence of its dotted components; `IsPrefix` is the
  comparison `raise_literal` makes at dots.
* Numbers in `CaseStatement` are an integer and a fraction: decimal arithmetic
  is exact for the values of a program with few digits. That the subtraction
  before `JUMPTBL` rounds for numbers such as 1e-40 is left out. A statement is executed with
  a number and with its sign, `minus`: a decimal zero has one too.
* In `Cells` the program is any sequence of instructions that the static types
  allow, restricted by `WhileHeld` (what may run between the making of an
  element's address and its use). Containers with blank elements are not
  compared: `Cell::operator==` says that a cell that has no type yet equals
  nothing (`cell.cpp:191`), although it reads as 0 or as empty
  (`t/array-resize.neon:8`), so this comparison departs from `Values`. A call is not an
  instruction: an INOUT parameter is an address that stays on the stack. A
  subscript is chosen when it is used, so it needs no cell of its own. When a
  vector grows, whether it moves its elements is chosen freely. A vector or map
  that nothing points to any more is destroyed in the step that drops it.
  Strings and bytes are shared likewise but have no addressable parts; they are
  left out, and numbers stand for all scalars.
* In `FlowChecks` a condition may go either way and a call may raise; assigning
  is never undone, so the paths that take each loop once are enough. The condition of an
  ELSIF is an expression of its own between two branches (`NextBranch`, `BeginBranch`), which
  only the paths that took no earlier branch evaluate. `hasty`
  marks the variables the checker called assigned where it looks too quickly
  (see Findings); the properties are about the others, and about code outside
  handlers, which the checker does not visit.
* In `Heap` a value is an address of an allocated cell, of a field of one, or
  neither. The collector's loop is modelled step by step although the program
  waits for it, so that the order in which cells are marked is arbitrary.
* In `Build` and `Loader` the text of a file is its imports, the one function it
  exports and whether it begins with TRY, and its hash is the text. Files are
  edited and removed between commands.
* In `HttpDebugger` a request is a number of pieces; what it asks for is chosen
  when it is read. Requests are well formed (see Findings). The program under the debugger may go anywhere.
* The other executors are compared with `Exec` on control and on the number of
  cells, frames and callers. An assertion that fails, an exit, and an exception
  of the host language that nothing catches are one outcome (`Die`). What only
  the data decide is nondeterministic in each of them, as in `Exec`.
* `Parser` is fed one token at a time and stops where it needs one it has not seen, so that
  a text is only continued while the parser is still willing. A token is its type and its
  column; columns vary where statements begin in two topics, and otherwise grow. Of the tree
  only the nodes of expressions are kept, in the order they are made. An error is one outcome.
* In `Operands` a cell is the kind of what it holds, and which path a function takes is a free
  choice. The caller's cells are all alike; the TRY that catches is at any height of them, or
  there is none. What a function computes, and what it does with an index or a pointer that is
  wrong, is left out, as is the test of the number flags after the call.
* In `Expressions` an operand is any expression of its type: a cell, or the cells of one value, of each
  shape the type allows, or the address of a variable. There is one type of each sort, and arrays,
  dictionaries and pointers of them. Elements without a type yet (after `resize`) and reading a
  variable that was never assigned are left out.
* In `ObjectFile` indices are any numbers, small and large; of the loaders the checks of
  signature, version and length are left out, as they are in the code after the first bytes.

## Runs

| Run | Question | Bounds and why they suffice |
|---|---|---|
| `core` | Do the stacks agree on every path? Is an interrupt always noticed? Does a loop-free program end? | five compiled programs, recursion limit 5 (recursion overflows inside and outside a TRY), 2 interrupts (one during the handling of the other); every handler family and every disjunct occurs |
| `contract` | Does the generated code keep `WellFormed`? | every source of a grammar: two nested compound statements (IF, TRY body, TRY handler, CASE both ways) around up to two simple ones, in a loop, with calls, conditionals, TRY expressions, type tests, EXIT, NEXT, RETURN, RAISE. Two levels are needed to see labels, depths and ranges of one construct inside another; a third repeats them. Does every reader of the object file find the instructions that were emitted? The indices in each module go through those of one to five bytes |
| `case` | Does a CASE take a clause that matches? Is the overlap test exact? | up to 3 conditions in any clauses; 4-bit integers, so that the limits are reached; tables below 6 entries, more than half full; tested with every multiple of a half in -10..10, and quarters near the ends of ranges, so that there is a number between any two limits |
| `values` | Do shared, copied-on-write arrays behave as values? Does every address lead to its element? | two variables, declared as two arrays, two dictionaries, or a container and the type of its elements, nested both ways; operand stack of 2; numbers 0 and 1; subscripts 0 and 1 in arrays of numbers and 0 elsewhere, so that an array may be shared from a variable, the stack and another array at once. Two levels of nesting show an array that is shared because the one around it is |
| `flow` | Are the analyzer's conclusions true on every path? | bodies of any length; one variable, which may be an OUT parameter, a function with a result; blocks nested two deep: one construct inside another is where branches are joined, a third level repeats that. Two variables never meet in a check, except in the OUT parameters, where the first is what is checked |
| `heap` | Does a collection free what is unreachable, and nothing else? | two cells with one field (chains, cycles, garbage that points to live cells), one global and one local variable, two stack cells, one call at a time, a collection at every second NEW, and whenever the program asks for one |
| `build_and_run` | Are objects up to date when they are compiled against? Are modules initialised once and in order? | three modules: `a` imports `b` and `c`, `b` imports `c`, perhaps optionally, and `c` may import `b`: a diamond and a cycle; every sequence of edits, removals and commands |
| `debug` | Does the loop with its server do what was asked, one request at a time? Is each request answered? | two clients, so that one gives up or comes again while the other is served; requests in two pieces; two instructions in main and one in a library at the same address; two calls deep; a step to two levels above one call, which is below zero |
| `executors` | Do the other executors do what `exec.cpp` does? | the programs of `core` but `Waiting` (there are no interrupts here), and one that uses the remaining instructions; recursion limit 5, above the three modules that are started; 9 cells for cnex, which one program exceeds; 6 calls of memory for jnex |
| `parser` | Does the parser accept what the grammar derives, and nothing else, and decide as soon as it can? Does an accepted expression have one meaning? | 36 topics, each a part of the language with the tokens it is made of, and every text of them up to 4 to 14 tokens: as long as the longest form of the part needs to occur whole, most of them to occur twice; expressions nested three deep instead of 100, which texts of this length exceed; in two topics statements on either side of the column they need |
| `operands` | Does each predefined function of cnex do to the stack what is declared, and nothing after it has raised? Does the code of each expression and assignment give each instruction cells of the kinds it reads, and leave the cells of the expression's type? | every function of the table, on both platforms, on every path; every construct of the analyzer with operands of every type of `Ast`, compound types of depth two: a conversion looks at one level and calls itself for the next. Two cells of the caller below the arguments, so that taking one is noticed and a handler may be above or below it. A third would be like these |

`values`, `debug` and `executors` compare two specifications. `values` checks by refinement: `ImplementsValues` maps each cell to the value it
stands for (`Tree`: a blank cell is 0 or empty) and each address to the path it
was made from, and asks every step to be a step of `Values`, where
nothing is shared. `DetachedFromCopies` is what makes that work: no container on the way
to the address about to be used is shared. `KeepsPromise` of `debug` is the
specification of `Debugging`: the server, the sockets and the phases of the loop
are stutters, and each request and instruction is one of its steps.
`StepsLikeExec` of `executors` asks each step of an executor to be a step of
`Exec` in the same state, without interrupts; the recursion limit comes one call
later in cnex and is the memory in jnex. `EndsLikeExec` says that the loops,
whose conditions differ, end together with that of `exec.cpp`, and that nothing
is left then. Two departures are named in them: jnex restores neither operand
stack nor frames when it catches an exception, and cnex pops two cells too many
when INDEXDV raises.

`AcceptsTheGrammar` of `parser` compares, for every beginning of a text, the parser's
verdict with the ends the recogniser finds: it has rejected when no derivation begins so,
and accepted when one ends there. `OneReading` evaluates an accepted expression in every
way the precedence of the operators allows, with operands modulo 7 and operators that
have just the laws the rule relies on (sums, products, and the associative `&`, AND, OR):
there must be one result, and it must be that of the parser's nodes.

`ReadBack` of `contract` writes the object file of each module, and asks the two loaders to find
its tables and the four walks over code (Emitter, disassembler, cnex's trace, the executors) to
agree on every instruction.

`AsDeclared` of `operands` compares texts that nothing in the build compares: the paths of
the C functions and the declarations in Neon; the types the analyzer gives to expressions and
the cells their code leaves. `Overlooked` names the constructs that depart (Findings say why). `Misreturns` and `GoesOn` name the functions that
depart from their declarations, per platform; each is needed, since without it TLC finds the departure.

The type invariants of `case`, `contract`, `values`, `flow`, `debug`, `build_and_run` and
`executors` are conjuncts of another invariant (`NoFalseAlarm`, `ContractKept`, `AddressesLive`,
`ReadsInitialised`, `ConnectionsMatch`, `InitAfterImports`, `EndsLikeExec`).

Some of the properties of `core` compare the state with something it does not
contain: `DepthAgrees` with the depth the Emitter recorded (the executor's own
trace-mode check), `FramesMirrorCalls` and `StaticLinkIsLexical` with the
compiler's nesting, `HandlerIsEnclosing` with a reference definition of being
within a TRY block, `CleanExit` with `exec()`'s assertion. `CallersKept` is an
action property: no step changes the frames or takes the cells of an activation
below the top. Deadlock is checked in `core`, `contract`, `build_and_run` and
`executors` (which have an action for having finished, or always a next command),
and not in the runs of `CaseStatement` and `FlowChecks`, which stop at an error or
at the end, of `Cells` and `Heap`, whose bounds stop them, of `HttpDebugger`,
whose program ends, and of `Parser`, which ends with its text, and of `Operands`, where a call returns and an expression ends.

The run that ends in a violation, a disagreement between the code and what its documents say:

| Run | Shows |
|---|---|
| `call_then_try` | The return address of a call just before a TRY is the start of the TRY, so an exception of that call is caught by a TRY that was not entered yet. The same holds for an imported module's initializer when the main module begins with TRY, because `exec()` starts the initializers on top of the main module's activation. |

`core`, `contract` and `executors` keep clear of it: their programs have no call immediately
before a TRY. `values` has `WhileHeld = "numbers"` (a subscript reads numbers, and the
address of an element is used at once, not kept as an INOUT argument): with `"calls"`,
`ImplementsValues` fails as the first finding about cells below says. The conditions of `case` are `=`,
`<>`, `<=`, `>=` and ranges, and its values fit.

Fairness. `Exec`: weak fairness of `Step`, the executor's thread; `exec_loop`
never blocks without a debugger, and nothing is assumed of `interrupt`.
`EventuallyHalts` is restricted to programs whose branches only go forward,
because recursion is bounded by the limit and a loop need not end. `Heap`: weak
fairness of the collector's loop, which runs to its end inside one instruction.
`Modules`: weak fairness of compiling and of loading or running, each the work of
one process; nobody has to give a command. `HttpDebugger`: weak fairness of the
executor's loop and its server; nothing is assumed of the clients, so
`RequestsAnswered` is about requests that have been sent completely. `Executors`
and the others state no liveness.

## Findings

Beside the violation above, the modelling turned up the following. The models
translate the code as it is; where a property would fail, its programs or its
statement keep clear of the place, as said here.

In `src/src`:

* `x MOD 0` with x negative sets two error flags (`number_modulo`), and
  `check_and_raise` (`exec.cpp:82`) raises for each. If the first exception is caught
  in a caller, the second starts from an address of another function. In `core`
  each MOD is inside a TRY that traps `PANIC` in its own function (`ModuloOK`).
* `ExtensionFunction::generate_call` (`compiler.cpp:1253`) records a depth that counts IN
  parameters which the frame's base does not. The programs' extension functions have none.
* A pointer to a nested function that is called when the outer function has returned
  fails the assertion about nesting in `invoke` (`exec.cpp:1717`).
* The overlap test of CASE compares the wrong way where `<` or `>` is involved
  (`analyzer.cpp:5398`, `5412`, `5460`): `WHEN 5` and `WHEN < 10` are accepted together, and
  `WHEN 5` and `WHEN < 3` are rejected; `t/case-overlap.neon` has equal limits only, and
  `statements.adoc:82` says that conditions must not overlap. Hence the conditions of `case`.
* `neon.ebnf:7-13` says that random statements of the grammar cause no parse errors. The parser
  rejects another operator than `+` and `-` after an operand with a leading minus (`-a * b`), a chain
  after an operand with a leading NOT (`NOT a AND b`), an operator after a minus in
  `a[LAST - b * c]`, and a dictionary literal without commas whose next key begins with a
  token that continues the value before it. The other way round it accepts
  `IMPORT "x".y ALIAS z`, EXPORT DECLARE NATIVE VAR, any token as the name of a native constant or
  variable (`parser.cpp:1191`, `1214`; after the end of the text, taken as a name, it reads on behind the tokens), ELSIF IMPORTED, RAISE with any
  expression that begins with a parenthesis, an exception name of more parts in a TRY
  expression, a mixture of names and PANIC after EXPECT, and as a statement any expression that begins with an
  identifier and one of six tokens. `Grammar` has a comment at each of these places.
* `exec_JUMPTBL` (`exec.cpp:1534`) tests the sign of the number, which a zero has too (`number.cpp:255`): `-n`
  with `n` 0 (`number.cpp:67`) takes WHEN OTHERS although `WHEN 0` matches, when the table begins at 0
  and nothing is subtracted before (`compiler.cpp:2382`). `ClauseMatches` excludes it (`Overlooked` of `CaseStatement`);
  in any other table and in any comparison a negative zero is 0.
* A CASE value that does not fit `int32_t` is dropped from the jump table
  (`compiler.cpp:2363`) and never matches.
* While an element of an array is an INOUT argument, `b := a` in the function shares the vector
  that the argument points into (`compiler.cpp:2137`, `exec.cpp:768`), and writing the argument
  changes `b`; `overview.adoc:35` says that assignments have value semantics.
* In `g[0][g.find(g[1])]` the address of `g[0]` is held while the subscript copies `g`
  and then detaches it (`compiler.cpp:1811`): the address is left without a cell.
* `import_module` takes its name off `s_importing` only where it ends normally
  (`analyzer.cpp:1830`): after an error or a missing optional module the name stays, and
  `neonc -i`, which goes on in the same process, then reports a recursive import (error 3181)
  that does not exist. In `Build` the list has the same leftovers.
* An object is recompiled when its own text changes, not when a module it imports does.
* The type system (each of these is in `Overlooked`, or has no operand in `Expressions`):
  * function pointers convert when result and parameters convert, but by the identity
    (`ast.cpp:229`), so that a caller gets a cell of another type;
  * `TypeValidPointer` inherits `is_structure_compatible`: an array of VALID POINTER, which
    an inferred variable may be, takes an array of POINTER, and an INOUT or OUT argument of
    type VALID POINTER a variable of type POINTER;
  * the default value of VALID POINTER is NIL, and a variable without a value is not refused;
  * an element of an array or dictionary literal that does not convert to Object (`[1, p]`) is a null
    pointer that is used, as in RAISE (`analyzer.cpp:6494`) and in `NIL ISA POINTER TO C`;
    `[[], [1]]` has the type of its empty first element;
  * a chained comparison drops the conversion of a left operand (`1 = o = "a"`);
  * a method of an interface is called through a pointer that need not be VALID
    (`analyzer.cpp:3217`), while CHECK and IF VALID refuse pointers to interfaces; a class's method is compared
    with the interface's in the names and types of parameters only (`analyzer.cpp:4652`);
  * the default value of a parameter is not converted to its type;
  * an element of a range (`a[0 TO 1][0]`) and INC of a byte end in an internal error.
* Imports (not in a run): an imported class has its class pointer field twice
  (`analyzer.cpp:3961`, `compiler.cpp:813`), so that every other field is addressed one place too
  far; VALID POINTER is exported as POINTER; interfaces are read before types, so that an
  interface whose methods mention exported types cannot be imported; two exported classes that
  point to each other are an internal error (`compiler.cpp:2618`); `deserialize_value` makes a bare
  NIL of an interface pointer and the number 0 of a function pointer.
* The flow checks are too hasty: the check of OUT parameters ends at the first one that is
  assigned; the bodies of LOOP, REPEAT and TRY count as executed to their end; an OUT
  argument counts as assigned in the right operand of AND or OR, in a conditional or TRY expression, to the
  right of the first comparison of a chain, in an ASSERT that may be disabled, and in the condition of an
  ELSIF (`analyzer.cpp:7391`), on the paths of the earlier branches too; TRAP bodies are not visited,
  so a variable may be read there uninitialised, nor are the argument of RAISE and the expressions of an
  ASSERT after its first; and assigned outer variables count as used at the end of IF and CASE.
* `statements.adoc:286` says that NEXT REPEAT tests the condition of the loop before it continues. The
  condition is the last of the loop's statements (`analyzer.cpp:6515`), and NEXT goes behind them,
  to the head of the loop (`compiler.cpp:2517`), without a test. In `FlowChecks`, as in the code, such a path
  goes back to the head.
* The debugger: a breakpoint is an address in any module, and is tested once, before requests are served
  (`exec.cpp:1977`), so that one set for the next instruction is missed; a number of levels in `/step/source` that
  leads below zero wraps round (`exec.cpp:2286`), and the step ends at the next source line; malformed requests
  end the executor: text where a number belongs (`exec.cpp:2264`, `2286`, `httpserver.cpp:118`), no line at all
  (`httpserver.cpp:107`), an unknown module (`exec.cpp:2216`).
* An exception in the initializer of an imported module that is caught by a TRY at the start of a module
  whose initializer waits below (`call_then_try`) leaves the modules in between without ever being
  initialised (`exec.cpp:1945`). In `Loader` it ends in that TRY likewise.
* The address of a field that an INOUT argument holds does not keep its cell alive, and the
  globals of the REPL's earlier lines are not roots of a later line's collector.

In `exec/`:

* A predefined function raises with `ip` behind CALLP in all five executors, and DIVN and MODN
  do in four; `exec.cpp` raises from the start of the instruction. The exception of such an
  instruction just before a TRY is caught by that TRY. The programs of `executors` have none there.
* cnex: `exec_INDEXDV` goes on after raising and pops two cells (`cnex.c:1359`), which belong to
  others, or are not there ("Stack underflow"). The recursion limit is compared with the index of
  the top of the call stack, one less than its size. The operand stack has 300 cells whatever
  the recursion limit is, and a deeper expression or recursion ends the process.
* cnex's library (`Misreturns`): `file.writeBytes` and `writeLines`, and on POSIX `rename`, push the
  error before they pop their arguments, so that the error is lost and an argument is taken for the
  result; the POSIX `copyOverwriteIfExists` leaves two errors when a write fails; `mkdir`,
  `removeEmptyDirectory` and `rename` (on Windows `copy`, `copyOverwriteIfExists` and `delete` too)
  give a String where a record `ErrorInfo` is declared. `posix.read`, `readlink` and `gethostname` put
  the OUT value where the result belongs, and `pipe` has no OUT values when it fails. `os.spawn` gives
  a process where a choice is declared, `io.readBytes` a String, and `net.socket_accept` a
  cell without a value.
* The same (`GoesOn`): `mmap.close` and `read`, `net.socket_select`, `os.kill` and `wait`,
  `sqlite.cursorFetch`, and on Windows three methods of objects go on after they have raised, with a null
  pointer or on the stack of the handler.
* The same: some functions are declared but not in cnex's table, so that a call of them ends the process:
  `os.chdir` and `getcwd`, the newer ones of `net`, `io.writeBytes` (entered as `io$_writeBytes`),
  the size of dictionaries, `toString` of function pointers and of dictionaries of numbers, and in
  `runtime` those that concern the collector.
* cnex: `bytecode.c` copies the hash of an import from the start of the file; `disassembly.c` has no case
  for PUSHMFP; both loaders take a file that ends too soon.
* gonex and pynex panic or leave a Python exception where `exec.cpp` raises a Neon one: an index past the
  end of an array value, a missing key (pynex), an unset function pointer. gonex makes an
  empty cell of a missing key, and raises nothing but division by zero in arithmetic.
* jnex: `raiseLiteral` leaves the frames of the activations it leaves (the tests of this are in its list of
  exclusions), so that later functions reach the variables of others.
* csnex: two modules that import each other are loaded for ever; INDEXAN raises where
  `exec.cpp` gives a blank cell.

## Proofs

Each theorem holds for every value of the constants that satisfies the module's assumptions
and the hypotheses the theorem names. TLC evaluates those hypotheses on the instances of the runs, and
has checked each inductive invariant there before it was proved, except that of `Cells`: it
says that some assignment of types and of ways through the vectors exists, and TLC checks what follows
from it.

### Executor core (`Exec_proofs`)

For every set of programs with `CodeIsWellFormed`, every recursion limit and any number of interrupts:

* `TablesAgree`: what the Emitter counts for an instruction is what its handler
  does to the stack.
* `Invariance`: `IInv` is an invariant. `TypeCorrect`, `DepthCorrect`, `FramesCorrect`, `ExitCorrect`,
  `SecondRaiseCorrect`, `RecursionCorrect` and `CallersAreKept` follow from it.
* `StaticLinksCorrect` (`StaticLinkIsLexical`) with `CallsAreLexical`, and `HandlersCorrect`
  (`HandlerIsEnclosing`) with `HandlersEnclose`.

`DepthAgrees` is not inductive: it says nothing of the suspended activations, to
which a return or an exception goes back. `IInv` adds, for each of them
(`Suspended`), that with the results of the activation above in the place of its
arguments the depth will be the recorded one, and for each exception range
around its return address (`Handled`) that the handler is in the same function,
expects one cell more than the TRY started with, and that these cells are still
there. The proof has one lemma per way control moves (`Flow`, `Call`, `Return`,
`Unwind`, `Catch`), each about the stacks alone; one per handler family that
applies them; and `StepKeeps`, which collects these. The searches of
`raise_literal` are minima and maxima of sets of indices, whose existence is
`MinOfNaturals` and `MaxOfNaturals`.

`StaticLinkIsLexical` says that the frames a frame's outer pointers lead to are of the functions
around its own. It needs `Linked`, which says so of every frame and not only of the running
one, since an exception or a return makes any frame the running one; and that a
frame's chain only holds frames below it. `invoke` takes the callee's chain from the caller's, so
the step from `Linked` to `Linked'` needs that the functions around the callee are the first of those around
the caller and the caller itself: `CallsAreLexical`. Direct calls have this by the scoping rule, and
`invoke` asserts the part of it that concerns depth (`exec.cpp:1717`). A call through a pointer has it
when functions that are nested are not made into pointers that outlive or leave
their scope. The analyzer does not check that, so it is a condition on programs (Findings).

`HandlerIsEnclosing` compares the search of `raise_literal` at the return addresses with the TRY
blocks around the calls. `Resumable` says of every return address that it is behind a call of the same function,
or the start of a module with imports, and `HandlersEnclose` that a range contains such an
address when and only when it contains what is before it. This is what the run `call_then_try` shows the
code to lack, stated as the condition under which the search is right.

`WellFormed` is what the executor needs, and a bit more: it is sufficient, not
necessary. That the code generator establishes it is checked by the run
`contract` and, for the programs of `core`, with the other two hypotheses, by an assumption of `MCExec`;
together with the theorems this covers the path from the tree to a finished run.

### Code generator (`CodeGen_proofs`)

For every set of sources with `SourcesAreBracketed`: `Invariance` and `HandlersInOrder` (`InnermostFirst`).
The assumption says of the calls that a source makes what `TryStatement::generate_code` does to them: a range begins,
ends, and only then gets its handlers, and one that begins inside another has had its handlers when the other ends.
TLC evaluates it on all sources of the run `contract`. `InnermostFirst` is not inductive, since an
entry is made of addresses noted long before. `IInv` has the address at which each call so
far was made (`Addressed`), says that the Emitter has the right ones of each TRY under way
(`Tracked`), and that each entry has those of one bracket, in the order of the
handlers (`Recorded`). The theorem is then about the order of the calls, since the address never falls.

### CASE (`CaseStatement_proofs`)

For every set of conditions, widths of the integer types and density of the table: `TypeCorrect`;
`CaseCorrect` (`ClauseMatches`), when the values fit int32 (from the invariant that a table is only
used where `UsesTable` allows it, and the lemma `JumpTableMatches`, which follows a number through
the subtraction and the conversion to uint32), but for a negative zero in a table that begins at 0; `ConditionsDisjoint` (`NoOverlap`), when no condition
is `<` or `>` (from `OverlapFound`, which goes through the pairs of comparisons); and
`AlarmsAreReal` (`NoFalseAlarm`), the other direction: two conditions that are reported have a number in common.
This needs that ranges ascend (`RangesAscend`: the analyzer has refused others,
`analyzer.cpp:5209`) and that the limits of the conditions, and the numbers 1 above and below
them, are among the numbers the property speaks of (`LimitsWitnessed`).

### Flow checks (`FlowChecks_proofs`)

For all names, kinds of blocks and nestings: `ReadsAreInitialised`, `NothingFallsOff`, `ChecksDoLeave`
and `OutParametersAssigned`; the first and the last but for the `hasty` variables (the condition of an ELSIF
among the places that make one) and handlers. `reach` has
the variables assigned on each path, and the checks are one pass over the text, so none of the four is
inductive: what is concluded at an END depends on what the branches before it left in `blocks`. In `IInv`,
`PathsInv` says that what the innermost scope is sure of is assigned on all paths that lead here, what the
scope around an open block is sure of on all paths that enter its next branch or lead behind it, and
what all finished branches have assigned on the paths behind those; `BlocksInv` relates the conclusions about
leaving and returning to the sets of paths being empty; `ScopesInv` says that an inner scope knows
what the outer ones do. The proof goes through the operations on scopes and blocks
(enter, exit, branch, assign, mark) before the statements that use them.

### Separate compilation and loading (`Modules_proofs`)

For every set of modules, exported functions, and any edits and commands in any order:
`TypeCorrect`, `NoObjectIsLeft`, `FreshImports` (`ImportsAreFresh`), `InitialisedInOrder`
(`InitAfterImports`) and `CalledAfterInit` (`NoCallBeforeInit`).

`IInv` has a part for each phase. While compiling (`BuildInv`): each Analyzer waits for that of its next import;
the names of the nested ones are in `importing`, deep enough that none is taken off too early
although names of missing modules stay there; no file is compiled inside itself, but
that the first, whose name is not in the list, may be once (`NestedInv`); a module being compiled has no
object; and what an Analyzer has read of an import is in its object, which is up to date (`FreshInv`). The
last is the property, and needs the others: a nested compilation must not touch
what an outer one has read. While loading and running (`LoaderInv`): the modules in the
table are those whose constructors are active and those loaded, each once; an import that was dealt with is in
the table or has no object; and what a loaded module imports is loaded no later, or missing, or leads back
to it (`OrderInv`), which is the cycle the property excludes. `Below` is the smallest set that
is closed under imports, because the proofs are about closed sets: the modules up to one
that is in no cycle, with the missing ones, are such a set, and therefore contain all it can reach.

### Debugger (`HttpDebugger_proofs`)

For all clients, pieces of requests, programs, bounds and breakpoints: `ConnectionsCorrect` (`ConnectionsMatch`) and
`PromiseKept` (`KeepsPromise`): the loop with its server implements `Debugging`. The refinement maps the state of the debugger through
`Shown`; every step of the server except the one that carries out a request is a stutter, and `StepPromised`
has one lemma per other action. `IInv` adds to `ConnectionsMatch` that a request has no more pieces than
it was made of, that a program which has ended stays where it was left, and that what the loop decided to do
is still what the debugger's state asks for.

### Heap (`Heap_proofs`)

For every set of cells, fields, variables and every interval: `TypeCorrect`, `PointersStayValid` (no
variable, stack cell or allocated cell holds a pointer to a freed one) and `CollectsExactly` (a
collection frees exactly what no root reaches). The inductive invariant is `TypeOK`,
`NoDanglingPointer`, and two facts about a collection under way: `Sound`, that what is marked can be
reached from a root, and `Progress`, that what a marked cell points to is marked or in `todo`, and
every root is marked, pending or in `todo`. When both lists are empty the marked cells are
therefore closed under pointers and contain the roots, and sweeping the rest is exact.

### Cells (`Cells_proofs`)

For all variables, all declarations that nest at most `MaxRank` = 2 deep, and any bounds of numbers, subscripts and the
operand stack, when only numbers are evaluated while the address of an element is held (`WhileHeld = "numbers"`):
`InductiveInvariant`, `AddressesStayLive` (`AddressesLive`, with the types of all cells), `AddressesAreDetached`
(`DetachedFromCopies`) and `SharingIsInvisible` (`ImplementsValues`: each step of `Cells` is the corresponding step of
`Values`, or changes nothing it sees). For `"calls"` they are false: an INOUT argument is such an address, and the function
may assign the variable it leads into (Findings).

`DetachedFromCopies` is not inductive. It speaks of the address at the top of the stack, but an instruction that writes
must not share a vector on the way to an address below it; and it says nothing of the vectors behind an address, the
types of their elements, or who else points to them. `IInv` gives each vector or map that exists a type (`ty`, which exists in each
state), says that every cell agrees with the type of what it is in, and says of each address of an
element that its subscripts lead to it from its variable through vectors that nothing else points to
(`WayTo`). The proof has these parts:

* a write through a detached place leaves each way alone that does not go through that place (`Keeps`, `WaysOff`, `AllWays`), and
  extends the one that does;
* `Used`, `Detached`, `Replaced` and so `IndexForWrite` make the place the only owner of its contents, whether
  they are its own, a copy, or new;
* destroying what no cell points to and naming the rest anew maps ways to ways (`Destroyed`, `NamesRename`,
  `AfterReach`): what is reachable is so after at most `MaxRank` subscripts, because types get shorter;
* what is left of the stack is settled: only its top may be the address of an element (`Settled`, `Calm`).

There is one lemma per instruction (`PushAddressInv` to `EraseInv`) that puts these together.

The refinement uses nothing of a state but `IInv`. Its parts:

* a value (`Tree`, here `Val`) is unfolded by the rank of its type (`TreeByRank`, `TreeIs`), and so are the recursive
  functions of `EqualCells` and `HasBlank`: on cells without blanks, cells are equal exactly when their values are
  (`EqualIs`);
* giving a cell its type, or a container of its own, changes the value of no place (`Same`: `UsedSame`, `DetachedSame`,
  `ForWriteSame`), and neither does destroying and naming anew (`AfterVal`, `BecomeShows`);
* a write at the end of a way changes each value above it by one EXCEPT (`WayUp`), so that the variable is `Updated` along the
  subscripts (`WayUpdated`), and no value off the way, because nothing on it is shared (`StillAlike`, `StillVal`). This
  is where `DetachedFromCopies` is needed. `SetShows` says it of an address: the write is `Set` of its reference;
* the operations on contents commute with taking values (`GrownShown`, `AppendedShown`, `ResizedShown`, `RemovedShown`).

Again one lemma per instruction (`PushAddressShows` to `FindShows`) has the action of `Values` as its conclusion.

### Only model-checked

* The liveness properties (`EventuallyHalts` and the others): liveness under fairness is out of the prover's reach.
* `ContractKept` and `ReadBack` of `CodeGen`: that all jumps to a label agree on the depth is a fact about the
  tree, which is recursive, and induction over data is out of the prover's reach.
* `AcceptsTheGrammar`, `OneReading`, `AsDeclared`, `RaiseIsFinal`: the modules they are about use recursive operators.
* `EndsLikeExec` and `StepsLikeExec` of `Executors`: the programs come with recursive operators.

## Not modelled

* Callbacks (`exec_callback`, `exec.cpp:500`): a nested `exec_loop` for an extension; when the
  callback raises past its own activation the extension goes on with an unwound
  stack. It needs the extension's side, which is not in the repository.
* The REPL: a line that fails half way leaves declarations without values.
* The lexer, scopes and name lookup, constant folding: sequential
  translations whose results the models take as inputs; the SQL inside EXEC.
* The code generators for C, C++, JavaScript, the JVM and the CLI,
  the dumps and debug information: translations into text or other formats.
* The predefined functions of `src/lib` in C++ and the rest of that runtime library, the number
  library: computations and I/O behind CALLP, of which `Exec` has the exceptions. Generated code moves
  their arguments and results. Of cnex's functions the computations.
* Records and lists copied by value, strings, bytes and objects as values.
* The executors in Neon (`exec/nenex`) and Rust (`exec/rsnex`): the first is a test of the
  language, the second is mostly unimplemented.
* A debugger whose port cannot be bound: `service` then returns at once, and a stopped program
  spins (`exec.cpp:1994`).

## Plan

1. Done: the executor core with the code generator's contract, CASE, cells as values.
2. Done: flow checks, heap, separate compilation and loading, debugger, other executors, parser,
   cnex's predefined functions, typed expressions and their code, object files.
3. Proofs: done for `Exec`, `CaseStatement`, the exception table of `CodeGen`, `FlowChecks`, `Build` with `Loader`, `HttpDebugger`, `Heap` and `Cells`.
   `Cells` is proved to implement `Values`, `HttpDebugger` to implement `Debugging`.
   Left: for `Executors`, that a step of each executor is one of `Exec`.
4. `Callback`: `exec_callback` as a nested loop over `Exec`'s stacks, and what the
   extension sees when the callback raises.
5. Constant folding against the executor's arithmetic, and the JVM back end's operand
   stack, which it shares with `CodeGen`'s depth.
