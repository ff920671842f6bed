------------------------------- MODULE Loader -------------------------------
(***************************************************************************)
(* The executor's loading of the modules a program imports, and the order  *)
(* in which they are initialised (exec.cpp: Module, Executor::exec,        *)
(* raise_literal).                                                         *)
(*                                                                         *)
(* The main program is the module named Main, whatever its file is called: *)
(* if its own name is imported it is loaded once more.                     *)
(***************************************************************************)
EXTENDS Build

CONSTANT Main  \* "", the name of the main program in the table of modules

ASSUME MainIsNoName == Main \notin Names

VARIABLES
  table,      \* modules: the object of each that was entered, None for the others
  loading,    \* the Module constructors that are active, the innermost last
  initOrder,  \* init_order
  calls,      \* the modules whose code is running or waits to run, the running one last
  exitCode    \* how the last run ended: "0", "1" or "fatal", None before

loaderVars == <<table, loading, initOrder, calls, exitCode>>

Modules == Names \cup {Main}
Constructors == [module: Modules, todo: Seq(Import)]

LoaderInit ==
  /\ table = [m \in Modules |-> None]
  /\ loading = <<>> /\ initOrder = <<>> /\ calls = <<>>
  /\ exitCode = None

-----------------------------------------------------------------------------
(* Loading.                                                                *)

(* The program is there: the constructor of its Module begins.             *)
BeginLoading ==
  /\ command \in {"neon", "neonx"} /\ analyzers = <<>>
  /\ loading = <<>> /\ calls = <<>>
  /\ table' = [[m \in Modules |-> None] EXCEPT ![Main] = program]
  /\ loading' = <<[module |-> Main, todo |-> program.links]>>
  /\ initOrder' = <<>> /\ exitCode' = None
  /\ UNCHANGED calls

Constructor == Last(loading)
NextLink == Head(Constructor.todo)
AtLink == loading # <<>> /\ Constructor.todo # <<>>

Skip == loading' = [loading EXCEPT ![Len(loading)].todo = Tail(@)]

(* The process ends.                                                       *)
Exit(code) ==
  /\ exitCode' = code
  /\ table' = [m \in Modules |-> None]
  /\ loading' = <<>> /\ initOrder' = <<>> /\ calls' = <<>>

LoadAgain ==
  /\ AtLink /\ table[NextLink.name] # None
  /\ Skip
  /\ UNCHANGED <<table, initOrder, calls, exitCode>>

LoadNotFound ==
  /\ AtLink /\ table[NextLink.name] = None /\ object[NextLink.name] = None
  /\ IF NextLink.optional
       THEN Skip /\ UNCHANGED <<table, initOrder, calls, exitCode>>
       ELSE Exit("1")

(* The module is entered in the table before its own imports are loaded.   *)
LoadModule ==
  /\ AtLink /\ table[NextLink.name] = None /\ object[NextLink.name] # None
  /\ table' = [table EXCEPT ![NextLink.name] = object[NextLink.name]]
  /\ loading' = Append(loading, [module |-> NextLink.name, todo |-> object[NextLink.name].links])
  /\ UNCHANGED <<initOrder, calls, exitCode>>

(* Mutant: the last module loaded is the first initialised.                *)
Loaded_first ==
  /\ Len(loading) > 1 /\ Constructor.todo = <<>>
  /\ initOrder' = <<Constructor.module>> \o initOrder
  /\ loading' = [Front(loading) EXCEPT ![Len(loading) - 1].todo = Tail(@)]
  /\ UNCHANGED <<table, calls, exitCode>>

Loaded ==
  /\ Len(loading) > 1 /\ Constructor.todo = <<>>
  /\ initOrder' = Append(initOrder, Constructor.module)
  /\ loading' = [Front(loading) EXCEPT ![Len(loading) - 1].todo = Tail(@)]
  /\ UNCHANGED <<table, calls, exitCode>>

(* Mutant: the first module is called first, so it runs last.              *)
BeginExecution_order ==
  /\ Len(loading) = 1 /\ Constructor.todo = <<>>
  /\ loading' = <<>>
  /\ calls' = <<Main>> \o initOrder
  /\ UNCHANGED <<table, initOrder, exitCode>>

(* exec(): the calls of all modules are set up at once, the first to run   *)
(* on top.                                                                 *)
BeginExecution ==
  /\ Len(loading) = 1 /\ Constructor.todo = <<>>
  /\ loading' = <<>>
  /\ calls' = <<Main>> \o Reverse(initOrder)
  /\ UNCHANGED <<table, initOrder, exitCode>>

-----------------------------------------------------------------------------
(* Running.                                                                *)

LinksOf(m) == IF table[m] = None THEN <<>> ELSE table[m].links
Imports(m) == {i.name : i \in Range(LinksOf(m))}

(* m and the modules its imports lead to: the smallest set with m that has *)
(* what its members import.                                                *)
Closed(S) == \A p \in S : Imports(p) \subseteq S
Below(m) == {n \in Modules : \A S \in SUBSET Modules : m \in S /\ Closed(S) => n \in S}

(* m imports itself, directly or not.                                      *)
InCycle(m) == \E n \in Imports(m) : m \in Below(n)

Running == calls # <<>>
Module == Last(calls)

(* A module's code ends, and that of the next begins; after the main       *)
(* program's the process ends.                                             *)
Return ==
  /\ Running
  /\ IF Len(calls) = 1
       THEN Exit("0")
       ELSE /\ calls' = Front(calls)
            /\ UNCHANGED <<table, loading, initOrder, exitCode>>

(* An exception that the running module does not handle.  The calls that   *)
(* wait are at the first instruction of their module: a TRY statement that *)
(* begins there handles it if it has a handler for it.                     *)
Handler(k) == k \in 1..(Len(calls) - 1) /\ table[calls[k]].text.tries

Raise ==
  /\ Running
  /\ \/ Exit("1")
     \/ \E k \in DOMAIN calls :
          /\ Handler(k)
          /\ calls' = SubSeq(calls, 1, k)
          /\ UNCHANGED <<table, loading, initOrder, exitCode>>

(* A call of an imported function, from the running module or from one     *)
(* that it called: the function is looked up in the module's exports.      *)
CallUnknown ==
  /\ Running
  /\ \E m \in Below(Module) : \E i \in Range(LinksOf(m)) : table[i.name] # None /\ table[i.name].text.exports # i.uses
  /\ Exit("fatal")

Load == BeginLoading \/ LoadAgain \/ LoadNotFound \/ LoadModule \/ Loaded \/ BeginExecution

Run == Return \/ Raise \/ CallUnknown
=============================================================================
