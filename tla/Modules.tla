------------------------------ MODULE Modules -------------------------------
(***************************************************************************)
(* Source files, the commands that compile them, and the programs that are *)
(* run from the objects: Build and Loader together.                        *)
(***************************************************************************)
EXTENDS Loader

vars == <<buildVars, loaderVars>>

Init == BuildInit /\ LoaderInit

(* A run ends when its process does, and s_importing with it.              *)
Ended == loading' = <<>> /\ calls' = <<>>

LoadOrRun ==
  /\ Load \/ Run
  /\ command' = IF Ended THEN "none" ELSE command
  /\ program' = IF Ended THEN None ELSE program
  /\ importing' = IF Ended THEN <<>> ELSE importing
  /\ UNCHANGED <<source, object, analyzers, error>>

Next ==
  \/ (Command \/ Compile) /\ UNCHANGED loaderVars
  \/ LoadOrRun

(* A command that has begun to compile or to load goes on to its end.      *)
Spec == Init /\ [][Next]_vars /\ WF_vars(Compile /\ UNCHANGED loaderVars) /\ WF_vars(LoadOrRun)

-----------------------------------------------------------------------------
TypeOK ==
  /\ BuildTypeOK
  /\ table \in [Modules -> Object \cup {None}]
  /\ loading \in Seq(Constructors)
  /\ initOrder \in Seq(Names) /\ calls \in Seq(Modules)
  /\ exitCode \in {None, "0", "1", "fatal"}

(* A module is initialised once, and after all those it imports, except    *)
(* for modules that import it in turn.                                     *)
InitAfterImports ==
  /\ TypeOK
  /\ IsInjective(initOrder)
  /\ \A k \in DOMAIN initOrder : \A n \in Imports(initOrder[k]) :
       table[n] = None \/ initOrder[k] \in Below(n) \/ \E j \in 1..(k - 1) : initOrder[j] = n

(* While the code of a module that is in no cycle of imports runs, no      *)
(* module whose functions it may reach still waits to be initialised.      *)
NoCallBeforeInit ==
  calls # <<>> /\ ~InCycle(Last(calls)) =>
    \A k \in 1..(Len(calls) - 1) : calls[k] \notin Below(Last(calls))

(* Compiling and loading end, whatever cycles there are: the first because *)
(* s_importing stops it, the second because a module is entered in the     *)
(* table before its imports are looked at. Objects that are up to date let *)
(* cycles pass the first.                                                  *)
LoadingEnds == loading # <<>> ~> loading = <<>>
CyclesEnd == CompilationEnds /\ LoadingEnds

-----------------------------------------------------------------------------
\* An instance: a imports b and c, b imports c, perhaps as an optional module, and c may
\* import b.
Uses(n, f) == [name |-> n, optional |-> FALSE, uses |-> f]
Mentions(n) == Uses(n, Nothing)
MayUse(n, f) == [name |-> n, optional |-> TRUE, uses |-> f]
File(imports, exports, tries) == [imports |-> imports, exports |-> exports, tries |-> tries]

Some == [m \in Names |->
  CASE m = "a" -> {File(<<Uses("b", "f"), Uses("c", "f")>>, "f", TRUE), File(<<Uses("b", "f"), Uses("b", "f"), Mentions("c")>>, "f", FALSE)}
    [] m = "b" -> {File(<<Uses("c", "f")>>, "f", TRUE), File(<<MayUse("c", "f")>>, "f", FALSE)}
    [] m = "c" -> {File(<<>>, "f", FALSE), File(<<>>, "g", FALSE), File(<<Uses("b", "f")>>, "f", FALSE)}]
=============================================================================
