-------------------------------- MODULE MCExec --------------------------------
(***************************************************************************)
(* Model checking of Exec on the programs of module Programs.              *)
(***************************************************************************)
EXTENDS Exec

LOCAL S == INSTANCE Programs

Core ==
  {S!Compiled(S!Nested, "main", <<>>),
   S!Compiled(S!Recursive, "main", <<>>),
   S!Compiled(S!Modules, "main", <<"lib", "other">>),
   S!Compiled(S!Loops, "main", <<>>),
   S!Compiled(S!Waiting, "main", <<>>)}

ASSUME CoreIsWellFormed ==
  \A p \in Core : WellFormed(p) /\ LexicallyScoped(p) /\ RangesEnclose(p)

(* A program on which the code departs from what its documents say.        *)
CallThenTry == {S!Compiled(S!CallThenTry, "main", <<>>)}

=============================================================================
