------------------------------- MODULE Build --------------------------------
(***************************************************************************)
(* Separate compilation: how neonc and neon keep the object files of       *)
(* modules up to date while a source file that imports them is analysed    *)
(* (analyzer.cpp import_module, support_compiler.cpp loadBytecode,         *)
(* neonc.cpp, neon.cpp).                                                   *)
(*                                                                         *)
(* The text of a source file is reduced to its imports, to the one         *)
(* function it exports, to whether its code starts with a TRY statement    *)
(* (which matters when it runs), and its hash is the text itself.  All     *)
(* files are in one directory.  Files are edited and removed between two   *)
(* commands.                                                               *)
(***************************************************************************)
EXTENDS Integers, Sequences, SequencesExt, FiniteSets

CONSTANTS
  Names,      \* the names of modules
  Functions,  \* what a module may export: a name with its parameter types
  Texts,      \* Texts[m]: the texts the source file of m may have
  None        \* no file

(* uses is the function the importing module calls, Nothing if none.  All  *)
(* imports of a module from one file agree on these.                       *)
Nothing == "nothing"
Import == [name: Names, optional: BOOLEAN, uses: Functions \cup {Nothing}]
Text == [imports: Seq(Import), exports: Functions, tries: BOOLEAN]

(* An object file: the text it was compiled from, and the imports that are *)
(* left in it.                                                             *)
Object == [text: Text, links: Seq(Import)]

ASSUME ConstantTypes ==
  /\ \A m \in Names : Texts[m] \subseteq Text
  /\ Nothing \notin Functions
  /\ None \notin Object

VARIABLES
  source,     \* the source files
  object,     \* the object files
  command,    \* the command that is running: "none", "neonc", "neon" or "neonx"
  analyzers,  \* one Analyzer for each file that is being compiled, the innermost last
  importing,  \* s_importing, which lasts as long as the process
  program,    \* the object of the program that is run
  error       \* the number of the last error, or None

buildVars == <<source, object, command, analyzers, importing, program, error>>

Analyzer == [module: Names, todo: Seq(Import), modules: [Names -> Functions \cup {None}]]

NewAnalyzer(m) == [module |-> m, todo |-> source[m].imports, modules |-> [n \in Names |-> None]]

Current == Last(analyzers)
Next_ == Head(Current.todo)

(* The innermost Analyzer has dealt with its next import.                  *)
Done(as) == [as EXCEPT ![Len(as)].todo = Tail(@)]
DoneWith(as, n) == [Done(as) EXCEPT ![Len(as)].modules[n] = object[n].text.exports]

BuildInit ==
  /\ source \in [Names -> UNION {Texts[m] : m \in Names} \cup {None}]
  /\ \A m \in Names : source[m] \in Texts[m] \cup {None}
  /\ object = [m \in Names |-> None]
  /\ command = "none" /\ analyzers = <<>> /\ importing = <<>>
  /\ program = None /\ error = None

-----------------------------------------------------------------------------
(* Between commands.                                                       *)
Edit(m) ==
  /\ command = "none"
  /\ \E t \in Texts[m] \cup {None} : source' = [source EXCEPT ![m] = t]
  /\ UNCHANGED <<object, command, analyzers, importing, program, error>>

Delete(m) ==
  /\ command = "none"
  /\ object' = [object EXCEPT ![m] = None]
  /\ UNCHANGED <<source, command, analyzers, importing, program, error>>

(* neonc begins with a file; it may have compiled others before.  The old  *)
(* object is removed first.                                                *)
StartNeonc(m) ==
  /\ command \in {"none", "neonc"} /\ analyzers = <<>> /\ source[m] # None
  /\ command' = "neonc"
  /\ object' = [object EXCEPT ![m] = None]
  /\ analyzers' = <<NewAnalyzer(m)>>
  /\ error' = None
  /\ UNCHANGED <<source, importing, program>>

EndNeonc ==
  /\ command = "neonc" /\ analyzers = <<>>
  /\ command' = "none" /\ importing' = <<>>
  /\ UNCHANGED <<source, object, analyzers, program, error>>

(* neon compiles a source file in memory.                                  *)
StartNeon(m) ==
  /\ command = "none" /\ source[m] # None
  /\ command' = "neon"
  /\ analyzers' = <<NewAnalyzer(m)>>
  /\ error' = None
  /\ UNCHANGED <<source, object, importing, program>>

(* neonx runs an object file.                                              *)
StartNeonx(m) ==
  /\ command = "none" /\ object[m] # None
  /\ command' = "neonx"
  /\ program' = object[m]
  /\ UNCHANGED <<source, object, analyzers, importing, error>>

-----------------------------------------------------------------------------
(* import_module(), for the next import of the innermost Analyzer.         *)

Importing == analyzers # <<>> /\ Current.todo # <<>>
IsNew(n) == Importing /\ Current.modules[n] = None /\ n \notin Range(importing)

(* An error ends the command, except that neonc -i goes on to the next     *)
(* file, with what s_importing holds by then.                              *)
Fail(number, left) ==
  /\ analyzers' = <<>>
  /\ error' = number
  /\ \/ command' = "none" /\ importing' = <<>>
     \/ command = "neonc" /\ command' = "neonc" /\ importing' = left
  /\ UNCHANGED <<source, object, program>>

(* Mutant: an import that is there already is looked at once more.         *)
ImportAgain_forever ==
  /\ Importing /\ Current.modules[Next_.name] # None
  /\ UNCHANGED buildVars

ImportAgain ==
  /\ Importing /\ Current.modules[Next_.name] # None
  /\ analyzers' = Done(analyzers)
  /\ UNCHANGED <<source, object, command, importing, program, error>>

ImportRecursive ==
  /\ Importing /\ Current.modules[Next_.name] = None /\ Next_.name \in Range(importing)
  /\ Fail("N3181", importing)

(* Without a file an optional import is passed over.                       *)
ImportNotFound ==
  /\ Importing /\ IsNew(Next_.name) /\ object[Next_.name] = None /\ source[Next_.name] = None
  /\ IF Next_.optional
       THEN /\ importing' = Append(importing, Next_.name)
            /\ analyzers' = Done(analyzers)
            /\ UNCHANGED <<source, object, command, program, error>>
       ELSE Fail("N3001", Append(importing, Next_.name))

(* Mutant: any object will do.                                             *)
UpToDate_exists(n) == object[n] # None

(* The object of this text, or of a text that is gone, is used as it is.   *)
UpToDate(n) == object[n] # None /\ source[n] \in {None, object[n].text}

ImportObject ==
  /\ Importing /\ IsNew(Next_.name) /\ UpToDate(Next_.name)
  /\ analyzers' = DoneWith(analyzers, Next_.name)
  /\ UNCHANGED <<source, object, command, importing, program, error>>

(* Mutant: the old object stays until there is a new one.                  *)
ImportSource_keep ==
  /\ Importing /\ IsNew(Next_.name) /\ source[Next_.name] # None /\ ~UpToDate(Next_.name)
  /\ importing' = Append(importing, Next_.name)
  /\ analyzers' = Append(analyzers, NewAnalyzer(Next_.name))
  /\ UNCHANGED <<source, object, command, program, error>>

(* Any other is removed and made again: a nested compilation begins.       *)
ImportSource ==
  /\ Importing /\ IsNew(Next_.name) /\ source[Next_.name] # None /\ ~UpToDate(Next_.name)
  /\ importing' = Append(importing, Next_.name)
  /\ object' = [object EXCEPT ![Next_.name] = None]
  /\ analyzers' = Append(analyzers, NewAnalyzer(Next_.name))
  /\ UNCHANGED <<source, command, program, error>>

-----------------------------------------------------------------------------
(* The end of a file.                                                      *)

AtEnd == analyzers # <<>> /\ Current.todo = <<>>

(* A name that the imported module does not export is an error.            *)
Unknown(a, i) == i.uses # Nothing /\ a.modules[i.name] # None /\ a.modules[i.name] # i.uses

(* The imports that are left in the object: of the modules that were found *)
(* and that are used, each once.                                           *)
Links(a) ==
  LET imports == source[a.module].imports
      isLink(i) == i.uses # Nothing /\ a.modules[i.name] # None
      upTo[k \in 0..Len(imports)] ==
        IF k = 0 THEN << >>
        ELSE IF isLink(imports[k]) /\ \A j \in DOMAIN upTo[k - 1] : upTo[k - 1][j].name # imports[k].name
        THEN Append(upTo[k - 1], imports[k])
        ELSE upTo[k - 1]
  IN upTo[Len(imports)]

Compiled(a) == [text |-> source[a.module], links |-> Links(a)]

UnknownName ==
  /\ AtEnd /\ \E i \in Range(source[Current.module].imports) : Unknown(Current, i)
  /\ Fail("N3176", importing)

(* The object is written; the importing file's Analyzer goes on, and takes *)
(* the last name off s_importing.  At the end of neon's file there is no   *)
(* object to write, and the program runs.                                  *)
Finish ==
  /\ AtEnd /\ ~\E i \in Range(source[Current.module].imports) : Unknown(Current, i)
  /\ IF command = "neon" /\ Len(analyzers) = 1
       THEN program' = Compiled(Current) /\ UNCHANGED object
       ELSE object' = [object EXCEPT ![Current.module] = Compiled(Current)] /\ UNCHANGED program
  /\ IF Len(analyzers) = 1
       THEN analyzers' = <<>> /\ UNCHANGED importing
       ELSE /\ analyzers' = [Done(Front(analyzers)) EXCEPT
                             ![Len(analyzers) - 1].modules[Current.module] = source[Current.module].exports]
            /\ importing' = Front(importing)
  /\ UNCHANGED <<source, command, error>>

Compile ==
  \/ ImportAgain \/ ImportRecursive \/ ImportNotFound \/ ImportObject \/ ImportSource
  \/ UnknownName \/ Finish

Command ==
  \/ \E m \in Names : Edit(m) \/ Delete(m) \/ StartNeonc(m) \/ StartNeon(m) \/ StartNeonx(m)
  \/ EndNeonc

-----------------------------------------------------------------------------
BuildTypeOK ==
  /\ source \in [Names -> Text \cup {None}]
  /\ object \in [Names -> Object \cup {None}]
  /\ command \in {"none", "neonc", "neon", "neonx"}
  /\ analyzers \in Seq(Analyzer)
  /\ importing \in Seq(Names)
  /\ program \in Object \cup {None}
  /\ error \in {"N3001", "N3176", "N3181", None}

(* A file whose compilation fails leaves no object behind: there is none   *)
(* of a file that is being compiled, at any depth.                         *)
NoObjectWhileCompiling ==
  \A k \in DOMAIN analyzers :
    object[analyzers[k].module] = None \/ (k = 1 /\ command = "neon")

(* A file is compiled against objects of what its imports are now, however *)
(* often files were edited and commands failed before.                     *)
ImportsAreFresh ==
  [][Finish => \A n \in Names : Current.modules[n] # None =>
       /\ object[n] # None /\ source[n] \in {None, object[n].text}
       /\ Current.modules[n] = object[n].text.exports]_buildVars

(* A compilation always comes to an end, whatever imports whatever.        *)
CompilationEnds == analyzers # <<>> ~> analyzers = <<>>
=============================================================================
