-------------------------------- MODULE Cells --------------------------------
(***************************************************************************)
(* Cells of the executor: arrays and dictionaries are shared between cells *)
(* and copied when one of them is written (src/src/cell.cpp), and the      *)
(* instructions that take, index, load and store through addresses of      *)
(* cells (src/src/exec.cpp), with the array methods of lib/builtin.cpp.    *)
(*                                                                         *)
(* The program is any sequence of instructions that respects the static    *)
(* types, restricted by WhileHeld to the shapes of code in which the       *)
(* sharing cannot be seen.  An address keeps, as history, the path of      *)
(* subscripts it was made from, which Values calls a reference.            *)
(***************************************************************************)
EXTENDS Containers

CONSTANTS
  Vars,             \* the variables
  Declarations,     \* the types they may be declared with
  MaxNumber,        \* bound: numbers are 0 .. MaxNumber
  MaxKey(_),        \* bound: with variables of these types, subscripts are 0 .. MaxKey
  MaxStack,         \* bound: depth of the operand stack
  WhileHeld         \* what runs while the address of an element is held

MaxRank == 2   \* bound: how deep the declared types nest

Type == Seq({"Array", "Dictionary"})

ASSUME DeclarationsAssumption ==
  \A d \in Declarations :
    /\ DOMAIN d = Vars
    /\ \A v \in Vars : d[v] \in Type /\ Len(d[v]) <= MaxRank

ASSUME BoundAssumption ==
  MaxStack \in Nat /\ MaxNumber \in Nat /\ \A d \in Declarations : MaxKey(d) \in Nat

\* The address of an element is held while the next subscript is evaluated, which
\* may read numbers; and, as an INOUT argument, while the rest of the arguments and
\* the body of the function are.
ASSUME ProgramShapes == WhileHeld \in {"numbers", "calls"}

VARIABLES
  types,   \* the declared type of each variable
  vars,    \* the cell of each variable
  stack,   \* Executor::stack, the top last
  bufs     \* the vectors and maps that cells point to; DOMAIN: those that exist

state == <<types, vars, stack, bufs>>

Numbers == 0 .. MaxNumber
Keys == 0 .. MaxKey(types)

-----------------------------------------------------------------------------
(***************************************************************************)
(* Cells.  buf is array_ptr or dictionary_ptr.                             *)
(***************************************************************************)
Null == << >>
None == [type |-> "None", number |-> 0, buf |-> Null]
Number(n) == [type |-> "Number", number |-> n, buf |-> Null]
Shared(b) == [type |-> "Container", number |-> 0, buf |-> b]

\* Where a cell is.
InVar(v) == <<"var", v>>
InStack(i) == <<"stack", i>>
InBuf(b, k) == <<"buf", b, k>>

\* Entries of the operand stack.  An address is made to read what is there, as for
\* an INOUT argument, or to write it, as for the target of an assignment.
Value(type, cell) == [kind |-> "value", type |-> type, cell |-> cell]
Address(type, at, use, var, keys) ==
  [kind |-> "address", type |-> type, at |-> at, use |-> use, var |-> var, keys |-> keys]

IsElement(e) == e.kind = "address" /\ e.at[1] = "buf"

\* The instructions below compute on the state as a record; made counts the vectors
\* and maps an instruction has made.
Now == [vars |-> vars, stack |-> stack, bufs |-> bufs, made |-> 0]

Exists(s, at) ==
  at[1] = "buf" => at[2] \in DOMAIN s.bufs /\ at[3] \in DOMAIN s.bufs[at[2]]

Cell(s, at) ==
  CASE at[1] = "var" -> s.vars[at[2]]
    [] at[1] = "stack" -> s.stack[at[2]].cell
    [] at[1] = "buf" -> s.bufs[at[2]][at[3]]

SetCell(s, at, cell) ==
  CASE at[1] = "var" -> [s EXCEPT !.vars[at[2]] = cell]
    [] at[1] = "stack" -> [s EXCEPT !.stack[at[2]].cell = cell]
    [] at[1] = "buf" -> [s EXCEPT !.bufs[at[2]][at[3]] = cell]

Roots(s) == {InVar(v) : v \in Vars} \cup {InStack(i) : i \in {j \in DOMAIN s.stack : s.stack[j].kind = "value"}}
Places(s) == Roots(s) \cup UNION {{InBuf(b, k) : k \in DOMAIN s.bufs[b]} : b \in DOMAIN s.bufs}

\* shared_ptr::unique
Unique(s, b) == \E at \in Places(s) : \A p \in Places(s) : Cell(s, p).buf = b <=> p = at

\* Which vector or map each root, and each root with subscripts, leads to.
FromRoots(s) == {<<at, Cell(s, at).buf>> : at \in {p \in Roots(s) : Cell(s, p).buf # Null}}
Further(s, leads) ==
  {q \in UNION {{<<Append(p[1], k), s.bufs[p[2]][k].buf>> : k \in DOMAIN s.bufs[p[2]]} : p \in leads} :
     q[2] # Null}
Leads(s) ==
  LET after[r \in 1 .. MaxRank] == IF r = 1 THEN FromRoots(s) ELSE Further(s, after[r - 1])
  IN  UNION {after[r] : r \in 1 .. MaxRank}

\* The vectors and maps named by the first of what leads to them, so that states do
\* not differ by names.
NamesOf(leads) == [b \in {p[2] : p \in leads} |-> (CHOOSE p \in leads : p[2] = b)[1]]
Renamed(s, name) ==
  LET to(b) == IF b \in DOMAIN name THEN name[b] ELSE Null
      renamed(c) == [c EXCEPT !.buf = to(@)]
      named(n) == CHOOSE b \in DOMAIN name : name[b] = n
  IN  [vars |-> [v \in Vars |-> renamed(s.vars[v])],
       stack |-> [i \in DOMAIN s.stack |->
                    IF s.stack[i].kind = "value" THEN [s.stack[i] EXCEPT !.cell = renamed(@)]
                    ELSE IF IsElement(s.stack[i])
                    THEN [s.stack[i] EXCEPT !.at = InBuf(to(@[2]), @[3])]
                    ELSE s.stack[i]],
       bufs |-> [n \in {name[b] : b \in DOMAIN name} |->
                   [k \in DOMAIN s.bufs[named(n)] |-> renamed(s.bufs[named(n)][k])]]]

\* shared_ptr: a vector or map is destroyed with the last cell that points to it.
Destroyed(s) == Renamed(s, NamesOf(Leads(s)))

\* make_shared, in the place of what the cell at points to.
Made(s, at, contents) ==
  LET b == <<"new", s.made + 1>>
  IN  SetCell([s EXCEPT !.made = s.made + 1,
                        !.bufs = [c \in DOMAIN s.bufs \cup {b} |-> IF c = b THEN contents ELSE s.bufs[c]]],
              at, Shared(b))

Contents(s, at) == s.bufs[Cell(s, at).buf]

SetContents(s, at, contents) == [s EXCEPT !.bufs[Cell(s, at).buf] = contents]

\* number(), array(), dictionary(): a cell of type None takes the type by which
\* it is used.
Used(s, at, type) ==
  IF Cell(s, at).type # "None" THEN s
  ELSE IF IsContainer(type) THEN Made(s, at, << >>) ELSE SetCell(s, at, Number(0))

\* What cell at points to is copied unless no other cell points to it.
Detached(s, at) == IF Unique(s, Cell(s, at).buf) THEN s ELSE Made(s, at, Contents(s, at))

ForWrite_shared(s, at, type) == Used(s, at, type)
\* array_for_write, dictionary_for_write
ForWrite(s, at, type) == Detached(Used(s, at, type), at)

\* A vector that grows may have to move its elements; a map never does.
Replaced(s, at, type, contents, moves) ==
  IF moves /\ IsArray(type) /\ Size(contents) > Size(Contents(s, at))
  THEN Made(s, at, contents) ELSE SetContents(s, at, contents)

WithElement(s, at, type, key, moves) ==
  IF key \in DOMAIN Contents(s, at) THEN s
  ELSE Replaced(s, at, type, Grown(Contents(s, at), type, key, None), moves)

\* array_index_for_write, dictionary_index_for_write
IndexForWrite(s, at, type, key, moves) ==
  WithElement(ForWrite(s, at, type), at, type, key, moves)

ElementAt(s, at, key) == InBuf(Cell(s, at).buf, key)

-----------------------------------------------------------------------------
(***************************************************************************)
(* The operand stack.                                                      *)
(***************************************************************************)
Depth == Len(stack)
Operand(i) == stack[Depth - i]
Below(n) == SubSeq(stack, 1, Depth - n)
IsValue(i) == Depth > i /\ Operand(i).kind = "value"

\* Using an address whose cell is gone is undefined: AddressesLive excludes it.
IsAddress(i) ==
  /\ Depth > i
  /\ Operand(i).kind = "address"
  /\ Exists(Now, Operand(i).at)

\* No element's address is held, but for operand i.
AtStatement(i) ==
  WhileHeld = "calls" \/ \A j \in DOMAIN stack : IsElement(stack[j]) => j = Depth - i

\* The address of a number is used as soon as it is made, if not an INOUT argument.
Free ==
  Depth > 0 /\ IsElement(Operand(0)) /\ ~IsContainer(Operand(0).type) =>
    WhileHeld = "calls" /\ Operand(0).use = "read"

\* The address of an element, in the array or dictionary as the instruction leaves it.
Sub_early(s, a, key, use) ==
  Address(Element(a.type), ElementAt(Now, a.at, key), use, a.var, Append(a.keys, key))
Sub(s, a, key, use) ==
  Address(Element(a.type), ElementAt(s, a.at, key), use, a.var, Append(a.keys, key))

Assign(s) == vars' = s.vars /\ stack' = s.stack /\ bufs' = s.bufs /\ UNCHANGED types
Become(s) == Assign(Destroyed(s))

With(s, st) == Become([s EXCEPT !.stack = st])
Push(s, e) == Free /\ Depth < MaxStack /\ With(s, Append(s.stack, e))

-----------------------------------------------------------------------------
Init ==
  /\ types \in Declarations
  /\ vars = [v \in Vars |-> None]
  /\ stack = << >>
  /\ bufs = << >>

\* raise_literal drops what was pushed since the TRY that catches began, with at least
\* the operands of the instruction; the cell of the exception is left out.
Raise(s, operands) == \E n \in operands .. Depth : With(s, Below(n))

\* PUSHPG, PUSHPL, PUSHPOL
PushAddress == \E v \in Vars : Push(Now, Address(types[v], InVar(v), "read", v, << >>))

\* PUSHI, PUSHN
PushNumber == \E n \in Numbers : Push(Now, Value(<<>>, Number(n)))

\* PUSHPL, LOADP: the address that an INOUT parameter holds.
PushParameter ==
  \E i \in 0 .. Depth - 1 :
    /\ IsAddress(i)
    /\ IsElement(Operand(i)) => WhileHeld = "calls"
    /\ Push(Now, Operand(i))

\* DUP: an expression assigned to several variables
Duplicate == IsValue(0) /\ AtStatement(0) /\ Push(Now, Operand(0))

\* DROP: the value of an ExpressionStatement, an INOUT argument after the call
Drop == Depth > 0 /\ AtStatement(0) /\ With(Now, Below(1))

\* CONSA, CONSD: an empty literal, and an array of one element
Consed(type, contents) ==
  Made([Now EXCEPT !.stack = Append(stack, Value(type, None))], InStack(Depth + 1), contents)
Literal ==
  \/ \E t \in ContainerTypes(types) :
       LET w == Consed(t, << >>)
       IN  Free /\ Depth < MaxStack /\ With(w, Append(stack, w.stack[Depth + 1]))
  \/ /\ IsValue(0) /\ <<"Array">> \o Operand(0).type \in ContainerTypes(types)
     /\ LET w == Consed(<<"Array">> \o Operand(0).type, Appended(<< >>, Operand(0).cell))
        IN  With(w, Append(Below(1), w.stack[Depth + 1]))

\* LOADN, LOADA, LOADD: the copy of the cell shares the vector or map.
Load ==
  /\ IsAddress(0)
  /\ WhileHeld = "numbers" /\ IsContainer(Operand(0).type) => AtStatement(0)
  /\ LET a == Operand(0)
         s == Used(Now, a.at, a.type)
     IN  With(s, Append(Below(1), Value(a.type, Cell(s, a.at))))

\* STOREN, STOREA, STORED
Store ==
  /\ IsAddress(0) /\ IsValue(1) /\ AtStatement(0)
  /\ Operand(0).type = Operand(1).type
  /\ LET a == Operand(0)
         s == SetCell(Now, a.at, Operand(1).cell)
     IN  With(Used([s EXCEPT !.stack = Below(2)], a.at, a.type), Below(2))

\* The TODO of INDEXAR: array_index_for_read
IndexRead_in_place ==
  /\ IsAddress(0) /\ IsContainer(Operand(0).type)
  /\ \E k \in Subscripts(Operand(0).type, Keys) :
       LET a == Operand(0)
           s == Used(Now, a.at, a.type)
       IN  IF k \in DOMAIN Contents(s, a.at)
           THEN With(s, Append(Below(1), Sub(s, a, k, "read")))
           ELSE Raise(s, 1)
\* INDEXAR, INDEXDR: even for reading, the element is detached from other copies.
IndexRead ==
  /\ IsAddress(0) /\ IsContainer(Operand(0).type)
  /\ \E k \in Subscripts(Operand(0).type, Keys) :
       LET a == Operand(0)
           s == IF k = NoIndex THEN Now ELSE Used(Now, a.at, a.type)
           w == IndexForWrite(s, a.at, a.type, k, FALSE)
       IN  IF k # NoIndex /\ k \in DOMAIN Contents(s, a.at)
           THEN With(w, Append(Below(1), Sub(w, a, k, "read")))
           ELSE Raise(s, 1)

\* INDEXAW, INDEXDW
IndexWrite ==
  /\ IsAddress(0) /\ IsContainer(Operand(0).type) /\ AtStatement(0)
  /\ \E k \in Subscripts(Operand(0).type, Keys), moves \in BOOLEAN :
       LET a == Operand(0)
           w == IndexForWrite(Now, a.at, a.type, k, moves)
       IN  IF k = NoIndex THEN ~moves /\ Raise(Now, 1)
           ELSE With(w, Append(Below(1), Sub(w, a, k, "write")))

\* INDEXAV, INDEXDV
IndexValue ==
  /\ IsValue(0) /\ IsContainer(Operand(0).type)
  /\ \E k \in Subscripts(Operand(0).type, Keys) :
       LET type == Operand(0).type
           s == Used(Now, InStack(Depth), type)
           c == Contents(s, InStack(Depth))
       IN  IF k \in DOMAIN c
           THEN With(s, Append(Below(1), Value(Element(type), c[k])))
           ELSE Raise(s, 1)

\* Cell::operator==: a None cell equals nothing.  equal[r] are the pairs of
\* containers nested r deep whose elements are equal.
EqualCells(s, x, y, type) ==
  LET pairs == (DOMAIN s.bufs) \X (DOMAIN s.bufs)
      equal[r \in 0 .. MaxRank] ==
        {p \in pairs :
           /\ r > 0
           /\ DOMAIN s.bufs[p[1]] = DOMAIN s.bufs[p[2]]
           /\ \A k \in DOMAIN s.bufs[p[1]] :
                LET u == s.bufs[p[1]][k]
                    v == s.bufs[p[2]][k]
                IN  /\ u.type # "None" /\ u.type = v.type
                    /\ IF r = 1 THEN u.number = v.number
                                ELSE <<u.buf, v.buf>> \in equal[r - 1]}
  IN  /\ x.type # "None" /\ x.type = y.type
      /\ IF IsContainer(type) THEN <<x.buf, y.buf>> \in equal[Len(type)]
                              ELSE x.number = y.number

\* Is there a None cell in what the cell at points to?
HasBlank(s, at) ==
  LET blank[r \in 0 .. MaxRank] ==
        {b \in DOMAIN s.bufs : r > 0 /\ \E k \in DOMAIN s.bufs[b] :
           s.bufs[b][k].type = "None" \/ s.bufs[b][k].buf \in blank[r - 1]}
  IN  Cell(s, at).type = "None" \/ Cell(s, at).buf \in blank[MaxRank]

\* The two operands of a comparison, as their types ask for them.
Operands ==
  Used(Used(Now, InStack(Depth - 1), Operand(1).type), InStack(Depth), Operand(0).type)

\* Containers with None cells are not compared: they equal nothing, where Values has
\* them equal to the value they are read as.
Comparable ==
  /\ IsValue(0) /\ IsValue(1)
  /\ Operand(0).type = Operand(1).type
  /\ \A i \in {Depth - 1, Depth} : ~HasBlank(Operands, InStack(i))

SameOperands ==
  EqualCells(Operands, Cell(Operands, InStack(Depth - 1)), Cell(Operands, InStack(Depth)),
             Operand(0).type)

\* EQN, EQA, EQD
Equal ==
  /\ Comparable
  /\ With(Operands, Append(Below(2), Value(<<>>, Number(IF SameOperands THEN 1 ELSE 0))))

\* array__find: the first element equal to the operand at the top
Find ==
  /\ IsValue(0) /\ IsValue(1) /\ IsArray(Operand(1).type)
  /\ Operand(0).type = Element(Operand(1).type)
  /\ LET s == Used(Now, InStack(Depth - 1), Operand(1).type)
         c == Contents(s, InStack(Depth - 1))
         found == {k \in DOMAIN c : EqualCells(s, c[k], Operand(0).cell, Operand(0).type)}
     IN  /\ \A i \in {Depth - 1, Depth} : ~HasBlank(s, InStack(i))
         /\ IF found = {} THEN Raise(s, 2)
            ELSE \E k \in found :
                   /\ \A j \in found : k <= j
                   /\ With(s, Append(Below(2), Value(<<>>, Number(k))))

\* IncrementStatement: DUP, LOADN, PUSHN, ADDN, SWAP, STOREN
Increment ==
  /\ IsAddress(0) /\ ~IsContainer(Operand(0).type) /\ AtStatement(0)
  /\ Cell(Now, Operand(0).at).number < MaxNumber
  /\ With(SetCell(Now, Operand(0).at, Number(Cell(Now, Operand(0).at).number + 1)), Below(1))

\* array__append
Add ==
  /\ IsValue(0) /\ IsAddress(1) /\ IsArray(Operand(1).type) /\ AtStatement(1)
  /\ Operand(0).type = Element(Operand(1).type)
  /\ \E moves \in BOOLEAN :
       LET a == Operand(1)
           w == ForWrite(Now, a.at, a.type)
           c == Appended(Contents(w, a.at), Operand(0).cell)
       IN  /\ Size(c) <= MaxKey(types) + 1
           /\ With(Replaced(w, a.at, a.type, c, moves), Below(2))

\* array__resize; a negative size, which is no Neon exception, is left out
Resize ==
  /\ IsAddress(0) /\ IsArray(Operand(0).type) /\ AtStatement(0)
  /\ \E n \in Subscripts(Operand(0).type, 0 .. MaxKey(types) + 1), moves \in BOOLEAN :
       LET a == Operand(0)
           w == ForWrite(Now, a.at, a.type)
       IN  IF n = NoIndex THEN ~moves /\ Raise(Now, 1)
           ELSE With(Replaced(w, a.at, a.type, Resized(Contents(w, a.at), n, None), moves),
                     Below(1))

\* array__remove, dictionary__remove
Erase ==
  /\ IsAddress(0) /\ IsContainer(Operand(0).type) /\ AtStatement(0)
  /\ \E k \in Subscripts(Operand(0).type, Keys) :
       LET a == Operand(0)
           w == ForWrite(Now, a.at, a.type)
           c == Contents(w, a.at)
       IN  IF k = NoIndex THEN Raise(Now, 1)
           ELSE IF k \in DOMAIN c \/ ~IsArray(a.type)
           THEN With(SetContents(w, a.at, Removed(c, a.type, k)), Below(1))
           ELSE Raise(w, 1)

Next ==
  \/ PushAddress \/ PushNumber \/ PushParameter \/ Duplicate \/ Drop \/ Literal
  \/ Load \/ Store \/ IndexRead \/ IndexWrite \/ IndexValue
  \/ Equal \/ Find \/ Increment \/ Add \/ Resize \/ Erase

Spec == Init /\ [][Next]_state

-----------------------------------------------------------------------------
(***************************************************************************)
(* Properties.                                                             *)
(***************************************************************************)

\* Each cell has the type declared for its place, or none yet, and points to
\* a vector or map that exists exactly when it is a container.
WellTyped(cell, type) ==
  /\ cell.type \in {"None", IF IsContainer(type) THEN "Container" ELSE "Number"}
  /\ IF cell.type = "Container" THEN cell.buf \in DOMAIN bufs ELSE cell.buf = Null

TypeOK ==
  /\ types \in Declarations
  /\ Depth <= MaxStack
  /\ \A v \in Vars : WellTyped(vars[v], types[v])
  /\ \A i \in 1 .. Depth :
       IF stack[i].kind = "value" THEN WellTyped(stack[i].cell, stack[i].type)
       ELSE Exists(Now, stack[i].at) => WellTyped(Cell(Now, stack[i].at), stack[i].type)

\* Every address on the operand stack is that of a cell that exists
\* (Cell *, src/src/cell.h:76, is not an owner).
AddressesLive ==
  /\ TypeOK
  /\ \A i \in 1 .. Depth : stack[i].kind = "address" => Exists(Now, stack[i].at)

\* The place that the first i subscripts of a lead to, as an address.
Way(s, a) ==
  LET at[i \in 0 .. Len(a.keys)] ==
        IF i = 0 THEN InVar(a.var) ELSE ElementAt(s, at[i - 1], a.keys[i])
  IN  at

\* An address about to be used is the one its subscripts lead to, and no array or
\* dictionary on the way is shared with another copy (the comment at
\* src/src/exec.cpp:1187).
DetachedFromCopies ==
  Depth > 0 /\ Operand(0).kind = "address" =>
    LET a == Operand(0)
    IN  /\ Way(Now, a)[Len(a.keys)] = a.at
        /\ \A i \in 0 .. Len(a.keys) - 1 : Unique(Now, Cell(Now, Way(Now, a)[i]).buf)

\* The value that a cell stands for, when the vectors and maps are b.
Tree(b, cell, type) ==
  LET tree[r \in 1 .. MaxRank] ==
        [c \in DOMAIN b |->
           [k \in DOMAIN b[c] |->
              IF r = 1 THEN b[c][k].number
              ELSE IF b[c][k].buf = Null THEN << >> ELSE tree[r - 1][b[c][k].buf]]]
  IN  IF ~IsContainer(type) THEN cell.number
      ELSE IF cell.buf = Null THEN << >> ELSE tree[Len(type)][cell.buf]

Seen(e) ==
  IF e.kind = "value"
  THEN [kind |-> "value", type |-> e.type, value |-> Tree(bufs, e.cell, e.type)]
  ELSE [kind |-> "reference", type |-> e.type, var |-> e.var, keys |-> e.keys]

Abstract == INSTANCE Values WITH
  vars <- [v \in Vars |-> Tree(bufs, vars[v], types[v])],
  stack <- [i \in 1 .. Depth |-> Seen(stack[i])]

\* Shared and copied on write, arrays and dictionaries behave as values do.
ImplementsValues == Abstract!Spec

-----------------------------------------------------------------------------
(* Declarations of the variables for TLC.                                  *)

List == <<"Array">>
Table == <<"Dictionary">>
Lists == <<"Array", "Array">>
TableOfLists == <<"Dictionary", "Array">>
ListOfTables == <<"Array", "Dictionary">>

\* Two variables of one type, and an element's type against its container's.
Declared == {[a |-> List, b |-> List], [a |-> Table, b |-> Table],
             [a |-> Lists, b |-> List], [a |-> TableOfLists, b |-> List],
             [a |-> ListOfTables, b |-> Table]}

\* Bounds of the subscripts: two elements in each of two arrays, otherwise one.
KeyBound(declared) == IF declared["a"] = List THEN 1 ELSE 0

Names == {"a", "b"}

=============================================================================
