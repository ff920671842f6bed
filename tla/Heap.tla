-------------------------------- MODULE Heap --------------------------------
(***************************************************************************)
(* The heap of the executor: allocation with NEW, the mark and sweep       *)
(* collector that allocation starts, and the program's use of pointers     *)
(* (exec.cpp).                                                             *)
(*                                                                         *)
(* An allocated cell is a record of Fields cells.  What a cell holds is    *)
(* abstracted to what the collector tells apart: an address or no address. *)
(* The address <<o>> is that of the allocated cell o, the value of a       *)
(* POINTER; <<o, f>> is that of field f within it, which an INOUT argument *)
(* passes to the function that is called.  Addresses of variables are left *)
(* out: the collector reaches those variables in any case.                 *)
(*                                                                         *)
(* A collection runs to its end inside one instruction; its loop is        *)
(* modelled step by step, with the program waiting.                        *)
(***************************************************************************)
EXTENDS Integers, Sequences, FiniteSets

CONSTANTS
  Objects,    \* the cells the allocator may return
  NFields,    \* how many fields a record has
  Globals,    \* the global variables of all modules
  Locals,     \* the variables of a function, parameters included
  Interval,   \* param_garbage_collection_interval; 0 turns automatic collection off
  MaxStack,   \* bound: values on the operand stack
  MaxFrames   \* bound: calls that are active

ASSUME ConstantTypes ==
  /\ NFields \in Nat /\ Interval \in Nat /\ MaxStack \in Nat /\ MaxFrames \in Nat

Fields == 1..NFields
Nil == <<>>
Pointers == {<<o>> : o \in Objects}
References == {<<o, f>> : o \in Objects, f \in Fields}
Value == {Nil} \cup Pointers \cup References

VARIABLES
  globals,     \* what the global variables hold
  frames,      \* the locals of the active functions, the current one last
  stack,       \* the operand stack
  allocs,      \* the cells that are allocated
  heap,        \* their fields
  allocations, \* the number of allocations since the last collection
  phase,       \* "run", or "mark" while a collection is under way
  pending,     \* the roots that are not marked yet
  todo,        \* mark()'s stack of cells to visit
  marked       \* the allocated cells whose mark bit is set

vars == <<globals, frames, stack, allocs, heap, allocations, phase, pending, todo, marked>>

-----------------------------------------------------------------------------
(* Mutant: the operand stack is no root.                                   *)
Roots_variables ==
  {globals[g] : g \in Globals} \cup (UNION {{frames[i][v] : v \in Locals} : i \in DOMAIN frames})

(* The values of the roots garbage_collect() starts from.                  *)
Roots ==
  {globals[g] : g \in Globals}
  \cup (UNION {{frames[i][v] : v \in Locals} : i \in DOMAIN frames})
  \cup {stack[i] : i \in DOMAIN stack}

Blank == [f \in Fields |-> Nil]
Top == stack[Len(stack)]
Pop(n) == SubSeq(stack, 1, Len(stack) - n)

Running == phase = "run"
Collector == <<phase, pending, todo, marked>>

Init ==
  /\ globals = [g \in Globals |-> Nil]
  /\ frames = << >>
  /\ stack = << >>
  /\ allocs = {}
  /\ heap = [o \in Objects |-> Blank]
  /\ allocations = 0
  /\ phase = "run" /\ pending = {} /\ todo = << >> /\ marked = {}

-----------------------------------------------------------------------------
(* The collector.                                                          *)

(* Mutant: the marks of the last collection are still there.               *)
StartCollection_marked ==
  /\ phase' = "mark"
  /\ marked' = marked
  /\ pending' = Roots' \ {Nil}
  /\ todo' = << >>

(* Clears the marks and goes on to the roots.                              *)
StartCollection ==
  /\ phase' = "mark"
  /\ marked' = {}
  /\ pending' = Roots' \ {Nil}
  /\ todo' = << >>

(* The next call of mark(), with a root: its address is visited.  The code *)
(* takes the globals first, then the frames, then the operand stack; here  *)
(* they are taken in any order.                                            *)
MarkRoot ==
  /\ phase = "mark" /\ todo = << >>
  /\ \E r \in pending : todo' = <<r>> /\ pending' = pending \ {r}
  /\ UNCHANGED <<globals, frames, stack, allocs, heap, allocations, phase, marked>>

(* Mutant: a record is visited as often as it is met.                      *)
MarkCell_again ==
  /\ phase = "mark" /\ todo # << >>
  /\ LET c == todo[Len(todo)]
         rest == SubSeq(todo, 1, Len(todo) - 1)
     IN \/ /\ c \in Pointers
           /\ marked' = marked \cup {c[1]}
           /\ todo' = rest \o [f \in Fields |-> <<c[1], f>>]
        \/ /\ c \in References
           /\ todo' = IF heap[c[1]][c[2]] = Nil THEN rest ELSE Append(rest, heap[c[1]][c[2]])
           /\ UNCHANGED marked
  /\ UNCHANGED <<globals, frames, stack, allocs, heap, allocations, phase, pending>>

(* One turn of mark()'s loop.  The fields of a record are visited when it  *)
(* is met for the first time, the target of an address always.             *)
MarkCell ==
  /\ phase = "mark" /\ todo # << >>
  /\ LET c == todo[Len(todo)]
         rest == SubSeq(todo, 1, Len(todo) - 1)
     IN \/ /\ c \in Pointers /\ c[1] \in marked
           /\ todo' = rest
           /\ UNCHANGED marked
        \/ /\ c \in Pointers /\ c[1] \notin marked
           /\ marked' = marked \cup {c[1]}
           /\ todo' = rest \o [f \in Fields |-> <<c[1], f>>]
        \/ /\ c \in References
           /\ todo' = IF heap[c[1]][c[2]] = Nil THEN rest ELSE Append(rest, heap[c[1]][c[2]])
           /\ UNCHANGED marked
  /\ UNCHANGED <<globals, frames, stack, allocs, heap, allocations, phase, pending>>

Sweep ==
  /\ phase = "mark" /\ todo = << >> /\ pending = {}
  /\ allocs' = allocs \cap marked
  /\ heap' = [o \in Objects |-> IF o \in allocs' THEN heap[o] ELSE Blank]
  /\ allocations' = 0
  /\ phase' = "run"
  /\ UNCHANGED <<globals, frames, stack, pending, todo, marked>>

-----------------------------------------------------------------------------
(* The program.                                                            *)

(* exec_ALLOC: the new cell is on the operand stack when a collection      *)
(* begins.                                                                 *)
Alloc ==
  /\ Running /\ Len(stack) < MaxStack
  /\ \E o \in Objects \ allocs :
       /\ allocs' = allocs \cup {o}
       /\ heap' = [heap EXCEPT ![o] = Blank]
       /\ stack' = Append(stack, <<o>>)
  /\ allocations' = allocations + 1
  /\ UNCHANGED <<globals, frames>>
  /\ IF Interval > 0 /\ allocations + 1 >= Interval
       THEN StartCollection
       ELSE UNCHANGED Collector

(* runtime.garbageCollect()                                                *)
GarbageCollect ==
  /\ Running
  /\ UNCHANGED <<globals, frames, stack, allocs, heap, allocations>>
  /\ StartCollection

(* Pushes NIL or what a variable holds.  A parameter that holds a          *)
(* reference is only passed on or dereferenced.                            *)
Push(v) ==
  /\ Running /\ Len(stack) < MaxStack
  /\ stack' = Append(stack, v)
  /\ UNCHANGED <<globals, frames, allocs, heap, allocations>> /\ UNCHANGED Collector

PushNil == Push(Nil)
PushGlobal(g) == Push(globals[g])
PushLocal(v) == frames # << >> /\ Push(frames[Len(frames)][v])

Poppable == Running /\ stack # << >>

Drop ==
  /\ Poppable
  /\ stack' = Pop(1)
  /\ UNCHANGED <<globals, frames, allocs, heap, allocations>> /\ UNCHANGED Collector

StoreGlobal(g) ==
  /\ Poppable /\ Top \notin References
  /\ globals' = [globals EXCEPT ![g] = Top]
  /\ stack' = Pop(1)
  /\ UNCHANGED <<frames, allocs, heap, allocations>> /\ UNCHANGED Collector

(* A parameter that refers to a cell of the caller is not assigned itself. *)
StoreLocal(v) ==
  /\ Poppable /\ Top \notin References
  /\ frames # << >> /\ frames[Len(frames)][v] \notin References
  /\ frames' = [frames EXCEPT ![Len(frames)][v] = Top]
  /\ stack' = Pop(1)
  /\ UNCHANGED <<globals, allocs, heap, allocations>> /\ UNCHANGED Collector

(* p->f: the address of a field replaces that of the record.               *)
Field(f) ==
  /\ Poppable /\ Top \in Pointers
  /\ stack' = Append(Pop(1), <<Top[1], f>>)
  /\ UNCHANGED <<globals, frames, allocs, heap, allocations>> /\ UNCHANGED Collector

(* LOADP and STOREP with the address of a field.  Nothing is said of what  *)
(* follows the use of a cell that was freed.                               *)
Usable(v) == v \in References /\ v[1] \in allocs

LoadP ==
  /\ Poppable /\ Usable(Top)
  /\ stack' = Append(Pop(1), heap[Top[1]][Top[2]])
  /\ UNCHANGED <<globals, frames, allocs, heap, allocations>> /\ UNCHANGED Collector

StoreP ==
  /\ Running /\ Len(stack) >= 2 /\ Usable(Top) /\ stack[Len(stack) - 1] \notin References
  /\ heap' = [heap EXCEPT ![Top[1]][Top[2]] = stack[Len(stack) - 1]]
  /\ stack' = Pop(2)
  /\ UNCHANGED <<globals, frames, allocs, allocations>> /\ UNCHANGED Collector

(* CALLF with one argument, which the callee stores in its parameter, and  *)
(* RET.                                                                    *)
Call(v) ==
  /\ Poppable /\ Len(frames) < MaxFrames
  /\ frames' = Append(frames, [w \in Locals |-> IF w = v THEN Top ELSE Nil])
  /\ stack' = Pop(1)
  /\ UNCHANGED <<globals, allocs, heap, allocations>> /\ UNCHANGED Collector

Ret ==
  /\ Running /\ frames # << >>
  /\ frames' = SubSeq(frames, 1, Len(frames) - 1)
  /\ UNCHANGED <<globals, stack, allocs, heap, allocations>> /\ UNCHANGED Collector

Program ==
  \/ Alloc
  \/ GarbageCollect
  \/ PushNil
  \/ \E g \in Globals : PushGlobal(g) \/ StoreGlobal(g)
  \/ \E v \in Locals : PushLocal(v) \/ StoreLocal(v) \/ Call(v)
  \/ \E f \in Fields : Field(f)
  \/ Drop \/ LoadP \/ StoreP \/ Ret

Collect == MarkRoot \/ MarkCell \/ Sweep

Next == Program \/ Collect

(* The collector's loops go on until they are done.                        *)
Fairness == WF_vars(Collect)

Spec == Init /\ [][Next]_vars /\ Fairness

-----------------------------------------------------------------------------
TypeOK ==
  /\ globals \in [Globals -> Value]
  /\ frames \in Seq([Locals -> Value])
  /\ stack \in Seq(Value)
  /\ allocs \subseteq Objects
  /\ heap \in [Objects -> [Fields -> {Nil} \cup Pointers]]
  /\ allocations \in Nat
  /\ phase \in {"run", "mark"}
  /\ pending \subseteq Value \ {Nil}
  /\ todo \in Seq(Value \ {Nil})
  /\ marked \subseteq Objects

(* Following pointers from the roots.  A root that refers to a field leads *)
(* to what the field points to.                                            *)
Targets(v) == IF v \in Pointers THEN {v[1]}
              ELSE IF v \in References /\ heap[v[1]][v[2]] # Nil THEN {heap[v[1]][v[2]][1]}
              ELSE {}

Closed(S) == \A o \in S : \A f \in Fields : heap[o][f] # Nil => heap[o][f][1] \in S

Reachable ==
  {o \in Objects : \A S \in SUBSET Objects :
     (\A r \in Roots : Targets(r) \subseteq S) /\ Closed(S) => o \in S}

(* No pointer is left to a cell that was freed: not in a variable, not on  *)
(* the operand stack, not in a cell that is still allocated.               *)
NoDanglingPointer ==
  /\ \A r \in Roots : r \in Pointers => r[1] \in allocs
  /\ \A o \in allocs : \A f \in Fields : heap[o][f] # Nil => heap[o][f][1] \in allocs

(* A collection frees what cannot be reached, cycles included, and nothing *)
(* else.                                                                   *)
FreesTheUnreachable == [][Sweep => allocs' = allocs \cap Reachable]_vars

(* Every collection comes to an end, whatever cycles there are.            *)
CollectionEnds == phase = "mark" ~> phase = "run"

=============================================================================
