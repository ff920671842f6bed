---------------------------- MODULE Heap_proofs -----------------------------
(***************************************************************************)
(* Proofs about Heap: the collector never frees what the program can still *)
(* reach through pointers, and frees all the rest, for any number of       *)
(* cells, fields, variables and calls.                                     *)
(***************************************************************************)
EXTENDS Heap, SequenceTheorems, TLAPS

-----------------------------------------------------------------------------
(* Values: an address is that of a cell or that of a field, and not both.  *)
LEMMA PointerShape ==
  ASSUME NEW v \in Pointers
  PROVE  v[1] \in Objects /\ v = <<v[1]>> /\ v # Nil /\ v \notin References /\ v \in Value
  BY DEF Pointers, References, Nil, Value, Fields

LEMMA ReferenceShape ==
  ASSUME NEW v \in References
  PROVE  v[1] \in Objects /\ v[2] \in Fields /\ v = <<v[1], v[2]>> /\ v # Nil /\ v \notin Pointers /\ v \in Value
  BY DEF Pointers, References, Nil, Value, Fields

(* What TypeOK says of the current operand and of the current frame.       *)
LEMMA TopIsValue ==
  ASSUME TypeOK, stack # << >>
  PROVE  /\ Len(stack) \in DOMAIN stack /\ Top \in Value /\ Top \in Roots
         /\ Pop(1) \in Seq(Value)
         /\ \A i \in DOMAIN Pop(1) : i \in DOMAIN stack /\ Pop(1)[i] = stack[i]
  BY DEF TypeOK, Top, Pop, Roots

LEMMA FrameIsTyped ==
  ASSUME TypeOK, frames # << >>
  PROVE  /\ Len(frames) \in DOMAIN frames
         /\ frames[Len(frames)] \in [Locals -> Value]
         /\ \A v \in Locals : frames[Len(frames)][v] \in Roots
  BY DEF TypeOK, Roots

LEMMA RootsAreValues ==
  ASSUME TypeOK
  PROVE  Roots \subseteq Value
<1>1. \A g \in Globals : globals[g] \in Value
  BY DEF TypeOK
<1>2. \A i \in DOMAIN frames : \A v \in Locals : frames[i][v] \in Value
  BY DEF TypeOK
<1>3. \A i \in DOMAIN stack : stack[i] \in Value
  BY DEF TypeOK
<1> QED
  BY <1>1, <1>2, <1>3 DEF Roots

-----------------------------------------------------------------------------
(* Type correctness.                                                       *)

LEMMA StartCollectionTypeOK ==
  ASSUME StartCollection, Roots' \subseteq Value
  PROVE  phase' \in {"run", "mark"} /\ pending' \subseteq Value \ {Nil}
         /\ todo' \in Seq(Value \ {Nil}) /\ marked' \subseteq Objects
  BY DEF StartCollection

(* Roots after a step that stores v in one place and copies the rest.      *)
LEMMA PushRoots ==
  ASSUME TypeOK, NEW v, stack' = Append(stack, v), UNCHANGED <<globals, frames>>
  PROVE  Roots' \subseteq Roots \cup {v}
<1>1. \A i \in DOMAIN stack' : stack'[i] = v \/ (i \in DOMAIN stack /\ stack'[i] = stack[i])
  BY DEF TypeOK
<1> QED
  BY <1>1 DEF Roots

LEMMA PopRoots ==
  ASSUME TypeOK, NEW n \in Nat, n <= Len(stack), stack' = Pop(n), UNCHANGED <<globals, frames>>
  PROVE  stack' \in Seq(Value) /\ Roots' \subseteq Roots
<1>1. stack' \in Seq(Value) /\ \A i \in DOMAIN stack' : i \in DOMAIN stack /\ stack'[i] = stack[i]
  BY DEF TypeOK, Pop
<1> QED
  BY <1>1 DEF Roots

LEMMA ReplaceRoots ==
  ASSUME TypeOK, stack # << >>, NEW v \in Value, stack' = Append(Pop(1), v), UNCHANGED <<globals, frames>>
  PROVE  stack' \in Seq(Value) /\ Roots' \subseteq Roots \cup {v}
<1>1. stack' \in Seq(Value)
  BY TopIsValue
<1>2. \A i \in DOMAIN stack' : stack'[i] = v \/ (i \in DOMAIN stack /\ stack'[i] = stack[i])
  BY TopIsValue
<1> QED
  BY <1>1, <1>2 DEF Roots

LEMMA GlobalRoots ==
  ASSUME TypeOK, stack # << >>, NEW g \in Globals, globals' = [globals EXCEPT ![g] = Top], stack' = Pop(1), UNCHANGED frames
  PROVE  globals' \in [Globals -> Value] /\ stack' \in Seq(Value) /\ Roots' \subseteq Roots
<1>1. globals' \in [Globals -> Value] /\ \A h \in Globals : globals'[h] = Top \/ globals'[h] = globals[h]
  BY TopIsValue DEF TypeOK
<1> QED
  BY <1>1, TopIsValue DEF Roots

LEMMA LocalRoots ==
  ASSUME TypeOK, stack # << >>, frames # << >>, NEW v \in Locals,
         frames' = [frames EXCEPT ![Len(frames)][v] = Top], stack' = Pop(1), UNCHANGED globals
  PROVE  frames' \in Seq([Locals -> Value]) /\ stack' \in Seq(Value) /\ Roots' \subseteq Roots
<1>1. frames \in Seq([Locals -> Value])
  BY DEF TypeOK
<1>2. frames' \in Seq([Locals -> Value]) /\ DOMAIN frames' = DOMAIN frames
  BY <1>1, TopIsValue, FrameIsTyped
<1>3. \A i \in DOMAIN frames' : \A w \in Locals : frames'[i][w] = Top \/ frames'[i][w] = frames[i][w]
  BY <1>1, FrameIsTyped
<1> QED
  BY <1>2, <1>3, TopIsValue DEF Roots

LEMMA CallRoots ==
  ASSUME TypeOK, NEW v \in Locals, Call(v)
  PROVE  frames' \in Seq([Locals -> Value]) /\ stack' \in Seq(Value) /\ Roots' \subseteq Roots \cup {Nil}
<1> DEFINE frame == [w \in Locals |-> IF w = v THEN Top ELSE Nil]
<1>1. stack # << >> /\ frames' = Append(frames, frame) /\ stack' = Pop(1) /\ UNCHANGED globals
  BY DEF Call, Poppable
<1>2. frame \in [Locals -> Value] /\ \A w \in Locals : frame[w] \in {Top, Nil}
  BY <1>1, TopIsValue DEF Value
<1> HIDE DEF frame
<1>3. frames' \in Seq([Locals -> Value])
  BY <1>1, <1>2 DEF TypeOK
<1>4. \A i \in DOMAIN frames' : frames'[i] = frame \/ (i \in DOMAIN frames /\ frames'[i] = frames[i])
  BY <1>1 DEF TypeOK
<1> QED
  BY <1>1, <1>2, <1>3, <1>4, TopIsValue DEF Roots

LEMMA RetRoots ==
  ASSUME TypeOK, Ret
  PROVE  frames' \in Seq([Locals -> Value]) /\ Roots' \subseteq Roots
<1>1. frames' \in Seq([Locals -> Value]) /\ \A i \in DOMAIN frames' : i \in DOMAIN frames /\ frames'[i] = frames[i]
  BY DEF TypeOK, Ret
<1> QED
  BY <1>1 DEF Roots, Ret

LEMMA TypeStep == TypeOK /\ [Next]_vars => TypeOK'
<1> SUFFICES ASSUME TypeOK, [Next]_vars PROVE TypeOK'
  OBVIOUS
<1> USE ConstantTypes
<1>1. CASE Alloc
  <2>1. PICK o \in Objects \ allocs :
          /\ allocs' = allocs \cup {o}
          /\ heap' = [heap EXCEPT ![o] = Blank]
          /\ stack' = Append(stack, <<o>>)
    BY <1>1 DEF Alloc
  <2>2. <<o>> \in Value /\ Blank \in [Fields -> {Nil} \cup Pointers]
    BY DEF Value, Pointers, Blank
  <2>3. stack' \in Seq(Value) /\ allocs' \subseteq Objects /\ heap' \in [Objects -> [Fields -> {Nil} \cup Pointers]]
    BY <2>1, <2>2 DEF TypeOK
  <2>4. allocations' \in Nat /\ UNCHANGED <<globals, frames>>
    BY <1>1 DEF Alloc, TypeOK
  <2>5. Roots' \subseteq Value
    BY <2>1, <2>2, <2>4, PushRoots, RootsAreValues
  <2>6. CASE StartCollection
    BY <2>3, <2>4, <2>5, <2>6, StartCollectionTypeOK DEF TypeOK
  <2>7. CASE UNCHANGED Collector
    BY <2>3, <2>4, <2>7 DEF TypeOK, Collector
  <2> QED
    BY <1>1, <2>6, <2>7 DEF Alloc
<1>2. CASE GarbageCollect
  <2>1. UNCHANGED <<globals, frames, stack, allocs, heap, allocations>> /\ StartCollection
    BY <1>2 DEF GarbageCollect
  <2>2. Roots' \subseteq Value
    BY <2>1, RootsAreValues DEF Roots
  <2> QED
    BY <2>1, <2>2, StartCollectionTypeOK DEF TypeOK
<1>3. ASSUME NEW v \in Value, Push(v) PROVE TypeOK'
  BY <1>3 DEF Push, TypeOK, Collector
<1>4. CASE PushNil
  BY <1>3, <1>4 DEF PushNil, Value
<1>5. ASSUME NEW g \in Globals, PushGlobal(g) PROVE TypeOK'
  BY <1>3, <1>5 DEF PushGlobal, TypeOK
<1>6. ASSUME NEW g \in Globals, StoreGlobal(g) PROVE TypeOK'
  BY <1>6, GlobalRoots DEF StoreGlobal, Poppable, TypeOK, Collector
<1>7. ASSUME NEW v \in Locals, PushLocal(v) PROVE TypeOK'
  BY <1>3, <1>7, FrameIsTyped DEF PushLocal
<1>8. ASSUME NEW v \in Locals, StoreLocal(v) PROVE TypeOK'
  BY <1>8, LocalRoots DEF StoreLocal, Poppable, TypeOK, Collector
<1>9. ASSUME NEW v \in Locals, Call(v) PROVE TypeOK'
  <2>1. UNCHANGED <<globals, allocs, heap, allocations>> /\ UNCHANGED Collector
    BY <1>9 DEF Call
  <2>2. frames' \in Seq([Locals -> Value]) /\ stack' \in Seq(Value)
    BY <1>9, CallRoots
  <2> QED
    BY <2>1, <2>2 DEF TypeOK, Collector
<1>10. ASSUME NEW f \in Fields, Field(f) PROVE TypeOK'
  <2>1. stack # << >> /\ Top \in Pointers /\ stack' = Append(Pop(1), <<Top[1], f>>)
    BY <1>10 DEF Field, Poppable
  <2>2. <<Top[1], f>> \in Value
    BY <2>1, PointerShape DEF Value, References
  <2> QED
    BY <1>10, <2>1, <2>2, ReplaceRoots DEF Field, TypeOK, Collector
<1>11. CASE Drop
  BY <1>11, TopIsValue DEF Drop, Poppable, TypeOK, Collector
<1>12. CASE LoadP
  <2>1. stack # << >> /\ Top \in References /\ stack' = Append(Pop(1), heap[Top[1]][Top[2]])
    BY <1>12 DEF LoadP, Poppable, Usable
  <2>2. heap[Top[1]][Top[2]] \in Value
    BY <2>1, ReferenceShape DEF TypeOK, Value
  <2> QED
    BY <1>12, <2>1, <2>2, ReplaceRoots DEF LoadP, TypeOK, Collector
<1>13. CASE StoreP
  <2> DEFINE v == stack[Len(stack) - 1]
  <2>1. /\ Len(stack) >= 2 /\ Top \in References /\ v \notin References
        /\ heap' = [heap EXCEPT ![Top[1]][Top[2]] = v] /\ stack' = Pop(2)
        /\ UNCHANGED <<globals, frames, allocs, allocations>> /\ UNCHANGED Collector
    BY <1>13 DEF StoreP, Usable
  <2>2. v \in {Nil} \cup Pointers
    BY <2>1 DEF TypeOK, Value
  <2>3. heap' \in [Objects -> [Fields -> {Nil} \cup Pointers]]
    BY <2>1, <2>2, ReferenceShape DEF TypeOK
  <2>4. stack' \in Seq(Value)
    BY <2>1, PopRoots DEF TypeOK
  <2> QED
    BY <2>1, <2>3, <2>4 DEF TypeOK, Collector
<1>14. CASE Ret
  <2>1. UNCHANGED <<globals, stack, allocs, heap, allocations>> /\ UNCHANGED Collector
    BY <1>14 DEF Ret
  <2> QED
    BY <1>14, <2>1, RetRoots DEF TypeOK, Collector
<1>15. CASE MarkRoot
  <2>1. PICK r \in pending : todo' = <<r>> /\ pending' = pending \ {r}
    BY <1>15 DEF MarkRoot
  <2>2. UNCHANGED <<globals, frames, stack, allocs, heap, allocations, phase, marked>>
    BY <1>15 DEF MarkRoot
  <2> QED
    BY <2>1, <2>2 DEF TypeOK
<1>16. CASE MarkCell
  <2> DEFINE c == todo[Len(todo)]
             rest == SubSeq(todo, 1, Len(todo) - 1)
  <2>1. todo # << >> /\ UNCHANGED <<globals, frames, stack, allocs, heap, allocations, phase, pending>>
    BY <1>16 DEF MarkCell
  <2>2. c \in Value \ {Nil} /\ rest \in Seq(Value \ {Nil})
    BY <2>1 DEF TypeOK
  <2>3. CASE c \in Pointers /\ c[1] \in marked /\ todo' = rest /\ UNCHANGED marked
    BY <2>1, <2>2, <2>3 DEF TypeOK
  <2>4. CASE /\ c \in Pointers /\ c[1] \notin marked /\ marked' = marked \cup {c[1]}
             /\ todo' = rest \o [f \in Fields |-> <<c[1], f>>]
    <3>1. [f \in Fields |-> <<c[1], f>>] \in Seq(Value \ {Nil})
      <4>1. \A f \in Fields : <<c[1], f>> \in Value \ {Nil}
        BY <2>4, PointerShape DEF References, Value, Nil
      <4> QED
        BY <4>1 DEF Fields
    <3>2. todo' \in Seq(Value \ {Nil}) /\ marked' \subseteq Objects
      BY <2>2, <2>4, <3>1, PointerShape DEF TypeOK
    <3> QED
      BY <2>1, <3>2 DEF TypeOK
  <2>5. CASE /\ c \in References
             /\ todo' = IF heap[c[1]][c[2]] = Nil THEN rest ELSE Append(rest, heap[c[1]][c[2]])
             /\ UNCHANGED marked
    <3>1. heap[c[1]][c[2]] \in Value
      BY <2>5, ReferenceShape DEF TypeOK, Value
    <3>2. todo' \in Seq(Value \ {Nil})
      BY <2>2, <2>5, <3>1
    <3> QED
      BY <2>1, <2>5, <3>2 DEF TypeOK
  <2> QED
    BY <1>16, <2>3, <2>4, <2>5 DEF MarkCell
<1>17. CASE Sweep
  <2>1. Blank \in [Fields -> {Nil} \cup Pointers]
    BY DEF Blank
  <2> QED
    BY <1>17, <2>1 DEF Sweep, TypeOK
<1>18. CASE UNCHANGED vars
  BY <1>18 DEF vars, TypeOK
<1> QED
  BY <1>1, <1>2, <1>4, <1>5, <1>6, <1>7, <1>8, <1>9, <1>10, <1>11, <1>12, <1>13, <1>14, <1>15, <1>16, <1>17, <1>18
     DEF Next, Program, Collect

(* Every variable and every cell always holds NIL or an address.           *)
THEOREM TypeCorrect == Spec => []TypeOK
<1>1. Init => TypeOK
  <2> SUFFICES ASSUME Init PROVE TypeOK
    OBVIOUS
  <2>1. Nil \in Value /\ Blank \in [Fields -> {Nil} \cup Pointers]
    BY DEF Value, Blank
  <2> QED
    BY <2>1 DEF Init, TypeOK
<1> QED
  BY <1>1, TypeStep, PTL DEF Spec

-----------------------------------------------------------------------------
(* What can be reached.                                                    *)

LEMMA ReachableFacts ==
  /\ Reachable \subseteq Objects
  /\ \A r \in Roots : Targets(r) \cap Objects \subseteq Reachable
  /\ \A S \in SUBSET Objects : (\A r \in Roots : Targets(r) \subseteq S) /\ Closed(S) => Reachable \subseteq S
  BY DEF Reachable

LEMMA ReachableClosed ==
  ASSUME TypeOK
  PROVE  Closed(Reachable)
<1> SUFFICES ASSUME NEW o \in Reachable, NEW f \in Fields, heap[o][f] # Nil
             PROVE  heap[o][f][1] \in Reachable
  BY DEF Closed
<1>1. o \in Objects
  BY DEF Reachable
<1>2. heap[o][f] \in Pointers
  BY <1>1 DEF TypeOK
<1>3. heap[o][f][1] \in Objects
  BY <1>2, PointerShape
<1>4. ASSUME NEW S \in SUBSET Objects, \A r \in Roots : Targets(r) \subseteq S, Closed(S)
      PROVE  heap[o][f][1] \in S
  BY <1>1, <1>4 DEF Reachable, Closed
<1> QED
  BY <1>3, <1>4 DEF Reachable

LEMMA TargetsAreObjects ==
  ASSUME TypeOK, NEW v \in Value
  PROVE  Targets(v) \subseteq Objects
<1>1. CASE v \in Pointers
  BY <1>1, PointerShape DEF Targets
<1>2. CASE v \in References
  <2>1. heap[v[1]][v[2]] # Nil => heap[v[1]][v[2]] \in Pointers
    BY <1>2, ReferenceShape DEF TypeOK
  <2> QED
    BY <1>2, <2>1, ReferenceShape, PointerShape DEF Targets
<1>3. CASE v = Nil
  BY <1>3, PointerShape, ReferenceShape DEF Targets
<1> QED
  BY <1>1, <1>2, <1>3 DEF Value

-----------------------------------------------------------------------------
(* The inductive invariant.  While a collection is under way, what is      *)
(* marked, or waits on todo, can be reached (Sound); and a root that is no *)
(* longer pending, and each field of a marked cell, leads to a cell that   *)
(* is marked or waits (Progress): it is Seen.                              *)
OnTodo(v) == \E i \in DOMAIN todo : todo[i] = v

SeenPointer(v) == v = Nil \/ v[1] \in marked \/ OnTodo(v)

SeenField(o, f) == OnTodo(<<o, f>>) \/ SeenPointer(heap[o][f])

SeenRoot(r) == /\ r \in Pointers => SeenPointer(r)
               /\ r \in References => SeenField(r[1], r[2])

Sound ==
  phase = "mark" =>
    /\ pending \subseteq Roots
    /\ marked \subseteq Reachable
    /\ \A i \in DOMAIN todo : Targets(todo[i]) \subseteq Reachable

Progress ==
  phase = "mark" =>
    /\ \A r \in Roots : r = Nil \/ r \in pending \/ SeenRoot(r)
    /\ \A o \in marked, f \in Fields : SeenField(o, f)

IInv == TypeOK /\ NoDanglingPointer /\ Sound /\ Progress

LEMMA InitIInv == Init => IInv
<1> SUFFICES ASSUME Init PROVE IInv
  OBVIOUS
<1>1. TypeOK
  <2>1. Nil \in Value /\ Blank \in [Fields -> {Nil} \cup Pointers]
    BY DEF Value, Blank
  <2> QED
    BY <2>1 DEF Init, TypeOK
<1>2. NoDanglingPointer
  <2>1. \A r \in Roots : r = Nil
    BY DEF Init, Roots
  <2> QED
    BY <2>1, PointerShape DEF Init, NoDanglingPointer
<1> QED
  BY <1>1, <1>2 DEF Init, IInv, Sound, Progress

(* A collection that begins has found nothing yet.                         *)
LEMMA Begins ==
  ASSUME StartCollection
  PROVE  Sound' /\ Progress'
<1>1. phase' = "mark" /\ marked' = {} /\ pending' = Roots' \ {Nil} /\ todo' = << >>
  BY DEF StartCollection
<1>2. Sound'
  BY <1>1 DEF Sound
<1>3. Progress'
  BY <1>1 DEF Progress
<1> QED
  BY <1>2, <1>3

-----------------------------------------------------------------------------
(* The program's steps.                                                    *)
LEMMA StaysAlive ==
  ASSUME NoDanglingPointer, UNCHANGED <<allocs, heap>>,
         NEW v, Roots' \subseteq Roots \cup {v}, v \in Pointers => v[1] \in allocs
  PROVE  NoDanglingPointer'
  BY DEF NoDanglingPointer

LEMMA IdleCollector ==
  ASSUME Running, UNCHANGED Collector
  PROVE  Sound' /\ Progress'
  BY DEF Running, Collector, Sound, Progress

LEMMA AllocAlive ==
  ASSUME TypeOK, NoDanglingPointer, Alloc
  PROVE  NoDanglingPointer'
<1>1. PICK o \in Objects \ allocs :
        /\ allocs' = allocs \cup {o}
        /\ heap' = [heap EXCEPT ![o] = Blank]
        /\ stack' = Append(stack, <<o>>)
  BY DEF Alloc
<1>2. Roots' \subseteq Roots \cup {<<o>>}
  BY <1>1, PushRoots DEF Alloc
<1>3. \A r \in Roots' : r \in Pointers => r[1] \in allocs'
  BY <1>1, <1>2 DEF NoDanglingPointer
<1>4. ASSUME NEW q \in allocs', NEW f \in Fields, heap'[q][f] # Nil
      PROVE  heap'[q][f][1] \in allocs'
  <2>1. CASE q = o
    BY <1>1, <1>4, <2>1 DEF TypeOK, Blank
  <2>2. CASE q # o
    BY <1>1, <1>4, <2>2 DEF TypeOK, NoDanglingPointer
  <2> QED
    BY <2>1, <2>2
<1> QED
  BY <1>3, <1>4 DEF NoDanglingPointer

LEMMA StorePAlive ==
  ASSUME TypeOK, NoDanglingPointer, StoreP
  PROVE  NoDanglingPointer'
<1> DEFINE v == stack[Len(stack) - 1]
<1>1. /\ Len(stack) >= 2 /\ Top \in References /\ v \notin References
      /\ heap' = [heap EXCEPT ![Top[1]][Top[2]] = v] /\ stack' = Pop(2)
      /\ UNCHANGED <<globals, frames, allocs>>
  BY DEF StoreP, Usable
<1>2. Roots' \subseteq Roots
  BY <1>1, PopRoots DEF TypeOK
<1>3. v \in Roots
  BY <1>1 DEF TypeOK, Roots
<1>4. v # Nil => v[1] \in allocs
  BY <1>1, <1>3, RootsAreValues DEF NoDanglingPointer, Value
<1>5. ASSUME NEW q \in allocs', NEW f \in Fields, heap'[q][f] # Nil
      PROVE  heap'[q][f][1] \in allocs'
  <2>1. heap'[q][f] = v \/ heap'[q][f] = heap[q][f]
    BY <1>1, ReferenceShape DEF TypeOK
  <2> QED
    BY <1>1, <1>4, <1>5, <2>1 DEF NoDanglingPointer
<1> QED
  BY <1>1, <1>2, <1>5 DEF NoDanglingPointer

LEMMA ProgramStep ==
  ASSUME TypeOK, NoDanglingPointer, Program
  PROVE  NoDanglingPointer' /\ Sound' /\ Progress'
<1>1. CASE Alloc
  BY <1>1, AllocAlive, Begins, IdleCollector DEF Alloc
<1>2. CASE GarbageCollect
  <2>1. UNCHANGED <<globals, frames, stack, allocs, heap>> /\ StartCollection
    BY <1>2 DEF GarbageCollect
  <2>2. Roots' \subseteq Roots \cup {Nil} /\ Nil \notin Pointers
    BY <2>1, PointerShape DEF Roots
  <2> QED
    BY <2>1, <2>2, StaysAlive, Begins
<1>3. ASSUME NEW v, Push(v), v \in Roots \cup {Nil} PROVE NoDanglingPointer' /\ Sound' /\ Progress'
  <2>1. Roots' \subseteq Roots \cup {v}
    BY <1>3, PushRoots DEF Push
  <2>2. v \in Pointers => v[1] \in allocs
    BY <1>3, PointerShape DEF NoDanglingPointer
  <2> QED
    BY <1>3, <2>1, <2>2, StaysAlive, IdleCollector DEF Push
<1>4. CASE PushNil
  BY <1>3, <1>4 DEF PushNil
<1>5. ASSUME NEW g \in Globals, PushGlobal(g) PROVE NoDanglingPointer' /\ Sound' /\ Progress'
  BY <1>3, <1>5 DEF PushGlobal, Roots
<1>6. ASSUME NEW v \in Locals, PushLocal(v) PROVE NoDanglingPointer' /\ Sound' /\ Progress'
  BY <1>3, <1>6, FrameIsTyped DEF PushLocal
<1>7. ASSUME UNCHANGED <<allocs, heap>>, Running, UNCHANGED Collector, Roots' \subseteq Roots \cup {Nil}
      PROVE  NoDanglingPointer' /\ Sound' /\ Progress'
  BY <1>7, StaysAlive, IdleCollector, PointerShape
<1>8. ASSUME NEW g \in Globals, StoreGlobal(g) PROVE NoDanglingPointer' /\ Sound' /\ Progress'
  BY <1>7, <1>8, GlobalRoots DEF StoreGlobal, Poppable
<1>9. ASSUME NEW v \in Locals, StoreLocal(v) PROVE NoDanglingPointer' /\ Sound' /\ Progress'
  BY <1>7, <1>9, LocalRoots DEF StoreLocal, Poppable
<1>10. ASSUME NEW v \in Locals, Call(v) PROVE NoDanglingPointer' /\ Sound' /\ Progress'
  <2>1. Running /\ UNCHANGED <<globals, allocs, heap, allocations>> /\ UNCHANGED Collector
    BY <1>10 DEF Call, Poppable
  <2> QED
    BY <1>7, <1>10, <2>1, CallRoots
<1>11. CASE Ret
  <2>1. Running /\ UNCHANGED <<globals, stack, allocs, heap, allocations>> /\ UNCHANGED Collector
    BY <1>11 DEF Ret
  <2> QED
    BY <1>7, <1>11, <2>1, RetRoots
<1>12. CASE Drop
  <2>1. stack # << >> /\ Len(stack) >= 1
    BY <1>12 DEF Drop, Poppable, TypeOK
  <2> QED
    BY <1>7, <1>12, <2>1, PopRoots DEF Drop, Poppable
<1>13. ASSUME NEW v \in Value, v \in Pointers => v[1] \in allocs, Poppable,
              stack' = Append(Pop(1), v), UNCHANGED <<globals, frames, allocs, heap>>, UNCHANGED Collector
       PROVE  NoDanglingPointer' /\ Sound' /\ Progress'
  <2>1. Roots' \subseteq Roots \cup {v}
    BY <1>13, ReplaceRoots DEF Poppable
  <2> QED
    BY <1>13, <2>1, StaysAlive, IdleCollector DEF Poppable
<1>14. ASSUME NEW f \in Fields, Field(f) PROVE NoDanglingPointer' /\ Sound' /\ Progress'
  <2>1. Top \in Pointers /\ Poppable
    BY <1>14 DEF Field
  <2>2. <<Top[1], f>> \in References
    BY <2>1, PointerShape DEF References
  <2>3. <<Top[1], f>> \in Value /\ <<Top[1], f>> \notin Pointers
    BY <2>2, ReferenceShape
  <2> QED
    BY <1>13, <1>14, <2>1, <2>3 DEF Field
<1>15. CASE LoadP
  <2>1. Top \in References /\ Top[1] \in allocs /\ Poppable
    BY <1>15 DEF LoadP, Usable
  <2>2. heap[Top[1]][Top[2]] \in Value
    BY <2>1, ReferenceShape DEF TypeOK, Value
  <2>3. heap[Top[1]][Top[2]] \in Pointers => heap[Top[1]][Top[2]][1] \in allocs
    BY <2>1, ReferenceShape, PointerShape DEF NoDanglingPointer
  <2> QED
    BY <1>13, <1>15, <2>1, <2>2, <2>3 DEF LoadP
<1>16. CASE StoreP
  BY <1>16, StorePAlive, IdleCollector DEF StoreP
<1> QED
  BY <1>1, <1>2, <1>4, <1>5, <1>6, <1>8, <1>9, <1>10, <1>11, <1>12, <1>14, <1>15, <1>16 DEF Program

-----------------------------------------------------------------------------
(* The collector's steps.                                                  *)

(* While it marks, neither the program's data nor what it reaches changes. *)
LEMMA MarkingKeeps ==
  ASSUME NoDanglingPointer, UNCHANGED <<globals, frames, stack, allocs, heap>>
  PROVE  NoDanglingPointer' /\ Roots' = Roots /\ Reachable' = Reachable
         /\ \A v : Targets(v)' = Targets(v)
<1>1. Roots' = Roots
  BY DEF Roots
<1>2. \A v : Targets(v)' = Targets(v)
  BY DEF Targets
<1>3. \A S : Closed(S)' <=> Closed(S)
  BY DEF Closed
<1>4. Reachable' = Reachable
  BY <1>1, <1>2, <1>3 DEF Reachable
<1>5. NoDanglingPointer'
  BY <1>1 DEF NoDanglingPointer
<1> QED
  BY <1>1, <1>2, <1>4, <1>5

LEMMA MarkRootStep ==
  ASSUME IInv, MarkRoot
  PROVE  NoDanglingPointer' /\ Sound' /\ Progress'
<1>1. PICK r \in pending : todo' = <<r>> /\ pending' = pending \ {r}
  BY DEF MarkRoot
<1>2. /\ phase = "mark" /\ todo = << >>
      /\ UNCHANGED <<globals, frames, stack, allocs, heap, allocations, phase, marked>>
  BY DEF MarkRoot
<1>3. NoDanglingPointer' /\ Roots' = Roots /\ Reachable' = Reachable /\ \A v : Targets(v)' = Targets(v)
  BY <1>2, MarkingKeeps DEF IInv
<1>4. r \in Roots /\ r \in Value
  BY <1>1, <1>2 DEF IInv, Sound, TypeOK
<1>5. Targets(r) \subseteq Reachable
  BY <1>4, TargetsAreObjects, ReachableFacts DEF IInv
<1>6. Sound'
  BY <1>1, <1>2, <1>3, <1>5 DEF IInv, Sound
<1>7. SeenRoot(r)'
  <2>1. OnTodo(r)'
    BY <1>1 DEF OnTodo
  <2> QED
    BY <2>1, ReferenceShape, <1>2 DEF SeenRoot, SeenPointer, SeenField
<1>8. \A v : ~OnTodo(v)
  BY <1>2 DEF OnTodo
<1>9. \A o, f : SeenField(o, f) => SeenField(o, f)'
  BY <1>2, <1>8 DEF SeenField, SeenPointer
<1>10. \A q : SeenRoot(q) => SeenRoot(q)'
  BY <1>2, <1>8, <1>9 DEF SeenRoot, SeenPointer
<1>11. Progress'
  BY <1>1, <1>2, <1>3, <1>7, <1>9, <1>10 DEF IInv, Progress
<1> QED
  BY <1>3, <1>6, <1>11

(* What has been seen stays seen when the cell on top of todo is visited,  *)
(* if that cell is dealt with.                                             *)
LEMMA SeenStays ==
  ASSUME NEW c,
         \A v : OnTodo(v) => v = c \/ OnTodo(v)',
         marked \subseteq marked', heap' = heap,
         c \in Pointers => c[1] \in marked',
         c \in References => SeenPointer(heap[c[1]][c[2]])'
  PROVE  /\ \A v \in Pointers \cup {Nil} : SeenPointer(v) => SeenPointer(v)'
         /\ \A o \in Objects, f \in Fields :
              heap[o][f] \in Pointers \cup {Nil} /\ SeenField(o, f) => SeenField(o, f)'
<1>1. ASSUME NEW v \in Pointers \cup {Nil}, SeenPointer(v) PROVE SeenPointer(v)'
  BY <1>1 DEF SeenPointer
<1>2. ASSUME NEW o \in Objects, NEW f \in Fields, heap[o][f] \in Pointers \cup {Nil}, SeenField(o, f)
      PROVE  SeenField(o, f)'
  <2>1. CASE OnTodo(<<o, f>>)
    <3>1. <<o, f>> \in References /\ <<o, f>>[1] = o /\ <<o, f>>[2] = f
      BY DEF References
    <3>2. CASE <<o, f>> = c
      BY <3>1, <3>2 DEF SeenField
    <3>3. CASE OnTodo(<<o, f>>)'
      BY <3>3 DEF SeenField
    <3> QED
      BY <2>1, <3>2, <3>3
  <2>2. CASE SeenPointer(heap[o][f])
    <3>1. SeenPointer(heap[o][f])'
      BY <1>1, <1>2, <2>2 DEF SeenPointer
    <3> QED
      BY <3>1 DEF SeenField
  <2> QED
    BY <1>2, <2>1, <2>2 DEF SeenField
<1> QED
  BY <1>1, <1>2

(* A sequence without its last element, and one sequence behind another.   *)
LEMMA WithoutLast ==
  ASSUME NEW S, NEW s \in Seq(S), s # << >>, NEW t, t = SubSeq(s, 1, Len(s) - 1)
  PROVE  /\ t \in Seq(S) /\ Len(t) = Len(s) - 1 /\ Len(s) \in DOMAIN s /\ s[Len(s)] \in S
         /\ \A i \in DOMAIN t : i \in DOMAIN s /\ t[i] = s[i]
         /\ \A i \in DOMAIN s : i = Len(s) \/ i \in DOMAIN t
<1>1. Len(s) \in Nat \ {0} /\ DOMAIN s = 1..Len(s) /\ s[Len(s)] \in S
  OBVIOUS
<1>2. Len(t) = Len(s) - 1 /\ DOMAIN t = 1..(Len(s) - 1)
  BY <1>1
<1>3. \A i \in 1..(Len(s) - 1) : t[i] = s[i]
  BY <1>1
<1>4. t \in Seq(S)
  BY <1>1, SubSeqProperties
<1> QED
  BY <1>1, <1>2, <1>3, <1>4

LEMMA Concatenation ==
  ASSUME NEW S, NEW s \in Seq(S), NEW T, NEW t \in Seq(T)
  PROVE  /\ DOMAIN (s \o t) = 1..(Len(s) + Len(t))
         /\ \A i \in DOMAIN s : (s \o t)[i] = s[i]
         /\ \A i \in DOMAIN t : (s \o t)[Len(s) + i] = t[i]
  OBVIOUS

LEMMA MarkCellStep ==
  ASSUME IInv, MarkCell
  PROVE  NoDanglingPointer' /\ Sound' /\ Progress'
<1>0. PICK c, rest : c = todo[Len(todo)] /\ rest = SubSeq(todo, 1, Len(todo) - 1)
  OBVIOUS
<1>1. /\ phase = "mark" /\ todo # << >>
      /\ UNCHANGED <<globals, frames, stack, allocs, heap, allocations, phase, pending>>
  BY DEF MarkCell
<1>2. TypeOK /\ heap' = heap
  BY <1>1 DEF IInv
<1>3. /\ c \in Value \ {Nil} /\ Len(todo) \in DOMAIN todo /\ todo \in Seq(Value \ {Nil})
      /\ rest \in Seq(Value \ {Nil}) /\ Len(rest) = Len(todo) - 1
      /\ \A i \in DOMAIN rest : i \in DOMAIN todo /\ rest[i] = todo[i]
      /\ \A i \in DOMAIN todo : i = Len(todo) \/ i \in DOMAIN rest
  <2>1. todo \in Seq(Value \ {Nil})
    BY <1>2 DEF TypeOK
  <2>2. todo # << >> /\ rest = SubSeq(todo, 1, Len(todo) - 1)
    BY <1>0, <1>1
  <2>3. /\ rest \in Seq(Value \ {Nil}) /\ Len(rest) = Len(todo) - 1
        /\ Len(todo) \in DOMAIN todo /\ todo[Len(todo)] \in Value \ {Nil}
    <3>1. PICK S : S = Value \ {Nil}
      OBVIOUS
    <3>2. todo \in Seq(S)
      BY <2>1, <3>1
    <3>3. rest \in Seq(S) /\ Len(rest) = Len(todo) - 1 /\ Len(todo) \in DOMAIN todo /\ todo[Len(todo)] \in S
      BY <2>2, <3>2, WithoutLast
    <3> QED
      BY <3>1, <3>3
  <2>4. \A i \in DOMAIN rest : i \in DOMAIN todo /\ rest[i] = todo[i]
    BY <2>1, <2>2, WithoutLast
  <2>5. \A i \in DOMAIN todo : i = Len(todo) \/ i \in DOMAIN rest
    BY <2>1, <2>2, WithoutLast
  <2> QED
    BY <1>0, <2>1, <2>3, <2>4, <2>5
<1>4. NoDanglingPointer' /\ Roots' = Roots /\ Reachable' = Reachable /\ \A v : Targets(v)' = Targets(v)
  BY <1>1, MarkingKeeps DEF IInv
<1>5. Targets(c) \subseteq Reachable
  BY <1>0, <1>1, <1>3 DEF IInv, Sound
<1>6. \A o \in Objects, f \in Fields : heap[o][f] \in Pointers \cup {Nil}
  BY <1>2 DEF TypeOK
<1>7. \A v : OnTodo(v) => v = c \/ \E i \in DOMAIN rest : rest[i] = v
  BY <1>0, <1>3 DEF OnTodo
<1>8. ASSUME /\ marked' \subseteq Reachable
             /\ \A i \in DOMAIN todo' : Targets(todo'[i]) \subseteq Reachable
             /\ \A v : OnTodo(v) => v = c \/ OnTodo(v)'
             /\ marked \subseteq marked'
             /\ c \in Pointers => c[1] \in marked'
             /\ c \in References => SeenPointer(heap[c[1]][c[2]])'
             /\ \A o \in marked' \ marked, f \in Fields : SeenField(o, f)'
      PROVE  Sound' /\ Progress'
  <2>1. Sound'
    BY <1>1, <1>4, <1>8 DEF IInv, Sound
  <2>2. \A v \in Pointers \cup {Nil} : SeenPointer(v) => SeenPointer(v)'
    BY <1>2, <1>8, SeenStays
  <2>3. \A o \in Objects, f \in Fields : SeenField(o, f) => SeenField(o, f)'
    BY <1>2, <1>6, <1>8, SeenStays
  <2>4. \A r \in Roots : SeenRoot(r) => SeenRoot(r)'
    BY <2>2, <2>3, ReferenceShape DEF SeenRoot
  <2>5. \A o \in marked', f \in Fields : SeenField(o, f)'
    BY <1>1, <1>2, <1>8, <2>3 DEF IInv, Progress, TypeOK
  <2> QED
    BY <1>1, <1>4, <2>1, <2>4, <2>5 DEF IInv, Progress
<1>9. CASE c \in Pointers /\ c[1] \in marked /\ todo' = rest /\ UNCHANGED marked
  <2>1. marked' \subseteq Reachable /\ marked' \ marked = {} /\ c[1] \in marked' /\ c \notin References
    BY <1>1, <1>9, PointerShape DEF IInv, Sound
  <2>2. \A i \in DOMAIN todo' : Targets(todo'[i]) \subseteq Reachable
    BY <1>1, <1>3, <1>9 DEF IInv, Sound
  <2>3. \A v : OnTodo(v) => v = c \/ OnTodo(v)'
    BY <1>7, <1>9 DEF OnTodo
  <2> QED
    BY <1>4, <1>8, <1>9, <2>1, <2>2, <2>3
<1>10. CASE /\ c \in Pointers /\ c[1] \notin marked /\ marked' = marked \cup {c[1]}
            /\ todo' = rest \o [f \in Fields |-> <<c[1], f>>]
  <2> DEFINE fields == [f \in Fields |-> <<c[1], f>>]
  <2>1. fields \in Seq(References) /\ Len(fields) = NFields /\ \A f \in Fields : fields[f] = <<c[1], f>>
    BY <1>10, PointerShape, ConstantTypes DEF Fields, References
  <2> HIDE DEF fields
  <2>2. /\ \A i \in DOMAIN todo' : (i \in DOMAIN rest /\ todo'[i] = rest[i]) \/ \E f \in Fields : todo'[i] = <<c[1], f>>
        /\ \A i \in DOMAIN rest : i \in DOMAIN todo' /\ todo'[i] = rest[i]
        /\ \A f \in Fields : Len(rest) + f \in DOMAIN todo' /\ todo'[Len(rest) + f] = <<c[1], f>>
    <3>1. todo' = rest \o fields
      BY <1>10 DEF fields
    <3>2. DOMAIN todo' = 1..(Len(rest) + NFields)
      BY <1>3, <2>1, <3>1, Concatenation
    <3>3. \A i \in DOMAIN rest : i \in DOMAIN todo' /\ todo'[i] = rest[i]
      BY <1>3, <2>1, <3>1, <3>2, Concatenation, ConstantTypes
    <3>4. \A f \in Fields : Len(rest) + f \in DOMAIN todo' /\ todo'[Len(rest) + f] = <<c[1], f>>
      <4> SUFFICES ASSUME NEW f \in Fields
                   PROVE  Len(rest) + f \in DOMAIN todo' /\ todo'[Len(rest) + f] = <<c[1], f>>
        OBVIOUS
      <4>1. f \in DOMAIN fields
        BY <2>1, ConstantTypes DEF Fields
      <4>2. (rest \o fields)[Len(rest) + f] = fields[f]
        <5>1. \A i \in DOMAIN fields : (rest \o fields)[Len(rest) + i] = fields[i]
          BY <1>3, <2>1, Concatenation
        <5> QED
          BY <4>1, <5>1
      <4>3. Len(rest) + f \in 1..(Len(rest) + NFields)
        BY <1>3, ConstantTypes DEF Fields
      <4> QED
        BY <2>1, <3>1, <3>2, <4>2, <4>3
    <3>5. \A i \in DOMAIN todo' : i \in DOMAIN rest \/ \E f \in Fields : i = Len(rest) + f
      <4> SUFFICES ASSUME NEW i \in DOMAIN todo', i \notin DOMAIN rest PROVE \E f \in Fields : i = Len(rest) + f
        OBVIOUS
      <4>1. i - Len(rest) \in Fields /\ i = Len(rest) + (i - Len(rest))
        BY <1>3, <3>2, ConstantTypes DEF Fields
      <4> QED
        BY <4>1
    <3> QED
      BY <3>3, <3>4, <3>5
  <2>3. c[1] \in Objects /\ c[1] \in Reachable /\ c \notin References
    BY <1>5, <1>10, PointerShape DEF Targets
  <2>4. \A f \in Fields : Targets(<<c[1], f>>) \subseteq Reachable
    <3> SUFFICES ASSUME NEW f \in Fields PROVE Targets(<<c[1], f>>) \subseteq Reachable
      OBVIOUS
    <3>1. <<c[1], f>> \in References /\ <<c[1], f>> \notin Pointers
      BY <2>3, ReferenceShape DEF References
    <3>2. heap[c[1]][f] # Nil => heap[c[1]][f][1] \in Reachable
      BY <1>2, <2>3, ReachableClosed DEF Closed
    <3> QED
      BY <3>1, <3>2 DEF Targets
  <2>5. \A i \in DOMAIN todo' : Targets(todo'[i]) \subseteq Reachable
    BY <1>1, <1>3, <2>2, <2>4 DEF IInv, Sound
  <2>6. \A v : OnTodo(v) => v = c \/ OnTodo(v)'
    BY <1>7, <2>2 DEF OnTodo
  <2>7. \A o \in marked' \ marked, f \in Fields : SeenField(o, f)'
    <3>1. \A f \in Fields : OnTodo(<<c[1], f>>)'
      BY <2>2 DEF OnTodo
    <3> QED
      BY <1>10, <3>1 DEF SeenField
  <2>8. marked' \subseteq Reachable /\ marked \subseteq marked' /\ c[1] \in marked'
    BY <1>1, <1>10, <2>3 DEF IInv, Sound
  <2> QED
    BY <1>4, <1>8, <2>3, <2>5, <2>6, <2>7, <2>8
<1>11. CASE /\ c \in References
            /\ todo' = IF heap[c[1]][c[2]] = Nil THEN rest ELSE Append(rest, heap[c[1]][c[2]])
            /\ UNCHANGED marked
  <2>0. PICK p : p = heap[c[1]][c[2]]
    OBVIOUS
  <2>1. c[1] \in Objects /\ c[2] \in Fields /\ c \notin Pointers /\ p \in Pointers \cup {Nil}
    BY <1>6, <1>11, <2>0, ReferenceShape
  <2>2. p # Nil => Targets(p) \subseteq Reachable
    BY <1>5, <1>11, <2>0, <2>1, PointerShape DEF Targets
  <2>3. /\ \A i \in DOMAIN todo' : (i \in DOMAIN rest /\ todo'[i] = rest[i]) \/ (p # Nil /\ todo'[i] = p)
        /\ \A i \in DOMAIN rest : i \in DOMAIN todo' /\ todo'[i] = rest[i]
        /\ p # Nil => Len(rest) + 1 \in DOMAIN todo' /\ todo'[Len(rest) + 1] = p
    <3>1. todo' = IF p = Nil THEN rest ELSE Append(rest, p)
      BY <1>11, <2>0
    <3> QED
      BY <1>3, <3>1
  <2>4. \A i \in DOMAIN todo' : Targets(todo'[i]) \subseteq Reachable
    BY <1>1, <1>3, <2>2, <2>3 DEF IInv, Sound
  <2>5. \A v : OnTodo(v) => v = c \/ OnTodo(v)'
    BY <1>7, <2>3 DEF OnTodo
  <2>6. SeenPointer(heap[c[1]][c[2]])'
    BY <1>2, <2>0, <2>3 DEF SeenPointer, OnTodo
  <2>7. marked' \subseteq Reachable /\ marked' = marked
    BY <1>1, <1>11 DEF IInv, Sound
  <2> QED
    BY <1>4, <1>8, <2>1, <2>4, <2>5, <2>6, <2>7
<1> QED
  BY <1>0, <1>4, <1>9, <1>10, <1>11 DEF MarkCell

(* When nothing is left to visit the marked cells are the reachable ones.  *)
LEMMA AllMarked ==
  ASSUME IInv, Sweep
  PROVE  marked = Reachable
<1>1. phase = "mark" /\ todo = << >> /\ pending = {} /\ TypeOK
  BY DEF Sweep, IInv
<1>2. \A v : ~OnTodo(v)
  BY <1>1 DEF OnTodo
<1>3. marked \subseteq Reachable /\ marked \subseteq Objects
  BY <1>1 DEF IInv, Sound, TypeOK
<1>4. Closed(marked)
  BY <1>1, <1>2 DEF IInv, Progress, SeenField, SeenPointer, Closed
<1>5. ASSUME NEW r \in Roots PROVE Targets(r) \subseteq marked
  <2>1. r = Nil \/ SeenRoot(r)
    BY <1>1 DEF IInv, Progress
  <2>2. CASE r \in Pointers
    BY <1>2, <2>1, <2>2, PointerShape DEF SeenRoot, SeenPointer, Targets
  <2>3. CASE r \in References
    BY <1>2, <2>1, <2>3, ReferenceShape DEF SeenRoot, SeenField, SeenPointer, Targets
  <2>4. CASE r = Nil
    BY <2>4, PointerShape, ReferenceShape DEF Targets
  <2> QED
    BY <1>1, <2>2, <2>3, <2>4, RootsAreValues DEF Value
<1>6. Reachable \subseteq marked
  BY <1>3, <1>4, <1>5, ReachableFacts
<1> QED
  BY <1>3, <1>6

LEMMA SweepStep ==
  ASSUME IInv, Sweep
  PROVE  NoDanglingPointer' /\ Sound' /\ Progress'
<1>1. /\ phase' = "run" /\ allocs' = allocs \cap marked
      /\ heap' = [o \in Objects |-> IF o \in allocs' THEN heap[o] ELSE Blank]
      /\ UNCHANGED <<globals, frames, stack>>
  BY DEF Sweep
<1>2. Sound' /\ Progress'
  BY <1>1 DEF Sound, Progress
<1>3. Roots' = Roots
  BY <1>1 DEF Roots
<1>4. marked = Reachable /\ TypeOK
  BY AllMarked DEF IInv
<1>5. \A r \in Roots : r \in Pointers => r[1] \in allocs'
  <2> SUFFICES ASSUME NEW r \in Roots, r \in Pointers PROVE r[1] \in allocs'
    OBVIOUS
  <2>1. r[1] \in allocs
    BY DEF IInv, NoDanglingPointer
  <2>2. r[1] \in Objects /\ Targets(r) = {r[1]}
    BY PointerShape DEF Targets
  <2> QED
    BY <1>1, <1>4, <2>1, <2>2, ReachableFacts
<1>6. ASSUME NEW o \in allocs', NEW f \in Fields, heap'[o][f] # Nil
      PROVE  heap'[o][f][1] \in allocs'
  <2>1. o \in Objects /\ o \in allocs /\ o \in Reachable
    BY <1>1, <1>4 DEF TypeOK
  <2>2. heap'[o] = heap[o]
    BY <1>1, <2>1
  <2>3. heap[o][f][1] \in allocs
    BY <1>6, <2>1, <2>2 DEF IInv, NoDanglingPointer
  <2>4. heap[o][f][1] \in Reachable
    BY <1>4, <1>6, <2>1, <2>2, ReachableClosed DEF Closed
  <2> QED
    BY <1>1, <1>4, <2>2, <2>3, <2>4
<1> QED
  BY <1>2, <1>3, <1>5, <1>6 DEF NoDanglingPointer

LEMMA IInvStep == IInv /\ [Next]_vars => IInv'
<1> SUFFICES ASSUME IInv, [Next]_vars PROVE IInv'
  OBVIOUS
<1>1. TypeOK'
  BY TypeStep DEF IInv
<1>2. CASE Program
  BY <1>1, <1>2, ProgramStep DEF IInv
<1>3. CASE MarkRoot
  BY <1>1, <1>3, MarkRootStep DEF IInv
<1>4. CASE MarkCell
  BY <1>1, <1>4, MarkCellStep DEF IInv
<1>5. CASE Sweep
  BY <1>1, <1>5, SweepStep DEF IInv
<1>6. CASE UNCHANGED vars
  <2>1. UNCHANGED <<globals, frames, stack, allocs, heap>> /\ UNCHANGED <<phase, pending, todo, marked>>
    BY <1>6 DEF vars
  <2>2. NoDanglingPointer' /\ Roots' = Roots /\ Reachable' = Reachable /\ \A v : Targets(v)' = Targets(v)
    BY <2>1, MarkingKeeps DEF IInv
  <2>3. Sound'
    BY <2>1, <2>2 DEF IInv, Sound
  <2>4. \A v : OnTodo(v)' <=> OnTodo(v)
    BY <2>1 DEF OnTodo
  <2>5. \A v : SeenPointer(v)' <=> SeenPointer(v)
    BY <2>1, <2>4 DEF SeenPointer
  <2>6. \A o, f : SeenField(o, f)' <=> SeenField(o, f)
    BY <2>1, <2>4 DEF SeenField, SeenPointer
  <2>7. \A r : SeenRoot(r)' <=> SeenRoot(r)
    BY <2>5, <2>6 DEF SeenRoot
  <2>8. Progress'
    BY <2>1, <2>2, <2>6, <2>7 DEF IInv, Progress
  <2> QED
    BY <1>1, <2>2, <2>3, <2>8 DEF IInv
<1> QED
  BY <1>2, <1>3, <1>4, <1>5, <1>6 DEF Next, Collect

(* No pointer in a variable, on the operand stack or in an allocated cell  *)
(* is left to a cell that was freed.                                       *)
THEOREM PointersStayValid == Spec => []NoDanglingPointer
<1>1. IInv => NoDanglingPointer
  BY DEF IInv
<1> QED
  BY <1>1, InitIInv, IInvStep, PTL DEF Spec

(* What a collection leaves is what can be reached, no more and no less.   *)
THEOREM CollectsExactly == Spec => FreesTheUnreachable
<1>1. IInv /\ [Next]_vars => [Sweep => allocs' = allocs \cap Reachable]_vars
  BY AllMarked DEF Sweep
<1> QED
  BY <1>1, InitIInv, IInvStep, PTL DEF Spec, FreesTheUnreachable
=============================================================================
