------------------------- MODULE PropertyEnumeration -------------------------
(***************************************************************************)
(* The traversal engine of property-enumeration.h and .c: a stack of       *)
(* frames (a Vector of PropertyEnumeration), each holding an object, the   *)
(* list of its own property names taken when the frame was pushed, and an  *)
(* index into that list.  deep, tree_walker and xml walk object graphs by  *)
(* calling the operators of this module on one such stack.                 *)
(*                                                                         *)
(* The JavaScript heap is a function from objects to their properties in   *)
(* enumeration order; a property is a record of key and value.  The stack  *)
(* is a sequence whose last element is the top.  Indexes count from 0, as  *)
(* in the code.                                                            *)
(***************************************************************************)
EXTENDS Integers, Sequences

CONSTANTS Obj,        \* the objects of the heap
          Prim,       \* the values that are not objects
          Key,        \* property names
          Undefined   \* what JS_GetProperty returns for a missing property

ASSUME ObjAssumption == Undefined \in Prim /\ Obj \cap Prim = {}

Value == Obj \cup Prim
Property == [key : Key, val : Value]
Frame == [obj : Obj, tab : Seq(Key), idx : Nat]

----------------------------------------------------------------------------
(* The object model as the engine uses it.                                 *)

Names(props) == [i \in DOMAIN props |-> props[i].key]

\* an object has one property of a name
Unique(props) ==
  \A i, j \in DOMAIN props : props[i].key = props[j].key => i = j

At(props, k) == {i \in DOMAIN props : props[i].key = k}

GetProperty(heap, o, k) ==
  LET hits == At(heap[o], k)
  IN  IF hits = {} THEN Undefined ELSE heap[o][CHOOSE i \in hits : TRUE].val

----------------------------------------------------------------------------
(* One frame.                                                              *)

\* A mutant: the index starts before the first name.
NewFrameBefore(heap, o) == [obj |-> o, tab |-> Names(heap[o]), idx |-> -1]

\* property_enumeration_init: the names are a snapshot, the index starts at 0
NewFrame(heap, o) == [obj |-> o, tab |-> Names(heap[o]), idx |-> 0]

Target(it, idx) == IF idx < 0 THEN idx + Len(it.tab) ELSE idx

\* property_enumeration_setpos answers 1 exactly when Settable, and then
\* moves, having asserted that the target is not negative
Settable(it, idx) == Target(it, idx) < Len(it.tab)
SetPosAborts(it, idx) == Target(it, idx) < 0
SetPos(it, idx) == [it EXCEPT !.idx = Target(it, idx)]

\* A mutant: one position too many.
HasNextOrEnd(it) == Target(it, it.idx + 1) <= Len(it.tab)

HasNext(it) == Settable(it, it.idx + 1)

\* the condition asserted by every accessor of the current property
OnProperty(it) == it.idx < Len(it.tab)

\* the name is the snapshot's, the value is read when it is asked for
CurrentKey(it) == it.tab[it.idx + 1]
CurrentValue(heap, it) == GetProperty(heap, it.obj, CurrentKey(it))

----------------------------------------------------------------------------
(* The stack of frames.                                                    *)

Top(frames) == frames[Len(frames)]

Pop(frames) == SubSeq(frames, 1, Len(frames) - 1)

\* setpos(it, it->idx + 1) on the top frame
Advance(frames) == [frames EXCEPT ![Len(frames)] = SetPos(@, @.idx + 1)]

Push(heap, frames, o) == Append(frames, NewFrame(heap, o))

\* A mutant: only the innermost object is compared.
CircularTop(frames, o) == Top(frames).obj = o

Circular(frames, o) == \E i \in DOMAIN frames : frames[i].obj = o

\* A mutant: the frame popped to is not moved.
PopOnly(frames) ==
  LET open == {d \in 1..(Len(frames) - 1) : HasNext(frames[d])}
  IN  IF open = {} THEN << >> ELSE SubSeq(frames, 1, CHOOSE d \in open : \A e \in open : e <= d)

\* The loop at the end of recurse and skip: pop the top frame, and go on
\* popping until a frame below has a property left to move to.  The stack is
\* empty when there is none.
PopAdvance(frames) ==
  LET open == {d \in 1..(Len(frames) - 1) : HasNext(frames[d])}
  IN  IF open = {}
        THEN << >>
        ELSE LET d == CHOOSE d \in open : \A e \in open : e <= d
             IN  Advance(SubSeq(frames, 1, d))

\* property_enumeration_skip: the next property, without entering the value
Skip(frames) ==
  IF frames # << >> /\ HasNext(Top(frames))
    THEN Advance(frames)
    ELSE PopAdvance(frames)

Enterable(heap, frames) ==
  /\ frames # << >>
  /\ OnProperty(Top(frames))
  /\ CurrentValue(heap, Top(frames)) \in Obj
  /\ ~Circular(frames, CurrentValue(heap, Top(frames)))

\* A mutant: the frame of an object without properties stays.
RecurseInto(heap, frames) ==
  IF Enterable(heap, frames) THEN Push(heap, frames, CurrentValue(heap, Top(frames))) ELSE Skip(frames)

\* property_enumeration_recurse: enter the current value when it is an object
\* that is not already on the stack, otherwise move on.  An object without
\* properties is pushed and popped again by the same call.
Recurse(heap, frames) ==
  IF Enterable(heap, frames)
    THEN LET inner == Push(heap, frames, CurrentValue(heap, Top(frames)))
         IN  IF Settable(Top(inner), 0) THEN inner ELSE PopAdvance(inner)
    ELSE Skip(frames)

\* property_enumeration_path: the position as the sequence of the frames'
\* indexes (which names the same place as the sequence of their keys)
PathOf(frames) == [i \in DOMAIN frames |-> frames[i].idx]

\* Lexicographic order on positions; a prefix comes before its extensions.
Before(p, q) ==
  \/ /\ Len(p) < Len(q)
     /\ \A i \in DOMAIN p : p[i] = q[i]
  \/ \E i \in DOMAIN p \cap DOMAIN q :
       /\ p[i] < q[i]
       /\ \A j \in 1..(i - 1) : p[j] = q[j]
=============================================================================
