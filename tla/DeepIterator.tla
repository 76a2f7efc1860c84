----------------------------- MODULE DeepIterator -----------------------------
(***************************************************************************)
(* The iterator of the deep module (quickjs-deep.c): next() walks the      *)
(* object graph under a root with the traversal engine and returns the     *)
(* next position its predicate accepts.                                    *)
(*                                                                         *)
(* The predicate is a JavaScript function, so while it runs the program    *)
(* may change the objects being walked and may even call next() on the     *)
(* same iterator again; between calls of next() the program may change the *)
(* objects too.  One step of this module is one call of the engine, one    *)
(* return of the predicate, or one such change.                            *)
(***************************************************************************)
EXTENDS PropertyEnumeration

CONSTANTS Heaps,      \* the heaps the program may start from
          Root,       \* the object given to the constructor
          MaxDepth,   \* flags & MAXDEPTH_MASK, or a bound above every depth
          Mutable,    \* whether the program changes objects during the walk
          MaxProps,   \* bound on the properties of one object
          MaxNested   \* bound on next() calls made from inside a predicate

\* the program starts from objects of JavaScript: none has two properties of
\* one name
ASSUME DeepAssumption ==
  /\ Root \in Obj
  /\ Heaps \subseteq [Obj -> Seq(Property)]
  /\ \A h \in Heaps : \A o \in Obj : Unique(h[o])
  /\ MaxDepth \in Nat \ {0}
  /\ Mutable \in BOOLEAN
  /\ MaxProps \in Nat
  /\ MaxNested \in Nat

VARIABLES heap,     \* the JavaScript objects
          frames,   \* it->frames
          pc,       \* where the innermost active next() is
          nested    \* outer calls of next() waiting in their predicate

vars == <<heap, frames, pc, nested>>

(***************************************************************************)
(* "idle": no call active; "loop": at the head of the for(;;);             *)
(* "pred": the predicate is running; "abort": an assertion failed.         *)
(***************************************************************************)
Control == {"idle", "loop", "pred", "abort"}

TypeOK ==
  /\ heap \in [Obj -> Seq(Property)]
  /\ frames \in Seq(Frame)
  /\ pc \in Control
  /\ nested \in 0..MaxNested

Init ==
  /\ heap \in Heaps
  /\ frames = << >>
  /\ pc = "idle"
  /\ nested = 0

----------------------------------------------------------------------------
(* next()                                                                  *)

\* one pass of the loop's head: push the root, or skip, or recurse
Penum ==
  IF Len(frames) = 0
    THEN Push(heap, frames, Root)
    ELSE IF Len(frames) >= MaxDepth THEN Skip(frames) ELSE Recurse(heap, frames)

\* the call returns to the program, or to the predicate it was made from
Return ==
  /\ pc' = IF nested = 0 THEN "idle" ELSE "pred"
  /\ nested' = IF nested = 0 THEN 0 ELSE nested - 1

Call ==
  /\ pc = "idle"
  /\ pc' = "loop"
  /\ UNCHANGED <<heap, frames, nested>>

\* the engine has no position left: the iterator reports done
Exhausted ==
  /\ pc = "loop"
  /\ Penum = << >>
  /\ frames' = << >>
  /\ Return
  /\ UNCHANGED heap

\* only a root without properties leaves the engine on no property
EmptyRoot ==
  /\ pc = "loop"
  /\ Penum # << >>
  /\ Len(Top(Penum).tab) = 0
  /\ frames' = Penum
  /\ UNCHANGED <<heap, pc, nested>>

\* A mutant: the predicate is asked about a root without properties too.
PositionAnywhere ==
  /\ pc = "loop"
  /\ Penum # << >>
  /\ frames' = Penum
  /\ pc' = "pred"
  /\ UNCHANGED <<heap, nested>>

Position ==
  /\ pc = "loop"
  /\ Penum # << >>
  /\ Len(Top(Penum).tab) > 0
  /\ frames' = Penum
  /\ pc' = "pred"
  /\ UNCHANGED <<heap, nested>>

\* a predicate that throws counts as one that answers false
Reject ==
  /\ pc = "pred"
  /\ pc' = "loop"
  /\ UNCHANGED <<heap, frames, nested>>

\* js_deep_return takes vector_back of the frames as they are now, which
\* asserts that there is one, and the accessors that it is on a property; the
\* path and the value returned are those of that frame
Returnable == frames # << >> /\ OnProperty(Top(frames))

Accept ==
  /\ pc = "pred"
  /\ Returnable
  /\ Return
  /\ UNCHANGED <<heap, frames>>

AcceptAborts ==
  /\ pc = "pred"
  /\ ~Returnable
  /\ pc' = "abort"
  /\ UNCHANGED <<heap, frames, nested>>

----------------------------------------------------------------------------
(* The program.                                                            *)

ProgramRuns == pc \in {"idle", "pred"}

\* the predicate itself calls next() on this iterator
NestedCall ==
  /\ pc = "pred"
  /\ nested < MaxNested
  /\ nested' = nested + 1
  /\ pc' = "loop"
  /\ UNCHANGED <<heap, frames>>

\* obj[key] = value: an existing property keeps its place in the
\* enumeration order, a new one is appended
Assign(o, k, v) ==
  /\ Mutable
  /\ ProgramRuns
  /\ \/ /\ At(heap[o], k) # {}
        /\ heap' = [heap EXCEPT ![o] =
                     [i \in DOMAIN heap[o] |->
                        IF heap[o][i].key = k THEN [key |-> k, val |-> v]
                                              ELSE heap[o][i]]]
     \/ /\ At(heap[o], k) = {}
        /\ Len(heap[o]) < MaxProps
        /\ heap' = [heap EXCEPT ![o] = Append(@, [key |-> k, val |-> v])]
  /\ UNCHANGED <<frames, pc, nested>>

\* delete obj[key]
Delete(o, k) ==
  /\ Mutable
  /\ ProgramRuns
  /\ \E i \in At(heap[o], k) :
       heap' = [heap EXCEPT ![o] =
                 SubSeq(@, 1, i - 1) \o SubSeq(@, i + 1, Len(@))]
  /\ UNCHANGED <<frames, pc, nested>>

----------------------------------------------------------------------------

Engine == Exhausted \/ EmptyRoot \/ Position

Predicate == Reject \/ Accept \/ AcceptAborts

Program ==
  \/ Call
  \/ NestedCall
  \/ \E o \in Obj, k \in Key : Delete(o, k) \/ \E v \in Value : Assign(o, k, v)

Next == Engine \/ Predicate \/ Program

Spec == Init /\ [][Next]_vars

\* The engine is straight-line C and a predicate that is called returns;
\* nothing obliges the program to call next().
FairSpec == Spec /\ WF_vars(Engine) /\ WF_vars(Predicate)

----------------------------------------------------------------------------
(* Properties.                                                             *)

\* No object is on the stack twice, whatever the program does to the objects
\* while they are walked: a cycle is cut where it closes
\* (property_enumeration_circular, and property_enumeration_check finds no
\* pair of frames).
NoRepeatedAncestor ==
  \A i, j \in DOMAIN frames : frames[i].obj = frames[j].obj => i = j

\* The accessors' assertion idx < tab_atom_len holds in every frame, except
\* in the single frame of a root without properties.
FramesOnProperties ==
  \/ \A i \in DOMAIN frames : OnProperty(frames[i])
  \/ Len(frames) = 1 /\ frames[1].tab = << >>

\* The depth asked for by MAXDEPTH_MASK is never exceeded.
DepthBounded == Len(frames) <= MaxDepth

\* next() never fails an assertion.
NoAbort == pc # "abort"

\* While a traversal is under way every move of the engine goes strictly
\* forward in document order, so that no position is visited twice and none
\* is returned to, even when objects change under it.
StrictlyForward ==
  [][ frames # << >> /\ frames' # << >> /\ frames' # frames
        => Before(PathOf(frames), PathOf(frames')) ]_vars

\* what the walk can come to: the root, the objects on the stack, and all that
\* leads on from them
Reachable ==
  LET from == {Root} \cup {frames[i].obj : i \in DOMAIN frames}
      closed(S) == \A o \in S :
                     \A i \in DOMAIN heap[o] : heap[o][i].val \in S \cup Prim
  IN  {o \in Obj : \A S \in SUBSET Obj : from \subseteq S /\ closed(S) => o \in S}

\* Every call of next() returns once no object comes into the walk any more
\* that was not in it: the program may go on moving, adding and deleting
\* properties within what is walked, and so may the predicate.  One that hangs
\* a fresh object under every position never lets the call return.
NextReturns ==
  <>[][Reachable' \subseteq Reachable]_vars => (pc = "loop" ~> pc = "idle")

\* where a stack is, as the walk described without frames sees it
PlaceOf(stack) ==
  IF stack # << >> /\ OnProperty(Top(stack)) THEN PathOf(stack) ELSE << >>

Place == PlaceOf(frames)

Walk == INSTANCE PreorderWalk WITH graph <- heap, place <- Place

\* Every move of the iterator over an unchanging heap is a move of the
\* abstract walk: document order, every simple path up to the depth limit,
\* each once.
ImplementsWalk == Walk!Walk
=============================================================================
