------------------------------ MODULE TreeHandles ------------------------------
(***************************************************************************)
(* The lifetime of the walker that TreeWalker and TreeIterator objects     *)
(* share (quickjs-tree-walker.c).  Each JavaScript object points to the    *)
(* walker as its opaque value; ref_count says how many do, and the         *)
(* finalizer that brings it to zero frees the walker.  The garbage         *)
(* collector finalizes objects the program has dropped, in any order.      *)
(***************************************************************************)
EXTENDS Integers, FiniteSets

CONSTANTS Handle,   \* the JavaScript objects there may ever be
          Word      \* 2^32, the values of ref_count

ASSUME HandleAssumption ==
  /\ IsFiniteSet(Handle)
  /\ Word \in Nat /\ Cardinality(Handle) < Word

VARIABLES state,       \* state[h]: what has become of the object h
          ref_count,   \* w->ref_count
          walker,      \* the memory of the walker
          maker        \* the constructor that allocated it (history)

vars == <<state, ref_count, walker, maker>>

TypeOK ==
  /\ state \in [Handle -> {"none", "held", "dropped", "finalized"}]
  /\ ref_count \in 0..(Word - 1)
  /\ walker \in {"none", "live", "freed", "corrupt"}
  /\ maker \in {"none", "walker", "iterator"}

Init ==
  /\ state = [h \in Handle |-> "none"]
  /\ ref_count = 0
  /\ walker = "none"
  /\ maker = "none"

\* the objects that point to the walker
Pointing == {h \in Handle : state[h] \in {"held", "dropped"}}

\* new TreeWalker() sets ref_count to 1
NewWalker(h) ==
  /\ walker = "none"
  /\ state' = [state EXCEPT ![h] = "held"]
  /\ ref_count' = 1
  /\ walker' = "live"
  /\ maker' = "walker"

\* new TreeIterator() leaves ref_count as js_mallocz made it
NewIterator(h) ==
  /\ walker = "none"
  /\ state' = [state EXCEPT ![h] = "held"]
  /\ ref_count' = 0
  /\ walker' = "live"
  /\ maker' = "iterator"

\* anything done to memory that is not the walker's any more
Misuse == walker' = "corrupt" /\ UNCHANGED <<state, ref_count, maker>>

\* A mutant: the walker is shared without counting.
IterateUncounted(h) ==
  /\ \E g \in Handle : state[g] = "held"
  /\ state[h] = "none"
  /\ \/ /\ walker = "live"
        /\ state' = [state EXCEPT ![h] = "held"]
        /\ UNCHANGED <<ref_count, walker, maker>>
     \/ walker = "freed" /\ Misuse

\* [Symbol.iterator](): a new object on the walker of the one it is called on
Iterate(h) ==
  /\ \E g \in Handle : state[g] = "held"
  /\ state[h] = "none"
  /\ \/ /\ walker = "live"
        /\ state' = [state EXCEPT ![h] = "held"]
        /\ ref_count' = (ref_count + 1) % Word
        /\ UNCHANGED <<walker, maker>>
     \/ walker = "freed" /\ Misuse

\* the program loses its last reference to an object, as a for-of loop does
\* with its iterator
Drop(h) ==
  /\ state[h] = "held"
  /\ state' = [state EXCEPT ![h] = "dropped"]
  /\ UNCHANGED <<ref_count, walker, maker>>

\* js_tree_walker_finalizer and js_tree_iterator_finalizer; unsigned
Finalize(h) ==
  /\ state[h] = "dropped"
  /\ \/ /\ walker = "live"
        /\ state' = [state EXCEPT ![h] = "finalized"]
        /\ ref_count' = (ref_count - 1) % Word
        /\ walker' = IF ref_count' = 0 THEN "freed" ELSE "live"
        /\ UNCHANGED maker
     \/ walker = "freed" /\ Misuse

Next == \E h \in Handle : NewWalker(h) \/ NewIterator(h) \/ Iterate(h) \/ Drop(h) \/ Finalize(h)

Spec == Init /\ [][Next]_vars

----------------------------------------------------------------------------
(* Properties.                                                             *)

\* The walker is there as long as an object points to it, whatever order the
\* collector takes them in, so that no method and no finalizer touches freed
\* memory.
NoUseAfterFree == Pointing # {} => walker = "live"

\* A walker made by new TreeWalker() is there as long as an object points to it
\* and not longer, in whatever order the program shares it, drops the objects
\* and the collector finalizes them.
LivesWithItsObjects == maker = "walker" => (walker = "live" <=> Pointing # {})
=============================================================================
