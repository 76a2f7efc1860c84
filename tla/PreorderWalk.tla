----------------------------- MODULE PreorderWalk -----------------------------
(***************************************************************************)
(* What a traversal of an object graph promises: it visits the simple      *)
(* paths from the root, cut at the depth limit, in document order, each    *)
(* once, and then stops.  Nothing is said of frames, snapshots or stacks.  *)
(***************************************************************************)
EXTENDS PropertyEnumeration

CONSTANTS Root, MaxDepth

VARIABLES graph,   \* the heap being walked
          place    \* the path of the current position, << >> between walks

walkvars == <<graph, place>>

\* os are the objects along p: p leads from the root through objects, over
\* properties they have
Leads(h, p, os) ==
  /\ os[1] = Root
  /\ \A i \in DOMAIN p :
       /\ i > 1 => os[i] = h[os[i - 1]][p[i - 1] + 1].val
       /\ p[i] < Len(h[os[i]])

\* and back to none of them
SimplePath(h, p) ==
  \E os \in [DOMAIN p -> Obj] :
    /\ Leads(h, p, os)
    /\ \A i, j \in DOMAIN p : os[i] = os[j] => i = j

Offsets(h) == UNION {0..(Len(h[o]) - 1) : o \in Obj}

\* all the positions of the walk
Positions(h) ==
  {p \in UNION {[1..d -> Offsets(h)] : d \in 1..MaxDepth} : SimplePath(h, p)}

Later(h, p) == {q \in Positions(h) : Before(p, q)}

Start == place = << >>

\* to the first position after this one; from << >>, to the first of all
Visit ==
  /\ \E q \in Later(graph, place) :
       /\ \A r \in Later(graph, place) : r = q \/ Before(q, r)
       /\ place' = q
  /\ UNCHANGED graph

Finish ==
  /\ place # << >>
  /\ Later(graph, place) = {}
  /\ place' = << >>
  /\ UNCHANGED graph

Step == Visit \/ Finish

Walk == Start /\ [][Step]_walkvars
=============================================================================
