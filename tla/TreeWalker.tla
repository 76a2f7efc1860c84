------------------------------ MODULE TreeWalker ------------------------------
(***************************************************************************)
(* The TreeWalker of the tree_walker module (quickjs-tree-walker.c): one   *)
(* traversal stack that the program moves with nextNode(), which filters   *)
(* by type and asks a predicate, and with the navigation methods, which do *)
(* neither.  A TreeIterator is the same walker seen through next(), which  *)
(* is nextNode() under another name.                                       *)
(*                                                                         *)
(* The predicate is a JavaScript function: while it runs the program may   *)
(* call any method of the same walker, nextNode() included.  The objects   *)
(* themselves do not change here (DeepIterator has the engine of both on   *)
(* objects that do).                                                       *)
(***************************************************************************)
EXTENDS PropertyEnumeration, FiniteSets

CONSTANTS Heaps,      \* the heaps the program may start from
          Root,       \* the object given to the constructor
          Methods,    \* the methods and accessors the program uses
          Indexes,    \* the numbers it assigns to index
          IdxSize,    \* 2^32, how many values the index of a frame has
          MaxDepth,   \* bound on the depth it navigates to with the methods
          MaxCalls    \* bound on active calls of nextNode()

Masks == {"all", "object", "primitive"}

AllMethods ==
  {"nextNode", "firstChild", "lastChild", "nextSibling", "previousSibling",
   "previousNode", "parentNode", "getters", "index", "tagMask"}

\* the objects are those of JavaScript: none has two properties of one name
ASSUME WalkerAssumption ==
  /\ Root \in Obj
  /\ Heaps \subseteq [Obj -> Seq(Property)]
  /\ \A h \in Heaps : \A o \in Obj : Unique(h[o])
  /\ Methods \subseteq AllMethods
  /\ Indexes \subseteq Int
  /\ IdxSize \in Nat \ {0}
  /\ MaxDepth \in Nat
  /\ MaxCalls \in Nat

VARIABLES heap,     \* the JavaScript objects
          frames,   \* w->frames
          mask,     \* w->tag_mask
          calls,    \* the active calls of nextNode(), the innermost last
          pc        \* who runs

vars == <<heap, frames, mask, calls, pc>>

\* An active call has the mask it read when it began and, while its predicate
\* runs, the place in the vector of the frame it holds a pointer to.
CallRecord == [mask : Masks, held : Nat]

Control == {"new", "program", "next", "abort"}

TypeOK ==
  /\ heap \in [Obj -> Seq(Property)]
  /\ frames \in Seq(Frame)
  /\ mask \in Masks
  /\ calls \in Seq(CallRecord)
  /\ pc \in Control

Init ==
  /\ heap \in Heaps
  /\ frames = << >>
  /\ mask = "all"
  /\ calls = << >>
  /\ pc = "new"

\* new TreeWalker(root, mask)
New ==
  /\ pc = "new"
  /\ frames' = Push(heap, << >>, Root)
  /\ mask' \in IF "tagMask" \in Methods THEN Masks ELSE {"all"}
  /\ pc' = "program"
  /\ UNCHANGED <<heap, calls>>

Abort ==
  /\ pc' = "abort"
  /\ UNCHANGED <<heap, frames, mask, calls>>

\* The constructor of TreeIterator prepares the vector, that of TreeWalker leaves
\* it without an allocator: whether a frame can be pushed is up to dbuf_realloc.
NewAborts == pc = "new" /\ Abort

----------------------------------------------------------------------------
(* nextNode() and the iterator's next().                                   *)

Wanted(m, v) == m = "all" \/ (m = "object") = (v \in Obj)

Last(s) == s[Len(s)]

EndCall == calls' = SubSeq(calls, 1, Len(calls) - 1) /\ pc' = "program"

\* on an exhausted walker the methods answer undefined and change nothing
NextNode ==
  /\ pc = "program"
  /\ "nextNode" \in Methods
  /\ frames # << >>
  /\ Len(calls) < MaxCalls
  /\ calls' = Append(calls, [mask |-> mask, held |-> 0])
  /\ pc' = "next"
  /\ UNCHANGED <<heap, frames, mask>>

\* an assignment to index can leave the top frame on no property
Lost == frames # << >> /\ Top(frames).tab # << >> /\ ~OnProperty(Top(frames))

NextAborts == pc = "next" /\ Lost /\ Abort

NextEnds ==
  /\ pc = "next"
  /\ ~Lost
  /\ Recurse(heap, frames) = << >>
  /\ frames' = << >>
  /\ EndCall
  /\ UNCHANGED <<heap, mask>>

\* the value the loop looks at after one step of the engine
Reached == CurrentValue(heap, Top(Recurse(heap, frames)))

\* A mutant: what the mask passes over is not entered.
NextPassesBy ==
  /\ pc = "next"
  /\ ~Lost
  /\ Recurse(heap, frames) # << >>
  /\ ~Wanted(Last(calls).mask, Reached)
  /\ frames' = Skip(Recurse(heap, frames))
  /\ UNCHANGED <<heap, mask, calls, pc>>

NextPasses ==
  /\ pc = "next"
  /\ ~Lost
  /\ Recurse(heap, frames) # << >>
  /\ ~Wanted(Last(calls).mask, Reached)
  /\ frames' = Recurse(heap, frames)
  /\ UNCHANGED <<heap, mask, calls, pc>>

NextAsks ==
  /\ pc = "next"
  /\ ~Lost
  /\ Recurse(heap, frames) # << >>
  /\ Wanted(Last(calls).mask, Reached)
  /\ frames' = Recurse(heap, frames)
  /\ calls' = [calls EXCEPT ![Len(calls)].held = Len(frames')]
  /\ pc' = "program"
  /\ UNCHANGED <<heap, mask>>

\* A predicate that throws counts as one that answers false; a call without a
\* predicate is one whose predicate accepts at once.
Reject ==
  /\ pc = "program"
  /\ calls # << >>
  /\ pc' = "next"
  /\ UNCHANGED <<heap, frames, mask, calls>>

\* what a call returns: nextNode() the value, next() as the mask says
Returned == {"value", "path", "value and path"}

\* the frame the call holds was not popped meanwhile and is on a property, and for
\* a path all frames there are now are on one
Returnable(what) ==
  LET d == Last(calls).held
  IN  /\ what # "path" => d <= Len(frames) /\ OnProperty(frames[d])
      /\ what # "value" => \A i \in DOMAIN frames : OnProperty(frames[i])

Accept ==
  /\ pc = "program"
  /\ calls # << >>
  /\ \E what \in Returned : Returnable(what)
  /\ EndCall
  /\ UNCHANGED <<heap, frames, mask>>

AcceptAborts ==
  /\ pc = "program"
  /\ calls # << >>
  /\ \E what \in Returned : ~Returnable(what)
  /\ Abort

----------------------------------------------------------------------------
(* The navigation methods.                                                 *)

Uses(m) == pc = "program" /\ m \in Methods /\ frames # << >>

Navigate(stack) == frames' = stack /\ UNCHANGED <<heap, mask, calls, pc>>

\* property_enumeration_enter asserts that the current value is an object; it
\* neither looks for a cycle nor takes the frame of an empty object away again
Child == NewFrame(heap, CurrentValue(heap, Top(frames)))

Inside(m) ==
  /\ Uses(m)
  /\ Len(frames) < MaxDepth
  /\ OnProperty(Top(frames))
  /\ CurrentValue(heap, Top(frames)) \in Obj

FirstChild == Inside("firstChild") /\ Navigate(Append(frames, Child))

LastChild ==
  /\ Inside("lastChild")
  /\ ~SetPosAborts(Child, -1)
  /\ Navigate(Append(frames, SetPos(Child, -1)))

EnterAborts ==
  \/ /\ \E m \in {"firstChild", "lastChild"} : Uses(m)
     /\ ~(OnProperty(Top(frames)) /\ CurrentValue(heap, Top(frames)) \in Obj)
     /\ Abort
  \/ Inside("lastChild") /\ SetPosAborts(Child, -1) /\ Abort

NextSibling ==
  /\ Uses("nextSibling")
  /\ HasNext(Top(frames))
  /\ Navigate(Advance(frames))

\* one before the first property is the last
Previous ==
  /\ ~SetPosAborts(Top(frames), Top(frames).idx - 1)
  /\ Settable(Top(frames), Top(frames).idx - 1)
  /\ Navigate([frames EXCEPT ![Len(frames)] = SetPos(@, @.idx - 1)])

\* the value of the frame below is returned: PathLeadsToNode has it readable
Parent == Navigate(Pop(frames))

PreviousSibling == Uses("previousSibling") /\ Previous

ParentNode == Uses("parentNode") /\ Parent

PreviousNode ==
  /\ Uses("previousNode")
  /\ \/ Top(frames).idx = 0 /\ Parent
     \/ Top(frames).idx # 0 /\ Previous

PreviousAborts ==
  /\ Uses("previousSibling")
  /\ SetPosAborts(Top(frames), Top(frames).idx - 1)
  /\ Abort

----------------------------------------------------------------------------
(* The accessors.                                                          *)

\* 2^64 % n, the width of size_t: 65536 squared twice
WordMod(n) ==
  LET square(x) == (x * x) % n
  IN  square(square(65536 % n))

\* index % length + length is computed in size_t, where a negative index has
\* become 2^64 + index; what is stored is a uint32_t
Stored(i, n) ==
  IF i >= 0 THEN i % IdxSize ELSE ((WordMod(n) + n - ((-i) % n)) % n) + n

\* A mutant: vector_front for vector_back.
SetIndexFront(i) ==
  /\ Uses("index")
  /\ i < 0 => Top(frames).tab # << >>
  /\ Navigate([frames EXCEPT ![1].idx = Stored(i, Len(Top(frames).tab))])

SetIndex(i) ==
  /\ Uses("index")
  /\ i < 0 => Top(frames).tab # << >>
  /\ Navigate([frames EXCEPT ![Len(frames)].idx = Stored(i, Len(Top(frames).tab))])

SetMask(m) ==
  /\ Uses("tagMask")
  /\ mask' = m
  /\ UNCHANGED <<heap, frames, calls, pc>>

\* Every accessor takes vector_back first, which asserts that there is a
\* frame; currentNode, currentKey and currentPath assert that frames are on
\* properties; a negative index is divided by the number of properties.
AccessAborts ==
  /\ pc = "program"
  /\ \/ /\ Methods \cap {"getters", "index", "tagMask"} # {}
        /\ frames = << >>
     \/ /\ "getters" \in Methods
        /\ \E i \in DOMAIN frames : ~OnProperty(frames[i])
     \/ /\ Uses("index")
        /\ Top(frames).tab = << >>
        /\ \E i \in Indexes : i < 0
  /\ Abort

----------------------------------------------------------------------------

Engine == NextAborts \/ NextEnds \/ NextPasses \/ NextAsks

Predicate == Reject \/ Accept \/ AcceptAborts

Program ==
  \/ New \/ NewAborts
  \/ NextNode
  \/ FirstChild \/ LastChild \/ EnterAborts
  \/ NextSibling \/ PreviousSibling \/ ParentNode \/ PreviousNode \/ PreviousAborts
  \/ \E i \in Indexes : SetIndex(i)
  \/ \E m \in Masks : SetMask(m)
  \/ AccessAborts

Next == Engine \/ Predicate \/ Program

Spec == Init /\ [][Next]_vars

\* The engine is straight-line C; nothing else is obliged to happen.
FairSpec == Spec /\ WF_vars(Engine)

----------------------------------------------------------------------------
(* Properties.                                                             *)

\* currentPath is an address: followed from the root it leads through every
\* frame of the stack to the current node, however the program mixes
\* nextNode, the navigation methods and assignments to index, and whatever a
\* predicate does to the walker it is asked by.  Every frame below the top is
\* on a property, which the pops of nextNode and parentNode rely on.
PathLeadsToNode ==
  /\ frames # << >> => frames[1].obj = Root
  /\ \A i \in 1..(Len(frames) - 1) :
       /\ OnProperty(frames[i])
       /\ frames[i + 1].obj = CurrentValue(heap, frames[i])

\* where the walker is, as the walk described without frames sees it
Place == IF frames # << >> /\ OnProperty(Top(frames)) THEN PathOf(frames) ELSE << >>

Walk == INSTANCE PreorderWalk WITH
          graph <- heap,
          place <- Place,
          MaxDepth <- Cardinality(Obj)

\* From wherever on a simple path the navigation methods, an assignment to
\* index or a predicate have left the walker, nextNode moves over the very next
\* simple path in document order, or off the end: what its mask passes over is
\* entered all the same.
NextInOrder ==
  [][pc = "next" /\ Place \in Walk!Positions(heap) => Walk!Step]_<<heap, Place>>

\* nextNode stops looking, whatever its mask passes over and wherever in a
\* cyclic graph the navigation methods have taken the walker.
NextNodeStops == pc = "next" ~> pc # "next"
=============================================================================
