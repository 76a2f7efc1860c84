--------------------------- MODULE TreeWalkerProofs ---------------------------
(***************************************************************************)
(* Proofs about TreeWalker for every set of objects, every heap, every set *)
(* of methods in use and every bound: whatever the program mixes, the      *)
(* stack is an address in the graph, and from every simple path nextNode() *)
(* goes to the next one.  The first is proved from lemmas on the shape of  *)
(* a stack, the second from those of DeepIteratorProofs: inside nextNode() *)
(* the walker is an iterator.                                              *)
(***************************************************************************)
EXTENDS TreeWalker, SequenceTheorems, FiniteSetTheorems, WellFoundedInduction, TLAPS

\* A set of natural numbers that has a member has a least one.
LEMMA LeastNatural ==
  ASSUME NEW S \in SUBSET Nat, S # {}
  PROVE  \E m \in S : \A k \in S : m <= k
<1> DEFINE R == {ss \in Nat \X Nat : ss[1] < ss[2]}
<1>1. IsWellFoundedOn(R, Nat)
  BY NatLessThanWellFounded DEF OpToRel
<1> HIDE DEF R
<1>2. PICK m \in S : \A k \in S : ~(<<k, m>> \in R)
  BY <1>1, WFMin
<1>3. \A k \in S : ~(k < m)
  BY <1>2 DEF R
<1> QED
  BY <1>3

\* A set of depths that has a member has a greatest one, so that the CHOOSE
\* in PopAdvance finds the frame where the loop of pops stops.
LEMMA GreatestDepth ==
  ASSUME NEW n \in Int, NEW S \in SUBSET (1..n), S # {}
  PROVE  \E m \in S : \A k \in S : k <= m
<1>1. PICK s \in S : TRUE
  OBVIOUS
<1> DEFINE T == {t \in Nat : n - t \in S}
<1>2. n - s \in T
  <2>1. s \in 1..n
    OBVIOUS
  <2>2. n - s \in Nat /\ n - (n - s) = s
    BY <2>1
  <2> QED
    BY <2>2
<1>3. PICK t \in T : \A u \in T : t <= u
  BY <1>2, LeastNatural
<1>4. ASSUME NEW k \in S
      PROVE  k <= n - t
  <2>1. k \in 1..n
    OBVIOUS
  <2>2. n - k \in Nat /\ n - (n - k) = k
    BY <2>1
  <2>3. n - k \in T
    BY <2>2
  <2>4. t <= n - k
    BY <1>3, <2>3
  <2> QED
    BY <2>1, <2>2, <2>4
<1> QED
  BY <1>3, <1>4

\* A frame pushed for an object holds that object and is well formed.
LEMMA NewFrameIsFrame ==
  ASSUME NEW h \in [Obj -> Seq(Property)], NEW o \in Obj
  PROVE  /\ NewFrame(h, o) \in Frame
         /\ NewFrame(h, o).obj = o
         /\ NewFrame(h, o).idx = 0
         /\ NewFrame(h, o).tab = Names(h[o])
         /\ Len(NewFrame(h, o).tab) = Len(h[o])
<1>1. h[o] \in Seq(Property)
  OBVIOUS
<1>2. /\ Len(h[o]) \in Nat
      /\ DOMAIN h[o] = 1..Len(h[o])
      /\ \A i \in 1..Len(h[o]) : h[o][i] \in Property
  BY <1>1, LenProperties, ElementOfSeq
<1>3. \A i \in 1..Len(h[o]) : h[o][i].key \in Key
  BY <1>2 DEF Property
<1>4. Names(h[o]) \in [1..Len(h[o]) -> Key]
  BY <1>2, <1>3 DEF Names
<1>5. Names(h[o]) \in Seq(Key) /\ Len(Names(h[o])) = Len(h[o])
  BY <1>2, <1>4
<1> QED
  BY <1>5 DEF NewFrame, Frame

\* Moving the top frame on keeps everything but its index, which stays inside
\* the snapshot.
LEMMA AdvanceShape ==
  ASSUME NEW stack \in Seq(Frame), stack # << >>, HasNext(Top(stack))
  PROVE  /\ Advance(stack) \in Seq(Frame)
         /\ Len(Advance(stack)) = Len(stack)
         /\ DOMAIN Advance(stack) = 1..Len(stack)
         /\ \A i \in 1..Len(stack) : /\ Advance(stack)[i].obj = stack[i].obj
                                     /\ Advance(stack)[i].tab = stack[i].tab
         /\ \A i \in 1..(Len(stack) - 1) : Advance(stack)[i] = stack[i]
         /\ Advance(stack)[Len(stack)].idx = stack[Len(stack)].idx + 1
         /\ OnProperty(Advance(stack)[Len(stack)])
<1> DEFINE n == Len(stack)
           it == stack[n]
           moved == SetPos(it, it.idx + 1)
<1>1. n \in Nat /\ n \in 1..n /\ DOMAIN stack = 1..n
  BY EmptySeq, LenProperties
<1>2. it \in Frame
  BY <1>1, ElementOfSeq
<1>3. it.idx \in Nat /\ it.obj \in Obj /\ it.tab \in Seq(Key)
  BY <1>2 DEF Frame
<1>4. Target(it, it.idx + 1) = it.idx + 1
  BY <1>3 DEF Target
<1>5. moved = [it EXCEPT !.idx = it.idx + 1]
  BY <1>4 DEF SetPos
<1>6. moved \in Frame /\ moved.obj = it.obj /\ moved.tab = it.tab /\ moved.idx = it.idx + 1
  BY <1>2, <1>3, <1>5 DEF Frame
<1>7. Advance(stack) = [stack EXCEPT ![n] = moved]
  BY <1>1 DEF Advance
<1>8. it.idx + 1 < Len(it.tab)
  BY <1>4 DEF HasNext, Settable, Top
<1>9. OnProperty(moved)
  BY <1>6, <1>8 DEF OnProperty
<1> HIDE DEF moved, it
<1>10. /\ Advance(stack) \in Seq(Frame)
       /\ Len(Advance(stack)) = n
       /\ \A j \in 1..n : Advance(stack)[j] = IF j = n THEN moved ELSE stack[j]
  BY <1>1, <1>6, <1>7, ExceptSeq
<1>11. DOMAIN Advance(stack) = 1..n
  BY <1>10, LenProperties
<1>12. \A i \in 1..n : /\ Advance(stack)[i].obj = stack[i].obj
                      /\ Advance(stack)[i].tab = stack[i].tab
  BY <1>6, <1>10 DEF it
<1>13. \A i \in 1..(n - 1) : Advance(stack)[i] = stack[i]
  <2> TAKE i \in 1..(n - 1)
  <2>1. n \in Nat
    OBVIOUS
  <2>2. i \in 1..n /\ i # n
    BY <2>1
  <2> QED
    BY <1>10, <2>2
<1>14. Advance(stack)[n] = moved
  BY <1>1, <1>10
<1>15. moved.idx = stack[n].idx + 1
  BY <1>6 DEF it
<1> QED
  BY <1>9, <1>10, <1>11, <1>12, <1>13, <1>14, <1>15

\* Popping ends on an empty stack or on a frame below the top that has a
\* property left, and moves that frame on.
LEMMA PopAdvanceShape ==
  ASSUME NEW stack \in Seq(Frame),
         PopAdvance(stack) # << >>
  PROVE  \E d \in 1..(Len(stack) - 1) :
           /\ HasNext(stack[d])
           /\ PopAdvance(stack) = Advance(SubSeq(stack, 1, d))
<1> DEFINE open == {d \in 1..(Len(stack) - 1) : HasNext(stack[d])}
<1>1. Len(stack) \in Nat
  OBVIOUS
<1>2. open # {}
  BY DEF PopAdvance
<1>3. \E d \in open : \A e \in open : e <= d
  <2>1. open \in SUBSET (1..(Len(stack) - 1)) /\ Len(stack) - 1 \in Int
    BY <1>1
  <2> HIDE DEF open
  <2> QED
    BY <1>2, <2>1, GreatestDepth
<1> DEFINE d == CHOOSE d \in open : \A e \in open : e <= d
<1>4. d \in open
  BY <1>3
<1>5. PopAdvance(stack) = Advance(SubSeq(stack, 1, d))
  BY <1>2 DEF PopAdvance
<1> QED
  BY <1>4, <1>5

\* A prefix of the stack is a stack.
LEMMA PrefixShape ==
  ASSUME NEW stack \in Seq(Frame), NEW d \in 1..(Len(stack) - 1)
  PROVE  /\ SubSeq(stack, 1, d) \in Seq(Frame)
         /\ SubSeq(stack, 1, d) # << >>
         /\ Len(SubSeq(stack, 1, d)) = d
         /\ DOMAIN SubSeq(stack, 1, d) = 1..d
         /\ \A i \in 1..d : SubSeq(stack, 1, d)[i] = stack[i]
         /\ Top(SubSeq(stack, 1, d)) = stack[d]
<1>1. d \in Nat \ {0} /\ \A i \in 1..d : stack[i] \in Frame
  BY ElementOfSeq
<1>2. /\ SubSeq(stack, 1, d) \in Seq(Frame)
      /\ Len(SubSeq(stack, 1, d)) = d
      /\ \A i \in 1..d : SubSeq(stack, 1, d)[i] = stack[i]
  BY <1>1, SubSeqProperties
<1> QED
  BY <1>1, <1>2, LenProperties, EmptySeq DEF Top

----------------------------------------------------------------------------
(* Stacks that are addresses.                                              *)

\* the stack leads from the root through the current values of its frames,
\* whose lists of names are those of their objects
Linked(h, stack) ==
  /\ stack # << >> => stack[1].obj = Root
  /\ \A i \in 1..Len(stack) : stack[i].tab = Names(h[stack[i].obj])
  /\ \A i \in 1..(Len(stack) - 1) :
       /\ OnProperty(stack[i])
       /\ stack[i + 1].obj = CurrentValue(h, stack[i])

Address(h, stack) == stack \in Seq(Frame) /\ Linked(h, stack)

\* No frames are an address: the walk is over.
LEMMA EmptyIsAddress ==
  ASSUME NEW h
  PROVE  Address(h, << >>)
BY DEF Address, Linked

\* Moving the top frame to another index, wherever that is, keeps the address
\* of the object it is in.
LEMMA TopMayMove ==
  ASSUME NEW h, NEW stack \in Seq(Frame), Linked(h, stack), stack # << >>,
         NEW next \in Seq(Frame), Len(next) = Len(stack),
         \A i \in 1..(Len(stack) - 1) : next[i] = stack[i],
         next[Len(stack)].obj = stack[Len(stack)].obj,
         next[Len(stack)].tab = stack[Len(stack)].tab
  PROVE  Address(h, next)
<1> DEFINE n == Len(stack)
<1>1. n \in Nat \ {0}
  BY EmptySeq
<1>2. \A i \in 1..n : next[i].obj = stack[i].obj /\ next[i].tab = stack[i].tab
  <2> TAKE i \in 1..n
  <2>1. CASE i = n
    BY <2>1
  <2>2. CASE i # n
    <3>1. i \in 1..(n - 1)
      BY <1>1, <2>2
    <3> QED
      BY <3>1
  <2> QED
    BY <2>1, <2>2
<1>3. next[1].obj = Root
  BY <1>1, <1>2 DEF Linked
<1>4. ASSUME NEW i \in 1..(n - 1)
      PROVE  OnProperty(next[i]) /\ next[i + 1].obj = CurrentValue(h, next[i])
  <2>1. i + 1 \in 1..n
    BY <1>1
  <2>2. OnProperty(stack[i]) /\ stack[i + 1].obj = CurrentValue(h, stack[i])
    BY DEF Linked
  <2> QED
    BY <1>2, <2>1, <2>2
<1>5. \A i \in 1..n : next[i].tab = Names(h[next[i].obj])
  BY <1>2 DEF Linked
<1> QED
  BY <1>3, <1>4, <1>5 DEF Address, Linked

\* What is left after frames are popped is an address.
LEMMA PrefixIsAddress ==
  ASSUME NEW h, NEW stack \in Seq(Frame), Linked(h, stack),
         NEW d \in 1..(Len(stack) - 1)
  PROVE  Address(h, SubSeq(stack, 1, d))
<1> DEFINE low == SubSeq(stack, 1, d)
<1>1. /\ low \in Seq(Frame) /\ low # << >> /\ Len(low) = d
      /\ \A i \in 1..d : low[i] = stack[i]
  BY PrefixShape
<1> HIDE DEF low
<1>2. Len(stack) \in Nat
  OBVIOUS
<1>3. stack # << >>
  BY <1>2, EmptySeq
<1>4. low[1].obj = Root
  BY <1>1, <1>3 DEF Linked
<1>5. ASSUME NEW i \in 1..(d - 1)
      PROVE  OnProperty(low[i]) /\ low[i + 1].obj = CurrentValue(h, low[i])
  <2>1. i \in 1..d /\ i + 1 \in 1..d /\ i \in 1..(Len(stack) - 1)
    BY <1>2
  <2>2. OnProperty(stack[i]) /\ stack[i + 1].obj = CurrentValue(h, stack[i])
    BY <2>1 DEF Linked
  <2> QED
    BY <1>1, <2>1, <2>2
<1>6. \A i \in 1..d : low[i].tab = Names(h[low[i].obj])
  <2>1. \A i \in 1..d : i \in 1..Len(stack)
    BY <1>2
  <2> QED
    BY <1>1, <2>1 DEF Linked
<1>7. Address(h, low)
  BY <1>1, <1>4, <1>5, <1>6 DEF Address, Linked
<1> QED
  BY <1>7 DEF low

\* Entering the current value extends the address, whether or not the object
\* is on the stack already.
LEMMA EnteringExtends ==
  ASSUME NEW h, NEW stack \in Seq(Frame), Linked(h, stack), stack # << >>,
         OnProperty(Top(stack)),
         NEW child \in Frame, child.obj = CurrentValue(h, Top(stack)),
         child.tab = Names(h[child.obj])
  PROVE  Address(h, Append(stack, child))
<1> DEFINE n == Len(stack)
           inner == Append(stack, child)
<1>1. n \in Nat \ {0}
  BY EmptySeq
<1>2. /\ inner \in Seq(Frame) /\ Len(inner) = n + 1
      /\ \A i \in 1..n : inner[i] = stack[i]
      /\ inner[n + 1] = child
  BY AppendProperties
<1> HIDE DEF inner
<1>3. inner[1].obj = Root
  BY <1>1, <1>2 DEF Linked
<1>4. ASSUME NEW i \in 1..n
      PROVE  OnProperty(inner[i]) /\ inner[i + 1].obj = CurrentValue(h, inner[i])
  <2>1. CASE i = n
    BY <1>2, <2>1 DEF Top
  <2>2. CASE i # n
    <3>1. i \in 1..(n - 1) /\ i + 1 \in 1..n
      BY <1>1, <2>2
    <3>2. OnProperty(stack[i]) /\ stack[i + 1].obj = CurrentValue(h, stack[i])
      BY <3>1 DEF Linked
    <3> QED
      BY <1>2, <3>1, <3>2
  <2> QED
    BY <2>1, <2>2
<1>5. \A i \in 1..(n + 1) : inner[i].tab = Names(h[inner[i].obj])
  <2> TAKE i \in 1..(n + 1)
  <2>1. i = n + 1 \/ i \in 1..n
    BY <1>1
  <2> QED
    BY <1>2, <2>1 DEF Linked
<1>6. Address(h, inner)
  BY <1>1, <1>2, <1>3, <1>4, <1>5 DEF Address, Linked
<1> QED
  BY <1>6 DEF inner

\* property_enumeration_setpos(it, it->idx + 1) where it succeeds.
LEMMA AdvanceIsAddress ==
  ASSUME NEW h, NEW stack \in Seq(Frame), Linked(h, stack), stack # << >>,
         HasNext(Top(stack))
  PROVE  Address(h, Advance(stack))
<1>1. /\ Advance(stack) \in Seq(Frame)
      /\ Len(Advance(stack)) = Len(stack)
      /\ \A i \in 1..(Len(stack) - 1) : Advance(stack)[i] = stack[i]
      /\ \A i \in 1..Len(stack) : /\ Advance(stack)[i].obj = stack[i].obj
                                  /\ Advance(stack)[i].tab = stack[i].tab
  BY AdvanceShape
<1>2. Len(stack) \in 1..Len(stack)
  BY EmptySeq
<1> QED
  BY <1>1, <1>2, TopMayMove

\* The loop of pops.
LEMMA PopAdvanceIsAddress ==
  ASSUME NEW h, NEW stack \in Seq(Frame), Linked(h, stack)
  PROVE  Address(h, PopAdvance(stack))
<1>1. CASE PopAdvance(stack) = << >>
  BY <1>1, EmptyIsAddress
<1>2. CASE PopAdvance(stack) # << >>
  <2>1. PICK d \in 1..(Len(stack) - 1) :
           /\ HasNext(stack[d])
           /\ PopAdvance(stack) = Advance(SubSeq(stack, 1, d))
    BY <1>2, PopAdvanceShape
  <2> DEFINE low == SubSeq(stack, 1, d)
  <2>2. low # << >> /\ HasNext(Top(low))
    BY <2>1, PrefixShape
  <2>3. low \in Seq(Frame) /\ Linked(h, low)
    BY PrefixIsAddress DEF Address
  <2> HIDE DEF low
  <2>4. Address(h, Advance(low))
    BY <2>2, <2>3, AdvanceIsAddress
  <2> QED
    BY <2>1, <2>4 DEF low
<1> QED
  BY <1>1, <1>2

\* property_enumeration_skip.
LEMMA SkipIsAddress ==
  ASSUME NEW h, NEW stack \in Seq(Frame), Linked(h, stack)
  PROVE  Address(h, Skip(stack))
BY AdvanceIsAddress, PopAdvanceIsAddress DEF Skip

\* property_enumeration_recurse.
LEMMA RecurseIsAddress ==
  ASSUME NEW h \in [Obj -> Seq(Property)], NEW stack \in Seq(Frame), Linked(h, stack)
  PROVE  Address(h, Recurse(h, stack))
<1>1. CASE ~Enterable(h, stack)
  BY <1>1, SkipIsAddress DEF Recurse
<1>2. CASE Enterable(h, stack)
  <2> DEFINE child == NewFrame(h, CurrentValue(h, Top(stack)))
             inner == Append(stack, child)
  <2>1. stack # << >> /\ OnProperty(Top(stack)) /\ CurrentValue(h, Top(stack)) \in Obj
    BY <1>2 DEF Enterable
  <2>2. /\ child \in Frame /\ child.obj = CurrentValue(h, Top(stack))
        /\ child.tab = Names(h[child.obj])
    BY <2>1, NewFrameIsFrame
  <2>3. Recurse(h, stack) = inner \/ Recurse(h, stack) = PopAdvance(inner)
    BY <1>2 DEF Recurse, Push
  <2> HIDE DEF child
  <2>4. Address(h, inner)
    BY <2>1, <2>2, EnteringExtends
  <2> HIDE DEF inner
  <2>5. Address(h, PopAdvance(inner))
    BY <2>4, PopAdvanceIsAddress DEF Address
  <2> QED
    BY <2>3, <2>4, <2>5
<1> QED
  BY <1>1, <1>2

\* parentNode pops one frame; on the root's it ends the walk.
LEMMA PopIsAddress ==
  ASSUME NEW h, NEW stack \in Seq(Frame), Linked(h, stack), stack # << >>
  PROVE  Address(h, Pop(stack))
<1>1. Len(stack) \in Nat \ {0}
  BY EmptySeq
<1>2. CASE Len(stack) = 1
  <2>1. Pop(stack) = << >>
    BY <1>2, SubSeqEmpty DEF Pop
  <2> QED
    BY <2>1, EmptyIsAddress
<1>3. CASE Len(stack) # 1
  <2>1. \A n \in Nat \ {0} : n # 1 => n - 1 \in 1..(n - 1)
    OBVIOUS
  <2>2. Len(stack) - 1 \in 1..(Len(stack) - 1)
    BY <1>1, <1>3, <2>1
  <2> QED
    BY <2>2, PrefixIsAddress DEF Pop
<1> QED
  BY <1>2, <1>3

\* Any frame of the same object may take the place of the top one.
LEMMA TopReplaced ==
  ASSUME NEW h, NEW stack \in Seq(Frame), Linked(h, stack), stack # << >>,
         NEW it \in Frame, it.obj = Top(stack).obj, it.tab = Top(stack).tab
  PROVE  Address(h, [stack EXCEPT ![Len(stack)] = it])
<1> DEFINE n == Len(stack)
           next == [stack EXCEPT ![n] = it]
<1>1. n \in Nat \ {0} /\ n \in 1..n
  BY EmptySeq
<1>2. /\ next \in Seq(Frame) /\ Len(next) = n
      /\ \A j \in 1..n : next[j] = IF j = n THEN it ELSE stack[j]
  BY <1>1, ExceptSeq
<1> HIDE DEF next
<1>3. next[n].obj = stack[n].obj /\ next[n].tab = stack[n].tab
  BY <1>1, <1>2 DEF Top
<1>4. \A i \in 1..(n - 1) : next[i] = stack[i]
  BY <1>1, <1>2
<1>5. Address(h, next)
  BY <1>2, <1>3, <1>4, TopMayMove
<1> QED
  BY <1>5 DEF next

\* setpos to a place that is not before the first property.
LEMMA SetPosIsFrame ==
  ASSUME NEW it \in Frame, NEW i \in Int, ~SetPosAborts(it, i)
  PROVE  SetPos(it, i) \in Frame /\ SetPos(it, i).obj = it.obj /\ SetPos(it, i).tab = it.tab
<1>1. it.obj \in Obj /\ it.tab \in Seq(Key) /\ it.idx \in Nat
  BY DEF Frame
<1>2. Target(it, i) \in Nat
  <2>1. Target(it, i) \in Int
    BY <1>1, LenProperties DEF Target
  <2> QED
    BY <2>1 DEF SetPosAborts
<1>3. SetPos(it, i) = [it EXCEPT !.idx = Target(it, i)]
  BY DEF SetPos
<1> QED
  BY <1>1, <1>2, <1>3 DEF Frame

\* A remainder is a number of the divisor's residues.
LEMMA Remainder ==
  ASSUME NEW a \in Int, NEW n \in Nat \ {0}
  PROVE  a % n \in Nat /\ a % n < n
OBVIOUS

\* What the setter of index stores is a place after the front of the list: the
\* wrapped sum of a negative index is not negative.
LEMMA StoredIsNatural ==
  ASSUME NEW i \in Int, NEW n \in Nat, i < 0 => n # 0
  PROVE  Stored(i, n) \in Nat
<1>1. CASE i >= 0
  <2>1. i % IdxSize \in Nat
    BY WalkerAssumption, Remainder
  <2> QED
    BY <1>1, <2>1 DEF Stored
<1>2. CASE i < 0
  <2> DEFINE square(x) == (x * x) % n
  <2>1. n \in Nat \ {0}
    BY <1>2
  <2>2. \A x \in Int : square(x) \in Int
    BY <2>1, Remainder
  <2>3. 65536 % n \in Int
    BY <2>1, Remainder
  <2>4. square(square(65536 % n)) \in Int
    <3> HIDE DEF square
    <3> QED
      BY <2>2, <2>3
  <2>5. WordMod(n) \in Int
    BY <2>4 DEF WordMod
  <2>6. -i \in Int /\ (-i) % n \in Int
    BY <2>1, Remainder
  <2>7. WordMod(n) + n - ((-i) % n) \in Int
    BY <2>1, <2>5, <2>6
  <2>8. (WordMod(n) + n - ((-i) % n)) % n \in Nat
    BY <2>1, <2>7, Remainder
  <2> QED
    BY <1>2, <2>1, <2>8 DEF Stored
<1> QED
  BY <1>1, <1>2

----------------------------------------------------------------------------
(* The invariant of the walker.                                            *)

(***************************************************************************)
(* PathLeadsToNode is inductive together with the types: each step changes *)
(* the top frame's index, pops, or enters the current value, and the heap  *)
(* does not change.  Called says that the engine runs for some call.       *)
(***************************************************************************)
Called == pc = "next" => calls # << >>

Snapshots ==
  /\ heap \in Heaps
  /\ \A i \in 1..Len(frames) : frames[i].tab = Names(heap[frames[i].obj])

IInv == TypeOK /\ PathLeadsToNode /\ Called /\ Snapshots

LEMMA InvariantStack ==
  ASSUME IInv
  PROVE  /\ heap \in [Obj -> Seq(Property)]
         /\ frames \in Seq(Frame)
         /\ Linked(heap, frames)
         /\ frames # << >> => Top(frames) \in Frame
<1>1. frames \in Seq(Frame)
  BY DEF IInv, TypeOK
<1>2. frames # << >> => Len(frames) \in 1..Len(frames)
  BY <1>1, EmptySeq
<1>3. frames # << >> => Top(frames) \in Frame
  BY <1>1, <1>2, ElementOfSeq DEF Top
<1> QED
  BY <1>1, <1>3 DEF IInv, TypeOK, PathLeadsToNode, Linked, Snapshots

\* The invariant of the next state, from the stack it has.
LEMMA AddressSuffices ==
  ASSUME IInv, heap' = heap, Address(heap, frames'),
         mask' \in Masks, calls' \in Seq(CallRecord), pc' \in Control,
         pc' = "next" => calls' # << >>
  PROVE  IInv'
<1>1. heap' \in [Obj -> Seq(Property)]
  BY DEF IInv, TypeOK
<1>2. TypeOK'
  BY <1>1 DEF TypeOK, Address
<1>3. PathLeadsToNode' /\ Snapshots'
  BY DEF PathLeadsToNode, Address, Linked, IInv, Snapshots
<1> QED
  BY <1>2, <1>3 DEF IInv, Called

\* A step that navigates leaves an address behind if it goes to one.
LEMMA NavigateKeeps ==
  ASSUME IInv, NEW stack, Navigate(stack), Address(heap, stack)
  PROVE  IInv'
BY AddressSuffices DEF Navigate, IInv, TypeOK, Called

\* The invariant holds before the constructor.
LEMMA InitIInv == Init => IInv
<1> SUFFICES ASSUME Init PROVE IInv
  OBVIOUS
<1>1. heap \in [Obj -> Seq(Property)] /\ frames = << >> /\ mask = "all"
      /\ calls = << >> /\ pc = "new" /\ heap \in Heaps
  BY WalkerAssumption DEF Init
<1> QED
  BY <1>1 DEF IInv, TypeOK, Masks, Control, PathLeadsToNode, Called, Snapshots

\* new TreeWalker(root) puts the root's frame on the stack.
LEMMA NewKeeps == IInv /\ New => IInv'
<1> SUFFICES ASSUME IInv, New PROVE IInv'
  OBVIOUS
<1> DEFINE root == NewFrame(heap, Root)
<1>1. root \in Frame /\ root.obj = Root /\ root.tab = Names(heap[Root])
  BY InvariantStack, NewFrameIsFrame, WalkerAssumption
<1>2. frames' = Append(<< >>, root)
  BY DEF New, Push
<1> HIDE DEF root
<1>3. frames' = << root >>
  BY <1>2
<1>4. Address(heap, frames')
  BY <1>1, <1>3 DEF Address, Linked
<1>5. mask' \in Masks /\ pc' = "program" /\ heap' = heap /\ calls' = calls
  BY DEF New, Masks
<1> QED
  BY <1>4, <1>5, AddressSuffices DEF IInv, TypeOK, Control

\* The end of a call leaves the other calls.
LEMMA EndCallKeeps ==
  ASSUME IInv, EndCall
  PROVE  calls' \in Seq(CallRecord) /\ pc' = "program"
<1>1. calls \in Seq(CallRecord) /\ Len(calls) \in Nat
  BY DEF IInv, TypeOK
<1>2. \A i \in 1..(Len(calls) - 1) : calls[i] \in CallRecord
  <2> TAKE i \in 1..(Len(calls) - 1)
  <2>1. i \in 1..Len(calls)
    BY <1>1
  <2> QED
    BY <1>1, <2>1, ElementOfSeq
<1>3. SubSeq(calls, 1, Len(calls) - 1) \in Seq(CallRecord)
  BY <1>1, <1>2, SubSeqProperties
<1> QED
  BY <1>3 DEF EndCall

\* The call that asks its predicate records the depth of the frame it holds.
LEMMA AskingKeeps ==
  ASSUME IInv, NextAsks
  PROVE  calls' \in Seq(CallRecord)
<1>1. calls \in Seq(CallRecord) /\ calls # << >>
  BY DEF IInv, TypeOK, Called, NextAsks
<1>2. Len(calls) \in 1..Len(calls)
  BY <1>1, EmptySeq
<1>3. calls[Len(calls)] \in CallRecord
  BY <1>1, <1>2, ElementOfSeq
<1>4. frames' \in Seq(Frame)
  BY InvariantStack, RecurseIsAddress DEF NextAsks, Address
<1>5. Len(frames') \in Nat
  BY <1>4, LenProperties
<1> DEFINE asked == [calls[Len(calls)] EXCEPT !.held = Len(frames')]
<1>6. asked \in CallRecord
  BY <1>3, <1>5 DEF CallRecord
<1>7. calls' = [calls EXCEPT ![Len(calls)] = asked]
  BY DEF NextAsks
<1> HIDE DEF asked
<1> QED
  BY <1>1, <1>2, <1>6, <1>7, ExceptSeq

\* The engine keeps the invariant.
LEMMA EngineKeeps == IInv /\ Engine => IInv'
<1> SUFFICES ASSUME IInv, Engine PROVE IInv'
  OBVIOUS
<1>0. /\ heap \in [Obj -> Seq(Property)] /\ frames \in Seq(Frame) /\ Linked(heap, frames)
      /\ mask \in Masks /\ calls \in Seq(CallRecord)
  BY InvariantStack DEF IInv, TypeOK
<1>1. CASE NextAborts
  BY <1>0, <1>1, AddressSuffices DEF NextAborts, Abort, Address, Control
<1>2. CASE NextEnds
  <2>1. Address(heap, frames') /\ mask' \in Masks /\ heap' = heap
    BY <1>0, <1>2, EmptyIsAddress DEF NextEnds
  <2>2. calls' \in Seq(CallRecord) /\ pc' = "program"
    BY <1>2, EndCallKeeps DEF NextEnds
  <2> QED
    BY <2>1, <2>2, AddressSuffices DEF Control
<1>3. CASE NextPasses
  <2>1. Address(heap, frames')
    BY <1>0, <1>3, RecurseIsAddress DEF NextPasses
  <2> QED
    BY <1>0, <1>3, <2>1, AddressSuffices DEF NextPasses, IInv, Called, Control
<1>4. CASE NextAsks
  <2>1. Address(heap, frames')
    BY <1>0, <1>4, RecurseIsAddress DEF NextAsks
  <2>2. calls' \in Seq(CallRecord)
    BY <1>4, AskingKeeps
  <2> QED
    BY <1>0, <1>4, <2>1, <2>2, AddressSuffices DEF NextAsks, Control
<1> QED
  BY <1>1, <1>2, <1>3, <1>4 DEF Engine

\* A predicate's answer moves nothing.
LEMMA PredicateKeeps == IInv /\ Predicate => IInv'
<1> SUFFICES ASSUME IInv, Predicate PROVE IInv'
  OBVIOUS
<1>0. /\ frames \in Seq(Frame) /\ Linked(heap, frames)
      /\ mask \in Masks /\ calls \in Seq(CallRecord)
  BY InvariantStack DEF IInv, TypeOK
<1>1. CASE Reject
  BY <1>0, <1>1, AddressSuffices DEF Reject, Address, Control
<1>2. CASE Accept
  <2>1. calls' \in Seq(CallRecord) /\ pc' = "program"
    BY <1>2, EndCallKeeps DEF Accept
  <2> QED
    BY <1>0, <1>2, <2>1, AddressSuffices DEF Accept, Address, Control
<1>3. CASE AcceptAborts
  BY <1>0, <1>3, AddressSuffices DEF AcceptAborts, Abort, Address, Control
<1> QED
  BY <1>1, <1>2, <1>3 DEF Predicate

\* previousNode and previousSibling move the top frame to a place on its list.
LEMMA PreviousKeeps == IInv /\ frames # << >> /\ Previous => IInv'
<1> SUFFICES ASSUME IInv, frames # << >>, Previous PROVE IInv'
  OBVIOUS
<1> DEFINE it == Top(frames)
           moved == SetPos(it, it.idx - 1)
<1>0. frames \in Seq(Frame) /\ Linked(heap, frames) /\ it \in Frame
  BY InvariantStack
<1>1. it.idx - 1 \in Int
  BY <1>0 DEF Frame
<1>2. ~SetPosAborts(it, it.idx - 1)
  BY DEF Previous
<1>3. Navigate([frames EXCEPT ![Len(frames)] = moved])
  BY DEF Previous, Top
<1> HIDE DEF it
<1>4. moved \in Frame /\ moved.obj = it.obj /\ moved.tab = it.tab
  BY <1>0, <1>1, <1>2, SetPosIsFrame
<1> HIDE DEF moved
<1>5. Address(heap, [frames EXCEPT ![Len(frames)] = moved])
  BY <1>0, <1>4, TopReplaced DEF it
<1> QED
  BY <1>3, <1>5, NavigateKeeps

\* parentNode, and previousNode on a first property, pop.
LEMMA ParentKeeps == IInv /\ frames # << >> /\ Parent => IInv'
BY InvariantStack, PopIsAddress, NavigateKeeps DEF Parent

\* firstChild and lastChild enter the current value.
LEMMA InsideKeeps == IInv /\ (FirstChild \/ LastChild) => IInv'
<1> SUFFICES ASSUME IInv, FirstChild \/ LastChild PROVE IInv'
  OBVIOUS
<1>0. heap \in [Obj -> Seq(Property)] /\ frames \in Seq(Frame) /\ Linked(heap, frames)
  BY InvariantStack
<1>1. /\ frames # << >> /\ OnProperty(Top(frames))
      /\ CurrentValue(heap, Top(frames)) \in Obj
  BY DEF FirstChild, LastChild, Inside, Uses
<1>2. /\ Child \in Frame /\ Child.obj = CurrentValue(heap, Top(frames))
      /\ Child.tab = Names(heap[Child.obj])
  BY <1>0, <1>1, NewFrameIsFrame DEF Child
<1>3. CASE FirstChild
  <2>1. Address(heap, Append(frames, Child))
    BY <1>0, <1>1, <1>2, EnteringExtends
  <2> QED
    BY <1>3, <2>1, NavigateKeeps DEF FirstChild
<1>4. CASE LastChild
  <2>1. /\ SetPos(Child, -1) \in Frame /\ SetPos(Child, -1).obj = Child.obj
        /\ SetPos(Child, -1).tab = Child.tab
    BY <1>2, <1>4, SetPosIsFrame DEF LastChild
  <2>2. Address(heap, Append(frames, SetPos(Child, -1)))
    BY <1>0, <1>1, <1>2, <2>1, EnteringExtends
  <2> QED
    BY <1>4, <2>2, NavigateKeeps DEF LastChild
<1> QED
  BY <1>3, <1>4

\* The setter of index moves the top frame, perhaps past the end of its list.
LEMMA SetIndexKeeps ==
  ASSUME IInv, NEW i \in Indexes, SetIndex(i)
  PROVE  IInv'
<1> DEFINE it == Top(frames)
           place == Stored(i, Len(it.tab))
           moved == [it EXCEPT !.idx = place]
<1>0. frames \in Seq(Frame) /\ Linked(heap, frames) /\ frames # << >> /\ it \in Frame
  BY InvariantStack DEF SetIndex, Uses
<1>1. it.tab \in Seq(Key) /\ it.obj \in Obj /\ it.idx \in Nat
  BY <1>0 DEF Frame
<1>2. Len(it.tab) \in Nat /\ (i < 0 => Len(it.tab) # 0)
  BY <1>1, EmptySeq DEF SetIndex
<1>3. place \in Nat
  BY <1>2, StoredIsNatural, WalkerAssumption
<1>4. Navigate([frames EXCEPT ![Len(frames)] = moved])
  BY DEF SetIndex, Top
<1> HIDE DEF place, it
<1>5. moved \in Frame /\ moved.obj = it.obj /\ moved.tab = it.tab
  BY <1>0, <1>1, <1>3 DEF Frame
<1> HIDE DEF moved
<1>6. Address(heap, [frames EXCEPT ![Len(frames)] = moved])
  BY <1>0, <1>5, TopReplaced DEF it
<1> QED
  BY <1>4, <1>6, NavigateKeeps

\* Every method the program may call keeps the invariant.
LEMMA ProgramKeeps == IInv /\ Program => IInv'
<1> SUFFICES ASSUME IInv, Program PROVE IInv'
  OBVIOUS
<1>0. /\ frames \in Seq(Frame) /\ Linked(heap, frames)
      /\ mask \in Masks /\ calls \in Seq(CallRecord)
  BY InvariantStack DEF IInv, TypeOK
<1>1. ASSUME Abort
      PROVE  IInv'
  BY <1>0, <1>1, AddressSuffices DEF Abort, Address, Control
<1>2. CASE New
  BY <1>2, NewKeeps
<1>3. CASE NextNode
  <2>1. [mask |-> mask, held |-> 0] \in CallRecord
    BY <1>0 DEF CallRecord
  <2>2. calls' \in Seq(CallRecord) /\ calls' # << >>
    BY <1>0, <1>3, <2>1, AppendProperties DEF NextNode
  <2> QED
    BY <1>0, <1>3, <2>2, AddressSuffices DEF NextNode, Address, Control
<1>4. CASE FirstChild \/ LastChild
  BY <1>4, InsideKeeps
<1>5. CASE NextSibling
  BY <1>0, <1>5, AdvanceIsAddress, NavigateKeeps DEF NextSibling, Uses
<1>6. CASE PreviousSibling \/ ParentNode \/ PreviousNode
  BY <1>6, PreviousKeeps, ParentKeeps
     DEF PreviousSibling, ParentNode, PreviousNode, Uses
<1>7. ASSUME NEW i \in Indexes, SetIndex(i)
      PROVE  IInv'
  BY <1>7, SetIndexKeeps
<1>8. ASSUME NEW m \in Masks, SetMask(m)
      PROVE  IInv'
  BY <1>0, <1>8, AddressSuffices DEF SetMask, Uses, IInv, TypeOK, Called, Address
<1>9. CASE NewAborts \/ EnterAborts \/ PreviousAborts \/ AccessAborts
  BY <1>1, <1>9 DEF NewAborts, EnterAborts, PreviousAborts, AccessAborts
<1> QED
  BY <1>2, <1>3, <1>4, <1>5, <1>6, <1>7, <1>8, <1>9 DEF Program

\* Every step keeps it.
LEMMA NextIInv == IInv /\ [Next]_vars => IInv'
<1> SUFFICES ASSUME IInv, [Next]_vars PROVE IInv'
  OBVIOUS
<1>1. CASE UNCHANGED vars
  BY <1>1 DEF vars, IInv, TypeOK, PathLeadsToNode, Called, Snapshots
<1> QED
  BY <1>1, EngineKeeps, PredicateKeeps, ProgramKeeps DEF Next

\* It holds in every state.
LEMMA Invariance == Spec => []IInv
BY InitIInv, NextIInv, PTL DEF Spec

\* The variables keep their types: no assignment to index, however it wraps,
\* leaves the top frame at a negative place.
THEOREM TypeCorrect == Spec => []TypeOK
<1>1. IInv => TypeOK
  BY DEF IInv
<1> QED
  BY <1>1, Invariance, PTL

\* currentPath is an address: followed from the root it leads through every
\* frame of the stack to the current node.
THEOREM PathIsAddress == Spec => []PathLeadsToNode
<1>1. IInv => PathLeadsToNode
  BY DEF IInv
<1> QED
  BY <1>1, Invariance, PTL
----------------------------------------------------------------------------
(* The engine of nextNode() is that of the deep iterator, whose theorems   *)
(* say where one call of it goes.                                          *)

(***************************************************************************)
(* The walker inside nextNode(), as an iterator at the head of its loop:   *)
(* no depth limit stops it, because a simple path meets no object twice,   *)
(* and the objects do not change.                                          *)
(***************************************************************************)
Iterator == INSTANCE DeepIteratorProofs WITH
              MaxDepth <- Cardinality(Obj),
              Mutable <- FALSE, MaxProps <- 0, MaxNested <- 0,
              pc <- "loop", nested <- 0

\* The iterator's engine is this one: the operators are defined alike.
LEMMA SameEngine ==
  ASSUME NEW h, NEW stack
  PROVE  /\ Iterator!Recurse(h, stack) = Recurse(h, stack)
         /\ Iterator!Skip(stack) = Skip(stack)
         /\ Iterator!PathOf(stack) = PathOf(stack)
         /\ \A it : Iterator!CurrentValue(h, it) = CurrentValue(h, it)
         /\ \A it : Iterator!OnProperty(it) <=> OnProperty(it)
         /\ \A s : Iterator!Top(s) = Top(s)
         /\ \A o : Iterator!Names(h[o]) = Names(h[o])
<1>1. \A it : Iterator!HasNext(it) <=> HasNext(it)
  BY DEF Iterator!HasNext, HasNext, Iterator!Settable, Settable, Iterator!Target, Target
<1>2. \A s : Iterator!Advance(s) = Advance(s)
  BY DEF Iterator!Advance, Advance, Iterator!SetPos, SetPos, Iterator!Target, Target
<1>3. \A s : Iterator!PopAdvance(s) = PopAdvance(s)
  BY DEF Iterator!PopAdvance, PopAdvance, Iterator!HasNext, HasNext,
         Iterator!Settable, Settable, Iterator!Target, Target,
         Iterator!Advance, Advance, Iterator!SetPos, SetPos
<1>4. \A s : Iterator!Top(s) = Top(s)
  BY DEF Iterator!Top, Top
<1>5. \A s : Iterator!Skip(s) = Skip(s)
  BY <1>1, <1>2, <1>3, <1>4 DEF Iterator!Skip, Skip
<1>6. \A it : Iterator!CurrentValue(h, it) = CurrentValue(h, it)
  BY DEF Iterator!CurrentValue, CurrentValue, Iterator!CurrentKey, CurrentKey,
         Iterator!GetProperty, GetProperty, Iterator!At, At
<1>7. \A s : Iterator!Enterable(h, s) <=> Enterable(h, s)
  BY <1>4, <1>6 DEF Iterator!Enterable, Enterable, Iterator!OnProperty, OnProperty,
                    Iterator!Circular, Circular
<1>8. \A s, o : Iterator!Push(h, s, o) = Push(h, s, o)
  BY DEF Iterator!Push, Push, Iterator!NewFrame, NewFrame, Iterator!Names, Names
<1>9. \A it : Iterator!Settable(it, 0) <=> Settable(it, 0)
  BY DEF Iterator!Settable, Settable, Iterator!Target, Target
<1>10. Iterator!Recurse(h, stack) = Recurse(h, stack)
  BY <1>3, <1>4, <1>5, <1>6, <1>7, <1>8, <1>9 DEF Iterator!Recurse, Recurse
<1>11. Iterator!PathOf(stack) = PathOf(stack)
  BY DEF Iterator!PathOf, PathOf
<1>12. \A it : Iterator!OnProperty(it) <=> OnProperty(it)
  BY DEF Iterator!OnProperty, OnProperty
<1>13. \A o : Iterator!Names(h[o]) = Names(h[o])
  BY DEF Iterator!Names, Names
<1> QED
  BY <1>4, <1>5, <1>6, <1>10, <1>11, <1>12, <1>13

\* And so is the walk both are compared with.
LEMMA SameWalk ==
  ASSUME NEW h, NEW p
  PROVE  /\ Iterator!Walk!Positions(h) = Walk!Positions(h)
         /\ Iterator!Walk!Later(h, p) = Walk!Later(h, p)
         /\ \A q, r : Iterator!Walk!Before(q, r) <=> Walk!Before(q, r)
<1>1. Iterator!Walk!Positions(h) = Walk!Positions(h)
  BY DEF Iterator!Walk!Positions, Walk!Positions, Iterator!Walk!SimplePath, Walk!SimplePath,
         Iterator!Walk!Leads, Walk!Leads, Iterator!Walk!Offsets, Walk!Offsets
<1>2. \A q, r : Iterator!Walk!Before(q, r) <=> Walk!Before(q, r)
  BY DEF Iterator!Walk!Before, Walk!Before
<1>3. Iterator!Walk!Later(h, p) = Walk!Later(h, p)
  BY <1>1, <1>2 DEF Iterator!Walk!Later, Walk!Later
<1> QED
  BY <1>1, <1>2, <1>3

\* The constants are such as the iterator's module assumes.
LEMMA IteratorConstants ==
  ASSUME IsFiniteSet(Obj)
  PROVE  /\ Cardinality(Obj) \in Nat \ {0}
         /\ Root \in Obj /\ Heaps \subseteq [Obj -> Seq(Property)]
         /\ \A h \in Heaps : \A o \in Obj : Unique(h[o])
         /\ Undefined \in Prim /\ Obj \cap Prim = {}
BY FS_EmptySet, FS_CardinalityType, WalkerAssumption, ObjAssumption

\* A heap the program starts from is one the iterator's lemmas take.
LEMMA HeapIsPlain ==
  ASSUME NEW h \in Heaps
  PROVE  h \in [Obj -> Seq(Property)] /\ Iterator!Plain(h)
BY WalkerAssumption
   DEF Iterator!Plain, Iterator!Property, Property, Iterator!Value, Value,
       Iterator!Unique, Unique

\* The names of an object's properties are as many.
LEMMA NamesLength ==
  ASSUME NEW h \in [Obj -> Seq(Property)], NEW o \in Obj
  PROVE  Len(Names(h[o])) = Len(h[o])
<1>1. NewFrame(h, o).tab = Names(h[o]) /\ Len(NewFrame(h, o).tab) = Len(h[o])
  BY NewFrameIsFrame
<1> QED
  BY <1>1

\* A frame whose names are those of its object reads the value at its place.
LEMMA ValueHere ==
  ASSUME IsFiniteSet(Obj), NEW h \in Heaps, NEW it \in Frame,
         it.tab = Names(h[it.obj]), OnProperty(it)
  PROVE  CurrentValue(h, it) = h[it.obj][it.idx + 1].val
<1>1. h \in [Obj -> Seq(Property)] /\ Iterator!Plain(h)
  BY HeapIsPlain
<1>2. it.obj \in Obj /\ it.idx \in Nat /\ it.tab \in Seq(Key)
  BY DEF Frame
<1>3. Len(h[it.obj]) = Len(it.tab)
  BY <1>1, <1>2, NamesLength
<1>4. it.idx < Len(h[it.obj])
  BY <1>3 DEF OnProperty
<1>5. it \in Iterator!Frame /\ it.tab = Iterator!Names(h[it.obj])
  BY DEF Iterator!Frame, Frame, Iterator!Names, Names
<1>6. Iterator!CurrentValue(h, it) = h[it.obj][it.idx + 1].val
  BY <1>1, <1>4, <1>5, IteratorConstants, Iterator!CurrentIsPlace
     DEF Iterator!Property, Property, Iterator!Value, Value, Iterator!Unique, Unique
<1> QED
  BY <1>6 DEF Iterator!CurrentValue, CurrentValue, Iterator!CurrentKey, CurrentKey,
              Iterator!GetProperty, GetProperty, Iterator!At, At

\* What the walker's stack is when it stands on a position of the walk.
LEMMA OnPosition ==
  ASSUME IInv, IsFiniteSet(Obj), Place \in Walk!Positions(heap)
  PROVE  /\ frames \in Seq(Frame) /\ frames # << >> /\ DOMAIN frames = 1..Len(frames)
         /\ Len(frames) \in Nat \ {0} /\ Len(frames) <= Cardinality(Obj)
         /\ OnProperty(Top(frames))
         /\ Place = PathOf(frames) /\ Place # << >>
         /\ \E os \in [1..Len(frames) -> Obj] :
              /\ Walk!Leads(heap, PathOf(frames), os)
              /\ \A i, j \in 1..Len(frames) : os[i] = os[j] => i = j
<1>1. Cardinality(Obj) \in Nat
  BY FS_CardinalityType
<1>2. PICK d \in 1..Cardinality(Obj) : Place \in [1..d -> Walk!Offsets(heap)]
  BY DEF Walk!Positions
<1>3. DOMAIN Place = 1..d /\ d \in Nat \ {0}
  BY <1>1, <1>2
<1>4. Place # << >>
  <2>1. 1 \in DOMAIN Place
    BY <1>3
  <2>2. \A x : x \notin DOMAIN << >>
    OBVIOUS
  <2> QED
    BY <2>1, <2>2
<1>5. frames # << >> /\ OnProperty(Top(frames)) /\ Place = PathOf(frames)
  BY <1>4 DEF Place
<1>6. frames \in Seq(Frame)
  BY InvariantStack
<1>7. Len(frames) \in Nat \ {0} /\ DOMAIN frames = 1..Len(frames)
  BY <1>5, <1>6, EmptySeq, LenProperties
<1>8. DOMAIN Place = 1..Len(frames)
  BY <1>5, <1>7 DEF PathOf
<1>9. d = Len(frames)
  <2>1. d \in 1..d /\ Len(frames) \in 1..Len(frames)
    BY <1>3, <1>7
  <2>2. d \in 1..Len(frames) /\ Len(frames) \in 1..d
    BY <1>3, <1>8, <2>1
  <2>3. \A m, n \in Nat : m \in 1..n /\ n \in 1..m => m = n
    OBVIOUS
  <2>4. d \in Nat /\ Len(frames) \in Nat
    BY <1>3, <1>7
  <2> QED
    BY ONLY <2>2, <2>3, <2>4
<1>10. Len(frames) <= Cardinality(Obj)
  BY <1>1, <1>9
<1>11. \E os \in [1..Len(frames) -> Obj] :
         /\ Walk!Leads(heap, PathOf(frames), os)
         /\ \A i, j \in 1..Len(frames) : os[i] = os[j] => i = j
  BY <1>5, <1>8 DEF Walk!Positions, Walk!SimplePath
<1> QED
  BY <1>4, <1>5, <1>6, <1>7, <1>10, <1>11

\* Every frame is then on a property, and the next one is of its value.
LEMMA FramesAlong ==
  ASSUME IInv, IsFiniteSet(Obj), Place \in Walk!Positions(heap)
  PROVE  /\ \A i \in 1..Len(frames) : OnProperty(frames[i])
         /\ \A i \in 1..(Len(frames) - 1) :
              frames[i + 1].obj = heap[frames[i].obj][frames[i].idx + 1].val
<1>1. frames \in Seq(Frame) /\ frames # << >> /\ Len(frames) \in Nat \ {0}
      /\ OnProperty(Top(frames))
  BY OnPosition
<1>2. Linked(heap, frames) /\ heap \in Heaps
  BY InvariantStack DEF IInv, Snapshots
<1>3. ASSUME NEW i \in 1..Len(frames)
      PROVE  OnProperty(frames[i])
  <2>1. i = Len(frames) \/ i \in 1..(Len(frames) - 1)
    BY <1>1
  <2> QED
    BY <1>1, <1>2, <2>1 DEF Linked, Top
<1>4. ASSUME NEW i \in 1..(Len(frames) - 1)
      PROVE  frames[i + 1].obj = heap[frames[i].obj][frames[i].idx + 1].val
  <2>1. i \in 1..Len(frames)
    BY <1>1
  <2>2. frames[i] \in Frame
    BY <1>1, <2>1, ElementOfSeq
  <2>3. /\ frames[i].tab = Names(heap[frames[i].obj])
        /\ OnProperty(frames[i])
        /\ frames[i + 1].obj = CurrentValue(heap, frames[i])
    BY <1>2, <2>1 DEF Linked
  <2> QED
    BY <1>2, <2>2, <2>3, ValueHere
<1> QED
  BY <1>3, <1>4

\* The objects along the path are those of the frames.
LEMMA ObjectsAlong ==
  ASSUME IInv, IsFiniteSet(Obj), Place \in Walk!Positions(heap),
         NEW os, Walk!Leads(heap, PathOf(frames), os)
  PROVE  \A i \in 1..Len(frames) : os[i] = frames[i].obj
<1> DEFINE Off == {i \in 1..Len(frames) : os[i] # frames[i].obj}
           p == PathOf(frames)
<1>1. SUFFICES ASSUME Off # {} PROVE FALSE
  OBVIOUS
<1>2. PICK m \in Off : \A i \in Off : m <= i
  <2>1. Off \in SUBSET Nat
    OBVIOUS
  <2> HIDE DEF Off
  <2> QED
    BY <1>1, <2>1, LeastNatural
<1>3. Len(frames) \in Nat \ {0} /\ DOMAIN frames = 1..Len(frames) /\ frames # << >>
  BY OnPosition
<1>4. DOMAIN p = 1..Len(frames) /\ \A i \in 1..Len(frames) : p[i] = frames[i].idx
  BY <1>3 DEF PathOf
<1>5. m # 1
  <2>1. os[1] = Root
    BY DEF Walk!Leads
  <2>2. frames[1].obj = Root
    BY <1>3 DEF IInv, PathLeadsToNode
  <2> QED
    BY <1>2, <2>1, <2>2
<1>6. /\ m \in 1..Len(frames) /\ m > 1 /\ m - 1 \in 1..Len(frames)
      /\ m - 1 \in 1..(Len(frames) - 1) /\ (m - 1) + 1 = m /\ ~(m <= m - 1)
  BY <1>2, <1>3, <1>5
<1>7. os[m - 1] = frames[m - 1].obj
  BY <1>2, <1>6
<1>8. os[m] = heap[os[m - 1]][p[m - 1] + 1].val
  BY <1>4, <1>6 DEF Walk!Leads
<1>9. frames[(m - 1) + 1].obj = heap[frames[m - 1].obj][frames[m - 1].idx + 1].val
  BY <1>6, FramesAlong
<1>10. p[m - 1] = frames[m - 1].idx
  BY <1>4, <1>6
<1>11. os[m] = frames[m].obj
  BY <1>6, <1>7, <1>8, <1>9, <1>10
<1> QED
  BY <1>2, <1>11

\* No object is on the stack twice.
LEMMA NoneTwice ==
  ASSUME IInv, IsFiniteSet(Obj), Place \in Walk!Positions(heap)
  PROVE  \A i, j \in 1..Len(frames) : frames[i].obj = frames[j].obj => i = j
<1>1. PICK os \in [1..Len(frames) -> Obj] :
        /\ Walk!Leads(heap, PathOf(frames), os)
        /\ \A i, j \in 1..Len(frames) : os[i] = os[j] => i = j
  BY OnPosition
<1>2. \A i \in 1..Len(frames) : os[i] = frames[i].obj
  BY <1>1, ObjectsAlong
<1> QED
  BY <1>1, <1>2

\* The stack is one the iterator could have.
LEMMA LikeTheIterator ==
  ASSUME IInv, IsFiniteSet(Obj), Place \in Walk!Positions(heap)
  PROVE  Iterator!Unchanging /\ Iterator!Plain(heap)
<1>1. /\ frames \in Seq(Frame) /\ frames # << >> /\ DOMAIN frames = 1..Len(frames)
      /\ Len(frames) \in Nat \ {0} /\ Len(frames) <= Cardinality(Obj)
  BY OnPosition
<1>2. heap \in Heaps /\ heap \in [Obj -> Seq(Property)] /\ Iterator!Plain(heap)
  BY HeapIsPlain DEF IInv, Snapshots
<1>3. Iterator!TypeOK
  <2>1. Iterator!Property = Property /\ Iterator!Frame = Frame
    BY DEF Iterator!Property, Property, Iterator!Value, Value, Iterator!Frame, Frame
  <2> QED
    BY <1>1, <1>2, <2>1 DEF Iterator!TypeOK, Iterator!Control
<1>4. Iterator!NoRepeatedAncestor
  BY <1>1, NoneTwice DEF Iterator!NoRepeatedAncestor
<1>5. Iterator!FramesOnProperties
  BY <1>1, FramesAlong, SameEngine DEF Iterator!FramesOnProperties
<1>6. Iterator!DepthBounded /\ Iterator!Asked
  BY <1>1 DEF Iterator!DepthBounded, Iterator!Asked
<1>7. Iterator!Faithful(heap, frames)
  <2>1. /\ frames[1].obj = Root
        /\ \A i \in 1..(Len(frames) - 1) : frames[i + 1].obj = CurrentValue(heap, frames[i])
        /\ \A i \in 1..Len(frames) : frames[i].tab = Names(heap[frames[i].obj])
    BY <1>1 DEF IInv, PathLeadsToNode, Snapshots
  <2> QED
    BY <1>1, <2>1, SameEngine DEF Iterator!Faithful
<1> QED
  BY <1>2, <1>3, <1>4, <1>5, <1>6, <1>7 DEF Iterator!Unchanging, Iterator!IInv

\* A stack that holds every object enters no further one.
LEMMA FullStackSkips ==
  ASSUME IInv, IsFiniteSet(Obj), Place \in Walk!Positions(heap),
         Len(frames) >= Cardinality(Obj)
  PROVE  Recurse(heap, frames) = Skip(frames)
<1> DEFINE n == Len(frames)
           o == CurrentValue(heap, Top(frames))
           others == Obj \ {o}
           f == [i \in 1..n |-> frames[i].obj]
<1>1. SUFFICES ASSUME o \in Obj, \A i \in DOMAIN frames : frames[i].obj # o PROVE FALSE
  BY DEF Recurse, Enterable, Circular
<1>2. frames \in Seq(Frame) /\ n \in Nat \ {0} /\ DOMAIN frames = 1..n
  BY OnPosition
<1>3. \A i \in 1..n : frames[i].obj \in Obj
  <2>1. \A i \in 1..n : frames[i] \in Frame
    BY <1>2, ElementOfSeq
  <2> QED
    BY <2>1 DEF Frame
<1>4. f \in [1..n -> others]
  BY <1>1, <1>2, <1>3
<1>5. IsFiniteSet(others) /\ Cardinality(others) = Cardinality(Obj) - 1
  BY <1>1, FS_RemoveElement
<1>6. IsFiniteSet(1..n) /\ Cardinality(1..n) = n
  BY <1>2, FS_Interval
<1>7. Cardinality(others) < Cardinality(1..n)
  BY <1>2, <1>5, <1>6, FS_CardinalityType
<1> HIDE DEF others, n
<1>8. \E x, y \in 1..n : x # y /\ f[x] = f[y]
  <2> HIDE DEF f
  <2> QED
    BY <1>4, <1>5, <1>6, <1>7, FS_PigeonHole
<1> QED
  BY <1>8, NoneTwice DEF n

\* So the iterator's engine, which stops at its depth limit, is the walker's,
\* which has none.
LEMMA SamePass ==
  ASSUME IInv, IsFiniteSet(Obj), Place \in Walk!Positions(heap)
  PROVE  Iterator!Penum = Recurse(heap, frames)
<1>1. Len(frames) # 0
  BY OnPosition
<1>2. CASE Len(frames) >= Cardinality(Obj)
  BY <1>1, <1>2, FullStackSkips, SameEngine DEF Iterator!Penum
<1>3. CASE ~(Len(frames) >= Cardinality(Obj))
  BY <1>1, <1>3, SameEngine DEF Iterator!Penum
<1> QED
  BY <1>2, <1>3

\* A pass of nextNode's loop moves the walk to its next position or ends it.
LEMMA PassSteps ==
  ASSUME IInv, IsFiniteSet(Obj), Place \in Walk!Positions(heap),
         frames' = Recurse(heap, frames), heap' = heap
  PROVE  Walk!Step \/ UNCHANGED <<heap, Place>>
<1> DEFINE next == Iterator!PlaceOf(Iterator!Penum)
<1>1. Iterator!Place = Place
  BY SameEngine DEF Iterator!Place, Iterator!PlaceOf, Place
<1>2. next = Place'
  <2>1. Iterator!Penum = frames'
    BY SamePass
  <2> QED
    BY <2>1, SameEngine DEF Iterator!PlaceOf, Place
<1>3. \/ next = Iterator!Place
      \/ /\ next \in Iterator!Walk!Later(heap, Iterator!Place)
         /\ \A r \in Iterator!Walk!Later(heap, Iterator!Place) :
              r = next \/ Iterator!Walk!Before(next, r)
      \/ Iterator!Place # << >> /\ Iterator!Walk!Later(heap, Iterator!Place) = {} /\ next = << >>
  BY LikeTheIterator, IteratorConstants, Iterator!PenumSteps
     DEF Iterator!Property, Property, Iterator!Value, Value, Iterator!Unique, Unique
<1> HIDE DEF next
<1>4. \/ Place' = Place
      \/ /\ Place' \in Walk!Later(heap, Place)
         /\ \A r \in Walk!Later(heap, Place) : r = Place' \/ Walk!Before(Place', r)
      \/ Place # << >> /\ Walk!Later(heap, Place) = {} /\ Place' = << >>
  BY <1>1, <1>2, <1>3, SameWalk
<1>5. CASE Place' = Place
  BY <1>5
<1>6. CASE /\ Place' \in Walk!Later(heap, Place)
           /\ \A r \in Walk!Later(heap, Place) : r = Place' \/ Walk!Before(Place', r)
  BY <1>6 DEF Walk!Step, Walk!Visit
<1>7. CASE Place # << >> /\ Walk!Later(heap, Place) = {} /\ Place' = << >>
  BY <1>7 DEF Walk!Step, Walk!Finish
<1> QED
  BY <1>4, <1>5, <1>6, <1>7

\* From wherever on a simple path the navigation methods, an assignment to
\* index or a predicate have left the walker, every pass of nextNode's loop
\* moves it to the very next simple path in document order, or off the end:
\* what the mask passes over is entered all the same, and no depth limit is
\* needed on a cyclic graph.
THEOREM NextIsInOrder ==
  ASSUME IsFiniteSet(Obj)
  PROVE  Spec => NextInOrder
<1> DEFINE Moves == pc = "next" /\ Place \in Walk!Positions(heap) => Walk!Step
<1>1. IInv /\ [Next]_vars => [Moves]_<<heap, Place>>
  <2> SUFFICES ASSUME IInv, [Next]_vars, pc = "next", Place \in Walk!Positions(heap),
                      ~(UNCHANGED <<heap, Place>>)
               PROVE  Walk!Step
    OBVIOUS
  <2>1. ~(UNCHANGED <<heap, frames>>)
    BY DEF Place
  <2>2. heap' = heap /\ frames' = Recurse(heap, frames)
    BY <2>1
       DEF Next, vars, Engine, NextAborts, NextEnds, NextPasses, NextAsks, Abort,
           Predicate, Reject, Accept, AcceptAborts,
           Program, New, NewAborts, NextNode, FirstChild, LastChild, Inside, Uses, EnterAborts,
           NextSibling, PreviousSibling, ParentNode, PreviousNode, PreviousAborts,
           SetIndex, SetMask, AccessAborts
  <2> QED
    BY <2>2, PassSteps
<1> QED
  BY <1>1, Invariance, PTL DEF Spec, NextInOrder
=============================================================================
