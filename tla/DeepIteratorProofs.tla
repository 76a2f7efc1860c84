-------------------------- MODULE DeepIteratorProofs --------------------------
(***************************************************************************)
(* Proofs about DeepIterator for every set of objects, every starting heap *)
(* and every bound.  The program may change the objects at any moment it   *)
(* runs, and the invariants never use that a frame still agrees with the   *)
(* heap.  Over objects that do not change frames do agree, and from there  *)
(* on the iterator is shown to implement PreorderWalk.                     *)
(***************************************************************************)
EXTENDS DeepIterator, SequenceTheorems, WellFoundedInduction, TLAPS

----------------------------------------------------------------------------
(* What the operators of the engine preserve, for every heap and stack.    *)

\* A set of natural numbers that has a member has a least one.
LEMMA LeastNatural ==
  ASSUME NEW S \in SUBSET Nat, S # {}
  PROVE  \E m \in S : \A k \in S : m <= k
<1> DEFINE R == {ss \in Nat \X Nat : ss[1] < ss[2]}
<1>1. IsWellFoundedOn(R, Nat)
  BY NatLessThanWellFounded DEF OpToRel
<1> HIDE DEF R
<1>2. PICK m \in S : \A k \in S : ~(<<k, m>> \in R)
  BY <1>1, WFMin
<1>3. \A k \in S : ~(k < m)
  BY <1>2 DEF R
<1> QED
  BY <1>3

\* A set of depths that has a member has a greatest one, so that the CHOOSE
\* in PopAdvance finds the frame where the loop of pops stops.
LEMMA GreatestDepth ==
  ASSUME NEW n \in Int, NEW S \in SUBSET (1..n), S # {}
  PROVE  \E m \in S : \A k \in S : k <= m
<1>1. PICK s \in S : TRUE
  OBVIOUS
<1> DEFINE T == {t \in Nat : n - t \in S}
<1>2. n - s \in T
  <2>1. s \in 1..n
    OBVIOUS
  <2>2. n - s \in Nat /\ n - (n - s) = s
    BY <2>1
  <2> QED
    BY <2>2
<1>3. PICK t \in T : \A u \in T : t <= u
  BY <1>2, LeastNatural
<1>4. ASSUME NEW k \in S
      PROVE  k <= n - t
  <2>1. k \in 1..n
    OBVIOUS
  <2>2. n - k \in Nat /\ n - (n - k) = k
    BY <2>1
  <2>3. n - k \in T
    BY <2>2
  <2>4. t <= n - k
    BY <1>3, <2>3
  <2> QED
    BY <2>1, <2>2, <2>4
<1> QED
  BY <1>3, <1>4

\* A stack of well-formed frames on which every accessor's assertion holds.
OnProperties(stack) == \A i \in DOMAIN stack : OnProperty(stack[i])

Ancestors(stack) ==
  \A i, j \in DOMAIN stack : stack[i].obj = stack[j].obj => i = j

\* A frame pushed for an object holds that object and is well formed.
LEMMA NewFrameIsFrame ==
  ASSUME NEW h \in [Obj -> Seq(Property)], NEW o \in Obj
  PROVE  /\ NewFrame(h, o) \in Frame
         /\ NewFrame(h, o).obj = o
         /\ NewFrame(h, o).idx = 0
         /\ Len(NewFrame(h, o).tab) = Len(h[o])
<1>1. h[o] \in Seq(Property)
  OBVIOUS
<1>2. /\ Len(h[o]) \in Nat
      /\ DOMAIN h[o] = 1..Len(h[o])
      /\ \A i \in 1..Len(h[o]) : h[o][i] \in Property
  BY <1>1, LenProperties, ElementOfSeq
<1>3. \A i \in 1..Len(h[o]) : h[o][i].key \in Key
  BY <1>2 DEF Property
<1>4. Names(h[o]) \in [1..Len(h[o]) -> Key]
  BY <1>2, <1>3 DEF Names
<1>5. Names(h[o]) \in Seq(Key) /\ Len(Names(h[o])) = Len(h[o])
  BY <1>2, <1>4
<1> QED
  BY <1>5 DEF NewFrame, Frame

\* Moving the top frame on keeps everything but its index, which stays inside
\* the snapshot.
LEMMA AdvanceShape ==
  ASSUME NEW stack \in Seq(Frame), stack # << >>, HasNext(Top(stack))
  PROVE  /\ Advance(stack) \in Seq(Frame)
         /\ Len(Advance(stack)) = Len(stack)
         /\ DOMAIN Advance(stack) = 1..Len(stack)
         /\ \A i \in 1..Len(stack) : Advance(stack)[i].obj = stack[i].obj
         /\ \A i \in 1..(Len(stack) - 1) : Advance(stack)[i] = stack[i]
         /\ Advance(stack)[Len(stack)].idx = stack[Len(stack)].idx + 1
         /\ Advance(stack)[Len(stack)].tab = stack[Len(stack)].tab
         /\ OnProperty(Advance(stack)[Len(stack)])
<1> DEFINE n == Len(stack)
           it == stack[n]
           moved == SetPos(it, it.idx + 1)
<1>1. n \in Nat /\ n \in 1..n /\ DOMAIN stack = 1..n
  BY EmptySeq, LenProperties
<1>2. it \in Frame
  BY <1>1, ElementOfSeq
<1>3. it.idx \in Nat /\ it.obj \in Obj /\ it.tab \in Seq(Key)
  BY <1>2 DEF Frame
<1>4. Target(it, it.idx + 1) = it.idx + 1
  BY <1>3 DEF Target
<1>5. moved = [it EXCEPT !.idx = it.idx + 1]
  BY <1>4 DEF SetPos
<1>6. moved \in Frame /\ moved.obj = it.obj /\ moved.tab = it.tab /\ moved.idx = it.idx + 1
  BY <1>2, <1>3, <1>5 DEF Frame
<1>7. Advance(stack) = [stack EXCEPT ![n] = moved]
  BY <1>1 DEF Advance
<1>8. it.idx + 1 < Len(it.tab)
  BY <1>4 DEF HasNext, Settable, Top
<1>9. OnProperty(moved)
  BY <1>6, <1>8 DEF OnProperty
<1> HIDE DEF moved, it
<1>10. /\ Advance(stack) \in Seq(Frame)
       /\ Len(Advance(stack)) = n
       /\ \A j \in 1..n : Advance(stack)[j] = IF j = n THEN moved ELSE stack[j]
  BY <1>1, <1>6, <1>7, ExceptSeq
<1>11. DOMAIN Advance(stack) = 1..n
  BY <1>10, LenProperties
<1>12. \A i \in 1..n : Advance(stack)[i].obj = stack[i].obj
  BY <1>6, <1>10 DEF it
<1>13. \A i \in 1..(n - 1) : Advance(stack)[i] = stack[i]
  <2> TAKE i \in 1..(n - 1)
  <2>1. n \in Nat
    OBVIOUS
  <2>2. i \in 1..n /\ i # n
    BY <2>1
  <2> QED
    BY <1>10, <2>2
<1>14. Advance(stack)[n] = moved
  BY <1>1, <1>10
<1>15. moved.idx = stack[n].idx + 1 /\ moved.tab = stack[n].tab
  BY <1>6 DEF it
<1> QED
  BY <1>9, <1>10, <1>11, <1>12, <1>13, <1>14, <1>15

\* Popping ends on an empty stack or on the highest frame below the top that
\* has a property left, and moves that frame on.
LEMMA PopAdvanceShape ==
  ASSUME NEW stack \in Seq(Frame),
         PopAdvance(stack) # << >>
  PROVE  \E d \in 1..(Len(stack) - 1) :
           /\ HasNext(stack[d])
           /\ \A e \in 1..(Len(stack) - 1) : HasNext(stack[e]) => e <= d
           /\ PopAdvance(stack) = Advance(SubSeq(stack, 1, d))
<1> DEFINE open == {d \in 1..(Len(stack) - 1) : HasNext(stack[d])}
<1>1. Len(stack) \in Nat
  OBVIOUS
<1>2. open # {}
  BY DEF PopAdvance
<1>3. \E d \in open : \A e \in open : e <= d
  <2>1. open \in SUBSET (1..(Len(stack) - 1)) /\ Len(stack) - 1 \in Int
    BY <1>1
  <2> HIDE DEF open
  <2> QED
    BY <1>2, <2>1, GreatestDepth
<1> DEFINE d == CHOOSE d \in open : \A e \in open : e <= d
<1>4. d \in open /\ \A e \in open : e <= d
  BY <1>3
<1>5. PopAdvance(stack) = Advance(SubSeq(stack, 1, d))
  BY <1>2 DEF PopAdvance
<1> QED
  BY <1>4, <1>5

\* A prefix of the stack is a stack.
LEMMA PrefixShape ==
  ASSUME NEW stack \in Seq(Frame), NEW d \in 1..(Len(stack) - 1)
  PROVE  /\ SubSeq(stack, 1, d) \in Seq(Frame)
         /\ SubSeq(stack, 1, d) # << >>
         /\ Len(SubSeq(stack, 1, d)) = d
         /\ DOMAIN SubSeq(stack, 1, d) = 1..d
         /\ \A i \in 1..d : SubSeq(stack, 1, d)[i] = stack[i]
         /\ Top(SubSeq(stack, 1, d)) = stack[d]
<1>1. d \in Nat \ {0} /\ \A i \in 1..d : stack[i] \in Frame
  BY ElementOfSeq
<1>2. /\ SubSeq(stack, 1, d) \in Seq(Frame)
      /\ Len(SubSeq(stack, 1, d)) = d
      /\ \A i \in 1..d : SubSeq(stack, 1, d)[i] = stack[i]
  BY <1>1, SubSeqProperties
<1> QED
  BY <1>1, <1>2, LenProperties, EmptySeq DEF Top

\* The stack after popping is a well-formed, shorter one with the same
\* ancestors below, and it stands on properties if the frames below the old
\* top did.
LEMMA PopAdvanceKeeps ==
  ASSUME NEW stack \in Seq(Frame)
  PROVE  /\ PopAdvance(stack) \in Seq(Frame)
         /\ stack # << >> => Len(PopAdvance(stack)) < Len(stack)
         /\ Ancestors(stack) => Ancestors(PopAdvance(stack))
         /\ (\A i \in 1..(Len(stack) - 1) : OnProperty(stack[i]))
              => OnProperties(PopAdvance(stack))
<1>0. Len(stack) \in Nat /\ DOMAIN stack = 1..Len(stack)
      /\ (stack # << >> => Len(stack) > 0)
  BY LenProperties, EmptySeq
<1>1. CASE PopAdvance(stack) = << >>
  <2>1. << >> \in Seq(Frame) /\ Len(<< >>) = 0 /\ DOMAIN << >> = {}
    OBVIOUS
  <2> QED
    BY <1>0, <1>1, <2>1 DEF Ancestors, OnProperties
<1>2. CASE PopAdvance(stack) # << >>
  <2>1. PICK d \in 1..(Len(stack) - 1) :
           /\ HasNext(stack[d])
           /\ PopAdvance(stack) = Advance(SubSeq(stack, 1, d))
    BY <1>2, PopAdvanceShape
  <2> DEFINE low == SubSeq(stack, 1, d)
  <2>2. /\ low \in Seq(Frame) /\ low # << >> /\ Len(low) = d
        /\ \A i \in 1..d : low[i] = stack[i]
        /\ HasNext(Top(low))
    BY <2>1, PrefixShape
  <2> HIDE DEF low
  <2>3. /\ Advance(low) \in Seq(Frame)
        /\ Len(Advance(low)) = d
        /\ DOMAIN Advance(low) = 1..d
        /\ \A i \in 1..d : Advance(low)[i].obj = stack[i].obj
        /\ \A i \in 1..(d - 1) : Advance(low)[i] = stack[i]
        /\ OnProperty(Advance(low)[d])
    <3>1. /\ Advance(low) \in Seq(Frame)
          /\ Len(Advance(low)) = d
          /\ DOMAIN Advance(low) = 1..d
          /\ \A i \in 1..d : Advance(low)[i].obj = low[i].obj
          /\ \A i \in 1..(d - 1) : Advance(low)[i] = low[i]
          /\ OnProperty(Advance(low)[d])
      BY <2>2, AdvanceShape
    <3>2. \A i \in 1..d : Advance(low)[i].obj = stack[i].obj
      BY <2>2, <3>1
    <3>3. \A i \in 1..(d - 1) : i \in 1..d
      OBVIOUS
    <3>4. \A i \in 1..(d - 1) : Advance(low)[i] = stack[i]
      BY <2>2, <3>1, <3>3
    <3> QED
      BY <3>1, <3>2, <3>4
  <2>4. PopAdvance(stack) = Advance(low)
    BY <2>1 DEF low
  <2>5. Ancestors(stack) => Ancestors(Advance(low))
    BY <1>0, <2>3 DEF Ancestors
  <2>6. (\A i \in 1..(Len(stack) - 1) : OnProperty(stack[i]))
          => OnProperties(Advance(low))
    <3> SUFFICES ASSUME \A i \in 1..(Len(stack) - 1) : OnProperty(stack[i]),
                        NEW i \in 1..d
                 PROVE  OnProperty(Advance(low)[i])
      BY <2>3 DEF OnProperties
    <3>1. CASE i = d
      BY <2>3, <3>1
    <3>2. CASE i # d
      <4>1. i \in 1..(d - 1) /\ i \in 1..(Len(stack) - 1)
        BY <1>0, <3>2
      <4> QED
        BY <2>3, <4>1
    <3> QED
      BY <3>1, <3>2
  <2> QED
    BY <1>0, <2>3, <2>4, <2>5, <2>6
<1> QED
  BY <1>1, <1>2

\* Skip never enters an object: the stack keeps its ancestors, does not grow
\* and stays on properties.
LEMMA SkipKeeps ==
  ASSUME NEW stack \in Seq(Frame)
  PROVE  /\ Skip(stack) \in Seq(Frame)
         /\ Len(Skip(stack)) <= Len(stack)
         /\ Ancestors(stack) => Ancestors(Skip(stack))
         /\ OnProperties(stack) \/ Len(stack) <= 1 => OnProperties(Skip(stack))
<1>0. /\ Len(stack) \in Nat /\ DOMAIN stack = 1..Len(stack)
      /\ stack = << >> => Len(stack) = 0
      /\ stack # << >> => Len(stack) > 0
  BY LenProperties, EmptySeq
<1>1. CASE stack # << >> /\ HasNext(Top(stack))
  <2>1. Skip(stack) = Advance(stack)
    BY <1>1 DEF Skip
  <2>2. /\ Advance(stack) \in Seq(Frame)
        /\ Len(Advance(stack)) = Len(stack)
        /\ DOMAIN Advance(stack) = 1..Len(stack)
        /\ \A i \in 1..Len(stack) : Advance(stack)[i].obj = stack[i].obj
        /\ \A i \in 1..(Len(stack) - 1) : Advance(stack)[i] = stack[i]
        /\ OnProperty(Advance(stack)[Len(stack)])
    BY <1>1, AdvanceShape
  <2>3. Ancestors(stack) => Ancestors(Advance(stack))
    BY <1>0, <2>2 DEF Ancestors
  <2>4. ASSUME OnProperties(stack) \/ Len(stack) <= 1, NEW i \in 1..Len(stack)
        PROVE  OnProperty(Advance(stack)[i])
    <3>1. CASE i = Len(stack)
      BY <2>2, <3>1
    <3>2. CASE i # Len(stack)
      <4>0. i \in 1..(Len(stack) - 1) /\ ~(Len(stack) <= 1)
        BY <3>2
      <4>1. OnProperties(stack)
        BY <2>4, <4>0
      <4>2. OnProperty(stack[i])
        BY <1>0, <4>1 DEF OnProperties
      <4> QED
        BY <2>2, <4>0, <4>2
    <3> QED
      BY <3>1, <3>2
  <2>5. OnProperties(stack) \/ Len(stack) <= 1 => OnProperties(Advance(stack))
    BY <2>2, <2>4 DEF OnProperties
  <2> QED
    BY <1>0, <2>1, <2>2, <2>3, <2>5
<1>2. CASE ~(stack # << >> /\ HasNext(Top(stack)))
  <2>1. Skip(stack) = PopAdvance(stack)
    BY <1>2 DEF Skip
  <2>2. ASSUME OnProperties(stack) \/ Len(stack) <= 1,
               NEW i \in 1..(Len(stack) - 1)
        PROVE  OnProperty(stack[i])
    BY <1>0, <2>2 DEF OnProperties
  <2>3. Len(PopAdvance(stack)) <= Len(stack)
    <3>1. CASE stack = << >>
      <4>1. 1..(Len(stack) - 1) = {}
        BY <1>0, <3>1
      <4>2. PopAdvance(stack) = << >>
        BY <4>1 DEF PopAdvance
      <4> QED
        BY <3>1, <4>2
    <3>2. CASE stack # << >>
      BY <1>0, <3>2, PopAdvanceKeeps, LenProperties
    <3> QED
      BY <3>1, <3>2
  <2> QED
    BY <2>1, <2>2, <2>3, PopAdvanceKeeps
<1> QED
  BY <1>1, <1>2

\* Recurse keeps the objects on the stack distinct because it enters only an
\* object that is not there yet; it pushes at most one frame, and leaves no
\* frame without a current property behind.
LEMMA RecurseKeeps ==
  ASSUME NEW h \in [Obj -> Seq(Property)],
         NEW stack \in Seq(Frame)
  PROVE  /\ Recurse(h, stack) \in Seq(Frame)
         /\ Len(Recurse(h, stack)) <= Len(stack) + 1
         /\ Ancestors(stack) => Ancestors(Recurse(h, stack))
         /\ OnProperties(stack) \/ Len(stack) <= 1
              => OnProperties(Recurse(h, stack))
<1>0. /\ Len(stack) \in Nat /\ DOMAIN stack = 1..Len(stack)
      /\ stack # << >> => Len(stack) > 0
  BY LenProperties, EmptySeq
<1>1. CASE ~Enterable(h, stack)
  <2>1. Recurse(h, stack) = Skip(stack)
    BY <1>1 DEF Recurse
  <2>2. Len(Skip(stack)) \in Nat
    BY SkipKeeps, LenProperties
  <2> QED
    BY <1>0, <2>1, <2>2, SkipKeeps
<1>2. CASE Enterable(h, stack)
  <2> DEFINE o == CurrentValue(h, Top(stack))
             child == NewFrame(h, o)
             inner == Append(stack, child)
  <2>1. /\ o \in Obj /\ \A i \in DOMAIN stack : stack[i].obj # o
        /\ OnProperty(Top(stack)) /\ stack # << >>
    BY <1>2 DEF Enterable, Circular
  <2>2. child \in Frame /\ child.obj = o /\ child.idx = 0
    BY <2>1, NewFrameIsFrame
  <2>3. Push(h, stack, o) = inner
    BY DEF Push
  <2> HIDE DEF o, child
  <2>4. /\ inner \in Seq(Frame) /\ inner # << >>
        /\ Len(inner) = Len(stack) + 1
        /\ DOMAIN inner = 1..(Len(stack) + 1)
        /\ \A i \in 1..Len(stack) : inner[i] = stack[i]
        /\ inner[Len(stack) + 1] = child
        /\ Top(inner) = child
    BY <2>2, AppendProperties, LenProperties DEF Top
  <2>5. Recurse(h, stack) =
          IF Settable(child, 0) THEN inner ELSE PopAdvance(inner)
    BY <1>2, <2>3, <2>4 DEF Recurse, o
  <2>6. Ancestors(stack) => Ancestors(inner)
    BY <1>0, <2>1, <2>2, <2>4 DEF Ancestors
  <2>7. ASSUME OnProperties(stack) \/ Len(stack) <= 1,
               NEW i \in 1..Len(stack)
        PROVE  OnProperty(inner[i])
    <3>1. CASE i = Len(stack)
      BY <2>1, <2>4, <3>1 DEF Top
    <3>2. CASE i # Len(stack)
      <4>1. ~(Len(stack) <= 1)
        BY <3>2
      <4>2. OnProperties(stack)
        BY <2>7, <4>1
      <4>3. OnProperty(stack[i])
        BY <1>0, <4>2 DEF OnProperties
      <4> QED
        BY <2>4, <4>3
    <3> QED
      BY <3>1, <3>2
  <2>8. Settable(child, 0) => OnProperty(child)
    BY <2>2 DEF Settable, Target, OnProperty
  <2> HIDE DEF inner
  <2>9. CASE Settable(child, 0)
    <3>1. ASSUME OnProperties(stack) \/ Len(stack) <= 1,
                 NEW i \in DOMAIN inner
          PROVE  OnProperty(inner[i])
      <4>1. CASE i = Len(stack) + 1
        BY <2>4, <2>8, <2>9, <4>1
      <4>2. CASE i # Len(stack) + 1
        BY <1>0, <2>4, <2>7, <3>1, <4>2
      <4> QED
        BY <4>1, <4>2
    <3> QED
      BY <1>0, <2>4, <2>5, <2>6, <2>9, <3>1 DEF OnProperties
  <2>10. CASE ~Settable(child, 0)
    <3>1. Recurse(h, stack) = PopAdvance(inner)
      BY <2>5, <2>10
    <3>2. Len(inner) - 1 = Len(stack)
      BY <1>0, <2>4
    <3>3. OnProperties(stack) \/ Len(stack) <= 1 => OnProperties(PopAdvance(inner))
      BY <2>4, <2>7, <3>2, PopAdvanceKeeps
    <3>4. PopAdvance(inner) \in Seq(Frame) /\ Len(PopAdvance(inner)) < Len(inner)
      BY <2>4, PopAdvanceKeeps
    <3>5. Ancestors(inner) => Ancestors(PopAdvance(inner))
      BY <2>4, PopAdvanceKeeps
    <3>6. Len(PopAdvance(inner)) \in Nat
      BY <3>4, LenProperties
    <3> QED
      BY <1>0, <2>4, <2>6, <3>1, <3>3, <3>4, <3>5, <3>6
  <2> QED
    BY <2>9, <2>10
<1> QED
  BY <1>1, <1>2
\* A stack that agrees with another below its top and stands further along
\* there is after it in document order.
LEMMA FurtherIsAfter ==
  ASSUME NEW stack \in Seq(Frame), NEW d \in 1..Len(stack),
         NEW next \in Seq(Frame), Len(next) = d,
         \A i \in 1..(d - 1) : next[i] = stack[i],
         next[d].idx = stack[d].idx + 1
  PROVE  Before(PathOf(stack), PathOf(next))
<1>1. DOMAIN PathOf(stack) = 1..Len(stack) /\ DOMAIN PathOf(next) = 1..d
  BY LenProperties DEF PathOf
<1>2. Len(stack) \in Nat /\ d \in 1..d /\ 1..(d - 1) \subseteq 1..d
      /\ 1..d \subseteq 1..Len(stack)
  OBVIOUS
<1>3. /\ \A i \in 1..Len(stack) : PathOf(stack)[i] = stack[i].idx
      /\ \A i \in 1..d : PathOf(next)[i] = next[i].idx
  BY LenProperties DEF PathOf
<1>4. stack[d].idx \in Nat
  <2>1. stack[d] \in Frame
    BY ElementOfSeq
  <2> QED
    BY <2>1 DEF Frame
<1>5. PathOf(stack)[d] < PathOf(next)[d]
  <2>1. PathOf(stack)[d] = stack[d].idx /\ PathOf(next)[d] = stack[d].idx + 1
    BY <1>2, <1>3
  <2> QED
    BY <1>4, <2>1
<1>6. \A i \in 1..(d - 1) : PathOf(stack)[i] = PathOf(next)[i]
  <2> TAKE i \in 1..(d - 1)
  <2>1. i \in 1..d /\ i \in 1..Len(stack)
    BY <1>2
  <2> QED
    BY <1>3, <2>1
<1>7. d \in DOMAIN PathOf(stack) \cap DOMAIN PathOf(next)
  BY <1>1, <1>2
<1> QED
  BY <1>5, <1>6, <1>7 DEF Before

\* Popping moves to a position after every one below the popped frames.
LEMMA PopAdvanceForward ==
  ASSUME NEW stack \in Seq(Frame), PopAdvance(stack) # << >>
  PROVE  Before(PathOf(stack), PathOf(PopAdvance(stack)))
<1>1. PICK d \in 1..(Len(stack) - 1) :
         /\ HasNext(stack[d])
         /\ PopAdvance(stack) = Advance(SubSeq(stack, 1, d))
  BY PopAdvanceShape
<1> DEFINE low == SubSeq(stack, 1, d)
<1>2. /\ low \in Seq(Frame) /\ low # << >> /\ Len(low) = d
      /\ \A i \in 1..d : low[i] = stack[i]
      /\ HasNext(Top(low))
  BY <1>1, PrefixShape
<1>3. PopAdvance(stack) = Advance(low)
  BY <1>1
<1> HIDE DEF low
<1>4. /\ Advance(low) \in Seq(Frame)
      /\ Len(Advance(low)) = d
      /\ \A i \in 1..(d - 1) : Advance(low)[i] = low[i]
      /\ Advance(low)[d].idx = low[d].idx + 1
  BY <1>2, AdvanceShape
<1>5. Len(stack) \in Nat
  OBVIOUS
<1>6. d \in 1..Len(stack) /\ d \in 1..d /\ 1..(d - 1) \subseteq 1..d
  BY <1>5
<1>7. /\ \A i \in 1..(d - 1) : Advance(low)[i] = stack[i]
      /\ Advance(low)[d].idx = stack[d].idx + 1
  BY <1>2, <1>4, <1>6
<1> QED
  BY <1>3, <1>4, <1>6, <1>7, FurtherIsAfter

\* Skip moves forward or ends the walk.
LEMMA SkipForward ==
  ASSUME NEW stack \in Seq(Frame), stack # << >>, Skip(stack) # << >>
  PROVE  Before(PathOf(stack), PathOf(Skip(stack)))
<1>1. CASE HasNext(Top(stack))
  <2>1. Skip(stack) = Advance(stack)
    BY <1>1 DEF Skip
  <2>2. /\ Advance(stack) \in Seq(Frame)
        /\ Len(Advance(stack)) = Len(stack)
        /\ \A i \in 1..(Len(stack) - 1) : Advance(stack)[i] = stack[i]
        /\ Advance(stack)[Len(stack)].idx = stack[Len(stack)].idx + 1
    BY <1>1, AdvanceShape
  <2>3. Len(stack) \in 1..Len(stack)
    BY EmptySeq, LenProperties
  <2> QED
    BY <2>1, <2>2, <2>3, FurtherIsAfter
<1>2. CASE ~HasNext(Top(stack))
  <2>1. Skip(stack) = PopAdvance(stack)
    BY <1>2 DEF Skip
  <2> QED
    BY <2>1, PopAdvanceForward
<1> QED
  BY <1>1, <1>2

\* A longer stack with the same frames below is a position inside this one.
LEMMA InsideIsAfter ==
  ASSUME NEW stack \in Seq(Frame), NEW child \in Frame
  PROVE  Before(PathOf(stack), PathOf(Append(stack, child)))
<1> DEFINE inner == Append(stack, child)
<1>1. /\ inner \in Seq(Frame) /\ Len(inner) = Len(stack) + 1
      /\ \A i \in 1..Len(stack) : inner[i] = stack[i]
  BY AppendProperties
<1> HIDE DEF inner
<1>2. /\ DOMAIN PathOf(stack) = 1..Len(stack)
      /\ \A i \in 1..Len(stack) : PathOf(stack)[i] = stack[i].idx
      /\ Len(PathOf(stack)) = Len(stack)
  BY LenProperties DEF PathOf
<1>3. /\ \A i \in 1..(Len(stack) + 1) : PathOf(inner)[i] = inner[i].idx
      /\ Len(PathOf(inner)) = Len(stack) + 1
  BY <1>1, LenProperties DEF PathOf
<1>4. Len(stack) \in Nat
  OBVIOUS
<1>5. 1..Len(stack) \subseteq 1..(Len(stack) + 1) /\ Len(stack) < Len(stack) + 1
  BY <1>4
<1>6. \A i \in DOMAIN PathOf(stack) : PathOf(stack)[i] = PathOf(inner)[i]
  BY <1>1, <1>2, <1>3, <1>5
<1>7. Len(PathOf(stack)) < Len(PathOf(inner))
  BY <1>2, <1>3, <1>5
<1> QED
  BY <1>6, <1>7 DEF Before, inner

\* An end of the walk found above a stack is an end found above its prefix:
\* what PopAdvance does depends on the frames below the top alone.
LEMMA PopAdvanceForwardBelow ==
  ASSUME NEW stack \in Seq(Frame), NEW child \in Frame,
         PopAdvance(Append(stack, child)) # << >>
  PROVE  Before(PathOf(stack), PathOf(PopAdvance(Append(stack, child))))
<1> DEFINE inner == Append(stack, child)
<1>1. /\ inner \in Seq(Frame) /\ Len(inner) = Len(stack) + 1
      /\ \A i \in 1..Len(stack) : inner[i] = stack[i]
      /\ PopAdvance(inner) # << >>
  BY AppendProperties
<1>2. SUFFICES Before(PathOf(stack), PathOf(PopAdvance(inner)))
  OBVIOUS
<1> HIDE DEF inner
<1>3. PICK d \in 1..(Len(inner) - 1) :
         /\ HasNext(inner[d])
         /\ PopAdvance(inner) = Advance(SubSeq(inner, 1, d))
  BY <1>1, PopAdvanceShape
<1> DEFINE low == SubSeq(inner, 1, d)
<1>4. /\ low \in Seq(Frame) /\ low # << >> /\ Len(low) = d
      /\ \A i \in 1..d : low[i] = inner[i]
      /\ HasNext(Top(low))
  BY <1>1, <1>3, PrefixShape
<1>5. PopAdvance(inner) = Advance(low)
  BY <1>3
<1> HIDE DEF low
<1>6. /\ Advance(low) \in Seq(Frame)
      /\ Len(Advance(low)) = d
      /\ \A i \in 1..(d - 1) : Advance(low)[i] = low[i]
      /\ Advance(low)[d].idx = low[d].idx + 1
  BY <1>4, AdvanceShape
<1>7. Len(stack) \in Nat /\ Len(inner) - 1 = Len(stack)
  BY <1>1
<1>8. d \in 1..Len(stack) /\ d \in 1..d /\ 1..(d - 1) \subseteq 1..d
      /\ 1..d \subseteq 1..Len(stack)
  BY <1>7
<1>9. /\ \A i \in 1..(d - 1) : Advance(low)[i] = stack[i]
      /\ Advance(low)[d].idx = stack[d].idx + 1
  BY <1>1, <1>4, <1>6, <1>8
<1> QED
  BY <1>5, <1>6, <1>8, <1>9, FurtherIsAfter

\* Recurse moves forward or ends the walk.
LEMMA RecurseForward ==
  ASSUME NEW h \in [Obj -> Seq(Property)],
         NEW stack \in Seq(Frame), stack # << >>, Recurse(h, stack) # << >>
  PROVE  Before(PathOf(stack), PathOf(Recurse(h, stack)))
<1>1. CASE ~Enterable(h, stack)
  <2>1. Recurse(h, stack) = Skip(stack)
    BY <1>1 DEF Recurse
  <2> QED
    BY <2>1, SkipForward
<1>2. CASE Enterable(h, stack)
  <2> DEFINE o == CurrentValue(h, Top(stack))
             child == NewFrame(h, o)
             inner == Append(stack, child)
  <2>1. o \in Obj
    BY <1>2 DEF Enterable
  <2>2. child \in Frame
    BY <2>1, NewFrameIsFrame
  <2>3. Recurse(h, stack) = inner \/ Recurse(h, stack) = PopAdvance(inner)
    BY <1>2 DEF Recurse, Push
  <2> HIDE DEF o, child
  <2> QED
    BY <2>2, <2>3, InsideIsAfter, PopAdvanceForwardBelow
<1> QED
  BY <1>1, <1>2

----------------------------------------------------------------------------
(* The invariant of the iterator.                                          *)

(***************************************************************************)
(* FramesOnProperties is inductive together with the type of the stack;    *)
(* the distinctness of the ancestors and the depth bound are inductive     *)
(* beside it.  Asked says that, unless a predicate calls next() itself,    *)
(* the predicate runs only on a property and no assertion fails.           *)
(***************************************************************************)
Asked ==
  MaxNested = 0 =>
    /\ pc # "abort"
    /\ pc = "pred" => frames # << >> /\ Len(Top(frames).tab) > 0

IInv ==
  /\ TypeOK
  /\ NoRepeatedAncestor
  /\ FramesOnProperties
  /\ DepthBounded
  /\ Asked

\* A stack that satisfies FramesOnProperties is one the engine's lemmas take.
LEMMA OnPropertiesOrRoot ==
  ASSUME frames \in Seq(Frame), FramesOnProperties
  PROVE  OnProperties(frames) \/ Len(frames) <= 1
<1>1. CASE \A i \in DOMAIN frames : OnProperty(frames[i])
  <2>1. OnProperties(frames)
    BY <1>1 DEF OnProperties
  <2> QED
    BY <2>1
<1>2. CASE Len(frames) = 1 /\ frames[1].tab = << >>
  <2>1. Len(frames) <= 1
    BY <1>2
  <2> QED
    BY <2>1
<1> QED
  BY <1>1, <1>2 DEF FramesOnProperties

\* One pass of the loop's head keeps the stack in order, whatever the heap is.
LEMMA PenumKeeps ==
  ASSUME IInv
  PROVE  /\ Penum \in Seq(Frame)
         /\ Ancestors(Penum)
         /\ OnProperties(Penum) \/ (Len(Penum) = 1 /\ Penum[1].tab = << >>)
         /\ Len(Penum) <= MaxDepth
<1>1. /\ frames \in Seq(Frame) /\ Len(frames) \in Nat
      /\ heap \in [Obj -> Seq(Property)]
      /\ Root \in Obj /\ MaxDepth \in Nat \ {0}
      /\ Len(frames) <= MaxDepth
  BY DeepAssumption, LenProperties DEF IInv, TypeOK, DepthBounded
<1>2. Ancestors(frames)
  BY DEF IInv, NoRepeatedAncestor, Ancestors
<1>3. OnProperties(frames) \/ Len(frames) <= 1
  BY <1>1, OnPropertiesOrRoot DEF IInv
<1>4. CASE Len(frames) = 0
  <2>1. frames = << >>
    BY <1>1, <1>4, EmptySeq
  <2> DEFINE root == NewFrame(heap, Root)
  <2>2. Penum = << root >>
    <3>1. Penum = Push(heap, frames, Root)
      BY <1>4 DEF Penum
    <3>2. Push(heap, frames, Root) = Append(<< >>, root)
      BY <2>1 DEF Push
    <3> HIDE DEF root
    <3>3. Append(<< >>, root) = << root >>
      OBVIOUS
    <3> QED
      BY <3>1, <3>2, <3>3
  <2>3. root \in Frame /\ root.idx = 0
    BY <1>1, NewFrameIsFrame
  <2> HIDE DEF root
  <2>4. << root >> \in Seq(Frame) /\ Len(<< root >>) = 1 /\ DOMAIN << root >> = {1}
    BY <2>3
  <2>5. << root >>[1] = root
    OBVIOUS
  <2>6. Ancestors(<< root >>)
    BY <2>4 DEF Ancestors
  <2>7. root.tab = << >> \/ OnProperty(root)
    <3>1. root.tab \in Seq(Key)
      BY <2>3 DEF Frame
    <3>2. root.tab # << >> => Len(root.tab) > 0
      BY <3>1, EmptySeq
    <3> QED
      BY <2>3, <3>2 DEF OnProperty
  <2>8. OnProperty(root) => OnProperties(<< root >>)
    BY <2>4, <2>5 DEF OnProperties
  <2> QED
    BY <1>1, <2>2, <2>4, <2>5, <2>6, <2>7, <2>8
<1>5. CASE Len(frames) # 0 /\ Len(frames) >= MaxDepth
  <2>1. Penum = Skip(frames)
    BY <1>5 DEF Penum
  <2>2. Skip(frames) \in Seq(Frame) /\ Len(Skip(frames)) <= Len(frames)
    BY <1>1, SkipKeeps
  <2>3. Ancestors(Skip(frames)) /\ OnProperties(Skip(frames))
    BY <1>1, <1>2, <1>3, SkipKeeps
  <2>4. Len(Skip(frames)) \in Nat
    BY <2>2, LenProperties
  <2> QED
    BY <1>1, <2>1, <2>2, <2>3, <2>4
<1>6. CASE Len(frames) # 0 /\ ~(Len(frames) >= MaxDepth)
  <2>1. Penum = Recurse(heap, frames)
    BY <1>6 DEF Penum
  <2>2. Recurse(heap, frames) \in Seq(Frame)
        /\ Len(Recurse(heap, frames)) <= Len(frames) + 1
    BY <1>1, RecurseKeeps
  <2>3. Ancestors(Recurse(heap, frames)) /\ OnProperties(Recurse(heap, frames))
    BY <1>1, <1>2, <1>3, RecurseKeeps
  <2>4. Len(Recurse(heap, frames)) \in Nat
    BY <2>2, LenProperties
  <2> QED
    BY <1>1, <1>6, <2>1, <2>2, <2>3, <2>4
<1> QED
  BY <1>4, <1>5, <1>6

\* The parts of the invariant that speak of the stack alone follow when the
\* next stack is the one the loop's head computes.
LEMMA StackFollows ==
  ASSUME IInv, frames' = Penum
  PROVE  /\ frames' \in Seq(Frame)
         /\ NoRepeatedAncestor'
         /\ FramesOnProperties'
         /\ DepthBounded'
<1>1. /\ Penum \in Seq(Frame)
      /\ Ancestors(Penum)
      /\ OnProperties(Penum) \/ (Len(Penum) = 1 /\ Penum[1].tab = << >>)
      /\ Len(Penum) <= MaxDepth
  BY PenumKeeps
<1>2. /\ frames' \in Seq(Frame)
      /\ Ancestors(frames')
      /\ OnProperties(frames') \/ (Len(frames') = 1 /\ frames'[1].tab = << >>)
      /\ Len(frames') <= MaxDepth
  BY <1>1
<1> QED
  BY <1>2 DEF Ancestors, OnProperties, NoRepeatedAncestor, FramesOnProperties, DepthBounded

\* Removing a property or changing one leaves the heap well formed.
LEMMA HeapKeeps ==
  ASSUME IInv, NEW o \in Obj, NEW k \in Key,
         Delete(o, k) \/ \E v \in Value : Assign(o, k, v)
  PROVE  heap' \in [Obj -> Seq(Property)]
<1>1. heap \in [Obj -> Seq(Property)]
  BY DEF IInv, TypeOK
<1>2. heap[o] \in Seq(Property)
  BY <1>1
<1>3. ASSUME NEW v \in Value, Assign(o, k, v)
      PROVE  heap' \in [Obj -> Seq(Property)]
  <2> DEFINE p == [key |-> k, val |-> v]
  <2>1. p \in Property
    BY DEF Property
  <2>2. CASE heap' = [heap EXCEPT ![o] = Append(@, p)]
    <3>1. Append(heap[o], p) \in Seq(Property)
      BY <1>2, <2>1, AppendProperties
    <3> QED
      BY <1>1, <2>2, <3>1
  <2>3. CASE heap' = [heap EXCEPT ![o] =
                       [i \in DOMAIN heap[o] |->
                          IF heap[o][i].key = k THEN p ELSE heap[o][i]]]
    <3> DEFINE changed == [i \in DOMAIN heap[o] |->
                             IF heap[o][i].key = k THEN p ELSE heap[o][i]]
    <3>1. /\ Len(heap[o]) \in Nat /\ DOMAIN heap[o] = 1..Len(heap[o])
          /\ \A i \in 1..Len(heap[o]) : heap[o][i] \in Property
      BY <1>2, LenProperties, ElementOfSeq
    <3>2. changed \in [1..Len(heap[o]) -> Property]
      BY <2>1, <3>1
    <3>3. changed \in Seq(Property)
      BY <3>1, <3>2
    <3> QED
      BY <1>1, <2>3, <3>3
  <2> QED
    BY <1>3, <2>2, <2>3 DEF Assign
<1>4. ASSUME Delete(o, k)
      PROVE  heap' \in [Obj -> Seq(Property)]
  <2>1. PICK i \in At(heap[o], k) :
           heap' = [heap EXCEPT ![o] = SubSeq(@, 1, i - 1) \o SubSeq(@, i + 1, Len(@))]
    BY <1>4 DEF Delete
  <2>2. /\ i \in 1..Len(heap[o]) /\ Len(heap[o]) \in Nat
        /\ \A j \in 1..Len(heap[o]) : heap[o][j] \in Property
    BY <1>2, <2>1, LenProperties, ElementOfSeq DEF At
  <2>3. SubSeq(heap[o], 1, i - 1) \in Seq(Property)
    BY <2>2, SubSeqProperties
  <2>4. SubSeq(heap[o], i + 1, Len(heap[o])) \in Seq(Property)
    BY <2>2, SubSeqProperties
  <2>5. SubSeq(heap[o], 1, i - 1) \o SubSeq(heap[o], i + 1, Len(heap[o])) \in Seq(Property)
    BY <2>3, <2>4, ConcatProperties
  <2> QED
    BY <1>1, <2>1, <2>5
<1> QED
  BY <1>3, <1>4

\* The predicate is asked about a position that next() can return.
LEMMA AskedIsReturnable ==
  ASSUME IInv, MaxNested = 0, pc = "pred"
  PROVE  Returnable
<1>1. frames # << >> /\ Len(Top(frames).tab) > 0 /\ frames \in Seq(Frame)
  BY DEF IInv, Asked, TypeOK
<1>2. Len(frames) \in DOMAIN frames
  BY <1>1, EmptySeq, LenProperties
<1>3. CASE \A i \in DOMAIN frames : OnProperty(frames[i])
  BY <1>1, <1>2, <1>3 DEF Returnable, Top
<1>4. CASE Len(frames) = 1 /\ frames[1].tab = << >>
  <2>1. Top(frames).tab = << >>
    BY <1>4 DEF Top
  <2>2. Len(Top(frames).tab) = 0
    BY <2>1
  <2> QED
    BY <1>1, <2>2
<1> QED
  BY <1>3, <1>4 DEF IInv, FramesOnProperties

\* The invariant holds before the first call.
LEMMA InitIInv == Init => IInv
<1> SUFFICES ASSUME Init PROVE IInv
  OBVIOUS
<1>1. heap \in [Obj -> Seq(Property)] /\ frames = << >> /\ pc = "idle" /\ nested = 0
  BY DeepAssumption DEF Init
<1>2. frames \in Seq(Frame) /\ Len(frames) = 0 /\ DOMAIN frames = {}
  BY <1>1
<1>3. TypeOK
  BY <1>1, <1>2, DeepAssumption DEF TypeOK, Control
<1> QED
  BY <1>1, <1>2, <1>3, DeepAssumption
     DEF IInv, NoRepeatedAncestor, FramesOnProperties, DepthBounded, Asked

\* Every step of the engine, the predicate and the program keeps it.
LEMMA NextIInv == IInv /\ [Next]_vars => IInv'
<1> SUFFICES ASSUME IInv, [Next]_vars PROVE IInv'
  OBVIOUS
<1> USE DEF Control
<1>0. /\ heap \in [Obj -> Seq(Property)] /\ frames \in Seq(Frame)
      /\ pc \in Control /\ nested \in 0..MaxNested /\ MaxNested \in Nat
  BY DeepAssumption DEF IInv, TypeOK
<1>1. ASSUME UNCHANGED frames,
             heap' \in [Obj -> Seq(Property)], pc' \in Control, nested' \in 0..MaxNested,
             Asked'
      PROVE  IInv'
  BY <1>1 DEF IInv, TypeOK, NoRepeatedAncestor, FramesOnProperties, DepthBounded
<1>2. CASE Call
  BY <1>0, <1>1, <1>2 DEF Call, Asked
<1>3. CASE Exhausted
  <2>1. frames' = Penum /\ frames' = << >> /\ heap' = heap
    BY <1>3 DEF Exhausted
  <2>2. pc' \in Control /\ nested' \in 0..MaxNested
        /\ (MaxNested = 0 => pc' = "idle")
    BY <1>0, <1>3 DEF Exhausted, Return
  <2> QED
    BY <1>0, <2>1, <2>2, StackFollows DEF IInv, TypeOK, Asked
<1>4. CASE EmptyRoot
  <2>1. frames' = Penum /\ heap' = heap /\ pc' = "loop" /\ nested' = nested
    BY <1>4 DEF EmptyRoot
  <2> QED
    BY <1>0, <2>1, StackFollows DEF IInv, TypeOK, Asked
<1>5. CASE Position
  <2>1. /\ frames' = Penum /\ heap' = heap /\ pc' = "pred" /\ nested' = nested
        /\ Penum # << >> /\ Len(Top(Penum).tab) > 0
    BY <1>5 DEF Position
  <2>2. frames' # << >> /\ Len(Top(frames)'.tab) > 0
    BY <2>1 DEF Top
  <2> QED
    BY <1>0, <2>1, <2>2, StackFollows DEF IInv, TypeOK, Asked
<1>6. CASE Reject
  BY <1>0, <1>1, <1>6 DEF Reject, Asked
<1>7. CASE Accept
  <2>1. UNCHANGED <<heap, frames>>
    BY <1>7 DEF Accept
  <2>2. pc' \in Control /\ nested' \in 0..MaxNested
        /\ (MaxNested = 0 => pc' = "idle")
    BY <1>0, <1>7 DEF Accept, Return
  <2> QED
    BY <1>0, <1>1, <2>1, <2>2 DEF Asked
<1>8. CASE AcceptAborts
  <2>1. pc = "pred" /\ ~Returnable /\ pc' = "abort" /\ UNCHANGED <<heap, frames, nested>>
    BY <1>8 DEF AcceptAborts
  <2>2. MaxNested # 0
    BY <2>1, AskedIsReturnable
  <2> QED
    BY <1>0, <1>1, <2>1, <2>2 DEF Asked
<1>9. CASE NestedCall
  BY <1>0, <1>1, <1>9 DEF NestedCall, Asked
<1>10. ASSUME NEW o \in Obj, NEW k \in Key,
              Delete(o, k) \/ \E v \in Value : Assign(o, k, v)
       PROVE  IInv'
  <2>1. UNCHANGED <<frames, pc, nested>>
    BY <1>10 DEF Delete, Assign
  <2>2. heap' \in [Obj -> Seq(Property)]
    BY <1>10, HeapKeeps
  <2>3. Asked'
    BY <2>1 DEF Asked, IInv, Top
  <2> QED
    BY <1>0, <1>1, <2>1, <2>2, <2>3
<1>11. CASE UNCHANGED vars
  BY <1>0, <1>1, <1>11 DEF vars, Asked, IInv, Top
<1> QED
  BY <1>2, <1>3, <1>4, <1>5, <1>6, <1>7, <1>8, <1>9, <1>10, <1>11
     DEF Next, Engine, Predicate, Program

\* It holds in every state.
LEMMA Invariance == Spec => []IInv
BY InitIInv, NextIInv, PTL DEF Spec

\* The variables keep their types, however the program changes the objects.
THEOREM TypeCorrect == Spec => []TypeOK
<1>1. IInv => TypeOK
  BY DEF IInv
<1> QED
  BY <1>1, Invariance, PTL

\* No object is ever on the stack twice.
THEOREM AncestorsDistinct == Spec => []NoRepeatedAncestor
<1>1. IInv => NoRepeatedAncestor
  BY DEF IInv
<1> QED
  BY <1>1, Invariance, PTL

\* Every frame stands on a property, or is the one frame of an empty root.
THEOREM AccessorsAssertion == Spec => []FramesOnProperties
<1>1. IInv => FramesOnProperties
  BY DEF IInv
<1> QED
  BY <1>1, Invariance, PTL

\* The depth asked for is never exceeded.
THEOREM DepthLimit == Spec => []DepthBounded
<1>1. IInv => DepthBounded
  BY DEF IInv
<1> QED
  BY <1>1, Invariance, PTL
\* next() fails no assertion as long as no predicate calls it, however the
\* predicates and the program change the objects.
THEOREM AssertionsHold ==
  ASSUME MaxNested = 0
  PROVE  Spec => []NoAbort
<1>1. IInv => NoAbort
  BY DEF IInv, Asked, NoAbort
<1> QED
  BY <1>1, Invariance, PTL

\* Every move of the engine goes forward in document order.
THEOREM Forward == Spec => StrictlyForward
<1>1. IInv /\ [Next]_vars
        => [frames # << >> /\ frames' # << >> /\ frames' # frames
              => Before(PathOf(frames), PathOf(frames'))]_vars
  <2> SUFFICES ASSUME IInv, Next, frames # << >>, frames' # << >>, frames' # frames
               PROVE  Before(PathOf(frames), PathOf(frames'))
    OBVIOUS
  <2>1. heap \in [Obj -> Seq(Property)] /\ frames \in Seq(Frame)
    BY DEF IInv, TypeOK
  <2>2. frames' = Penum
    BY DEF Next, Engine, Predicate, Program, Exhausted, EmptyRoot, Position, Reject,
           Accept, AcceptAborts, Call, NestedCall, Assign, Delete
  <2>3. Len(frames) # 0
    BY <2>1, EmptySeq
  <2>4. frames' = Skip(frames) \/ frames' = Recurse(heap, frames)
    BY <2>2, <2>3 DEF Penum
  <2> QED
    BY <2>1, <2>4, SkipForward, RecurseForward
<1> QED
  BY <1>1, Invariance, PTL DEF Spec, StrictlyForward

----------------------------------------------------------------------------
(* Stacks that stand on a graph, and the positions of the abstract walk.   *)

\* A graph as JavaScript objects make one.
Plain(h) == h \in [Obj -> Seq(Property)] /\ \A o \in Obj : Unique(h[o])

\* the frames still say what the heap says
Faithful(h, s) ==
  /\ s[1].obj = Root
  /\ \A i \in DOMAIN s : s[i].tab = Names(h[s[i].obj])
  /\ \A i \in 1..(Len(s) - 1) : s[i + 1].obj = CurrentValue(h, s[i])

Standing(h, s) ==
  /\ s \in Seq(Frame) /\ s # << >>
  /\ Len(s) <= MaxDepth
  /\ OnProperties(s)
  /\ Ancestors(s)
  /\ Faithful(h, s)

\* The names of an object's properties are as many.
LEMMA NamesLength ==
  ASSUME NEW h \in [Obj -> Seq(Property)], NEW o \in Obj
  PROVE  Len(Names(h[o])) = Len(h[o])
<1>1. Len(NewFrame(h, o).tab) = Len(h[o])
  BY NewFrameIsFrame
<1> QED
  BY <1>1 DEF NewFrame

\* What a standing stack gives place by place.
LEMMA StandingFrames ==
  ASSUME NEW h, Plain(h), NEW s, Standing(h, s)
  PROVE  /\ Len(s) \in Nat \ {0} /\ Len(s) <= MaxDepth /\ DOMAIN s = 1..Len(s)
         /\ \A i \in 1..Len(s) :
              /\ s[i] \in Frame
              /\ s[i].obj \in Obj /\ s[i].idx \in Nat
              /\ s[i].tab = Names(h[s[i].obj])
              /\ s[i].idx < Len(h[s[i].obj])
<1>1. s \in Seq(Frame) /\ Len(s) \in Nat \ {0} /\ Len(s) <= MaxDepth /\ DOMAIN s = 1..Len(s)
  BY EmptySeq, LenProperties DEF Standing
<1>2. ASSUME NEW i \in 1..Len(s)
      PROVE  /\ s[i] \in Frame
             /\ s[i].obj \in Obj /\ s[i].idx \in Nat
             /\ s[i].tab = Names(h[s[i].obj])
             /\ s[i].idx < Len(h[s[i].obj])
  <2>1. s[i] \in Frame
    BY <1>1, ElementOfSeq
  <2>2. s[i].obj \in Obj /\ s[i].idx \in Nat
    BY <2>1 DEF Frame
  <2>3. s[i].tab = Names(h[s[i].obj]) /\ s[i].idx < Len(s[i].tab)
    BY <1>1 DEF Standing, Faithful, OnProperties, OnProperty
  <2>4. Len(Names(h[s[i].obj])) = Len(h[s[i].obj])
    BY <2>2, NamesLength DEF Plain
  <2> QED
    BY <2>1, <2>2, <2>3, <2>4
<1> QED
  BY <1>1, <1>2

\* The property the engine reads by name is the one at its place, since an
\* object has one property of a name.
LEMMA CurrentIsPlace ==
  ASSUME NEW h, Plain(h), NEW it \in Frame, it.tab = Names(h[it.obj]),
         it.idx < Len(h[it.obj])
  PROVE  CurrentValue(h, it) = h[it.obj][it.idx + 1].val
<1> DEFINE o == it.obj
           place == it.idx + 1
           k == CurrentKey(it)
<1>1. o \in Obj /\ it.idx \in Nat
  BY DEF Frame
<1>2. h[o] \in Seq(Property)
  BY <1>1 DEF Plain
<1>3. Len(h[o]) \in Nat /\ DOMAIN h[o] = 1..Len(h[o])
  BY <1>2, LenProperties
<1>4. place \in DOMAIN h[o]
  BY <1>1, <1>3
<1>5. k = h[o][place].key
  BY <1>4 DEF CurrentKey, Names
<1>6. At(h[o], k) = {place}
  <2> HIDE DEF place, k
  <2>1. \A i \in DOMAIN h[o] : h[o][i].key = k => i = place
    BY <1>1, <1>4, <1>5 DEF Plain, Unique
  <2> QED
    BY <1>4, <1>5, <2>1 DEF At
<1>7. GetProperty(h, o, k) = h[o][place].val
  <2> HIDE DEF place, k
  <2> QED
    BY <1>6 DEF GetProperty
<1> QED
  BY <1>7 DEF CurrentValue

\* A place is left in a frame exactly if its object has a further property.
LEMMA HasNextIsRoom ==
  ASSUME NEW h, Plain(h), NEW it \in Frame, it.tab = Names(h[it.obj])
  PROVE  HasNext(it) <=> it.idx + 1 < Len(h[it.obj])
<1>1. it.obj \in Obj /\ it.idx \in Nat
  BY DEF Frame
<1>2. Len(it.tab) = Len(h[it.obj])
  BY <1>1, NamesLength DEF Plain
<1> QED
  BY <1>1, <1>2 DEF HasNext, Settable, Target

\* The object of a frame is the value at the place of the one below.
LEMMA StandingLinks ==
  ASSUME NEW h, Plain(h), NEW s, Standing(h, s), NEW i \in 1..(Len(s) - 1)
  PROVE  s[i + 1].obj = h[s[i].obj][s[i].idx + 1].val
<1>1. /\ s[i] \in Frame /\ s[i].tab = Names(h[s[i].obj])
      /\ s[i].idx < Len(h[s[i].obj])
  BY StandingFrames
<1> QED
  BY <1>1, CurrentIsPlace DEF Standing, Faithful

\* The path of a standing stack, place by place.
LEMMA PathOfStanding ==
  ASSUME NEW h, Plain(h), NEW s, Standing(h, s)
  PROVE  /\ PathOf(s) \in [1..Len(s) -> Nat]
         /\ DOMAIN PathOf(s) = 1..Len(s)
         /\ Len(PathOf(s)) = Len(s)
         /\ \A i \in 1..Len(s) : PathOf(s)[i] = s[i].idx
BY StandingFrames DEF PathOf

\* Where a standing stack is, is a position of the walk.
LEMMA StandingIsPosition ==
  ASSUME NEW h, Plain(h), NEW s, Standing(h, s)
  PROVE  PathOf(s) \in Walk!Positions(h)
<1> DEFINE n == Len(s)
           p == PathOf(s)
           os == [i \in 1..n |-> s[i].obj]
<1>1. /\ n \in Nat \ {0} /\ n <= MaxDepth /\ DOMAIN s = 1..n
      /\ \A i \in 1..n : /\ s[i].obj \in Obj /\ s[i].idx \in Nat
                         /\ s[i].idx < Len(h[s[i].obj])
  BY StandingFrames
<1>2. n \in 1..MaxDepth
  BY <1>1, DeepAssumption
<1>3. DOMAIN p = 1..n /\ \A i \in 1..n : p[i] = s[i].idx
  BY PathOfStanding
<1>4. p \in [1..n -> Walk!Offsets(h)]
  <2>1. ASSUME NEW i \in 1..n
        PROVE  s[i].idx \in Walk!Offsets(h)
    <3>1. h[s[i].obj] \in Seq(Property)
      BY <1>1 DEF Plain
    <3>2. s[i].idx \in 0..(Len(h[s[i].obj]) - 1)
      BY <1>1, <3>1, LenProperties
    <3> QED
      BY <1>1, <3>2 DEF Walk!Offsets
  <2> QED
    BY <1>1, <2>1 DEF PathOf
<1>5. os \in [DOMAIN p -> Obj]
  BY <1>1, <1>3
<1>6. Walk!Leads(h, p, os)
  <2>1. os[1] = Root
    BY <1>1 DEF Standing, Faithful
  <2>2. ASSUME NEW i \in 1..n
        PROVE  p[i] < Len(h[os[i]])
    BY <1>1, <1>3
  <2>3. ASSUME NEW i \in 1..n, i > 1
        PROVE  os[i] = h[os[i - 1]][p[i - 1] + 1].val
    <3>1. i - 1 \in 1..(n - 1) /\ i - 1 \in 1..n /\ (i - 1) + 1 = i
      BY <1>1, <2>3
    <3>2. s[(i - 1) + 1].obj = h[s[i - 1].obj][s[i - 1].idx + 1].val
      BY <3>1, StandingLinks
    <3> QED
      BY <1>3, <3>1, <3>2
  <2> HIDE DEF os, p
  <2> QED
    BY <1>3, <2>1, <2>2, <2>3 DEF Walk!Leads
<1>7. \A i, j \in DOMAIN p : os[i] = os[j] => i = j
  BY <1>1, <1>3 DEF Standing, Ancestors
<1> HIDE DEF os, p
<1>8. Walk!SimplePath(h, p)
  BY <1>5, <1>6, <1>7 DEF Walk!SimplePath
<1>9. p \in Walk!Positions(h)
  BY <1>2, <1>4, <1>8 DEF Walk!Positions
<1> QED
  BY <1>9 DEF p

\* os are the objects along the position r, which has d places.
Along(h, d, r, os) ==
  /\ d \in 1..MaxDepth
  /\ r \in [1..d -> Nat] /\ Len(r) = d /\ DOMAIN r = 1..d
  /\ os \in [1..d -> Obj]
  /\ Walk!Leads(h, r, os)
  /\ \A i, j \in 1..d : os[i] = os[j] => i = j

\* A position, with the objects along it.
LEMMA PositionHolders ==
  ASSUME NEW h, Plain(h), NEW r \in Walk!Positions(h)
  PROVE  \E d, os : Along(h, d, r, os)
<1>1. PICK d \in 1..MaxDepth : r \in [1..d -> Walk!Offsets(h)]
  BY DEF Walk!Positions
<1>2. DOMAIN r = 1..d
  BY <1>1
<1>3. Walk!Offsets(h) \subseteq Nat
  BY DEF Walk!Offsets
<1>4. r \in [1..d -> Nat]
  BY <1>1, <1>3
<1>5. d \in Nat
  BY DeepAssumption
<1>6. Len(r) = d
  BY <1>4, <1>5
<1>7. Walk!SimplePath(h, r)
  BY DEF Walk!Positions
<1>8. PICK os \in [1..d -> Obj] :
        /\ Walk!Leads(h, r, os)
        /\ \A i, j \in 1..d : os[i] = os[j] => i = j
  BY <1>2, <1>7 DEF Walk!SimplePath
<1>9. Along(h, d, r, os)
  BY <1>2, <1>4, <1>6, <1>8 DEF Along
<1> QED
  BY <1>9

\* Paths that agree with the stack's lead through the objects of its frames.
LEMMA SameObjects ==
  ASSUME NEW h, Plain(h), NEW s, Standing(h, s), NEW r, NEW d, NEW os,
         Along(h, d, r, os),
         NEW k \in 1..d, k <= Len(s), \A j \in 1..(k - 1) : r[j] = s[j].idx
  PROVE  \A i \in 1..k : os[i] = s[i].obj
<1> DEFINE Off == {i \in 1..k : os[i] # s[i].obj}
<1>1. SUFFICES ASSUME Off # {} PROVE FALSE
  OBVIOUS
<1>2. PICK m \in Off : \A i \in Off : m <= i
  <2>1. Off \in SUBSET Nat
    OBVIOUS
  <2> HIDE DEF Off
  <2> QED
    BY <1>1, <2>1, LeastNatural
<1>3. /\ DOMAIN r = 1..d /\ d \in Nat /\ k \in Nat /\ Len(s) \in Nat \ {0}
      /\ Walk!Leads(h, r, os)
  BY StandingFrames, DeepAssumption DEF Along
<1>4. m # 1
  BY <1>2, <1>3 DEF Walk!Leads, Standing, Faithful
<1>5. /\ m \in 1..d /\ m > 1 /\ m - 1 \in 1..k /\ m - 1 \in 1..(k - 1)
      /\ m - 1 \in 1..(Len(s) - 1) /\ (m - 1) + 1 = m
  BY <1>3, <1>4
<1>6. os[m - 1] = s[m - 1].obj
  BY <1>2, <1>5
<1>7. os[m] = h[os[m - 1]][r[m - 1] + 1].val
  BY <1>3, <1>5 DEF Walk!Leads
<1>8. s[(m - 1) + 1].obj = h[s[m - 1].obj][s[m - 1].idx + 1].val
  BY <1>5, StandingLinks
<1>9. r[m - 1] = s[m - 1].idx
  BY <1>5
<1> QED
  BY <1>5, <1>6, <1>7, <1>8, <1>9

----------------------------------------------------------------------------
(* What the engine does to such a stack.                                   *)

\* What every step of the engine but an entrance does to the frames up to m:
\* the highest one with a property left moves on, those above are popped.
Moved(s, d, t) ==
  /\ t \in Seq(Frame) /\ Len(t) = d
  /\ \A i \in 1..(d - 1) : t[i] = s[i]
  /\ t[d].obj = s[d].obj /\ t[d].tab = s[d].tab /\ t[d].idx = s[d].idx + 1

MovesOn(s, m, t) ==
  \/ t = << >> /\ \A i \in 1..m : ~HasNext(s[i])
  \/ \E d \in 1..m :
       /\ HasNext(s[d]) /\ \A e \in 1..m : HasNext(s[e]) => e <= d
       /\ Moved(s, d, t)

\* The loop of pops, over the frames below the top.
LEMMA PopAdvanceMovesOn ==
  ASSUME NEW s \in Seq(Frame)
  PROVE  MovesOn(s, Len(s) - 1, PopAdvance(s))
<1>1. CASE PopAdvance(s) = << >>
  <2> DEFINE open == {d \in 1..(Len(s) - 1) : HasNext(s[d])}
  <2>1. ASSUME open # {} PROVE FALSE
    <3>1. \E x \in open : \A e \in open : e <= x
      <4>1. open \in SUBSET (1..(Len(s) - 1)) /\ Len(s) - 1 \in Int
        OBVIOUS
      <4> HIDE DEF open
      <4> QED
        BY <2>1, <4>1, GreatestDepth
    <3> DEFINE c == CHOOSE x \in open : \A e \in open : e <= x
    <3>2. c \in 1..(Len(s) - 1) /\ HasNext(s[c])
      BY <3>1
    <3>3. PopAdvance(s) = Advance(SubSeq(s, 1, c))
      BY <2>1 DEF PopAdvance
    <3> HIDE DEF c, open
    <3>4. /\ SubSeq(s, 1, c) \in Seq(Frame) /\ SubSeq(s, 1, c) # << >>
          /\ Len(SubSeq(s, 1, c)) = c /\ HasNext(Top(SubSeq(s, 1, c)))
      BY <3>2, PrefixShape
    <3>5. Len(PopAdvance(s)) = c
      BY <3>3, <3>4, AdvanceShape
    <3> QED
      BY <1>1, <3>2, <3>5
  <2> QED
    BY <1>1, <2>1 DEF MovesOn
<1>2. CASE PopAdvance(s) # << >>
  <2>1. PICK d \in 1..(Len(s) - 1) :
           /\ HasNext(s[d])
           /\ \A e \in 1..(Len(s) - 1) : HasNext(s[e]) => e <= d
           /\ PopAdvance(s) = Advance(SubSeq(s, 1, d))
    BY <1>2, PopAdvanceShape
  <2> DEFINE low == SubSeq(s, 1, d)
  <2>2. /\ low \in Seq(Frame) /\ low # << >> /\ Len(low) = d
        /\ \A i \in 1..d : low[i] = s[i]
        /\ HasNext(Top(low))
    BY <2>1, PrefixShape
  <2>3. PopAdvance(s) = Advance(low)
    BY <2>1
  <2> HIDE DEF low
  <2>4. /\ Advance(low) \in Seq(Frame)
        /\ Len(Advance(low)) = d
        /\ \A i \in 1..d : Advance(low)[i].obj = low[i].obj
        /\ \A i \in 1..(d - 1) : Advance(low)[i] = low[i]
        /\ Advance(low)[d].idx = low[d].idx + 1
        /\ Advance(low)[d].tab = low[d].tab
    BY <2>2, AdvanceShape
  <2>5. d \in 1..d /\ \A i \in 1..(d - 1) : i \in 1..d
    OBVIOUS
  <2>6. Moved(s, d, Advance(low))
    BY <2>2, <2>4, <2>5 DEF Moved
  <2> QED
    BY <2>1, <2>3, <2>6 DEF MovesOn
<1> QED
  BY <1>1, <1>2

\* property_enumeration_skip, over all of them.
LEMMA SkipMovesOn ==
  ASSUME NEW s \in Seq(Frame), s # << >>
  PROVE  MovesOn(s, Len(s), Skip(s))
<1> DEFINE n == Len(s)
<1>0. n \in Nat \ {0}
  BY EmptySeq
<1>1. CASE HasNext(Top(s))
  <2>1. Skip(s) = Advance(s)
    BY <1>1 DEF Skip
  <2>2. /\ Advance(s) \in Seq(Frame)
        /\ Len(Advance(s)) = n
        /\ \A i \in 1..n : Advance(s)[i].obj = s[i].obj
        /\ \A i \in 1..(n - 1) : Advance(s)[i] = s[i]
        /\ Advance(s)[n].idx = s[n].idx + 1
        /\ Advance(s)[n].tab = s[n].tab
    BY <1>1, AdvanceShape
  <2>3. n \in 1..n /\ \A e \in 1..n : e <= n
    BY <1>0
  <2>4. Moved(s, n, Advance(s))
    BY <2>2, <2>3 DEF Moved
  <2> QED
    BY <1>1, <2>1, <2>3, <2>4 DEF MovesOn, Top
<1>2. CASE ~HasNext(Top(s))
  <2>1. Skip(s) = PopAdvance(s)
    BY <1>2 DEF Skip
  <2>2. MovesOn(s, n - 1, PopAdvance(s))
    BY PopAdvanceMovesOn
  <2>3. ~HasNext(s[n])
    BY <1>2 DEF Top
  <2>4. \A e \in 1..n : e \in 1..(n - 1) \/ e = n
    BY <1>0
  <2>5. 1..(n - 1) \subseteq 1..n
    BY <1>0
  <2> HIDE DEF n
  <2>6. CASE PopAdvance(s) = << >> /\ \A i \in 1..(n - 1) : ~HasNext(s[i])
    BY <2>1, <2>3, <2>4, <2>6 DEF MovesOn, n
  <2>7. CASE \E d \in 1..(n - 1) :
               /\ HasNext(s[d]) /\ \A e \in 1..(n - 1) : HasNext(s[e]) => e <= d
               /\ Moved(s, d, PopAdvance(s))
    BY <2>1, <2>3, <2>4, <2>5, <2>7 DEF MovesOn, n
  <2> QED
    BY <2>2, <2>6, <2>7 DEF MovesOn
<1> QED
  BY <1>1, <1>2

\* An object without properties is popped again by the same call.
LEMMA PopAboveMovesOn ==
  ASSUME NEW s \in Seq(Frame), NEW child \in Frame
  PROVE  MovesOn(s, Len(s), PopAdvance(Append(s, child)))
<1> DEFINE inner == Append(s, child)
           n == Len(s)
           t == PopAdvance(inner)
<1> SUFFICES MovesOn(s, n, t)
  OBVIOUS
<1>1. /\ inner \in Seq(Frame) /\ Len(inner) = n + 1 /\ n \in Nat
      /\ \A i \in 1..n : inner[i] = s[i]
  BY AppendProperties, LenProperties
<1> HIDE DEF inner
<1>2. MovesOn(inner, n, t)
  <2>1. MovesOn(inner, Len(inner) - 1, t)
    BY <1>1, PopAdvanceMovesOn
  <2>2. Len(inner) - 1 = n
    BY <1>1
  <2> QED
    BY <2>1, <2>2
<1> HIDE DEF t
<1>3. CASE t = << >> /\ \A i \in 1..n : ~HasNext(inner[i])
  <2>1. \A i \in 1..n : ~HasNext(s[i])
    BY <1>1, <1>3
  <2> HIDE DEF n
  <2> QED
    BY <1>3, <2>1 DEF MovesOn
<1>4. ASSUME NEW d \in 1..n, HasNext(inner[d]),
             \A e \in 1..n : HasNext(inner[e]) => e <= d, Moved(inner, d, t)
      PROVE  MovesOn(s, n, t)
  <2>1. \A i \in 1..(d - 1) : i \in 1..n
    BY <1>1
  <2>2. Moved(s, d, t)
    BY <1>1, <1>4, <2>1 DEF Moved
  <2>3. HasNext(s[d]) /\ \A e \in 1..n : HasNext(s[e]) => e <= d
    BY <1>1, <1>4
  <2> QED
    BY <2>2, <2>3 DEF MovesOn
<1> HIDE DEF n
<1> QED
  BY <1>2, <1>3, <1>4 DEF MovesOn


\* The current value is entered: it is an object that is not on the stack,
\* has a property, and the depth limit allows one frame more.
Enters(h, s) ==
  /\ Len(s) < MaxDepth
  /\ Enterable(h, s)
  /\ Len(h[CurrentValue(h, Top(s))]) > 0

Entered(h, s) == Append(s, NewFrame(h, CurrentValue(h, Top(s))))

\* One pass of the loop's head on a stack that has frames.
LEMMA PenumCases ==
  ASSUME Plain(heap), frames \in Seq(Frame), frames # << >>
  PROVE  \/ Enters(heap, frames) /\ Penum = Entered(heap, frames)
         \/ ~Enters(heap, frames) /\ MovesOn(frames, Len(frames), Penum)
<1> DEFINE o == CurrentValue(heap, Top(frames))
           child == NewFrame(heap, o)
<1>0. Len(frames) \in Nat \ {0}
  BY EmptySeq
<1>1. CASE Len(frames) >= MaxDepth
  <2>1. Penum = Skip(frames)
    BY <1>0, <1>1 DEF Penum
  <2>2. ~(Len(frames) < MaxDepth)
    BY <1>0, <1>1, DeepAssumption
  <2> QED
    BY <2>1, <2>2, SkipMovesOn DEF Enters
<1>2. CASE ~(Len(frames) >= MaxDepth)
  <2>1. Penum = Recurse(heap, frames)
    BY <1>0, <1>2 DEF Penum
  <2>2. CASE ~Enterable(heap, frames)
    <3>1. Recurse(heap, frames) = Skip(frames)
      BY <2>2 DEF Recurse
    <3> QED
      BY <2>1, <2>2, <3>1, SkipMovesOn DEF Enters
  <2>3. CASE Enterable(heap, frames)
    <3>1. o \in Obj
      BY <2>3 DEF Enterable
    <3>2. child \in Frame /\ Len(child.tab) = Len(heap[o])
      BY <3>1, NewFrameIsFrame DEF Plain
    <3>3. Len(heap[o]) \in Nat
      BY <3>1, LenProperties DEF Plain
    <3> DEFINE inner == Append(frames, child)
    <3>4. Top(inner) = child
      <4> HIDE DEF child
      <4> QED
        BY <3>2, AppendProperties DEF Top
    <3>5. Recurse(heap, frames) = IF Settable(Top(inner), 0) THEN inner ELSE PopAdvance(inner)
      BY <2>3 DEF Recurse, Push
    <3> HIDE DEF child
    <3>6. Settable(Top(inner), 0) <=> Len(heap[o]) > 0
      BY <3>2, <3>4 DEF Settable, Target
    <3>7. MovesOn(frames, Len(frames), PopAdvance(inner))
      BY <3>2, PopAboveMovesOn
    <3>8. inner = Entered(heap, frames)
      BY DEF Entered, child
    <3> HIDE DEF inner
    <3>9. Enters(heap, frames) <=> Len(heap[o]) > 0
      BY <1>0, <1>2, <2>3, DeepAssumption DEF Enters
    <3> QED
      BY <2>1, <3>5, <3>6, <3>7, <3>8, <3>9
  <2> QED
    BY <2>2, <2>3
<1> QED
  BY <1>1, <1>2

----------------------------------------------------------------------------
(* Where the next position is.                                             *)

\* A position that is later than the stack's is inside its current value or
\* parts from it to the right.
LEMMA LaterCases ==
  ASSUME NEW h, Plain(h), NEW s, Standing(h, s),
         NEW r \in Walk!Later(h, PathOf(s))
  PROVE  /\ r \in Walk!Positions(h)
         /\ \/ Len(s) < Len(r) /\ \A j \in 1..Len(s) : r[j] = s[j].idx
            \/ \E i \in 1..Len(s) \cap DOMAIN r :
                 s[i].idx < r[i] /\ \A j \in 1..(i - 1) : r[j] = s[j].idx
<1>1. r \in Walk!Positions(h) /\ Walk!Before(PathOf(s), r)
  BY DEF Walk!Later
<1>2. /\ DOMAIN PathOf(s) = 1..Len(s) /\ Len(PathOf(s)) = Len(s) /\ Len(s) \in Nat
      /\ \A i \in 1..Len(s) : PathOf(s)[i] = s[i].idx
  BY PathOfStanding, StandingFrames
<1>3. CASE Len(PathOf(s)) < Len(r) /\ \A i \in DOMAIN PathOf(s) : PathOf(s)[i] = r[i]
  BY <1>1, <1>2, <1>3
<1>4. ASSUME NEW i \in DOMAIN PathOf(s) \cap DOMAIN r,
             PathOf(s)[i] < r[i], \A j \in 1..(i - 1) : PathOf(s)[j] = r[j]
      PROVE  \E k \in 1..Len(s) \cap DOMAIN r :
               s[k].idx < r[k] /\ \A j \in 1..(k - 1) : r[j] = s[j].idx
  <2>1. i \in 1..Len(s) /\ \A j \in 1..(i - 1) : j \in 1..Len(s)
    BY <1>2
  <2>2. s[i].idx < r[i] /\ \A j \in 1..(i - 1) : r[j] = s[j].idx
    BY <1>2, <1>4, <2>1
  <2> QED
    BY <1>4, <2>1, <2>2
<1> QED
  BY <1>1, <1>3, <1>4 DEF Walk!Before

\* A frame that a later position parts from has a property left.
LEMMA PartingHasNext ==
  ASSUME NEW h, Plain(h), NEW s, Standing(h, s), NEW r \in Walk!Positions(h),
         NEW i \in 1..Len(s) \cap DOMAIN r,
         s[i].idx < r[i], \A j \in 1..(i - 1) : r[j] = s[j].idx
  PROVE  HasNext(s[i])
<1>1. PICK d, os : Along(h, d, r, os)
  BY PositionHolders
<1>2. /\ d \in 1..MaxDepth /\ r \in [1..d -> Nat] /\ Len(r) = d /\ DOMAIN r = 1..d
      /\ os \in [1..d -> Obj] /\ Walk!Leads(h, r, os)
      /\ \A x, y \in 1..d : os[x] = os[y] => x = y
  BY <1>1 DEF Along
<1>3. DOMAIN r = 1..d /\ d \in Nat /\ i \in 1..d /\ i <= Len(s) /\ i \in 1..Len(s)
  BY <1>2, DeepAssumption, StandingFrames
<1>4. os[i] = s[i].obj
  <2>1. \A k \in 1..i : os[k] = s[k].obj
    BY <1>1, <1>3, SameObjects
  <2> QED
    BY <1>3, <2>1
<1>5. r[i] < Len(h[os[i]])
  BY <1>2, <1>3 DEF Walk!Leads
<1>6. /\ s[i] \in Frame /\ s[i].idx \in Nat /\ s[i].obj \in Obj
      /\ s[i].tab = Names(h[s[i].obj])
  BY <1>3, StandingFrames
<1>7. Len(h[s[i].obj]) \in Nat /\ r[i] \in Nat
  BY <1>2, <1>3, <1>6, LenProperties DEF Plain
<1> QED
  BY <1>4, <1>5, <1>6, <1>7, HasNextIsRoom

\* A later position inside the current value means that it is entered.
LEMMA InsideEnters ==
  ASSUME NEW h, Plain(h), NEW s, Standing(h, s), NEW r \in Walk!Positions(h),
         Len(s) < Len(r), \A j \in 1..Len(s) : r[j] = s[j].idx
  PROVE  Enters(h, s)
<1> DEFINE n == Len(s)
           o == CurrentValue(h, Top(s))
<1>1. PICK d, os : Along(h, d, r, os)
  BY PositionHolders
<1>2. /\ d \in 1..MaxDepth /\ r \in [1..d -> Nat] /\ Len(r) = d /\ DOMAIN r = 1..d
      /\ os \in [1..d -> Obj] /\ Walk!Leads(h, r, os)
      /\ \A x, y \in 1..d : os[x] = os[y] => x = y
  BY <1>1 DEF Along
<1>3. DOMAIN r = 1..d /\ d \in Nat /\ n \in Nat \ {0} /\ DOMAIN s = 1..n
      /\ d <= MaxDepth /\ MaxDepth \in Nat
  BY <1>2, DeepAssumption, StandingFrames
<1>4. n < MaxDepth /\ n \in 1..d /\ n + 1 \in 1..d /\ n \in 1..n
      /\ 1..n \subseteq 1..d /\ ~(n + 1 \in 1..n)
  BY <1>2, <1>3
<1>5. \A i \in 1..n : os[i] = s[i].obj
  <2>1. \A j \in 1..(n - 1) : r[j] = s[j].idx
    BY <1>3
  <2> HIDE DEF n
  <2>2. n <= Len(s)
    BY <1>3 DEF n
  <2> QED
    BY <1>1, <1>4, <2>1, <2>2, SameObjects
<1>6. /\ s[n] \in Frame /\ s[n].obj \in Obj /\ s[n].tab = Names(h[s[n].obj])
      /\ s[n].idx < Len(h[s[n].obj])
  BY <1>4, StandingFrames
<1>7. o = h[s[n].obj][s[n].idx + 1].val
  BY <1>6, CurrentIsPlace DEF Top
<1>8. os[n + 1] = h[os[n]][r[n] + 1].val
  <2>1. n + 1 > 1 /\ (n + 1) - 1 = n
    BY <1>3
  <2>2. os[n + 1] = h[os[(n + 1) - 1]][r[(n + 1) - 1] + 1].val
    BY <1>2, <1>3, <1>4, <2>1 DEF Walk!Leads
  <2> QED
    BY <2>1, <2>2
<1>9. os[n + 1] = o
  BY <1>4, <1>5, <1>7, <1>8
<1> HIDE DEF o
<1>10. o \in Obj
  BY <1>2, <1>4, <1>9
<1>11. ~Circular(s, o)
  BY <1>2, <1>3, <1>4, <1>5, <1>9 DEF Circular
<1>12. Len(h[o]) > 0
  <2>1. r[n + 1] < Len(h[os[n + 1]])
    BY <1>2, <1>3, <1>4 DEF Walk!Leads
  <2>2. r[n + 1] \in Nat /\ Len(h[o]) \in Nat
    BY <1>2, <1>4, <1>10, LenProperties DEF Plain
  <2> QED
    BY <1>9, <2>1, <2>2
<1>13. OnProperty(Top(s)) /\ s # << >>
  BY <1>3, <1>4 DEF Standing, OnProperties, Top
<1> QED
  BY <1>4, <1>10, <1>11, <1>12, <1>13 DEF Enters, Enterable, o


\* Nothing lies between a stack's position and the one it moves on to: the
\* positions that part from it no higher than the frame that moves.
LEMMA MovedIsNext ==
  ASSUME NEW h, Plain(h), NEW s, Standing(h, s),
         NEW d \in 1..Len(s), NEW t, Moved(s, d, t),
         NEW r \in Walk!Positions(h),
         NEW i \in 1..d \cap DOMAIN r,
         s[i].idx < r[i], \A j \in 1..(i - 1) : r[j] = s[j].idx
  PROVE  r = PathOf(t) \/ Walk!Before(PathOf(t), r)
<1> DEFINE q == PathOf(t)
<1>1. PICK m, os : Along(h, m, r, os)
  BY PositionHolders
<1>2. r \in [1..m -> Nat] /\ Len(r) = m /\ DOMAIN r = 1..m /\ m \in Nat
  BY <1>1, DeepAssumption DEF Along
<1>3. /\ Len(s) \in Nat /\ d \in Nat /\ 1..(d - 1) \subseteq 1..d /\ d \in 1..d
      /\ s[d].idx \in Nat
  BY StandingFrames
<1>4. /\ DOMAIN q = 1..d /\ Len(q) = d
      /\ \A j \in 1..(d - 1) : q[j] = s[j].idx
      /\ q[d] = s[d].idx + 1
  <2>1. DOMAIN q = 1..d /\ Len(q) = d /\ \A j \in 1..d : q[j] = t[j].idx
    BY <1>3, LenProperties DEF Moved, PathOf
  <2> HIDE DEF q
  <2> QED
    BY <1>3, <2>1 DEF Moved
<1> HIDE DEF q
<1>5. CASE i # d
  <2>1. i \in 1..(d - 1) /\ \A j \in 1..(i - 1) : j \in 1..(d - 1)
    BY <1>3, <1>5
  <2>2. q[i] < r[i] /\ \A j \in 1..(i - 1) : q[j] = r[j]
    BY <1>4, <2>1
  <2>3. i \in DOMAIN q \cap DOMAIN r
    BY <1>4
  <2> QED
    BY <2>2, <2>3 DEF Walk!Before, q
<1>6. CASE i = d /\ r[d] # s[d].idx + 1
  <2>1. q[d] < r[d]
    BY <1>2, <1>3, <1>4, <1>6
  <2>2. d \in DOMAIN q \cap DOMAIN r
    BY <1>3, <1>4, <1>6
  <2>3. \A j \in 1..(d - 1) : q[j] = r[j]
    BY <1>4, <1>6
  <2> QED
    BY <2>1, <2>2, <2>3 DEF Walk!Before, q
<1>7. CASE i = d /\ r[d] = s[d].idx + 1
  <2>1. \A j \in 1..d : q[j] = r[j]
    <3> TAKE j \in 1..d
    <3>1. j = d \/ j \in 1..(d - 1)
      BY <1>3
    <3> QED
      BY <1>4, <1>7, <3>1
  <2>2. d <= m
    BY <1>2, <1>3, <1>7
  <2>3. CASE d < m
    BY <1>2, <1>4, <2>1, <2>3 DEF Walk!Before, q
  <2>4. CASE d = m
    <3>1. q = [j \in 1..d |-> q[j]]
      BY <1>4 DEF q, PathOf
    <3>2. r = [j \in 1..d |-> r[j]]
      BY <1>2, <2>4
    <3>3. r = q
      BY <2>1, <3>1, <3>2
    <3> QED
      BY <3>3 DEF q
  <2> QED
    BY <1>2, <1>3, <2>2, <2>3, <2>4
<1> QED
  BY <1>5, <1>6, <1>7

\* The first place inside is before every other one inside, and before every
\* position that parts from the stack's to the right.
LEMMA EnteredIsNext ==
  ASSUME NEW h, Plain(h), NEW s \in Seq(Frame), NEW child \in Frame, child.idx = 0,
         NEW r \in Walk!Positions(h),
         \/ Len(s) < Len(r) /\ \A j \in 1..Len(s) : r[j] = s[j].idx
         \/ \E i \in 1..Len(s) \cap DOMAIN r :
              s[i].idx < r[i] /\ \A j \in 1..(i - 1) : r[j] = s[j].idx
  PROVE  r = PathOf(Append(s, child)) \/ Walk!Before(PathOf(Append(s, child)), r)
<1> DEFINE t == Append(s, child)
           q == PathOf(t)
           n == Len(s)
<1>1. PICK m, os : Along(h, m, r, os)
  BY PositionHolders
<1>2. r \in [1..m -> Nat] /\ Len(r) = m /\ DOMAIN r = 1..m /\ m \in Nat
  BY <1>1, DeepAssumption DEF Along
<1>3. n \in Nat
  BY LenProperties
<1>4. /\ DOMAIN q = 1..(n + 1) /\ Len(q) = n + 1
      /\ \A j \in 1..n : q[j] = s[j].idx
      /\ q[n + 1] = 0
      /\ q = [j \in 1..(n + 1) |-> q[j]]
  <2>1. t \in Seq(Frame) /\ Len(t) = n + 1 /\ t[n + 1] = child
        /\ \A j \in 1..n : t[j] = s[j]
    BY AppendProperties
  <2> HIDE DEF t
  <2>2. DOMAIN q = 1..(n + 1) /\ Len(q) = n + 1 /\ \A j \in 1..(n + 1) : q[j] = t[j].idx
    BY <1>3, <2>1, LenProperties DEF PathOf
  <2>3. q = [j \in 1..(n + 1) |-> q[j]]
    BY <2>2 DEF PathOf
  <2>4. n + 1 \in 1..(n + 1) /\ 1..n \subseteq 1..(n + 1)
    BY <1>3
  <2> HIDE DEF q, n
  <2> QED
    BY <2>1, <2>2, <2>3, <2>4
<1> SUFFICES r = q \/ Walk!Before(q, r)
  OBVIOUS
<1> HIDE DEF q, t
<1>5. ASSUME NEW i \in 1..n \cap DOMAIN r,
             s[i].idx < r[i], \A j \in 1..(i - 1) : r[j] = s[j].idx
      PROVE  r = q \/ Walk!Before(q, r)
  <2>1. i \in 1..(n + 1) /\ \A j \in 1..(i - 1) : j \in 1..n
    BY <1>3
  <2>2. q[i] < r[i] /\ \A j \in 1..(i - 1) : q[j] = r[j]
    BY <1>4, <1>5, <2>1
  <2>3. i \in DOMAIN q \cap DOMAIN r
    BY <1>4, <2>1
  <2> QED
    BY <2>2, <2>3 DEF Walk!Before
<1>6. ASSUME n < Len(r), \A j \in 1..n : r[j] = s[j].idx
      PROVE  r = q \/ Walk!Before(q, r)
  <2>1. n + 1 \in 1..m /\ n + 1 \in 1..(n + 1) /\ n + 1 <= m
    BY <1>2, <1>3, <1>6
  <2>2. r[n + 1] \in Nat
    BY <1>2, <2>1
  <2>3. CASE r[n + 1] # 0
    <3>1. q[n + 1] < r[n + 1]
      BY <1>4, <2>2, <2>3
    <3>2. n + 1 \in DOMAIN q \cap DOMAIN r
      BY <1>2, <1>4, <2>1
    <3>3. \A j \in 1..n : q[j] = r[j]
      BY <1>4, <1>6
    <3>4. (n + 1) - 1 = n
      BY <1>3
    <3>5. \A j \in 1..((n + 1) - 1) : q[j] = r[j]
      BY <3>3, <3>4
    <3> QED
      BY <3>1, <3>2, <3>5 DEF Walk!Before
  <2>4. CASE r[n + 1] = 0
    <3>1. \A j \in 1..(n + 1) : q[j] = r[j]
      <4> TAKE j \in 1..(n + 1)
      <4>1. j = n + 1 \/ j \in 1..n
        BY <1>3
      <4> QED
        BY <1>4, <1>6, <2>4, <4>1
    <3>2. CASE n + 1 < m
      BY <1>2, <1>4, <3>1, <3>2 DEF Walk!Before
    <3>3. CASE n + 1 = m
      <4>1. r = [j \in 1..(n + 1) |-> r[j]]
        BY <1>2, <3>3
      <4> QED
        BY <1>4, <3>1, <4>1
    <3> QED
      BY <1>2, <1>3, <2>1, <3>2, <3>3
  <2> QED
    BY <2>3, <2>4
<1> QED
  BY <1>5, <1>6

----------------------------------------------------------------------------
(* The frames stay faithful.                                               *)

\* Moving on and entering keep the frames faithful to the heap.
LEMMA MovedIsFaithful ==
  ASSUME NEW h, NEW s \in Seq(Frame), Faithful(h, s),
         NEW d \in 1..Len(s), NEW t, Moved(s, d, t)
  PROVE  Faithful(h, t)
<1>1. /\ Len(s) \in Nat /\ DOMAIN s = 1..Len(s) /\ DOMAIN t = 1..d /\ Len(t) = d
      /\ 1..d \subseteq 1..Len(s) /\ d \in Nat \ {0} /\ 1 \in 1..d
      /\ 1..(d - 1) \subseteq 1..(Len(s) - 1) /\ 1..(d - 1) \subseteq 1..d
  BY LenProperties DEF Moved
<1>2. \A i \in 1..d : t[i].obj = s[i].obj /\ t[i].tab = s[i].tab
  <2> TAKE i \in 1..d
  <2>1. i = d \/ i \in 1..(d - 1)
    BY <1>1
  <2> QED
    BY <2>1 DEF Moved
<1>3. t[1].obj = Root
  BY <1>1, <1>2 DEF Faithful
<1>4. \A i \in 1..d : t[i].tab = Names(h[t[i].obj])
  BY <1>1, <1>2 DEF Faithful
<1>5. ASSUME NEW i \in 1..(d - 1)
      PROVE  t[i + 1].obj = CurrentValue(h, t[i])
  <2>1. i + 1 \in 1..d
    BY <1>1
  <2>2. s[i + 1].obj = CurrentValue(h, s[i])
    BY <1>1 DEF Faithful
  <2>3. t[i] = s[i]
    BY DEF Moved
  <2> QED
    BY <1>2, <2>1, <2>2, <2>3
<1> QED
  BY <1>1, <1>3, <1>4, <1>5 DEF Faithful

\* The names of a frame that is pushed are read from the heap as it is.
LEMMA EnteredIsFaithful ==
  ASSUME NEW h \in [Obj -> Seq(Property)], NEW s \in Seq(Frame), s # << >>,
         Faithful(h, s), Enters(h, s)
  PROVE  Faithful(h, Entered(h, s))
<1> DEFINE o == CurrentValue(h, Top(s))
           child == NewFrame(h, o)
           t == Append(s, child)
           n == Len(s)
<1>1. o \in Obj
  BY DEF Enters, Enterable
<1>2. child \in Frame /\ child.obj = o /\ child.tab = Names(h[o])
  BY <1>1, NewFrameIsFrame DEF NewFrame
<1>3. n \in Nat \ {0} /\ DOMAIN s = 1..n
  BY EmptySeq, LenProperties
<1> HIDE DEF child
<1>4. /\ t \in Seq(Frame) /\ Len(t) = n + 1 /\ t[n + 1] = child
      /\ \A i \in 1..n : t[i] = s[i]
  BY <1>2, AppendProperties
<1>5. DOMAIN t = 1..(n + 1)
  BY <1>4, LenProperties
<1>6. Entered(h, s) = t
  BY DEF Entered, child
<1> HIDE DEF t
<1>7. t[1].obj = Root
  BY <1>3, <1>4 DEF Faithful
<1>8. \A i \in 1..(n + 1) : t[i].tab = Names(h[t[i].obj])
  <2> TAKE i \in 1..(n + 1)
  <2>1. CASE i = n + 1
    BY <1>2, <1>4, <2>1
  <2>2. CASE i # n + 1
    <3>1. i \in 1..n
      BY <1>3, <2>2
    <3> QED
      BY <1>3, <1>4, <3>1 DEF Faithful
  <2> QED
    BY <2>1, <2>2
<1>9. ASSUME NEW i \in 1..n
      PROVE  t[i + 1].obj = CurrentValue(h, t[i])
  <2>1. CASE i = n
    BY <1>2, <1>4, <2>1 DEF Top
  <2>2. CASE i # n
    <3>1. i \in 1..(n - 1) /\ i + 1 \in 1..n
      <4>1. \A k \in Nat \ {0} : \A j \in 1..k : j # k => j \in 1..(k - 1) /\ j + 1 \in 1..k
        OBVIOUS
      <4> HIDE DEF n
      <4> QED
        BY <1>3, <2>2, <4>1
    <3>2. s[i + 1].obj = CurrentValue(h, s[i])
      BY <3>1 DEF Faithful
    <3> QED
      BY <1>4, <3>1, <3>2
  <2> QED
    BY <2>1, <2>2
<1>10. \A i \in 1..(Len(t) - 1) : t[i + 1].obj = CurrentValue(h, t[i])
  BY <1>3, <1>4, <1>9
<1>11. Faithful(h, t)
  BY <1>5, <1>7, <1>8, <1>10 DEF Faithful
<1> QED
  BY <1>6, <1>11


----------------------------------------------------------------------------
(* The next stack is at the next position.                                 *)

\* The next stack is at the next position.
LEMMA PenumIsNext ==
  ASSUME Plain(heap), Standing(heap, frames), Standing(heap, Penum)
  PROVE  /\ PathOf(Penum) \in Walk!Later(heap, PathOf(frames))
         /\ \A r \in Walk!Later(heap, PathOf(frames)) :
              r = PathOf(Penum) \/ Walk!Before(PathOf(Penum), r)
<1>1. frames \in Seq(Frame) /\ frames # << >> /\ Penum # << >>
      /\ heap \in [Obj -> Seq(Property)]
  BY DEF Standing, Plain
<1>2. Before(PathOf(frames), PathOf(Penum))
  <2>1. Len(frames) # 0
    BY <1>1, EmptySeq
  <2>2. Penum = Skip(frames) \/ Penum = Recurse(heap, frames)
    BY <2>1 DEF Penum
  <2> QED
    BY <1>1, <2>2, SkipForward, RecurseForward
<1>3. PathOf(Penum) \in Walk!Later(heap, PathOf(frames))
  BY <1>2, StandingIsPosition DEF Walk!Later, Walk!Before, Before
<1>4. ASSUME NEW r \in Walk!Later(heap, PathOf(frames))
      PROVE  r = PathOf(Penum) \/ Walk!Before(PathOf(Penum), r)
  <2>1. /\ r \in Walk!Positions(heap)
        /\ \/ Len(frames) < Len(r) /\ \A j \in 1..Len(frames) : r[j] = frames[j].idx
           \/ \E i \in 1..Len(frames) \cap DOMAIN r :
                frames[i].idx < r[i] /\ \A j \in 1..(i - 1) : r[j] = frames[j].idx
    BY LaterCases
  <2>2. CASE Enters(heap, frames) /\ Penum = Entered(heap, frames)
    <3> DEFINE child == NewFrame(heap, CurrentValue(heap, Top(frames)))
    <3>1. child \in Frame /\ child.idx = 0
      BY <1>1, <2>2, NewFrameIsFrame DEF Enters, Enterable
    <3>2. Penum = Append(frames, child)
      BY <2>2 DEF Entered
    <3> HIDE DEF child
    <3> QED
      BY <1>1, <2>1, <3>1, <3>2, EnteredIsNext
  <2>3. CASE ~Enters(heap, frames) /\ MovesOn(frames, Len(frames), Penum)
    <3>1. PICK d \in 1..Len(frames) :
            /\ HasNext(frames[d]) /\ \A e \in 1..Len(frames) : HasNext(frames[e]) => e <= d
            /\ Moved(frames, d, Penum)
      BY <1>1, <2>3 DEF MovesOn
    <3>2. PICK i \in 1..Len(frames) \cap DOMAIN r :
            frames[i].idx < r[i] /\ \A j \in 1..(i - 1) : r[j] = frames[j].idx
      BY <2>1, <2>3, InsideEnters
    <3>3. HasNext(frames[i])
      BY <2>1, <3>2, PartingHasNext
    <3>4. i \in 1..d \cap DOMAIN r
      BY <3>1, <3>2, <3>3
    <3> QED
      BY <2>1, <3>1, <3>2, <3>4, MovedIsNext
  <2> QED
    BY <1>1, <2>2, <2>3, PenumCases
<1> QED
  BY <1>3, <1>4

\* The walk ends where no later position is.
LEMMA EndIsLast ==
  ASSUME Plain(heap), Standing(heap, frames), Penum = << >>
  PROVE  Walk!Later(heap, PathOf(frames)) = {}
<1>1. SUFFICES ASSUME NEW r \in Walk!Later(heap, PathOf(frames)) PROVE FALSE
  OBVIOUS
<1>2. frames \in Seq(Frame) /\ frames # << >>
  BY DEF Standing
<1>3. ~Enters(heap, frames) /\ \A i \in 1..Len(frames) : ~HasNext(frames[i])
  <2>1. Entered(heap, frames) # << >>
    BY <1>2, EmptySeq DEF Entered
  <2>2. ~Enters(heap, frames) /\ MovesOn(frames, Len(frames), Penum)
    BY <1>2, <2>1, PenumCases
  <2>3. \A d \in 1..Len(frames) : ~Moved(frames, d, Penum)
    BY DEF Moved
  <2> QED
    BY <2>2, <2>3 DEF MovesOn
<1>4. /\ r \in Walk!Positions(heap)
      /\ \/ Len(frames) < Len(r) /\ \A j \in 1..Len(frames) : r[j] = frames[j].idx
         \/ \E i \in 1..Len(frames) \cap DOMAIN r :
              frames[i].idx < r[i] /\ \A j \in 1..(i - 1) : r[j] = frames[j].idx
  BY LaterCases
<1>5. PICK i \in 1..Len(frames) \cap DOMAIN r :
        frames[i].idx < r[i] /\ \A j \in 1..(i - 1) : r[j] = frames[j].idx
  BY <1>3, <1>4, InsideEnters
<1>6. HasNext(frames[i])
  BY <1>4, <1>5, PartingHasNext
<1> QED
  BY <1>3, <1>5, <1>6

\* A walk begins at the first position of all.
LEMMA BeginningIsFirst ==
  ASSUME Plain(heap), frames = << >>, Standing(heap, Penum)
  PROVE  /\ PathOf(Penum) \in Walk!Later(heap, << >>)
         /\ \A r \in Walk!Later(heap, << >>) :
              r = PathOf(Penum) \/ Walk!Before(PathOf(Penum), r)
<1> DEFINE root == NewFrame(heap, Root)
           none == << >>
<1>1. root \in Frame /\ root.idx = 0
  BY NewFrameIsFrame, DeepAssumption DEF Plain
<1>2. Penum = Append(none, root)
  BY DEF Penum, Push
<1> HIDE DEF root
<1>3. none \in Seq(Frame) /\ Len(none) = 0
  OBVIOUS
<1>4. ASSUME NEW r \in Walk!Positions(heap)
      PROVE  /\ Walk!Before(<< >>, r)
             /\ r = PathOf(Penum) \/ Walk!Before(PathOf(Penum), r)
  <2>1. PICK d, os : Along(heap, d, r, os)
    BY PositionHolders
  <2>2. Len(none) < Len(r)
    BY <1>3, <2>1, DeepAssumption DEF Along
  <2>3. Walk!Before(<< >>, r)
    BY <2>2 DEF Walk!Before
  <2> HIDE DEF none
  <2>4. \A j \in 1..Len(none) : r[j] = none[j].idx
    BY <1>3
  <2>5. r = PathOf(Append(none, root)) \/ Walk!Before(PathOf(Append(none, root)), r)
    BY <1>1, <1>3, <2>2, <2>4, EnteredIsNext
  <2> QED
    BY <1>2, <2>3, <2>5
<1>5. PathOf(Penum) \in Walk!Positions(heap)
  BY StandingIsPosition
<1> QED
  BY <1>4, <1>5 DEF Walk!Later

----------------------------------------------------------------------------
(* The iterator over objects that do not change.                           *)

Unchanging ==
  /\ IInv
  /\ heap \in Heaps
  /\ frames # << >> => Faithful(heap, frames)

\* A stack the iterator can have.
Sound(h, s) ==
  /\ s \in Seq(Frame)
  /\ Ancestors(s)
  /\ OnProperties(s) \/ (Len(s) = 1 /\ s[1].tab = << >>)
  /\ Len(s) <= MaxDepth
  /\ s # << >> => Faithful(h, s)

\* What a stack can be, and where the walk then is.
LEMMA Places ==
  ASSUME NEW h, NEW s, Sound(h, s)
  PROVE  \/ s = << >> /\ PlaceOf(s) = << >>
         \/ Len(s) = 1 /\ s[1].tab = << >> /\ s # << >> /\ PlaceOf(s) = << >>
         \/ Standing(h, s) /\ s # << >> /\ PlaceOf(s) = PathOf(s) /\ PlaceOf(s) # << >>
<1>1. s \in Seq(Frame) /\ Len(s) \in Nat /\ DOMAIN s = 1..Len(s)
      /\ (s # << >> => Len(s) # 0) /\ (s = << >> => Len(s) = 0)
  BY LenProperties, EmptySeq DEF Sound
<1>2. CASE s = << >>
  BY <1>2 DEF PlaceOf
<1>3. CASE s # << >> /\ OnProperties(s)
  <2>1. Standing(h, s)
    BY <1>3 DEF Sound, Standing
  <2>2. Len(s) \in DOMAIN s
    BY <1>1, <1>3
  <2>3. PlaceOf(s) = PathOf(s)
    BY <1>3, <2>2 DEF PlaceOf, Top, OnProperties
  <2>4. PathOf(s) # << >>
    <3>1. Len(s) \in DOMAIN PathOf(s)
      BY <2>2 DEF PathOf
    <3>2. \A x : x \notin DOMAIN << >>
      OBVIOUS
    <3> QED
      BY <3>1, <3>2
  <2> QED
    BY <1>3, <2>1, <2>3, <2>4
<1>4. CASE Len(s) = 1 /\ s[1].tab = << >>
  <2>1. s[1] \in Frame
    BY <1>1, <1>4, ElementOfSeq
  <2>2. ~OnProperty(s[1])
    BY <1>4, <2>1 DEF OnProperty, Frame
  <2>3. PlaceOf(s) = << >>
    BY <1>4, <2>2 DEF PlaceOf, Top
  <2> QED
    BY <1>1, <1>4, <2>3
<1> QED
  BY <1>1, <1>2, <1>3, <1>4 DEF Sound

\* The frame of a root without properties is popped again.
LEMMA EmptyRootEnds ==
  ASSUME Plain(heap), frames \in Seq(Frame), Len(frames) = 1, frames[1].tab = << >>
  PROVE  Penum = << >>
<1>1. frames[1] \in Frame /\ frames # << >> /\ Top(frames) = frames[1]
  BY ElementOfSeq, EmptySeq DEF Top
<1>2. ~OnProperty(frames[1]) /\ ~HasNext(frames[1])
  BY <1>1 DEF OnProperty, HasNext, Settable, Target, Frame
<1>3. ~Enters(heap, frames)
  BY <1>1, <1>2 DEF Enters, Enterable
<1>4. MovesOn(frames, 1, Penum)
  BY <1>1, <1>3, PenumCases
<1> QED
  BY <1>2, <1>4 DEF MovesOn

\* The frames stay faithful.
LEMMA PenumIsFaithful ==
  ASSUME Unchanging, Plain(heap), Penum # << >>
  PROVE  Faithful(heap, Penum)
<1>1. frames \in Seq(Frame) /\ heap \in [Obj -> Seq(Property)]
  BY DEF Unchanging, IInv, TypeOK, Plain
<1>2. CASE frames = << >>
  <2> DEFINE root == NewFrame(heap, Root)
  <2>1. root \in Frame /\ root.obj = Root /\ root.tab = Names(heap[Root])
    BY <1>1, NewFrameIsFrame, DeepAssumption DEF NewFrame
  <2>2. Penum = Append(<< >>, root)
    BY <1>2 DEF Penum, Push
  <2> HIDE DEF root
  <2>3. Penum = << root >> /\ Len(<< root >>) = 1 /\ DOMAIN << root >> = {1}
    BY <2>2
  <2> QED
    BY <2>1, <2>3 DEF Faithful
<1>3. CASE frames # << >>
  <2>1. Faithful(heap, frames)
    BY <1>3 DEF Unchanging
  <2>2. CASE Enters(heap, frames) /\ Penum = Entered(heap, frames)
    BY <1>1, <1>3, <2>1, <2>2, EnteredIsFaithful
  <2>3. CASE MovesOn(frames, Len(frames), Penum)
    <3>1. PICK d \in 1..Len(frames) : Moved(frames, d, Penum)
      BY <2>3 DEF MovesOn
    <3> QED
      BY <1>1, <2>1, <3>1, MovedIsFaithful
  <2> QED
    BY <1>1, <1>3, <2>2, <2>3, PenumCases
<1> QED
  BY <1>2, <1>3


\* The stack before a pass of the loop's head and the one after it are sound.
LEMMA BothSound ==
  ASSUME Unchanging, Plain(heap)
  PROVE  Sound(heap, frames) /\ Sound(heap, Penum)
<1>1. Sound(heap, Penum)
  BY PenumKeeps, PenumIsFaithful DEF Sound, Unchanging
<1>2. Sound(heap, frames)
  BY DEF Unchanging, IInv, TypeOK, NoRepeatedAncestor, FramesOnProperties,
         DepthBounded, Sound, Ancestors, OnProperties
<1> QED
  BY <1>1, <1>2

\* A pass of the loop's head moves the walk to its next position, ends it, or
\* leaves it before its first position.
LEMMA PenumSteps ==
  ASSUME Unchanging, Plain(heap)
  PROVE  \/ PlaceOf(Penum) = Place
         \/ /\ PlaceOf(Penum) \in Walk!Later(heap, Place)
            /\ \A r \in Walk!Later(heap, Place) :
                 r = PlaceOf(Penum) \/ Walk!Before(PlaceOf(Penum), r)
         \/ Place # << >> /\ Walk!Later(heap, Place) = {} /\ PlaceOf(Penum) = << >>
<1>1. \/ frames = << >> /\ Place = << >>
      \/ Len(frames) = 1 /\ frames[1].tab = << >> /\ frames # << >> /\ Place = << >>
      \/ Standing(heap, frames) /\ frames # << >> /\ Place = PathOf(frames) /\ Place # << >>
  BY BothSound, Places DEF Place
<1>2. \/ Penum = << >> /\ PlaceOf(Penum) = << >>
      \/ Len(Penum) = 1 /\ Penum[1].tab = << >> /\ Penum # << >> /\ PlaceOf(Penum) = << >>
      \/ Standing(heap, Penum) /\ Penum # << >> /\ PlaceOf(Penum) = PathOf(Penum)
         /\ PlaceOf(Penum) # << >>
  BY BothSound, Places
<1>3. CASE frames = << >>
  <2>1. Place = << >>
    BY <1>1, <1>3 DEF Place, PlaceOf
  <2>2. CASE Standing(heap, Penum) /\ PlaceOf(Penum) = PathOf(Penum)
    BY <1>3, <2>1, <2>2, BeginningIsFirst
  <2> QED
    BY <1>2, <2>1, <2>2
<1>4. CASE Len(frames) = 1 /\ frames[1].tab = << >> /\ frames # << >> /\ Place = << >>
  <2>1. frames \in Seq(Frame)
    BY DEF Unchanging, IInv, TypeOK
  <2>2. Penum = << >>
    BY <1>4, <2>1, EmptyRootEnds
  <2> QED
    BY <1>4, <2>2 DEF PlaceOf
<1>5. CASE Standing(heap, frames) /\ Place = PathOf(frames) /\ Place # << >>
  <2>1. CASE Penum = << >> /\ PlaceOf(Penum) = << >>
    BY <1>5, <2>1, EndIsLast
  <2>2. CASE Standing(heap, Penum) /\ PlaceOf(Penum) = PathOf(Penum)
    BY <1>5, <2>2, PenumIsNext
  <2>3. CASE Len(Penum) = 1 /\ Penum[1].tab = << >> /\ Penum # << >>
    <3>1. Penum \in Seq(Frame) /\ Len(frames) # 0
      BY <1>5, PenumKeeps, EmptySeq DEF Standing, Unchanging
    <3>2. OnProperties(frames) /\ frames \in Seq(Frame) /\ heap \in [Obj -> Seq(Property)]
      BY <1>5 DEF Standing, Plain
    <3>3. Penum = Skip(frames) \/ Penum = Recurse(heap, frames)
      BY <3>1 DEF Penum
    <3>4. OnProperties(Penum)
      BY <3>2, <3>3, SkipKeeps, RecurseKeeps
    <3>5. Penum[1] \in Frame /\ 1 \in DOMAIN Penum
      BY <2>3, <3>1, ElementOfSeq, LenProperties
    <3> QED
      BY <2>3, <3>4, <3>5 DEF OnProperties, OnProperty, Frame
  <2> QED
    BY <1>2, <2>1, <2>2, <2>3
<1> QED
  BY <1>1, <1>3, <1>4, <1>5

\* Every step keeps the frames faithful and is a step of the walk.
LEMMA NextUnchanging ==
  ASSUME Mutable = FALSE
  PROVE  Unchanging /\ IInv' /\ [Next]_vars
           => Unchanging' /\ [Walk!Step]_(Walk!walkvars)
<1> SUFFICES ASSUME Unchanging, IInv', [Next]_vars
             PROVE  Unchanging' /\ [Walk!Step]_(Walk!walkvars)
  OBVIOUS
<1>1. Plain(heap)
  BY DeepAssumption DEF Unchanging, Plain
<1>2. frames' = frames \/ frames' = Penum
  BY DEF Next, Engine, Predicate, Program, Exhausted, EmptyRoot, Position, Reject,
         Accept, AcceptAborts, Call, NestedCall, Assign, Delete, vars
<1>3. heap' = heap
  BY DEF Next, Engine, Predicate, Program, Exhausted, EmptyRoot, Position, Reject,
         Accept, AcceptAborts, Call, NestedCall, Assign, Delete, vars
<1>4. PICK t : t = frames'
  OBVIOUS
<1>5. Place' = PlaceOf(t)
  BY <1>4 DEF Place
<1>6. t # << >> => Faithful(heap, t)
  BY <1>1, <1>2, <1>4, PenumIsFaithful DEF Unchanging
<1>7. Unchanging'
  BY <1>3, <1>4, <1>6 DEF Unchanging
<1>8. CASE t = frames
  <2>1. Place' = Place
    BY <1>5, <1>8 DEF Place
  <2> QED
    BY <1>3, <1>7, <2>1 DEF Walk!walkvars
<1>9. CASE t = Penum
  <2>1. CASE Place' = Place
    BY <1>3, <1>7, <2>1 DEF Walk!walkvars
  <2>2. CASE /\ Place' \in Walk!Later(heap, Place)
             /\ \A r \in Walk!Later(heap, Place) : r = Place' \/ Walk!Before(Place', r)
    <3>1. Walk!Visit
      BY <1>3, <2>2 DEF Walk!Visit
    <3> QED
      BY <1>7, <3>1 DEF Walk!Step
  <2>3. CASE Place # << >> /\ Walk!Later(heap, Place) = {} /\ Place' = << >>
    <3>1. Walk!Finish
      BY <1>3, <2>3 DEF Walk!Finish
    <3> QED
      BY <1>7, <3>1 DEF Walk!Step
  <2> QED
    BY <1>1, <1>5, <1>9, <2>1, <2>2, <2>3, PenumSteps
<1> QED
  BY <1>2, <1>4, <1>8, <1>9

\* Over objects that do not change the iterator is the abstract walk: it visits
\* every simple path from the root up to the depth limit, in document order,
\* each once, and then stops, whatever the graph, the predicate's answers and
\* its calls of next().
THEOREM IteratorWalks ==
  ASSUME Mutable = FALSE
  PROVE  Spec => ImplementsWalk
<1>1. Init => Unchanging
  BY InitIInv DEF Init, Unchanging
<1>2. Init => Walk!Start
  BY DEF Init, Walk!Start, Place, PlaceOf
<1>3. Unchanging /\ IInv' /\ [Next]_vars
        => Unchanging' /\ [Walk!Step]_(Walk!walkvars)
  BY NextUnchanging
<1> QED
  BY <1>1, <1>2, <1>3, Invariance, PTL DEF Spec, ImplementsWalk, Walk!Walk
=============================================================================
