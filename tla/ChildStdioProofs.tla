--------------------------- MODULE ChildStdioProofs ---------------------------
(***************************************************************************)
(* ChildStdio for any number of children, any table the program starts     *)
(* with and any descriptors it passes: what a child has in its slots, and  *)
(* that nobody is left with the child's ends of its pipes.                 *)
(*                                                                         *)
(* What the loop over the stdio array leaves is said by Turned, slot by    *)
(* slot; the invariant keeps of it what the child needs until it has       *)
(* rewired itself (ForkedReady) and what the program needs until it has    *)
(* closed the child's ends (EndsFound).  That fork gives a child the       *)
(* program's ends of earlier children's pipes only is in InOrder.          *)
(***************************************************************************)
EXTENDS ChildStdio, FiniteSetTheorems, WellFoundedInduction, TLAPS

Fds == [Slot -> {-1} \cup Fd]

\* The types of the variables.
TypeOK ==
  /\ parent \in Table
  /\ child \in [Child -> Table]
  /\ stage \in [Child -> {"none", "forked", "running", "ended"}]
  /\ spawning \in {0} \cup Child
  /\ child_fds \in [Child -> Fds]
  /\ parent_fds \in [Child -> Fds]
  /\ asked \in [Child -> [Slot -> Open]]

NoChildEnds(t, c) == \A s \in Slot, fd \in Fd : t[fd] # ChildEnd(c, s)

\* Nothing is open on a pipe of a child that was not spawned.
Fresh ==
  \A c \in Child : stage[c] = "none" =>
    \A fd \in Fd : parent[fd].of # c /\ \A d \in Child : child[d][fd].of # c

\* A child that was forked has at child_fds what was asked for, apart from the
\* program's ends of its own pipes, all of which are listed; two slots come from
\* the same descriptor only if it is one of the two.
ForkedReady ==
  \A c \in Child : stage[c] = "forked" =>
    /\ \A s \in Slot :
         IF asked[c][s] = Closed THEN child_fds[c][s] \in {-1, s}
         ELSE /\ child_fds[c][s] \in Fd
              /\ child[c][child_fds[c][s]] = asked[c][s]
              /\ \A r \in Slot : parent_fds[c][r] # child_fds[c][s]
    /\ \A s \in Slot, fd \in Fd : child[c][fd] = ParentEnd(c, s) => fd = parent_fds[c][s]
    /\ \A s, r \in Slot : s # r /\ child_fds[c][s] = child_fds[c][r] =>
         child_fds[c][s] \in {-1, s, r}

\* The program finds in child_fds the ends it has to close.
EndsFound ==
  \A c \in Child : spawning = c =>
    /\ stage[c] # "none"
    /\ \A s \in Slot, fd \in Fd :
         parent[fd] = ChildEnd(c, s) => fd = child_fds[c][s] /\ asked[c][s] = ChildEnd(c, s)

\* A child's ends are with the child, and with the program while it spawns it.
EndsClosed ==
  \A c \in Child : Apart(c) =>
    /\ spawning # c => NoChildEnds(parent, c)
    /\ \A d \in Child : d # c \/ stage[c] = "ended" => NoChildEnds(child[d], c)

\* A child that runs has its slots, and the program's end of none of its pipes.
Arrived ==
  \A c \in Child : stage[c] = "running" =>
    \A s \in Slot : /\ Untangled(c) /\ asked[c][s] # Closed => child[c][s] = asked[c][s]
                    /\ \A fd \in Fd : child[c][fd] # ParentEnd(c, s)

\* Children are spawned in order, and the program's ends come to a child with fork.
InOrder ==
  /\ \A b, c \in Child : stage[b] = "none" /\ stage[c] # "none" => c < b
  /\ \A c, d \in Child, s \in Slot, fd \in Fd : child[c][fd] = ParentEnd(d, s) => d <= c

Inv == TypeOK /\ Fresh /\ ForkedReady /\ EndsFound /\ EndsClosed /\ Arrived /\ InOrder

----------------------------------------------------------------------------
(* pipe().                                                                 *)

\* The kernel finds the lowest of some descriptors.
LEMMA LeastIsOne ==
  ASSUME NEW S \in SUBSET Nat, S # {}
  PROVE  Least(S) \in S
<1> DEFINE R == OpToRel(<, Nat)
<1>1. IsWellFoundedOn(R, Nat)
  BY NatLessThanWellFounded
<1>2. \A x, y \in Nat : x < y => <<x, y>> \in R
  BY DEF OpToRel
<1> HIDE DEF R
<1>3. PICK x \in S : \A y \in S : ~(<<y, x>> \in R)
  BY <1>1, WFMin
<1>4. \A y \in S : x <= y
  <2> TAKE y \in S
  <2>1. x \in Nat /\ y \in Nat
    OBVIOUS
  <2>2. ~(y < x)
    BY <1>2, <1>3, <2>1
  <2> QED
    BY <2>1, <2>2
<1> QED
  BY <1>4 DEF Least

\* pipe() gives two different free descriptors, or none.
LEMMA PipeIsFree ==
  ASSUME NEW t \in Table
  PROVE  \/ Pipe(t)[1] = -1 /\ Pipe(t)[2] = -1
         \/ /\ Pipe(t)[1] \in Fd /\ Pipe(t)[2] \in Fd /\ Pipe(t)[1] # Pipe(t)[2]
            /\ t[Pipe(t)[1]] = Closed /\ t[Pipe(t)[2]] = Closed
<1> DEFINE F == Free(t)
           a == Least(F)
<1>1. Limit - 1 \in Int
  BY StdioAssumption
<1>2. F \subseteq Fd /\ Fd \subseteq Nat
  BY StdioAssumption DEF Free, Fd
<1>3. IsFiniteSet(F)
  <2>1. IsFiniteSet(Fd)
    BY <1>1, FS_Interval DEF Fd
  <2> QED
    BY <1>2, <2>1, FS_Subset
<1>4. CASE Cardinality(F) < 2
  BY <1>4 DEF Pipe
<1>5. CASE ~(Cardinality(F) < 2)
  <2>1. F # {}
    BY <1>3, <1>5, FS_EmptySet
  <2>2. a \in F
    BY <1>2, <2>1, LeastIsOne
  <2>3. F \ {a} # {}
    <3>1. F # {a}
      BY <1>3, <1>5, FS_Singleton
    <3> QED
      BY <2>2, <3>1
  <2>4. Least(F \ {a}) \in F \ {a}
    BY <1>2, <2>3, LeastIsOne
  <2>5. Pipe(t) = <<a, Least(F \ {a})>>
    BY <1>5 DEF Pipe
  <2> QED
    BY <1>2, <2>2, <2>4, <2>5 DEF Free
<1> QED
  BY <1>4, <1>5

----------------------------------------------------------------------------
(* The loop over the stdio array.                                          *)

\* The table, the child's ends and the program's ends when the slots below i
\* are done.
Turned(c, stdio, i, made) ==
  /\ made \in [table : Table, its : Fds, mine : Fds]
  /\ \A fd \in Fd :
       \/ made.table[fd] = parent[fd]
       \/ /\ parent[fd] = Closed
          /\ \E s \in Slot :
               /\ stdio[s][1] = "pipe"
               /\ \/ fd = made.its[s] /\ made.table[fd] = ChildEnd(c, s)
                  \/ fd = made.mine[s] /\ made.table[fd] = ParentEnd(c, s)
  /\ \A s \in Slot :
       IF made.mine[s] # -1
         THEN /\ s < i /\ stdio[s][1] = "pipe"
              /\ made.its[s] # -1
              /\ parent[made.its[s]] = Closed /\ parent[made.mine[s]] = Closed
              /\ made.table[made.its[s]] = ChildEnd(c, s)
              /\ made.table[made.mine[s]] = ParentEnd(c, s)
         ELSE made.its[s] = IF s < i THEN CASE stdio[s][1] = "inherit" -> s
                                            [] stdio[s][1] = "number" -> stdio[s][2]
                                            [] OTHER -> -1
                                     ELSE -1

\* An element of the array is one of the four kinds, and a number is a
\* descriptor.
LEMMA ItemKinds ==
  ASSUME NEW item \in Items
  PROVE  \/ item[1] \in {"pipe", "inherit", "other"}
         \/ item[1] = "number" /\ item[2] \in Numbers /\ item[2] \in Fd /\ item = <<"number", item[2]>>
<1>1. CASE item \in {"pipe", "inherit", "other"} \X {0}
  BY <1>1
<1>2. CASE item \in {"number"} \X Numbers
  <2>1. PICK n \in Numbers : item = <<"number", n>>
    BY <1>2
  <2> QED
    BY <2>1, StdioAssumption
<1> QED
  BY <1>1, <1>2 DEF Items

\* The two ends of a pipe are things a descriptor is open on, and differ from
\* each other, from those of other slots and children, and from Closed.
LEMMA EndsDiffer ==
  ASSUME NEW c \in Child, NEW s \in Slot
  PROVE  /\ ChildEnd(c, s) \in Open /\ ParentEnd(c, s) \in Open
         /\ ChildEnd(c, s).of = c /\ ParentEnd(c, s).of = c
         /\ ChildEnd(c, s).slot = s /\ ParentEnd(c, s).slot = s
         /\ \A r \in Slot : ChildEnd(c, s) # ParentEnd(c, r)
         /\ ChildEnd(c, s) # Closed /\ ParentEnd(c, s) # Closed
         /\ c # 0
<1>1. c # 0
  BY StdioAssumption
<1>2. /\ ChildEnd(c, s) \in [on : {"reader", "writer"}, of : Child, slot : Slot]
      /\ ParentEnd(c, s) \in [on : {"reader", "writer"}, of : Child, slot : Slot]
  BY DEF ChildEnd, ParentEnd, Reader, Writer
<1>3. /\ ChildEnd(c, s).of = c /\ ParentEnd(c, s).of = c
      /\ ChildEnd(c, s).slot = s /\ ParentEnd(c, s).slot = s
  BY DEF ChildEnd, ParentEnd, Reader, Writer
<1>4. ASSUME NEW r \in Slot PROVE ChildEnd(c, s) # ParentEnd(c, r)
  <2>1. CASE r # s
    BY <1>3, <2>1 DEF ChildEnd, ParentEnd, Reader, Writer
  <2>2. CASE r = s
    BY <2>2 DEF ChildEnd, ParentEnd, Reader, Writer
  <2> QED
    BY <2>1, <2>2
<1>5. Closed.of = 0
  BY DEF Closed
<1> QED
  BY <1>1, <1>2, <1>3, <1>4, <1>5 DEF Open

\* A turn that makes a pipe: both its ends are at descriptors that were free, in the
\* program too, so that no other end is written over.
LEMMA PipeTurn ==
  ASSUME TypeOK, NEW c \in Child, NEW stdio \in [Slot -> Items], NEW s \in Slot,
         NEW made, Turned(c, stdio, s, made), stdio[s][1] = "pipe",
         NEW its \in Fd, NEW mine \in Fd, its # mine,
         made.table[its] = Closed, made.table[mine] = Closed
  PROVE  Turned(c, stdio, s + 1,
                [table |-> [made.table EXCEPT ![mine] = ParentEnd(c, s), ![its] = ChildEnd(c, s)],
                 its |-> [made.its EXCEPT ![s] = its],
                 mine |-> [made.mine EXCEPT ![s] = mine]])
<1> DEFINE table == [made.table EXCEPT ![mine] = ParentEnd(c, s), ![its] = ChildEnd(c, s)]
           allIts == [made.its EXCEPT ![s] = its]
           allMine == [made.mine EXCEPT ![s] = mine]
           next == [table |-> table, its |-> allIts, mine |-> allMine]
<1>1. made.table \in Table /\ made.its \in Fds /\ made.mine \in Fds /\ s \in Int
  BY DEF Turned, Slot
<1>2. ChildEnd(c, s) \in Open /\ ParentEnd(c, s) \in Open
  BY EndsDiffer
<1>3. table \in Table
  BY <1>1, <1>2 DEF Table
<1>4. allIts \in Fds /\ allMine \in Fds
  BY <1>1 DEF Fds
<1>5. /\ table[mine] = ParentEnd(c, s) /\ table[its] = ChildEnd(c, s)
      /\ \A fd \in Fd \ {its, mine} : table[fd] = made.table[fd]
  BY <1>1 DEF Table
<1>6. /\ allIts[s] = its /\ allMine[s] = mine
      /\ \A r \in Slot \ {s} : allIts[r] = made.its[r] /\ allMine[r] = made.mine[r]
  BY <1>1 DEF Fds
<1>7. parent[its] = Closed /\ parent[mine] = Closed
  BY EndsDiffer DEF Turned
<1>8. -1 \notin Fd
  BY DEF Fd
<1>9. made.mine[s] = -1 /\ made.its[s] = -1
  BY <1>1 DEF Turned
<1>9a. /\ next \in [table : Table, its : Fds, mine : Fds]
      /\ next.table = table /\ next.its = allIts /\ next.mine = allMine
  BY <1>3, <1>4
<1> HIDE DEF table, allIts, allMine, next
<1>10. ASSUME NEW fd \in Fd
       PROVE  \/ table[fd] = parent[fd]
              \/ /\ parent[fd] = Closed
                 /\ \E r \in Slot : /\ stdio[r][1] = "pipe"
                                    /\ \/ fd = allIts[r] /\ table[fd] = ChildEnd(c, r)
                                       \/ fd = allMine[r] /\ table[fd] = ParentEnd(c, r)
  <2>1. CASE fd \in {its, mine}
    BY <2>1, <1>5, <1>6, <1>7
  <2>2. CASE fd \notin {its, mine}
    <3>1. table[fd] = made.table[fd]
      BY <1>5, <2>2
    <3>2. CASE made.table[fd] = parent[fd]
      BY <3>1, <3>2
    <3>3. CASE made.table[fd] # parent[fd]
      <4>1. PICK r \in Slot :
              /\ parent[fd] = Closed
              /\ stdio[r][1] = "pipe"
              /\ \/ fd = made.its[r] /\ made.table[fd] = ChildEnd(c, r)
                 \/ fd = made.mine[r] /\ made.table[fd] = ParentEnd(c, r)
        BY <3>3 DEF Turned
      <4>2. r # s
        BY <1>8, <1>9, <4>1
      <4> QED
        BY <1>6, <3>1, <4>1, <4>2
    <3> QED
      BY <3>2, <3>3
  <2> QED
    BY <2>1, <2>2
<1>11. ASSUME NEW r \in Slot
       PROVE  IF allMine[r] # -1
                THEN /\ r < s + 1 /\ stdio[r][1] = "pipe"
                     /\ allIts[r] # -1
                     /\ parent[allIts[r]] = Closed /\ parent[allMine[r]] = Closed
                     /\ table[allIts[r]] = ChildEnd(c, r)
                     /\ table[allMine[r]] = ParentEnd(c, r)
                ELSE allIts[r] = IF r < s + 1
                                   THEN CASE stdio[r][1] = "inherit" -> r
                                          [] stdio[r][1] = "number" -> stdio[r][2]
                                          [] OTHER -> -1
                                   ELSE -1
  <2>1. CASE r = s
    BY <1>1, <1>5, <1>6, <1>7, <1>8, <2>1
  <2>2. CASE r # s
    <3>1. r < s <=> r < s + 1
      BY <2>2 DEF Slot
    <3>2. allIts[r] = made.its[r] /\ allMine[r] = made.mine[r]
      BY <1>6, <2>2
    <3>3. CASE made.mine[r] # -1
      <4>1. made.its[r] \in Fd /\ made.mine[r] \in Fd
        BY <1>1, <3>3 DEF Turned, Fds
      <4>2. made.its[r] \notin {its, mine} /\ made.mine[r] \notin {its, mine}
        BY <3>3, EndsDiffer DEF Turned
      <4>3. /\ table[made.its[r]] = made.table[made.its[r]]
            /\ table[made.mine[r]] = made.table[made.mine[r]]
        BY <1>5, <4>1, <4>2
      <4> QED
        BY <3>1, <3>2, <3>3, <4>3 DEF Turned
    <3>4. CASE made.mine[r] = -1
      BY <3>1, <3>2, <3>4 DEF Turned
    <3> QED
      BY <3>3, <3>4
  <2> QED
    BY <2>1, <2>2
<1>12. Turned(c, stdio, s + 1, next)
  BY <1>9a, <1>10, <1>11 DEF Turned
<1> QED
  BY <1>12 DEF next, table, allIts, allMine

\* Any other turn changes at most the child's descriptor of its slot.
LEMMA OtherTurn ==
  ASSUME TypeOK, NEW c \in Child, NEW stdio \in [Slot -> Items], NEW s \in Slot,
         NEW made, Turned(c, stdio, s, made),
         NEW its, its = CASE stdio[s][1] = "inherit" -> s
                          [] stdio[s][1] = "number" -> stdio[s][2]
                          [] OTHER -> -1
  PROVE  Turned(c, stdio, s + 1, [made EXCEPT !.its[s] = its])
<1> DEFINE allIts == [made.its EXCEPT ![s] = its]
           next == [made EXCEPT !.its[s] = its]
<1>1. made.table \in Table /\ made.its \in Fds /\ made.mine \in Fds /\ s \in Int
  BY DEF Turned, Slot
<1>2. made.mine[s] = -1 /\ made.its[s] = -1
  BY <1>1 DEF Turned
<1>3. its \in {-1} \cup Fd
  <2>1. Slot \subseteq Fd
    BY StdioAssumption DEF Slot, Fd
  <2>2. stdio[s] \in Items
    OBVIOUS
  <2> QED
    BY <2>1, <2>2, ItemKinds
<1>4. allIts \in Fds
  BY <1>1, <1>3 DEF Fds
<1>5. /\ next \in [table : Table, its : Fds, mine : Fds]
      /\ next.table = made.table /\ next.its = allIts /\ next.mine = made.mine
  BY <1>4 DEF Turned
<1>6. allIts[s] = its /\ \A r \in Slot \ {s} : allIts[r] = made.its[r]
  BY <1>1 DEF Fds
<1>7. -1 \notin Fd
  BY DEF Fd
<1> HIDE DEF allIts, next
<1>8. ASSUME NEW fd \in Fd
      PROVE  \/ made.table[fd] = parent[fd]
             \/ /\ parent[fd] = Closed
                /\ \E r \in Slot : /\ stdio[r][1] = "pipe"
                                   /\ \/ fd = allIts[r] /\ made.table[fd] = ChildEnd(c, r)
                                      \/ fd = made.mine[r] /\ made.table[fd] = ParentEnd(c, r)
  <2>1. CASE made.table[fd] = parent[fd]
    BY <2>1
  <2>2. CASE made.table[fd] # parent[fd]
    <3>1. PICK r \in Slot :
            /\ parent[fd] = Closed
            /\ stdio[r][1] = "pipe"
            /\ \/ fd = made.its[r] /\ made.table[fd] = ChildEnd(c, r)
               \/ fd = made.mine[r] /\ made.table[fd] = ParentEnd(c, r)
      BY <2>2 DEF Turned
    <3>2. r # s
      BY <1>2, <1>7, <3>1
    <3> QED
      BY <1>6, <3>1, <3>2
  <2> QED
    BY <2>1, <2>2
<1>9. ASSUME NEW r \in Slot
      PROVE  IF made.mine[r] # -1
               THEN /\ r < s + 1 /\ stdio[r][1] = "pipe"
                    /\ allIts[r] # -1
                    /\ parent[allIts[r]] = Closed /\ parent[made.mine[r]] = Closed
                    /\ made.table[allIts[r]] = ChildEnd(c, r)
                    /\ made.table[made.mine[r]] = ParentEnd(c, r)
               ELSE allIts[r] = IF r < s + 1
                                  THEN CASE stdio[r][1] = "inherit" -> r
                                         [] stdio[r][1] = "number" -> stdio[r][2]
                                         [] OTHER -> -1
                                  ELSE -1
  <2>1. CASE r = s
    BY <1>1, <1>2, <1>6, <2>1
  <2>2. CASE r # s
    <3>1. r < s <=> r < s + 1
      BY <2>2 DEF Slot
    <3>2. allIts[r] = made.its[r]
      BY <1>6, <2>2
    <3>3. CASE made.mine[r] # -1
      <4>1. /\ r < s /\ stdio[r][1] = "pipe"
            /\ made.its[r] # -1
            /\ parent[made.its[r]] = Closed /\ parent[made.mine[r]] = Closed
            /\ made.table[made.its[r]] = ChildEnd(c, r)
            /\ made.table[made.mine[r]] = ParentEnd(c, r)
        BY <3>3 DEF Turned
      <4> QED
        BY <3>1, <3>2, <3>3, <4>1
    <3>4. CASE made.mine[r] = -1
      BY <3>1, <3>2, <3>4 DEF Turned
    <3> QED
      BY <3>3, <3>4
  <2> QED
    BY <2>1, <2>2
<1>10. Turned(c, stdio, s + 1, next)
  BY <1>5, <1>8, <1>9 DEF Turned
<1> QED
  BY <1>10 DEF next, allIts

\* One turn of the loop.
LEMMA OneTurn ==
  ASSUME TypeOK, NEW c \in Child, NEW stdio \in [Slot -> Items], NEW s \in Slot,
         NEW made, Turned(c, stdio, s, made)
  PROVE  Turned(c, stdio, s + 1, Prepared(c, s, stdio[s], made))
<1> DEFINE fds == Pipe(made.table)
           mine == IF s = 0 THEN fds[2] ELSE fds[1]
           its == IF s = 0 THEN fds[1] ELSE fds[2]
           item == stdio[s]
<1>1. item \in Items
  OBVIOUS
<1>2. made.table \in Table /\ -1 \notin Fd
  BY DEF Turned, Fd
<1>3. CASE item[1] = "pipe" /\ fds[1] # -1
  <2>1. /\ its \in Fd /\ mine \in Fd /\ its # mine
        /\ made.table[its] = Closed /\ made.table[mine] = Closed
    BY <1>2, <1>3, PipeIsFree
  <2>2. Prepared(c, s, item, made)
          = [table |-> [made.table EXCEPT ![mine] = ParentEnd(c, s), ![its] = ChildEnd(c, s)],
             its |-> [made.its EXCEPT ![s] = its],
             mine |-> [made.mine EXCEPT ![s] = mine]]
    BY <1>3 DEF Prepared
  <2> HIDE DEF its, mine
  <2>3. Turned(c, stdio, s + 1,
               [table |-> [made.table EXCEPT ![mine] = ParentEnd(c, s), ![its] = ChildEnd(c, s)],
                its |-> [made.its EXCEPT ![s] = its],
                mine |-> [made.mine EXCEPT ![s] = mine]])
    BY <1>3, <2>1, PipeTurn
  <2> QED
    BY <2>2, <2>3
<1>4. CASE item[1] = "inherit"
  BY <1>4, OtherTurn DEF Prepared
<1>5. CASE item[1] = "number"
  BY <1>5, OtherTurn DEF Prepared
<1>6. CASE item[1] \notin {"inherit", "number"} /\ ~(item[1] = "pipe" /\ fds[1] # -1)
  <2>1. Prepared(c, s, item, made) = made
    BY <1>6 DEF Prepared
  <2>2. Turned(c, stdio, s + 1, [made EXCEPT !.its[s] = -1])
    BY <1>6, OtherTurn
  <2>3. made.its \in Fds /\ made.its[s] = -1
    BY DEF Turned, Slot
  <2>4. [made EXCEPT !.its[s] = -1] = made
    <3>1. [made.its EXCEPT ![s] = -1] = made.its
      BY <2>3 DEF Fds
    <3> QED
      BY <3>1 DEF Turned
  <2> QED
    BY <2>1, <2>2, <2>4
<1> QED
  BY <1>1, <1>3, <1>4, <1>5, <1>6

\* The whole loop.
LEMMA AllTurns ==
  ASSUME TypeOK, NEW c \in Child, NEW stdio \in [Slot -> Items]
  PROVE  Turned(c, stdio, 3, AllPrepared(c, stdio))
<1> DEFINE none == [s \in Slot |-> -1]
           m0 == [table |-> parent, its |-> none, mine |-> none]
           m1 == Prepared(c, 0, stdio[0], m0)
           m2 == Prepared(c, 1, stdio[1], m1)
           m3 == Prepared(c, 2, stdio[2], m2)
<1>1. Turned(c, stdio, 0, m0)
  BY DEF Turned, TypeOK, Fds, Slot
<1> 0 \in Slot /\ 1 \in Slot /\ 2 \in Slot /\ 0 + 1 = 1 /\ 1 + 1 = 2 /\ 2 + 1 = 3
  BY DEF Slot
<1> HIDE DEF m0
<1>2. Turned(c, stdio, 1, m1)
  BY <1>1, OneTurn
<1> HIDE DEF m1
<1>3. Turned(c, stdio, 2, m2)
  BY <1>2, OneTurn
<1> HIDE DEF m2
<1>4. Turned(c, stdio, 3, m3)
  BY <1>3, OneTurn
<1>5. AllPrepared(c, stdio) = m3
  BY DEF AllPrepared, m0, m1, m2
<1> QED
  BY <1>4, <1>5

\* What the loop did for a slot, by what was asked for it: a pipe at descriptors
\* that were free, no pipe, the slot itself, or a number.
LEMMA SlotKinds ==
  ASSUME TypeOK, NEW c \in Child, NEW stdio \in [Slot -> Items], Proper(stdio),
         NEW made, made = AllPrepared(c, stdio),
         NEW ask, ask = [s \in Slot |-> Asked(c, s, stdio[s], made.its[s])],
         NEW s \in Slot
  PROVE  \/ /\ stdio[s][1] = "pipe" /\ made.mine[s] \in Fd /\ made.its[s] \in Fd
            /\ parent[made.its[s]] = Closed /\ parent[made.mine[s]] = Closed
            /\ made.table[made.its[s]] = ChildEnd(c, s)
            /\ made.table[made.mine[s]] = ParentEnd(c, s)
            /\ ask[s] = ChildEnd(c, s)
         \/ /\ stdio[s][1] \in {"pipe", "other"} /\ made.mine[s] = -1 /\ made.its[s] = -1
            /\ ask[s] = Closed
         \/ /\ stdio[s][1] = "inherit" /\ made.mine[s] = -1 /\ made.its[s] = s
            /\ ask[s] = parent[s]
         \/ /\ stdio[s][1] = "number" /\ made.mine[s] = -1
            /\ made.its[s] = stdio[s][2] /\ stdio[s][2] \in Numbers
            /\ stdio[s][2] \in Fd
            /\ ask[s] = parent[stdio[s][2]] /\ ask[s] # Closed
<1>1. Turned(c, stdio, 3, made)
  BY AllTurns
<1>2. made \in [table : Table, its : Fds, mine : Fds]
  BY <1>1 DEF Turned
<1>3. -1 \notin Fd /\ Slot \subseteq Fd /\ \A r \in Slot : r < 3
  BY StdioAssumption DEF Fd, Slot
<1>4. /\ stdio[s][1] \in {"pipe", "inherit", "other", "number"}
      /\ stdio[s][1] = "number" => stdio[s][2] \in Numbers /\ stdio[s][2] \in Fd
  <2>1. stdio[s] \in Items
    OBVIOUS
  <2> QED
    BY <2>1, ItemKinds
<1>5. ask[s] = Asked(c, s, stdio[s], made.its[s])
  OBVIOUS
<1>6. made.its[s] \in {-1} \cup Fd /\ made.mine[s] \in {-1} \cup Fd
  BY <1>2 DEF Fds
<1>7. CASE made.mine[s] # -1
  <2>1. /\ stdio[s][1] = "pipe" /\ made.its[s] # -1
        /\ parent[made.its[s]] = Closed /\ parent[made.mine[s]] = Closed
        /\ made.table[made.its[s]] = ChildEnd(c, s)
        /\ made.table[made.mine[s]] = ParentEnd(c, s)
    BY <1>1, <1>7 DEF Turned
  <2>2. ask[s] = ChildEnd(c, s)
    BY <1>5, <2>1 DEF Asked
  <2> QED
    BY <1>6, <1>7, <2>1, <2>2
<1>8. CASE made.mine[s] = -1
  <2>1. made.its[s] = CASE stdio[s][1] = "inherit" -> s
                        [] stdio[s][1] = "number" -> stdio[s][2]
                        [] OTHER -> -1
    BY <1>1, <1>3, <1>8 DEF Turned
  <2>2. CASE stdio[s][1] \in {"pipe", "other"}
    BY <1>5, <1>8, <2>1, <2>2 DEF Asked
  <2>3. CASE stdio[s][1] = "inherit"
    BY <1>5, <1>8, <2>1, <2>3 DEF Asked
  <2>4. CASE stdio[s][1] = "number"
    <3>1. parent[stdio[s][2]] # Closed
      BY <2>4 DEF Proper
    <3> QED
      BY <1>4, <1>5, <1>8, <2>1, <2>4, <3>1 DEF Asked
  <2> QED
    BY <1>4, <2>2, <2>3, <2>4
<1> QED
  BY <1>7, <1>8

\* What the loop leaves for the fork: the child's descriptors are open on what was
\* asked for, the program's are apart from them, no end is anywhere else, and nothing
\* that was open has been touched.
LEMMA Arranged ==
  ASSUME TypeOK, NEW c \in Child, \A fd \in Fd : parent[fd].of # c,
         NEW stdio \in [Slot -> Items], Proper(stdio),
         NEW made, made = AllPrepared(c, stdio),
         NEW ask, ask = [s \in Slot |-> Asked(c, s, stdio[s], made.its[s])]
  PROVE  /\ made \in [table : Table, its : Fds, mine : Fds]
         /\ ask \in [Slot -> Open]
         /\ \A s \in Slot :
              IF ask[s] = Closed THEN made.its[s] \in {-1, s}
              ELSE /\ made.its[s] \in Fd
                   /\ made.table[made.its[s]] = ask[s]
                   /\ \A r \in Slot : made.mine[r] # made.its[s]
         /\ \A s \in Slot, fd \in Fd :
              /\ made.table[fd] = ParentEnd(c, s) => fd = made.mine[s]
              /\ made.table[fd] = ChildEnd(c, s) => fd = made.its[s] /\ ask[s] = ChildEnd(c, s)
         /\ \A s, r \in Slot : s # r /\ made.its[s] = made.its[r] => made.its[s] \in {-1, s, r}
         /\ \A fd \in Fd : made.table[fd] = parent[fd] \/ made.table[fd].of = c
<1>1. Turned(c, stdio, 3, made)
  BY AllTurns
<1>2. made \in [table : Table, its : Fds, mine : Fds]
  BY <1>1 DEF Turned
<1>3. -1 \notin Fd /\ Slot \subseteq Fd /\ \A s \in Slot : s < 3
  BY StdioAssumption DEF Fd, Slot
<1>4. ASSUME NEW s \in Slot
      PROVE  \/ /\ stdio[s][1] = "pipe" /\ made.mine[s] \in Fd /\ made.its[s] \in Fd
                /\ parent[made.its[s]] = Closed /\ parent[made.mine[s]] = Closed
                /\ made.table[made.its[s]] = ChildEnd(c, s)
                /\ made.table[made.mine[s]] = ParentEnd(c, s)
                /\ ask[s] = ChildEnd(c, s)
             \/ /\ stdio[s][1] \in {"pipe", "other"} /\ made.mine[s] = -1 /\ made.its[s] = -1
                /\ ask[s] = Closed
             \/ /\ stdio[s][1] = "inherit" /\ made.mine[s] = -1 /\ made.its[s] = s
                /\ ask[s] = parent[s]
             \/ /\ stdio[s][1] = "number" /\ made.mine[s] = -1
                /\ made.its[s] = stdio[s][2] /\ stdio[s][2] \in Fd
                /\ ask[s] = parent[stdio[s][2]] /\ ask[s] # Closed
  BY SlotKinds
<1>5. \A fd \in Fd : parent[fd] # Closed => made.table[fd] = parent[fd]
  BY <1>1 DEF Turned
<1>6. ask \in [Slot -> Open]
  <2>1. \A s \in Slot : ask[s] \in Open
    BY <1>3, <1>4, EndsDiffer DEF Open, TypeOK, Table
  <2> QED
    BY <2>1
<1>7. ASSUME NEW s \in Slot
      PROVE  IF ask[s] = Closed THEN made.its[s] \in {-1, s}
             ELSE /\ made.its[s] \in Fd
                  /\ made.table[made.its[s]] = ask[s]
                  /\ \A r \in Slot : made.mine[r] # made.its[s]
  <2>1. CASE ask[s] = Closed
    BY <2>1, <1>4, EndsDiffer
  <2>2. CASE ask[s] # Closed
    <3>1. made.its[s] \in Fd /\ made.table[made.its[s]] = ask[s]
      BY <1>3, <1>4, <1>5, <2>2
    <3>2. ASSUME NEW r \in Slot PROVE made.mine[r] # made.its[s]
      <4>1. CASE made.mine[r] = -1
        BY <1>3, <3>1, <4>1
      <4>2. CASE made.mine[r] # -1
        <5>1. parent[made.mine[r]] = Closed /\ made.table[made.mine[r]] = ParentEnd(c, r)
          BY <1>4, <4>2
        <5>2. parent[made.its[s]] # Closed \/ made.table[made.its[s]] = ChildEnd(c, s)
          BY <1>4, <2>2
        <5> QED
          BY <5>1, <5>2, EndsDiffer
      <4> QED
        BY <4>1, <4>2
    <3> QED
      BY <2>2, <3>1, <3>2
  <2> QED
    BY <2>1, <2>2
<1>8. ASSUME NEW fd \in Fd
      PROVE  \/ made.table[fd] = parent[fd]
             \/ \E r \in Slot : \/ fd = made.its[r] /\ made.table[fd] = ChildEnd(c, r)
                                   /\ ask[r] = ChildEnd(c, r)
                                \/ fd = made.mine[r] /\ made.table[fd] = ParentEnd(c, r)
  <2>1. CASE made.table[fd] # parent[fd]
    <3>1. PICK r \in Slot :
            /\ stdio[r][1] = "pipe"
            /\ \/ fd = made.its[r] /\ made.table[fd] = ChildEnd(c, r)
               \/ fd = made.mine[r] /\ made.table[fd] = ParentEnd(c, r)
      BY <1>1, <2>1 DEF Turned
    <3> QED
      BY <1>3, <1>4, <3>1
  <2> QED
    BY <2>1
<1>9. ASSUME NEW s \in Slot, NEW fd \in Fd
      PROVE  /\ made.table[fd] = ParentEnd(c, s) => fd = made.mine[s]
             /\ made.table[fd] = ChildEnd(c, s) => fd = made.its[s] /\ ask[s] = ChildEnd(c, s)
  BY <1>8, EndsDiffer
<1>10. ASSUME NEW s \in Slot, NEW r \in Slot, s # r, made.its[s] = made.its[r]
       PROVE  made.its[s] \in {-1, s, r}
  <2>1. CASE made.mine[s] # -1
    BY <1>4, <1>10, <2>1, EndsDiffer
  <2>2. CASE made.mine[r] # -1
    BY <1>4, <1>10, <2>2, EndsDiffer
  <2>3. CASE stdio[s][1] = "number" /\ stdio[r][1] = "number"
    <3>1. stdio[s] \in Items /\ stdio[r] \in Items
      OBVIOUS
    <3>2. stdio[s] # stdio[r]
      BY <1>10, <2>3 DEF Proper
    <3>3. stdio[s][2] # stdio[r][2]
      BY <2>3, <3>1, <3>2, ItemKinds
    <3> QED
      BY <1>4, <1>10, <2>3, <3>3
  <2> QED
    BY <1>3, <1>4, <1>10, <2>1, <2>2, <2>3
<1>11. \A fd \in Fd : made.table[fd] = parent[fd] \/ made.table[fd].of = c
  BY <1>8, EndsDiffer
<1> QED
  BY <1>2, <1>6, <1>7, <1>9, <1>10, <1>11

----------------------------------------------------------------------------
(* What the child does with its table.                                     *)

\* Closing descriptors and moving one.
LEMMA CloseAt ==
  ASSUME NEW t \in Table, NEW fds
  PROVE  /\ Close(t, fds) \in Table
         /\ \A fd \in Fd : Close(t, fds)[fd] = IF fd \in fds THEN Closed ELSE t[fd]
BY DEF Close, Table, Open

\* What a descriptor is open on after one move.
Moved(t, from, s, fd) ==
  IF from \in {-1, s} THEN t[fd]
  ELSE IF fd = from THEN Closed
  ELSE IF fd = s /\ t[from] # Closed THEN t[from]
  ELSE t[fd]

LEMMA MoveAt ==
  ASSUME NEW t \in Table, NEW from \in {-1} \cup Fd, NEW s \in Slot
  PROVE  /\ Move(t, from, s) \in Table
         /\ \A fd \in Fd : Move(t, from, s)[fd] = Moved(t, from, s, fd)
<1>1. Slot \subseteq Fd
  BY StdioAssumption DEF Slot, Fd
<1>2. CASE from \in {-1, s}
  BY <1>2 DEF Move, Moved
<1>3. CASE from \notin {-1, s}
  <2> DEFINE u == IF t[from] = Closed THEN t ELSE [t EXCEPT ![s] = t[from]]
  <2>1. u \in Table
    BY <1>1, <1>3 DEF Table
  <2>2. \A fd \in Fd : u[fd] = IF fd = s /\ t[from] # Closed THEN t[from] ELSE t[fd]
    BY <1>1, <1>3 DEF Table
  <2>3. Move(t, from, s) = Close(u, {from})
    BY <1>3 DEF Move
  <2> HIDE DEF u
  <2> QED
    BY <1>3, <2>1, <2>2, <2>3, CloseAt DEF Moved
<1> QED
  BY <1>2, <1>3

\* Three moves from an array of descriptors in which the slots that are wanted come
\* from an open descriptor, and from no other wanted slot that is filled earlier
\* or stays where it is.
LEMMA ThreeMoves ==
  ASSUME NEW own \in Table, NEW from \in Fds, NEW wanted \in SUBSET Slot,
         \A s \in wanted : from[s] \in Fd /\ own[from[s]] # Closed,
         \A s \in Slot \ wanted : from[s] \in {-1, s},
         \A s, r \in Slot : s # r /\ from[s] = from[r] => from[s] \in {-1, s, r},
         NEW t, t = Move(Move(Move(own, from[0], 0), from[1], 1), from[2], 2)
  PROVE  /\ t \in Table
         /\ \A fd \in Fd : t[fd] = Closed \/ \E g \in Fd : t[fd] = own[g]
         /\ (\A s \in Slot : \A r \in Slot \ {s} : from[s] = r =>
               r \notin wanted \/ (s < r /\ from[r] # r))
              => \A s \in wanted : t[s] = own[from[s]]
<1> DEFINE t1 == Move(own, from[0], 0)
           t2 == Move(t1, from[1], 1)
<1>1. 0 \in Slot /\ 1 \in Slot /\ 2 \in Slot /\ Slot \subseteq Fd /\ -1 \notin Fd
  BY StdioAssumption DEF Slot, Fd
<1>2. from[0] \in {-1} \cup Fd /\ from[1] \in {-1} \cup Fd /\ from[2] \in {-1} \cup Fd
  BY <1>1 DEF Fds
<1>3. /\ t1 \in Table
      /\ \A fd \in Fd : t1[fd] = Moved(own, from[0], 0, fd)
  BY <1>1, <1>2, MoveAt
<1> HIDE DEF t1
<1>4. /\ t2 \in Table
      /\ \A fd \in Fd : t2[fd] = Moved(t1, from[1], 1, fd)
  BY <1>1, <1>2, <1>3, MoveAt
<1>5. t = Move(t2, from[2], 2)
  BY DEF t1
<1> HIDE DEF t2
<1>6. /\ t \in Table
      /\ \A fd \in Fd : t[fd] = Moved(t2, from[2], 2, fd)
  <2>1. /\ Move(t2, from[2], 2) \in Table
        /\ \A fd \in Fd : Move(t2, from[2], 2)[fd] = Moved(t2, from[2], 2, fd)
    BY <1>1, <1>2, <1>4, MoveAt
  <2> QED
    BY <1>5, <2>1
<1>7. \A fd \in Fd : t1[fd] = Closed \/ \E g \in Fd : t1[fd] = own[g]
  BY <1>2, <1>3 DEF Moved
<1>8. \A fd \in Fd : t2[fd] = Closed \/ \E g \in Fd : t2[fd] = own[g]
  BY <1>2, <1>4, <1>7 DEF Moved
<1>9. \A fd \in Fd : t[fd] = Closed \/ \E g \in Fd : t[fd] = own[g]
  BY <1>2, <1>6, <1>8 DEF Moved
<1>10. ASSUME \A s \in Slot : \A r \in Slot \ {s} : from[s] = r =>
                r \notin wanted \/ (s < r /\ from[r] # r)
       PROVE  \A s \in wanted : t[s] = own[from[s]]
  <2>1. ASSUME 0 \in wanted PROVE t[0] = own[from[0]]
    <3>1. t1[0] = own[from[0]]
      BY <1>1, <1>3, <2>1 DEF Moved
    <3>2. from[1] # 0 /\ from[2] # 0
      BY <1>1, <1>10, <2>1
    <3> QED
      BY <1>1, <1>4, <1>6, <3>1, <3>2 DEF Moved
  <2>2. ASSUME 1 \in wanted PROVE t[1] = own[from[1]]
    <3>1. from[2] # 1
      BY <1>1, <1>10, <2>2
    <3>2. from[0] = 1 => from[1] # 1
      BY <1>1, <1>10, <2>2
    <3>3. from[0] \notin {-1, 0} => from[1] # 0
      BY <1>1, <1>10, <2>2
    <3>4. from[0] = from[1] => from[0] \in {0, 1}
      BY <1>1, <2>2
    <3>5. t1[from[1]] = own[from[1]]
      BY <1>1, <1>3, <2>2, <3>2, <3>3, <3>4 DEF Moved
    <3>6. t2[1] = own[from[1]]
      BY <1>1, <1>4, <2>2, <3>5 DEF Moved
    <3> QED
      BY <1>1, <1>6, <3>1, <3>6 DEF Moved
  <2>3. ASSUME 2 \in wanted PROVE t[2] = own[from[2]]
    <3>1. \A r \in {0, 1} : from[r] = 2 => from[2] # 2
      BY <1>1, <1>10, <2>3
    <3>2. \A r \in {0, 1} : from[r] \notin {-1, r} => from[2] # r
      BY <1>1, <1>10, <2>3
    <3>3. \A r \in {0, 1} : from[r] = from[2] => from[2] \in {r, 2}
      BY <1>1, <2>3
    <3>4. t1[from[2]] = own[from[2]]
      BY <1>1, <1>3, <2>3, <3>1, <3>2, <3>3 DEF Moved
    <3>5. t2[from[2]] = own[from[2]]
      BY <1>1, <1>4, <2>3, <3>1, <3>2, <3>3, <3>4 DEF Moved
    <3> QED
      BY <1>1, <1>6, <2>3, <3>5 DEF Moved
  <2> QED
    BY <2>1, <2>2, <2>3 DEF Slot
<1> QED
  BY <1>6, <1>9, <1>10

----------------------------------------------------------------------------
(* The inductive invariant.                                                *)

\* js_mallocz and the program's table at its start.
LEMMA InitInv == Init => Inv
<1> SUFFICES ASSUME Init PROVE Inv
  OBVIOUS
<1>1. Nothing \in Table /\ Start \in Table /\ Closed \in Open
  BY StdioAssumption DEF Nothing, Table, Open
<1>2. TypeOK
  BY <1>1 DEF Init, TypeOK, Fds
<1>3. \A fd \in Fd : Nothing[fd].of = 0 /\ Start[fd].of = 0
  BY StdioAssumption DEF Nothing, Closed, File
<1>4. \A c \in Child : c # 0
  BY StdioAssumption
<1>5. Fresh /\ ForkedReady /\ EndsFound /\ Arrived
  BY <1>3, <1>4 DEF Init, Fresh, ForkedReady, EndsFound, Arrived
<1>6. EndsClosed
  BY <1>3, <1>4, EndsDiffer DEF Init, EndsClosed, NoChildEnds
<1>7. InOrder
  BY <1>3, <1>4, EndsDiffer DEF Init, InOrder
<1> QED
  BY <1>2, <1>5, <1>6, <1>7 DEF Inv

\* The child that has rewired itself.
LEMMA Rewires ==
  ASSUME Inv, NEW c \in Child, stage[c] = "forked"
  PROVE  /\ Rewired(c) \in Table
         /\ \A fd \in Fd : Rewired(c)[fd] = Closed \/ \E g \in Fd : Rewired(c)[fd] = child[c][g]
         /\ \A s \in Slot : /\ Untangled(c) /\ asked[c][s] # Closed
                                 => Rewired(c)[s] = asked[c][s]
                            /\ \A fd \in Fd : Rewired(c)[fd] # ParentEnd(c, s)
<1> DEFINE own == Close(child[c], {parent_fds[c][s] : s \in Slot})
           from == child_fds[c]
           wanted == {s \in Slot : asked[c][s] # Closed}
<1>1. child[c] \in Table /\ from \in Fds
  BY DEF Inv, TypeOK
<1>2. /\ own \in Table
      /\ \A fd \in Fd : own[fd] = IF \E s \in Slot : fd = parent_fds[c][s] THEN Closed
                                  ELSE child[c][fd]
  BY <1>1, CloseAt
<1>3. Rewired(c) = Move(Move(Move(own, from[0], 0), from[1], 1), from[2], 2)
  BY DEF Rewired
<1>4. \A s \in wanted : from[s] \in Fd /\ own[from[s]] = asked[c][s] /\ own[from[s]] # Closed
  BY <1>2 DEF Inv, ForkedReady
<1>5. \A s \in Slot \ wanted : from[s] \in {-1, s}
  BY DEF Inv, ForkedReady
<1>6. \A s, r \in Slot : s # r /\ from[s] = from[r] => from[s] \in {-1, s, r}
  BY DEF Inv, ForkedReady
<1>7. \A s \in Slot, fd \in Fd : own[fd] # ParentEnd(c, s)
  BY <1>2, EndsDiffer DEF Inv, ForkedReady
<1>8. Untangled(c) => \A s \in Slot : \A r \in Slot \ {s} : from[s] = r =>
                        r \notin wanted \/ (s < r /\ from[r] # r)
  BY DEF Untangled
<1>9. wanted \subseteq Slot /\ \A s \in Slot : s \in wanted <=> asked[c][s] # Closed
  OBVIOUS
<1> HIDE DEF own, from, wanted
<1>10. /\ Rewired(c) \in Table
       /\ \A fd \in Fd : Rewired(c)[fd] = Closed \/ \E g \in Fd : Rewired(c)[fd] = own[g]
       /\ (\A s \in Slot : \A r \in Slot \ {s} : from[s] = r =>
             r \notin wanted \/ (s < r /\ from[r] # r))
            => \A s \in wanted : Rewired(c)[s] = own[from[s]]
  BY <1>1, <1>2, <1>3, <1>4, <1>5, <1>6, <1>9, ThreeMoves
<1>11. \A s \in Slot, fd \in Fd : Rewired(c)[fd] # ParentEnd(c, s)
  BY <1>7, <1>10, EndsDiffer
<1> QED
  BY <1>2, <1>4, <1>8, <1>9, <1>10, <1>11

\* spawn() up to the fork, which may fail.
LEMMA SpawnKeepsInv ==
  ASSUME Inv, NEW c \in Child, NEW stdio \in [Slot -> Items], Spawn(c, stdio)
  PROVE  Inv'
<1> DEFINE made == AllPrepared(c, stdio)
           ask == [s \in Slot |-> Asked(c, s, stdio[s], made.its[s])]
<1>1. /\ spawning = 0 /\ spawning' = c /\ stage[c] = "none" /\ Proper(stdio)
      /\ parent' = made.table
      /\ child_fds' = [child_fds EXCEPT ![c] = made.its]
      /\ parent_fds' = [parent_fds EXCEPT ![c] = made.mine]
      /\ asked' = [asked EXCEPT ![c] = ask]
      /\ \/ /\ stage' = [stage EXCEPT ![c] = "forked"]
            /\ child' = [child EXCEPT ![c] = made.table]
         \/ /\ stage' = [stage EXCEPT ![c] = "ended"]
            /\ UNCHANGED child
  BY DEF Spawn
<1>2. TypeOK /\ Fresh
  BY DEF Inv
<1>3. \A fd \in Fd : parent[fd].of # c /\ \A d \in Child : child[d][fd].of # c
  BY <1>1, <1>2 DEF Fresh
<1>3a. /\ made = AllPrepared(c, stdio)
       /\ ask = [s \in Slot |-> Asked(c, s, stdio[s], made.its[s])]
  OBVIOUS
<1> HIDE DEF made, ask
<1>4. /\ made \in [table : Table, its : Fds, mine : Fds]
      /\ ask \in [Slot -> Open]
      /\ \A s \in Slot :
           IF ask[s] = Closed THEN made.its[s] \in {-1, s}
           ELSE /\ made.its[s] \in Fd
                /\ made.table[made.its[s]] = ask[s]
                /\ \A r \in Slot : made.mine[r] # made.its[s]
      /\ \A s \in Slot, fd \in Fd :
           /\ made.table[fd] = ParentEnd(c, s) => fd = made.mine[s]
           /\ made.table[fd] = ChildEnd(c, s) => fd = made.its[s] /\ ask[s] = ChildEnd(c, s)
      /\ \A s, r \in Slot : s # r /\ made.its[s] = made.its[r] => made.its[s] \in {-1, s, r}
      /\ \A fd \in Fd : made.table[fd] = parent[fd] \/ made.table[fd].of = c
  BY <1>1, <1>2, <1>3, <1>3a, Arranged
<1>5. /\ child_fds'[c] = made.its /\ parent_fds'[c] = made.mine /\ asked'[c] = ask
      /\ \A b \in Child \ {c} : /\ child_fds'[b] = child_fds[b]
                                /\ parent_fds'[b] = parent_fds[b]
                                /\ asked'[b] = asked[b] /\ stage'[b] = stage[b]
                                /\ child'[b] = child[b]
  BY <1>1, <1>2 DEF TypeOK
<1>6. \/ stage'[c] = "forked" /\ child'[c] = made.table
      \/ stage'[c] = "ended" /\ child'[c] = child[c]
  BY <1>1, <1>2 DEF TypeOK
<1>7. c # 0 /\ \A b \in Child : b # 0
  BY StdioAssumption
<1>8. TypeOK'
  <2>1. made.table \in Table /\ made.its \in Fds /\ made.mine \in Fds
    BY <1>4
  <2>2. parent' \in Table /\ child' \in [Child -> Table] /\ spawning' \in {0} \cup Child
    BY <1>1, <1>2, <2>1 DEF TypeOK
  <2>3. child_fds' \in [Child -> Fds] /\ parent_fds' \in [Child -> Fds]
    BY <1>1, <1>2, <2>1 DEF TypeOK
  <2>4. asked' \in [Child -> [Slot -> Open]]
    BY <1>1, <1>2, <1>4 DEF TypeOK
  <2>5. stage' \in [Child -> {"none", "forked", "running", "ended"}]
    BY <1>1, <1>2 DEF TypeOK
  <2> QED
    BY <2>2, <2>3, <2>4, <2>5 DEF TypeOK
<1>9. Fresh'
  <2>1. ASSUME NEW b \in Child, stage'[b] = "none", NEW fd \in Fd
        PROVE  parent'[fd].of # b /\ \A d \in Child : child'[d][fd].of # b
    <3>1. b # c /\ stage[b] = "none"
      BY <1>5, <1>6, <2>1
    <3>2. made.table[fd].of # b
      BY <1>2, <1>4, <3>1 DEF Fresh
    <3>3. \A d \in Child : child[d][fd].of # b
      BY <1>2, <3>1 DEF Fresh
    <3> QED
      BY <1>1, <1>5, <1>6, <3>2, <3>3
  <2> QED
    BY <2>1 DEF Fresh
<1>10. ForkedReady'
  <2>1. ASSUME NEW b \in Child, stage'[b] = "forked"
        PROVE  /\ \A s \in Slot :
                    IF asked'[b][s] = Closed THEN child_fds'[b][s] \in {-1, s}
                    ELSE /\ child_fds'[b][s] \in Fd
                         /\ child'[b][child_fds'[b][s]] = asked'[b][s]
                         /\ \A r \in Slot : parent_fds'[b][r] # child_fds'[b][s]
               /\ \A s \in Slot, fd \in Fd :
                    child'[b][fd] = ParentEnd(b, s) => fd = parent_fds'[b][s]
               /\ \A s, r \in Slot : s # r /\ child_fds'[b][s] = child_fds'[b][r] =>
                    child_fds'[b][s] \in {-1, s, r}
    <3>1. CASE b = c
      BY <1>4, <1>5, <1>6, <2>1, <3>1
    <3>2. CASE b # c
      BY <1>5, <2>1, <3>2 DEF Inv, ForkedReady
    <3> QED
      BY <3>1, <3>2
  <2> QED
    BY <2>1 DEF ForkedReady, ParentEnd, Reader, Writer
<1>11. EndsFound'
  <2>1. stage'[c] # "none"
    BY <1>6
  <2>2. \A s \in Slot, fd \in Fd :
          parent'[fd] = ChildEnd(c, s) => fd = child_fds'[c][s] /\ asked'[c][s] = ChildEnd(c, s)
    BY <1>1, <1>4, <1>5
  <2> QED
    BY <1>1, <2>1, <2>2 DEF EndsFound, ChildEnd, Reader, Writer
<1>12. EndsClosed'
  <2>1. ASSUME NEW b \in Child, Apart(b)'
        PROVE  /\ spawning' # b => NoChildEnds(parent', b)
               /\ \A d \in Child : d # b \/ stage'[b] = "ended" => NoChildEnds(child'[d], b)
    <3>1. CASE b = c
      BY <1>1, <1>3, <1>5, <1>6, <3>1, EndsDiffer DEF NoChildEnds
    <3>2. CASE b # c
      <4>1. Apart(b)
        BY <1>5, <2>1, <3>2 DEF Apart
      <4>2. /\ NoChildEnds(parent, b)
            /\ \A d \in Child : d # b \/ stage[b] = "ended" => NoChildEnds(child[d], b)
        BY <1>1, <1>7, <4>1 DEF Inv, EndsClosed
      <4>3. NoChildEnds(made.table, b)
        <5>1. ASSUME NEW s \in Slot, NEW fd \in Fd PROVE made.table[fd] # ChildEnd(b, s)
          BY <1>4, <3>2, <4>2, EndsDiffer DEF NoChildEnds
        <5> QED
          BY <5>1 DEF NoChildEnds
      <4> QED
        BY <1>1, <1>5, <1>6, <3>2, <4>2, <4>3
    <3> QED
      BY <3>1, <3>2
  <2> QED
    BY <2>1 DEF EndsClosed, NoChildEnds, ChildEnd, Reader, Writer
<1>13. Arrived'
  <2>1. ASSUME NEW b \in Child, stage'[b] = "running" PROVE b # c /\ stage[b] = "running"
    BY <1>5, <1>6, <2>1
  <2> QED
    BY <1>5, <2>1 DEF Inv, Arrived, Untangled, ParentEnd, Reader, Writer
<1>14. InOrder'
  <2>1. \A b \in Child : b < c => stage[b] # "none"
    BY DEF Spawn
  <2>2. \A b \in Child : stage[b] # "none" => b < c
    BY <1>1 DEF Inv, InOrder
  <2>3. ASSUME NEW a \in Child, NEW b \in Child, stage'[a] = "none", stage'[b] # "none"
        PROVE  b < a
    <3>1. a # c /\ stage[a] = "none"
      BY <1>5, <1>6, <2>3
    <3>2. CASE b # c
      BY <1>5, <2>3, <3>1, <3>2 DEF Inv, InOrder
    <3>3. CASE b = c
      <4>1. ~(a < c)
        BY <2>1, <3>1
      <4>2. a \in Nat /\ c \in Nat
        BY StdioAssumption
      <4> QED
        BY <3>1, <3>3, <4>1, <4>2
    <3> QED
      BY <3>2, <3>3
  <2>4. ASSUME NEW b \in Child, NEW d \in Child, NEW s \in Slot, NEW fd \in Fd,
               child'[b][fd] = ParentEnd(d, s)
        PROVE  d <= b
    <3>1. CASE child'[b][fd] = child[b][fd]
      BY <2>4, <3>1 DEF Inv, InOrder
    <3>2. CASE b = c /\ child'[b][fd] = made.table[fd]
      <4>1. d = c \/ parent[fd].of = d
        BY <1>4, <2>4, <3>2, EndsDiffer
      <4>2. parent[fd].of = d => stage[d] # "none"
        BY <1>2 DEF Fresh
      <4>3. d \in Nat /\ c \in Nat
        BY StdioAssumption
      <4> QED
        BY <2>2, <3>2, <4>1, <4>2, <4>3
    <3> QED
      BY <1>5, <1>6, <3>1, <3>2
  <2> QED
    BY <2>3, <2>4 DEF InOrder, ParentEnd, Reader, Writer
<1> QED
  BY <1>8, <1>9, <1>10, <1>11, <1>12, <1>13, <1>14 DEF Inv

\* The child closes the program's ends and moves its own.
LEMMA RewireKeepsInv ==
  ASSUME Inv, NEW c \in Child, Rewire(c)
  PROVE  Inv'
<1>1. /\ stage[c] = "forked" /\ stage' = [stage EXCEPT ![c] = "running"]
      /\ child' = [child EXCEPT ![c] = Rewired(c)]
      /\ UNCHANGED <<parent, spawning, child_fds, parent_fds, asked>>
  BY DEF Rewire
<1>2. TypeOK
  BY DEF Inv
<1>3. /\ Rewired(c) \in Table
      /\ \A fd \in Fd : Rewired(c)[fd] = Closed \/ \E g \in Fd : Rewired(c)[fd] = child[c][g]
      /\ \A s \in Slot : /\ Untangled(c) /\ asked[c][s] # Closed
                              => Rewired(c)[s] = asked[c][s]
                         /\ \A fd \in Fd : Rewired(c)[fd] # ParentEnd(c, s)
  BY <1>1, Rewires
<1>4. /\ stage'[c] = "running" /\ child'[c] = Rewired(c)
      /\ \A b \in Child \ {c} : stage'[b] = stage[b] /\ child'[b] = child[b]
  BY <1>1, <1>2 DEF TypeOK
<1>5. Closed.of = 0 /\ \A b \in Child : b # 0
  BY StdioAssumption DEF Closed
<1>6. TypeOK'
  BY <1>1, <1>2, <1>3 DEF TypeOK
<1>7. Fresh'
  <2>1. ASSUME NEW b \in Child, stage'[b] = "none", NEW fd \in Fd
        PROVE  parent'[fd].of # b /\ \A d \in Child : child'[d][fd].of # b
    <3>1. stage[b] = "none"
      BY <1>4, <2>1
    <3>2. Rewired(c)[fd].of # b
      BY <1>3, <1>5, <3>1 DEF Inv, Fresh
    <3> QED
      BY <1>1, <1>4, <3>1, <3>2 DEF Inv, Fresh
  <2> QED
    BY <2>1 DEF Fresh
<1>8. ForkedReady'
  BY <1>1, <1>4 DEF Inv, ForkedReady, ParentEnd, Reader, Writer
<1>9. EndsFound'
  BY <1>1, <1>4 DEF Inv, EndsFound, ChildEnd, Reader, Writer
<1>10. EndsClosed'
  <2>1. ASSUME NEW b \in Child, Apart(b)'
        PROVE  /\ spawning' # b => NoChildEnds(parent', b)
               /\ \A d \in Child : d # b \/ stage'[b] = "ended" => NoChildEnds(child'[d], b)
    <3>1. Apart(b)
      BY <1>1, <2>1 DEF Apart
    <3>2. /\ spawning # b => NoChildEnds(parent, b)
          /\ \A d \in Child : d # b \/ stage[b] = "ended" => NoChildEnds(child[d], b)
      BY <3>1 DEF Inv, EndsClosed
    <3>3. c # b => NoChildEnds(Rewired(c), b)
      BY <1>3, <3>2, EndsDiffer DEF NoChildEnds
    <3> QED
      BY <1>1, <1>4, <3>2, <3>3
  <2> QED
    BY <2>1 DEF EndsClosed, NoChildEnds, ChildEnd, Reader, Writer
<1>11. Arrived'
  <2>1. ASSUME NEW b \in Child, stage'[b] = "running"
        PROVE  \A s \in Slot :
                 /\ Untangled(b) /\ asked[b][s] # Closed => child'[b][s] = asked[b][s]
                 /\ \A fd \in Fd : child'[b][fd] # ParentEnd(b, s)
    BY <1>3, <1>4, <2>1 DEF Inv, Arrived
  <2> QED
    BY <1>1, <2>1 DEF Arrived, Untangled, ParentEnd, Reader, Writer
<1>12. InOrder'
  <2>1. ASSUME NEW b \in Child, NEW d \in Child, NEW s \in Slot, NEW fd \in Fd,
               child'[b][fd] = ParentEnd(d, s)
        PROVE  d <= b
    <3>1. CASE b # c
      BY <1>4, <2>1, <3>1 DEF Inv, InOrder
    <3>2. CASE b = c
      BY <1>3, <1>4, <2>1, <3>2, EndsDiffer DEF Inv, InOrder
    <3> QED
      BY <3>1, <3>2
  <2> QED
    BY <1>1, <1>4, <2>1 DEF Inv, InOrder, ParentEnd, Reader, Writer
<1> QED
  BY <1>6, <1>7, <1>8, <1>9, <1>10, <1>11, <1>12 DEF Inv

\* The program closes descriptors of its own: the child's ends when spawn()
\* returns, its own end later.
LEMMA ClosesKeepInv ==
  ASSUME Inv, NEW c \in Child, NEW fds, parent' = Close(parent, fds), spawning' = 0,
         UNCHANGED <<child, stage, child_fds, parent_fds, asked>>,
         \/ spawning = 0
         \/ spawning = c /\ fds = {child_fds[c][s] : s \in {r \in Slot : child_fds[c][r] # r}}
  PROVE  Inv'
<1>1. TypeOK
  BY DEF Inv
<1>2. /\ parent' \in Table
      /\ \A fd \in Fd : parent'[fd] = IF fd \in fds THEN Closed ELSE parent[fd]
  BY <1>1, CloseAt DEF TypeOK
<1>3. Closed.of = 0 /\ \A b \in Child : b # 0
  BY StdioAssumption DEF Closed
<1>4. TypeOK' /\ Fresh' /\ ForkedReady' /\ EndsFound'
  <2>1. TypeOK'
    BY <1>1, <1>2 DEF TypeOK
  <2>2. Fresh'
    BY <1>2, <1>3 DEF Inv, Fresh
  <2>3. ForkedReady'
    BY DEF Inv, ForkedReady, ParentEnd, Reader, Writer
  <2>4. EndsFound'
    BY <1>3 DEF EndsFound
  <2> QED
    BY <2>1, <2>2, <2>3, <2>4
<1>5. EndsClosed'
  <2>1. ASSUME NEW b \in Child, Apart(b)'
        PROVE  /\ NoChildEnds(parent', b)
               /\ \A d \in Child : d # b \/ stage[b] = "ended" => NoChildEnds(child[d], b)
    <3>1. Apart(b)
      BY <2>1 DEF Apart
    <3>2. /\ spawning # b => NoChildEnds(parent, b)
          /\ \A d \in Child : d # b \/ stage[b] = "ended" => NoChildEnds(child[d], b)
      BY <3>1 DEF Inv, EndsClosed
    <3>3. CASE spawning # b
      BY <1>2, <3>2, <3>3, EndsDiffer DEF NoChildEnds
    <3>4. CASE spawning = b
      <4>1. b = c
        BY <1>3, <3>4
      <4>2. ASSUME NEW s \in Slot, NEW fd \in Fd, parent[fd] = ChildEnd(b, s)
            PROVE  fd \in fds
        <5>1. fd = child_fds[b][s] /\ child_fds[b][s] # s
          BY <3>1, <3>4, <4>2 DEF Inv, EndsFound, Apart
        <5> QED
          BY <1>3, <3>4, <4>1, <5>1
      <4> QED
        BY <1>2, <3>2, <4>2, EndsDiffer DEF NoChildEnds
    <3> QED
      BY <3>3, <3>4
  <2> QED
    BY <2>1 DEF EndsClosed, NoChildEnds, ChildEnd, Reader, Writer
<1>6. Arrived'
  BY DEF Inv, Arrived, Untangled, ParentEnd, Reader, Writer
<1>7. InOrder'
  BY DEF Inv, InOrder, ParentEnd, Reader, Writer
<1> QED
  BY <1>4, <1>5, <1>6, <1>7 DEF Inv

\* A child ends.
LEMMA EndKeepsInv ==
  ASSUME Inv, NEW c \in Child, End(c)
  PROVE  Inv'
<1>1. /\ stage[c] = "running" /\ stage' = [stage EXCEPT ![c] = "ended"]
      /\ child' = [child EXCEPT ![c] = Nothing]
      /\ UNCHANGED <<parent, spawning, child_fds, parent_fds, asked>>
  BY DEF End
<1>2. TypeOK
  BY DEF Inv
<1>3. /\ stage'[c] = "ended" /\ child'[c] = Nothing
      /\ \A b \in Child \ {c} : stage'[b] = stage[b] /\ child'[b] = child[b]
  BY <1>1, <1>2 DEF TypeOK
<1>4. Nothing \in Table /\ \A fd \in Fd : Nothing[fd] = Closed
  BY DEF Nothing, Table, Open
<1>5. Closed.of = 0 /\ \A b \in Child : b # 0
  BY StdioAssumption DEF Closed
<1>6. TypeOK'
  BY <1>1, <1>2, <1>4 DEF TypeOK
<1>7. Fresh' /\ ForkedReady' /\ EndsFound'
  BY <1>1, <1>3, <1>4, <1>5
  DEF Inv, Fresh, ForkedReady, EndsFound, ParentEnd, ChildEnd, Reader, Writer
<1>8. EndsClosed'
  <2>1. ASSUME NEW b \in Child, Apart(b)'
        PROVE  /\ spawning' # b => NoChildEnds(parent', b)
               /\ \A d \in Child : d # b \/ stage'[b] = "ended" => NoChildEnds(child'[d], b)
    <3>1. Apart(b)
      BY <1>1, <2>1 DEF Apart
    <3>2. /\ spawning # b => NoChildEnds(parent, b)
          /\ \A d \in Child : d # b \/ stage[b] = "ended" => NoChildEnds(child[d], b)
      BY <3>1 DEF Inv, EndsClosed
    <3>3. NoChildEnds(Nothing, b)
      BY <1>4, EndsDiffer DEF NoChildEnds
    <3> QED
      BY <1>1, <1>3, <3>2, <3>3
  <2> QED
    BY <2>1 DEF EndsClosed, NoChildEnds, ChildEnd, Reader, Writer
<1>9. Arrived'
  BY <1>1, <1>3 DEF Inv, Arrived, Untangled, ParentEnd, Reader, Writer
<1>10. InOrder'
  <2>1. \A b \in Child : stage'[b] = "none" <=> stage[b] = "none"
    BY <1>1, <1>3
  <2>2. \A b \in Child, fd \in Fd : child'[b][fd] = child[b][fd] \/ child'[b][fd] = Closed
    BY <1>3, <1>4
  <2> QED
    BY <2>1, <2>2, EndsDiffer DEF Inv, InOrder, ParentEnd, Reader, Writer
<1> QED
  BY <1>6, <1>7, <1>8, <1>9, <1>10 DEF Inv

\* No step of the program or of a child breaks the invariant.
LEMMA StepKeepsInv == Inv /\ [Next]_vars => Inv'
<1> SUFFICES ASSUME Inv, [Next]_vars PROVE Inv'
  OBVIOUS
<1>1. CASE UNCHANGED vars
  BY <1>1 DEF vars, Inv, TypeOK, Fresh, ForkedReady, EndsFound, EndsClosed, NoChildEnds, Arrived,
              InOrder, Untangled, Apart, ParentEnd, ChildEnd, Reader, Writer
<1>2. CASE Next
  <2> PICK c \in Child :
        \/ \E stdio \in [Slot -> Items] : Spawn(c, stdio)
        \/ Rewire(c)
        \/ Return(c)
        \/ \E s \in Slot : CloseStdio(c, s)
        \/ End(c)
    BY <1>2 DEF Next
  <2>1. CASE Return(c)
    <3>1. Inv'
      BY <2>1, ClosesKeepInv DEF Return
    <3> QED
      BY <3>1
  <2>2. CASE \E s \in Slot : CloseStdio(c, s)
    <3>1. PICK s \in Slot : CloseStdio(c, s)
      BY <2>2
    <3>2. /\ spawning = 0 /\ spawning' = 0
          /\ parent' = Close(parent, {parent_fds[c][s]})
          /\ UNCHANGED <<child, stage, child_fds, parent_fds, asked>>
      BY <3>1 DEF CloseStdio
    <3> QED
      BY <3>2, ClosesKeepInv
  <2> QED
    BY <2>1, <2>2, SpawnKeepsInv, RewireKeepsInv, EndKeepsInv
<1> QED
  BY <1>1, <1>2

----------------------------------------------------------------------------
(* What follows from it.                                                   *)

\* A running child has in its slots what was asked for, if that can be had slot by
\* slot, and of the program's ends those of earlier children at most: for any
\* number of children and any table the program starts with.
THEOREM ChildrenAreWired == Spec => []Wired
<1>1. Inv => Wired
  <2> SUFFICES ASSUME Inv, NEW c \in Child, stage[c] = "running"
               PROVE  /\ Untangled(c) => \A s \in Slot : asked[c][s] # Closed
                                                        => child[c][s] = asked[c][s]
                      /\ \A d \in Child, s \in Slot, fd \in Fd :
                           child[c][fd] = ParentEnd(d, s) => d < c
    BY DEF Wired
  <2>1. ASSUME NEW d \in Child, NEW s \in Slot, NEW fd \in Fd, child[c][fd] = ParentEnd(d, s)
        PROVE  d < c
    <3>1. d <= c
      BY <2>1 DEF Inv, InOrder
    <3>2. d # c
      BY <2>1 DEF Inv, Arrived
    <3>3. d \in Nat /\ c \in Nat
      BY StdioAssumption
    <3> QED
      BY <3>1, <3>2, <3>3
  <2> QED
    BY <2>1 DEF Inv, Arrived
<1> QED
  BY <1>1, InitInv, StepKeepsInv, PTL DEF Spec

\* Nobody is left with an end of a child that is gone.
THEOREM EndDoesCome == Spec => []EndComes
<1>1. Inv => EndComes
  BY DEF Inv, EndsClosed, NoChildEnds, EndComes
<1> QED
  BY <1>1, InitInv, StepKeepsInv, PTL DEF Spec

----------------------------------------------------------------------------
(* When every child is untangled and apart.                                *)

\* The program runs with its standard descriptors open and passes others as
\* numbers.
Standard == (\A s \in Slot : Start[s] # Closed) /\ Numbers \cap Slot = {}

\* Slots stay what they are in the program, and only stand for themselves.
SlotsStay ==
  /\ \A s \in Slot : parent[s] # Closed
  /\ \A c \in Child, s \in Slot :
       /\ parent_fds[c][s] \notin Slot
       /\ child_fds[c][s] \in Slot => child_fds[c][s] = s /\ asked[c][s] # ChildEnd(c, s)

\* With its standard descriptors open a program may pass "pipe", "inherit" and its
\* other descriptors in any array: the conditions under which Wired speaks of the
\* slots and EndComes of a child's ends always hold, since pipes never are at
\* descriptors that are slots.
THEOREM StandardIsPlain ==
  ASSUME Standard
  PROVE  Spec => [](\A c \in Child : Untangled(c) /\ Apart(c))
<1>1. Init => SlotsStay
  <2>1. -1 \notin Slot
    BY DEF Slot
  <2> QED
    BY <2>1 DEF Standard, Init, SlotsStay
<1>2. Inv /\ SlotsStay /\ [Next]_vars => SlotsStay'
  <2> SUFFICES ASSUME Inv, SlotsStay, [Next]_vars PROVE SlotsStay'
    OBVIOUS
  <2>1. TypeOK /\ Slot \subseteq Fd /\ -1 \notin Slot
    BY StdioAssumption DEF Inv, Slot, Fd
  <2>2. ASSUME NEW fds, parent' = Close(parent, fds), fds \cap Slot = {},
               UNCHANGED <<child_fds, parent_fds, asked>>
        PROVE  SlotsStay'
    <3>1. \A s \in Slot : parent'[s] = parent[s]
      BY <2>1, <2>2, CloseAt DEF TypeOK
    <3> QED
      BY <2>2, <3>1 DEF SlotsStay, ChildEnd, Reader, Writer
  <2>3. ASSUME UNCHANGED <<parent, child_fds, parent_fds, asked>> PROVE SlotsStay'
    BY <2>3 DEF SlotsStay, ChildEnd, Reader, Writer
  <2>4. CASE UNCHANGED vars
    BY <2>3, <2>4 DEF vars
  <2>5. ASSUME NEW c \in Child, Rewire(c) \/ End(c) PROVE SlotsStay'
    BY <2>3, <2>5 DEF Rewire, End
  <2>6. ASSUME NEW c \in Child, Return(c) PROVE SlotsStay'
    <3>1. {child_fds[c][s] : s \in {r \in Slot : child_fds[c][r] # r}} \cap Slot = {}
      BY DEF SlotsStay
    <3> QED
      BY <2>2, <2>6, <3>1 DEF Return
  <2>7. ASSUME NEW c \in Child, NEW s \in Slot, CloseStdio(c, s) PROVE SlotsStay'
    <3>1. {parent_fds[c][s]} \cap Slot = {}
      BY DEF SlotsStay
    <3> QED
      BY <2>2, <2>7, <3>1 DEF CloseStdio
  <2>8. ASSUME NEW c \in Child, NEW stdio \in [Slot -> Items], Spawn(c, stdio)
        PROVE  SlotsStay'
    <3> DEFINE made == AllPrepared(c, stdio)
               ask == [s \in Slot |-> Asked(c, s, stdio[s], made.its[s])]
    <3>1. /\ stage[c] = "none" /\ Proper(stdio)
          /\ parent' = made.table
          /\ child_fds' = [child_fds EXCEPT ![c] = made.its]
          /\ parent_fds' = [parent_fds EXCEPT ![c] = made.mine]
          /\ asked' = [asked EXCEPT ![c] = ask]
      BY <2>8 DEF Spawn
    <3>2. /\ made = AllPrepared(c, stdio)
          /\ ask = [s \in Slot |-> Asked(c, s, stdio[s], made.its[s])]
      OBVIOUS
    <3>3. Turned(c, stdio, 3, made)
      BY <2>1, AllTurns
    <3> HIDE DEF made, ask
    <3>4. \A s \in Slot : made.table[s] = parent[s]
      BY <2>1, <3>3 DEF Turned, SlotsStay
    <3>5. ASSUME NEW s \in Slot
          PROVE  /\ made.mine[s] \notin Slot
                 /\ made.its[s] \in Slot => made.its[s] = s /\ ask[s] # ChildEnd(c, s)
      <4>1. \/ /\ parent[made.its[s]] = Closed /\ parent[made.mine[s]] = Closed
            \/ made.mine[s] = -1 /\ made.its[s] = -1
            \/ made.mine[s] = -1 /\ made.its[s] = s /\ ask[s] = parent[s]
            \/ made.mine[s] = -1 /\ made.its[s] \in Numbers
        BY <2>1, <3>1, <3>2, SlotKinds
      <4>2. parent[s] # ChildEnd(c, s)
        BY <2>1, <3>1, EndsDiffer DEF Inv, Fresh
      <4> QED
        BY <2>1, <4>1, <4>2 DEF SlotsStay, Standard
    <3>6. /\ child_fds'[c] = made.its /\ parent_fds'[c] = made.mine /\ asked'[c] = ask
          /\ \A b \in Child \ {c} : /\ child_fds'[b] = child_fds[b]
                                    /\ parent_fds'[b] = parent_fds[b]
                                    /\ asked'[b] = asked[b]
      BY <2>1, <3>1 DEF TypeOK
    <3>7. \A s \in Slot : parent'[s] # Closed
      BY <3>1, <3>4 DEF SlotsStay
    <3>8. ASSUME NEW b \in Child, NEW s \in Slot
          PROVE  /\ parent_fds'[b][s] \notin Slot
                 /\ child_fds'[b][s] \in Slot
                      => child_fds'[b][s] = s /\ asked'[b][s] # ChildEnd(b, s)
      BY <3>5, <3>6 DEF SlotsStay
    <3> QED
      BY <3>7, <3>8 DEF SlotsStay, ChildEnd, Reader, Writer
  <2> QED
    BY <2>4, <2>5, <2>6, <2>7, <2>8 DEF Next
<1>3. SlotsStay => \A c \in Child : Untangled(c) /\ Apart(c)
  BY DEF SlotsStay, Untangled, Apart
<1> QED
  BY <1>1, <1>2, <1>3, InitInv, StepKeepsInv, PTL DEF Spec

=============================================================================
