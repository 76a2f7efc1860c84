--------------------------- MODULE TreeHandlesProofs ---------------------------
(***************************************************************************)
(* The lifetime of a walker made by new TreeWalker(), for any number of    *)
(* objects that come to share it.                                          *)
(***************************************************************************)
EXTENDS TreeHandles, FiniteSetTheorems, TLAPS

(***************************************************************************)
(* The count of a walker made by new TreeWalker() is exact while it is     *)
(* there, and nothing points to it before or after.  The bound of Pointing *)
(* keeps the count from wrapping.                                          *)
(***************************************************************************)
Counted ==
  /\ walker = "live" => ref_count = Cardinality(Pointing) /\ Pointing # {}
  /\ walker # "live" => Pointing = {}
  /\ walker # "corrupt"

IInv ==
  /\ TypeOK
  /\ walker = "none" <=> maker = "none"
  /\ maker # "iterator" => Counted

\* The objects that point to the walker are finitely many, fewer than a word.
LEMMA PointingFinite ==
  /\ IsFiniteSet(Pointing)
  /\ Cardinality(Pointing) \in Nat
  /\ Cardinality(Pointing) < Word
<1>1. Pointing \subseteq Handle
  BY DEF Pointing
<1>2. IsFiniteSet(Pointing) /\ Cardinality(Pointing) <= Cardinality(Handle)
  BY <1>1, HandleAssumption, FS_Subset
<1>3. Cardinality(Pointing) \in Nat /\ Cardinality(Handle) \in Nat
  BY <1>2, HandleAssumption, FS_CardinalityType
<1> QED
  BY <1>2, <1>3, HandleAssumption

\* One more object points to the walker.
LEMMA OneMore ==
  ASSUME state \in [Handle -> {"none", "held", "dropped", "finalized"}],
         NEW h \in Handle, h \notin Pointing,
         state' = [state EXCEPT ![h] = "held"]
  PROVE  /\ Pointing' = Pointing \cup {h}
         /\ Cardinality(Pointing') = Cardinality(Pointing) + 1
         /\ Cardinality(Pointing) + 1 < Word
<1>1. Pointing' = Pointing \cup {h}
  BY DEF Pointing
<1>2. IsFiniteSet(Pointing) /\ IsFiniteSet(Handle)
  BY PointingFinite, HandleAssumption
<1>3. Cardinality(Pointing \cup {h}) = Cardinality(Pointing) + 1
  BY <1>2, FS_AddElement
<1>4. Pointing \cup {h} \subseteq Handle
  BY DEF Pointing
<1>5. Cardinality(Pointing \cup {h}) <= Cardinality(Handle)
  BY <1>2, <1>4, FS_Subset
<1>6. Cardinality(Pointing) \in Nat /\ Cardinality(Handle) \in Nat
  BY <1>2, FS_CardinalityType
<1> QED
  BY <1>1, <1>3, <1>5, <1>6, HandleAssumption

\* One object less points to it.
LEMMA OneLess ==
  ASSUME state \in [Handle -> {"none", "held", "dropped", "finalized"}],
         NEW h \in Handle, h \in Pointing,
         state' = [state EXCEPT ![h] = "finalized"]
  PROVE  /\ Pointing' = Pointing \ {h}
         /\ Cardinality(Pointing') = Cardinality(Pointing) - 1
         /\ Pointing' = {} <=> Cardinality(Pointing) = 1
<1>1. Pointing' = Pointing \ {h}
  BY DEF Pointing
<1>2. IsFiniteSet(Pointing)
  BY PointingFinite
<1>3. Cardinality(Pointing \ {h}) = Cardinality(Pointing) - 1
  BY <1>2, FS_RemoveElement
<1>4. IsFiniteSet(Pointing \ {h})
  BY <1>2, FS_RemoveElement
<1>5. Pointing \ {h} = {} <=> Cardinality(Pointing \ {h}) = 0
  BY <1>4, FS_EmptySet
<1>6. Cardinality(Pointing) \in Nat
  BY PointingFinite
<1> QED
  BY <1>1, <1>3, <1>5, <1>6

\* Without a walker nothing is counted.
LEMMA InitIInv == Init => IInv
<1> SUFFICES ASSUME Init PROVE IInv
  OBVIOUS
<1>1. Cardinality(Handle) \in Nat /\ Word \in Nat /\ Word # 0
  BY HandleAssumption, FS_CardinalityType
<1>2. ref_count \in 0..(Word - 1)
  BY <1>1 DEF Init
<1>3. Pointing = {}
  BY DEF Init, Pointing
<1> QED
  BY <1>2, <1>3 DEF Init, IInv, TypeOK, Counted

\* The types hold whichever constructor made the walker: the count wraps.
LEMMA NextTypeOK == TypeOK /\ [Next]_vars => TypeOK'
<1> SUFFICES ASSUME TypeOK, [Next]_vars PROVE TypeOK'
  OBVIOUS
<1>0. Word \in Nat /\ Word # 0 /\ ref_count \in Nat
  BY HandleAssumption, FS_CardinalityType DEF TypeOK
<1>1. (ref_count + 1) % Word \in 0..(Word - 1) /\ (ref_count - 1) % Word \in 0..(Word - 1)
  BY <1>0
<1>2. ASSUME NEW h \in Handle, NewWalker(h) PROVE TypeOK'
  <2>1. Cardinality(Handle) # 0 /\ Cardinality(Handle) \in Nat
    BY HandleAssumption, FS_CardinalityType, FS_EmptySet
  <2>2. 1 \in 0..(Word - 1)
    BY <2>1, <1>0, HandleAssumption
  <2> QED
    BY <2>2, <1>2 DEF NewWalker, TypeOK
<1>3. ASSUME NEW h \in Handle, NewIterator(h) PROVE TypeOK'
  <2>1. 0 \in 0..(Word - 1)
    BY <1>0
  <2> QED
    BY <2>1, <1>3 DEF NewIterator, TypeOK
<1>4. ASSUME NEW h \in Handle, Iterate(h) PROVE TypeOK'
  BY <1>1, <1>4 DEF Iterate, Misuse, TypeOK
<1>5. ASSUME NEW h \in Handle, Drop(h) PROVE TypeOK'
  BY <1>5 DEF Drop, TypeOK
<1>6. ASSUME NEW h \in Handle, Finalize(h) PROVE TypeOK'
  BY <1>1, <1>6 DEF Finalize, Misuse, TypeOK
<1>7. CASE UNCHANGED vars
  BY <1>7 DEF vars, TypeOK
<1> QED
  BY <1>2, <1>3, <1>4, <1>5, <1>6, <1>7 DEF Next

\* Every constructor, share and finalization keeps the invariant.
LEMMA NextIInv == IInv /\ [Next]_vars => IInv'
<1> SUFFICES ASSUME IInv, [Next]_vars PROVE IInv'
  OBVIOUS
<1>0. /\ state \in [Handle -> {"none", "held", "dropped", "finalized"}]
      /\ ref_count \in Nat /\ Word \in Nat /\ ref_count < Word
      /\ Cardinality(Pointing) \in Nat /\ Cardinality(Pointing) < Word
  BY HandleAssumption, PointingFinite DEF IInv, TypeOK
<1>00. TypeOK'
  BY NextTypeOK DEF IInv
<1>1. ASSUME NEW h \in Handle, NewWalker(h)
      PROVE  IInv'
  <2>1. walker = "none" /\ Pointing = {} /\ ref_count' = 1 /\ walker' = "live"
        /\ state' = [state EXCEPT ![h] = "held"] /\ maker' = "walker"
    BY <1>1 DEF NewWalker, IInv, Counted
  <2>2. Cardinality(Pointing) = 0
    BY <2>1, FS_EmptySet
  <2>3. Pointing' = Pointing \cup {h} /\ Cardinality(Pointing') = 1
    <3>1. h \notin Pointing
      BY <2>1
    <3>2. /\ Pointing' = Pointing \cup {h}
          /\ Cardinality(Pointing') = Cardinality(Pointing) + 1
      BY <1>0, <2>1, <3>1, OneMore
    <3> QED
      BY <2>2, <3>2
  <2> QED
    BY <1>00, <2>1, <2>3 DEF IInv, Counted
<1>2. ASSUME NEW h \in Handle, NewIterator(h)
      PROVE  IInv'
  BY <1>00, <1>2 DEF NewIterator, IInv
<1>3. ASSUME NEW h \in Handle, Iterate(h)
      PROVE  IInv'
  <2>0. maker' = maker /\ (walker' = "none" <=> walker = "none")
    BY <1>3 DEF Iterate, Misuse
  <2>1. CASE maker = "iterator"
    BY <1>00, <2>0, <2>1 DEF IInv
  <2>2. CASE maker # "iterator"
    <3>1. state[h] = "none" /\ Pointing # {}
      BY <1>3 DEF Iterate, Pointing
    <3>2. walker = "live" /\ ref_count = Cardinality(Pointing)
      BY <2>2, <3>1 DEF IInv, Counted
    <3>3. /\ state' = [state EXCEPT ![h] = "held"] /\ walker' = "live"
          /\ ref_count' = (ref_count + 1) % Word
      BY <1>3, <3>2 DEF Iterate
    <3>4. /\ Pointing' = Pointing \cup {h}
          /\ Cardinality(Pointing') = Cardinality(Pointing) + 1
          /\ Cardinality(Pointing) + 1 < Word
      BY <1>0, <3>1, <3>3, OneMore DEF Pointing
    <3>5. (ref_count + 1) % Word = ref_count + 1
      BY <1>0, <3>2, <3>4
    <3>6. ref_count' = Cardinality(Pointing')
      BY <3>2, <3>3, <3>4, <3>5
    <3> QED
      BY <1>00, <2>0, <3>1, <3>3, <3>4, <3>6 DEF IInv, Counted
  <2> QED
    BY <2>1, <2>2
<1>4. ASSUME NEW h \in Handle, Drop(h)
      PROVE  IInv'
  <2>1. Pointing' = Pointing /\ UNCHANGED <<ref_count, walker, maker>>
    BY <1>0, <1>4 DEF Drop, Pointing
  <2> QED
    BY <1>00, <2>1 DEF IInv, Counted
<1>5. ASSUME NEW h \in Handle, Finalize(h)
      PROVE  IInv'
  <2>0. maker' = maker /\ walker # "none" /\ walker' # "none"
    BY <1>5 DEF Finalize, Misuse
  <2>1. CASE maker = "iterator"
    BY <1>00, <2>0, <2>1 DEF IInv
  <2>2. CASE maker # "iterator"
    <3>1. h \in Pointing
      BY <1>5 DEF Finalize, Pointing
    <3>2. walker = "live" /\ ref_count = Cardinality(Pointing)
      BY <2>2, <3>1 DEF IInv, Counted
    <3>3. /\ state' = [state EXCEPT ![h] = "finalized"]
          /\ ref_count' = (ref_count - 1) % Word
          /\ walker' = IF ref_count' = 0 THEN "freed" ELSE "live"
      BY <1>5, <3>2 DEF Finalize
    <3>4. /\ Pointing' = Pointing \ {h}
          /\ Cardinality(Pointing') = Cardinality(Pointing) - 1
          /\ Pointing' = {} <=> Cardinality(Pointing) = 1
      BY <1>0, <3>1, <3>3, OneLess
    <3>5. Cardinality(Pointing) # 0
      BY <3>1, PointingFinite, FS_EmptySet
    <3>6. (ref_count - 1) % Word = ref_count - 1
      BY <1>0, <3>2, <3>5
    <3>7. ref_count' = Cardinality(Pointing) - 1
      BY <3>2, <3>3, <3>6
    <3>8. ref_count' = 0 <=> Pointing' = {}
      BY <1>0, <3>4, <3>7
    <3> QED
      BY <1>00, <2>0, <3>3, <3>4, <3>7, <3>8 DEF IInv, Counted
  <2> QED
    BY <2>1, <2>2
<1>6. CASE UNCHANGED vars
  BY <1>6 DEF vars, IInv, TypeOK, Counted, Pointing
<1> QED
  BY <1>1, <1>2, <1>3, <1>4, <1>5, <1>6 DEF Next

\* A walker made by new TreeWalker() outlives every object that points to it,
\* and is freed with the last of them.
THEOREM WalkerLifetime == Spec => [](TypeOK /\ LivesWithItsObjects)
<1>1. IInv => TypeOK /\ LivesWithItsObjects
  BY DEF IInv, Counted, LivesWithItsObjects
<1> QED
  BY <1>1, InitIInv, NextIInv, PTL DEF Spec
=============================================================================
