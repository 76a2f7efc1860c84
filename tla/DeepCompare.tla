------------------------------ MODULE DeepCompare ------------------------------
(***************************************************************************)
(* The functions of the deep module that look at whole objects: equals     *)
(* (two walks of the traversal engine side by side) and clone (utils.c),   *)
(* and the values a Pointer is cut into by slice and shift.                *)
(***************************************************************************)
EXTENDS DeepOps

Endless == [endless |-> TRUE]

\* what a function returns that throws
Exception == [exception |-> TRUE]

----------------------------------------------------------------------------
(* deep.equals                                                             *)

\* the frame of a root: only there PROPENUM_SORT_ATOMS sorts the names
SortedFrame(h, o) ==
  [NewFrame(h, o) EXCEPT !.tab = SetToSortSeq({h[o][i].key : i \in DOMAIN h[o]}, <)]

RECURSIVE Compared(_, _, _)

\* A mutant: the loop goes on while either walk has something left.
ComparedToTheEnd(h, as, bs) ==
  LET fit(fa, fb) == LET a == CurrentValue(h, Top(fa))
                         b == CurrentValue(h, Top(fb))
                     IN  {a, b} \subseteq Obj \/ ValueEquals(a, b)
      more == <<Recurse(h, as), Recurse(h, bs)>>
  IN  IF as = << >> \/ bs = << >> THEN as = bs
      ELSE fit(as, bs) /\ (more = << << >>, << >> >> \/ Compared(h, more[1], more[2]))

\* the loop, each walk at a property: names are not compared, nor are two
\* objects, and it ends when there is no more of the second
Compared(h, as, bs) ==
  /\ as # << >>
  /\ LET a == CurrentValue(h, Top(as))
         b == CurrentValue(h, Top(bs))
     IN  {a, b} \subseteq Obj \/ ValueEquals(a, b)
  /\ \/ Recurse(h, bs) = << >>
     \/ Compared(h, Recurse(h, as), Recurse(h, bs))

\* js_deep_equals of objects that both have properties; it reads a name of the
\* root before it asks whether there is one
DeepEquals(h, a, b) == Compared(h, <<SortedFrame(h, a)>>, <<SortedFrame(h, b)>>)

----------------------------------------------------------------------------
(* deep.clone                                                              *)

RECURSIVE Cloned(_, _, _)

\* A mutant: what an object refers to is not cloned.
ClonedShallow(odd, s, v) ==
  IF v \in odd THEN [s EXCEPT !.obj = Exception]
  ELSE IF v \notin Obj THEN [s EXCEPT !.obj = v]
  ELSE IF Obj \ s.made = {} THEN Endless
  ELSE LET copy == CHOOSE o \in Obj \ s.made : TRUE
       IN  [heap |-> [s.heap EXCEPT ![copy] = s.heap[v]], made |-> s.made \cup {copy}, obj |-> copy]

\* js_value_clone of v: s.obj is what it returns.  It has no case for the odd
\* values, which are arrays (their type is that of objects too) and NaN, and
\* throws; but JS_SetProperty takes what it returned for a property as it takes
\* a value.  No account is kept of the objects being cloned: round a cycle it
\* makes objects without end, here until there are no more to make.
Cloned(odd, s, v) ==
  IF v \in odd THEN [s EXCEPT !.obj = Exception]
  ELSE IF v \notin Obj THEN [s EXCEPT !.obj = v]
  ELSE IF Obj \ s.made = {} THEN Endless
  ELSE LET copy == CHOOSE o \in Obj \ s.made : TRUE
           property(r, p) ==
             LET inner == Cloned(odd, r, p.val)
             IN  IF Endless \in {r, inner} THEN Endless
                 ELSE [inner EXCEPT !.heap = SetProperty(@, copy, p.key, inner.obj)]
           filled == FoldLeft(LAMBDA r, p : IF r = Endless THEN r ELSE property(r, p),
                              [s EXCEPT !.made = @ \cup {copy}], s.heap[v])
       IN  IF filled = Endless THEN Endless ELSE [filled EXCEPT !.obj = copy]

Clone(odd, v) == Cloned(odd, [heap |-> heap, made |-> made, obj |-> v], v)

----------------------------------------------------------------------------
(* A Pointer's names, cut.                                                 *)

\* mod_int32 by the number of names
Wrapped(i, n) == ((i % n) + n) % n

\* A mutant: an end of 0 is the beginning.
SliceToZero(p, start, end) == SubSeq(p, Wrapped(start, Len(p)) + 1, Wrapped(end, Len(p)))

\* pointer_slice of a pointer that has names: an end of 0 is the number of them
Slice(p, start, end) ==
  LET last == Wrapped(end, Len(p))
  IN  SubSeq(p, Wrapped(start, Len(p)) + 1, IF last = 0 THEN Len(p) ELSE last)

\* pointer_shift with a value: the first name is taken off and looked up, which
\* throws in undefined and finds nothing in other values that are no objects
Shift(h, s) ==
  IF s.names = << >> THEN [s EXCEPT !.value = Undefined]
  ELSE [names |-> Tail(s.names),
        value |-> CASE s.value \in Obj -> GetProperty(h, s.value, s.names[1])
                    [] s.value = Undefined -> Exception
                    [] OTHER -> Undefined]

----------------------------------------------------------------------------
(* Properties.                                                             *)

Refers(h, o) == {h[o][i].val : i \in DOMAIN h[o]} \cap Obj

\* the objects a value refers to, over n or fewer others
RECURSIVE Within(_, _, _)
Within(h, objs, n) ==
  IF n = 0 THEN objs ELSE Within(h, objs \cup UNION {Refers(h, o) : o \in objs}, n - 1)

Reached(h, o) == Within(h, Refers(h, o), Cardinality(Obj))

Cyclic(h, o) == \E x \in {o} \cup Reached(h, o) : x \in Reached(h, x)

\* the objects as clone sees them, with an exception for every odd value in them
WithoutOdd(odd) ==
  [o \in Obj |-> [i \in DOMAIN heap[o] |->
     IF heap[o][i].val \in odd THEN [heap[o][i] EXCEPT !.val = Exception] ELSE heap[o][i]]]

\* clone throws for an array, and of another object it makes a copy in which, in
\* place of every array and NaN, there is an exception; it ends where there is
\* no cycle but through arrays, and nowhere else.  The objects there were are
\* left as they were and the copy shares none of them; but for the exceptions
\* it flattens to the same names and leaves in the same order, and if there are
\* none equals finds the two equal, whichever comes first.
CloneApart ==
  \A v \in made, odd \in SUBSET (made \cup (Prim \ {Undefined})) :
    LET s == Clone(odd, v)
        seen == WithoutOdd(odd)
        leaves(h, o) == SelectSeq(Flatten(h, o), LAMBDA e : e.val \notin Obj)
    IN  IF v \in odd THEN s.obj = Exception
        ELSE /\ (s = Endless) = Cyclic(seen, v)
             /\ s # Endless =>
                  /\ \A o \in made : s.heap[o] = heap[o]
                  /\ ({s.obj} \cup Reached(s.heap, s.obj)) \cap made = {}
                  /\ heap[v] # << >> =>
                       /\ leaves(s.heap, s.obj) = leaves(seen, v)
                       /\ \/ \E e \in ToSet(leaves(seen, v)) : e.val = Exception
                          \/ DeepEquals(s.heap, v, s.obj) /\ DeepEquals(s.heap, s.obj, v)

\* what equals looks at: the values in the order of the walk, objects alike
Looks(o) ==
  LET seen == Visits(heap, <<SortedFrame(heap, o)>>, Cardinality(Obj))
  IN  [i \in DOMAIN seen |-> IF seen[i].value \in Obj THEN Obj ELSE {seen[i].value}]

\* equals says so exactly when what the second object holds comes first in what
\* the first one holds: objects with the same values are never told apart, and
\* when equals differs with the order of its arguments, one of them holds more.
EqualsPrefix ==
  \A a, b \in {o \in made : heap[o] # << >>} :
    /\ DeepEquals(heap, a, b) <=> IsPrefix(Looks(b), Looks(a))
    /\ DeepEquals(heap, a, b) /\ ~DeepEquals(heap, b, a) => Len(Looks(a)) > Len(Looks(b))

\* Cut in two anywhere, from either end, a pointer leads over its first part and
\* then its second to where it leads whole.  Shift, name by name, comes to the
\* same value; if the pointer leads nowhere shift finds undefined for the first
\* name that does not lead on, and throws at the name after that.
CutPointersLead ==
  \A p \in Path :
    LET whole == Deref(heap, Root, p)
        walked == FoldLeft(LAMBDA s, k : IF s.value = Exception THEN s ELSE Shift(heap, s),
                           [names |-> p, value |-> Root], p)
        along(k) == Deref(heap, Root, SubSeq(p, 1, k))
        far == CHOOSE k \in 0..Len(p) :
                 /\ along(k) # Missing
                 /\ \A j \in (k + 1)..Len(p) : along(j) = Missing
        throws == far + IF along(far).value = Undefined THEN 1 ELSE 2
    IN  /\ \A k \in 1..(Len(p) - 1), back \in {0, Len(p)} :
             LET first == Deref(heap, Root, Slice(p, 0, k - back))
             IN  whole = IF first = Missing THEN Missing
                         ELSE Deref(heap, first.value, Slice(p, k - back, 0))
        /\ walked = IF whole # Missing THEN [names |-> << >>, value |-> whole.value]
                    ELSE IF throws > Len(p) THEN [names |-> << >>, value |-> Undefined]
                    ELSE [names |-> SubSeq(p, throws + 1, Len(p)), value |-> Exception]
=============================================================================
