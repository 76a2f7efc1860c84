-------------------------------- MODULE DeepOps --------------------------------
(***************************************************************************)
(* The functions of the deep module that take a path (quickjs-deep.c, on   *)
(* the pointers of pointer.c) and those that look for one: get, set,       *)
(* unset, find, select, pathOf, forEach and flatten.  The program builds   *)
(* objects with set and unset alone, cycles and shared objects included.   *)
(*                                                                         *)
(* A name is a number; those below FirstName are indexes of arrays, which  *)
(* are enumerated first.  Arrays and other objects are not told apart.     *)
(***************************************************************************)
EXTENDS PropertyEnumeration, FiniteSets, SequencesExt

CONSTANTS Root,        \* the object given to the functions
          FirstName,   \* the first name that is not an index
          MaxPath,     \* bound on the names in a path
          MaxMade,     \* bound on the objects the program makes
          MaxProps     \* bound on the properties of one object

ASSUME OpsAssumption ==
  /\ Root \in Obj
  /\ Key \subseteq Nat /\ FirstName \in Nat
  /\ MaxPath \in Nat /\ MaxMade \in Nat /\ MaxProps \in Nat

VARIABLES heap,   \* the JavaScript objects
          made    \* those that there are

vars == <<heap, made>>

Path == SeqOf(Key, MaxPath) \ {<< >>}

Index == {k \in Key : k < FirstName}

\* The objects refer to objects that there are and to nothing else; names are
\* distinct, and indexes come first and in order.
TypeOK ==
  /\ made \in SUBSET Obj /\ Root \in made
  /\ heap \in [Obj -> Seq([key : Key, val : made \cup Prim])]
  /\ \A o \in Obj :
       /\ o \notin made => heap[o] = << >>
       /\ \A i, j \in DOMAIN heap[o] :
            i < j => /\ heap[o][i].key # heap[o][j].key
                     /\ heap[o][j].key \in Index => heap[o][i].key < heap[o][j].key

Init ==
  /\ heap = [o \in Obj |-> << >>]
  /\ made = {Root}

----------------------------------------------------------------------------
(* Objects.  HasProperty is false of values that are not objects, and to   *)
(* set or delete a property of one has no effect.                          *)

HasProperty(h, v, k) == v \in Obj /\ At(h[v], k) # {}

SetProperty(h, v, k, x) ==
  LET new     == [key |-> k, val |-> x]
      smaller == SelectSeq(h[v], LAMBDA p : k \notin Index \/ p.key < k)
      larger  == SelectSeq(h[v], LAMBDA p : k \in Index /\ p.key > k)
  IN  IF v \notin Obj THEN h
      ELSE IF HasProperty(h, v, k)
           THEN [h EXCEPT ![v] = [i \in DOMAIN @ |-> IF @[i].key = k THEN new ELSE @[i]]]
           ELSE [h EXCEPT ![v] = Append(smaller, new) \o larger]

DeleteProperty(h, v, k) ==
  IF v \notin Obj THEN h ELSE [h EXCEPT ![v] = SelectSeq(@, LAMBDA p : p.key # k)]

----------------------------------------------------------------------------
(* Pointers.                                                               *)

Missing == [error |-> "ReferenceError"]
Null == [null |-> TRUE]

Found(v) == [value |-> v]

\* pointer_deref from v on: a property that is not there is an error
Deref(h, v, p) ==
  FoldLeft(LAMBDA r, k : IF r # Missing /\ HasProperty(h, r.value, k)
                         THEN Found(GetProperty(h, r.value, k)) ELSE Missing, Found(v), p)

\* js_deep_get, which returns null instead of an error if noThrow is set.  Called
\* without flags it reads some that are not initialized: then noThrow is either.
Get(h, v, p, noThrow) ==
  LET r == Deref(h, v, p)
  IN  IF r = Missing /\ noThrow THEN Null ELSE r

\* A mutant: a property that is undefined is taken for one that is not there.
StepUndefined(s, k) ==
  IF HasProperty(s.heap, s.obj, k) /\ GetProperty(s.heap, s.obj, k) # Undefined
  THEN [s EXCEPT !.obj = GetProperty(s.heap, s.obj, k)]
  ELSE LET child == CHOOSE o \in Obj \ s.made : TRUE
       IN  [heap |-> SetProperty(s.heap, s.obj, k, child), made |-> s.made \cup {child},
            obj |-> child]

\* one round of pointer_acquire: what is not there is made, and put into
\* nothing if s.obj is no object
StepInto(s, k) ==
  IF HasProperty(s.heap, s.obj, k)
  THEN [s EXCEPT !.obj = GetProperty(s.heap, s.obj, k)]
  ELSE LET child == CHOOSE o \in Obj \ s.made : TRUE
       IN  [heap |-> SetProperty(s.heap, s.obj, k, child), made |-> s.made \cup {child},
            obj |-> child]

Acquire(h, m, v, p) == FoldLeft(StepInto, [heap |-> h, made |-> m, obj |-> v], p)

\* js_deep_set, where pointer_acquire has come to
Stored(s, p, x) == [s EXCEPT !.heap = SetProperty(@, s.obj, Last(p), x)]

\* js_deep_set of the object v
AfterSet(h, m, v, p, x) == Stored(Acquire(h, m, v, Front(p)), p, x)

\* js_deep_unset of the object v
AfterUnset(h, v, p) ==
  LET r == Deref(h, v, Front(p))
  IN  IF r = Missing THEN h ELSE DeleteProperty(h, r.value, Last(p))

----------------------------------------------------------------------------
(* Paths as text: names, which are one character each, and what parts them. *)

Open == -1
Close == -2
Dot == -3
Garbled == -4   \* a name with one of these in it, which no object has

\* property_enumeration_pathstr
Dotted(p) == [i \in 1..(2 * Len(p) - 1) |-> IF i % 2 = 0 THEN Dot ELSE p[(i + 1) \div 2]]

\* pointer_tostring
Bracketed(p) ==
  LET Written(i) == IF p[i] \in Index THEN << Open, p[i], Close >>
                    ELSE IF i > 1 THEN << Dot, p[i] >> ELSE << p[i] >>
  IN  FlattenSeq([i \in DOMAIN p |-> Written(i)])

\* pointer_parse: a name that begins with a bracket goes up to a dot, another
\* one up to a dot or bracket, and a bracket that closes it is left out
Parsed(t) ==
  LET parse[i \in 1..(Len(t) + 2)] ==
        IF i > Len(t) THEN << >>
        ELSE LET start == IF t[i] = Open THEN i + 1 ELSE i
                 ends  == IF t[i] = Open THEN {Dot} ELSE {Dot, Open}
                 delim == Min({j \in start..(Len(t) + 1) : j > Len(t) \/ t[j] \in ends})
                 chars == SubSeq(t, start, delim - 1)
                 name  == IF Last(chars) = Close THEN Front(chars) ELSE chars
             IN  << IF Len(name) = 1 THEN name[1] ELSE Garbled >> \o parse[delim + 1]
  IN  parse[1]

----------------------------------------------------------------------------
(* Searches.  All but get, set and unset read the first property of their  *)
(* object before they ask whether there is one.                            *)

RECURSIVE Visits(_, _, _)

\* the positions the loops of find, select, pathOf and flatten come to
Visits(h, frames, depth) ==
  IF frames = << >> THEN << >>
  ELSE << [path  |-> [i \in DOMAIN frames |-> CurrentKey(frames[i])],
           value |-> CurrentValue(h, Top(frames))] >>
       \o Visits(h, IF Len(frames) >= depth THEN Skip(frames) ELSE Recurse(h, frames), depth)

\* A mutant: the limit is one deeper.
SelectDeeper(h, wanted, depth) ==
  SelectSeq(Visits(h, Push(h, << >>, Root), depth + 1), LAMBDA e : e.value \in wanted)

\* js_deep_select with a predicate that is true of the wanted values
Select(h, wanted, depth) ==
  SelectSeq(Visits(h, Push(h, << >>, Root), depth), LAMBDA e : e.value \in wanted)

\* js_deep_find stops at the first; there is none at all deeper than there are
\* objects
Find(h, wanted) ==
  LET all == Select(h, wanted, Cardinality(Obj))
  IN  IF all = << >> THEN Missing ELSE [path |-> Head(all).path]

\* js_value_equals, unless both are objects: a value is equal to itself alone, one
\* that is not a number included (symbols, which are not here, to nothing)
ValueEquals(a, b) == a = b

\* js_deep_pathof a value that is not an object
DeepPathOf(h, x) ==
  LET r == Find(h, {v \in Obj \cup Prim : ValueEquals(x, v)})
  IN  IF r = Missing THEN Undefined ELSE r.path

\* js_value_type, as far as it tells objects from other values
ValueType(v) == IF v \in Obj THEN "object" ELSE "primitive"

\* js_deep_foreach: the function is called at each position whose value is of one
\* of the types, the others are only passed; and never for an empty object
ForEach(h, types) ==
  IF h[Root] = << >> THEN << >>
  ELSE SelectSeq(Visits(h, Push(h, << >>, Root), Cardinality(Obj)), LAMBDA e : ValueType(e.value) \in types)

\* js_deep_flatten of the object v
Flatten(h, v) ==
  LET all == Visits(h, Push(h, << >>, v), Cardinality(Obj))
  IN  [i \in DOMAIN all |-> [key |-> Dotted(all[i].path), val |-> all[i].value]]

----------------------------------------------------------------------------
(* The program.                                                            *)

\* deep.set(Root, p, x)
Set(p, x) ==
  LET s == AfterSet(heap, made, Root, p, x)
  IN  /\ heap' = s.heap /\ made' = s.made
      /\ Cardinality(made') <= MaxMade
      /\ \A o \in made' : Len(heap'[o]) <= MaxProps

\* deep.unset(Root, p)
Unset(p) == heap' = AfterUnset(heap, Root, p) /\ UNCHANGED made

\* a path with more names than there are objects is the detour of a shorter one
Next ==
  \E p \in {q \in Path : Len(q) <= MaxMade} :
    \/ Unset(p)
    \/ \E x \in made \cup Prim : Set(p, x)

Spec == Init /\ [][Next]_vars

----------------------------------------------------------------------------
(* Properties.                                                             *)

\* the values a path leads through from Root, as set goes along it
Way(p) == [i \in DOMAIN p |-> Acquire(heap, made, Root, SubSeq(p, 1, i - 1)).obj]

\* it goes through objects, and not over the property it ends in
Straight(p, way) ==
  /\ \A i \in DOMAIN p : way[i] \in Obj
  /\ \A i \in 1..(Len(p) - 1) : <<way[i], p[i]>> # <<way[Len(p)], Last(p)>>

\* the ways to write a path: a text that begins with two indexes is read wrongly
Writings(p) ==
  {Dotted(p)} \cup IF Len(p) > 1 /\ {p[1], p[2]} \subseteq Index THEN {} ELSE {Bracketed(p)}

\* what each path is read as
Readings == {<< p, {Parsed(t) : t \in Writings(p)} >> : p \in Path}

Properties(h, c) == {h[c[1]][i] : i \in At(h[c[1]], c[2])}

\* What set stores under a path, written as flatten or a pointer writes it, get
\* finds there, if the way does not change under it; and of the objects there
\* were, set changes no more than one property, the path's last or one that was
\* missing, and none if it runs into a value that is not an object.
SetThenGet ==
  \A reading \in Readings :
    LET p   == reading[1]
        way == Way(p)
        straight == Straight(p, way)
        through  == \A i \in DOMAIN p : way[i] \in Obj
    IN  \A name \in reading[2] :
          LET s == Acquire(heap, made, Root, Front(name))
          IN  \A x \in made \cup Prim :
                LET after   == Stored(s, name, x).heap
                    changed == {c \in {o \in made : heap[o] # after[o]} \X Key :
                                  Properties(heap, c) # Properties(after, c)}
                IN  /\ straight => \A noThrow \in BOOLEAN : Get(after, Root, p, noThrow) = Found(x)
                    /\ Cardinality(changed) <= IF through THEN 1 ELSE 0
                    /\ \A c \in changed : Properties(heap, c) = {} \/ c = <<way[Len(p)], Last(p)>>

\* unset takes back a set that added a property, order included, and does not
\* change anything where there is nothing.
UnsetUndoesSet ==
  \A p \in Path :
    Deref(heap, Root, p) = Missing =>
      /\ AfterUnset(heap, Root, p) = heap
      /\ Deref(heap, Root, Front(p)) # Missing =>
           \A x \in made \cup Prim :
             AfterUnset(AfterSet(heap, made, Root, p, x).heap, Root, p) = heap

\* a path that does not come to the same object twice
Simple(p) ==
  \A i, j \in DOMAIN p :
    i < j => Deref(heap, Root, SubSeq(p, 1, i - 1)) # Deref(heap, Root, SubSeq(p, 1, j - 1))

\* select finds exactly the paths get follows to what is wanted, cut where they
\* come back to an object or to the limit, each once; find and pathOf find a path
\* if there is any; and forEach comes to all of them, of an empty object too.
SearchesAgree ==
  LET leads  == {<< p, Get(heap, Root, p, TRUE) >> : p \in Path}
      simple == {p \in Path : Simple(p)}
      to(wanted) == {x[1] : x \in {y \in leads : y[2] \in {Found(v) : v \in wanted}}}
      paths(e)   == {e[i].path : i \in DOMAIN e}
      once(e)    == Len(e) = Cardinality(paths(e))
  IN  /\ \A types \in SUBSET {"object", "primitive"} :
           LET e == ForEach(heap, types)
           IN  once(e) /\ paths(e) = simple \cap to({v \in made \cup Prim : ValueType(v) \in types})
      /\ heap[Root] # << >> =>
           /\ \A wanted \in {made, Prim} \cup {{v} : v \in made \cup Prim} :
                LET first == Find(heap, wanted)
                IN  /\ \A depth \in 1..MaxPath :
                         LET e == Select(heap, wanted, depth)
                         IN  once(e) /\ paths(e) = {p \in simple \cap to(wanted) : Len(p) <= depth}
                    /\ IF first = Missing THEN to(wanted) = {} ELSE first.path \in to(wanted)
           /\ \A x \in Prim : LET p == DeepPathOf(heap, x)
                             IN  IF p = Undefined THEN to({x}) = {} ELSE p \in to({x})

Leaves(h, v) == SelectSeq(Flatten(h, v), LAMBDA e : e.val \notin Obj)

\* An object made by setting what flatten has found in another, leaves only,
\* flattens to the same leaves in the same order, however the other's objects
\* are shared; and the other is left alone.
CopyAgrees ==
  heap[Root] # << >> =>
    LET copy   == CHOOSE o \in Obj \ made : TRUE
        leaves == Leaves(heap, Root)
        s      == FoldLeft(LAMBDA r, e : AfterSet(r.heap, r.made, copy, Parsed(e.key), e.val),
                           [heap |-> heap, made |-> made \cup {copy}, obj |-> copy], leaves)
    IN  /\ \A o \in made : s.heap[o] = heap[o]
        /\ leaves # << >> => Leaves(s.heap, copy) = leaves
=============================================================================
