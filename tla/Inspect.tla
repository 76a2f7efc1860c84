-------------------------------- MODULE Inspect --------------------------------
(***************************************************************************)
(* inspect (quickjs-inspect.c): an object graph written as text.           *)
(*                                                                         *)
(* The text is a sequence of tokens; blanks, line ends, colours and names  *)
(* of classes are left out.  What decides where the recursion stops is     *)
(* kept: the mark on an object that is being written, the depth left, the  *)
(* options, and the way a custom inspector is given both.                  *)
(***************************************************************************)
EXTENDS DeepOps

CONSTANTS DepthTop,   \* INT32_MAX
          NameRoom    \* sizeof(JSPropertyDescriptor) / sizeof(JSPropertyEnum)

ASSUME InspectAssumption == DepthTop \in Nat /\ NameRoom \in Nat \ {0}

\* what the code tells objects apart by; "Custom" is a plain object whose
\* custom inspector inspects it with the level and options it is given
Kinds == {"Object", "Array", "Function", "Map", "Set", "Custom"}

Leaf(v) == <<"leaf", v>>
Name(k) == <<"name", k>>
Begin == <<"begin">>
End == <<"end">>
Comma == <<"comma">>
Elided == <<"elided">>     \* [Object] or [Array]
More == <<"more">>         \* ... n more items
Called == <<"called">>     \* [Function]

----------------------------------------------------------------------------
(* Options.                                                                *)

Int32(n) == IF n > DepthTop THEN n - 2 * (DepthTop + 1) ELSE n

\* js_new_number, and how inspect_options_get takes it back
Infinity == << >>
NewNumber(n) == IF n = DepthTop THEN Infinity ELSE << n >>
ToInt32(x) == IF x = Infinity THEN DepthTop ELSE x[1]

\* inspect_options_init; the 100 elements of an array are as good as all
DefaultOptions ==
  [depth |-> DepthTop, maxArrayLength |-> DepthTop, hideKeys |-> {}, customInspect |-> TRUE]

\* A mutant: what INT32_MAX is written as is not taken back for it.
OptionsRaw(opts) ==
  [depth |-> NewNumber(opts.depth), maxArrayLength |-> << 0 >>,
   hideKeys |-> opts.hideKeys, customInspect |-> opts.customInspect]

\* inspect_options_object
OptionsObject(opts) ==
  [depth |-> NewNumber(opts.depth), maxArrayLength |-> NewNumber(opts.maxArrayLength),
   hideKeys |-> opts.hideKeys, customInspect |-> opts.customInspect]

\* inspect_options_get of an object that has them all
OptionsGet(object) ==
  [depth |-> ToInt32(object.depth), maxArrayLength |-> ToInt32(object.maxArrayLength),
   hideKeys |-> object.hideKeys, customInspect |-> object.customInspect]

----------------------------------------------------------------------------
(* Writing.  g is the heap with the kinds of its objects; s the text so    *)
(* far, the marked objects and whether the recursion has come to its end;  *)
(* left bounds the recursion.                                              *)

Put(s, token) == [s EXCEPT !.out = Append(@, token)]

Index0(g, v) == {k \in Index : HasProperty(g.heap, v, k)}

\* js_array_length
Length(g, v) == IF Index0(g, v) = {} THEN 0 ELSE Max(Index0(g, v)) + 1

RECURSIVE Write(_, _, _, _, _, _)

\* js_inspect_map, and js_inspect_set without names: no mark and no limit
WriteEntries(g, opts, s, v, depth, left) ==
  LET entry(r, i) ==
        LET p     == g.heap[v][i]
            comma == IF i > 1 THEN Put(r, Comma) ELSE r
        IN  IF g.kind[v] = "Map"
            THEN Write(g, opts, Put(comma, Name(p.key)), p.val, depth - 1, left)
            ELSE Write(g, opts, comma, p.val, depth, left)
  IN  Put(FoldLeftDomain(entry, Put(s, Begin), g.heap[v]), End)

\* the elements of an array, up to maxArrayLength of them
WriteElements(g, opts, s, v, depth, left) ==
  LET shown == Min({opts.maxArrayLength, Length(g, v)})
      element(r, i) ==
        LET comma == IF i > 1 THEN Put(r, Comma) ELSE r
        IN  IF HasProperty(g.heap, v, i - 1)
            THEN Write(g, opts, comma, GetProperty(g.heap, v, i - 1), depth - 1, left) ELSE comma
      all == FoldLeftDomain(element, s, [i \in 1..shown |-> i])
  IN  IF shown < Length(g, v) THEN Put(all, More) ELSE all

\* the properties: a comma before each but the first of all the names, whether
\* that one is written or not
WriteProperties(g, opts, s, v, depth, left) ==
  LET skipped(k) == k \in opts.hideKeys \/ (g.kind[v] = "Array" /\ k \in Index)
      property(r, i) ==
        LET p     == g.heap[v][i]
            comma == IF i > 1 THEN Put(r, Comma) ELSE r
        IN  IF skipped(p.key) THEN r
            ELSE Write(g, opts, Put(comma, Name(p.key)), p.val, depth - 1, left)
  IN  FoldLeftDomain(property, s, g.heap[v])

\* A mutant: the mark stays.
WriteMarkedOn(g, opts, s, v, depth, left) ==
  LET marked   == [Put(s, Begin) EXCEPT !.marks = @ \cup {v}]
      elements == IF g.kind[v] = "Array" THEN WriteElements(g, opts, marked, v, depth, left)
                  ELSE marked
  IN  Put(WriteProperties(g, opts, elements, v, depth, left), End)

\* the body of js_inspect_print between setting the mark and clearing it
WriteMarked(g, opts, s, v, depth, left) ==
  LET marked   == [Put(s, Begin) EXCEPT !.marks = @ \cup {v}]
      elements == IF g.kind[v] = "Array" THEN WriteElements(g, opts, marked, v, depth, left)
                  ELSE marked
      done     == WriteProperties(g, opts, elements, v, depth, left)
  IN  [Put(done, End) EXCEPT !.marks = @ \ {v}]

\* A mutant: nothing is asked whether it is marked.
WriteObjectUnasked(g, opts, s, v, depth, left) ==
  CASE g.kind[v] = "Map" -> WriteEntries(g, opts, s, v, depth, left)
    [] g.kind[v] = "Set" -> WriteEntries(g, opts, s, v, Int32(depth + 1), left)
    [] g.kind[v] = "Function" ->
         IF Len(g.heap[v]) \div NameRoom > 0 /\ depth >= 0
         THEN WriteProperties(g, opts, Put(s, Called), v, depth, left) ELSE Put(s, Called)
    [] OTHER -> IF depth < 0 THEN Put(s, Elided) ELSE WriteMarked(g, opts, s, v, depth, left)

\* js_inspect_print after the custom inspector: a function is not asked whether
\* it is marked, and shows its properties if their names take the room of a
\* property descriptor
WriteObject(g, opts, s, v, depth, left) ==
  CASE g.kind[v] = "Map" -> WriteEntries(g, opts, s, v, depth, left)
    [] g.kind[v] = "Set" -> WriteEntries(g, opts, s, v, Int32(depth + 1), left)
    [] g.kind[v] = "Function" ->
         IF Len(g.heap[v]) \div NameRoom > 0 /\ depth >= 0
         THEN WriteMarked(g, opts, Put(s, Called), v, depth, left) ELSE Put(s, Called)
    [] OTHER ->
         IF v \in s.marks THEN s
         ELSE IF depth < 0 THEN Put(s, Elided) ELSE WriteMarked(g, opts, s, v, depth, left)

\* js_inspect with a level and options, as a custom inspector calls it
Inspected(g, object, s, v, level, left) ==
  LET opts  == OptionsGet(object)
      inner == Write(g, opts, [s EXCEPT !.out = << >>], v, Int32(opts.depth - ToInt32(level)), left)
  IN  [inner EXCEPT !.out = s.out \o @]

Write(g, opts, s, v, depth, left) ==
  IF v \notin Obj \/ ~s.ends THEN Put(s, Leaf(v))
  ELSE IF left = 0 THEN [s EXCEPT !.ends = FALSE]
  ELSE IF g.kind[v] = "Custom" /\ opts.customInspect
       THEN Inspected(g, OptionsObject([opts EXCEPT !.customInspect = FALSE]), s, v,
                      NewNumber(opts.depth - depth), left - 1)
       ELSE WriteObject(g, opts, s, v, depth, left - 1)

\* the recursion goes no deeper than this, or as deep as one likes: every
\* object has its turn, and then a first one again
Deep == 3 * MaxMade

\* inspect(v, level, opts)
InspectText(g, v, level, opts) ==
  Write(g, opts, [out |-> << >>, marks |-> {}, ends |-> TRUE], v, opts.depth - level, Deep)

----------------------------------------------------------------------------
(* Properties.                                                             *)

Graph(kind) == [heap |-> heap, kind |-> [o \in Obj |-> IF o \in made THEN kind[o] ELSE "Object"]]

Element(g, o, k) == g.kind[o] = "Array" /\ k \in Index

Hidden(g, opts, o, k) == k \in opts.hideKeys /\ ~Element(g, o, k)

\* what is to be shown of v, given the objects it is inside of
RECURSIVE Shown(_, _, _, _, _)
Shown(g, opts, outer, v, depth) ==
  IF v \notin Obj THEN << Leaf(v) >>
  ELSE IF v \in outer THEN << >>
  ELSE IF depth < 0 THEN << Elided >>
  ELSE LET over(k)  == Element(g, v, k) /\ k >= opts.maxArrayLength
           there    == SelectSeq(g.heap[v], LAMBDA p : /\ ~Hidden(g, opts, v, p.key)
                                                       /\ over(p.key) => p.key = opts.maxArrayLength)
           entry(p) == (IF Element(g, v, p.key) THEN << >> ELSE << Name(p.key) >>)
                       \o Shown(g, opts, outer \cup {v}, p.val, depth - 1)
           text(i)  == IF over(there[i].key) THEN << More >>
                       ELSE IF i = 1 THEN entry(there[i]) ELSE << Comma >> \o entry(there[i])
       IN  << Begin >> \o FlattenSeq([i \in DOMAIN there |-> text(i)]) \o << End >>

\* Of plain objects, arrays without holes, and objects with a custom inspector
\* that passes on what it is given, inspect shows every one in full wherever it
\* comes, but inside of itself, below the depth and beyond the length asked for,
\* with a comma between any two properties unless the first is hidden; no mark
\* is left on any object.
InspectShows ==
  \A kind \in [made -> {"Object", "Array", "Custom"}], level \in {0, DepthTop - 1, DepthTop},
     hidden \in {{}} \cup {{k} : k \in Key}, length \in {0, DepthTop} :
    LET opts == [DefaultOptions EXCEPT !.hideKeys = hidden, !.maxArrayLength = length]
        g    == Graph(kind)
        s    == InspectText(g, Root, level, opts)
    IN  (hidden = {} \/ length = DepthTop) /\ (\A o \in made : heap[o] # << >> => ~Hidden(g, opts, o, heap[o][1].key)) =>
          /\ s.out = Shown(g, opts, {}, Root, DepthTop - level)
          /\ s.marks = {} /\ s.ends

\* the kinds whose objects are written again inside of themselves
Unmarked(g, v) ==
  \/ g.kind[v] \in {"Map", "Set"}
  \/ g.kind[v] = "Function" /\ Len(heap[v]) >= NameRoom

Follows(g, o) ==
  IF g.kind[o] = "Function" /\ ~Unmarked(g, o) THEN {} ELSE {heap[o][i].val : i \in DOMAIN heap[o]} \cap Obj

RECURSIVE Comes(_, _, _)
Comes(g, objs, n) ==
  IF n = 0 THEN objs ELSE Comes(g, objs \cup UNION {Follows(g, o) : o \in objs}, n - 1)

\* inspect ends, whatever the object graph, unless it comes to a cycle of maps,
\* sets and functions with many properties alone, none of which it looks for a
\* mark on.
InspectEnds ==
  \A kind \in [made -> Kinds \ {"Custom"}] :
    LET g == Graph(kind)
        round(o) == /\ Unmarked(g, o)
                    /\ LET inner == {x \in made : Unmarked(g, x)}
                           step(objs) == UNION {Follows(g, x) \cap inner : x \in objs}
                       IN  o \in step({o}) \/ o \in step(step({o}))
    IN  InspectText(g, Root, MaxMade, DefaultOptions).ends
          = ~ \E o \in Comes(g, {Root}, MaxMade) : round(o)
=============================================================================
