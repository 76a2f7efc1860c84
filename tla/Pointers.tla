-------------------------------- MODULE Pointers --------------------------------
(***************************************************************************)
(* The Pointer class (quickjs-pointer.c): an object that holds the names   *)
(* of a path.  A program walks with one through objects that do not        *)
(* change: it takes names off, cuts the pointer in two, makes it anew from *)
(* itself, and gives it other paths.                                       *)
(*                                                                         *)
(* A walk is a record: the objects, the names that are left, and the value *)
(* it has come to; "whole" (history) is what the path leads to that the    *)
(* program has given last, "misread" (history) that it was read from a     *)
(* text that begins with two indexes, and "ended" that the program has     *)
(* ended in an assertion.                                                  *)
(***************************************************************************)
EXTENDS DeepCompare

CONSTANT Graphs   \* the objects there are to walk through, each a heap

----------------------------------------------------------------------------
(* Ways to fill a pointer, each with its possible outcomes.  A value is a  *)
(* record of its type and its names or its text.                           *)

Filled(names) == [names |-> names, ended |-> FALSE]
Ended == [names |-> << >>, ended |-> TRUE]

\* memory for no name at all is an assertion, of the engine or of
\* pointer_fromarray, in builds that have them
Allocated(names) == {Filled(names)} \cup IF names = << >> THEN {Ended} ELSE {}

\* pointer_reset
Reset == << >>

\* pointer_copy
CopyOf(names) == Allocated(names)

\* pointer_toarray
ToArray(names) == [type |-> "array", names |-> names]

\* pointer_fromarray
FromArray(items) == Allocated(items)

\* pointer_fromstring: each name that is read is put behind those there are
FromString(names, text) == {Filled(FoldLeft(Append, names, Parsed(text)))}

\* js_iterator_new and js_iterator_next, until it is done; what cannot be
\* iterated throws, and that counts as done
Iterated(v) == IF v.type \in {"array", "pointer"} THEN v.names ELSE << >>

\* A mutant: the names there were stay.
FromIterableAppended(names, v) == {Filled(FoldLeft(Append, names, Iterated(v)))}

\* pointer_fromiterable: a pointer that is given itself lists its names before
\* they are given up
FromIterable(names, v) == {Filled(FoldLeft(Append, Reset, Iterated(v)))}

\* pointer_from, into a pointer with some names; values of other types are refused
From(names, v) ==
  CASE v.type = "pointer"   -> CopyOf(v.names)
    [] v.type = "string"    -> FromString(names, v.text)
    [] v.type = "array"     -> FromArray(v.names)
    [] v.type = "undefined" -> {Filled(names)}
    [] OTHER                -> {}

\* js_pointer_new, for which refused values are errors
New(v) == From(Reset, v)

\* Pointer.from, and Pointer.of one name after the other
Functions(v) == New(v) \cup IF v.type = "array" THEN {Filled(FoldLeft(Append, Reset, v.names))} ELSE {}

\* js_pointer_get
Getter(names, prop) == IF prop = "length" THEN Len(names) ELSE ToArray(names)

----------------------------------------------------------------------------
(* Walks.                                                                  *)

\* the text is misread that begins with two indexes
Misreads(names) == Len(names) > 1 /\ {names[1], names[2]} \subseteq Index

\* the values that a program writes for a path
Given(p) ==
  {[type |-> type, names |-> p] : type \in {"pointer", "array"}}
    \cup {[type |-> "string", text |-> t] : t \in Writings(p)}
    \cup {[type |-> type] : type \in IF p = << >> THEN {"undefined"} ELSE {}}

\* js_pointer_constructor, with a value for the path p
Begun(graph, p, v) ==
  {[fn |-> "pointer", graph |-> graph, names |-> o.names, value |-> Root,
    whole |-> Deref(graph, Root, p), misread |-> FALSE, ended |-> o.ended] : o \in New(v)}

\* the methods shift, and slice and deref: the program goes on with the names from
\* the k-th on when it has followed those before, if they lead anywhere; a shift
\* that throws leaves it with the value it had
Methods(c) ==
  LET all   == 1..(Getter(c.names, "length") - 1)
      first == [k \in all |-> Deref(c.graph, c.value, Slice(c.names, 0, k))]
      next  == Shift(c.graph, [names |-> c.names, value |-> c.value])
  IN  {[c EXCEPT !.names = Slice(@, k, 0), !.value = first[k].value] : k \in {j \in all : first[j] # Missing}}
        \cup IF c.names = << >> THEN {} ELSE {[c EXCEPT !.names = next.names, !.value = IF next.value = Exception THEN @ ELSE next.value]}

\* the pointer is made anew from itself, from the array of its names, from the
\* names, or from its text, if its own names were not misread
Remade(c) ==
  LET own == {[type |-> "pointer", names |-> c.names], Getter(c.names, "path")}
  IN  {[c EXCEPT !.names = o.names, !.ended = o.ended] : o \in UNION {Functions(v) : v \in own}}
        \cup {[c EXCEPT !.names = o.names, !.misread = @ \/ Misreads(c.names)] :
                o \in IF Garbled \in ToSet(c.names) THEN {} ELSE New([type |-> "string", text |-> Bracketed(c.names)])}

\* js_pointer_set: it is given the path p as an array, or itself, or a text,
\* which leaves no names; but for itself, the walk begins again
Assigned(c, p) ==
  {[c EXCEPT !.names = o.names] : o \in FromIterable(c.names, [type |-> "pointer", names |-> c.names])}
    \cup {[c EXCEPT !.names = o.names, !.value = Root, !.misread = FALSE, !.whole = Deref(c.graph, Root, p)] :
            o \in FromIterable(c.names, [type |-> "array", names |-> p])}
    \cup {[c EXCEPT !.names = o.names, !.value = Root, !.misread = FALSE, !.whole = Found(Root)] :
            o \in FromIterable(c.names, [type |-> "string", text |-> Dotted(p)])}

----------------------------------------------------------------------------
(* Properties.                                                             *)

\* Wherever a walk has come to, by whatever pointers, the names left lead on to
\* where the whole path leads; if it leads nowhere, so do they, or, none left,
\* the value is undefined; and a path that was misread leads nowhere.
WalkLeads(c) ==
  LET rest    == Deref(c.graph, c.value, c.names)
      nowhere == rest = Missing \/ (c.names = << >> /\ c.value = Undefined)
  IN  ~c.ended => IF c.misread \/ c.whole = Missing THEN nowhere ELSE rest = c.whole
=============================================================================
