------------------------------- MODULE Predicate -------------------------------
(***************************************************************************)
(* Predicates (predicate.c, quickjs-predicate.c): tests made of tests.     *)
(*                                                                         *)
(* A predicate is a record with the id it has in the code and its fields;  *)
(* what it refers to in turn is in "values", a sequence of predicates, of  *)
(* functions of the program, [id |-> "CALL", result |-> what ToInt32 makes *)
(* of the value returned, or -1 if it throws], or of anything else,        *)
(* [id |-> "OTHER"].  An argument is a record: its type, its text (empty   *)
(* unless it is a string), its properties and the chain of its prototypes. *)
(*                                                                         *)
(* An answer is an integer.  Both a regular expression's bytecode and the  *)
(* characters of a set are made when they are first needed, and kept:      *)
(* "kept" is a function from the places in the predicate where that has    *)
(* happened to the characters there, of which an expression has none.      *)
(***************************************************************************)
EXTENDS Integers, Sequences, SequencesExt

Abort == -9          \* an assertion failed
Unset == [type |-> "UNDEFINED", text |-> << >>, props |-> << >>, protos |-> << >>]

\* the exclusive or of the last three bits
Xor(a, b) ==
  LET bit(n, i) == (n \div i) % 2
      one(i)    == IF bit(a, i) # bit(b, i) THEN i ELSE 0
  IN  one(1) + one(2) - one(4)

\* JS_EXCEPTION, which no type, text or prototype fits
Thrown == [type |-> "EXCEPTION", text |-> << >>, props |-> << >>, protos |-> << >>]

\* JS_GetProperty: undefined has no properties to ask for
Prop(arg, k) ==
  IF arg.type \in {"UNDEFINED", "EXCEPTION"} THEN Thrown
  ELSE IF k \in DOMAIN arg.props THEN arg.props[k] ELSE Unset

\* what is returned, what is kept afterwards, and whether captures were given
Answer(n, kept) == [answer |-> n, kept |-> kept, captured |-> FALSE]

\* a place where something is kept goes on keeping it
Keep(kept, place, what) == kept @@ (place :> what)

RECURSIVE PredicateCall(_, _, _, _)

\* the set of characters, by what is kept of it
AskCharset(p, place, arg, kept) ==
  LET now == Keep(kept, place, p.set)
  IN  Answer(IF ToSet(arg.text) \subseteq now[place] THEN 1 ELSE 0, now)

\* A mutant: an expression is only tried when it is compiled.
AskTextOnce(p, place, arg, kept) ==
  CASE p.id = "CHARSET" -> AskCharset(p, place, arg, kept)
    [] p.id = "STRING"  -> Answer(IF IsPrefix(p.text, arg.text) THEN 1 ELSE 0, kept)
    [] p.id = "REGEXP"  ->
         LET found == place \notin DOMAIN kept /\ arg.text \in p.matches
         IN  [answer |-> IF found THEN 1 ELSE 0, kept |-> Keep(kept, place, {}), captured |-> found]

\* the predicates on text.  Only the call that compiles an expression knows how
\* many captures it has.
AskText(p, place, arg, kept) ==
  CASE p.id = "CHARSET" -> AskCharset(p, place, arg, kept)
    [] p.id = "STRING"  -> Answer(IF IsPrefix(p.text, arg.text) THEN 1 ELSE 0, kept)
    [] p.id = "REGEXP"  ->
         LET found == arg.text \in p.matches
         IN  [answer |-> IF found THEN 1 ELSE 0, kept |-> Keep(kept, place, {}),
              captured |-> found /\ place \notin DOMAIN kept]

\* the predicates on the argument itself; what is no object is an instance of
\* nothing, but may have a prototype
AskValue(p, arg, kept) ==
  LET true == CASE p.id = "TYPE"        -> arg.type \in p.flags
                [] p.id = "EQUAL"       -> arg = p.value
                [] p.id = "INSTANCEOF"  -> arg.type = "OBJECT" /\ p.value \in ToSet(arg.protos)
                [] p.id = "PROTOTYPEIS" -> arg.protos # << >> /\ arg.protos[1] = p.value
  IN  Answer(IF true THEN 1 ELSE 0, kept)

\* A mutant: "and" goes on to the end, and the last answer counts.
StopsOr(p, answer) == p.id = "OR" /\ answer = 1

\* an "or" stops at the first 1, an "and" at the first that is not 1
Stops(p, answer) == (p.id = "OR" /\ answer = 1) \/ (p.id = "AND" /\ answer # 1)

\* or, and, xor: but for xor the last answer counts
AskAll(p, place, arg, kept) ==
  LET ask(r, i) ==
        LET one   == PredicateCall(p.values[i], Append(place, i), arg, r.kept)
            shown == [one EXCEPT !.captured = @ \/ r.captured]
        IN  IF r.answer = Abort \/ (i > 1 /\ Stops(p, r.answer)) THEN r
            ELSE IF p.id = "XOR" /\ one.answer # Abort THEN [shown EXCEPT !.answer = Xor(r.answer, @)]
            ELSE shown
  IN  FoldLeftDomain(ask, Answer(0, kept), p.values)

\* not and notnot
AskOne(p, place, arg, kept) ==
  LET r == PredicateCall(p.values[1], Append(place, 1), arg, kept)
  IN  IF r.answer = Abort THEN r
      ELSE [r EXCEPT !.answer = IF (@ = 0) = (p.id = "NOT") THEN 1 ELSE 0]

\* property: only its being there, if no predicate is given for its value; that
\* one is given what JS_GetProperty returns, and nothing to put captures in
AskProperty(p, place, arg, kept) ==
  IF p.values = << >> THEN Answer(IF p.key \in DOMAIN arg.props THEN 1 ELSE 0, kept)
  ELSE [PredicateCall(p.values[1], Append(place, 1), Prop(arg, p.key), kept) EXCEPT !.captured = FALSE]

\* predicate_eval
PredicateEval(p, place, arg, kept) ==
  CASE p.id \in {"CHARSET", "STRING", "REGEXP"} -> AskText(p, place, arg, kept)
    [] p.id \in {"TYPE", "EQUAL", "INSTANCEOF", "PROTOTYPEIS"} -> AskValue(p, arg, kept)
    [] p.id \in {"OR", "AND", "XOR"}  -> AskAll(p, place, arg, kept)
    [] p.id \in {"NOT", "NOTNOT"}     -> AskOne(p, place, arg, kept)
    [] p.id = "PROPERTY"              -> AskProperty(p, place, arg, kept)

\* predicate_call: what is neither a predicate nor a function fails an assertion
PredicateCall(v, place, arg, kept) ==
  CASE v.id = "OTHER" -> Answer(Abort, kept)
    [] v.id = "CALL"  -> Answer(v.result, kept)
    [] OTHER          -> PredicateEval(v, place, arg, kept)

\* predicate_dup of what is kept for the predicate itself: an expression is
\* compiled again; for a set of characters vector_copy makes room for as many and
\* counts none, or, if there were none, makes no room, and they are made again.
\* What the predicate refers to is shared with the copy.
PredicateDup(p, kept) ==
  LET shared == [place \in DOMAIN kept \ {<< >>} |-> kept[place]]
  IN  IF p.id = "CHARSET" /\ << >> \in DOMAIN kept /\ kept[<< >>] # {}
      THEN Keep(shared, << >>, {}) ELSE shared

\* predicate_type, predicate_charset and so on: the fields of a predicate
Fields(id, args) ==
  CASE id = "TYPE"     -> [id |-> id, flags |-> args[1]]
    [] id = "CHARSET"  -> [id |-> id, set |-> args[1]]
    [] id = "STRING"   -> [id |-> id, text |-> args[1]]
    [] id = "REGEXP"   -> [id |-> id, matches |-> args[1]]
    [] id = "PROPERTY" -> [id |-> id, key |-> args[1], values |-> Tail(args)]
    [] id \in {"EQUAL", "INSTANCEOF", "PROTOTYPEIS"} -> [id |-> id, value |-> args[1]]
    [] id \in {"NOT", "NOTNOT", "OR", "AND", "XOR"}  -> [id |-> id, values |-> args]

\* js_predicate_function: not and notnot take the first of the arguments, or, and
\* and xor all of them, and property a predicate if one is given
Made(id, args) == Fields(id, IF id \in {"NOT", "NOTNOT"} THEN << args[1] >> ELSE args)

\* js_predicate_constructor, of the id and the arguments: or, and and xor take
\* the id for the first of them
Constructed(id, args) ==
  Made(id, IF id \in {"OR", "AND", "XOR"} THEN << [id |-> "OTHER"] >> \o args ELSE args)

----------------------------------------------------------------------------
(* Properties.                                                             *)

\* the truth of a predicate, if what it refers to has one
RECURSIVE Holds(_, _)
Holds(p, arg) ==
  LET holds(i) == Holds(p.values[i], arg)
  IN  CASE p.id = "CALL" -> p.result # 0
        [] p.id = "OR"   -> \E i \in DOMAIN p.values : holds(i)
        [] p.id = "AND"  -> p.values # << >> /\ \A i \in DOMAIN p.values : holds(i)
        [] p.id = "XOR"  -> Len(SelectSeq([i \in DOMAIN p.values |-> holds(i)], LAMBDA b : b)) % 2 = 1
        [] p.id = "NOT"  -> ~holds(1)
        [] p.id = "NOTNOT" -> holds(1)
        [] p.id = "PROPERTY" -> IF p.values = << >> THEN p.key \in DOMAIN arg.props
                                ELSE Holds(p.values[1], Prop(arg, p.key))
        [] p.id = "CHARSET" -> ToSet(arg.text) \subseteq p.set
        [] p.id = "STRING"  -> IsPrefix(p.text, arg.text)
        [] p.id = "REGEXP"  -> arg.text \in p.matches
        [] p.id = "TYPE"    -> arg.type \in p.flags
        [] p.id = "EQUAL"   -> arg = p.value
        [] p.id = "INSTANCEOF"  -> arg.type = "OBJECT" /\ \E i \in DOMAIN arg.protos : arg.protos[i] = p.value
        [] p.id = "PROTOTYPEIS" -> IsPrefix(<< p.value >>, arg.protos)

\* a part of a predicate
RECURSIVE Parts(_)
Parts(p) ==
  {p} \cup IF "values" \in DOMAIN p THEN UNION {Parts(p.values[i]) : i \in DOMAIN p.values} ELSE {}

Results(p) == {q.result : q \in {x \in Parts(p) : x.id = "CALL"}}

\* a set of characters that is the copy of one in use has lost them
Lost(p, worn) == worn /\ p.id = "CHARSET"

\* Where the program's functions answer 0 or 1, a predicate answers 0 or 1, and
\* 1 just when it is true, or, if it is a set that has lost its characters, when
\* the text is empty; whatever they answer, a predicate made by the functions of
\* the module fails no assertion, and an "or", "and" or "xor" the constructor
\* has made from an id always does.
TrueWhenOne(p, arg, kept, worn) ==
  LET r    == PredicateEval(p, << >>, arg, kept).answer
      true == IF Lost(p, worn) THEN arg.text = << >> ELSE Holds(p, arg)
  IN  IF \E q \in Parts(p) : q.id = "OTHER"
      THEN p.id \in {"OR", "AND", "XOR"} /\ p.values[1].id = "OTHER" => r = Abort
      ELSE /\ r # Abort
           /\ Results(p) \subseteq {0, 1} => r = IF true THEN 1 ELSE 0

\* What is kept never changes an answer, but in a set that has lost its characters,
\* and of all evaluations with one argument no two give captures, unless the
\* predicate was copied between them.
KeptIsRight(p, arg, kept, worn) ==
  LET first == PredicateEval(p, << >>, arg, kept)
      again == PredicateEval(p, << >>, arg, first.kept)
  IN  /\ Lost(p, worn) \/ first.answer = PredicateEval(p, << >>, arg, << >>).answer
      /\ again.answer = first.answer /\ ~again.captured
=============================================================================
