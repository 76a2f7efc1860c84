----------------------------- MODULE MCModuleCalls -----------------------------
EXTENDS ModuleCalls, MCModuleLoader

CONSTANTS root, o1, o2, o3, o4, leaf, nil

\* two that the program makes, and spare ones for what the properties try
MCObj == {root, o1, o2, o3, o4}
MCPrim == {leaf, nil}

\* an index and two names
MCKey == 0..2

\* for pointers: an object inside of an array, one that leads back, and one whose
\* property is undefined
Prp(k, x) == [key |-> k, val |-> x]

MCGraphs ==
  {(root :> <<Prp(0, o1), Prp(1, leaf)>> @@ o1 :> <<Prp(0, leaf), Prp(2, o2)>> @@ o2 :> <<Prp(1, leaf)>>
      @@ [o \in MCObj |-> << >>]),
   (root :> <<Prp(1, o1), Prp(2, nil)>> @@ o1 :> <<Prp(0, root), Prp(1, o1)>> @@ [o \in MCObj |-> << >>])}

----------------------------------------------------------------------------
\* Predicates of every kind, with functions that answer 0, 1, another number or
\* throw, combined twice, by the functions of the module and by its constructor.

Str(t) == [type |-> "STRING", text |-> t, props |-> << >>, protos |-> <<"String", "Object">>]
WithK(x, protos) == [type |-> "OBJECT", text |-> << >>, props |-> [k \in {"k"} |-> x], protos |-> protos]

MCArguments ==
  {P!Unset} \cup {Str(t) : t \in {<< >>, <<"a">>, <<"b">>, <<"a", "b">>}}
            \cup {WithK(Str(<<"a">>), <<"String", "Object">>), WithK(Str(<<"b">>), <<"Object">>)}

OneTest == {P!Made("TYPE", <<{"STRING", "UNDEFINED"}>>), P!Made("CHARSET", <<{"a"}>>),
           P!Made("STRING", << <<"a">> >>), P!Made("REGEXP", <<{<<"a", "b">>, <<"b">>}>>),
           P!Made("EQUAL", <<Str(<<"b">>)>>), P!Made("INSTANCEOF", <<"Object">>),
           P!Made("PROTOTYPEIS", <<"String">>), P!Made("PROPERTY", <<"k">>)}

Operands == OneTest \cup {[id |-> "CALL", result |-> n] : n \in -1..2}

Lists == {<< >>} \cup {<<a>> : a \in Operands} \cup {<<a, b>> : a, b \in Operands}

Unary == {P!Made(id, <<a>>) : id \in {"NOT", "NOTNOT"}, a \in Operands}
           \cup {P!Made("PROPERTY", <<"k", a>>) : a \in Operands}

Nary == {P!Made(id, l) : id \in {"OR", "AND", "XOR"}, l \in Lists}

Nested == {P!Made(id, <<a>>) : id \in {"NOT", "NOTNOT"}, a \in Nary \cup Unary}
            \cup {P!Made(id, <<a, b>>) : id \in {"OR", "AND", "XOR"}, a \in Unary, b \in OneTest}

MCPredicates == OneTest \cup Unary \cup Nary \cup Nested
                  \cup {P!Constructed(id, l) : id \in {"OR", "AND", "XOR"}, l \in Lists}

----------------------------------------------------------------------------
\* Links beside one another and one inside of another, relative and absolute, to
\* other links, to themselves and up; and paths of three components.

a == <<"a">>
b == <<"b">>

Links == [{<<a>>, <<b, a>>} -> {<<"b">>, <<"/", "b", "/", "a">>, <<".", ".", "/", "b">>, <<"a">>}]
           \cup [{<<b, b>>} -> {<<"a">>, <<"/", "a">>, <<".", ".", "/", "a">>}] \cup {<< >>}

MCSystems == [links : Links, cwd : {<<b>>}]

Components3 == SeqOf({a, b, <<".">>, <<".", ".">>}, 3)

MCPaths == {L!Text(ns) : ns \in Components3}
             \cup {Tail(L!Text(ns)) : ns \in Components3 \ {<< >>}}

\* one name that another begins with
MCAbsolutes == {L!Text(ns) : ns \in SeqOf({a, b, <<"a", ".", "b">>}, 3) \ {<< >>}}

----------------------------------------------------------------------------
MCPatterns ==
  SeqOf({F!One("a"), F!One("/"), F!One("."), F!AnyOne, F!Star,
         F!Around({"a", ".", "b"}, TRUE, <<".", "a", "-", "b">>), F!Around({"]", "/"}, FALSE, <<"]", "/">>)}, 3)

MCTexts == SeqOf({"a", "c", "/", "."}, 2) \cup [1..3 -> {"a", "/", "."}] \cup {<<"]">>}

----------------------------------------------------------------------------
\* Elements with and without attributes and children, comments, declarations and
\* instructions, and text, two levels deep.

Text1 == [text |-> <<"t">>]

Attrs == {<< >>, << << >> >>, << << << <<"x">>, << >> >> >> >>, << << << <<"x">>, << <<"1">> >> >> >> >>}

Childless == {X!Node(tag, attrs, << >>) : tag \in {a, <<"?", "p">>}, attrs \in Attrs}
            \cup {X!Node(<<"!", "d">>, << >>, << >>), X!Node(<<"!", "-", "-">>, << >>, << >>), Text1}

UpToTwo(S) == {<< >>} \cup {<<x>> : x \in S} \cup {<<x, y>> : x, y \in S}

Parents(S) == {X!Node(a, attrs, <<l>>) : attrs \in {<< >>, << << >> >>}, l \in UpToTwo(S)}

Grandparents ==
  {X!Node(tag, << << >> >>, << <<n>> \o l >>) :
     tag \in {a, b}, n \in Parents({X!Node(a, << << >> >>, << >>), X!Node(<<"?", "p">>, << >>, << >>), Text1}),
     l \in {<< >>, <<Text1>>}}

\* Comments with words, hyphens and ">" in them, and longer names, each alone and
\* behind texts of which some begin like comments, also inside of an element
Tags ==
  {X!Node(<<"!", "-", "-">> \o t, << >>, << >>) :
     t \in {<<"-", "-">>, <<"t", "-", "-">>, <<" ", "t">>, <<" ", "-", "-">>, <<" ", ">", " ", "!", "-">>,
            <<" ", "t", "-", "-", ">", "-", "-">>, <<">", "-", "-">>}}
    \cup {X!Node(tag, <<at>>, children) :
            tag \in {<<"a", "b", "c">>, <<"?", "a", "b">>}, at \in {<< >>, << << <<"x">>, << <<"1">> >> >> >>},
            children \in {<< >>, << << >> >>}}
    \cup Childless

Marking == {[text |-> t] : t \in {<<"-", "-", "-">>, <<"!", "-", "!", "t">>, <<"-", "-">>, <<"t", "-", "-", "-">>}}

Marked == {<<tag>> : tag \in Tags} \cup {<<text, tag>> : text \in Marking, tag \in Tags}

MCDocuments ==
  (UpToTwo(Childless) \ {<< >>})
    \cup {<<n>> \o l : n \in Parents(Childless) \cup Grandparents, l \in {<< >>, <<Text1>>, <<Text1, X!Node(b, << << >> >>, << >>)>>}}
    \cup Marked
    \cup {l \o <<X!Node(<<"!", "-", "-">>, << >>, << >>)>> : l \in Marked}
    \cup {<<X!Node(a, << << >> >>, <<l \o m>>)>> : l \in Marked, m \in {<< >>} \cup {<<text>> : text \in Marking}}

----------------------------------------------------------------------------
\* References to definitions, also inside of groups, escaped and with a state;
\* prefixes that are no states; definitions with and without a group, and of
\* names by one another and by themselves.

n == <<"{", "n", "}">>
m == <<"{", "m", "}">>
S == <<"<", "S", ">">>

MCExpressions ==
  {a \o n, S \o m \o b, S \o a, <<"<", ">">> \o a, <<"\\">> \o n, <<"(">> \o n \o m \o <<")">>}

MCDefinitions == {<<"a", "b">>, <<"a", "|", "b">>, <<"(", "a", "|", "b", ")">>, m, n}

MCDefinedNames == {<<"n">>, <<"m">>}
=============================================================================
