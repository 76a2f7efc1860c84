---------------------------------- MODULE Xml ----------------------------------
(***************************************************************************)
(* xml.read and xml.write (quickjs-xml.c).                                 *)
(*                                                                         *)
(* A text is a sequence of characters.  A document is a sequence of nodes: *)
(* [text |-> t], or an element, whose attributes and children may be there *)
(* or not: << >> stands for undefined, << x >> for x.  Attributes are a    *)
(* sequence of a name and a value, which is << >> for true.                *)
(***************************************************************************)
EXTENDS Integers, Sequences, SequencesExt

Blank == {" ", "\n"}
Bang == {"!", "-"}        \* EXCLAM and HYPHEN are the same bit
Finish == {"/", ">"}
AttrEnd == {"=", "!", "?", ">"} \cup Blank

Undef == << >>

Node(tag, attributes, children) == [tag |-> tag, attributes |-> attributes, children |-> children]

Opens(t, chars) == t # << >> /\ t[1] \in chars
Rest(t, n) == SubSeq(t, n + 1, Len(t))

\* skip_until: how many characters there are before one of these
Before(t, chars) == Min({n \in 0..Len(t) : n = Len(t) \/ t[n + 1] \in chars})
SkipBlank(t) == Rest(t, Min({n \in 0..Len(t) : n = Len(t) \/ t[n + 1] \notin Blank}))
SkipOne(t, chars) == IF Opens(t, chars) THEN Tail(t) ELSE t

----------------------------------------------------------------------------
(* Reading.  The stack holds the elements that are open, [name, attributes, *)
(* children]; the last is the one that children are put into, and the first *)
(* the document.                                                            *)

AddNode(stack, node) == [stack EXCEPT ![Len(stack)].children = Append(@, node)]

\* the macro pop: the document stays
PopOpen(stack) ==
  LET open == Last(stack)
  IN  IF Len(stack) < 2 THEN stack
      ELSE AddNode(Front(stack), Node(open.name, << open.attributes >>, << open.children >>))

AddText(stack, t) ==
  LET used == {n \in DOMAIN t : t[n] \notin Blank}
  IN  IF t = << >> THEN stack ELSE AddNode(stack, [text |-> SubSeq(t, 1, Max(used))])

\* xml_set_attr_value
SetAttribute(attributes, name, value) ==
  IF \E i \in DOMAIN attributes : attributes[i][1] = name
  THEN [i \in DOMAIN attributes |-> IF attributes[i][1] = name THEN << name, value >> ELSE attributes[i]]
  ELSE Append(attributes, << name, value >>)

\* the loop over the attributes: they, and what is left of the text
RECURSIVE ReadAttributes(_, _)
ReadAttributes(t, attributes) ==
  LET from  == SkipBlank(t)
      name  == SubSeq(from, 1, Before(from, AttrEnd))
      after == Rest(from, Len(name))
      start == SkipOne(Rest(after, 1), {"\""})
      value == SubSeq(start, 1, Before(start, {"\""}))
  IN  IF from = << >> \/ Opens(from, Finish) \/ name = << >> THEN << attributes, from >>
      ELSE IF Opens(after, Blank \cup {">"})
           THEN ReadAttributes(after, SetAttribute(attributes, name, Undef))
      ELSE IF Opens(after, {"="})
           THEN ReadAttributes(SkipOne(Rest(start, Len(value)), {"\""}),
                               SetAttribute(attributes, name, << value >>))
      ELSE ReadAttributes(after, attributes)

NameOf(t) == SubSeq(t, 1, Before(t, Blank \cup Finish))

\* where a tag's name ends, for the reader that has come to "at" with it.  If the
\* text before the tag begins like a comment, a name of three characters goes
\* on, whatever it is, to the end of a comment that begins after them, or of the
\* text; else what begins with "!" goes on to the next ">".
TagEnd(before, t, at) ==
  LET name   == NameOf(t)
      marked == Len(before) >= 3 /\ ToSet(SubSeq(before, 1, 3)) \subseteq Bang
      ends   == {n \in (at + 1)..(Len(t) - 3) : {t[n + 1], t[n + 2]} \subseteq Bang /\ t[n + 3] = ">"}
  IN  IF Len(name) >= 3 /\ marked THEN IF ends = {} THEN Len(t) ELSE Min(ends) + 2
      ELSE IF Opens(name, Bang) THEN at + Before(Rest(t, at), {">"})
      ELSE Len(name)

\* what begins with "!" ends with its name
ReadBang(stack, t, end) ==
  << AddNode(stack, Node(SubSeq(t, 1, end), Undef, Undef)), Rest(t, end + 1) >>

\* A closing tag that does not close the last open element becomes an element.
ReadClosing(stack, before, t) ==
  LET name == NameOf(t)
      rest == SkipOne(SkipBlank(Rest(t, Len(name))), {">"})
      at   == Len(t) - Len(rest)
      end  == TagEnd(before, t, at)
  IN  IF Last(stack).name = name THEN << PopOpen(stack), rest >>
      ELSE IF Opens(name, Bang) THEN ReadBang(stack, t, end)
      ELSE << AddNode(stack, Node(SubSeq(t, 1, end), Undef, Undef)),
              SkipOne(SkipBlank(Rest(t, Max({at, end}))), {">"}) >>

\* A mutant: what is closed by itself is left open.
ReadOpeningLeft(stack, before, t) ==
  LET end  == TagEnd(before, t, Len(NameOf(t)))
      read == ReadAttributes(Rest(t, end), << >>)
      rest == SkipOne(SkipBlank(SkipOne(read[2], {"/", "?"})), {">"})
  IN  IF Opens(t, Bang) THEN ReadBang(stack, t, end)
      ELSE << Append(stack, [name |-> SubSeq(t, 1, end), attributes |-> read[1], children |-> << >>]), rest >>

\* After "?" the element is put in place, and then the one it is in is closed.
ReadOpening(stack, before, t) ==
  LET end   == TagEnd(before, t, Len(NameOf(t)))
      name  == SubSeq(t, 1, end)
      read  == ReadAttributes(Rest(t, end), << >>)
      self  == Opens(read[2], {"/"})
      after == SkipOne(read[2], {"/"})
      empty == AddNode(stack, Node(name, << read[1] >>, Undef))
  IN  CASE Opens(t, Bang)  -> ReadBang(stack, t, end)
        [] Opens(t, {"?"}) ->
             << PopOpen(empty), SkipOne(SkipBlank(SkipOne(after, {"?"})), {">"}) >>
        [] OTHER ->
             << IF self THEN empty
                ELSE Append(stack, [name |-> name, attributes |-> read[1], children |-> << >>]),
                SkipOne(SkipBlank(after), {">"}) >>

RECURSIVE ReadFrom(_, _)

\* one round of the loop of js_xml_parse; text that no tag follows is left out
ReadFrom(stack, t) ==
  LET from  == SkipBlank(t)
      text  == SubSeq(from, 1, Before(from, {"<"}))
      tag   == Rest(from, Len(text) + 1)
      added == AddText(stack, text)
      read  == IF Opens(tag, {"/"}) THEN ReadClosing(added, text, Tail(tag))
               ELSE ReadOpening(added, text, tag)
  IN  IF Len(text) = Len(from) THEN stack ELSE ReadFrom(read[1], read[2])

\* js_xml_parse: the document has no name; what is open at the end is closed
Read(t) ==
  LET stack == ReadFrom(<< [name |-> << >>, attributes |-> << >>, children |-> << >>] >>, t)
      close[n \in 1..Len(stack)] == IF n = Len(stack) THEN stack ELSE PopOpen(close[n + 1])
  IN  close[1][1].children

----------------------------------------------------------------------------
(* Writing.                                                                *)

Indent(depth) == [i \in 1..(2 * depth) |-> " "]

\* xml_write_attributes: the quote that ends a value is written after true, too
WriteAttributes(attributes) ==
  FlattenSeq([i \in DOMAIN attributes |->
    << " " >> \o attributes[i][1]
      \o (IF attributes[i][2] = Undef THEN << >> ELSE << "=", "\"" >> \o attributes[i][2][1])
      \o << "\"" >>])

IsComment(node) == Len(node.tag) >= 3 /\ SubSeq(node.tag, 1, 3) = << "!", "-", "-" >>

\* xml_write_element: without attributes there is no name
WriteElement(node, depth) ==
  Indent(depth) \o << "<" >>
    \o (IF IsComment(node) THEN node.tag
        ELSE IF node.attributes # Undef THEN node.tag \o WriteAttributes(node.attributes[1]) ELSE << >>)
    \o (IF node.children # Undef \/ IsComment(node) THEN << ">" >>
        ELSE IF Opens(node.tag, {"?"}) THEN << "?", ">" >>
        ELSE IF Opens(node.tag, {"!"}) THEN << "!", ">" >> ELSE << " ", "/", ">" >>)
    \o << "\n" >>

\* xml_close_element
CloseElement(node, depth) == Indent(depth) \o << "<", "/" >> \o node.tag \o << ">", "\n" >>

RECURSIVE WriteNodes(_, _)

\* the loop of js_xml_write with xml_enumeration_next
WriteNodes(nodes, depth) ==
  LET written(node) ==
        IF "text" \in DOMAIN node THEN Indent(depth) \o node.text \o << "\n" >>
        ELSE WriteElement(node, depth)
               \o IF node.children = Undef THEN << >>
                  ELSE WriteNodes(node.children[1], depth + 1) \o CloseElement(node, depth)
  IN  FlattenSeq([i \in DOMAIN nodes |-> written(nodes[i])])

----------------------------------------------------------------------------
(* Properties.                                                             *)

\* what a document holds, in order
RECURSIVE Nodes(_)
Nodes(nodes) ==
  FlattenSeq([i \in DOMAIN nodes |->
    IF "text" \in DOMAIN nodes[i] THEN << nodes[i] >>
    ELSE << nodes[i] >> \o IF nodes[i].children = Undef THEN << >> ELSE Nodes(nodes[i].children[1])])

IsText(node) == "text" \in DOMAIN node

\* a node that is written as it would be read; a tag that is no comment is a name
Keeps(node) ==
  IF IsText(node) THEN TRUE
  ELSE IF IsComment(node) THEN node.attributes = Undef /\ node.children = Undef
  ELSE /\ ~Opens(node.tag, Bang)
       /\ node.attributes # Undef
       /\ \A i \in DOMAIN node.attributes[1] : node.attributes[1][i][2] # Undef
       /\ Opens(node.tag, {"?"}) => node.attributes[1] # << >> /\ node.children = Undef

\* the places of ">", the one behind a tag included, that end a comment behind the
\* tag's first word
MarkedEnds(tag) ==
  {n \in (Len(NameOf(tag)) + 4)..(Len(tag) + 1) :
     {tag[n - 1], tag[n - 2]} \subseteq Bang /\ (n > Len(tag) \/ tag[n] = ">")}

\* a node that is read to its end, behind a text that begins like a comment or not
Delimited(node, marked) ==
  CASE IsText(node)    -> TRUE
    [] IsComment(node) -> IF marked THEN MarkedEnds(node.tag) = {Len(node.tag) + 1}
                          ELSE ">" \notin ToSet(node.tag)
    [] OTHER           -> marked => Len(node.tag) < 3

Marks(node) == IsText(node) /\ Len(node.text) >= 3 /\ ToSet(SubSeq(node.text, 1, 3)) \subseteq Bang

\* A document that is written and read is the same again, exactly when
\*  - its elements have attributes, none of them true, and no name beginning with
\*    "!", and its comments have neither attributes nor children;
\*  - none that begins with "?" is inside of another, without attributes, or has
\*    children;
\*  - each text has a tag after it, which, if the text begins with three of "!"
\*    and "-", is of an element with a name of one or two characters or a comment
\*    that ends with "--" and has no "-->" but there, both behind its first word;
\*  - no other comment has a ">" in it.
ReadsBack(nodes) ==
  LET all    == Nodes(nodes)
      inside == {n.children[1] : n \in {x \in ToSet(all) : ~IsText(x) /\ x.children # Undef}}
      follows(l) == \A i \in DOMAIN l :
                      /\ i > 1 => ~IsText(l[i]) \/ ~IsText(l[i - 1])
                      /\ Delimited(l[i], i > 1 /\ Marks(l[i - 1]))
  IN  Read(WriteNodes(nodes, 0)) = nodes <=>
        /\ \A n \in ToSet(all) : Keeps(n)
        /\ \A l \in inside : \A n \in ToSet(l) : IsText(n) \/ ~Opens(n.tag, {"?"})
        /\ ~IsText(Last(nodes)) /\ \A l \in {nodes} \cup inside : follows(l)
=============================================================================
