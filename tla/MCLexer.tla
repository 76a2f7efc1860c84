------------------------------ MODULE MCLexer ------------------------------
(* Instances of Lexer: five rules in two states.  In INITIAL a word, an opening
   bracket whose action pushes, and blanks that the skip mask drops; in INNER a
   closing bracket whose action pops and a word that is skipped after its action. *)
EXTENDS Lexer

CONSTANTS inner, outer

MCRuleState == [r \in 1..5 |-> IF r <= 3 THEN outer ELSE inner]

\* Matches of the rules at offsets 0 to 3 of a text of three bytes.
Row(a, b, c) == [p \in 0..3 |-> <<a, b, c, 0>>[p + 1]]

\* "a\n(": a word of one or two bytes, or a bracket and a blank inside one.
Plain == [size |-> 3, starts |-> {0, 1, 2}, newlines |-> {1},
          match |-> <<Row(2, 0, 0), Row(2, 0, 1), Row(0, 1, 0), Row(1, 0, 1), Row(2, 2, 0)>>]
\* A character of two bytes, that rule 2 cuts, and a newline.
Wide == [size |-> 3, starts |-> {0, 2}, newlines |-> {2},
         match |-> <<Row(2, 0, 0), Row(1, 0, 0), Row(0, 0, 1), Row(0, 0, 1), Row(3, 0, 0)>>]
\* Nothing matches the first byte; the engine fails on the last.
Broken == [size |-> 3, starts |-> {0, 1, 2}, newlines |-> {0},
           match |-> <<Row(0, 2, 0), Row(0, 1, EXEC), Row(0, 0, COMPILE), Row(0, 2, EXEC), Row(1, 0, 1)>>]
Empty == [size |-> 0, starts |-> {}, newlines |-> {}, match |-> [r \in 1..5 |-> [p \in {0} |-> 0]]]

MCTexts == {Plain, Wide, Broken, Empty}
=============================================================================
