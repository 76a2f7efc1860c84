------------------------------- MODULE PathMatch -------------------------------
(***************************************************************************)
(* path_fnmatch (path.c): a pattern against a text, a character at a time. *)
(* The answer is Match, NoMatch, Endless where the code goes round without *)
(* taking a character, or Beyond where it reads on after the pattern.      *)
(***************************************************************************)
EXTENDS Path

Match == "match"
NoMatch == "no match"
Endless == "endless"
Beyond == "beyond"

\* characters in their order
Order == << "!", "*", "-", Period, Slash, ":", "?", "[", "\\", "]", "a", "b", "c" >>
Between(lo, c, hi) ==
  \E i, j, k \in DOMAIN Order : i <= j /\ j <= k /\ Order[i] = lo /\ Order[j] = c /\ Order[k] = hi

Begins(p, c) == p # << >> /\ p[1] = c

\* what follows the end of a bracket
AfterBracket(p) == Drop(p, Min({n \in 0..Len(p) : n = Len(p) \/ (n > 0 /\ p[n] = "]")}))

RECURSIVE Bracket(_, _, _, _)

\* A mutant: a character that is not the first one of those left out matches.
BracketSettled(p, c, negated, first) ==
  LET isRange == Len(p) > 2 /\ p[2] = "-" /\ p[3] # "]"
      inside  == IF isRange THEN Between(p[1], c, p[3]) ELSE p[1] = c
      rest    == Drop(p, IF isRange THEN 3 ELSE 1)
  IN  IF p = << >> \/ (p[1] = "]" /\ ~first) \/ (inside /\ negated) THEN << NoMatch >>
      ELSE IF inside # negated THEN << Match, AfterBracket(rest) >>
      ELSE Bracket(rest, c, negated, FALSE)

\* the loop over what is between brackets: << Match, what follows them >>, or
\* another answer alone
Bracket(p, c, negated, first) ==
  LET isRange == Len(p) > 2 /\ p[2] = "-" /\ p[3] # "]"
      inside  == IF isRange THEN Between(p[1], c, p[3]) ELSE p[1] = c
      rest    == Drop(p, IF isRange THEN 3 ELSE 1)
  IN  IF p = << >> \/ (p[1] = "]" /\ ~first) THEN << NoMatch >>
      ELSE IF IsPrefix(<< "[", ":" >>, p) THEN << Endless >>
      ELSE IF Len(p) = 2 /\ p[2] = "-" THEN << Beyond >>
      ELSE IF inside /\ negated THEN << NoMatch >>
      ELSE IF inside \/ (negated /\ Begins(rest, "]")) THEN << Match, AfterBracket(rest) >>
      ELSE Bracket(rest, c, negated, FALSE)

\* a period at the beginning, which only a period matches
Leads(s, before, flags) ==
  /\ "PERIOD" \in flags /\ Begins(s, Period)
  /\ before = Nul \/ ("PATHNAME" \in flags /\ before = Slash)

RECURSIVE Fnmatch(_, _, _, _)

\* path_fnmatch of what is left of the pattern and the text, after the character
\* "before"
Fnmatch(p, s, before, flags) ==
  LET slash   == "PATHNAME" \in flags /\ Begins(s, Slash)
      next(q) == Fnmatch(q, Tail(s), s[1], flags)
      negated == IsPrefix(<< "[", "!" >>, p)
      bracket == Bracket(Drop(p, IF negated THEN 2 ELSE 1), s[1], negated, TRUE)
      escaped == p[1] = "\\" /\ "NOESCAPE" \notin flags
      literal == IF escaped THEN Tail(p) ELSE p
      all     == next(p)
  IN  IF s = << >> THEN IF ToSet(p) \subseteq {"*"} THEN Match ELSE NoMatch
      ELSE IF p = << >> \/ (Leads(s, before, flags) /\ p[1] # Period) THEN NoMatch
      ELSE CASE p[1] = "*" -> IF slash THEN Fnmatch(Tail(p), s, before, flags)
                              ELSE IF all = NoMatch THEN Fnmatch(Tail(p), s, before, flags) ELSE all
             [] p[1] = "?" -> IF slash THEN NoMatch ELSE next(Tail(p))
             [] p[1] = "[" -> IF slash THEN NoMatch
                              ELSE IF bracket[1] = Match THEN next(bracket[2]) ELSE bracket[1]
             [] OTHER -> IF Begins(literal, s[1]) THEN next(Tail(literal)) ELSE NoMatch

----------------------------------------------------------------------------
(* What a pattern means.  It is made of parts: a character, AnyOne, Star, or  *)
(* brackets around characters and ranges.                                  *)

One(c) == [chars |-> {c}, neg |-> FALSE, text |-> IF c \in {"*", "?", "[", "\\"} THEN << "\\", c >> ELSE << c >>]
AnyOne == [chars |-> {}, neg |-> TRUE, text |-> << "?" >>]
Star == [chars |-> {}, neg |-> TRUE, text |-> << "*" >>]
Around(chars, neg, text) ==
  [chars |-> chars, neg |-> neg, text |-> << "[" >> \o (IF neg THEN << "!" >> ELSE << >>) \o text \o << "]" >>]

PatternText(parts) == FlattenSeq([i \in DOMAIN parts |-> parts[i].text])

RECURSIVE Means(_, _, _, _)
Means(parts, s, before, flags) ==
  LET slash == "PATHNAME" \in flags /\ Begins(s, Slash)
      part  == parts[1]
      fits  == ((s[1] \in part.chars) # part.neg) /\ (slash => part = One(Slash))
      stops == Leads(s, before, flags) /\ part # One(Period)
  IN  IF parts = << >> THEN s = << >>
      ELSE IF part = Star
           THEN ~stops /\ (Means(Tail(parts), s, before, flags)
                             \/ (s # << >> /\ ~slash /\ Means(parts, Tail(s), s[1], flags)))
           ELSE s # << >> /\ fits /\ ~stops /\ Means(Tail(parts), Tail(s), s[1], flags)

\* fnmatch says that a text matches exactly when it does part by part, periods
\* and separators heeded as the flags say, wherever a part begins.
PatternMatches(parts, s, flags) ==
  Fnmatch(PatternText(parts), s, Nul, flags) = IF Means(parts, s, Nul, flags) THEN Match ELSE NoMatch
=============================================================================
