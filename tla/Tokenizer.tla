----------------------------- MODULE Tokenizer -----------------------------
(***************************************************************************)
(* What lexer.c promises of a text nobody else moves about in: it is cut   *)
(* into matches of rules, from its start, without gap or overlap.  Each    *)
(* match is either handed out as a token or skipped, unmatched text is     *)
(* reported where it stands, and the end is reported at the end only.      *)
(***************************************************************************)
EXTENDS Integers

CONSTANTS Rules, Inputs

VARIABLES input, at, answer

vars == <<input, at, answer>>

Nothing == [id |-> -1, token |-> FALSE, offset |-> 0, len |-> 0]

Init == input \in Inputs /\ at = 0 /\ answer = Nothing

Matches(r) == at < input.size /\ input.match[r][at] > 0

\* A match ends where the character its last byte belongs to ends.
After(r) ==
    LET end == at + input.match[r][at]
    IN  CHOOSE p \in end..input.size :
            /\ p \in input.starts \/ p = input.size
            /\ \A q \in end..(p - 1) : q \notin input.starts

Emit(r) ==
    /\ Matches(r) /\ at' = After(r)
    /\ answer' = [id |-> r, token |-> TRUE, offset |-> at, len |-> input.match[r][at]]
    /\ UNCHANGED input

\* lex() names the rule and leaves the text where it is.
Name(r) ==
    /\ Matches(r) /\ answer' = [Nothing EXCEPT !.id = r]
    /\ UNCHANGED <<input, at>>

SkipText(r) ==
    /\ Matches(r) /\ at' = After(r)
    /\ UNCHANGED <<input, answer>>

NoMatch == at < input.size /\ answer' = [Nothing EXCEPT !.id = -2] /\ UNCHANGED <<input, at>>
AtEnd == at = input.size /\ answer' = Nothing /\ UNCHANGED <<input, at>>

NewText == input' \in Inputs /\ at' = 0 /\ answer' = Nothing

Next == (\E r \in 1..Rules : Emit(r) \/ Name(r) \/ SkipText(r)) \/ NoMatch \/ AtEnd \/ NewText

Spec == Init /\ [][Next]_vars
=============================================================================
