------------------------------ MODULE LexerRules ------------------------------
(***************************************************************************)
(* The rules and definitions of a lexer (lexer.c, js_lexer_add_rule): the  *)
(* state a rule belongs to, and the expression it is compiled to when it   *)
(* is first looked at.                                                     *)
(*                                                                         *)
(* An expression is a sequence of characters.  What it matches is the set  *)
(* of its words: of the syntax of regular expressions there are literal    *)
(* and escaped characters, alternatives and groups.  A lexer is            *)
(*   [defines, rules, states |-> sequences in the order of their making,   *)
(*    skip |-> the bits of its property skip].                             *)
(***************************************************************************)
EXTENDS Integers, Sequences, SequencesExt, Functions

Bits == {"text", "blank"}

INITIAL == << "I" >>

New == [defines |-> << >>, rules |-> << >>, states |-> << INITIAL >>, skip |-> {}]

\* isalnum, of the characters in use
Alnum(c) == c \notin {"<", ">", "{", "}", "(", ")", "|", "\\", ","}

\* str_chr: what comes before the first c
Before(t, c) ==
  LET n == SelectInSeq(t, LAMBDA x : x = c) IN IF n = 0 THEN t ELSE SubSeq(t, 1, n - 1)

Drop(t, n) == SubSeq(t, n + 1, Len(t))

----------------------------------------------------------------------------
(* Definitions.                                                            *)

\* A mutant: the last definition of a name counts.
FindLast(lex, name) == SelectLastInSeq(lex.defines, LAMBDA d : d.name = name)

\* lexer_find_definition: which one it is, 0 if there is none
FindDefinition(lex, name) == SelectInSeq(lex.defines, LAMBDA d : d.name = name)

\* where an expression would be expanded for ever
Endless == "endless"

\* lexer_rule_expand; a definition that is not in itself is entered by no more
\* than all of the others
RECURSIVE Expand(_, _, _)
Expand(lex, p, left) ==
  IF p = << >> THEN << >>
  ELSE IF left = 0 THEN << Endless >>
  ELSE LET name   == Before(Tail(p), "}")
           closed == Len(name) < Len(Tail(p))
           subst  == FindDefinition(lex, name)
       IN  IF p[1] = "{" /\ closed /\ subst # 0
           THEN Expand(lex, lex.defines[subst].expr, left - 1) \o Expand(lex, Drop(p, Len(name) + 2), left)
           ELSE LET n == IF p[1] = "\\" THEN 2 ELSE 1
                IN  SubSeq(p, 1, n) \o Expand(lex, Drop(p, n), left)

----------------------------------------------------------------------------
(* Rules and their states.                                                 *)

\* lexer_state_parse
HasState(expr) ==
  /\ expr # << >> /\ expr[1] = "<"
  /\ LET name == Before(Tail(expr), ">")
     IN  Len(name) \in 1..(Len(expr) - 2) /\ \A i \in DOMAIN name : Alnum(name[i])

StateName(expr) == Before(Tail(expr), ">")

\* lexer_state_find, from 0, or -1
StateFind(lex, name) == SelectInSeq(lex.states, LAMBDA s : s = name) - 1

\* A mutant: a name that is in use gets another number.
StateAlwaysNew(lex, name) == [lex EXCEPT !.states = Append(@, name)]

\* lexer_state_new
StateNew(lex, name) ==
  IF StateFind(lex, name) # -1 THEN lex ELSE [lex EXCEPT !.states = Append(@, name)]

NotCompiled == << "not compiled" >>

\* lexer_rule_add by js_lexer_add_rule, with the mask of the rule, and whether
\* it has an action
AddRule(lex, expr, mask, action) ==
  LET named == IF HasState(expr) THEN StateNew(lex, StateName(expr)) ELSE lex
      rule  == [expr      |-> expr,
                state     |-> IF HasState(expr) THEN StateFind(named, StateName(expr)) ELSE 0,
                mask      |-> IF action THEN mask \ lex.skip ELSE mask,
                action    |-> action,
                skips     |-> action /\ mask \cap lex.skip # {},
                expansion |-> NotCompiled,
                added     |-> lex.skip]   \* what skip was
  IN  [named EXCEPT !.rules = Append(@, rule)]

\* lexer_define by js_lexer_add_rule
Define(lex, name, expr) == [lex EXCEPT !.defines = Append(@, [name |-> name, expr |-> expr])]

\* lexer_rule_compile up to the compiler of expressions
Unprefixed(expr) ==
  IF expr # << >> /\ expr[1] = "<" THEN Drop(expr, Len(Before(Tail(expr), ">")) + 2) ELSE expr

Compiled(lex, rule) ==
  IF rule.expansion # NotCompiled THEN rule
  ELSE [rule EXCEPT !.expansion = Expand(lex, Unprefixed(rule.expr), Len(lex.defines) + 1)]

\* lexer_peek in a state, up to the n-th rule, which ends it with its match
PeekUpTo(lex, state, n) ==
  [lex EXCEPT !.rules = [i \in DOMAIN @ |-> IF i <= n /\ @[i].state = state THEN Compiled(lex, @[i]) ELSE @[i]]]

\* the program cannot go on after an expansion without end
Alive(lex) == \A i \in DOMAIN lex.rules : Endless \notin ToSet(lex.rules[i].expansion)

----------------------------------------------------------------------------
(* Words.                                                                  *)

\* The words of the alternatives in t up to the end of the group; named is what
\* a name in braces stands for, done the words of the alternatives read, now
\* what there is of the one being read.
RECURSIVE Alternatives(_, _, _, _)
Alternatives(named, t, done, now) ==
  LET then(words, n) == Alternatives(named, Drop(t, n), done, {a \o b : a \in now, b \in words})
      name  == Before(Tail(t), "}")
      group == Alternatives(named, Tail(t), {}, {<< >>})
  IN  IF t = << >> \/ t[1] = ")" THEN [words |-> done \cup now, rest |-> t]
      ELSE CASE t[1] = "|"  -> Alternatives(named, Tail(t), done \cup now, {<< >>})
             [] t[1] = "("  -> then(group.words, Len(t) - Len(group.rest) + 1)
             [] t[1] = "{" /\ name \in DOMAIN named -> then(named[name], Len(name) + 2)
             [] t[1] = "\\" -> then({SubSeq(t, 1, 2)}, 2)
             [] OTHER       -> then({<< t[1] >>}, 1)

Words(named, t) == Alternatives(named, t, {}, {<< >>}).words

\* the first definition of a name
Definition(lex, n) ==
  lex.defines[CHOOSE i \in DOMAIN lex.defines :
                lex.defines[i].name = n /\ \A j \in 1..(i - 1) : lex.defines[j].name # n].expr

\* the words of an expression in which each definition counts as a whole
RECURSIVE Meaning(_, _, _)
Meaning(lex, t, left) ==
  LET names == IF left = 0 THEN {} ELSE {lex.defines[i].name : i \in DOMAIN lex.defines}
  IN  Words([n \in names |-> Meaning(lex, Definition(lex, n), left - 1)], t)

\* the names in braces in t
Named(lex, t) ==
  {n \in {lex.defines[i].name : i \in DOMAIN lex.defines} :
     \E i \in DOMAIN t : IsPrefix(<< "{" >> \o n \o << "}" >>, Drop(t, i - 1))
                         /\ (i = 1 \/ t[i - 1] # "\\")}

\* a definition that names itself, also by way of others
Circular(lex) ==
  LET to(n) == Named(lex, Definition(lex, n))
      names == {lex.defines[i].name : i \in DOMAIN lex.defines}
  IN  \E S \in SUBSET names : S # {} /\ \A n \in S : to(n) \cap S # {}

\* the definition has alternatives that are in no group
Open(t) == Words(<< >>, << "a" >> \o t \o << "a" >>) # Words(<< >>, << "a", "(" >> \o t \o << ")", "a" >>)

----------------------------------------------------------------------------
(* Properties.                                                             *)

\* A rule matches what its expression says with each definition taken as a
\* whole, also when a name is defined again later; unless a definition has
\* alternatives in no group, comes after the rule was compiled, or the expression
\* begins with a "<" that is not of a state, and is cut.
RulesMean(lex) ==
  \A i \in DOMAIN lex.rules :
    LET rule == lex.rules[i]
        own  == IF HasState(rule.expr) THEN Drop(rule.expr, Len(StateName(rule.expr)) + 2) ELSE rule.expr
    IN  /\ rule.expansion # NotCompiled
        /\ ~Circular(lex)
        /\ HasState(rule.expr) \/ rule.expr = << >> \/ rule.expr[1] # "<"
        /\ \A d \in DOMAIN lex.defines : ~Open(lex.defines[d].expr)
        /\ Named(lex, rule.expansion) = {}
        => Words(<< >>, rule.expansion) = Meaning(lex, own, Len(lex.defines) + 1)

\* An expansion without end comes from a definition that names itself.
ExpansionsEnd(lex) == Alive(lex) \/ Circular(lex)

\* A rule is in the state it names, or in INITIAL, and no state has two numbers.
RulesInStates(lex) ==
  /\ IsInjective(lex.states)
  /\ \A i \in DOMAIN lex.rules :
       LET rule == lex.rules[i]
       IN  lex.states[rule.state + 1] = IF HasState(rule.expr) THEN StateName(rule.expr) ELSE INITIAL

\* lexer_lex skips the text of a rule and does not call its action only for bits
\* that came to skip after the rule.
ActionsRun(lex) ==
  \A i \in DOMAIN lex.rules :
    LET rule == lex.rules[i]
    IN  rule.action /\ rule.mask \cap lex.skip # {} => ~(lex.skip \subseteq rule.added)
=============================================================================
