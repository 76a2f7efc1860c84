------------------------------- MODULE Lexer -------------------------------
(***************************************************************************)
(* The scanner of lexer.c driven through the methods of quickjs-lexer.c:   *)
(* next() and lex() run lexer_lex, which peeks at the rules of the current *)
(* state, calls the action of the rule that won before its text has been   *)
(* consumed, and then skips it or hands it out.  The action, the handler   *)
(* of unmatched text and the program between two calls change the lexer    *)
(* themselves: they push and pop states, change the mode, move the         *)
(* position and replace the input.                                         *)
(*                                                                         *)
(* What is abstracted: text.  An input is its size in bytes, the offsets   *)
(* where a character starts, those of them that are newlines, and, for     *)
(* each rule and offset, what the regular expression engine answers there: *)
(* the length of the match in bytes, 0 for none, or an error.  A call of   *)
(* the lexer from inside an action is not modelled: no action of the       *)
(* repository makes one.                                                   *)
(***************************************************************************)
EXTENDS Integers, Sequences, FiniteSets, FiniteSetsExt

CONSTANTS
    Rules,       \* how many rules there are: a rule is its index, as lex->rules has it
    States,      \* the names of the states
    INITIAL,     \* the state of a new lexer
    RuleState,   \* the state each rule belongs to
    SkipMasked,  \* rules whose mask meets the lexer's skip mask
    Actions,     \* rules with an action function
    SkipAfter,   \* rules skipped after their action (JSLexerRule.skip)
    Inputs,      \* the texts the lexer can be given
    HasHandler,  \* whether the lexer has a handler for unmatched text
    MaxDepth,    \* bound: states on the stack
    MaxMoves     \* bound: moves of the position that are not the lexer's

EOF == -1
NOMATCH == -2
COMPILE == -3
EXEC == -4

ASSUME RulesAssumption ==
    /\ Rules \in Nat /\ MaxDepth \in Nat /\ MaxMoves \in Nat
    /\ HasHandler \in BOOLEAN
    /\ INITIAL \in States /\ RuleState \in [1..Rules -> States]
    /\ Actions \subseteq 1..Rules

ASSUME InputsAssumption ==
    /\ Inputs # {}
    /\ \A t \in Inputs :
          /\ t.size \in Nat
          /\ t.starts \subseteq 0..(t.size - 1) /\ (t.size > 0 => 0 \in t.starts)
          /\ t.newlines \subseteq t.starts
          /\ \A r \in 1..Rules, p \in 0..t.size :
                /\ t.match[r][p] \in {EXEC, COMPILE} \cup (0..t.size)
                /\ p + t.match[r][p] <= t.size

VARIABLES
    input, pos,             \* lex->input, its read position
    start, bytelen,         \* lex->start, lex->bytelen
    loc,                    \* lex->loc: line, column and position in characters
    mode,                   \* lex->mode: first, last or longest
    state, state_stack,     \* lex->state, lex->state_stack
    call,                   \* the call of lexer_lex that is running
    last,                   \* what the last call on this input answered
    aborted,                \* an assert has failed
    moves                   \* moves so far (bound)

text == <<input, pos, start, bytelen, loc>>
stack == <<state, state_stack>>
vars == <<text, mode, stack, call, last, aborted, moves>>

Idle == [kind |-> "none", pc |-> "idle", i |-> 1, id |-> NOMATCH, len |-> 0,
         did |-> FALSE, resume |-> FALSE]
Nothing == [id |-> EOF, token |-> FALSE, offset |-> 0, len |-> 0, loc |-> [line |-> 0, column |-> 0, chars |-> 0]]

Init ==
    /\ input \in Inputs /\ pos = 0 /\ start = 0 /\ bytelen = 0
    /\ loc = [line |-> 0, column |-> 0, chars |-> 0]
    /\ mode \in {"first", "last", "longest"}
    /\ state = INITIAL /\ state_stack = << >>
    /\ call = Idle /\ last = Nothing /\ aborted = FALSE /\ moves = 0

-----------------------------------------------------------------------------
(* Text.  The input is read a character at a time, but matches are counted *)
(* in bytes: a match that ends inside a character is consumed up to the    *)
(* end of that character.                                                  *)

\* The offsets from a (included) to b (excluded) at which a character is read.
Read(a, b) == {p \in a..(b - 1) : p \in input.starts \/ p >= input.size}

\* The first offset from p on at which a character ends.
CharEnd(p) ==
    IF p >= input.size THEN p ELSE Min({q \in p..input.size : q \in input.starts \/ q = input.size})

\* A mutant: the length is skipped from the position, wherever that is by now.
SkipOn(len) == CharEnd(pos + len)

\* Where lexer_skip leaves the position, and the location it leaves.
SkipEnd(len) == IF pos < start + len THEN CharEnd(start + len) ELSE pos

\* A mutant: a column that counts bytes.
LocatedBytes(l, a, b) ==
    LET nl == Read(a, b) \cap input.newlines
    IN  [line   |-> l.line + Cardinality(nl),
         column |-> IF nl = {} THEN l.column + b - a ELSE b - Max(nl) - 1,
         chars  |-> l.chars + Cardinality(Read(a, b))]

Located(l, a, b) ==
    LET nl == Read(a, b) \cap input.newlines
    IN  [line   |-> l.line + Cardinality(nl),
         column |-> IF nl = {} THEN l.column + Cardinality(Read(a, b))
                    ELSE Cardinality({p \in Read(a, b) : p > Max(nl)}),
         chars  |-> l.chars + Cardinality(Read(a, b))]

\* lexer_skip, with the length the peek has just stored.
Consume(len) ==
    /\ pos' = SkipEnd(len)
    /\ loc' = Located(loc, pos, SkipEnd(len))

-----------------------------------------------------------------------------
(* The calls: js_lexer_next and js_lexer_lex, and the loop of lexer_lex.   *)

Call(kind) ==
    /\ call.pc = "idle" /\ ~aborted /\ pos <= input.size
    /\ call' = [Idle EXCEPT !.kind = kind, !.pc = "peek"]
    /\ UNCHANGED <<text, mode, stack, last, aborted, moves>>

\* The call answers id: lex() returns the number, next() skips the text and
\* makes a token, unless the answer is the end or unmatched text.
Answer(id, len) ==
    /\ call' = Idle
    /\ IF call.kind = "next" /\ id \notin {EOF, NOMATCH}
       THEN /\ Consume(len)
            /\ last' = [id |-> id, token |-> TRUE, offset |-> start, len |-> len, loc |-> loc]
       ELSE /\ last' = [Nothing EXCEPT !.id = id]
            /\ UNCHANGED <<pos, loc>>

Peek ==
    /\ call.pc = "peek"
    /\ IF pos = input.size
       THEN Answer(EOF, bytelen) /\ UNCHANGED start
       ELSE /\ start' = pos
            /\ call' = [Idle EXCEPT !.kind = call.kind, !.pc = "rules"]
            /\ UNCHANGED <<pos, loc, last>>
    /\ UNCHANGED <<input, bytelen, mode, stack, aborted, moves>>

\* A mutant: of matches as long as each other the first is kept.
TakesLonger(m) == m > 0 /\ (mode # "longest" \/ call.id < 0 \/ m > call.len)

\* One turn of the loop of lexer_peek over the rules.
Takes(m) == m > 0 /\ (mode # "longest" \/ call.id < 0 \/ m >= call.len)

MatchRule ==
    /\ call.pc = "rules" /\ call.i <= Rules
    /\ LET m == input.match[call.i][pos]
       IN  call' = IF RuleState[call.i] # state THEN [call EXCEPT !.i = @ + 1]
                   ELSE IF m \in {COMPILE, EXEC} THEN [call EXCEPT !.id = m, !.pc = "peeked"]
                   ELSE IF Takes(m)
                        THEN [call EXCEPT !.id = call.i, !.len = m, !.i = @ + 1,
                                          !.pc = IF mode = "first" THEN "peeked" ELSE @]
                        ELSE [call EXCEPT !.i = @ + 1]
    /\ UNCHANGED <<text, mode, stack, last, aborted, moves>>

RulesEnd ==
    /\ call.pc = "rules" /\ call.i > Rules
    /\ call' = [call EXCEPT !.pc = "peeked"]
    /\ UNCHANGED <<text, mode, stack, last, aborted, moves>>

\* A mutant: the text is not skipped.
PeekAgain(len) ==
    /\ call' = [Idle EXCEPT !.kind = call.kind, !.pc = "peek"]
    /\ UNCHANGED <<pos, loc, last>>

\* What lexer_lex does with a rule that matched.
SkipAndPeek(len) ==
    /\ Consume(len)
    /\ call' = [Idle EXCEPT !.kind = call.kind, !.pc = "peek"]
    /\ UNCHANGED last

\* A mutant: the length of the match is not stored for the action.
MatchedUnstored ==
    /\ call.pc = "peeked" /\ call.id > 0
    /\ IF call.id \in SkipMasked \cup (SkipAfter \ Actions) THEN SkipAndPeek(call.len)
       ELSE IF call.id \in Actions
            THEN call' = [call EXCEPT !.pc = "action"] /\ UNCHANGED <<pos, loc, last>>
            ELSE Answer(call.id, call.len)
    /\ UNCHANGED <<input, start, bytelen, mode, stack, aborted, moves>>

Matched ==
    /\ call.pc = "peeked" /\ call.id > 0
    /\ bytelen' = call.len
    /\ IF call.id \in SkipMasked \cup (SkipAfter \ Actions) THEN SkipAndPeek(call.len)
       ELSE IF call.id \in Actions
            THEN call' = [call EXCEPT !.pc = "action"] /\ UNCHANGED <<pos, loc, last>>
            ELSE Answer(call.id, call.len)
    /\ UNCHANGED <<input, start, mode, stack, aborted, moves>>

Unmatched ==
    /\ call.pc = "peeked" /\ call.id < 0
    /\ IF call.id = NOMATCH /\ HasHandler
       THEN call' = [call EXCEPT !.pc = "handler"] /\ UNCHANGED <<pos, loc, last>>
       ELSE Answer(call.id, bytelen)
    /\ UNCHANGED <<input, start, bytelen, mode, stack, aborted, moves>>

\* The action returns; what it throws is ignored.
ActionReturns ==
    /\ call.pc = "action"
    /\ IF call.resume \/ call.id \in SkipAfter THEN SkipAndPeek(bytelen)
       ELSE Answer(call.id, bytelen)
    /\ UNCHANGED <<input, start, bytelen, mode, stack, aborted, moves>>

HandlerReturns ==
    /\ call.pc = "handler"
    /\ IF call.resume
       THEN /\ call' = [Idle EXCEPT !.kind = call.kind, !.pc = "peek"]
            /\ UNCHANGED <<pos, loc, last>>
       ELSE Answer(NOMATCH, bytelen)
    /\ UNCHANGED <<input, start, bytelen, mode, stack, aborted, moves>>

-----------------------------------------------------------------------------
(* What the program does to the lexer, between calls and from the          *)
(* callbacks.  A callback changes the lexer at most once; a handler only   *)
(* moves the position.                                                     *)

InCallback == call.pc \in {"action", "handler"} /\ ~call.did
Program == ~aborted /\ (call.pc = "idle" \/ InCallback)
Noted == call' = IF call.pc = "idle" THEN call ELSE [call EXCEPT !.did = TRUE]

PushState(s) ==
    /\ Program /\ call.pc # "handler" /\ Len(state_stack) < MaxDepth
    /\ state_stack' = Append(state_stack, state) /\ state' = s
    /\ Noted /\ UNCHANGED <<text, mode, last, aborted, moves>>

\* The program pops when stateDepth is not 0 (tests/test_lexer.js:213); an
\* action pops because its rule belongs to a state that was pushed
\* (lib/jslexer.js:64, lib/bnflexer.js:84).  On an empty stack the assert fails.
PopState ==
    /\ Program
    /\ call.pc = "idle" => state_stack # << >>
    /\ call.pc = "action" => RuleState[call.id] # INITIAL
    /\ call.pc # "handler"
    /\ IF state_stack = << >> THEN aborted' = TRUE /\ UNCHANGED stack
       ELSE /\ state' = state_stack[Len(state_stack)]
            /\ state_stack' = SubSeq(state_stack, 1, Len(state_stack) - 1)
            /\ UNCHANGED aborted
    /\ Noted /\ UNCHANGED <<text, mode, last, moves>>

SetMode(m) ==
    /\ Program /\ call.pc # "handler" /\ mode' = m
    /\ Noted /\ UNCHANGED <<text, stack, last, aborted, moves>>

\* The second argument of a callback, lexer_continue.  A handler resumes only
\* after it has moved the position (one that does not is called for ever).
Continue ==
    /\ call.pc \in {"action", "handler"} /\ ~call.resume /\ ~aborted
    /\ call.pc = "handler" => call.did
    /\ call' = [call EXCEPT !.resume = TRUE]
    /\ UNCHANGED <<text, mode, stack, last, aborted, moves>>

\* skip(), after the lex() that found the text to skip.
Skip ==
    /\ call.pc = "idle" /\ ~aborted /\ last.id > 0
    /\ Consume(bytelen)
    /\ UNCHANGED <<input, start, bytelen, mode, stack, call, last, aborted, moves>>

\* getc(), skipc(): the position moves by a character and the location stays.
GetC ==
    /\ Program /\ call.pc # "action" /\ moves < MaxMoves /\ pos < input.size
    /\ pos' = CharEnd(pos + 1) /\ moves' = moves + 1
    /\ Noted /\ UNCHANGED <<input, start, bytelen, loc, mode, stack, last, aborted>>

\* skipUntil(): also moves lex->start, to the position where the predicate stops.
SkipUntil(p) ==
    /\ Program /\ call.pc # "action" /\ moves < MaxMoves /\ pos < p
    /\ pos' = p /\ start' = p /\ moves' = moves + 1
    /\ Noted /\ UNCHANGED <<input, bytelen, loc, mode, stack, last, aborted>>

SetPos(p) ==
    /\ call.pc = "idle" /\ ~aborted /\ moves < MaxMoves
    /\ pos' = p /\ moves' = moves + 1
    /\ UNCHANGED <<input, start, bytelen, loc, mode, stack, call, last, aborted>>

\* A mutant: the stack of states is emptied and the state kept.
SetInputUnstacks(t) ==
    /\ call.pc = "idle" /\ ~aborted
    /\ input' = t /\ pos' = 0 /\ loc' = [line |-> 0, column |-> 0, chars |-> -1]
    /\ last' = Nothing /\ state_stack' = << >>
    /\ UNCHANGED <<start, bytelen, mode, state, call, aborted, moves>>

\* setInput() of a text: the location restarts with -1 characters; start,
\* bytelen, the mode and the states stay as they are.
SetInput(t) ==
    /\ call.pc = "idle" /\ ~aborted
    /\ input' = t /\ pos' = 0 /\ loc' = [line |-> 0, column |-> 0, chars |-> -1]
    /\ last' = Nothing
    /\ UNCHANGED <<start, bytelen, mode, stack, call, aborted, moves>>

Offsets == {p \in 0..input.size : p = input.size \/ p \in input.starts}

Lex ==
    /\ ~aborted
    /\ Peek \/ MatchRule \/ RulesEnd \/ Matched \/ Unmatched \/ ActionReturns \/ HandlerReturns

Next ==
    \/ Lex
    \/ \E kind \in {"next", "lex"} : Call(kind)
    \/ \E s \in States : PushState(s)
    \/ PopState
    \/ \E m \in {"first", "last", "longest"} : SetMode(m)
    \/ Continue
    \/ Skip
    \/ GetC
    \/ \E p \in Offsets : SkipUntil(p) \/ SetPos(p)
    \/ \E t \in Inputs : SetInput(t)

Spec == Init /\ [][Next]_vars

\* A call runs on one thread until it returns, and the callbacks return.
FairSpec == Spec /\ WF_vars(Lex)

-----------------------------------------------------------------------------
(* Properties.                                                             *)

Ids == {EOF, NOMATCH, COMPILE, EXEC} \cup 1..Rules

\* The loop of lexer_peek leaves the rule its mode asks for: of the rules of the
\* current state that match here, the first, the last, or the last of the
\* longest; no rule when none matches; and an error exactly when the loop gets
\* to a rule the regular expression engine fails on.
ChosenByMode ==
    LET M(r) == input.match[r][pos]
        Here == {r \in 1..Rules : RuleState[r] = state}
        Fits == {r \in Here : M(r) > 0}
        Fails == {r \in Here : M(r) < 0}
    IN  call.pc = "peeked" =>
          /\ call.id = NOMATCH => Fits = {} /\ Fails = {}
          /\ call.id > 0 =>
                /\ call.id \in Fits /\ call.len = M(call.id)
                /\ mode = "first" => \A r \in Fits \cup Fails : call.id <= r
                /\ mode # "first" => Fails = {}
                /\ mode = "last" => \A r \in Fits : r <= call.id
                /\ mode = "longest" =>
                      \A r \in Fits : M(r) < call.len \/ (M(r) = call.len /\ r <= call.id)
          /\ call.id \in {COMPILE, EXEC} =>
                /\ Fails # {} /\ M(Min(Fails)) = call.id
                /\ mode = "first" => \A r \in Fits : r > Min(Fails)

\* A token carries the text of the rule it names: its length is the length of
\* that rule's match at its offset, whatever the action of the rule did to the
\* states, the mode or the skipping in between (lexer_token reads lex->start and
\* lex->bytelen long after lexer_peek stored them).
TokenIsItsRule ==
    last.token /\ last.id > 0 => last.len = input.match[last.id][last.offset]

\* The location counts the text before a position: lines, characters since the
\* last newline, characters since the start (or, after setInput, one less).
Locates(l, p) ==
    /\ l.line = Cardinality(Read(0, p) \cap input.newlines)
    /\ l.column = Cardinality({q \in Read(0, p) : \A n \in Read(0, p) \cap input.newlines : q > n})
    /\ l.chars - Cardinality(Read(0, p)) \in {0, -1}

\* As long as only the lexer moves the position, its location is the location of
\* its position and a token's is that of the token's first character, through
\* any number of skipped texts, newlines inside matches and multi-byte characters.
LocationAgrees ==
    moves = 0 => Locates(loc, pos) /\ (last.token => Locates(last.loc, last.offset))

\* The abstract specification of a text cut into matches.
Cuts == INSTANCE Tokenizer WITH
            at <- pos,
            answer <- [id |-> last.id, token |-> last.token, offset |-> last.offset, len |-> last.len]

EngineFails(t) == \E r \in 1..Rules, p \in 0..t.size : t.match[r][p] < 0

\* The lexer, its callbacks and the modes it is in notwithstanding, hands out a
\* text as matches without gap or overlap, in order, up to its end, as long as
\* nobody else moves the position and the expression engine fails on no rule
\* (next() makes a token of its failure too, with the length of an older match).
ImplementsTokenizer ==
    Cuts!Init /\ [][moves' = 0 /\ ~EngineFails(input) => Cuts!Next]_Cuts!vars

\* The stack holds the initial state at its bottom and nothing else has ever been
\* below it, so the action of a rule of another state can pop: the assert of
\* lexer_state_pop (lexer.c:212) holds.
PopsAreSafe == ~aborted

\* next() and lex() return, whatever they skip and however often the handler
\* resumes after moving the position.
CallsReturn == (call.pc # "idle") ~> (call.pc = "idle")
=============================================================================
