---------------------------- MODULE LexerProofs ----------------------------
(***************************************************************************)
(* Proofs about Lexer, for any rules, texts, states and bounds.  The first *)
(* part: a token is the text of its rule, and the assert of                *)
(* lexer_state_pop holds (IInv).  The second: the loop over the rules      *)
(* chooses what the mode asks for, the location is right, and the lexer    *)
(* implements Tokenizer (LInv).                                            *)
(***************************************************************************)
EXTENDS Lexer, SequenceTheorems, FiniteSetTheorems, NaturalsInduction, WellFoundedInduction, TLAPS

\* A call has the fields of one, and its rule is a rule or an answer.
IsCall ==
    /\ call = [kind |-> call.kind, pc |-> call.pc, i |-> call.i, id |-> call.id, len |-> call.len,
               did |-> call.did, resume |-> call.resume]
    /\ call.i \in Nat \ {0}
    /\ call.id \in Ids

\* The stack: its bottom is the initial state.
Bottom ==
    /\ state_stack \in Seq(States)
    /\ state_stack = << >> => state = INITIAL
    /\ state_stack # << >> => state_stack[1] = INITIAL

\* The rule a call has found belongs to the current state, until its action has
\* changed the state.
RuleOfState ==
    /\ call.pc \in {"rules", "peeked"} /\ call.id > 0 => RuleState[call.id] = state
    /\ call.pc = "action" /\ call.did = FALSE => RuleState[call.id] = state

\* The rule a call has found matches at lex->start, with the length that the call
\* and, once the peek is over, lex->bytelen hold.
Found ==
    /\ call.pc \in {"rules", "peeked"} => start = pos
    /\ call.pc \in {"rules", "peeked"} /\ call.id > 0 => call.len = input.match[call.id][start]
    /\ call.pc = "action" => bytelen = input.match[call.id][start]

IInv == IsCall /\ state \in States /\ Bottom /\ RuleOfState /\ Found /\ TokenIsItsRule /\ PopsAreSafe

\* A new lexer is idle and on the bottom of its stack.
LEMMA InitInv == Init => IInv
<1>1. Init => IsCall
  BY DEF Init, Idle, IsCall, Ids, NOMATCH, EOF, COMPILE, EXEC
<1>. QED
  BY <1>1, RulesAssumption
  DEF Init, IInv, Idle, Nothing, Bottom, RuleOfState, Found, TokenIsItsRule, PopsAreSafe

\* A call that has answered is idle, and a token it made is the match it found.
LEMMA AnswerKeeps ==
    ASSUME IInv, NEW id \in Ids, NEW len, Answer(id, len), UNCHANGED <<input, stack, aborted>>,
           id > 0 => len = input.match[id][start]
    PROVE  IInv'
<1>1. call' = Idle
  BY DEF Answer
<1>2. TokenIsItsRule'
  <2>1. CASE call.kind = "next" /\ id \notin {EOF, NOMATCH}
    BY <2>1 DEF Answer, TokenIsItsRule
  <2>2. CASE ~(call.kind = "next" /\ id \notin {EOF, NOMATCH})
    BY <2>2 DEF Answer, TokenIsItsRule, Nothing
  <2>. QED BY <2>1, <2>2
<1>3. IsCall' /\ call'.pc = "idle"
  BY <1>1 DEF IsCall, Idle, Ids, NOMATCH, EOF, COMPILE, EXEC
<1>. QED
  BY <1>2, <1>3 DEF IInv, Bottom, RuleOfState, Found, PopsAreSafe, stack

\* A call that goes back to peek has forgotten its rule.
LEMMA PeekKeeps ==
    ASSUME IInv,
           call' = [kind |-> call.kind, pc |-> "peek", i |-> 1, id |-> NOMATCH, len |-> 0,
                    did |-> FALSE, resume |-> FALSE],
           UNCHANGED <<input, stack, aborted, last>>
    PROVE  IInv'
<1>1. /\ call'.pc = "peek" /\ call'.i = 1 /\ call'.id = NOMATCH
      /\ call' = [kind |-> call'.kind, pc |-> call'.pc, i |-> call'.i, id |-> call'.id,
                  len |-> call'.len, did |-> call'.did, resume |-> call'.resume]
  OBVIOUS
<1>2. IsCall'
  <2>1. NOMATCH \in Ids
    BY DEF Ids
  <2>. QED BY <1>1, <2>1 DEF IsCall
<1>. QED
  BY <1>1, <1>2 DEF IInv, Bottom, RuleOfState, Found, TokenIsItsRule, PopsAreSafe, stack

\* One turn of the loop over the rules keeps a rule of the state, with its match.
LEMMA MatchRuleKeeps == ASSUME IInv, MatchRule PROVE IInv'
<1>. DEFINE m == input.match[call.i][pos]
<1>1. /\ IsCall /\ call.pc = "rules" /\ call.i \in 1..Rules
      /\ UNCHANGED <<text, mode, stack, last, aborted, moves>>
  BY RulesAssumption DEF IInv, MatchRule, IsCall
<1>2. \/ call' = [call EXCEPT !.i = @ + 1]
      \/ m \in {COMPILE, EXEC} /\ call' = [call EXCEPT !.id = m, !.pc = "peeked"]
      \/ /\ RuleState[call.i] = state
         /\ call' = [call EXCEPT !.id = call.i, !.len = m, !.i = @ + 1,
                                 !.pc = IF mode = "first" THEN "peeked" ELSE @]
  BY DEF MatchRule
<1>3. Bottom' /\ TokenIsItsRule' /\ PopsAreSafe' /\ (state \in States)'
  BY <1>1 DEF IInv, Bottom, TokenIsItsRule, PopsAreSafe, stack, text
<1>4. CASE call' = [call EXCEPT !.i = @ + 1]
  <2>1. IsCall' /\ call'.pc = "rules" /\ call'.id = call.id /\ call'.len = call.len
    BY <1>4, <1>1 DEF IsCall
  <2>. QED
    BY <2>1, <1>1, <1>3 DEF IInv, RuleOfState, Found, stack, text
<1>5. CASE m \in {COMPILE, EXEC} /\ call' = [call EXCEPT !.id = m, !.pc = "peeked"]
  <2>1. call' = [kind |-> call.kind, pc |-> "peeked", i |-> call.i, id |-> m, len |-> call.len,
                 did |-> call.did, resume |-> call.resume]
    <3>. HIDE DEF m
    <3>. QED BY <1>5, <1>1 DEF IsCall
  <2>2. m \in Ids /\ ~(m > 0)
    <3>. HIDE DEF m
    <3>. QED BY <1>5 DEF Ids, COMPILE, EXEC
  <2>3. IsCall' /\ call'.pc = "peeked" /\ call'.id = m
    BY <2>1, <2>2, <1>1 DEF IsCall
  <2>. QED
    BY <2>2, <2>3, <1>1, <1>3 DEF IInv, RuleOfState, Found, stack, text
<1>6. CASE /\ RuleState[call.i] = state
           /\ call' = [call EXCEPT !.id = call.i, !.len = m, !.i = @ + 1,
                                   !.pc = IF mode = "first" THEN "peeked" ELSE @]
  <2>. DEFINE pc == IF mode = "first" THEN "peeked" ELSE call.pc
  <2>2. call' = [kind |-> call.kind, pc |-> pc, i |-> call.i + 1, id |-> call.i, len |-> m,
                 did |-> call.did, resume |-> call.resume]
    <3>. HIDE DEF m
    <3>. QED BY <1>6, <1>1 DEF IsCall
  <2>3. /\ call'.i = call.i + 1 /\ call'.id = call.i /\ call'.len = m /\ call'.pc = pc
        /\ call' = [kind |-> call'.kind, pc |-> call'.pc, i |-> call'.i, id |-> call'.id,
                    len |-> call'.len, did |-> call'.did, resume |-> call'.resume]
    <3>. HIDE DEF m, pc
    <3>. QED BY <2>2
  <2>4. call'.pc \in {"rules", "peeked"}
    BY <2>3, <1>1
  <2>5. call.i \in Ids /\ call.i + 1 \in Nat \ {0}
    BY <1>1 DEF Ids
  <2>6. IsCall'
    BY <2>3, <2>5 DEF IsCall
  <2>1. /\ IsCall' /\ call'.pc \in {"rules", "peeked"}
        /\ call'.id = call.i /\ call'.len = m
    BY <2>3, <2>4, <2>6
  <2>. QED
    BY <2>1, <1>1, <1>3, <1>6 DEF IInv, RuleOfState, Found, stack, text
<1>. QED BY <1>2, <1>4, <1>5, <1>6

\* The callbacks and the program change the lexer only where the invariant lets them:
\* what they do to a running call is to note that they did it.
LEMMA NotedCall ==
    ASSUME IsCall, Noted
    PROVE  /\ IsCall' /\ call'.pc = call.pc /\ call'.id = call.id /\ call'.len = call.len
           /\ call.pc # "idle" => call'.did = TRUE
<1>1. CASE call.pc = "idle"
  BY <1>1 DEF Noted, IsCall
<1>2. CASE call.pc # "idle"
  <2>1. call' = [kind |-> call.kind, pc |-> call.pc, i |-> call.i, id |-> call.id, len |-> call.len,
                 did |-> TRUE, resume |-> call.resume]
    BY <1>2 DEF Noted, IsCall
  <2>. QED BY <2>1 DEF IsCall
<1>. QED BY <1>1, <1>2

\* A pop of an action comes from a rule of a state that was pushed, so the stack is
\* not empty; what it uncovers is a state with the initial state below it.
LEMMA PopKeeps == ASSUME IInv, PopState PROVE IInv'
<1>1. /\ IsCall' /\ call'.pc = call.pc /\ call'.id = call.id
      /\ call.pc # "idle" => call'.did = TRUE
      /\ UNCHANGED <<text, mode, last, moves>>
      /\ call.pc \in {"idle", "action"}
  BY NotedCall DEF IInv, PopState, Program, InCallback
<1>2. state_stack # << >>
  <2>1. CASE call.pc = "idle"
    BY <2>1 DEF PopState
  <2>2. CASE call.pc = "action"
    <3>1. call.did = FALSE \/ call.did = TRUE
      BY <2>2 DEF IInv, IsCall, PopState, Program, InCallback
    <3>2. ~call.did
      BY <2>2 DEF PopState, Program, InCallback
    <3>3. RuleState[call.id] = state /\ RuleState[call.id] # INITIAL
      BY <2>2, <3>1, <3>2 DEF IInv, RuleOfState, PopState
    <3>. QED BY <3>3 DEF IInv, Bottom
  <2>. QED BY <1>1, <2>1, <2>2
<1>3. /\ state' = state_stack[Len(state_stack)]
      /\ state_stack' = SubSeq(state_stack, 1, Len(state_stack) - 1)
      /\ aborted' = aborted
  BY <1>2 DEF PopState
<1>4. Bottom' /\ (state \in States)'
  <2>1. state_stack \in Seq(States) /\ Len(state_stack) \in Nat /\ Len(state_stack) >= 1
    BY <1>2 DEF IInv, Bottom
  <2>2. state_stack[1] = INITIAL /\ \A j \in 1..Len(state_stack) : state_stack[j] \in States
    BY <1>2, <2>1 DEF IInv, Bottom
  <2>3. state' \in States
    BY <1>3, <2>1, <2>2
  <2>4. CASE Len(state_stack) = 1
    <3>1. state_stack' = << >>
      BY <1>3, <2>4, SubSeqEmpty
    <3>. QED BY <1>3, <2>2, <2>3, <2>4, <3>1 DEF Bottom
  <2>5. CASE Len(state_stack) > 1
    <3>. DEFINE n == Len(state_stack) - 1
    <3>1. n \in Nat /\ n >= 1 /\ n <= Len(state_stack)
      BY <2>1, <2>5
    <3>2. \A j \in 1..n : state_stack[j] \in States
      BY <2>2, <3>1
    <3>3. /\ state_stack' \in Seq(States) /\ Len(state_stack') = n
          /\ \A j \in 1..n : state_stack'[j] = state_stack[1 + j - 1]
      <4>. HIDE DEF n
      <4>1. state_stack' = SubSeq(state_stack, 1, n)
        BY <1>3 DEF n
      <4>. QED BY <3>1, <3>2, <4>1, SubSeqProperties, n - 1 + 1 = n
    <3>4. state_stack'[1] = INITIAL
      BY <2>2, <3>1, <3>3
    <3>. QED BY <2>3, <3>1, <3>3, <3>4 DEF Bottom
  <2>6. Len(state_stack) = 1 \/ Len(state_stack) > 1
    <3>. DEFINE n == Len(state_stack)
    <3>1. n \in Nat /\ n >= 1
      BY <2>1
    <3>. HIDE DEF n
    <3>2. n = 1 \/ n > 1
      BY <3>1
    <3>. QED BY <3>2 DEF n
  <2>. QED BY <2>4, <2>5, <2>6
<1>. QED
  BY <1>1, <1>3, <1>4 DEF IInv, RuleOfState, Found, TokenIsItsRule, PopsAreSafe, text

\* Every step keeps the invariant.
LEMMA StepInv == IInv /\ [Next]_vars => IInv'
<1>. SUFFICES ASSUME IInv, [Next]_vars PROVE IInv'
  OBVIOUS
<1>1. CASE Peek
  <2>1. CASE pos = input.size
    <3>1. Answer(EOF, bytelen) /\ UNCHANGED <<input, stack, aborted>>
      BY <1>1, <2>1 DEF Peek
    <3>2. EOF \in Ids /\ ~(EOF > 0)
      BY DEF EOF, Ids
    <3>. QED BY <3>1, <3>2, AnswerKeeps
  <2>2. CASE pos # input.size
    <3>1. /\ start' = pos /\ pos' = pos
          /\ call' = [kind |-> call.kind, pc |-> "rules", i |-> 1, id |-> NOMATCH, len |-> 0,
                      did |-> FALSE, resume |-> FALSE]
          /\ UNCHANGED <<input, stack, aborted, last>>
      BY <1>1, <2>2 DEF Peek, Idle
    <3>2. /\ call'.pc = "rules" /\ call'.i = 1 /\ call'.id = NOMATCH
          /\ call' = [kind |-> call'.kind, pc |-> call'.pc, i |-> call'.i, id |-> call'.id,
                      len |-> call'.len, did |-> call'.did, resume |-> call'.resume]
      BY <3>1
    <3>3. NOMATCH \in Ids /\ ~(NOMATCH > 0)
      BY DEF NOMATCH, Ids
    <3>4. IsCall'
      BY <3>2, <3>3 DEF IsCall
    <3>. QED
      BY <3>1, <3>2, <3>3, <3>4 DEF IInv, Bottom, RuleOfState, Found, TokenIsItsRule, PopsAreSafe, stack
  <2>. QED BY <2>1, <2>2
<1>2. CASE MatchRule
  BY <1>2, MatchRuleKeeps
<1>3. CASE RulesEnd
  <2>1. call' = [kind |-> call.kind, pc |-> "peeked", i |-> call.i, id |-> call.id, len |-> call.len,
                 did |-> call.did, resume |-> call.resume]
    BY <1>3 DEF RulesEnd, IInv, IsCall
  <2>2. IsCall' /\ call'.pc = "peeked" /\ call'.id = call.id /\ call'.len = call.len
    BY <2>1 DEF IInv, IsCall
  <2>. QED
    BY <1>3, <2>2
    DEF RulesEnd, IInv, Bottom, RuleOfState, Found, TokenIsItsRule, PopsAreSafe, stack, text
<1>4. CASE Matched
  <2>1. /\ call.pc = "peeked" /\ call.id > 0 /\ bytelen' = call.len /\ call.id \in Ids
        /\ UNCHANGED <<input, start, stack, aborted>>
        /\ call.len = input.match[call.id][start]
    BY <1>4 DEF Matched, IInv, IsCall, Found
  <2>2. CASE SkipAndPeek(call.len)
    BY <2>1, <2>2, PeekKeeps DEF SkipAndPeek, Idle
  <2>3. CASE call' = [call EXCEPT !.pc = "action"] /\ UNCHANGED <<pos, loc, last>>
    <3>1. call' = [kind |-> call.kind, pc |-> "action", i |-> call.i, id |-> call.id, len |-> call.len,
                   did |-> call.did, resume |-> call.resume]
      BY <2>3 DEF IInv, IsCall
    <3>2. IsCall' /\ call'.pc = "action" /\ call'.id = call.id
      BY <3>1 DEF IInv, IsCall
    <3>. QED
      BY <2>1, <2>3, <3>2
      DEF IInv, Bottom, RuleOfState, Found, TokenIsItsRule, PopsAreSafe, stack
  <2>4. CASE Answer(call.id, call.len)
    BY <2>1, <2>4, AnswerKeeps
  <2>. QED BY <1>4, <2>2, <2>3, <2>4 DEF Matched
<1>5. CASE Unmatched
  <2>1. /\ call.id < 0 /\ call.id \in Ids /\ UNCHANGED <<input, start, bytelen, stack, aborted>>
    BY <1>5 DEF Unmatched, IInv, IsCall
  <2>2. CASE call' = [call EXCEPT !.pc = "handler"] /\ UNCHANGED <<pos, loc, last>>
    <3>1. call' = [kind |-> call.kind, pc |-> "handler", i |-> call.i, id |-> call.id, len |-> call.len,
                   did |-> call.did, resume |-> call.resume]
      BY <2>2 DEF IInv, IsCall
    <3>2. IsCall' /\ call'.pc = "handler"
      BY <3>1 DEF IInv, IsCall
    <3>. QED
      BY <2>1, <2>2, <3>2
      DEF IInv, Bottom, RuleOfState, Found, TokenIsItsRule, PopsAreSafe, stack
  <2>3. CASE Answer(call.id, bytelen)
    <3>1. ~(call.id > 0)
      BY <2>1 DEF Ids, EOF, NOMATCH, COMPILE, EXEC
    <3>. QED BY <2>1, <2>3, <3>1, AnswerKeeps
  <2>. QED BY <1>5, <2>2, <2>3 DEF Unmatched
<1>6. CASE ActionReturns
  <2>1. /\ call.id \in Ids /\ UNCHANGED <<input, start, bytelen, stack, aborted>>
        /\ bytelen = input.match[call.id][start]
    BY <1>6 DEF ActionReturns, IInv, IsCall, Found
  <2>2. CASE SkipAndPeek(bytelen)
    BY <2>1, <2>2, PeekKeeps DEF SkipAndPeek, Idle
  <2>3. CASE Answer(call.id, bytelen)
    BY <2>1, <2>3, AnswerKeeps
  <2>. QED BY <1>6, <2>2, <2>3 DEF ActionReturns
<1>7. CASE HandlerReturns
  <2>1. UNCHANGED <<input, start, bytelen, stack, aborted>>
    BY <1>7 DEF HandlerReturns
  <2>2. CASE call' = [Idle EXCEPT !.kind = call.kind, !.pc = "peek"] /\ UNCHANGED <<pos, loc, last>>
    BY <2>1, <2>2, PeekKeeps DEF Idle
  <2>3. CASE Answer(NOMATCH, bytelen)
    <3>1. NOMATCH \in Ids /\ ~(NOMATCH > 0)
      BY DEF NOMATCH, Ids
    <3>. QED BY <2>1, <2>3, <3>1, AnswerKeeps
  <2>. QED BY <1>7, <2>2, <2>3 DEF HandlerReturns
<1>8. ASSUME NEW kind \in {"next", "lex"}, Call(kind) PROVE IInv'
  <2>1. call' = [kind |-> kind, pc |-> "peek", i |-> 1, id |-> NOMATCH, len |-> 0,
                 did |-> FALSE, resume |-> FALSE]
    BY <1>8 DEF Call, Idle
  <2>2. /\ call'.pc = "peek" /\ call'.i = 1 /\ call'.id = NOMATCH
        /\ call' = [kind |-> call'.kind, pc |-> call'.pc, i |-> call'.i, id |-> call'.id,
                    len |-> call'.len, did |-> call'.did, resume |-> call'.resume]
    BY <2>1
  <2>3. NOMATCH \in Ids
    BY DEF Ids
  <2>4. IsCall'
    BY <2>2, <2>3 DEF IsCall
  <2>. QED
    BY <1>8, <2>2, <2>4
    DEF Call, IInv, Bottom, RuleOfState, Found, TokenIsItsRule, PopsAreSafe, stack, text
<1>9. ASSUME NEW s \in States, PushState(s) PROVE IInv'
  <2>1. /\ IsCall' /\ call'.pc = call.pc /\ call'.id = call.id
        /\ call.pc # "idle" => call'.did = TRUE
        /\ UNCHANGED <<text, mode, last, aborted, moves>>
        /\ call.pc \in {"idle", "action"}
    BY <1>9, NotedCall DEF IInv, PushState, Program, InCallback
  <2>2. Bottom' /\ (state \in States)'
    BY <1>9 DEF IInv, Bottom, PushState
  <2>. QED
    BY <2>1, <2>2 DEF IInv, RuleOfState, Found, TokenIsItsRule, PopsAreSafe, text
<1>10. CASE PopState
  BY <1>10, PopKeeps
<1>11. ASSUME NEW m, SetMode(m) PROVE IInv'
  <2>1. /\ IsCall' /\ call'.pc = call.pc /\ call'.id = call.id /\ call.pc \in {"idle", "action"}
        /\ call.pc # "idle" => call'.did = TRUE
        /\ UNCHANGED <<text, stack, last, aborted, moves>>
    BY <1>11, NotedCall DEF IInv, SetMode, Program, InCallback
  <2>. QED
    BY <2>1 DEF IInv, Bottom, RuleOfState, Found, TokenIsItsRule, PopsAreSafe, stack, text
<1>12. CASE Continue
  <2>1. call' = [kind |-> call.kind, pc |-> call.pc, i |-> call.i, id |-> call.id, len |-> call.len,
                 did |-> call.did, resume |-> TRUE]
    BY <1>12 DEF Continue, IInv, IsCall
  <2>2. /\ IsCall' /\ call'.pc = call.pc /\ call'.id = call.id /\ call'.did = call.did
        /\ call'.len = call.len
    BY <2>1 DEF IInv, IsCall
  <2>. QED
    BY <1>12, <2>2
    DEF Continue, IInv, Bottom, RuleOfState, Found, TokenIsItsRule, PopsAreSafe, stack, text
<1>13. CASE Skip
  BY <1>13 DEF Skip, IInv, IsCall, Bottom, RuleOfState, Found, TokenIsItsRule, PopsAreSafe, stack
<1>14. ASSUME GetC \/ \E p \in Offsets : SkipUntil(p) PROVE IInv'
  <2>1. /\ IsCall' /\ call'.pc = call.pc /\ call'.id = call.id /\ call.pc \in {"idle", "handler"}
        /\ UNCHANGED <<input, stack, last, aborted>>
    BY <1>14, NotedCall DEF IInv, GetC, SkipUntil, Program, InCallback
  <2>. QED
    BY <2>1 DEF IInv, Bottom, RuleOfState, Found, TokenIsItsRule, PopsAreSafe, stack
<1>15. ASSUME NEW p \in Offsets, SetPos(p) PROVE IInv'
  BY <1>15 DEF SetPos, IInv, IsCall, Bottom, RuleOfState, Found, TokenIsItsRule, PopsAreSafe, stack
<1>16. ASSUME NEW t \in Inputs, SetInput(t) PROVE IInv'
  BY <1>16
  DEF SetInput, IInv, IsCall, Bottom, RuleOfState, Found, TokenIsItsRule, PopsAreSafe, stack, Nothing
<1>17. CASE UNCHANGED vars
  BY <1>17 DEF vars, IInv, IsCall, Bottom, RuleOfState, Found, TokenIsItsRule, PopsAreSafe, stack, text
<1>. QED
  BY <1>1, <1>2, <1>3, <1>4, <1>5, <1>6, <1>7, <1>8, <1>9, <1>10, <1>11, <1>12, <1>13, <1>14, <1>15,
     <1>16, <1>17
  DEF Next, Lex

\* The invariant holds in every state.
LEMMA Invariance == Spec => []IInv
BY InitInv, StepInv, PTL DEF Spec

\* A token carries the text of the rule it names, whatever ran between the peek that
\* found it (lexer.c:345) and the token's making (quickjs-lexer.c:710).
THEOREM TokenText == Spec => []TokenIsItsRule
BY Invariance, PTL DEF IInv

\* The assert of lexer_state_pop (lexer.c:212) holds for every rule set whose actions
\* pop from rules of pushed states, and every program that pops a stack it has seen.
THEOREM SafePops == Spec => []PopsAreSafe
BY Invariance, PTL DEF IInv

-----------------------------------------------------------------------------
(* The position, the chosen rule, and what a token says.                   *)

Modes == {"first", "last", "longest"}

\* Where a call is in the text: between start and the position nothing is lost until
\* the match has been consumed.
Placed ==
    /\ input \in Inputs /\ mode \in Modes
    /\ pos \in Nat /\ start \in Nat /\ bytelen \in Nat /\ moves \in Nat
    /\ call.pc \in {"idle", "peek", "rules", "peeked", "action", "handler"}
    /\ call.kind = "next" \/ call.kind = "lex" \/ call.pc = "idle"
    /\ call.pc # "idle" => pos <= input.size
    /\ call.pc \in {"rules", "peeked", "action"} => start = pos /\ pos < input.size
    /\ call.pc = "handler" /\ moves = 0 => pos < input.size
    /\ call.pc = "action" => call.id > 0 /\ bytelen > 0

\* The rules of the current state up to i that the loop has looked at: the engine failed
\* on none, and the one that is kept is the one the mode asks for so far.
Looped ==
    LET M(r) == input.match[r][pos]
        Seen == {r \in 1..Rules : r < call.i /\ RuleState[r] = state}
    IN  call.pc = "rules" =>
          /\ \A r \in Seen : ~(M(r) < 0)
          /\ call.id = NOMATCH \/ call.id \in Seen
          /\ call.id = NOMATCH => \A r \in Seen : M(r) = 0
          /\ call.id \in Seen =>
                /\ mode # "first" /\ call.len = M(call.id) /\ M(call.id) > 0
                /\ mode = "last" => \A r \in Seen : M(r) > 0 => r <= call.id
                /\ mode = "longest" => \A r \in Seen :
                      M(r) < call.len \/ (M(r) = call.len /\ r <= call.id)

\* What skip() finds after a call: either the text of the last answer has been consumed
\* or the position is at its start.
Skippable ==
    moves = 0 /\ call.pc = "idle" /\ last.id > 0 =>
        \/ pos >= start + bytelen
        \/ /\ last.id \in 1..Rules /\ start = pos /\ pos < input.size
           /\ bytelen = input.match[last.id][pos] /\ bytelen > 0

-----------------------------------------------------------------------------
(* Positions and locations.                                                *)

\* A set of naturals that is not empty has a least element, which Min finds.
LEMMA MinIsLeast ==
  ASSUME NEW S \in SUBSET Nat, S # {}
  PROVE  Min(S) \in S /\ \A y \in S : Min(S) <= y
<1> DEFINE R == OpToRel(<, Nat)
<1>1. IsWellFoundedOn(R, Nat)
  BY NatLessThanWellFounded
<1>2. \A x, y \in Nat : x < y => <<x, y>> \in R
  BY DEF OpToRel
<1> HIDE DEF R
<1>3. PICK x \in S : \A y \in S : ~(<<y, x>> \in R)
  BY <1>1, WFMin
<1>4. \A y \in S : x <= y
  <2> TAKE y \in S
  <2>1. x \in Nat /\ y \in Nat
    OBVIOUS
  <2>2. ~(y < x)
    BY <1>2, <1>3, <2>1
  <2> QED
    BY <2>1, <2>2
<1> QED
  BY <1>4 DEF Min

\* One that has an upper bound has a greatest element, which Max finds.
LEMMA MaxIsGreatest ==
  ASSUME NEW S \in SUBSET Nat, S # {}, NEW b \in Nat, \A y \in S : y <= b
  PROVE  Max(S) \in S /\ \A y \in S : y <= Max(S)
<1> DEFINE T == {n \in Nat : \A y \in S : y <= n}
<1>1. T \in SUBSET Nat /\ b \in T
  OBVIOUS
<1>2. Min(T) \in T /\ \A n \in T : Min(T) <= n
  <2> HIDE DEF T
  <2> QED BY <1>1, MinIsLeast
<1>3. PICK m \in T : \A n \in T : m <= n
  BY <1>2
<1>4. m \in S
  <2> SUFFICES ASSUME m \notin S PROVE FALSE
    OBVIOUS
  <2>1. PICK z \in S : TRUE
    OBVIOUS
  <2>2. z \in Nat /\ z <= m /\ z # m /\ m \in Nat
    BY <1>3
  <2>3. m - 1 \in Nat
    BY <2>2
  <2>4. \A y \in S : y <= m - 1
    BY <2>2, <1>3
  <2>5. m - 1 \in T
    BY <2>3, <2>4
  <2> QED BY <1>3, <2>2, <2>5
<1>5. \A y \in S : m >= y
  BY <1>3
<1> QED
  BY <1>4, <1>5 DEF Max

\* What is read up to b is what is read up to a, and then what is read from there.
LEMMA ReadOn ==
  ASSUME NEW a \in Nat, NEW b \in Nat, a <= b
  PROVE  /\ Read(0, b) = Read(0, a) \cup Read(a, b)
         /\ \A p \in Read(0, a), q \in Read(a, b) : p < q
         /\ Read(0, b) \subseteq 0..(b - 1)
         /\ IsFiniteSet(Read(0, a)) /\ IsFiniteSet(Read(a, b)) /\ IsFiniteSet(Read(0, b))
<1>1. Read(0, b) = Read(0, a) \cup Read(a, b) /\ Read(0, b) \subseteq 0..(b - 1)
  BY DEF Read
<1>2. \A p \in Read(0, a), q \in Read(a, b) : p < q
  BY DEF Read
<1>3. IsFiniteSet(0..(b - 1))
  <2>1. b - 1 \in Int
    OBVIOUS
  <2> QED BY <2>1, FS_Interval
<1>4. IsFiniteSet(Read(0, b))
  BY <1>1, <1>3, FS_Subset
<1>5. IsFiniteSet(Read(0, a)) /\ IsFiniteSet(Read(a, b))
  BY <1>1, <1>4, FS_Subset
<1> QED
  BY <1>1, <1>2, <1>4, <1>5

\* The size of a set in two parts.
LEMMA Parts ==
  ASSUME NEW S, NEW T, IsFiniteSet(S), IsFiniteSet(T), S \cap T = {}
  PROVE  /\ Cardinality(S \cup T) = Cardinality(S) + Cardinality(T)
         /\ Cardinality(S) \in Nat /\ Cardinality(T) \in Nat
<1>1. Cardinality(S) \in Nat /\ Cardinality(T) \in Nat
  BY FS_CardinalityType
<1>2. Cardinality(S \cup T) = Cardinality(S) + Cardinality(T) - Cardinality(S \cap T)
  BY FS_Union
<1>3. Cardinality(S \cap T) = 0
  BY FS_EmptySet
<1> QED
  BY <1>1, <1>2, <1>3

\* The characters read up to p after the last newline.
Lined(p) == {q \in Read(0, p) : \A n \in Read(0, p) \cap input.newlines : q > n}

\* The location that skipping computes is the location of where it stops.
LEMMA LocatedOn ==
  ASSUME NEW l, l.chars \in Int, NEW a \in Nat, NEW b \in Nat, a <= b, Locates(l, a)
  PROVE  Locates(Located(l, a, b), b) /\ Located(l, a, b).chars \in Int
<1> DEFINE A == Read(0, a)
           B == Read(a, b)
           N == input.newlines
           to == Located(l, a, b)
           all == Read(0, b)
<1>1. /\ all = A \cup B /\ \A p \in A, q \in B : p < q
      /\ A \subseteq Nat /\ B \subseteq Nat /\ \A q \in B : q <= b
      /\ IsFiniteSet(A) /\ IsFiniteSet(B) /\ A \cap B = {}
  <2>1. all = A \cup B /\ (\A p \in A, q \in B : p < q) /\ IsFiniteSet(A) /\ IsFiniteSet(B)
        /\ all \subseteq 0..(b - 1)
    BY ReadOn
  <2>2. A \subseteq Nat /\ B \subseteq Nat /\ \A q \in B : q <= b
    BY <2>1
  <2>3. A \cap B = {}
    <3> HIDE DEF A, B
    <3> QED BY <2>1, <2>2
  <2> QED BY <2>1, <2>2, <2>3
<1>2. /\ l.line = Cardinality(A \cap N) /\ l.column = Cardinality(Lined(a))
      /\ l.chars - Cardinality(A) \in {0, -1}
  BY DEF Locates, Lined
<1>3. /\ to.line = l.line + Cardinality(B \cap N)
      /\ to.chars = l.chars + Cardinality(B)
      /\ B \cap N = {} => to.column = l.column + Cardinality(B)
      /\ B \cap N # {} => to.column = Cardinality({p \in B : p > Max(B \cap N)})
  BY DEF Located
<1>4. Lined(a) = {q \in A : \A n \in A \cap N : q > n} /\ Lined(b) = {q \in all : \A n \in all \cap N : q > n}
  BY DEF Lined
<1>5. to.line = Cardinality(all \cap N)
  <2> HIDE DEF A, B, N, to, all
  <2>1. all \cap N = (A \cap N) \cup (B \cap N) /\ (A \cap N) \cap (B \cap N) = {}
    BY <1>1
  <2>2. IsFiniteSet(A \cap N) /\ IsFiniteSet(B \cap N)
    BY <1>1, FS_Subset
  <2>3. Cardinality(all \cap N) = Cardinality(A \cap N) + Cardinality(B \cap N)
    BY <2>1, <2>2, Parts
  <2> QED BY <1>2, <1>3, <2>3
<1>6. to.chars - Cardinality(all) \in {0, -1} /\ to.chars \in Int
  <2> HIDE DEF A, B, N, to, all
  <2>1. Cardinality(all) = Cardinality(A) + Cardinality(B) /\ Cardinality(A) \in Nat /\ Cardinality(B) \in Nat
    BY <1>1, Parts
  <2> QED BY <1>2, <1>3, <2>1
<1>7. to.column = Cardinality(Lined(b))
  <2>1. CASE B \cap N = {}
    <3> HIDE DEF A, B, N, to, all
    <3>1. Lined(b) = Lined(a) \cup B /\ Lined(a) \cap B = {}
      BY <1>1, <1>4, <2>1
    <3>2. IsFiniteSet(Lined(a))
      BY <1>1, <1>4, FS_Subset
    <3> QED BY <1>1, <1>2, <1>3, <2>1, <3>1, <3>2, Parts
  <2>2. CASE B \cap N # {}
    <3> DEFINE m == Max(B \cap N)
    <3> HIDE DEF A, B, N, to, all
    <3>1. m \in B \cap N /\ \A y \in B \cap N : y <= m
      <4>1. B \cap N \in SUBSET Nat /\ \A y \in B \cap N : y <= b
        BY <1>1
      <4> QED BY <2>2, <4>1, MaxIsGreatest
    <3> HIDE DEF m
    <3>2. Lined(b) = {p \in B : p > m}
      <4>1. ASSUME NEW q \in Lined(b) PROVE q \in B /\ q > m
        <5>1. q \in all /\ m \in all \cap N /\ m \in Nat
          BY <1>1, <1>4, <3>1
        <5>2. q > m
          BY <1>4, <5>1
        <5>3. q \notin A
          <6> SUFFICES ASSUME q \in A PROVE FALSE
            OBVIOUS
          <6>1. q < m /\ q \in Nat
            BY <1>1, <3>1
          <6> QED BY <5>1, <5>2, <6>1
        <5> QED BY <1>1, <5>1, <5>2, <5>3
      <4>2. ASSUME NEW q \in B, q > m PROVE q \in Lined(b)
        <5>1. q \in all
          BY <1>1
        <5>2. \A n \in all \cap N : q > n
          BY <1>1, <3>1, <4>2
        <5> QED BY <1>4, <5>1, <5>2
      <4> QED BY <4>1, <4>2
    <3> QED BY <1>3, <2>2, <3>2 DEF m
  <2> QED BY <2>1, <2>2
<1> QED
  BY <1>5, <1>6, <1>7 DEF Locates, Lined

\* A character that begins before p ends at p or later, and not after the text.
LEMMA EndOfCharacter ==
  ASSUME input \in Inputs, NEW p \in Nat
  PROVE  /\ CharEnd(p) \in Nat /\ p <= CharEnd(p)
         /\ p <= input.size =>
              /\ CharEnd(p) <= input.size
              /\ CharEnd(p) \in input.starts \/ CharEnd(p) = input.size
              /\ \A q \in p..(CharEnd(p) - 1) : q \notin input.starts
<1>1. input.size \in Nat
  BY InputsAssumption
<1>2. CASE p >= input.size
  BY <1>1, <1>2 DEF CharEnd
<1>3. CASE ~(p >= input.size)
  <2> DEFINE E == {q \in p..input.size : q \in input.starts \/ q = input.size}
  <2>1. E \in SUBSET Nat /\ input.size \in E
    BY <1>1, <1>3
  <2>2. CharEnd(p) = Min(E)
    BY <1>3 DEF CharEnd
  <2>3. Min(E) \in E /\ \A y \in E : Min(E) <= y
    <3> HIDE DEF E
    <3> QED BY <2>1, MinIsLeast
  <2>4. \A q \in p..(Min(E) - 1) : q \notin input.starts
    <3> SUFFICES ASSUME NEW q \in p..(Min(E) - 1), q \in input.starts PROVE FALSE
      OBVIOUS
    <3> DEFINE e == Min(E)
    <3>1. e \in Nat /\ e <= input.size
      BY <2>3, <1>1
    <3> HIDE DEF e
    <3>2. q \in p..input.size /\ q < e
      BY <3>1, <1>1 DEF e
    <3>3. q \in E
      BY <3>2
    <3>4. e <= q
      BY <2>3, <3>3 DEF e
    <3> QED BY <3>1, <3>2, <3>4
  <2>5. Min(E) \in p..input.size /\ (Min(E) \in input.starts \/ Min(E) = input.size)
    BY <2>3
  <2> HIDE DEF E
  <2> QED BY <1>1, <2>2, <2>4, <2>5
<1> QED
  BY <1>2, <1>3, <1>1

\* Skipping never goes back, and reaches the end of the text it skips.
LEMMA SkipReaches ==
  ASSUME input \in Inputs, pos \in Nat, start \in Nat, NEW len \in Nat
  PROVE  /\ SkipEnd(len) \in Nat /\ pos <= SkipEnd(len) /\ start + len <= SkipEnd(len)
         /\ pos <= input.size /\ start + len <= input.size => SkipEnd(len) <= input.size
<1>1. start + len \in Nat /\ input.size \in Nat
  BY InputsAssumption
<1> DEFINE e == start + len
<1>2. /\ CharEnd(e) \in Nat /\ e <= CharEnd(e)
      /\ e <= input.size => CharEnd(e) <= input.size
  <2>1. e \in Nat
    BY <1>1
  <2> HIDE DEF e
  <2> QED BY <2>1, EndOfCharacter
<1>3. SkipEnd(len) = IF pos < e THEN CharEnd(e) ELSE pos
  BY DEF SkipEnd
<1>4. e \in Nat
  BY <1>1
<1> HIDE DEF e
<1>5. /\ SkipEnd(len) \in Nat /\ pos <= SkipEnd(len) /\ e <= SkipEnd(len)
      /\ pos <= input.size /\ e <= input.size => SkipEnd(len) <= input.size
  BY <1>1, <1>2, <1>3, <1>4
<1> QED
  BY <1>5 DEF e

\* What the engine answers at a position: an error, or a length that is in the text.
LEMMA EngineAnswers ==
  ASSUME input \in Inputs, NEW p \in Nat, p <= input.size, NEW r \in 1..Rules
  PROVE  LET m == input.match[r][p]
         IN  /\ m \in Int /\ p + m <= input.size
             /\ ~(m < 0) => m \in Nat
             /\ m < 0 <=> m \in {COMPILE, EXEC}
<1>1. input.size \in Nat /\ p \in 0..input.size
  BY InputsAssumption
<1> DEFINE m == input.match[r][p]
<1>2. m \in {EXEC, COMPILE} \cup (0..input.size) /\ p + m <= input.size
  BY <1>1, InputsAssumption
<1> HIDE DEF m
<1>3. /\ m \in Int /\ p + m <= input.size
      /\ ~(m < 0) => m \in Nat
      /\ m < 0 <=> m \in {COMPILE, EXEC}
  BY <1>1, <1>2 DEF EXEC, COMPILE
<1> QED
  BY <1>3 DEF m

\* The rule that the peek has found.
LEMMA PeekFound ==
  ASSUME Placed, ChosenByMode, call.pc = "peeked", call.id > 0
  PROVE  /\ call.id \in 1..Rules /\ RuleState[call.id] = state
         /\ call.len = input.match[call.id][pos] /\ call.len \in Nat /\ call.len > 0
         /\ start = pos /\ pos < input.size /\ start + call.len <= input.size
<1>1. /\ call.id \in 1..Rules /\ RuleState[call.id] = state
      /\ call.len = input.match[call.id][pos] /\ call.len > 0
  BY DEF ChosenByMode
<1>2. start = pos /\ pos < input.size /\ pos \in Nat /\ pos <= input.size /\ input \in Inputs
  BY DEF Placed
<1>3. call.len \in Int /\ pos + call.len <= input.size
  BY <1>1, <1>2, EngineAnswers
<1> QED
  BY <1>1, <1>2, <1>3

\* The program and the callbacks leave the text alone, and a peek its state and mode.
Quiet ==
  \/ \E s \in States : PushState(s)
  \/ PopState
  \/ \E m \in Modes : SetMode(m)
  \/ Continue
  \/ UNCHANGED vars

\* A quiet step keeps the text, the answer and where a call is.
LEMMA QuietKeeps ==
  ASSUME IsCall, Quiet
  PROVE  /\ UNCHANGED <<input, pos, start, bytelen, loc, last, moves>>
         /\ call'.pc = call.pc /\ call'.id = call.id /\ call'.kind = call.kind
         /\ call.pc \in {"rules", "peeked"} => UNCHANGED <<call, mode, state>>
         /\ mode' \in Modes \cup {mode}
<1>1. Noted => /\ call'.pc = call.pc /\ call'.id = call.id /\ call'.kind = call.kind
  <2>1. CASE call.pc = "idle"
    BY <2>1 DEF Noted
  <2>2. CASE call.pc # "idle"
    <3>1. Noted => call' = [kind |-> call.kind, pc |-> call.pc, i |-> call.i, id |-> call.id,
                            len |-> call.len, did |-> TRUE, resume |-> call.resume]
      BY <2>2 DEF Noted, IsCall
    <3> QED BY <3>1
  <2> QED BY <2>1, <2>2
<1>2. CASE (\E s \in States : PushState(s)) \/ PopState \/ (\E m \in Modes : SetMode(m))
  <2>1. Noted /\ call.pc \notin {"rules", "peeked"}
    BY <1>2 DEF PushState, PopState, SetMode, Program, InCallback
  <2>2. UNCHANGED <<text, last, moves>> /\ mode' \in Modes \cup {mode}
    BY <1>2 DEF PushState, PopState, SetMode
  <2> QED BY <1>1, <2>1, <2>2 DEF text
<1>3. CASE Continue
  <2>1. call' = [kind |-> call.kind, pc |-> call.pc, i |-> call.i, id |-> call.id, len |-> call.len,
                 did |-> call.did, resume |-> TRUE]
    BY <1>3 DEF Continue, IsCall
  <2>2. call'.pc = call.pc /\ call'.id = call.id /\ call'.kind = call.kind
    BY <2>1
  <2> QED BY <1>3, <2>2 DEF Continue, text
<1>4. CASE UNCHANGED vars
  BY <1>4 DEF vars, text, stack
<1> QED
  BY <1>2, <1>3, <1>4 DEF Quiet

\* What moves the position besides the lexer counts a move and stays in the text.
Moves == GetC \/ \E p \in Offsets : SkipUntil(p) \/ SetPos(p)

\* A move keeps everything but the position and lex->start, and is counted.
LEMMA MovesKeep ==
  ASSUME IsCall, Placed, Moves
  PROVE  /\ UNCHANGED <<input, bytelen, last, loc, mode, stack>>
         /\ moves' = moves + 1 /\ pos' \in Nat /\ start' \in Nat /\ pos' <= input.size
         /\ call.pc \in {"idle", "handler"}
         /\ call'.pc = call.pc /\ call'.id = call.id /\ call'.kind = call.kind
<1>1. pos \in Nat /\ start \in Nat /\ input \in Inputs /\ input.size \in Nat
  BY InputsAssumption DEF Placed
<1>2. Noted => /\ call'.pc = call.pc /\ call'.id = call.id /\ call'.kind = call.kind
  <2>1. CASE call.pc = "idle"
    BY <2>1 DEF Noted
  <2>2. CASE call.pc # "idle"
    <3>1. Noted => call' = [kind |-> call.kind, pc |-> call.pc, i |-> call.i, id |-> call.id,
                            len |-> call.len, did |-> TRUE, resume |-> call.resume]
      BY <2>2 DEF Noted, IsCall
    <3> QED BY <3>1
  <2> QED BY <2>1, <2>2
<1>3. CASE GetC
  <2>1. Noted /\ call.pc \in {"idle", "handler"} /\ pos' = CharEnd(pos + 1) /\ moves' = moves + 1
        /\ UNCHANGED <<input, bytelen, start, last, loc, mode, stack>> /\ pos < input.size
    BY <1>3 DEF GetC, Program, InCallback
  <2>2. pos + 1 \in Nat /\ pos + 1 <= input.size
    BY <1>1, <2>1
  <2>3. CharEnd(pos + 1) \in Nat /\ CharEnd(pos + 1) <= input.size
    BY <1>1, <2>2, EndOfCharacter
  <2> QED BY <1>1, <1>2, <2>1, <2>3
<1>4. CASE \E p \in Offsets : SkipUntil(p) \/ SetPos(p)
  <2>1. PICK p \in Offsets : SkipUntil(p) \/ SetPos(p)
    BY <1>4
  <2>2. p \in Nat /\ p <= input.size
    BY <1>1 DEF Offsets
  <2>3. CASE SkipUntil(p)
    BY <1>2, <2>2, <2>3 DEF SkipUntil, Program, InCallback
  <2>4. CASE SetPos(p)
    BY <1>1, <2>2, <2>4 DEF SetPos
  <2> QED BY <2>1, <2>3, <2>4
<1> QED
  BY <1>3, <1>4 DEF Moves

\* Every step is one of the lexer's, a new call, one that leaves the text alone, one
\* that moves the position, a skip() or a new text.
LEMMA StepKinds ==
  [Next]_vars <=>
    \/ Lex \/ (\E kind \in {"next", "lex"} : Call(kind)) \/ Quiet \/ Moves \/ Skip
    \/ \E t \in Inputs : SetInput(t)
BY DEF Next, Quiet, Moves, Modes

\* An answer leaves the call idle.
LEMMA AnswerPlaces ==
  ASSUME Placed, NEW id, NEW len \in Nat, Answer(id, len), UNCHANGED <<input, mode, moves>>,
         start' = start, bytelen' \in Nat
  PROVE  Placed'
<1>1. pos' = pos \/ pos' = SkipEnd(len)
  BY DEF Answer, Consume
<1>2. pos' \in Nat
  BY <1>1, SkipReaches DEF Placed
<1>3. call'.pc = "idle"
  BY DEF Answer, Idle
<1> QED
  BY <1>2, <1>3 DEF Placed

\* A text that is skipped leaves the position in the input.
LEMMA SkipPlaces ==
  ASSUME Placed, call.pc # "idle", NEW len \in Nat, start + len <= input.size, SkipAndPeek(len),
         UNCHANGED <<input, mode, moves, start>>, bytelen' \in Nat
  PROVE  Placed'
<1>1. pos \in Nat /\ start \in Nat /\ pos <= input.size /\ input \in Inputs
  BY DEF Placed
<1>2. pos' \in Nat /\ pos' <= input.size
  BY <1>1, SkipReaches DEF SkipAndPeek, Consume
<1>3. call'.pc = "peek" /\ call'.kind = call.kind
  BY DEF SkipAndPeek, Idle
<1> QED
  BY <1>2, <1>3 DEF Placed

\* A call stays where it is in the text, step by step.
LEMMA PlacedKept == ASSUME IInv, Placed, ChosenByMode, [Next]_vars PROVE Placed'
<1>1. /\ IsCall /\ pos \in Nat /\ start \in Nat /\ bytelen \in Nat /\ input \in Inputs /\ moves \in Nat
      /\ input.size \in Nat
  BY InputsAssumption DEF IInv, Placed
<1>2. CASE Peek
  <2>1. CASE pos = input.size
    BY <1>1, <1>2, <2>1, AnswerPlaces DEF Peek
  <2>2. CASE pos # input.size
    <3>1. call'.pc = "rules" /\ call'.kind = call.kind
      BY <1>2, <2>2 DEF Peek, Idle
    <3>2. start' = pos /\ UNCHANGED <<pos, input, bytelen, mode, moves>> /\ call.pc = "peek"
      BY <1>2, <2>2 DEF Peek
    <3>3. pos < input.size
      BY <1>1, <2>2, <3>2 DEF Placed
    <3> QED BY <1>1, <3>1, <3>2, <3>3 DEF Placed
  <2> QED BY <2>1, <2>2
<1>3. CASE MatchRule
  <2>1. /\ UNCHANGED <<input, pos, start, bytelen, mode, moves>> /\ call.pc = "rules"
        /\ call'.pc \in {"rules", "peeked"} /\ call'.kind = call.kind
    <3>1. call.pc = "rules" /\ call'.kind = call.kind /\ UNCHANGED <<text, mode, moves>>
      BY <1>1, <1>3 DEF MatchRule, IsCall
    <3>2. call'.pc \in {"rules", "peeked"}
      BY <1>1, <1>3 DEF MatchRule, IsCall
    <3> QED BY <3>1, <3>2 DEF text
  <2> QED BY <2>1 DEF Placed
<1>4. CASE RulesEnd
  <2>1. /\ UNCHANGED <<input, pos, start, bytelen, mode, moves>> /\ call.pc = "rules"
        /\ call'.pc = "peeked" /\ call'.kind = call.kind
    BY <1>1, <1>4 DEF RulesEnd, IsCall, text
  <2> QED BY <2>1 DEF Placed
<1>5. CASE Matched
  <2>1. /\ call.id \in 1..Rules /\ call.len \in Nat /\ call.len > 0 /\ start + call.len <= input.size
        /\ call.pc = "peeked" /\ bytelen' = call.len /\ UNCHANGED <<input, start, mode, moves>>
    BY <1>5, PeekFound DEF Matched
  <2>2. CASE SkipAndPeek(call.len)
    BY <2>1, <2>2, SkipPlaces
  <2>3. CASE call' = [call EXCEPT !.pc = "action"] /\ UNCHANGED <<pos, loc, last>>
    <3>1. call'.pc = "action" /\ call'.kind = call.kind /\ call'.id = call.id
      BY <1>1, <2>3 DEF IsCall
    <3>2. call.id > 0
      BY <2>1, RulesAssumption
    <3> QED BY <2>1, <2>3, <3>1, <3>2 DEF Placed
  <2>4. CASE Answer(call.id, call.len)
    BY <2>1, <2>4, AnswerPlaces
  <2> QED BY <1>5, <2>2, <2>3, <2>4 DEF Matched
<1>6. CASE Unmatched
  <2>1. call.pc = "peeked" /\ UNCHANGED <<input, start, bytelen, mode, moves>>
    BY <1>6 DEF Unmatched
  <2>2. CASE call' = [call EXCEPT !.pc = "handler"] /\ UNCHANGED <<pos, loc, last>>
    <3>1. call'.pc = "handler" /\ call'.kind = call.kind
      BY <1>1, <2>2 DEF IsCall
    <3> QED BY <2>1, <2>2, <3>1 DEF Placed
  <2>3. CASE Answer(call.id, bytelen)
    BY <1>1, <2>1, <2>3, AnswerPlaces
  <2> QED BY <1>6, <2>2, <2>3 DEF Unmatched
<1>7. CASE ActionReturns
  <2>1. call.pc = "action" /\ UNCHANGED <<input, start, bytelen, mode, moves>>
    BY <1>7 DEF ActionReturns
  <2>2. CASE SkipAndPeek(bytelen)
    <3>1. start + bytelen <= input.size
      <4>1. call.id \in 1..Rules /\ start \in Nat /\ start <= input.size
        BY <1>1, <2>1 DEF Placed, IsCall, Ids, EOF, NOMATCH, COMPILE, EXEC
      <4>2. bytelen = input.match[call.id][start]
        BY <2>1 DEF IInv, Found
      <4> QED BY <1>1, <4>1, <4>2, EngineAnswers
    <3> QED BY <1>1, <2>1, <2>2, <3>1, SkipPlaces
  <2>3. CASE Answer(call.id, bytelen)
    BY <1>1, <2>1, <2>3, AnswerPlaces
  <2> QED BY <1>7, <2>2, <2>3 DEF ActionReturns
<1>8. CASE HandlerReturns
  <2>1. call.pc = "handler" /\ UNCHANGED <<input, start, bytelen, mode, moves>>
    BY <1>8 DEF HandlerReturns
  <2>2. CASE call' = [Idle EXCEPT !.kind = call.kind, !.pc = "peek"] /\ UNCHANGED <<pos, loc, last>>
    <3>1. call'.pc = "peek" /\ call'.kind = call.kind
      BY <2>2 DEF Idle
    <3> QED BY <2>1, <2>2, <3>1 DEF Placed
  <2>3. CASE Answer(NOMATCH, bytelen)
    BY <1>1, <2>1, <2>3, AnswerPlaces
  <2> QED BY <1>8, <2>2, <2>3 DEF HandlerReturns
<1>9. ASSUME NEW kind \in {"next", "lex"}, Call(kind) PROVE Placed'
  <2>1. /\ call'.pc = "peek" /\ call'.kind = kind /\ pos <= input.size
        /\ UNCHANGED <<text, mode, moves>>
    BY <1>9 DEF Call, Idle
  <2> QED BY <2>1 DEF Placed, text
<1>10. CASE Quiet
  BY <1>1, <1>10, QuietKeeps DEF Placed
<1>11. CASE Moves
  <2>1. /\ moves' \in Nat /\ moves' # 0 /\ call'.pc \in {"idle", "handler"}
        /\ UNCHANGED <<input, bytelen, mode>> /\ pos' \in Nat /\ start' \in Nat /\ pos' <= input.size
        /\ call'.kind = call.kind /\ call'.pc = call.pc
    BY <1>1, <1>11, MovesKeep
  <2> QED BY <2>1 DEF Placed
<1>12. CASE Skip
  <2>1. pos' \in Nat
    BY <1>1, <1>12, SkipReaches DEF Skip, Consume
  <2> QED BY <1>12, <2>1 DEF Skip, Placed
<1>13. ASSUME NEW t \in Inputs, SetInput(t) PROVE Placed'
  BY <1>13 DEF SetInput, Placed
<1> QED
  BY <1>2, <1>3, <1>4, <1>5, <1>6, <1>7, <1>8, <1>9, <1>10, <1>11, <1>12, <1>13, StepKinds DEF Lex

-----------------------------------------------------------------------------
(* The rule that is chosen.                                                *)

\* The length of the match of a rule at the position, or an error.
Answered(r) == input.match[r][pos]

\* The next rule of the loop.
NextRule == call'.pc = "rules" /\ call'.i = call.i + 1

\* One turn of the loop: the rule is of another state, the engine fails on it, it is
\* taken, or it is passed over.
LEMMA MatchTurn ==
  ASSUME IInv, Placed, MatchRule
  PROVE  /\ call.pc = "rules" /\ call.i \in 1..Rules /\ call.id \in Ids
         /\ UNCHANGED <<input, pos, mode, state>>
         /\ Answered(call.i) \in Int /\ (Answered(call.i) < 0 <=> Answered(call.i) \in {COMPILE, EXEC})
         /\ \/ RuleState[call.i] # state /\ NextRule /\ call'.id = call.id /\ call'.len = call.len
            \/ /\ RuleState[call.i] = state /\ Answered(call.i) \in {COMPILE, EXEC}
               /\ call'.pc = "peeked" /\ call'.id = Answered(call.i)
            \/ /\ RuleState[call.i] = state /\ Takes(Answered(call.i))
               /\ call'.id = call.i /\ call'.len = Answered(call.i)
               /\ IF mode = "first" THEN call'.pc = "peeked" ELSE NextRule
            \/ /\ RuleState[call.i] = state /\ Answered(call.i) \notin {COMPILE, EXEC}
               /\ ~Takes(Answered(call.i))
               /\ NextRule /\ call'.id = call.id /\ call'.len = call.len
<1>1. call.pc = "rules" /\ call.i \in 1..Rules /\ call.id \in Ids /\ IsCall
  BY RulesAssumption DEF IInv, MatchRule, IsCall
<1>2. UNCHANGED <<input, pos, mode, state>>
  BY DEF MatchRule, text, stack
<1>3. Answered(call.i) \in Int /\ (Answered(call.i) < 0 <=> Answered(call.i) \in {COMPILE, EXEC})
  <2>1. input \in Inputs /\ pos \in Nat /\ pos <= input.size
    BY <1>1 DEF Placed
  <2> QED BY <1>1, <2>1, EngineAnswers DEF Answered
<1> DEFINE m == Answered(call.i)
           i == call.i
           Made(pc, j, id, len) ==
             [kind |-> call.kind, pc |-> pc, i |-> j, id |-> id, len |-> len,
              did |-> call.did, resume |-> call.resume]
<1>4. call' = IF RuleState[i] # state THEN [call EXCEPT !.i = @ + 1]
              ELSE IF m \in {COMPILE, EXEC} THEN [call EXCEPT !.id = m, !.pc = "peeked"]
              ELSE IF Takes(m)
                   THEN [call EXCEPT !.id = i, !.len = m, !.i = @ + 1,
                                     !.pc = IF mode = "first" THEN "peeked" ELSE @]
                   ELSE [call EXCEPT !.i = @ + 1]
  BY DEF MatchRule, Answered
<1> HIDE DEF m
<1>5. CASE RuleState[i] # state
  <2>1. call' = Made("rules", i + 1, call.id, call.len)
    BY <1>1, <1>4, <1>5 DEF IsCall
  <2>2. NextRule /\ call'.id = call.id /\ call'.len = call.len
    BY <2>1 DEF NextRule
  <2> QED BY <1>1, <1>2, <1>3, <1>5, <2>2
<1>6. CASE RuleState[i] = state /\ m \in {COMPILE, EXEC}
  <2>1. call' = Made("peeked", i, m, call.len)
    BY <1>1, <1>4, <1>6 DEF IsCall
  <2>2. call'.pc = "peeked" /\ call'.id = m
    BY <2>1
  <2> QED BY <1>1, <1>2, <1>3, <1>6, <2>2 DEF m
<1>7. CASE RuleState[i] = state /\ m \notin {COMPILE, EXEC} /\ Takes(m)
  <2>1. CASE mode = "first"
    <3>1. call' = Made("peeked", i + 1, i, m)
      BY <1>1, <1>4, <1>7, <2>1 DEF IsCall
    <3>2. call'.pc = "peeked" /\ call'.id = i /\ call'.len = m
      BY <3>1
    <3> QED BY <1>1, <1>2, <1>3, <1>7, <2>1, <3>2 DEF m
  <2>2. CASE mode # "first"
    <3>1. call' = Made("rules", i + 1, i, m)
      BY <1>1, <1>4, <1>7, <2>2 DEF IsCall
    <3>2. NextRule /\ call'.id = i /\ call'.len = m
      BY <3>1 DEF NextRule
    <3> QED BY <1>1, <1>2, <1>3, <1>7, <2>2, <3>2 DEF m
  <2> QED BY <2>1, <2>2
<1>8. CASE RuleState[i] = state /\ m \notin {COMPILE, EXEC} /\ ~Takes(m)
  <2>1. call' = Made("rules", i + 1, call.id, call.len)
    BY <1>1, <1>4, <1>8 DEF IsCall
  <2>2. NextRule /\ call'.id = call.id /\ call'.len = call.len
    BY <2>1 DEF NextRule
  <2> QED BY <1>1, <1>2, <1>3, <1>8, <2>2 DEF m
<1> QED
  BY <1>5, <1>6, <1>7, <1>8

\* What the loop has kept so far is what the mode asks for among the rules it has seen.
LEMMA TurnLoops == ASSUME IInv, Placed, Looped, MatchRule PROVE Looped'
<1> SUFFICES ASSUME call'.pc = "rules" PROVE Looped'
  BY DEF Looped
<1> DEFINE i == call.i
           Seen == {r \in 1..Rules : r < i /\ RuleState[r] = state}
           Then == {r \in 1..Rules : r < call'.i /\ RuleState[r] = state'}
<1>1. /\ call.pc = "rules" /\ i \in 1..Rules /\ call.id \in Ids
      /\ UNCHANGED <<input, pos, mode, state>>
      /\ Answered(i) \in Int /\ (Answered(i) < 0 <=> Answered(i) \in {COMPILE, EXEC})
  BY MatchTurn
<1>2. NextRule
  BY MatchTurn DEF NextRule
<1>3. /\ \A r \in Seen : ~(Answered(r) < 0)
      /\ call.id = NOMATCH \/ call.id \in Seen
      /\ call.id = NOMATCH => \A r \in Seen : Answered(r) = 0
      /\ call.id \in Seen =>
            /\ mode # "first" /\ call.len = Answered(call.id) /\ Answered(call.id) > 0
            /\ mode = "last" => \A r \in Seen : Answered(r) > 0 => r <= call.id
            /\ mode = "longest" => \A r \in Seen :
                  Answered(r) < call.len \/ (Answered(r) = call.len /\ r <= call.id)
  BY <1>1 DEF Looped, Answered
<1>4. SUFFICES
        /\ \A r \in Then : ~(Answered(r) < 0)
        /\ call'.id = NOMATCH \/ call'.id \in Then
        /\ call'.id = NOMATCH => \A r \in Then : Answered(r) = 0
        /\ call'.id \in Then =>
              /\ mode # "first" /\ call'.len = Answered(call'.id) /\ Answered(call'.id) > 0
              /\ mode = "last" => \A r \in Then : Answered(r) > 0 => r <= call'.id
              /\ mode = "longest" => \A r \in Then :
                    Answered(r) < call'.len \/ (Answered(r) = call'.len /\ r <= call'.id)
  BY <1>1 DEF Looped, Answered
<1>5. \A r \in Seen : Answered(r) \in Int /\ r \in Int
  <2>1. input \in Inputs /\ pos \in Nat /\ pos <= input.size
    BY <1>1 DEF Placed
  <2> QED BY <2>1, EngineAnswers DEF Answered
<1>6. NOMATCH \notin Seen /\ NOMATCH \notin 1..Rules /\ NOMATCH < 0
  BY RulesAssumption DEF NOMATCH
<1>7. CASE RuleState[i] # state /\ call'.id = call.id /\ call'.len = call.len
  <2>1. Then = Seen
    BY <1>1, <1>2, <1>7, RulesAssumption DEF NextRule
  <2> HIDE DEF Then, Seen
  <2> QED BY <1>3, <1>7, <2>1
<1>8. RuleState[i] = state => Then = Seen \cup {i} /\ i \notin Seen /\ \A r \in Seen : r < i
  BY <1>1, <1>2, RulesAssumption DEF NextRule
<1>9. CASE /\ RuleState[i] = state /\ Takes(Answered(i)) /\ mode # "first"
           /\ call'.id = i /\ call'.len = Answered(i)
  <2>1. Then = Seen \cup {i} /\ \A r \in Seen : r < i
    BY <1>8, <1>9
  <2>2. Answered(i) > 0 /\ (mode # "longest" \/ call.id < 0 \/ Answered(i) >= call.len)
    BY <1>9 DEF Takes
  <2> HIDE DEF Then, Seen, i
  <2>3. i \in Int /\ Answered(i) \in Int
    BY <1>1 DEF i
  <2>4. \A r \in Then : ~(Answered(r) < 0) /\ r <= i
    BY <1>3, <1>5, <2>1, <2>2, <2>3
  <2>5. i # NOMATCH
    BY <1>1, <1>6 DEF i
  <2>6. mode = "longest" => \A r \in Then : Answered(r) <= Answered(i)
    <3> SUFFICES ASSUME mode = "longest", NEW r \in Seen PROVE Answered(r) <= Answered(i)
      BY <2>1, <2>3
    <3>1. CASE call.id = NOMATCH
      BY <1>3, <2>2, <2>3, <3>1
    <3>2. CASE call.id \in Seen
      <4>1. ~(call.id < 0)
        BY <3>2 DEF Seen
      <4>2. Answered(i) >= call.len /\ call.len \in Int
        BY <1>3, <1>5, <2>2, <3>2, <4>1
      <4>3. Answered(r) < call.len \/ Answered(r) = call.len
        BY <1>3, <3>2
      <4> QED BY <1>5, <2>3, <4>2, <4>3
    <3> QED BY <1>3, <3>1, <3>2
  <2>7. mode = "longest" => \A r \in Then : Answered(r) < Answered(i) \/ Answered(r) = Answered(i)
    BY <1>5, <2>1, <2>3, <2>6
  <2> QED BY <1>9, <2>1, <2>2, <2>3, <2>4, <2>5, <2>7
<1>10. CASE /\ RuleState[i] = state /\ Answered(i) \notin {COMPILE, EXEC} /\ ~Takes(Answered(i))
            /\ call'.id = call.id /\ call'.len = call.len
  <2>1. Then = Seen \cup {i} /\ \A r \in Seen : r < i
    BY <1>8, <1>10
  <2>2. Answered(i) = 0 \/ (mode = "longest" /\ ~(call.id < 0) /\ Answered(i) > 0 /\ ~(Answered(i) >= call.len))
    BY <1>1, <1>10 DEF Takes
  <2>3. call.id = NOMATCH => Answered(i) = 0
    BY <1>6, <2>2
  <2>4. call.id \in Then => call.id \in Seen
    <3>1. call.id = NOMATCH => call.id \notin Then
      BY <1>6
    <3> HIDE DEF Then, Seen
    <3> QED BY <1>3, <3>1
  <2> HIDE DEF Then, Seen, i
  <2>5. i \in Int /\ Answered(i) \in Int
    BY <1>1 DEF i
  <2>6. ASSUME call.id \in Seen
        PROVE  /\ mode = "last" => \A r \in Then : Answered(r) > 0 => r <= call.id
               /\ mode = "longest" => \A r \in Then :
                      Answered(r) < call.len \/ (Answered(r) = call.len /\ r <= call.id)
    <3>1. call.len \in Int /\ call.len > 0
      BY <1>3, <1>5, <2>6
    <3>2. mode = "last" => Answered(i) = 0
      BY <2>2
    <3>3. Answered(i) < call.len
      BY <2>2, <2>5, <3>1
    <3> QED BY <1>3, <2>1, <2>6, <3>2, <3>3
  <2> QED BY <1>3, <1>10, <2>1, <2>2, <2>3, <2>4, <2>5, <2>6
<1> QED
  <2>1. \/ RuleState[i] # state /\ call'.id = call.id /\ call'.len = call.len
        \/ /\ RuleState[i] = state /\ Takes(Answered(i)) /\ mode # "first"
           /\ call'.id = i /\ call'.len = Answered(i)
        \/ /\ RuleState[i] = state /\ Answered(i) \notin {COMPILE, EXEC} /\ ~Takes(Answered(i))
           /\ call'.id = call.id /\ call'.len = call.len
    BY MatchTurn
  <2> QED BY <1>7, <1>9, <1>10, <2>1

\* After the loop the call answers, peeks again or runs a callback.
LEMMA LeavesLoop ==
  ASSUME IInv, Matched \/ Unmatched \/ ActionReturns \/ HandlerReturns
  PROVE  call'.pc \in {"idle", "peek", "action", "handler"}
<1>1. \A id, len : Answer(id, len) => call'.pc = "idle"
  BY DEF Answer, Idle
<1>2. \A len : SkipAndPeek(len) => call'.pc = "peek"
  BY DEF SkipAndPeek, Idle
<1>3. \A v : call' = [call EXCEPT !.pc = v] => call'.pc = v
  BY DEF IInv, IsCall
<1>4. call' = [Idle EXCEPT !.kind = call.kind, !.pc = "peek"] => call'.pc = "peek"
  BY DEF Idle
<1>5. CASE Matched
  BY <1>1, <1>2, <1>3, <1>5 DEF Matched
<1>6. CASE Unmatched
  BY <1>1, <1>3, <1>6 DEF Unmatched
<1>7. CASE ActionReturns
  BY <1>1, <1>2, <1>7 DEF ActionReturns
<1>8. CASE HandlerReturns
  BY <1>1, <1>4, <1>8 DEF HandlerReturns
<1> QED
  BY <1>5, <1>6, <1>7, <1>8

\* Outside the loop a step starts it, or leaves it to start.
LEMMA LoopedKept == ASSUME IInv, Placed, Looped, [Next]_vars PROVE Looped'
<1>1. CASE Peek
  <2>1. CASE pos = input.size
    BY <1>1, <2>1 DEF Peek, Answer, Idle, Looped
  <2>2. CASE pos # input.size
    <3>1. call'.pc = "rules" /\ call'.i = 1 /\ call'.id = NOMATCH
      BY <1>1, <2>2 DEF Peek, Idle
    <3>2. ~\E r \in 1..Rules : r < 1
      BY RulesAssumption
    <3>3. NOMATCH \notin 1..Rules
      BY RulesAssumption DEF NOMATCH
    <3> QED BY <3>1, <3>2, <3>3 DEF Looped
  <2> QED BY <2>1, <2>2
<1>2. CASE MatchRule
  BY <1>2, TurnLoops
<1>3. CASE Quiet
  BY <1>3, QuietKeeps DEF Looped, IInv
<1>4. CASE Moves
  BY <1>4, MovesKeep DEF Looped, IInv
<1>5. ASSUME RulesEnd \/ Matched \/ Unmatched \/ ActionReturns \/ HandlerReturns PROVE call'.pc # "rules"
  <2>1. RulesEnd => call'.pc = "peeked"
    BY DEF RulesEnd, IInv, IsCall
  <2> QED BY <1>5, <2>1, LeavesLoop
<1>6. ASSUME Skip \/ (\E t \in Inputs : SetInput(t)) \/ (\E kind \in {"next", "lex"} : Call(kind))
      PROVE  call'.pc # "rules"
  BY <1>6 DEF Skip, SetInput, Call, Idle
<1>7. call'.pc # "rules" => Looped'
  BY DEF Looped
<1> QED
  BY <1>1, <1>2, <1>3, <1>4, <1>5, <1>6, <1>7, StepKinds DEF Lex

\* The loop ends with what the mode asks for: when it has seen all the rules, at its
\* first match in the mode "first", or at the first rule the engine fails on.
LEMMA LoopEnds ==
  ASSUME IInv, Placed, Looped, MatchRule \/ RulesEnd
  PROVE  ChosenByMode'
<1> SUFFICES ASSUME call'.pc = "peeked" PROVE ChosenByMode'
  BY DEF ChosenByMode
<1> DEFINE i == call.i
           Seen == {r \in 1..Rules : r < i /\ RuleState[r] = state}
           Here == {r \in 1..Rules : RuleState[r] = state}
           Fits == {r \in Here : Answered(r) > 0}
           Fails == {r \in Here : Answered(r) < 0}
<1>1. UNCHANGED <<input, pos, mode, state>> /\ call.pc = "rules" /\ i \in Nat
  <2>1. CASE MatchRule
    BY <2>1, MatchTurn
  <2>2. CASE RulesEnd
    BY <2>2 DEF RulesEnd, text, stack, IInv, IsCall
  <2> QED BY <2>1, <2>2
<1>2. SUFFICES
        /\ call'.id = NOMATCH => Fits = {} /\ Fails = {}
        /\ call'.id > 0 =>
              /\ call'.id \in Fits /\ call'.len = Answered(call'.id)
              /\ mode = "first" => \A r \in Fits \cup Fails : call'.id <= r
              /\ mode # "first" => Fails = {}
              /\ mode = "last" => \A r \in Fits : r <= call'.id
              /\ mode = "longest" =>
                    \A r \in Fits : Answered(r) < call'.len \/ (Answered(r) = call'.len /\ r <= call'.id)
        /\ call'.id \in {COMPILE, EXEC} =>
              /\ Fails # {} /\ Answered(Min(Fails)) = call'.id
              /\ mode = "first" => \A r \in Fits : r > Min(Fails)
  BY <1>1 DEF ChosenByMode, Answered
<1>3. /\ \A r \in Seen : ~(Answered(r) < 0)
      /\ call.id = NOMATCH \/ call.id \in Seen
      /\ call.id = NOMATCH => \A r \in Seen : Answered(r) = 0
      /\ call.id \in Seen =>
            /\ mode # "first" /\ call.len = Answered(call.id) /\ Answered(call.id) > 0
            /\ mode = "last" => \A r \in Seen : Answered(r) > 0 => r <= call.id
            /\ mode = "longest" => \A r \in Seen :
                  Answered(r) < call.len \/ (Answered(r) = call.len /\ r <= call.id)
  BY <1>1 DEF Looped, Answered
<1>4. \A r \in Here : Answered(r) \in Int /\ r \in Int /\ r > 0
  <2>1. input \in Inputs /\ pos \in Nat /\ pos <= input.size
    BY <1>1 DEF Placed
  <2> QED BY <2>1, RulesAssumption, EngineAnswers DEF Answered
<1>5. \A r \in Here : r \in Seen \/ r >= i
  BY <1>1, RulesAssumption
<1>6. Seen \subseteq Here /\ \A r \in Seen : r < i
  OBVIOUS
<1>7. ~(NOMATCH > 0) /\ ~(COMPILE > 0) /\ ~(EXEC > 0) /\ NOMATCH \notin {COMPILE, EXEC}
  BY DEF NOMATCH, COMPILE, EXEC
<1>8. CASE /\ MatchRule /\ RuleState[i] = state /\ Answered(i) \in {COMPILE, EXEC} /\ call'.id = Answered(i)
  <2>1. i \in Here /\ i \in Fails /\ Answered(i) < 0
    BY <1>8, MatchTurn
  <2>2. Fails \in SUBSET Nat
    BY RulesAssumption
  <2>3. Min(Fails) \in Fails /\ Min(Fails) <= i
    <3> HIDE DEF Fails
    <3> QED BY <2>1, <2>2, MinIsLeast
  <2>4. Min(Fails) = i
    <3> DEFINE f == Min(Fails)
    <3>1. f \in Here /\ Answered(f) < 0 /\ f <= i
      BY <2>3
    <3> HIDE DEF f, Here, Seen, i
    <3>2. f \notin Seen
      BY <1>3, <3>1
    <3>3. f >= i /\ f \in Int /\ i \in Int
      BY <1>1, <1>4, <1>5, <3>1, <3>2
    <3>4. f = i
      BY <3>1, <3>3
    <3> QED BY <3>4 DEF f
  <2>5. ASSUME mode = "first", NEW r \in Fits PROVE r > i
    <3>1. call.id = NOMATCH
      BY <1>3, <2>5
    <3>2. r \in Here /\ Answered(r) > 0
      OBVIOUS
    <3> HIDE DEF Here, Seen, i, Fits
    <3>3. r \notin Seen
      BY <1>3, <3>1, <3>2
    <3>4. r >= i /\ r # i
      BY <1>4, <1>5, <2>1, <3>2, <3>3
    <3> QED BY <1>1, <1>4, <3>2, <3>4
  <2> HIDE DEF Here, Seen, i, Fits, Fails
  <2> QED BY <1>7, <1>8, <2>1, <2>4, <2>5
<1>9. CASE /\ MatchRule /\ RuleState[i] = state /\ Takes(Answered(i)) /\ mode = "first"
           /\ call'.id = i /\ call'.len = Answered(i)
  <2>1. i \in Here /\ Answered(i) > 0
    BY <1>9, MatchTurn DEF Takes
  <2>2. call.id = NOMATCH
    BY <1>3, <1>9
  <2>3. ASSUME NEW r \in Fits \cup Fails PROVE i <= r
    <3>1. r \in Here /\ Answered(r) # 0
      BY <1>4
    <3> HIDE DEF Here, Seen, i, Fits, Fails
    <3>2. r \notin Seen
      BY <1>3, <2>2, <3>1
    <3> QED BY <1>1, <1>4, <1>5, <3>1, <3>2
  <2>4. i \in Fits /\ i > 0
    BY <1>4, <2>1
  <2> HIDE DEF Here, Seen, i, Fits, Fails
  <2> QED BY <1>1, <1>7, <1>9, <2>3, <2>4
<1>10. CASE RulesEnd
  <2>1. call' = [kind |-> call.kind, pc |-> "peeked", i |-> call.i, id |-> call.id, len |-> call.len,
                 did |-> call.did, resume |-> call.resume]
    BY <1>10 DEF RulesEnd, IInv, IsCall
  <2>2. call'.id = call.id /\ call'.len = call.len
    BY <2>1
  <2>3. Seen = Here
    BY <1>1, <1>10, RulesAssumption DEF RulesEnd
  <2>4. Fails = {}
    BY <1>3, <2>3
  <2>5. ASSUME call.id = NOMATCH PROVE Fits = {}
    BY <1>3, <2>3, <2>5
  <2>6. ASSUME call.id \in Seen
        PROVE  /\ call.id \in Fits /\ mode # "first" /\ call.len = Answered(call.id)
               /\ mode = "last" => \A r \in Fits : r <= call.id
               /\ mode = "longest" =>
                    \A r \in Fits : Answered(r) < call.len \/ (Answered(r) = call.len /\ r <= call.id)
    BY <1>3, <2>3, <2>6
  <2>7. call.id \in Seen => call.id > 0
    BY <1>4, <1>6
  <2> HIDE DEF Here, Seen, i, Fits, Fails
  <2>8. CASE call.id = NOMATCH
    BY <1>7, <2>2, <2>4, <2>5, <2>8
  <2>9. CASE call.id \in Seen
    BY <1>7, <2>2, <2>4, <2>6, <2>7, <2>9
  <2> QED BY <1>3, <2>8, <2>9
<1> QED
  <2>1. MatchRule =>
          \/ /\ RuleState[i] = state /\ Answered(i) \in {COMPILE, EXEC} /\ call'.id = Answered(i)
          \/ /\ RuleState[i] = state /\ Takes(Answered(i)) /\ mode = "first"
             /\ call'.id = i /\ call'.len = Answered(i)
    BY MatchTurn DEF NextRule
  <2> QED BY <1>8, <1>9, <1>10, <2>1

\* No step but the last of the loop is one that chooses, and none changes what is chosen.
LEMMA ChosenKept == ASSUME IInv, Placed, Looped, ChosenByMode, [Next]_vars PROVE ChosenByMode'
<1>1. CASE MatchRule \/ RulesEnd
  BY <1>1, LoopEnds
<1>2. CASE Quiet
  BY <1>2, QuietKeeps DEF ChosenByMode, IInv
<1>3. CASE Moves
  BY <1>3, MovesKeep DEF ChosenByMode, IInv
<1>4. ASSUME Peek \/ Matched \/ Unmatched \/ ActionReturns \/ HandlerReturns PROVE call'.pc # "peeked"
  <2>1. Peek => call'.pc \in {"idle", "rules"}
    <3>1. Answer(EOF, bytelen) => call'.pc = "idle"
      BY DEF Answer, Idle
    <3>2. call' = [Idle EXCEPT !.kind = call.kind, !.pc = "rules"] => call'.pc = "rules"
      BY DEF Idle
    <3> QED BY <3>1, <3>2 DEF Peek
  <2> QED BY <1>4, <2>1, LeavesLoop
<1>5. ASSUME Skip \/ (\E t \in Inputs : SetInput(t)) \/ (\E kind \in {"next", "lex"} : Call(kind))
      PROVE  call'.pc # "peeked"
  BY <1>5 DEF Skip, SetInput, Call, Idle, ChosenByMode
<1>6. call'.pc # "peeked" => ChosenByMode'
  BY DEF ChosenByMode
<1> QED
  BY <1>1, <1>2, <1>3, <1>4, <1>5, <1>6, StepKinds DEF Lex

-----------------------------------------------------------------------------
(* What skip() finds, and what a token says of its place.                  *)

\* An answer that names a rule leaves its text to be skipped, or has skipped it.
LEMMA AnswerSkips ==
  ASSUME Placed, NEW id \in 1..Rules, NEW len \in Nat, len > 0, len = input.match[id][pos],
         start = pos, pos < input.size, Answer(id, len), UNCHANGED <<input, start>>, bytelen' = len
  PROVE  Skippable'
<1>1. CASE call.kind = "next" /\ id \notin {EOF, NOMATCH}
  <2>1. pos' = SkipEnd(len)
    BY <1>1 DEF Answer, Consume
  <2>2. pos' >= start' + bytelen'
    BY <2>1, SkipReaches DEF Placed
  <2> QED BY <2>2 DEF Skippable
<1>2. CASE ~(call.kind = "next" /\ id \notin {EOF, NOMATCH})
  <2>1. pos' = pos /\ last' = [Nothing EXCEPT !.id = id]
    BY <1>2 DEF Answer
  <2>2. last'.id = id
    BY <2>1 DEF Nothing
  <2> QED BY <2>1, <2>2 DEF Skippable
<1> QED
  BY <1>1, <1>2

\* What skip() finds stays so.
LEMMA SkippableKept == ASSUME IInv, Placed, ChosenByMode, Skippable, [Next]_vars PROVE Skippable'
<1>1. IsCall /\ start \in Nat /\ bytelen \in Nat /\ pos \in Nat /\ input \in Inputs /\ moves \in Nat
  BY DEF IInv, Placed
<1>2. \A id : ~(id > 0) /\ Answer(id, bytelen) => Skippable'
  <2> SUFFICES ASSUME NEW id, ~(id > 0), Answer(id, bytelen) PROVE Skippable'
    OBVIOUS
  <2>1. last'.id = id
    BY DEF Answer, Nothing
  <2> QED BY <2>1 DEF Skippable
<1>3. ~(EOF > 0) /\ ~(NOMATCH > 0)
  BY DEF EOF, NOMATCH
<1>4. call'.pc # "idle" => Skippable'
  BY DEF Skippable
<1>5. \A len : SkipAndPeek(len) => call'.pc # "idle"
  BY DEF SkipAndPeek, Idle
<1>6. \A v : call' = [call EXCEPT !.pc = v] => call'.pc = v
  BY <1>1 DEF IsCall
<1>7. CASE Peek
  <2>1. call' = [Idle EXCEPT !.kind = call.kind, !.pc = "rules"] => call'.pc # "idle"
    BY DEF Idle
  <2> QED BY <1>2, <1>3, <1>4, <1>7, <2>1 DEF Peek
<1>8. CASE MatchRule \/ RulesEnd
  <2>1. call'.pc # "idle"
    BY <1>1, <1>6, <1>8, MatchTurn DEF RulesEnd, NextRule
  <2> QED BY <1>4, <2>1
<1>9. CASE Matched
  <2>1. /\ call.id \in 1..Rules /\ call.len \in Nat /\ call.len > 0 /\ call.len = input.match[call.id][pos]
        /\ start = pos /\ pos < input.size /\ UNCHANGED <<input, start>> /\ bytelen' = call.len
    BY <1>9, PeekFound DEF Matched
  <2>2. CASE Answer(call.id, call.len)
    BY <2>1, <2>2, AnswerSkips
  <2> QED BY <1>4, <1>5, <1>6, <1>9, <2>2 DEF Matched
<1>10. CASE Unmatched
  <2>1. ~(call.id > 0)
    BY <1>1, <1>10 DEF Unmatched, IsCall, Ids, EOF, NOMATCH, COMPILE, EXEC
  <2> QED BY <1>2, <1>4, <1>6, <1>10, <2>1 DEF Unmatched
<1>11. CASE ActionReturns
  <2>1. /\ call.id \in 1..Rules /\ bytelen > 0 /\ bytelen = input.match[call.id][pos]
        /\ start = pos /\ pos < input.size
    BY <1>1, <1>11 DEF ActionReturns, Placed, IInv, Found, IsCall, Ids, EOF, NOMATCH, COMPILE, EXEC
  <2>2. CASE Answer(call.id, bytelen)
    BY <1>1, <1>11, <2>1, <2>2, AnswerSkips DEF ActionReturns
  <2> QED BY <1>4, <1>5, <1>11, <2>2 DEF ActionReturns
<1>12. CASE HandlerReturns
  <2>1. call' = [Idle EXCEPT !.kind = call.kind, !.pc = "peek"] => call'.pc # "idle"
    BY DEF Idle
  <2> QED BY <1>2, <1>3, <1>4, <1>12, <2>1 DEF HandlerReturns
<1>13. ASSUME NEW kind \in {"next", "lex"}, Call(kind) PROVE Skippable'
  BY <1>4, <1>13 DEF Call, Idle
<1>14. CASE Quiet
  BY <1>1, <1>14, QuietKeeps DEF Skippable
<1>15. CASE Moves
  <2>1. moves' # 0
    BY <1>1, <1>15, MovesKeep
  <2> QED BY <2>1 DEF Skippable
<1>16. CASE Skip
  <2>1. pos' = SkipEnd(bytelen) /\ UNCHANGED <<start, bytelen>>
    BY <1>16 DEF Skip, Consume
  <2>2. pos' >= start' + bytelen'
    BY <1>1, <2>1, SkipReaches
  <2> QED BY <2>2 DEF Skippable
<1>17. ASSUME NEW t \in Inputs, SetInput(t) PROVE Skippable'
  BY <1>3, <1>17 DEF SetInput, Nothing, Skippable
<1> QED
  BY <1>7, <1>8, <1>9, <1>10, <1>11, <1>12, <1>13, <1>14, <1>15, <1>16, <1>17, StepKinds DEF Lex

\* The characters of the location are counted.
Counted == moves = 0 => loc.chars \in Int

\* What is skipped is counted.
LEMMA ConsumeCounts ==
  ASSUME Placed, Counted, LocationAgrees, moves = 0, NEW len \in Nat, Consume(len), input' = input
  PROVE  Locates(loc, pos)' /\ loc'.chars \in Int
<1> DEFINE e == SkipEnd(len)
<1>1. e \in Nat /\ pos <= e /\ pos \in Nat
  BY SkipReaches DEF Placed
<1>2. pos' = e /\ loc' = Located(loc, pos, e)
  BY DEF Consume
<1> HIDE DEF e
<1>3. Locates(Located(loc, pos, e), e) /\ Located(loc, pos, e).chars \in Int
  BY <1>1, LocatedOn DEF Counted, LocationAgrees
<1>4. Locates(loc', pos')
  BY <1>2, <1>3
<1> QED
  BY <1>2, <1>3, <1>4 DEF Locates, Read

\* The location and the last token's stay right.
LEMMA LocationKept ==
  ASSUME IInv, Placed, Counted, ChosenByMode, LocationAgrees, [Next]_vars
  PROVE  LocationAgrees' /\ Counted'
<1>1. IsCall /\ start \in Nat /\ bytelen \in Nat /\ pos \in Nat /\ input \in Inputs /\ moves \in Nat
  BY DEF IInv, Placed
<1>2. ASSUME UNCHANGED <<input, pos, loc, last, moves>> PROVE LocationAgrees' /\ Counted'
  BY <1>2 DEF LocationAgrees, Counted, Locates, Read
<1>3. ASSUME NEW len \in Nat, Consume(len), UNCHANGED <<input, last, moves>>
      PROVE  LocationAgrees' /\ Counted'
  <2>1. moves = 0 => Locates(loc, pos)' /\ loc'.chars \in Int
    BY <1>3, ConsumeCounts
  <2>2. moves = 0 /\ last.token => Locates(last.loc, last.offset)'
    BY <1>3 DEF LocationAgrees, Locates, Read
  <2> QED BY <1>3, <2>1, <2>2 DEF LocationAgrees, Counted
<1>4. ASSUME NEW id, NEW len \in Nat, Answer(id, len), UNCHANGED <<input, moves>>,
             start = pos \/ id \in {EOF, NOMATCH}
      PROVE  LocationAgrees' /\ Counted'
  <2>1. CASE call.kind = "next" /\ id \notin {EOF, NOMATCH}
    <3>1. Consume(len) /\ last'.token /\ last'.offset = pos /\ last'.loc = loc
      BY <1>4, <2>1 DEF Answer
    <3>2. moves = 0 => Locates(loc, pos)' /\ loc'.chars \in Int
      BY <1>4, <3>1, ConsumeCounts
    <3>3. moves = 0 => Locates(last.loc, last.offset)'
      <4>1. moves = 0 => Locates(last'.loc, last'.offset)
        BY <3>1 DEF LocationAgrees
      <4> QED BY <1>4, <4>1 DEF Locates, Read
    <3> QED BY <1>4, <3>2, <3>3 DEF LocationAgrees, Counted
  <2>2. CASE ~(call.kind = "next" /\ id \notin {EOF, NOMATCH})
    <3>1. ~last'.token /\ UNCHANGED <<pos, loc>>
      BY <1>4, <2>2 DEF Answer, Nothing
    <3> QED BY <1>4, <3>1 DEF LocationAgrees, Counted, Locates, Read
  <2> QED BY <2>1, <2>2
<1>5. CASE Peek
  BY <1>1, <1>2, <1>4, <1>5 DEF Peek
<1>6. CASE MatchRule \/ RulesEnd
  BY <1>2, <1>6 DEF MatchRule, RulesEnd, text
<1>7. CASE Matched
  <2>1. call.len \in Nat /\ start = pos /\ UNCHANGED <<input, moves>>
    BY <1>7, PeekFound DEF Matched
  <2>2. CASE SkipAndPeek(call.len)
    BY <1>3, <2>1, <2>2 DEF SkipAndPeek
  <2>3. CASE UNCHANGED <<pos, loc, last>>
    BY <1>2, <2>1, <2>3
  <2>4. CASE Answer(call.id, call.len)
    BY <1>4, <2>1, <2>4
  <2> QED BY <1>7, <2>2, <2>3, <2>4 DEF Matched
<1>8. CASE Unmatched
  <2>1. start = pos /\ UNCHANGED <<input, moves>>
    BY <1>8 DEF Unmatched, Placed
  <2> QED BY <1>1, <1>2, <1>4, <1>8, <2>1 DEF Unmatched
<1>9. CASE ActionReturns
  <2>1. start = pos /\ UNCHANGED <<input, moves>>
    BY <1>9 DEF ActionReturns, Placed
  <2>2. CASE SkipAndPeek(bytelen)
    BY <1>1, <1>3, <2>1, <2>2 DEF SkipAndPeek
  <2>3. CASE Answer(call.id, bytelen)
    BY <1>1, <1>4, <2>1, <2>3
  <2> QED BY <1>9, <2>2, <2>3 DEF ActionReturns
<1>10. CASE HandlerReturns
  BY <1>1, <1>2, <1>4, <1>10 DEF HandlerReturns
<1>11. ASSUME NEW kind \in {"next", "lex"}, Call(kind) PROVE LocationAgrees' /\ Counted'
  BY <1>2, <1>11 DEF Call, text
<1>12. CASE Quiet
  BY <1>1, <1>2, <1>12, QuietKeeps
<1>13. CASE Moves
  <2>1. moves' # 0
    BY <1>1, <1>13, MovesKeep
  <2> QED BY <2>1 DEF LocationAgrees, Counted
<1>14. CASE Skip
  BY <1>1, <1>3, <1>14 DEF Skip
<1>15. ASSUME NEW t \in Inputs, SetInput(t) PROVE LocationAgrees' /\ Counted'
  <2>1. pos' = 0 /\ loc' = [line |-> 0, column |-> 0, chars |-> -1] /\ ~last'.token
    BY <1>15 DEF SetInput, Nothing
  <2>2. Read(0, 0)' = {}
    BY DEF Read
  <2>3. Locates(loc, pos)'
    BY <2>1, <2>2, FS_EmptySet DEF Locates
  <2> QED BY <2>1, <2>3 DEF LocationAgrees, Counted
<1> QED
  BY <1>5, <1>6, <1>7, <1>8, <1>9, <1>10, <1>11, <1>12, <1>13, <1>14, <1>15, StepKinds DEF Lex

\* The peek answers with a rule, an error or nothing: the end is not what it finds.
LEMMA EndIsNotFound == ASSUME IInv, Placed, call.id # EOF, [Next]_vars PROVE call'.id # EOF
<1>1. NOMATCH # EOF /\ COMPILE # EOF /\ EXEC # EOF /\ EOF \notin 1..Rules
  BY RulesAssumption DEF NOMATCH, EOF, COMPILE, EXEC
<1>2. IsCall
  BY DEF IInv
<1>3. call' = Idle => call'.id # EOF
  BY <1>1 DEF Idle
<1>4. \A v, k : call' = [Idle EXCEPT !.kind = k, !.pc = v] => call'.id # EOF
  BY <1>1 DEF Idle
<1>5. \A v : call' = [call EXCEPT !.pc = v] => call'.id # EOF
  BY <1>2 DEF IsCall
<1>6. \A id, len : Answer(id, len) => call'.id # EOF
  BY <1>3 DEF Answer
<1>7. \A len : SkipAndPeek(len) => call'.id # EOF
  BY <1>4 DEF SkipAndPeek
<1>8. CASE MatchRule
  BY <1>1, <1>8, MatchTurn DEF NextRule
<1>9. CASE Quiet
  BY <1>2, <1>9, QuietKeeps
<1>10. CASE Moves
  BY <1>2, <1>10, MovesKeep
<1>11. CASE Peek \/ Matched \/ Unmatched
  BY <1>4, <1>5, <1>6, <1>7, <1>11 DEF Peek, Matched, Unmatched
<1>12. CASE RulesEnd \/ ActionReturns \/ HandlerReturns
  BY <1>4, <1>5, <1>6, <1>7, <1>12 DEF RulesEnd, ActionReturns, HandlerReturns
<1>13. CASE Skip \/ (\E t \in Inputs : SetInput(t)) \/ (\E kind \in {"next", "lex"} : Call(kind))
  BY <1>4, <1>13 DEF Skip, SetInput, Call
<1> QED
  BY <1>8, <1>9, <1>10, <1>11, <1>12, <1>13, StepKinds DEF Lex

-----------------------------------------------------------------------------
(* The theorems.                                                           *)

\* The second invariant: the first, and the parts about places, the loop and locations,
\* each inductive with the parts before it.
LInv == IInv /\ Placed /\ Looped /\ ChosenByMode /\ Skippable /\ Counted /\ LocationAgrees
        /\ call.id # EOF

\* A new lexer is at the start of its text.
LEMMA InitLocated == Init => LInv
<1> SUFFICES ASSUME Init PROVE LInv
  OBVIOUS
<1>1. IInv
  BY InitInv
<1>2. call.pc = "idle" /\ last = Nothing /\ pos = 0 /\ loc = [line |-> 0, column |-> 0, chars |-> 0]
  BY DEF Init, Idle
<1>3. Placed
  BY <1>2 DEF Init, Placed, Modes
<1>4. Looped /\ ChosenByMode
  BY <1>2 DEF Looped, ChosenByMode
<1>5. Skippable /\ Counted
  BY <1>2 DEF Skippable, Counted, Nothing, EOF
<1>6. LocationAgrees
  <2>1. Read(0, 0) = {}
    BY DEF Read
  <2> QED BY <1>2, <2>1, FS_EmptySet DEF LocationAgrees, Locates, Nothing
<1>7. call.id # EOF
  BY DEF Init, Idle, EOF, NOMATCH
<1> QED
  BY <1>1, <1>3, <1>4, <1>5, <1>6, <1>7 DEF LInv

\* The second invariant holds in every state.
LEMMA LocatedInvariance == Spec => []LInv
<1>1. LInv /\ [Next]_vars => LInv'
  BY StepInv, PlacedKept, LoopedKept, ChosenKept, SkippableKept, LocationKept, EndIsNotFound DEF LInv
<1> QED
  BY InitLocated, <1>1, PTL DEF Spec

\* The loop of lexer_peek (lexer.c:298-350) leaves the rule its mode asks for, for any
\* rules in any states and whatever the engine answers.
THEOREM RuleIsChosen == Spec => []ChosenByMode
BY LocatedInvariance, PTL DEF LInv

\* The location that lexer_skip counts up (lexer.c:353-368) is that of the position, and a
\* token's (quickjs-lexer.c:1476-1497) is that of its first character, for any texts.
THEOREM LocationIsRight == Spec => []LocationAgrees
BY LocatedInvariance, PTL DEF LInv
-----------------------------------------------------------------------------
(* The lexer cuts the text into matches.                                   *)

\* Where the abstract text goes on after a match is where skipping it ends.
LEMMA AfterIsSkipEnd ==
  ASSUME Placed, NEW r \in 1..Rules, start = pos, pos < input.size, input.match[r][pos] > 0
  PROVE  /\ Cuts!Matches(r) /\ Cuts!After(r) = SkipEnd(input.match[r][pos])
<1> DEFINE e == pos + input.match[r][pos]
           c == CharEnd(e)
           Ends(p) == /\ p \in input.starts \/ p = input.size
                      /\ \A q \in e..(p - 1) : q \notin input.starts
<1>1. pos \in Nat /\ input \in Inputs /\ pos <= input.size /\ input.size \in Nat
  BY InputsAssumption DEF Placed
<1>2. input.match[r][pos] \in Nat /\ e \in Nat /\ e <= input.size /\ pos < e
  <2> DEFINE m == input.match[r][pos]
  <2>1. m \in Int /\ pos + m <= input.size
    BY <1>1, EngineAnswers
  <2>2. m > 0
    OBVIOUS
  <2> HIDE DEF m
  <2>3. m \in Nat /\ pos + m \in Nat /\ pos < pos + m
    BY <1>1, <2>1, <2>2
  <2> QED BY <2>1, <2>3 DEF m
<1>3. SkipEnd(input.match[r][pos]) = c
  <2>1. start + input.match[r][pos] = e
    OBVIOUS
  <2> QED BY <1>2, <2>1 DEF SkipEnd
<1>4. c \in Nat /\ e <= c /\ c <= input.size /\ Ends(c)
  <2> HIDE DEF e
  <2> QED BY <1>1, <1>2, EndOfCharacter
<1>5. ASSUME NEW p \in e..input.size, Ends(p) PROVE p = c
  <2> HIDE DEF e, c
  <2>1. p \in Nat
    BY <1>1, <1>2
  <2>2. ~(p < c)
    <3>1. p < c => p \in e..(c - 1) /\ p # input.size
      BY <1>1, <1>2, <1>4, <2>1
    <3> QED BY <1>4, <1>5, <3>1
  <2>3. ~(c < p)
    <3>1. c < p => c \in e..(p - 1) /\ c # input.size
      BY <1>1, <1>2, <1>4, <2>1
    <3> QED BY <1>4, <1>5, <3>1
  <2> QED BY <1>4, <2>1, <2>2, <2>3
<1>6. Cuts!After(r) = CHOOSE p \in e..input.size : Ends(p)
  BY DEF Cuts!After
<1>7. c \in e..input.size
  <2> HIDE DEF e, c
  <2> QED BY <1>1, <1>2, <1>4
<1>8. (CHOOSE p \in e..input.size : Ends(p)) = c
  <2> HIDE DEF e, c, Ends
  <2> QED BY <1>4, <1>5, <1>7
<1> QED
  BY <1>3, <1>6, <1>8 DEF Cuts!Matches

\* An abstract answer that is no token.
LEMMA PlainAnswer ==
  \A id : [Cuts!Nothing EXCEPT !.id = id] = [id |-> id, token |-> FALSE, offset |-> 0, len |-> 0]
<1> SUFFICES ASSUME NEW id
             PROVE  [Cuts!Nothing EXCEPT !.id = id] = [id |-> id, token |-> FALSE, offset |-> 0, len |-> 0]
  OBVIOUS
<1> DEFINE end == -1
           no == FALSE
           zero == 0
<1>1. [Cuts!Nothing EXCEPT !.id = id] =
        [[id |-> end, token |-> no, offset |-> zero, len |-> zero] EXCEPT !.id = id]
  BY DEF Cuts!Nothing
<1> HIDE DEF end, no, zero
<1>2. [[id |-> end, token |-> no, offset |-> zero, len |-> zero] EXCEPT !.id = id] =
        [id |-> id, token |-> no, offset |-> zero, len |-> zero]
  OBVIOUS
<1>3. [Cuts!Nothing EXCEPT !.id = id] = [id |-> id, token |-> no, offset |-> zero, len |-> zero]
  BY <1>1, <1>2
<1> QED
  BY <1>3 DEF no, zero

\* A rule that is answered is a token or a name of the abstract text.
LEMMA AnswerCuts ==
  ASSUME Placed, NEW r \in 1..Rules, start = pos, pos < input.size, input.match[r][pos] > 0,
         Answer(r, input.match[r][pos]), input' = input
  PROVE  Cuts!Emit(r) \/ Cuts!Name(r)
<1> DEFINE m == input.match[r][pos]
<1>1. Cuts!Matches(r) /\ Cuts!After(r) = SkipEnd(m)
  BY AfterIsSkipEnd
<1>2. CASE call.kind = "next" /\ r \notin {EOF, NOMATCH}
  <2>1. pos' = SkipEnd(m) /\ last' = [id |-> r, token |-> TRUE, offset |-> pos, len |-> m, loc |-> loc]
    BY <1>2 DEF Answer, Consume
  <2> QED BY <1>1, <2>1 DEF Cuts!Emit
<1>3. CASE ~(call.kind = "next" /\ r \notin {EOF, NOMATCH})
  <2>1. pos' = pos /\ last' = [Nothing EXCEPT !.id = r]
    BY <1>3 DEF Answer
  <2>2. /\ last'.id = r /\ last'.token = FALSE /\ last'.offset = 0 /\ last'.len = 0
    BY <2>1 DEF Nothing
  <2> QED BY <1>1, <2>1, <2>2, PlainAnswer DEF Cuts!Name
<1> QED
  BY <1>2, <1>3

\* Every step is a step of the abstract text, or leaves it alone, as long as nobody
\* else has moved the position and the engine fails on no rule.
LEMMA StepCuts ==
  ASSUME LInv, [Next]_vars, moves' = 0, ~EngineFails(input)
  PROVE  Cuts!Next \/ UNCHANGED Cuts!vars
<1>1. /\ IInv /\ Placed /\ ChosenByMode /\ Skippable /\ IsCall
      /\ pos \in Nat /\ start \in Nat /\ bytelen \in Nat /\ moves \in Nat /\ input \in Inputs
  BY DEF LInv, IInv, Placed
<1>2. UNCHANGED <<input, pos, last>> => UNCHANGED Cuts!vars
  BY DEF Cuts!vars
<1>3. \A id, len : id \in {EOF, NOMATCH} /\ Answer(id, len) =>
        /\ pos' = pos /\ last'.id = id /\ last'.token = FALSE /\ last'.offset = 0 /\ last'.len = 0
  BY DEF Answer, Nothing
<1>4. ASSUME NEW r \in 1..Rules, start = pos, pos < input.size, input.match[r][pos] > 0, input' = input
      PROVE  /\ SkipAndPeek(input.match[r][pos]) => Cuts!Next
             /\ Answer(r, input.match[r][pos]) => Cuts!Next
  <2>1. Cuts!Matches(r) /\ Cuts!After(r) = SkipEnd(input.match[r][pos])
    BY <1>1, <1>4, AfterIsSkipEnd
  <2>2. SkipAndPeek(input.match[r][pos]) => Cuts!SkipText(r)
    BY <1>4, <2>1 DEF SkipAndPeek, Consume, Cuts!SkipText
  <2>3. Answer(r, input.match[r][pos]) => Cuts!Emit(r) \/ Cuts!Name(r)
    BY <1>1, <1>4, AnswerCuts
  <2> QED BY <2>2, <2>3 DEF Cuts!Next
<1>5. CASE Peek
  <2>1. CASE pos = input.size
    <3>1. Answer(EOF, bytelen) /\ input' = input
      BY <1>5, <2>1 DEF Peek
    <3>2. Cuts!AtEnd
      BY <1>3, <2>1, <3>1 DEF Cuts!AtEnd, Cuts!Nothing, EOF
    <3> QED BY <3>2 DEF Cuts!Next
  <2>2. CASE pos # input.size
    BY <1>2, <1>5, <2>2 DEF Peek
  <2> QED BY <2>1, <2>2
<1>6. CASE MatchRule \/ RulesEnd
  BY <1>2, <1>6 DEF MatchRule, RulesEnd, text
<1>7. CASE Matched
  <2>1. /\ call.id \in 1..Rules /\ call.len > 0 /\ call.len = input.match[call.id][pos]
        /\ start = pos /\ pos < input.size /\ input' = input
    BY <1>1, <1>7, PeekFound DEF Matched
  <2>2. (SkipAndPeek(call.len) => Cuts!Next) /\ (Answer(call.id, call.len) => Cuts!Next)
    BY <1>4, <2>1
  <2> QED BY <1>2, <1>7, <2>1, <2>2 DEF Matched
<1>8. CASE Unmatched
  <2>1. /\ input' = input /\ call.pc = "peeked" /\ call.id < 0 /\ pos < input.size
        /\ call.id \in {EOF, NOMATCH, COMPILE, EXEC}
    <3>1. call.pc = "peeked" /\ call.id < 0 /\ input' = input
      BY <1>8 DEF Unmatched
    <3>2. call.id \in Ids /\ ~(call.id \in 1..Rules)
      BY <1>1, <3>1 DEF IsCall
    <3> QED BY <1>1, <3>1, <3>2 DEF Placed, Ids
  <2>2. call.id \notin {COMPILE, EXEC}
    <3> SUFFICES ASSUME call.id \in {COMPILE, EXEC} PROVE FALSE
      OBVIOUS
    <3>1. \E r \in 1..Rules : input.match[r][pos] < 0
      BY <1>1, <2>1 DEF ChosenByMode
    <3>2. pos \in 0..input.size
      BY <1>1, <2>1, InputsAssumption
    <3> QED BY <3>1, <3>2 DEF EngineFails
  <2>3. CASE Answer(call.id, bytelen)
    <3>1. /\ pos' = pos /\ last'.id = call.id /\ last'.token = FALSE
          /\ last'.offset = 0 /\ last'.len = 0
      BY <1>3, <2>1, <2>2, <2>3
    <3>2. call.id = NOMATCH => Cuts!NoMatch
      BY <2>1, <3>1, PlainAnswer DEF Cuts!NoMatch, NOMATCH
    <3>3. call.id # EOF
      BY DEF LInv
    <3> QED BY <2>1, <2>2, <3>2, <3>3 DEF Cuts!Next
  <2> QED BY <1>2, <1>8, <2>1, <2>3 DEF Unmatched
<1>9. CASE ActionReturns
  <2>1. /\ call.id \in 1..Rules /\ bytelen > 0 /\ bytelen = input.match[call.id][pos]
        /\ start = pos /\ pos < input.size /\ input' = input
    BY <1>1, <1>9 DEF ActionReturns, Placed, IInv, Found, IsCall, Ids, EOF, NOMATCH, COMPILE, EXEC
  <2>2. (SkipAndPeek(bytelen) => Cuts!Next) /\ (Answer(call.id, bytelen) => Cuts!Next)
    BY <1>4, <2>1
  <2> QED BY <1>9, <2>2 DEF ActionReturns
<1>10. CASE HandlerReturns
  <2>1. input' = input /\ pos < input.size
    BY <1>1, <1>10 DEF HandlerReturns, Placed
  <2>2. CASE Answer(NOMATCH, bytelen)
    <3>1. /\ pos' = pos /\ last'.id = NOMATCH /\ last'.token = FALSE
          /\ last'.offset = 0 /\ last'.len = 0
      BY <1>3, <2>2
    <3>2. Cuts!NoMatch
      BY <2>1, <3>1, PlainAnswer DEF Cuts!NoMatch, NOMATCH
    <3> QED BY <3>2 DEF Cuts!Next
  <2> QED BY <1>2, <1>10, <2>1, <2>2 DEF HandlerReturns
<1>11. ASSUME NEW kind \in {"next", "lex"}, Call(kind) PROVE UNCHANGED Cuts!vars
  BY <1>2, <1>11 DEF Call, text
<1>12. CASE Quiet
  BY <1>1, <1>2, <1>12, QuietKeeps
<1>13. ~Moves
  BY <1>1, MovesKeep
<1>14. CASE Skip
  <2>1. /\ pos' = SkipEnd(bytelen) /\ UNCHANGED <<input, last, moves>>
        /\ call.pc = "idle" /\ last.id > 0
    BY <1>14 DEF Skip, Consume
  <2>2. CASE pos >= start + bytelen
    <3>1. SkipEnd(bytelen) = pos
      BY <1>1, <2>2 DEF SkipEnd
    <3> QED BY <1>2, <2>1, <3>1
  <2>3. CASE /\ last.id \in 1..Rules /\ start = pos /\ pos < input.size
             /\ bytelen = input.match[last.id][pos] /\ bytelen > 0
    <3>1. Cuts!Matches(last.id) /\ Cuts!After(last.id) = SkipEnd(bytelen)
      BY <1>1, <2>3, AfterIsSkipEnd
    <3>2. Cuts!SkipText(last.id)
      BY <2>1, <3>1 DEF Cuts!SkipText
    <3> QED BY <2>3, <3>2 DEF Cuts!Next
  <2> QED BY <1>1, <2>1, <2>2, <2>3 DEF Skippable
<1>15. ASSUME NEW t \in Inputs, SetInput(t) PROVE Cuts!Next
  <2>1. Cuts!NewText
    BY <1>15 DEF SetInput, Nothing, EOF, Cuts!NewText, Cuts!Nothing
  <2> QED BY <2>1 DEF Cuts!Next
<1> QED
  BY <1>5, <1>6, <1>7, <1>8, <1>9, <1>10, <1>11, <1>12, <1>13, <1>14, <1>15, StepKinds DEF Lex

\* The lexer implements the abstract text: for any rules, states, modes and callbacks, it
\* hands a text out as matches without gap or overlap, in order, to its end.
THEOREM LexerCutsText == Spec => ImplementsTokenizer
<1>1. Init => Cuts!Init
  BY DEF Init, Nothing, EOF, Cuts!Init, Cuts!Nothing
<1>2. LInv /\ [Next]_vars => [moves' = 0 /\ ~EngineFails(input) => Cuts!Next]_(Cuts!vars)
  BY StepCuts
<1> QED
  BY <1>1, <1>2, LocatedInvariance, PTL DEF Spec, ImplementsTokenizer
=============================================================================
