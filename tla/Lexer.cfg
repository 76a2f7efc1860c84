SPECIFICATION FairSpec
CONSTANTS
    Rules = 5
    inner = inner
    outer = outer
    INITIAL = outer
    States = {outer, inner}
    RuleState <- MCRuleState
    SkipMasked = {3}
    Actions = {2, 4, 5}
    SkipAfter = {5}
    HasHandler = TRUE
    Inputs <- MCTexts
    MaxDepth = 2
    MaxMoves = 1
INVARIANTS ChosenByMode LocationAgrees TokenIsItsRule PopsAreSafe
PROPERTIES ImplementsTokenizer CallsReturn
