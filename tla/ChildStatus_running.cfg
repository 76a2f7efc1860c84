SPECIFICATION Spec
CONSTANTS
  Child <- MCChild
  Codes <- MCCodes
  Signals <- MCSignals
  Kill = 9
INVARIANT EndedWhenTold
