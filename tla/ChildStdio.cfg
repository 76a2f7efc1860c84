SPECIFICATION Spec
CONSTANTS
  Child <- MCChild
  Limit = 9
  Start <- MCStart
  Numbers <- MCNumbers
INVARIANTS Wired EndComes
CHECK_DEADLOCK FALSE
