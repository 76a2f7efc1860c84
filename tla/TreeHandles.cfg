SPECIFICATION Spec
CONSTANTS
  Handle <- MCHandle
  Word = 16
INVARIANT LivesWithItsObjects
CHECK_DEADLOCK FALSE
