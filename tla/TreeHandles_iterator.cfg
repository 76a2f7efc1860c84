SPECIFICATION Spec
CONSTANTS
  Handle <- MCHandle
  Word = 16
INVARIANT NoUseAfterFree
CHECK_DEADLOCK FALSE
