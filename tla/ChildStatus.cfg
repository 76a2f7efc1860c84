SPECIFICATION FairSpec
CONSTANTS
  Child <- MCChild
  Codes <- MCCodes
  Signals <- MCSignals
  Kill = 9
INVARIANTS StatusKept
PROPERTY WaitAfterKill
