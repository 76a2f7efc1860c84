SPECIFICATION Spec
CONSTANTS
  Width = 2
  Prompt = 1
  Prompt2 = 2
  Typed <- MCTyped
  Completed <- MCCompleted
  MaxLine = 4
  MaxUnits = 4
  MaxHistory = 2
INVARIANTS YankUndoesKills CursorShown
PROPERTY CharactersWhole
CHECK_DEADLOCK FALSE
