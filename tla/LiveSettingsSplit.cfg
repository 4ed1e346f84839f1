SPECIFICATION Spec
CONSTANTS
  Starts <- MCStarts
  Edited <- MCFew
  Typed <- MCTyped
  Selections <- MCSelections
  MaxEdits = 3
  MaxSessions = 2
PROPERTY SavedSplitSticks
