SPECIFICATION Spec
CONSTANTS
  Starts <- MCStarts
  Edited <- MCEdited
  Typed <- MCTyped
  Selections <- MCSelections
  MaxEdits = 2
  MaxSessions = 2
INVARIANTS
  SettingsStayValid
  ChoicesSurvive
  ShownIsLive
