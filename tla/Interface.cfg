SPECIFICATION Spec
CONSTANTS
  MaxRun = 2
  MaxInputs = 2
INVARIANTS
  StacksInStep
  FocusIsTrapped
  ForcingEndsWithTheLesson
  ScriptFollowsScreen
PROPERTIES
  RowsFollowTheAccount
