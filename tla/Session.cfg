SPECIFICATION Spec
CONSTANTS
  Modes = {m1}
  NoMode = nomode
  Queries <- QueriesValue
  MaxId = 2
  MaxHands = 2
  MaxInputs = 2
  Target = 1
INVARIANTS
  HandsInStep
  PaidOnce
PROPERTIES
  TransitionsEnd
  DeferredLaunchResolves
