SPECIFICATION Spec
CONSTANTS
  MaxRun = 1
  MaxInputs = 1
INVARIANTS
  ForcedNeverPersisted
