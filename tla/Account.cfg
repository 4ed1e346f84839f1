SPECIFICATION FairSpec
CONSTANTS
  Devices = {d1}
  Users = {u1, u2}
  Nobody = nobody
  Wallets = {w0}
  EmptyWallet = w0
  NoRow = norow
  Rotations = {TRUE}
  MaxFailures = 4
  MaxQueue = 2
  Private = {}
INVARIANTS
  TypeOK
  GateMeansReconciled
  QueueBelongsToAccount
  IndicatorTruthful
  NewestQueuedIsLocal
PROPERTIES
  QueueDrains
  SessionReconciles
