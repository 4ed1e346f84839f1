SPECIFICATION LoaderFairSpec
CONSTANTS
  Tiers <- ThreeTiers
  Size <- ThreeSizes
  MaxRetries = 3
  MaxWaiters = 2
INVARIANTS
  LoaderTypeOK
  SerialInOrder
  FutureMeansResolved
  RetriesHonoured
PROPERTIES
  EveryLoadEnds
