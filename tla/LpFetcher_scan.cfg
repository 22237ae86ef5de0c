SPECIFICATION FairSpec
CONSTANTS
  BlockSpan = 2
  FactoryBlock = 1
  HandlerInstalled = TRUE
  MaxBlock = 7
  MaxPools = 3
  MaxFailures = 2
INVARIANTS
  LpTypeOK
  NothingSkipped
  AtMostTwice
PROPERTIES
  ImplementsPoolFile
  EveryRunEnds
CHECK_DEADLOCK FALSE
