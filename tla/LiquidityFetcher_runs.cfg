SPECIFICATION FairSpec
CONSTANTS
  V3Pools = {p1, p2}
  Known = {p1}
  None = None
  StartBlock = 1
  BlockSpan = 2
  MaxBlock = 4
  MaxLogs = 3
  MaxFailures = 2
INVARIANTS
  LqTypeOK
  SnapshotExact
  NeverRefused
PROPERTIES
  ImplementsSnapshotFile
  EveryRunEnds
CHECK_DEADLOCK FALSE
