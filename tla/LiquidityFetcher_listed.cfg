SPECIFICATION Spec
CONSTANTS
  V3Pools = {p1, p2}
  Known = {p1}
  None = None
  StartBlock = 1
  BlockSpan = 2
  MaxBlock = 5
  MaxLogs = 3
  MaxFailures = 0
INVARIANTS
  ListedPoolsExact
CHECK_DEADLOCK FALSE
