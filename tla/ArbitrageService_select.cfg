SPECIFICATION ArbFairSpec
CONSTANTS
  p1 = p1
  p2 = p2
  p3 = p3
  p4 = p4
  p5 = p5
  p6 = p6
  ab = ab
  bc = bc
  be = be
  cf = cf
  dbe = dbe
  SwapPools <- MCSwapPools
  Profits <- MCProfits
  ArbPools = {p1, p2, p3, p4, p5, p6}
  Arbs = {ab, bc, be, cf, dbe}
  TaskIds = {1}
INVARIANTS
  ArbTypeOK
  LeftOutForBetter
  ReportsTheBest
PROPERTIES
  ImplementsSelector
  EveryTaskEnds
CHECK_DEADLOCK FALSE
