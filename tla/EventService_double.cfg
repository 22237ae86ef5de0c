SPECIFICATION HistorySpec
CONSTANTS
  u = u
  n = n
  v = v
  w = w
  f2 = f2
  f3 = f3
  g3 = g3
  Factories = {f2, f3, g3}
  None = None
  V2Pools = {u}
  V3Pools = {w}
  Deployed = {u}
  Kinds = {"mint", "burn", "pool"}
  MaxBlock = 2
  MaxLogs = 2
  MaxAmount = 1
  StartupFactories = {f3}
  LoadedPools = {}
  SnapshotPools = {}
  Faults = {}
  FactoryOf <- MCFactoryOf
INVARIANTS
  NoDoubleCounting
CHECK_DEADLOCK FALSE
