SPECIFICATION HistorySpec
CONSTANTS
  u = u
  n = n
  v = v
  w = w
  f2 = f2
  f3 = f3
  g3 = g3
  Factories = {f2, f3, g3}
  None = None
  V2Pools = {u, n}
  V3Pools = {v, w}
  Deployed = {u, v, w}
  Kinds = {"sync", "mint", "burn", "swap", "pair"}
  MaxBlock = 2
  MaxLogs = 2
  MaxAmount = 1
  StartupFactories = {f3, g3}
  LoadedPools = {v}
  SnapshotPools = {v}
  Faults = {"manager", "snapshot", "cancel"}
  FactoryOf <- MCFactoryOf
INVARIANTS
  BlockStateExact
CHECK_DEADLOCK FALSE
