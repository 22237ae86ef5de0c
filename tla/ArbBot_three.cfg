SPECIFICATION BotSpec
CONSTANTS
  u = u
  n = n
  v = v
  f2 = f2
  f3 = f3
  uv = uv
  nuv = nuv
  Factories = {f2, f3}
  None = None
  V2Pools = {u, n}
  V3Pools = {v}
  Deployed = {u, n, v}
  Kinds = {"sync"}
  MaxBlock = 1
  MaxLogs = 1
  MaxAmount = 1
  StartupFactories = {f2, f3}
  LoadedPools = {u, n, v}
  SnapshotPools = {v}
  Faults = {}
  Arbs = {uv, nuv}
  TaskIds = {1, 2}
  Profits = {1}
  FactoryOf <- MCFactoryOf
  SwapPools <- MCSwapPools
INVARIANTS
  AnyPoolAffects
CHECK_DEADLOCK FALSE
