SPECIFICATION BotFairSpec
CONSTANTS
  u = u
  n = n
  v = v
  f2 = f2
  f3 = f3
  uv = uv
  nuv = nuv
  Factories = {f2, f3}
  None = None
  V2Pools = {u}
  V3Pools = {v}
  Deployed = {u, v}
  Kinds = {"sync", "mint", "burn"}
  MaxBlock = 3
  MaxLogs = 1
  MaxAmount = 1
  StartupFactories = {f2, f3}
  LoadedPools = {u, v}
  SnapshotPools = {v}
  Faults = {"late", "reset", "cancel", "disconnect"}
  Arbs = {uv}
  TaskIds = {1, 2, 3}
  Profits = {1}
  FactoryOf <- MCFactoryOf
  SwapPools <- MCSwapPools
INVARIANTS
  NoLostUpdate
PROPERTIES
  EveryUpdateTried
CHECK_DEADLOCK FALSE
