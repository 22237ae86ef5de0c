SPECIFICATION HistoryFairSpec
CONSTANTS
  u = u
  n = n
  v = v
  w = w
  f2 = f2
  f3 = f3
  g3 = g3
  Factories = {f2, f3, g3}
  None = None
  V2Pools = {u}
  V3Pools = {v, w}
  Deployed = {u, v}
  Kinds = {"sync", "mint", "burn", "swap", "pool", "other", "anonymous"}
  MaxBlock = 3
  MaxLogs = 1
  MaxAmount = 1
  StartupFactories = {f2, f3}
  LoadedPools = {u, v}
  SnapshotPools = {v}
  Faults = {"late", "disconnect", "reorder", "reset", "rpc", "manager", "decode", "update"}
  FactoryOf <- MCFactoryOf
INVARIANTS
  TypeOK
  ReservesOfBlock
  RegisteredNonNegative
  SnapshotCurrent
  FaultsStayLocal
PROPERTIES
  HelperNeverOlder
  EveryLogRead
CHECK_DEADLOCK FALSE
