SPECIFICATION FairSpec
CONSTANTS
  p1 = p1
  p2 = p2
  ab = ab
  f1 = f1
  f2 = f2
  f3 = f3
  Pools = {p1, p2}
  Paths = {ab}
  PathOf <- MCPathOf
  Factories = {f1, f2, f3}
  Configs <- MCConfigs
  Builtin = {f1}
  Unbound = Unbound
  None = None
  Malformed = Malformed
  MaxBlock = 2
  MaxMessages = 1
INVARIANTS
  StartupTypeOK
  OneStateBlock
  CyclesTracked
  NeverWaitsForLive
  KnownExchangesRegistered
  DeploymentsMatch
PROPERTIES
  StartsUp
CHECK_DEADLOCK FALSE
