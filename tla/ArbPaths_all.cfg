SPECIFICATION Spec
CONSTANTS
  Pools = {p1, p2, p3, p4}
  Tokens = {weth, x, y, z}
  wrapped_token = weth
INVARIANTS
  AllTwoPoolPathways
  AllThreePoolPathways
CHECK_DEADLOCK FALSE
