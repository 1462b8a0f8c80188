\* Three concurrent requests, two carts, every failure.
SPECIFICATION Spec
CONSTANTS
  Requests = {r1, r2, r3}
  Carts = {"c1", "c2"}
  Variants <- MCVariants
  Tracked <- MCTracked
  Demand <- MCDemand
  InitialStock <- MCStock
  UsageLimit = 1
  Nobody = Nobody
SYMMETRY Symmetry
CHECK_DEADLOCK FALSE
INVARIANTS
  MutualExclusion
  RefusalHasWinner
  UnitsAccountedFor
  CouponCounted
  DoubleOrderOverwrites
  
