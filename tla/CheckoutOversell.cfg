\* Three requests of three carts, no coupon limit: is more sold than there was?
SPECIFICATION Spec
CONSTANTS
  Requests = {r1, r2, r3}
  Carts = {"c1", "c2"}
  Variants <- MCVariants
  Tracked <- MCTracked
  Demand <- MCDemand
  InitialStock <- MCStock
  UsageLimit = 0
  Nobody = Nobody
SYMMETRY Symmetry
CHECK_DEADLOCK FALSE
INVARIANT
  NoOversell
