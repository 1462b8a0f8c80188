\* Two requests, stock for one of them, under fairness: answers, and locks as leases.
SPECIFICATION FairSpec
CONSTANTS
  Requests = {r1, r2}
  Carts = {"c1", "c2"}
  Variants <- MCVariants
  Tracked <- MCTracked
  Demand <- MCDemand
  InitialStock <- MCTightStock
  UsageLimit = 1
  Nobody = Nobody
CHECK_DEADLOCK FALSE
INVARIANT
  TypeOK
PROPERTIES
  EveryRequestAnswered
  
