SPECIFICATION Spec
CONSTANTS
  Tabs = {t1, t2}
  Calls = {c1, c2}
  MaxPairs = 3
  MaxMishaps = 1
  MaxOrders = 2
  MaxPolls = 1
  MaxRequests = 2
  MaxFailures = 1
INVARIANTS SessionKept LogoutIsFinal PaidWhenToldSo DraftSurvives
PROPERTY EveryCallSettles
CHECK_DEADLOCK FALSE
