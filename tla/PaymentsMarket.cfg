\* A marketplace checkout of two vendors behind one master order.

SPECIFICATION Spec
CONSTANTS
  o1 = o1  o2 = o2  m1 = m1
  Orders = {o1, o2}
  Masters = {m1}
  MasterOf <- MarketMasterOf
  Nobody = Nobody
  Physical = {}
  AutoFulfil = {}
  Connected = {o1, o2}
  Handlers = {h1, h2}
  Intents = {i1, i2}
  MaxReturned = 0
  MaxEffects = 2
  MaxCrashes = 0
SYMMETRY MarketSymmetry
CHECK_DEADLOCK FALSE
INVARIANTS
  OneChargePerPayable
  
  PayoutsMatchCharges
