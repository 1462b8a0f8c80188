\* A sub-order paid alone and with its master: is the customer charged once?
SPECIFICATION Spec
CONSTANTS
  o1 = o1  o2 = o2  m1 = m1
  Orders = {o1, o2}
  Masters = {m1}
  MasterOf <- MarketMasterOf
  Nobody = Nobody
  Physical = {}
  AutoFulfil = {}
  Connected = {}
  Handlers = {h1}
  Intents = {i1, i2}
  MaxReturned = 0
  MaxEffects = 1
  MaxCrashes = 0
CHECK_DEADLOCK FALSE
INVARIANT OneChargePerOrder
