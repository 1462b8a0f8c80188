\* Does the sweep expire an order only after its charge was canceled?
SPECIFICATION Spec
CONSTANTS
  o1 = o1  o2 = o2  m1 = m1
  Orders = {o1}
  Masters = {}
  MasterOf <- SingleMasterOf
  Nobody = Nobody
  Physical = {}
  AutoFulfil = {}
  Connected = {}
  Handlers = {h1, h2}
  Intents = {i1, i2}
  MaxReturned = 0
  MaxEffects = 1
  MaxCrashes = 0
CHECK_DEADLOCK FALSE
PROPERTY ExpiredOnlyAfterCancel
