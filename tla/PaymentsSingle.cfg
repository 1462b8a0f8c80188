\* One order of a store: every interleaving of two handlers, safety and, under
\* fairness, liveness.
SPECIFICATION FairSpec
CONSTANTS
  o1 = o1  o2 = o2  m1 = m1
  Orders = {o1}
  Masters = {}
  MasterOf <- SingleMasterOf
  Nobody = Nobody
  Physical = {o1}
  AutoFulfil = {o1}
  Connected = {o1}
  Handlers = {h1, h2}
  Intents = {i1}
  MaxReturned = 1
  MaxEffects = 2
  MaxCrashes = 1
CHECK_DEADLOCK FALSE
INVARIANTS
  TypeOK
  FulfilledOnlyIfPaid
  StockReturnedOnce
  
  BooksBalance
  PayoutsMatchCharges
  AnsweredIsMarked
PROPERTIES
  PaidIsNoticed
  ReservationEnds
