\* Every cart of the grid, every coupon, both checkouts.
SPECIFICATION Spec
CONSTANTS
  Vendors = {"a", "b"}
  Subtotals <- MCSubtotals
  Fees <- MCFees
  Percents <- MCPercents
  FixedOffs <- MCFixedOffs
  MinOrders <- MCMinOrders
CHECK_DEADLOCK FALSE
INVARIANTS
  TypeOK
  SplitIsWhole
  ReceiptAddsUp
  PlatformKeepsCommission
