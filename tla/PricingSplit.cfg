\* A coupon worth more than the goods: is the total still split in two?
SPECIFICATION Spec
CONSTANTS
  Vendors = {"a", "b"}
  Subtotals <- MCSubtotals
  Fees <- MCFees
  Percents <- MCPercents
  FixedOffs <- MCFixedOffs
  MinOrders <- MCMinOrders
CHECK_DEADLOCK FALSE
INVARIANT
  SplitOfTotal
