------------------------------- MODULE Pricing --------------------------------
(***************************************************************************)
(* The money of a checkout: what the customer is charged, what the         *)
(* platform keeps and what the vendor is transferred, from the subtotal,   *)
(* the coupon and the shipping method to the rounded columns of the order, *)
(* to the PaymentIntent and to the Connect transfer (checkout_service.py,  *)
(* marketplace_service.py, payments/base.py, order_service.py).            *)
(*                                                                         *)
(* Python computes with exact decimals.  A percentage has two decimals, as *)
(* has a price, so every intermediate value is a whole number of           *)
(* ten-thousandths of a cent, the unit of this module.  Only two places    *)
(* round: round2, and the DECIMAL(10,2) columns of MySQL.                  *)
(***************************************************************************)
EXTENDS Integers, FiniteSets, Functions

CONSTANTS
  Vendors,      \* the tenants of one cart
  Subtotals,    \* sums of price * quantity, in cents
  Fees,         \* prices of shipping methods, in cents; 0 is no method
  Percents,     \* discount_val of percentage coupons, in hundredths of a percent
  FixedOffs,    \* discount_val of fixed coupons, in cents
  MinOrders     \* min_order_amt, in cents

ASSUME AmountAssumption ==
  /\ IsFiniteSet(Vendors)
  /\ Subtotals \subseteq Nat /\ Fees \subseteq Nat
  /\ Percents \subseteq Nat \ {0} /\ FixedOffs \subseteq Nat \ {0}
  /\ MinOrders \subseteq Nat

VARIABLES step,         \* how far the payment has come
          subtotal,     \* of each vendor's part of the cart
          fee, coupon,  \* what the single-store checkout was asked for
          orders,       \* the stored rows, by vendor
          charge,       \* amount of the PaymentIntent, in cents
          transfer      \* what is transferred to each vendor, in cents

vars == <<step, subtotal, fee, coupon, orders, charge, transfer>>

Unit == 10000
NoCoupon == [type |-> "none", val |-> 0, min |-> 0]
Coupons == {NoCoupon} \cup
  [type : {"percentage"}, val : Percents, min : MinOrders] \cup
  [type : {"fixed"}, val : FixedOffs, min : MinOrders]

Row == [subtotal : Nat, discount : Nat, fee : Nat, total : Nat,
        commission : Nat, payout : Nat]

-------------------------------------------------------------------------------
\* The arithmetic.  Arguments are in units, rounded results in cents.

\* Mutant: MySQL truncates.
StoredDown(x) == x \div Unit

\* MySQL's conversion to DECIMAL(10,2): half away from zero.  No negative
\* amount is ever stored.
Stored(x) == (x + Unit \div 2) \div Unit

\* Mutant: no lower bound.
AsIs(x) == x

AtLeastZero(x) == IF x < 0 THEN 0 ELSE x

\* subtotal * (discount_val / 100), or discount_val itself.
Discount(sub, c) ==
  CASE c.type = "percentage" -> sub * c.val
    [] c.type = "fixed"      -> c.val * Unit
    [] OTHER                 -> 0

\* round2(base * PLATFORM_COMMISSION_RATE): ten percent, ROUND_HALF_UP.
Commission(base) == (base + 5 * Unit) \div (10 * Unit)

\* Mutant: commission is taken of the shipping fee as well, but only in one of
\* the two columns.
OrderRowTwoBases(sub, f, c) ==
  LET off  == Discount(sub, c)
      base == AtLeastZero(sub * Unit - off)
      keep == Commission(base + f * Unit)
  IN  [subtotal |-> sub, discount |-> Stored(off), fee |-> f,
       total |-> Stored(AtLeastZero(sub * Unit - off + f * Unit)),
       commission |-> keep,
       payout |-> Stored(base - Commission(base) * Unit + f * Unit)]

\* The row a single-store checkout inserts.
OrderRow(sub, f, c) ==
  LET off  == Discount(sub, c)
      base == AtLeastZero(sub * Unit - off)
      keep == Commission(base)
  IN  [subtotal |-> sub, discount |-> Stored(off), fee |-> f,
       total |-> Stored(AtLeastZero(sub * Unit - off + f * Unit)),
       commission |-> keep,
       payout |-> Stored(base - keep * Unit + f * Unit)]

\* The row a marketplace checkout inserts for one vendor.
SubOrderRow(sub) ==
  [subtotal |-> sub, discount |-> 0, fee |-> 0, total |-> sub,
   commission |-> Commission(sub * Unit),
   payout |-> sub - Commission(sub * Unit)]

\* Mutant: the whole total goes to the vendor.
OwedInFull(row) == row.total

\* _transfer_for_order: payouts of zero are replaced, and nothing is sent when
\* nothing is owed.
Owed(row) ==
  LET payout == IF row.payout > 0 THEN row.payout ELSE row.total - row.commission
  IN  AtLeastZero(payout)

\* The orders of the cart.
Placed == DOMAIN orders

Total(rows) == SumFunction([v \in DOMAIN rows |-> rows[v].total])

-------------------------------------------------------------------------------
Init ==
  /\ step = "cart"
  /\ subtotal \in [Vendors -> Subtotals]
  /\ fee \in Fees
  /\ coupon \in Coupons
  /\ orders = [v \in {} |-> OrderRow(0, 0, NoCoupon)]
  /\ charge = 0
  /\ transfer = [v \in {} |-> 0]

\* checkout_service: the cart of one store.
CheckoutStore(v) ==
  /\ step = "cart"
  /\ IF subtotal[v] < coupon.min
     THEN step' = "rejected" /\ UNCHANGED orders
     ELSE /\ step' = "pending"
          /\ orders' = [w \in {v} |-> OrderRow(subtotal[v], fee, coupon)]
  /\ UNCHANGED <<subtotal, fee, coupon, charge, transfer>>

\* marketplace_checkout_service: no coupon, no shipping fee.
CheckoutMarket ==
  /\ step = "cart"
  /\ step' = "pending"
  /\ orders' = [v \in Vendors |-> SubOrderRow(subtotal[v])]
  /\ UNCHANGED <<subtotal, fee, coupon, charge, transfer>>

\* The PaymentIntent is made for the stored total, of the order or of the
\* master order, in the smallest unit of the currency.  Stripe refuses an amount
\* of zero: such an order stays unpaid until the sweep expires it.
Pay ==
  /\ step = "pending"
  /\ Total(orders) > 0
  /\ step' = "charged"
  /\ charge' = Total(orders)
  /\ UNCHANGED <<subtotal, fee, coupon, orders, transfer>>

\* The webhook: the amount matches, every vendor is transferred what it is owed.
Settle ==
  /\ step = "charged"
  /\ charge = Total(orders)
  /\ step' = "settled"
  /\ transfer' = [v \in Placed |-> Owed(orders[v])]
  /\ UNCHANGED <<subtotal, fee, coupon, orders, charge>>

Next ==
  \/ \E v \in Vendors : CheckoutStore(v)
  \/ CheckoutMarket
  \/ Pay
  \/ Settle

Spec == Init /\ [][Next]_vars

-------------------------------------------------------------------------------
\* Properties

TypeOK ==
  /\ step \in {"cart", "rejected", "pending", "charged", "settled"}
  /\ subtotal \in [Vendors -> Subtotals]
  /\ fee \in Fees /\ coupon \in Coupons
  /\ Placed \subseteq Vendors /\ orders \in [Placed -> Row]
  /\ charge \in Nat
  /\ DOMAIN transfer \subseteq Placed /\ transfer \in [DOMAIN transfer -> Nat]

\* The discount is covered by the goods it is given on.
Covered(row) == row.discount <= row.subtotal

\* No cent is lost or invented between three columns that are rounded one by
\* one: what the platform keeps and what the vendor is owed is what the customer
\* pays, whenever the coupon is not worth more than the goods.
SplitIsWhole ==
  \A v \in Placed :
    Covered(orders[v]) => orders[v].commission + orders[v].payout = orders[v].total

\* The receipt adds up to the cent: the lines printed on an order (subtotal,
\* discount, shipping) differ from its total by one cent at most.
ReceiptAddsUp ==
  \A v \in Placed :
    Covered(orders[v]) =>
      orders[v].total - (orders[v].subtotal - orders[v].discount + orders[v].fee)
        \in 0..1

\* Once settled, the platform is left with its commission, for the single store
\* and for all vendors behind one charge.
PlatformKeepsCommission ==
  step = "settled" /\ (\A v \in Placed : Covered(orders[v])) =>
    charge - SumFunction(transfer)
      = SumFunction([v \in Placed |-> orders[v].commission])

\* models/order.py:83-84: commission and payout are the "split of total_amount:
\* what the platform keeps vs. what the vendor is owed".
SplitOfTotal ==
  \A v \in Placed : orders[v].commission + orders[v].payout = orders[v].total
===============================================================================
