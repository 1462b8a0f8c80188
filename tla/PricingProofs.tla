---------------------------- MODULE PricingProofs -----------------------------
(***************************************************************************)
(* For all prices, fees and coupons: the stored commission and payout of   *)
(* an order add up to its stored total, unless the coupon is worth more    *)
(* than the goods.  The three columns are rounded separately; what makes   *)
(* the sum exact is that the commission is a whole number of cents before  *)
(* the payout is computed from it (SplitRounds).  And for any number of    *)
(* vendors: what is left of a charge after all transfers is the sum of the *)
(* commissions (SumSplits).                                                *)
(***************************************************************************)
EXTENDS Pricing, FiniteSetTheorems, WellFoundedInduction, TLAPS

\* MySQL's rounding is a function into the integers that stays within half a
\* cent: it is the only integer s with x - U/2 < s * U <= x + U/2.
LEMMA StoredBounds ==
  ASSUME NEW x \in Int
  PROVE  /\ Stored(x) \in Int
         /\ Stored(x) * Unit <= x + 5000
         /\ x + 5000 < Stored(x) * Unit + Unit
  BY DEF Stored, Unit

\* Nothing that is not negative is rounded below zero.
LEMMA StoredNat ==
  ASSUME NEW x \in Nat
  PROVE  Stored(x) \in Nat
  BY DEF Stored, Unit

\* Rounding commutes with whole cents.
LEMMA StoredShift ==
  ASSUME NEW x \in Int, NEW n \in Int
  PROVE  Stored(x + n * Unit) = Stored(x) + n
  BY DEF Stored, Unit

\* Ten percent, rounded half up, is a whole number of cents and not more than
\* what it is taken of.
LEMMA CommissionBounds ==
  ASSUME NEW base \in Nat
  PROVE  Commission(base) \in Nat /\ Commission(base) * Unit <= base
<1>1. Commission(base) \in Nat
  BY DEF Commission, Unit
<1>2. 100000 * Commission(base) <= base + 50000
  BY DEF Commission, Unit
<1> QED
  BY <1>1, <1>2 DEF Unit

\* What a coupon takes off is a whole number of units.
LEMMA DiscountNat ==
  ASSUME NEW sub \in Nat, NEW c \in Coupons
  PROVE  Discount(sub, c) \in Nat
<1>1. CASE c = NoCoupon
  BY <1>1 DEF Discount, NoCoupon
<1>2. CASE c \in [type : {"percentage"}, val : Percents, min : MinOrders]
  <2>1. c.val \in Nat /\ c.type = "percentage"
    BY <1>2, AmountAssumption
  <2> QED
    BY <2>1 DEF Discount
<1>3. CASE c \in [type : {"fixed"}, val : FixedOffs, min : MinOrders]
  <2>1. c.val \in Nat /\ c.type = "fixed"
    BY <1>3, AmountAssumption
  <2> QED
    BY <2>1 DEF Discount, Unit
<1> QED
  BY <1>1, <1>2, <1>3 DEF Coupons

\* The core of it: with off the exact discount, which MySQL rounds to at most
\* the subtotal, the two rounded shares make up the rounded total.
LEMMA SplitRounds ==
  ASSUME NEW sub \in Nat, NEW f \in Nat, NEW off \in Nat,
         Stored(off) <= sub
  PROVE  LET base == AtLeastZero(sub * Unit - off)
             keep == Commission(base)
         IN  keep + Stored(base - keep * Unit + f * Unit)
               = Stored(AtLeastZero(sub * Unit - off + f * Unit))
<1> DEFINE base == AtLeastZero(sub * Unit - off)
           keep == Commission(base)
<1>1. base \in Nat
  BY DEF AtLeastZero, Unit
<1>2. keep \in Nat
  BY <1>1, CommissionBounds
<1> HIDE DEF keep
<1>3. Stored(base - keep * Unit + f * Unit) = Stored(base + f * Unit) - keep
  <2>1. base + f * Unit \in Int /\ -keep \in Int
    BY <1>1, <1>2 DEF Unit
  <2>2. base - keep * Unit + f * Unit = (base + f * Unit) + (-keep) * Unit
    BY <1>1, <1>2 DEF Unit
  <2>3. Stored((base + f * Unit) + (-keep) * Unit) = Stored(base + f * Unit) + (-keep)
    BY <2>1, StoredShift
  <2>4. Stored(base + f * Unit) \in Int
    BY <2>1, StoredBounds
  <2> QED
    BY <1>2, <2>2, <2>3, <2>4
<1>4. Stored(base + f * Unit) = Stored(AtLeastZero(sub * Unit - off + f * Unit))
  <2>1. CASE off <= sub * Unit
    <3>1. base + f * Unit = AtLeastZero(sub * Unit - off + f * Unit)
      BY <2>1 DEF AtLeastZero, Unit
    <3> QED
      BY <3>1
  <2>2. CASE off > sub * Unit
    <3>1. base = 0
      BY <2>2 DEF AtLeastZero, Unit
    <3>2. off < sub * Unit + 5000
      BY StoredBounds DEF Unit
    <3>3. Stored(base + f * Unit) = f
      BY <3>1 DEF Stored, Unit
    <3>4. CASE f = 0
      BY <2>2, <3>3, <3>4 DEF AtLeastZero, Stored, Unit
    <3>5. CASE f > 0
      <4>1. PICK e \in 1..4999 : off = sub * Unit + e
        BY <2>2, <3>2 DEF Unit
      <4>2. AtLeastZero(sub * Unit - off + f * Unit) = f * Unit - e
        BY <4>1, <3>5 DEF AtLeastZero, Unit
      <4>3. Stored(f * Unit - e) = f
        <5> DEFINE s == Stored(f * Unit - e)
        <5>1. /\ s \in Int
              /\ s * Unit <= f * Unit - e + 5000
              /\ f * Unit - e + 5000 < s * Unit + Unit
          BY <4>1, StoredBounds DEF Unit
        <5> HIDE DEF s
        <5>2. s = f
          BY <4>1, <5>1 DEF Unit
        <5> QED
          BY <5>2 DEF s
      <4> QED
        BY <3>3, <4>2, <4>3
    <3> QED
      BY <3>4, <3>5
  <2> QED
    BY <2>1, <2>2 DEF Unit
<1>5. Stored(base + f * Unit) \in Int
  BY <1>1, StoredBounds DEF Unit
<1> QED
  BY <1>2, <1>3, <1>4, <1>5 DEF keep

\* With off the exact discount, the lines of the receipt are off by a cent at most.
LEMMA ReceiptRounds ==
  ASSUME NEW sub \in Nat, NEW f \in Nat, NEW off \in Nat, Stored(off) <= sub
  PROVE  Stored(AtLeastZero(sub * Unit - off + f * Unit)) - (sub - Stored(off) + f) \in 0..1
<1> DEFINE d == Stored(off)
           x == sub * Unit - off + f * Unit
<1>1. d \in Int /\ d * 10000 <= off + 5000 /\ off + 5000 < d * 10000 + 10000 /\ d <= sub
  BY StoredBounds DEF Unit
<1>2. x = (sub + f) * 10000 - off /\ x \in Int
  BY DEF Unit
<1> HIDE DEF d, x
<1>3. CASE x >= 0
  <2> DEFINE s == Stored(x)
  <2>1. s \in Int /\ s * 10000 <= x + 5000 /\ x + 5000 < s * 10000 + 10000
    BY <1>2, StoredBounds DEF Unit
  <2>2. AtLeastZero(x) = x
    BY <1>2, <1>3 DEF AtLeastZero
  <2> HIDE DEF s
  <2>3. s - (sub - d + f) \in 0..1
    <3>1. (s + d - sub - f) * 10000 <= 10000
      BY <1>1, <1>2, <2>1
    <3>2. 0 < (s + d - sub - f) * 10000 + 10000
      BY <1>1, <1>2, <2>1
    <3>3. s + d - sub - f \in Int /\ s - (sub - d + f) = s + d - sub - f
      BY <1>1, <2>1
    <3> QED
      BY <3>1, <3>2, <3>3
  <2> QED
    BY <2>2, <2>3 DEF s, d, x
<1>4. CASE x < 0
  <2>1. f = 0 /\ d = sub
    BY <1>1, <1>2, <1>4
  <2>2. Stored(AtLeastZero(x)) = 0
    BY <1>4 DEF AtLeastZero, Stored, Unit
  <2> QED
    BY <2>1, <2>2 DEF d, x
<1> QED
  BY <1>2, <1>3, <1>4

-------------------------------------------------------------------------------
\* Every stored row is one that a checkout computed.

FromStore(row) ==
  \E sub \in Nat, f \in Nat, c \in Coupons : row = OrderRow(sub, f, c)

FromMarket(row) == \E sub \in Nat : row = SubOrderRow(sub)

Computed ==
  /\ subtotal \in [Vendors -> Nat] /\ fee \in Nat /\ coupon \in Coupons
  /\ \A v \in Placed : FromStore(orders[v]) \/ FromMarket(orders[v])

LEMMA ComputedInit == Init => Computed
<1> SUFFICES ASSUME Init PROVE Computed
  OBVIOUS
<1>1. subtotal \in [Vendors -> Nat] /\ fee \in Nat /\ coupon \in Coupons
  BY AmountAssumption DEF Init
<1>2. Placed = {}
  BY DEF Init, Placed
<1> QED
  BY <1>1, <1>2 DEF Computed

LEMMA ComputedStep == Computed /\ [Next]_vars => Computed'
<1> SUFFICES ASSUME Computed, [Next]_vars PROVE Computed'
  OBVIOUS
<1>1. ASSUME NEW v \in Vendors, CheckoutStore(v) PROVE Computed'
  <2>1. CASE UNCHANGED orders
    BY <1>1, <2>1 DEF CheckoutStore, Computed, Placed
  <2>2. CASE orders' = [w \in {v} |-> OrderRow(subtotal[v], fee, coupon)]
    <3>1. subtotal[v] \in Nat /\ fee \in Nat /\ coupon \in Coupons
      BY DEF Computed
    <3>2. FromStore(OrderRow(subtotal[v], fee, coupon))
      BY <3>1 DEF FromStore
    <3>3. Placed' = {v} /\ orders'[v] = OrderRow(subtotal[v], fee, coupon)
      BY <2>2 DEF Placed
    <3>4. \A w \in Placed' : FromStore(orders'[w])
      BY <3>2, <3>3
    <3> QED
      BY <1>1, <3>4 DEF CheckoutStore, Computed, FromStore, FromMarket
  <2> QED
    BY <1>1, <2>1, <2>2 DEF CheckoutStore
<1>2. CASE CheckoutMarket
  <2>1. Placed' = Vendors /\ \A v \in Vendors : orders'[v] = SubOrderRow(subtotal[v])
    BY <1>2 DEF CheckoutMarket, Placed
  <2>2. \A v \in Vendors : FromMarket(SubOrderRow(subtotal[v]))
    BY DEF Computed, FromMarket
  <2>3. \A v \in Placed' : FromMarket(orders'[v])
    BY <2>1, <2>2
  <2> QED
    BY <1>2, <2>3 DEF CheckoutMarket, Computed, FromStore, FromMarket
<1>3. CASE Pay
  BY <1>3 DEF Pay, Computed, Placed
<1>4. CASE Settle
  BY <1>4 DEF Settle, Computed, Placed
<1>5. CASE UNCHANGED vars
  BY <1>5 DEF vars, Computed, Placed
<1> QED
  BY <1>1, <1>2, <1>3, <1>4, <1>5 DEF Next

LEMMA StoreSplits ==
  ASSUME NEW sub \in Nat, NEW f \in Nat, NEW c \in Coupons,
         Covered(OrderRow(sub, f, c))
  PROVE  OrderRow(sub, f, c).commission + OrderRow(sub, f, c).payout
           = OrderRow(sub, f, c).total
<1>1. Discount(sub, c) \in Nat
  BY DiscountNat
<1>2. Stored(Discount(sub, c)) <= sub
  BY DEF Covered, OrderRow
<1> QED
  BY <1>1, <1>2, SplitRounds DEF OrderRow

LEMMA MarketSplits ==
  ASSUME NEW sub \in Nat
  PROVE  SubOrderRow(sub).commission + SubOrderRow(sub).payout
           = SubOrderRow(sub).total
<1>1. Commission(sub * Unit) \in Nat
  BY CommissionBounds DEF Unit
<1> QED
  BY <1>1 DEF SubOrderRow

LEMMA ComputedSplits == Computed => SplitIsWhole
<1> SUFFICES ASSUME Computed, NEW v \in Placed, Covered(orders[v])
             PROVE  orders[v].commission + orders[v].payout = orders[v].total
  BY DEF SplitIsWhole
<1>1. CASE FromStore(orders[v])
  BY <1>1, StoreSplits DEF FromStore
<1>2. CASE FromMarket(orders[v])
  BY <1>2, MarketSplits DEF FromMarket
<1> QED
  BY <1>1, <1>2 DEF Computed

\* For all prices, fees, coupons and vendors: commission and payout of every
\* order whose discount its goods cover add up to its total, to the cent.
THEOREM SplitHolds == Spec => []SplitIsWhole
<1>1. Spec => []Computed
  BY ComputedInit, ComputedStep, PTL DEF Spec
<1> QED
  BY <1>1, ComputedSplits, PTL

\* The same for the lines of the receipt.
LEMMA StoreAddsUp ==
  ASSUME NEW sub \in Nat, NEW f \in Nat, NEW c \in Coupons,
         Covered(OrderRow(sub, f, c))
  PROVE  OrderRow(sub, f, c).total
           - (OrderRow(sub, f, c).subtotal - OrderRow(sub, f, c).discount
                + OrderRow(sub, f, c).fee) \in 0..1
<1>1. Discount(sub, c) \in Nat
  BY DiscountNat
<1>2. Stored(Discount(sub, c)) <= sub
  BY DEF OrderRow, Covered
<1> QED
  BY <1>1, <1>2, ReceiptRounds DEF OrderRow

\* A receipt's subtotal, discount and shipping fee differ from its total by one cent
\* at most, whenever the goods cover the discount (checkout_service.py:425-443).
THEOREM ReceiptHolds == Spec => []ReceiptAddsUp
<1>1. Computed => ReceiptAddsUp
  <2> SUFFICES ASSUME Computed, NEW v \in Placed, Covered(orders[v])
               PROVE  orders[v].total
                        - (orders[v].subtotal - orders[v].discount + orders[v].fee)
                          \in 0..1
    BY DEF ReceiptAddsUp
  <2>1. CASE FromStore(orders[v])
    BY <2>1, StoreAddsUp DEF FromStore
  <2>2. CASE FromMarket(orders[v])
    BY <2>2 DEF FromMarket, SubOrderRow
  <2> QED
    BY <2>1, <2>2 DEF Computed
<1> QED
  BY <1>1, ComputedInit, ComputedStep, PTL DEF Spec

-------------------------------------------------------------------------------
(***************************************************************************)
(* Sums over the orders of a cart.  SumFunction is a fold, and what a fold *)
(* computes for every set needs an induction: here by a smallest set for   *)
(* which a claim fails.                                                    *)
(***************************************************************************)

LEMMA LeastSet ==
  ASSUME NEW S, IsFiniteSet(S), NEW B \in SUBSET SUBSET S, B # {}
  PROVE  \E T \in B : \A U \in B : U \subseteq T => U = T
<1>1. IsWellFoundedOn(StrictSubsetOrdering(S), SUBSET S)
  BY FS_StrictSubsetOrderingWellFounded, FS_FiniteSubsetsOfFinite
<1>2. PICK T \in B : \A U \in B : ~(<<U, T>> \in StrictSubsetOrdering(S))
  BY <1>1, WFMin
<1> QED
  BY <1>2 DEF StrictSubsetOrdering

\* The element a fold takes next.
Pick(s) == CHOOSE x \in s : TRUE

\* g adds up the values F over every subset of S.
Sums(F, S, g) ==
  g = [s \in SUBSET S |-> IF s = {} THEN 0 ELSE F[Pick(s)] + g[s \ {Pick(s)}]]

LEMMA OneSum ==
  ASSUME NEW F, NEW S, NEW U \in SUBSET S, IsFiniteSet(S), NEW g, Sums(F, S, g), NEW h, Sums(F, U, h)
  PROVE  g[U] = h[U]
<1> DEFINE B == {r \in SUBSET U : g[r] # h[r]}
<1>1. \A r \in SUBSET U :
        /\ g[r] = IF r = {} THEN 0 ELSE F[Pick(r)] + g[r \ {Pick(r)}]
        /\ h[r] = IF r = {} THEN 0 ELSE F[Pick(r)] + h[r \ {Pick(r)}]
  BY DEF Sums
<1>2. ASSUME B # {} PROVE FALSE
  <2>1. PICK T \in B : \A r \in B : r \subseteq T => r = T
    <3>1. IsFiniteSet(U) /\ B \in SUBSET SUBSET U
      BY FS_Subset
    <3> HIDE DEF B
    <3> QED
      BY <1>2, <3>1, LeastSet
  <2>2. T # {}
    BY <1>1, <2>1
  <2>3. Pick(T) \in T
    BY <2>2 DEF Pick
  <2>4. g[T \ {Pick(T)}] = h[T \ {Pick(T)}]
    BY <2>1, <2>3
  <2> QED
    BY <1>1, <2>1, <2>2, <2>4
<1> QED
  BY <1>2

LEMMA SumExists ==
  ASSUME NEW F, NEW S, IsFiniteSet(S)
  PROVE  \E g : Sums(F, S, g)
<1> DEFINE B == {T \in SUBSET S : ~\E g : Sums(F, T, g)}
<1> SUFFICES ASSUME B # {} PROVE FALSE
  OBVIOUS
<1>1. PICK T \in B : \A U \in B : U \subseteq T => U = T
  <2>1. B \in SUBSET SUBSET S
    OBVIOUS
  <2> HIDE DEF B
  <2> QED
    BY <2>1, LeastSet
<1>2. \A U \in SUBSET T : U # T => \E g : Sums(F, U, g)
  BY <1>1
<1> DEFINE Of(U) == CHOOSE g : Sums(F, U, g)
           Rest(s) == s \ {Pick(s)}
           g == [s \in SUBSET T |-> IF s = {} THEN 0 ELSE F[Pick(s)] + Of(Rest(s))[Rest(s)]]
<1>3. \A U \in SUBSET T : U # T => Sums(F, U, Of(U))
  BY <1>2
<1>4. \A s \in SUBSET T : s # {} => Rest(s) \in SUBSET T /\ Rest(s) # T /\ Rest(s) # s /\ Pick(s) \in s
  BY DEF Pick
<1>5. \A s \in SUBSET T : s # {} => g[Rest(s)] = Of(Rest(s))[Rest(s)]
  <2> SUFFICES ASSUME NEW s \in SUBSET T, s # {} PROVE g[Rest(s)] = Of(Rest(s))[Rest(s)]
    OBVIOUS
  <2> DEFINE r == Rest(s)
  <2>1. r \in SUBSET T /\ r # T /\ Sums(F, r, Of(r))
    BY <1>3, <1>4
  <2>2. Of(r)[r] = IF r = {} THEN 0 ELSE F[Pick(r)] + Of(r)[Rest(r)]
    BY <2>1 DEF Sums
  <2> HIDE DEF Of, r
  <2>3. ASSUME r # {} PROVE Of(r)[Rest(r)] = Of(Rest(r))[Rest(r)]
    <3>1. Rest(r) \in SUBSET r /\ Rest(r) \in SUBSET T /\ Rest(r) # T
      BY <1>4, <2>1, <2>3
    <3>2. Sums(F, Rest(r), Of(Rest(r))) /\ IsFiniteSet(r)
      BY <1>3, <3>1, <2>1, FS_Subset
    <3> QED
      BY <2>1, <3>1, <3>2, OneSum
  <2> QED
    BY <2>1, <2>2, <2>3 DEF r
<1>6. Sums(F, T, g)
  <2> HIDE DEF Of
  <2> QED
  BY <1>5 DEF Sums
<1> QED
  BY <1>1, <1>6

\* The fold is such a g.
LEMMA SumOfAll ==
  ASSUME NEW F, IsFiniteSet(DOMAIN F)
  PROVE  \E g : Sums(F, DOMAIN F, g) /\ SumFunction(F) = g[DOMAIN F]
<1> DEFINE S == DOMAIN F
           Adding(it) == it = [s \in SUBSET S |->
                                 IF s = {} THEN 0
                                 ELSE LET x == CHOOSE x \in s : TRUE
                                      IN  F[x] + it[s \ {x}]]
           iter == CHOOSE it : Adding(it)
<1>1. \A g : Sums(F, S, g) <=> Adding(g)
  BY DEF Sums, Pick
<1>2. SumFunction(F) = iter[S]
  BY DEF SumFunction, SumFunctionOnSet, FoldFunctionOnSet, MapThenFoldSet
<1> HIDE DEF Adding
<1>3. Sums(F, S, iter)
  BY <1>1, SumExists
<1> QED
  BY <1>2, <1>3

LEMMA SumNat ==
  ASSUME NEW S, IsFiniteSet(S), NEW F \in [S -> Nat]
  PROVE  SumFunction(F) \in Nat
<1>1. PICK g : Sums(F, S, g) /\ SumFunction(F) = g[S]
  BY SumOfAll
<1> DEFINE B == {s \in SUBSET S : g[s] \notin Nat}
<1>2. \A s \in SUBSET S : g[s] = IF s = {} THEN 0 ELSE F[Pick(s)] + g[s \ {Pick(s)}]
  BY <1>1 DEF Sums
<1>3. ASSUME B # {} PROVE FALSE
  <2>1. PICK T \in B : \A U \in B : U \subseteq T => U = T
    <3>1. B \in SUBSET SUBSET S
      OBVIOUS
    <3> HIDE DEF B
    <3> QED
      BY <1>3, <3>1, LeastSet
  <2>2. T # {} /\ Pick(T) \in T
    <3>1. g[{}] = 0
      <4>1. {} \in SUBSET S
        OBVIOUS
      <4> QED
        BY <1>2, <4>1
    <3>2. g[T] \notin Nat
      BY <2>1
    <3>3. T # {}
      BY <3>1, <3>2
    <3> QED
      BY <3>3 DEF Pick
  <2>3. g[T \ {Pick(T)}] \in Nat
    BY <2>1, <2>2
  <2> QED
    BY <1>2, <2>1, <2>2, <2>3
<1> QED
  BY <1>1, <1>3

LEMMA SumSplits ==
  ASSUME NEW S, IsFiniteSet(S), NEW F \in [S -> Nat], NEW G \in [S -> Nat],
         NEW H \in [S -> Nat], \A x \in S : F[x] = G[x] + H[x]
  PROVE  SumFunction(F) = SumFunction(G) + SumFunction(H)
<1>1. PICK f : Sums(F, S, f) /\ SumFunction(F) = f[S]
  BY SumOfAll
<1>2. PICK g : Sums(G, S, g) /\ SumFunction(G) = g[S]
  BY SumOfAll
<1>3. PICK h : Sums(H, S, h) /\ SumFunction(H) = h[S]
  BY SumOfAll
<1> DEFINE Adds(s) == f[s] \in Int /\ g[s] \in Int /\ h[s] \in Int /\ f[s] = g[s] + h[s]
           B == {s \in SUBSET S : ~Adds(s)}
<1>4. \A s \in SUBSET S :
        /\ f[s] = IF s = {} THEN 0 ELSE F[Pick(s)] + f[s \ {Pick(s)}]
        /\ g[s] = IF s = {} THEN 0 ELSE G[Pick(s)] + g[s \ {Pick(s)}]
        /\ h[s] = IF s = {} THEN 0 ELSE H[Pick(s)] + h[s \ {Pick(s)}]
  BY <1>1, <1>2, <1>3 DEF Sums
<1>5. ASSUME B # {} PROVE FALSE
  <2>1. PICK T \in B : \A U \in B : U \subseteq T => U = T
    <3>1. B \in SUBSET SUBSET S
      OBVIOUS
    <3> HIDE DEF B
    <3> QED
      BY <1>5, <3>1, LeastSet
  <2>2. T # {} /\ Pick(T) \in T
    <3>1. f[{}] = 0 /\ g[{}] = 0 /\ h[{}] = 0
      <4>1. {} \in SUBSET S
        OBVIOUS
      <4> QED
        BY <1>4, <4>1
    <3>2. ~Adds(T) /\ Adds({})
      BY <2>1, <3>1
    <3>3. T # {}
      <4> HIDE DEF Adds
      <4> QED
        BY <3>2
    <3> QED
      BY <3>3 DEF Pick
  <2>3. Adds(T \ {Pick(T)})
    BY <2>1, <2>2
  <2>4. Adds(T)
    <3> DEFINE x == Pick(T)
    <3>1. /\ f[T] = F[x] + f[T \ {x}] /\ g[T] = G[x] + g[T \ {x}]
          /\ h[T] = H[x] + h[T \ {x}]
      BY <1>4, <2>1, <2>2
    <3>2. F[x] \in Nat /\ G[x] \in Nat /\ H[x] \in Nat /\ F[x] = G[x] + H[x]
      BY <2>1, <2>2
    <3> QED
      BY <2>3, <3>1, <3>2
  <2> QED
    BY <2>1, <2>4
<1> QED
  BY <1>1, <1>2, <1>3, <1>5

-------------------------------------------------------------------------------
\* Every column is a whole, non-negative number of cents.
LEMMA StoreRow ==
  ASSUME NEW sub \in Nat, NEW f \in Nat, NEW c \in Coupons
  PROVE  OrderRow(sub, f, c) \in Row
<1> DEFINE off == Discount(sub, c)
           base == AtLeastZero(sub * Unit - off)
           keep == Commission(base)
<1>1. off \in Nat
  BY DiscountNat
<1>2. base \in Nat /\ AtLeastZero(sub * Unit - off + f * Unit) \in Nat
  BY <1>1 DEF AtLeastZero, Unit
<1>3. keep \in Nat /\ keep * Unit <= base
  BY <1>2, CommissionBounds
<1> HIDE DEF off, base, keep
<1>4. base - keep * Unit + f * Unit \in Nat
  BY <1>2, <1>3 DEF Unit
<1>5. /\ Stored(off) \in Nat /\ Stored(AtLeastZero(sub * Unit - off + f * Unit)) \in Nat
      /\ Stored(base - keep * Unit + f * Unit) \in Nat
  BY <1>1, <1>2, <1>4, StoredNat
<1> QED
  BY <1>3, <1>5 DEF OrderRow, Row, off, base, keep

LEMMA MarketRow == ASSUME NEW sub \in Nat PROVE SubOrderRow(sub) \in Row
<1>1. Commission(sub * Unit) \in Nat /\ Commission(sub * Unit) * Unit <= sub * Unit
  BY CommissionBounds DEF Unit
<1>2. sub - Commission(sub * Unit) \in Nat
  BY <1>1 DEF Unit
<1> QED
  BY <1>1, <1>2 DEF SubOrderRow, Row

\* What is charged and transferred is what the rows say.
Billed ==
  /\ step \in {"cart", "rejected"} => Placed = {}
  /\ step \in {"charged", "settled"} => charge = Total(orders)
  /\ IF step = "settled" THEN transfer = [v \in Placed |-> Owed(orders[v])]
                         ELSE DOMAIN transfer = {}

LEMMA TotalNat ==
  ASSUME NEW S \in SUBSET Vendors, NEW rows \in [S -> Row]
  PROVE  Total(rows) \in Nat
<1> DEFINE F == [v \in S |-> rows[v].total]
<1>1. F \in [S -> Nat] /\ IsFiniteSet(S)
  BY FS_Subset, AmountAssumption DEF Row, AmountAssumption
<1>2. Total(rows) = SumFunction(F)
  BY DEF Total
<1> HIDE DEF F
<1> QED
  BY <1>1, <1>2, SumNat

LEMMA OwedNat == ASSUME NEW row \in Row PROVE Owed(row) \in Nat
  BY DEF Owed, AtLeastZero, Row

LEMMA BilledInit == Init => TypeOK /\ Billed
  BY DEF Init, TypeOK, Billed, Placed

LEMMA BilledStep == TypeOK /\ Billed /\ [Next]_vars => TypeOK' /\ Billed'
<1> SUFFICES ASSUME TypeOK, Billed, [Next]_vars PROVE TypeOK' /\ Billed'
  OBVIOUS
<1>0. /\ subtotal \in [Vendors -> Nat] /\ fee \in Nat
      /\ orders \in [Placed -> Row] /\ Placed \subseteq Vendors /\ charge \in Nat
  BY AmountAssumption DEF TypeOK, AmountAssumption
<1>1. ASSUME NEW v \in Vendors, CheckoutStore(v) PROVE TypeOK' /\ Billed'
  <2>1. OrderRow(subtotal[v], fee, coupon) \in Row
    BY <1>0, StoreRow DEF TypeOK
  <2>2. CASE UNCHANGED orders /\ step' = "rejected"
    BY <1>1, <2>2 DEF CheckoutStore, TypeOK, Billed, Placed
  <2>3. CASE /\ orders' = [w \in {v} |-> OrderRow(subtotal[v], fee, coupon)]
             /\ step' = "pending"
    <3>1. Placed' = {v} /\ orders' \in [{v} -> Row]
      BY <2>1, <2>3 DEF Placed
    <3>2. DOMAIN transfer = {} /\ UNCHANGED <<subtotal, fee, coupon, charge, transfer>>
      BY <1>1 DEF CheckoutStore, Billed
    <3> QED
      BY <2>3, <3>1, <3>2 DEF TypeOK, Billed
  <2> QED
    BY <1>1, <2>2, <2>3 DEF CheckoutStore
<1>2. CASE CheckoutMarket
  <2>1. /\ step' = "pending" /\ orders' = [v \in Vendors |-> SubOrderRow(subtotal[v])]
        /\ DOMAIN transfer = {} /\ UNCHANGED <<subtotal, fee, coupon, charge, transfer>>
    BY <1>2 DEF CheckoutMarket, Billed
  <2>2. \A v \in Vendors : SubOrderRow(subtotal[v]) \in Row
    BY <1>0, MarketRow
  <2>3. Placed' = Vendors /\ orders' \in [Vendors -> Row]
    BY <2>1, <2>2 DEF Placed
  <2> QED
    BY <2>1, <2>3 DEF TypeOK, Billed
<1>3. CASE Pay
  BY <1>0, <1>3, TotalNat DEF Pay, TypeOK, Billed, Placed
<1>4. CASE Settle
  <2>1. \A v \in Placed : Owed(orders[v]) \in Nat
    BY <1>0, OwedNat
  <2> QED
    BY <1>4, <2>1 DEF Settle, TypeOK, Billed, Placed
<1>5. CASE UNCHANGED vars
  BY <1>5 DEF vars, TypeOK, Billed, Placed
<1> QED
  BY <1>1, <1>2, <1>3, <1>4, <1>5 DEF Next

\* Every amount on its way from the cart to the transfer is a whole number of cents
\* that is not negative.
THEOREM AmountsAreCents == Spec => []TypeOK
  BY BilledInit, BilledStep, PTL DEF Spec

\* Once settled, the platform is left with its commission on every order behind the
\* charge, to the cent (order_service.py:482-508).
THEOREM CommissionIsKept == Spec => []PlatformKeepsCommission
<1>1. TypeOK /\ Billed /\ SplitIsWhole => PlatformKeepsCommission
  <2> SUFFICES ASSUME TypeOK, Billed, SplitIsWhole, step = "settled",
                      \A v \in Placed : Covered(orders[v])
               PROVE  charge - SumFunction(transfer)
                        = SumFunction([v \in Placed |-> orders[v].commission])
    BY DEF PlatformKeepsCommission
  <2> DEFINE F == [v \in Placed |-> orders[v].total]
             G == [v \in Placed |-> orders[v].commission]
  <2>1. IsFiniteSet(Placed) /\ orders \in [Placed -> Row]
    BY AmountAssumption, FS_Subset DEF AmountAssumption, TypeOK
  <2>2. F \in [Placed -> Nat] /\ G \in [Placed -> Nat]
    BY <2>1 DEF Row
  <2>3. transfer \in [Placed -> Nat] /\ \A v \in Placed : transfer[v] = Owed(orders[v])
    BY <2>1, OwedNat DEF Billed
  <2>4. ASSUME NEW v \in Placed PROVE F[v] = G[v] + transfer[v]
    <3>1. orders[v] \in Row /\ orders[v].commission + orders[v].payout = orders[v].total
      BY <2>1 DEF SplitIsWhole
    <3>2. Owed(orders[v]) = orders[v].payout
      BY <3>1 DEF Owed, AtLeastZero, Row
    <3> QED
      BY <2>3, <3>1, <3>2
  <2>5. charge = SumFunction(F)
    BY DEF Billed, Total, Placed
  <2> HIDE DEF F, G
  <2>6. SumFunction(F) = SumFunction(G) + SumFunction(transfer)
    BY <2>1, <2>2, <2>3, <2>4, SumSplits
  <2>7. SumFunction(G) \in Nat /\ SumFunction(transfer) \in Nat
    BY <2>1, <2>2, <2>3, SumNat
  <2>8. charge - SumFunction(transfer) = SumFunction(G)
    BY <2>5, <2>6, <2>7
  <2> QED
    BY <2>8 DEF G
<1>2. Spec => [](TypeOK /\ Billed)
  BY BilledInit, BilledStep, PTL DEF Spec
<1> QED
  BY <1>1, <1>2, SplitHolds, PTL
===============================================================================
