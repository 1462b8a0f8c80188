------------------------------- MODULE Checkout -------------------------------
(***************************************************************************)
(* checkout_service (server/app/services/checkout_service.py) run by       *)
(* several requests of one store at once.                                  *)
(*                                                                         *)
(* A request reads its cart, the cart's variants and their stock in one    *)
(* database transaction, THEN takes one Redis lock per variant in          *)
(* ascending order of id, and then checks and deducts the stock.  Two      *)
(* things make the stock it deducts from the one it read before locking:   *)
(* SQLAlchemy's identity map returns the instances loaded with the cart    *)
(* unchanged, and InnoDB's REPEATABLE READ answers a SELECT of a row not   *)
(* loaded yet from the read view of the transaction's first SELECT.  Hence *)
(* snap, taken by Begin and used by PlaceOrder.  The flush writes the      *)
(* computed numbers and not "stock - n": a newer committed value is        *)
(* overwritten.                                                            *)
(*                                                                         *)
(* The process that runs a request may die at any point (its transaction   *)
(* is rolled back, its locks stay until their TTL), Redis may drop a lock  *)
(* whose TTL ran out under a request that is still working, and any call   *)
(* may raise.                                                              *)
(***************************************************************************)
EXTENDS Integers

CONSTANTS
  Requests,      \* the checkout requests, each made once
  Carts,         \* the carts of the store; two requests may name the same one
  Variants,      \* ids of product_variants, the order in which locks are taken
  Tracked,       \* the variants whose product is not digital (tracks_inventory)
  Demand,        \* Demand[c]: consolidated_locks of cart c, variant id -> units
  InitialStock,  \* stock_quantity of each variant before any checkout
  UsageLimit,    \* usage_limit of the store's one coupon; 0 is "no limit"
  Nobody         \* the value of a lock key that does not exist

ASSUME VariantAssumption ==
  /\ Variants \subseteq Nat
  /\ Tracked \subseteq Variants
  /\ InitialStock \in [Variants -> Nat]

ASSUME DemandAssumption ==
  \A c \in Carts : /\ DOMAIN Demand[c] \subseteq Variants
                   /\ Demand[c] \in [DOMAIN Demand[c] -> Nat \ {0}]

ASSUME LimitAssumption == UsageLimit \in Nat

ASSUME NobodyAssumption == Nobody \notin Requests

VARIABLES
  stock,       \* committed product_variants.stock_quantity
  usedCount,   \* committed coupons.used_count
  carts,       \* the carts whose row exists
  lockOwner,   \* Redis: who holds "lock:tenant:T:variant:v"
  pc,          \* where each request is
  cart,        \* the cart each request names
  coupon,      \* does the request carry a coupon code?
  snap,        \* what the request's open transaction read at its start
  granted,     \* the lock keys Redis gave to the request, ever
  locks,       \* the list `locks`: acquired and not released yet
  outcome,     \* what the client was, or will be, answered
  \* History, read by properties only:
  sold,        \* units of each variant promised by committed orders
  redeemed,    \* committed orders that carry the coupon
  overwritten, \* variants whose newer stock a commit overwrote
  overCoupon,  \* did a commit overwrite a newer used_count?
  lapsed       \* requests that lost a lock to its TTL

store   == <<stock, usedCount, carts>>
history == <<sold, redeemed, overwritten, overCoupon, lapsed>>
vars == <<stock, usedCount, carts, lockOwner, pc, cart, coupon, snap, granted,
          locks, outcome, sold, redeemed, overwritten, overCoupon, lapsed>>

Snapshots == [stock : [Variants -> Nat], used : Nat]

Outcomes == {"none", "placed", "empty", "rejected", "conflict", "nostock",
             "badcoupon", "error"}

TypeOK ==
  /\ stock \in [Variants -> Nat]
  /\ usedCount \in Nat
  /\ carts \subseteq Carts
  /\ lockOwner \in [Variants -> Requests \cup {Nobody}]
  /\ pc \in [Requests -> {"idle", "locking", "releasing", "done", "crashed"}]
  /\ cart \in [Requests -> Carts]
  /\ coupon \in [Requests -> BOOLEAN]
  /\ snap \in [Requests -> Snapshots]
  /\ granted \in [Requests -> SUBSET Variants]
  /\ locks \in [Requests -> SUBSET Variants]
  /\ outcome \in [Requests -> Outcomes]
  /\ sold \in [Variants -> Nat]
  /\ redeemed \in Nat
  /\ overwritten \subseteq Variants
  /\ overCoupon \in BOOLEAN
  /\ lapsed \subseteq Requests

-------------------------------------------------------------------------------
\* State formulae

ToLock(r) == DOMAIN Demand[cart[r]]

Wanted(r) == ToLock(r) \ locks[r]

\* The variants whose stock the order deducts: a bundle may hold a digital
\* component, which is locked but never deducted.
Deducted(r) == ToLock(r) \cap Tracked

\* The value of snap while the request has no transaction open.
NoSnapshot == [stock |-> InitialStock, used |-> 0]

\* All locks are held: the code between the lock loop and the finally clause.
InCritical(r) == pc[r] = "locking" /\ Wanted(r) = {}

\* Mutant: one unit too many may be sold.
EnoughStockButOne(r) ==
  \A v \in Deducted(r) : Demand[cart[r]][v] <= snap[r].stock[v] + 1

EnoughStock(r) ==
  \A v \in Deducted(r) : Demand[cart[r]][v] <= snap[r].stock[v]

\* Mutant: the limit itself is let through.
CouponUsableOnceMore(r) == UsageLimit = 0 \/ snap[r].used <= UsageLimit

\* validate_coupon_service, as far as it depends on used_count.
CouponUsable(r) == UsageLimit = 0 \/ snap[r].used < UsageLimit

-------------------------------------------------------------------------------
Init ==
  /\ stock = InitialStock
  /\ usedCount = 0
  /\ carts = Carts
  /\ lockOwner = [v \in Variants |-> Nobody]
  /\ pc = [r \in Requests |-> "idle"]
  /\ cart \in [Requests -> Carts]
  /\ coupon \in [Requests -> BOOLEAN]
  /\ snap = [r \in Requests |-> NoSnapshot]
  /\ granted = [r \in Requests |-> {}]
  /\ locks = [r \in Requests |-> {}]
  /\ outcome = [r \in Requests |-> "none"]
  /\ sold = [v \in Variants |-> 0]
  /\ redeemed = 0
  /\ overwritten = {}
  /\ overCoupon = FALSE
  /\ lapsed = {}

\* The answer is decided and the transaction committed or rolled back: the
\* finally clause runs next.
Leave(r, answer) ==
  /\ pc' = [pc EXCEPT ![r] = "releasing"]
  /\ snap' = [snap EXCEPT ![r] = NoSnapshot]
  /\ outcome' = [outcome EXCEPT ![r] = answer]

\* The cart, its items and their variants are loaded: the read view of the
\* transaction is made here.
Begin(r) ==
  /\ pc[r] = "idle"
  /\ IF cart[r] \in carts
     THEN /\ pc' = [pc EXCEPT ![r] = "locking"]
          /\ snap' = [snap EXCEPT ![r] = [stock |-> stock, used |-> usedCount]]
          /\ UNCHANGED outcome
     ELSE /\ pc' = [pc EXCEPT ![r] = "done"]
          /\ outcome' = [outcome EXCEPT ![r] = "empty"]
          /\ UNCHANGED snap
  /\ UNCHANGED <<store, lockOwner, cart, coupon, granted, locks, history>>

\* Not the caller's cart, or no shipping address for physical goods: refused
\* before any lock is taken.
Reject(r) ==
  /\ pc[r] = "locking"
  /\ granted[r] = {}
  /\ pc' = [pc EXCEPT ![r] = "done"]
  /\ outcome' = [outcome EXCEPT ![r] = "rejected"]
  /\ snap' = [snap EXCEPT ![r] = NoSnapshot]
  /\ UNCHANGED <<store, lockOwner, cart, coupon, granted, locks, history>>

\* Mutant: the variants are locked in the order of the cart.
IsSomeLock(r, v) == v \in Wanted(r)

\* v is the next key of consolidated_locks, which was sorted by id.
IsNextLock(r, v) == v \in Wanted(r) /\ \A u \in Wanted(r) : v <= u

\* Mutants: the 409 leaves without passing the finally clause; SET without NX.
AcquireLockNoFinally(r, v) ==
  /\ pc[r] = "locking"
  /\ IsNextLock(r, v)
  /\ IF lockOwner[v] = Nobody
     THEN /\ lockOwner' = [lockOwner EXCEPT ![v] = r]
          /\ granted' = [granted EXCEPT ![r] = @ \cup {v}]
          /\ locks' = [locks EXCEPT ![r] = @ \cup {v}]
          /\ UNCHANGED <<pc, snap, outcome>>
     ELSE /\ pc' = [pc EXCEPT ![r] = "done"]
          /\ outcome' = [outcome EXCEPT ![r] = "conflict"]
          /\ UNCHANGED <<lockOwner, granted, locks, snap>>
  /\ UNCHANGED <<store, cart, coupon, history>>

AcquireLockPlainSet(r, v) ==
  /\ pc[r] = "locking"
  /\ IsNextLock(r, v)
  /\ lockOwner' = [lockOwner EXCEPT ![v] = r]
  /\ granted' = [granted EXCEPT ![r] = @ \cup {v}]
  /\ locks' = [locks EXCEPT ![r] = @ \cup {v}]
  /\ UNCHANGED <<store, pc, cart, coupon, snap, outcome, history>>

\* One turn of the lock loop: SET NX PX 10000 succeeds, or the request leaves
\* with 409.
AcquireLock(r, v) ==
  /\ pc[r] = "locking"
  /\ IsNextLock(r, v)
  /\ IF lockOwner[v] = Nobody
     THEN /\ lockOwner' = [lockOwner EXCEPT ![v] = r]
          /\ granted' = [granted EXCEPT ![r] = @ \cup {v}]
          /\ locks' = [locks EXCEPT ![r] = @ \cup {v}]
          /\ UNCHANGED <<pc, snap, outcome>>
     ELSE /\ Leave(r, "conflict")
          /\ UNCHANGED <<lockOwner, granted, locks>>
  /\ UNCHANGED <<store, cart, coupon, history>>

\* Redis takes the key but the reply is lost: acquire raises before the lock
\* is appended to the list, so nobody will release it.
AcquireReplyLost(r, v) ==
  /\ pc[r] = "locking"
  /\ IsNextLock(r, v)
  /\ lockOwner[v] = Nobody
  /\ lockOwner' = [lockOwner EXCEPT ![v] = r]
  /\ granted' = [granted EXCEPT ![r] = @ \cup {v}]
  /\ Leave(r, "error")
  /\ UNCHANGED <<store, cart, coupon, locks, history>>

\* Mutant: the cart outlives its order.
CommitKeepsCart(r) ==
  /\ stock' = [v \in Variants |->
                 IF v \in Deducted(r)
                 THEN snap[r].stock[v] - Demand[cart[r]][v] ELSE stock[v]]
  /\ usedCount' = IF coupon[r] THEN snap[r].used + 1 ELSE usedCount
  /\ sold' = [v \in Variants |->
                IF v \in Deducted(r)
                THEN sold[v] + Demand[cart[r]][v] ELSE sold[v]]
  /\ redeemed' = IF coupon[r] THEN redeemed + 1 ELSE redeemed
  /\ overwritten' = overwritten \cup
                      {v \in Deducted(r) : stock[v] # snap[r].stock[v]}
  /\ overCoupon' = (overCoupon \/ (coupon[r] /\ usedCount # snap[r].used))
  /\ UNCHANGED <<carts, lapsed>>

\* Stock and coupon are fine by the snapshot: the order is inserted, the stock
\* and used_count written, the cart deleted, all in one commit.
Commit(r) ==
  /\ stock' = [v \in Variants |->
                 IF v \in Deducted(r)
                 THEN snap[r].stock[v] - Demand[cart[r]][v] ELSE stock[v]]
  /\ usedCount' = IF coupon[r] THEN snap[r].used + 1 ELSE usedCount
  /\ carts' = carts \ {cart[r]}
  /\ sold' = [v \in Variants |->
                IF v \in Deducted(r)
                THEN sold[v] + Demand[cart[r]][v] ELSE sold[v]]
  /\ redeemed' = IF coupon[r] THEN redeemed + 1 ELSE redeemed
  /\ overwritten' = overwritten \cup
                      {v \in Deducted(r) : stock[v] # snap[r].stock[v]}
  /\ overCoupon' = (overCoupon \/ (coupon[r] /\ usedCount # snap[r].used))
  /\ UNCHANGED lapsed

PlaceOrder(r) ==
  /\ InCritical(r)
  /\ \/ /\ EnoughStock(r)
        /\ coupon[r] => CouponUsable(r)
        /\ Commit(r)
        /\ Leave(r, "placed")
     \/ /\ ~EnoughStock(r)
        /\ Leave(r, "nostock")
        /\ UNCHANGED <<store, history>>
     \/ /\ EnoughStock(r)
        /\ coupon[r]
        /\ ~CouponUsable(r)
        /\ Leave(r, "badcoupon")
        /\ UNCHANGED <<store, history>>
  /\ UNCHANGED <<lockOwner, cart, coupon, granted, locks>>

\* Mutant: the stock is committed before the order is inserted.
FailHalfway(r) ==
  /\ InCritical(r)
  /\ EnoughStock(r)
  /\ stock' = [v \in Variants |->
                 IF v \in Deducted(r)
                 THEN snap[r].stock[v] - Demand[cart[r]][v] ELSE stock[v]]
  /\ overwritten' = overwritten \cup
                      {v \in Deducted(r) : stock[v] # snap[r].stock[v]}
  /\ Leave(r, "error")
  /\ UNCHANGED <<usedCount, carts, lockOwner, cart, coupon, granted, locks, sold,
                 redeemed, overCoupon, lapsed>>

\* A database or Redis call raises before the commit, or the coupon is refused
\* on other grounds (unknown, disabled, expired, below its minimum): rollback.
Fail(r) ==
  /\ pc[r] = "locking"
  /\ Leave(r, "error")
  /\ UNCHANGED <<store, lockOwner, cart, coupon, granted, locks, history>>

\* Mutants: the key is deleted whatever its token; the error of a lost lock is
\* not swallowed, and the worker hangs on it.
ReleaseAnyLock(r, v) ==
  /\ pc[r] = "releasing"
  /\ v \in locks[r] /\ \A u \in locks[r] : v <= u
  /\ locks' = [locks EXCEPT ![r] = @ \ {v}]
  /\ lockOwner' = [lockOwner EXCEPT ![v] = Nobody]
  /\ UNCHANGED <<store, pc, cart, coupon, snap, granted, outcome, history>>

ReleaseOwnLock(r, v) ==
  /\ pc[r] = "releasing"
  /\ v \in locks[r] /\ \A u \in locks[r] : v <= u
  /\ lockOwner[v] = r
  /\ locks' = [locks EXCEPT ![r] = @ \ {v}]
  /\ lockOwner' = [lockOwner EXCEPT ![v] = Nobody]
  /\ UNCHANGED <<store, pc, cart, coupon, snap, granted, outcome, history>>

\* The finally clause, one lock at a time in the order of the list.  Redis
\* deletes the key only if it still carries this holder's token; a release
\* that finds another token raises, and the exception is swallowed.
ReleaseLock(r, v) ==
  /\ pc[r] = "releasing"
  /\ v \in locks[r] /\ \A u \in locks[r] : v <= u
  /\ locks' = [locks EXCEPT ![r] = @ \ {v}]
  /\ lockOwner' = IF lockOwner[v] = r
                  THEN [lockOwner EXCEPT ![v] = Nobody] ELSE lockOwner
  /\ UNCHANGED <<store, pc, cart, coupon, snap, granted, outcome, history>>

Answer(r) ==
  /\ pc[r] = "releasing"
  /\ locks[r] = {}
  /\ pc' = [pc EXCEPT ![r] = "done"]
  /\ UNCHANGED <<store, lockOwner, cart, coupon, snap, granted, locks, outcome,
                 history>>

\* The worker process dies and its memory with it; an open transaction is
\* rolled back, the keys in Redis stay.
Crash(r) ==
  /\ pc[r] \in {"locking", "releasing"}
  /\ pc' = [pc EXCEPT ![r] = "crashed"]
  /\ snap' = [snap EXCEPT ![r] = NoSnapshot]
  /\ locks' = [locks EXCEPT ![r] = {}]
  /\ UNCHANGED <<store, lockOwner, cart, coupon, granted, outcome, history>>

\* The ten seconds of a key are over, whatever its holder is doing.
Expire(v) ==
  /\ lockOwner[v] # Nobody
  /\ lapsed' = lapsed \cup {lockOwner[v]}
  /\ lockOwner' = [lockOwner EXCEPT ![v] = Nobody]
  /\ UNCHANGED <<store, pc, cart, coupon, snap, granted, locks, outcome, sold,
                 redeemed, overwritten, overCoupon>>

\* What the server does for a request once it is accepted.
Serve(r) ==
  \/ PlaceOrder(r)
  \/ Answer(r)
  \/ \E v \in Variants : AcquireLock(r, v) \/ ReleaseLock(r, v)

Next ==
  \/ \E r \in Requests : Begin(r) \/ Reject(r) \/ Serve(r) \/ Fail(r) \/ Crash(r)
  \/ \E r \in Requests, v \in Variants : AcquireReplyLost(r, v)
  \/ \E v \in Variants : Expire(v)

Spec == Init /\ [][Next]_vars

\* The event loop keeps running an accepted request; Redis drops old keys.
Fairness ==
  /\ \A r \in Requests : WF_vars(Serve(r))
  /\ \A v \in Variants : WF_vars(Expire(v))

FairSpec == Spec /\ Fairness

-------------------------------------------------------------------------------
\* Properties

\* What the locks do give.  Two requests that are both past the lock loop, and
\* neither of which lost a lock to its TTL, share no variant: the section that
\* checks and deducts stock (checkout_service.py:382-480) is exclusive.
MutualExclusion ==
  \A r, q \in Requests :
    /\ r # q
    /\ InCritical(r) /\ InCritical(q)
    /\ {r, q} \cap lapsed = {}
    => ToLock(r) \cap ToLock(q) = {}

\* Sorting the variants by id (checkout_service.py:363-364) is what makes the
\* non-blocking locks live: whoever is refused with 409 at variant v, some
\* request that is NOT refused with 409 was given v or a higher lock, so
\* contending requests cannot all turn each other away.
RefusedAt(r, v) ==
  outcome[r] = "conflict" /\ v \in ToLock(r) \ granted[r]
    /\ \A u \in ToLock(r) \ granted[r] : v <= u

RefusalHasWinner ==
  \A r \in Requests, v \in Variants :
    RefusedAt(r, v) =>
      \E q \in Requests : /\ outcome[q] # "conflict"
                          /\ \E m \in granted[q] : m >= v

\* Every unit is accounted for -- left in stock or promised by an order, and so
\* never oversold -- unless a commit wrote over a stock newer than the one it
\* had read.  The stale read is the ONLY way checkouts lose units: TTLs that
\* run out, crashes, failures and refusals at any point do not.
UnitsAccountedFor ==
  \A v \in Variants \ overwritten : stock[v] + sold[v] = InitialStock[v]

\* used_count never passes usage_limit, and counts every redemption unless a
\* commit wrote over a newer used_count.
CouponCounted ==
  /\ UsageLimit # 0 => usedCount <= UsageLimit
  /\ ~overCoupon => usedCount = redeemed

\* A cart submitted twice (double click, retry) may become two orders, as the
\* second request can have read the cart before the first deleted it; for a
\* cart of physical goods that always leaves an overwritten stock behind.
DoubleOrderOverwrites ==
  \A r, q \in Requests :
    r # q /\ cart[r] = cart[q] /\ outcome[r] = "placed" /\ outcome[q] = "placed"
      => Deducted(r) \subseteq overwritten

\* The finally clause gives back every lock on every path out, 409 included: a
\* request that was answered holds none, except the one whose grant it was
\* never told about.
NoLockLeftBehind ==
  \A r \in Requests, v \in Variants :
    pc[r] = "done" /\ lockOwner[v] = r => outcome[r] = "error"

\* Every accepted request is answered, unless its process dies.
EveryRequestAnswered ==
  \A r \in Requests : pc[r] = "locking" ~> pc[r] \in {"done", "crashed"}

\* The lock keys behave as leases: granted only when free, given up by their
\* holder or their TTL and by nobody else, and never held for ever.
Leases == INSTANCE VariantLocks WITH Clients <- Requests
LocksAreLeases == Leases!LocksSpec

\* README.md:12, cart_router.py:193, main.py:42: the locks "prevent
\* overselling".
NoOversell == \A v \in Variants : sold[v] <= InitialStock[v]
===============================================================================
