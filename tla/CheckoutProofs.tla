---------------------------- MODULE CheckoutProofs ----------------------------
(***************************************************************************)
(* Theorems about Checkout, for every set of requests, carts and variants, *)
(* every stock and every coupon limit.                                     *)
(***************************************************************************)
EXTENDS Checkout, TLAPS

\* The keys a request wants to lock are variants, and their demand a number.
LEMMA DemandFacts ==
  ASSUME TypeOK, NEW r \in Requests
  PROVE  /\ ToLock(r) \subseteq Variants
         /\ Deducted(r) \subseteq ToLock(r)
         /\ \A v \in ToLock(r) : Demand[cart[r]][v] \in Nat \ {0}
<1>1. cart[r] \in Carts
  BY DEF TypeOK
<1> DEFINE D == Demand[cart[r]]
<1>2. DOMAIN D \subseteq Variants /\ D \in [DOMAIN D -> Nat \ {0}]
  BY <1>1, DemandAssumption DEF DemandAssumption
<1> HIDE DEF D
<1>3. \A v \in DOMAIN D : D[v] \in Nat \ {0}
  BY <1>2
<1> QED
  BY <1>2, <1>3 DEF D, ToLock, Deducted

LEMMA SnapshotFacts ==
  /\ NoSnapshot \in Snapshots
  /\ TypeOK => [stock |-> stock, used |-> usedCount] \in Snapshots
  BY VariantAssumption DEF VariantAssumption, NoSnapshot, Snapshots, TypeOK

LEMMA TypeInit == Init => TypeOK
<1> SUFFICES ASSUME Init PROVE TypeOK
  OBVIOUS
<1>1. snap \in [Requests -> Snapshots]
  BY SnapshotFacts DEF Init
<1> QED
  BY <1>1, VariantAssumption DEF VariantAssumption, Init, TypeOK, Outcomes

\* A commit leaves numbers behind: the units it takes were in its snapshot.
LEMMA TypeCommit ==
  ASSUME TypeOK, NEW r \in Requests, EnoughStock(r), Commit(r)
  PROVE  /\ stock' \in [Variants -> Nat]
         /\ usedCount' \in Nat
         /\ carts' \subseteq Carts
         /\ sold' \in [Variants -> Nat]
         /\ redeemed' \in Nat
         /\ overwritten' \subseteq Variants
         /\ overCoupon' \in BOOLEAN
         /\ lapsed' \subseteq Requests
<1>1. \A v \in Deducted(r) : /\ snap[r].stock[v] \in Nat
                             /\ Demand[cart[r]][v] \in Nat
                             /\ snap[r].stock[v] - Demand[cart[r]][v] \in Nat
                             /\ sold[v] + Demand[cart[r]][v] \in Nat
  BY DemandFacts DEF EnoughStock, TypeOK, Snapshots
<1>2. snap[r].used + 1 \in Nat
  BY DEF TypeOK, Snapshots
<1> QED
  BY <1>1, <1>2, DemandFacts DEF Commit, TypeOK

LEMMA TypeNext == TypeOK /\ [Next]_vars => TypeOK'
<1> SUFFICES ASSUME TypeOK, [Next]_vars PROVE TypeOK'
  OBVIOUS
<1> USE SnapshotFacts
<1>1. ASSUME NEW r \in Requests, Begin(r) PROVE TypeOK'
  BY <1>1 DEF TypeOK, Begin, store, history, Outcomes
<1>2. ASSUME NEW r \in Requests, Reject(r) PROVE TypeOK'
  BY <1>2 DEF TypeOK, Reject, store, history, Outcomes
<1>3. ASSUME NEW r \in Requests, PlaceOrder(r) PROVE TypeOK'
  <2>1. /\ pc' \in [Requests -> {"idle", "locking", "releasing", "done", "crashed"}]
        /\ snap' \in [Requests -> Snapshots]
        /\ outcome' \in [Requests -> Outcomes]
        /\ UNCHANGED <<lockOwner, cart, coupon, granted, locks>>
    BY <1>3 DEF TypeOK, PlaceOrder, Leave, Outcomes
  <2>2. CASE EnoughStock(r) /\ Commit(r)
    BY <2>1, <2>2, TypeCommit DEF TypeOK
  <2>3. CASE UNCHANGED <<store, history>>
    BY <2>1, <2>3 DEF TypeOK, store, history
  <2> QED
    BY <1>3, <2>2, <2>3 DEF PlaceOrder
<1>4. ASSUME NEW r \in Requests, Answer(r) PROVE TypeOK'
  BY <1>4 DEF TypeOK, Answer, store, history
<1>5. ASSUME NEW r \in Requests, NEW v \in Variants, AcquireLock(r, v)
      PROVE TypeOK'
  BY <1>5 DEF TypeOK, AcquireLock, Leave, store, history, Outcomes
<1>6. ASSUME NEW r \in Requests, NEW v \in Variants, ReleaseLock(r, v)
      PROVE TypeOK'
  BY <1>6 DEF TypeOK, ReleaseLock, store, history
<1>7. ASSUME NEW r \in Requests, Fail(r) PROVE TypeOK'
  BY <1>7 DEF TypeOK, Fail, Leave, store, history, Outcomes
<1>8. ASSUME NEW r \in Requests, Crash(r) PROVE TypeOK'
  BY <1>8 DEF TypeOK, Crash, store, history
<1>9. ASSUME NEW r \in Requests, NEW v \in Variants, AcquireReplyLost(r, v)
      PROVE TypeOK'
  BY <1>9 DEF TypeOK, AcquireReplyLost, Leave, store, history, Outcomes
<1>10. ASSUME NEW v \in Variants, Expire(v) PROVE TypeOK'
  BY <1>10 DEF TypeOK, Expire, store
<1>11. CASE UNCHANGED vars
  BY <1>11 DEF TypeOK, vars
<1> QED
  BY <1>1, <1>2, <1>3, <1>4, <1>5, <1>6, <1>7, <1>8, <1>9, <1>10, <1>11
  DEF Next, Serve

\* Every variable keeps its type; in particular no commit ever writes a
\* negative stock (checkout_service.py:396-398).
THEOREM TypeCorrect == Spec => []TypeOK
  BY TypeInit, TypeNext, PTL DEF Spec

-------------------------------------------------------------------------------
(***************************************************************************)
(* The control of a request and its locks.                                 *)
(***************************************************************************)

\* Nothing is held before the lock loop; in it, the list `locks` is all that
\* was granted.
ControlInv ==
  \A r \in Requests :
    /\ pc[r] = "idle" => locks[r] = {} /\ granted[r] = {} /\ outcome[r] = "none"
    /\ pc[r] = "locking" => locks[r] = granted[r] /\ outcome[r] = "none"

\* A lock in the list is still the request's own in Redis, unless it lapsed.
HeldInv ==
  \A r \in Requests : pc[r] = "locking" /\ r \notin lapsed =>
    \A v \in locks[r] : lockOwner[v] = r

\* Redis names a holder only if it gave it the key.
GrantedInv ==
  \A v \in Variants, r \in Requests : lockOwner[v] = r => v \in granted[r]

\* What was granted is an initial segment of what is to be locked.
SortedInv ==
  \A r \in Requests :
    /\ granted[r] \subseteq ToLock(r)
    /\ \A g \in granted[r], w \in ToLock(r) \ granted[r] : g < w

LockInv == ControlInv /\ HeldInv /\ GrantedInv /\ SortedInv

LEMMA LockInit == Init => LockInv
  BY NobodyAssumption
  DEF NobodyAssumption, Init, LockInv, ControlInv, HeldInv, GrantedInv, SortedInv,
      ToLock

LEMMA LockNext == TypeOK /\ LockInv /\ [Next]_vars => LockInv'
<1> SUFFICES ASSUME TypeOK, LockInv, [Next]_vars PROVE LockInv'
  OBVIOUS
<1> USE NobodyAssumption DEF NobodyAssumption
<1>1. ASSUME NEW r \in Requests, Begin(r) PROVE LockInv'
  <2>1. /\ pc[r] = "idle"
        /\ \/ pc' = [pc EXCEPT ![r] = "locking"] /\ UNCHANGED outcome
           \/ /\ pc' = [pc EXCEPT ![r] = "done"]
              /\ outcome' = [outcome EXCEPT ![r] = "empty"]
        /\ UNCHANGED <<lockOwner, cart, granted, locks, lapsed>>
    BY <1>1 DEF Begin, history
  <2>2. GrantedInv' /\ SortedInv'
    BY <2>1 DEF LockInv, GrantedInv, SortedInv, ToLock
  <2>3. locks[r] = {} /\ granted[r] = {} /\ outcome[r] = "none"
    BY <2>1 DEF LockInv, ControlInv
  <2>4. ControlInv' /\ HeldInv'
    BY <2>1, <2>3 DEF TypeOK, LockInv, ControlInv, HeldInv
  <2> QED
    BY <2>2, <2>4 DEF LockInv
<1>2. ASSUME NEW r \in Requests, Reject(r) PROVE LockInv'
  BY <1>2 DEF TypeOK, LockInv, ControlInv, HeldInv, GrantedInv, SortedInv, ToLock,
              Reject, history
<1>3. ASSUME NEW r \in Requests, PlaceOrder(r) PROVE LockInv'
  <2>1. /\ pc' = [pc EXCEPT ![r] = "releasing"]
        /\ \E a \in Outcomes : outcome' = [outcome EXCEPT ![r] = a]
        /\ UNCHANGED <<lockOwner, cart, granted, locks, lapsed>>
    BY <1>3 DEF PlaceOrder, Commit, Leave, history, Outcomes
  <2> QED
    BY <2>1 DEF TypeOK, LockInv, ControlInv, HeldInv, GrantedInv, SortedInv, ToLock
<1>4. ASSUME NEW r \in Requests, Answer(r) PROVE LockInv'
  BY <1>4 DEF TypeOK, LockInv, ControlInv, HeldInv, GrantedInv, SortedInv, ToLock,
              Answer, history
<1>5. ASSUME NEW r \in Requests, NEW v \in Variants, AcquireLock(r, v)
      PROVE LockInv'
  <2>1. /\ v \in ToLock(r) \ granted[r]
        /\ \A u \in ToLock(r) \ granted[r] : v <= u
        /\ v \in Nat /\ ToLock(r) \subseteq Nat
    BY <1>5, DemandFacts, VariantAssumption
    DEF VariantAssumption, AcquireLock, IsNextLock, Wanted, LockInv, ControlInv
  <2>2. CASE lockOwner[v] = Nobody
    <3>1. /\ lockOwner' = [lockOwner EXCEPT ![v] = r]
          /\ granted' = [granted EXCEPT ![r] = @ \cup {v}]
          /\ locks' = [locks EXCEPT ![r] = @ \cup {v}]
          /\ UNCHANGED <<pc, outcome, cart, lapsed>>
          /\ pc[r] = "locking"
      BY <1>5, <2>2 DEF AcquireLock, history
    <3>2. ControlInv'
      BY <3>1 DEF TypeOK, LockInv, ControlInv
    <3>3. HeldInv'
      BY <3>1, <2>2 DEF TypeOK, LockInv, HeldInv
    <3>4. GrantedInv'
      BY <3>1, <2>2 DEF TypeOK, LockInv, GrantedInv
    <3>5. SortedInv'
      <4> SUFFICES ASSUME NEW q \in Requests
                   PROVE  /\ granted'[q] \subseteq ToLock(q)'
                          /\ \A g \in granted'[q], w \in ToLock(q)' \ granted'[q] : g < w
        BY DEF SortedInv
      <4>1. ToLock(q)' = ToLock(q)
        BY <3>1 DEF ToLock
      <4>2. CASE q = r
        <5>1. granted'[q] = granted[r] \cup {v}
          BY <4>2, <3>1 DEF TypeOK
        <5>2. \A w \in ToLock(r) \ (granted[r] \cup {v}) : v < w
          BY <2>1
        <5> QED
          BY <4>1, <4>2, <5>1, <5>2, <2>1 DEF LockInv, SortedInv
      <4>3. CASE q # r
        <5>1. granted'[q] = granted[q]
          BY <4>3, <3>1 DEF TypeOK
        <5> QED
          BY <4>1, <5>1 DEF LockInv, SortedInv
      <4> QED
        BY <4>2, <4>3
    <3> QED
      BY <3>2, <3>3, <3>4, <3>5 DEF LockInv
  <2>3. CASE lockOwner[v] # Nobody
    BY <1>5, <2>3 DEF TypeOK, LockInv, ControlInv, HeldInv, GrantedInv, SortedInv,
                      ToLock, AcquireLock, Leave, history
  <2> QED
    BY <2>2, <2>3
<1>6. ASSUME NEW r \in Requests, NEW v \in Variants, ReleaseLock(r, v)
      PROVE LockInv'
  BY <1>6 DEF TypeOK, LockInv, ControlInv, HeldInv, GrantedInv, SortedInv, ToLock,
              ReleaseLock, history
<1>7. ASSUME NEW r \in Requests, Fail(r) PROVE LockInv'
  BY <1>7 DEF TypeOK, LockInv, ControlInv, HeldInv, GrantedInv, SortedInv, ToLock,
              Fail, Leave, history
<1>8. ASSUME NEW r \in Requests, Crash(r) PROVE LockInv'
  BY <1>8 DEF TypeOK, LockInv, ControlInv, HeldInv, GrantedInv, SortedInv, ToLock,
              Crash, history
<1>9. ASSUME NEW r \in Requests, NEW v \in Variants, AcquireReplyLost(r, v)
      PROVE LockInv'
  <2>1. /\ v \in ToLock(r) \ granted[r]
        /\ \A u \in ToLock(r) \ granted[r] : v <= u
        /\ v \in Nat /\ ToLock(r) \subseteq Nat
    BY <1>9, DemandFacts, VariantAssumption
    DEF VariantAssumption, AcquireReplyLost, IsNextLock, Wanted, LockInv, ControlInv
  <2>2. /\ lockOwner' = [lockOwner EXCEPT ![v] = r]
        /\ lockOwner[v] = Nobody
        /\ granted' = [granted EXCEPT ![r] = @ \cup {v}]
        /\ pc' = [pc EXCEPT ![r] = "releasing"]
        /\ outcome' = [outcome EXCEPT ![r] = "error"]
        /\ UNCHANGED <<cart, locks, lapsed>>
        /\ pc[r] = "locking"
    BY <1>9 DEF AcquireReplyLost, Leave, history
  <2>3. ControlInv' /\ HeldInv' /\ GrantedInv'
    BY <2>2 DEF TypeOK, LockInv, ControlInv, HeldInv, GrantedInv
  <2>4. SortedInv'
    <3> SUFFICES ASSUME NEW q \in Requests
                 PROVE  /\ granted'[q] \subseteq ToLock(q)'
                        /\ \A g \in granted'[q], w \in ToLock(q)' \ granted'[q] : g < w
      BY DEF SortedInv
    <3>1. ToLock(q)' = ToLock(q)
      BY <2>2 DEF ToLock
    <3>2. CASE q = r
      <4>1. granted'[q] = granted[r] \cup {v}
        BY <3>2, <2>2 DEF TypeOK
      <4>2. \A w \in ToLock(r) \ (granted[r] \cup {v}) : v < w
        BY <2>1
      <4> QED
        BY <3>1, <3>2, <4>1, <4>2, <2>1 DEF LockInv, SortedInv
    <3>3. CASE q # r
      <4>1. granted'[q] = granted[q]
        BY <3>3, <2>2 DEF TypeOK
      <4> QED
        BY <3>1, <4>1 DEF LockInv, SortedInv
    <3> QED
      BY <3>2, <3>3
  <2> QED
    BY <2>3, <2>4 DEF LockInv
<1>10. ASSUME NEW v \in Variants, Expire(v) PROVE LockInv'
  BY <1>10 DEF TypeOK, LockInv, ControlInv, HeldInv, GrantedInv, SortedInv, ToLock,
               Expire
<1>11. CASE UNCHANGED vars
  BY <1>11 DEF LockInv, ControlInv, HeldInv, GrantedInv, SortedInv, ToLock, vars
<1> QED
  BY <1>1, <1>2, <1>3, <1>4, <1>5, <1>6, <1>7, <1>8, <1>9, <1>10, <1>11
  DEF Next, Serve

LEMMA LocksInvariant == Spec => [](TypeOK /\ LockInv)
<1>1. Init => TypeOK /\ LockInv
  BY TypeInit, LockInit
<1>2. TypeOK /\ LockInv /\ [Next]_vars => (TypeOK /\ LockInv)'
  BY TypeNext, LockNext
<1> QED
  BY <1>1, <1>2, PTL DEF Spec

\* Two requests past the lock loop share a variant only if a TTL ran out.
THEOREM ExclusionHolds == Spec => []MutualExclusion
<1>1. TypeOK /\ LockInv => MutualExclusion
  <2> SUFFICES ASSUME TypeOK, LockInv,
                      NEW r \in Requests, NEW q \in Requests, r # q,
                      InCritical(r), InCritical(q), {r, q} \cap lapsed = {}
               PROVE  ToLock(r) \cap ToLock(q) = {}
    BY DEF MutualExclusion
  <2>1. \A v \in ToLock(r) : lockOwner[v] = r
    BY DEF InCritical, Wanted, LockInv, HeldInv
  <2>2. \A v \in ToLock(q) : lockOwner[v] = q
    BY DEF InCritical, Wanted, LockInv, HeldInv
  <2> QED
    BY <2>1, <2>2
<1> QED
  BY <1>1, LocksInvariant, PTL

-------------------------------------------------------------------------------
(***************************************************************************)
(* A refused request always has a winner.                                  *)
(***************************************************************************)

\* A request that was refused with 409 was refused at its next lock.
RefusedSomewhere ==
  \A r \in Requests : outcome[r] = "conflict" => \E v \in Variants : RefusedAt(r, v)

WinnerInv == RefusedSomewhere /\ RefusalHasWinner

LEMMA WinnerInit == Init => WinnerInv
  BY DEF Init, WinnerInv, RefusedSomewhere, RefusalHasWinner, RefusedAt

\* Steps that refuse nobody keep every winner: grants only grow, and those of a
\* refused request are final.
LEMMA NoNewRefusal ==
  ASSUME WinnerInv, cart' = cart,
         \A r \in Requests :
           /\ outcome'[r] = "conflict" <=> outcome[r] = "conflict"
           /\ granted[r] \subseteq granted'[r]
           /\ outcome[r] = "conflict" => granted'[r] = granted[r]
  PROVE  WinnerInv'
<1>1. \A r \in Requests, v \in Variants : RefusedAt(r, v)' <=> RefusedAt(r, v)
  BY DEF RefusedAt, ToLock
<1>2. RefusedSomewhere'
  BY <1>1 DEF WinnerInv, RefusedSomewhere
<1>3. RefusalHasWinner'
  BY <1>1 DEF WinnerInv, RefusalHasWinner
<1> QED
  BY <1>2, <1>3 DEF WinnerInv

\* The step the theorem is about: r is refused at v because h holds it.  If h
\* was refused too, it was at a higher variant, and h's winner is r's.
LEMMA NewRefusal ==
  ASSUME TypeOK, LockInv, WinnerInv,
         NEW r \in Requests, NEW v \in Variants, AcquireLock(r, v),
         lockOwner[v] # Nobody
  PROVE  WinnerInv'
<1> DEFINE h == lockOwner[v]
<1>1. /\ v \in ToLock(r) \ granted[r]
      /\ \A u \in ToLock(r) \ granted[r] : v <= u
      /\ outcome[r] = "none"
      /\ outcome' = [outcome EXCEPT ![r] = "conflict"]
      /\ UNCHANGED <<cart, granted>>
  BY DEF AcquireLock, IsNextLock, Wanted, Leave, LockInv, ControlInv
<1>2. /\ \A q \in Requests : granted[q] \subseteq Variants
      /\ Variants \subseteq Nat
      /\ outcome'[r] = "conflict"
      /\ \A q \in Requests \ {r} : outcome'[q] = outcome[q]
  BY <1>1, VariantAssumption DEF VariantAssumption, TypeOK
<1>3. h \in Requests /\ v \in granted[h] /\ h # r
  BY <1>1 DEF TypeOK, LockInv, GrantedInv
<1>4. PICK q \in Requests : /\ outcome[q] # "conflict" /\ q # r
                            /\ \E m \in granted[q] : m >= v
  <2>1. CASE outcome[h] # "conflict"
    BY <2>1, <1>2, <1>3
  <2>2. CASE outcome[h] = "conflict"
    <3>1. PICK w \in Variants : RefusedAt(h, w)
      BY <2>2, <1>3 DEF WinnerInv, RefusedSomewhere
    <3>2. v < w
      BY <1>3, <3>1 DEF RefusedAt, LockInv, SortedInv
    <3>3. PICK q \in Requests : /\ outcome[q] # "conflict"
                                /\ \E m \in granted[q] : m >= w
      BY <1>3, <3>1 DEF WinnerInv, RefusalHasWinner
    <3>4. PICK m \in granted[q] : m >= w
      BY <3>3
    <3>5. m > v
      <4>1. m \in Nat /\ v \in Nat /\ w \in Nat
        BY <1>2, <3>1, <3>3, <3>4
      <4> QED
        BY <3>2, <3>4, <4>1
    <3>6. q # r
      <4>1. \A g \in granted[r] : g < v
        BY <1>1 DEF LockInv, SortedInv
      <4>2. m \in Nat /\ v \in Nat
        BY <1>2, <3>4
      <4>3. ~(m < v)
        BY <3>5, <4>2
      <4> QED
        BY <3>4, <4>1, <4>3
    <3> QED
      BY <3>3, <3>4, <3>5, <3>6, <1>2
  <2> QED
    BY <2>1, <2>2
<1>5. \A s \in Requests, u \in Variants :
        RefusedAt(s, u)' <=> (RefusedAt(s, u) \/ (s = r /\ u = v))
  <2> SUFFICES ASSUME NEW s \in Requests, NEW u \in Variants
               PROVE  RefusedAt(s, u)' <=> (RefusedAt(s, u) \/ (s = r /\ u = v))
    OBVIOUS
  <2>1. CASE s # r
    BY <2>1, <1>1, <1>2 DEF RefusedAt, ToLock
  <2>2. CASE s = r
    <3>1. RefusedAt(r, v)' /\ ~RefusedAt(r, u)
      BY <1>1, <1>2 DEF RefusedAt, ToLock
    <3>2. RefusedAt(r, u)' => u = v
      BY <1>1, <1>2 DEF RefusedAt, ToLock
    <3> QED
      BY <2>2, <3>1, <3>2
  <2> QED
    BY <2>1, <2>2
<1>6. RefusedSomewhere'
  <2> SUFFICES ASSUME NEW s \in Requests, outcome'[s] = "conflict"
               PROVE  \E u \in Variants : RefusedAt(s, u)'
    BY DEF RefusedSomewhere
  <2>1. CASE s = r
    BY <2>1, <1>5
  <2>2. CASE s # r
    BY <2>2, <1>2, <1>5 DEF WinnerInv, RefusedSomewhere
  <2> QED
    BY <2>1, <2>2
<1>7. RefusalHasWinner'
  <2> SUFFICES ASSUME NEW s \in Requests, NEW u \in Variants, RefusedAt(s, u)'
               PROVE  \E x \in Requests : /\ outcome'[x] # "conflict"
                                          /\ \E m \in granted'[x] : m >= u
    BY DEF RefusalHasWinner
  <2>1. CASE s = r /\ u = v
    BY <2>1, <1>1, <1>2, <1>4
  <2>2. CASE RefusedAt(s, u)
    <3>1. PICK x \in Requests : /\ outcome[x] # "conflict"
                                /\ \E m \in granted[x] : m >= u
      BY <2>2 DEF WinnerInv, RefusalHasWinner
    <3>2. CASE x # r
      BY <3>1, <3>2, <1>1, <1>2
    <3>3. CASE x = r
      <4>1. v > u
        <5>1. PICK n \in granted[r] : n >= u
          BY <3>1, <3>3
        <5>2. n < v
          BY <1>1, <5>1 DEF LockInv, SortedInv
        <5>3. n \in Nat /\ v \in Nat /\ u \in Nat
          BY <1>2, <5>1
        <5> QED
          BY <5>1, <5>2, <5>3
      <4>2. PICK m \in granted[q] : m >= v
        BY <1>4
      <4>3. m >= u
        <5>1. m \in Nat /\ v \in Nat /\ u \in Nat
          BY <1>2, <4>2
        <5> QED
          BY <4>1, <4>2, <5>1
      <4> QED
        BY <4>2, <4>3, <1>1, <1>2, <1>4
    <3> QED
      BY <3>2, <3>3
  <2> QED
    BY <2>1, <2>2, <1>5
<1> QED
  BY <1>6, <1>7 DEF WinnerInv

LEMMA WinnerNext == TypeOK /\ LockInv /\ WinnerInv /\ [Next]_vars => WinnerInv'
<1> SUFFICES ASSUME TypeOK, LockInv, WinnerInv, [Next]_vars PROVE WinnerInv'
  OBVIOUS
<1>1. ASSUME NEW r \in Requests, Begin(r) PROVE WinnerInv'
  BY <1>1, NoNewRefusal DEF TypeOK, LockInv, ControlInv, Begin
<1>2. ASSUME NEW r \in Requests, Reject(r) PROVE WinnerInv'
  BY <1>2, NoNewRefusal DEF TypeOK, LockInv, ControlInv, Reject
<1>3. ASSUME NEW r \in Requests, PlaceOrder(r) PROVE WinnerInv'
  <2>1. /\ pc[r] = "locking"
        /\ \E a \in Outcomes \ {"conflict"} : outcome' = [outcome EXCEPT ![r] = a]
        /\ UNCHANGED <<cart, granted>>
    BY <1>3 DEF PlaceOrder, InCritical, Leave, Outcomes
  <2> QED
    BY <2>1, NoNewRefusal DEF TypeOK, LockInv, ControlInv
<1>4. ASSUME NEW r \in Requests, Answer(r) PROVE WinnerInv'
  BY <1>4, NoNewRefusal DEF TypeOK, Answer
<1>5. ASSUME NEW r \in Requests, NEW v \in Variants, AcquireLock(r, v)
      PROVE WinnerInv'
  <2>1. CASE lockOwner[v] = Nobody
    BY <1>5, <2>1, NoNewRefusal DEF TypeOK, LockInv, ControlInv, AcquireLock
  <2>2. CASE lockOwner[v] # Nobody
    BY <1>5, <2>2, NewRefusal
  <2> QED
    BY <2>1, <2>2
<1>6. ASSUME NEW r \in Requests, NEW v \in Variants, ReleaseLock(r, v)
      PROVE WinnerInv'
  BY <1>6, NoNewRefusal DEF TypeOK, ReleaseLock
<1>7. ASSUME NEW r \in Requests, Fail(r) PROVE WinnerInv'
  BY <1>7, NoNewRefusal DEF TypeOK, LockInv, ControlInv, Fail, Leave
<1>8. ASSUME NEW r \in Requests, Crash(r) PROVE WinnerInv'
  BY <1>8, NoNewRefusal DEF TypeOK, Crash
<1>9. ASSUME NEW r \in Requests, NEW v \in Variants, AcquireReplyLost(r, v)
      PROVE WinnerInv'
  BY <1>9, NoNewRefusal DEF TypeOK, LockInv, ControlInv, AcquireReplyLost, Leave
<1>10. ASSUME NEW v \in Variants, Expire(v) PROVE WinnerInv'
  BY <1>10, NoNewRefusal DEF TypeOK, Expire
<1>11. CASE UNCHANGED vars
  BY <1>11, NoNewRefusal DEF TypeOK, vars
<1> QED
  BY <1>1, <1>2, <1>3, <1>4, <1>5, <1>6, <1>7, <1>8, <1>9, <1>10, <1>11
  DEF Next, Serve

\* Sorted, non-blocking locks cannot make all contenders leave with 409.
THEOREM WinnerExists == Spec => []RefusalHasWinner
<1>1. Init => WinnerInv
  BY WinnerInit
<1>2. (TypeOK /\ LockInv) /\ WinnerInv /\ [Next]_vars => WinnerInv'
  BY WinnerNext
<1>3. WinnerInv => RefusalHasWinner
  BY DEF WinnerInv
<1> QED
  BY <1>1, <1>2, <1>3, LocksInvariant, PTL DEF Spec

-------------------------------------------------------------------------------
(***************************************************************************)
(* What the finally clause gives back.                                     *)
(***************************************************************************)

\* Every way out of the lock loop but a lost grant leaves the list `locks` with
\* all that Redis still holds for the request; once it is answered, with nothing.
ReleaseInv ==
  \A r \in Requests, v \in Variants :
    lockOwner[v] = r /\ outcome[r] # "error" =>
      /\ pc[r] = "releasing" => v \in locks[r]
      /\ pc[r] # "done"

LEMMA ReleaseInit == Init => ReleaseInv
  BY NobodyAssumption DEF NobodyAssumption, Init, ReleaseInv

\* Whoever leaves the lock loop holds what its list says.
LEMMA LeaveReleases ==
  ASSUME TypeOK, LockInv, ReleaseInv, NEW r \in Requests, pc[r] = "locking",
         pc' = [pc EXCEPT ![r] = "releasing"], NEW a,
         outcome' = [outcome EXCEPT ![r] = a], UNCHANGED <<lockOwner, locks>>
  PROVE  ReleaseInv'
<1> SUFFICES ASSUME NEW q \in Requests, NEW v \in Variants, lockOwner'[v] = q,
                    outcome'[q] # "error"
             PROVE  (pc'[q] = "releasing" => v \in locks'[q]) /\ pc'[q] # "done"
  BY DEF ReleaseInv
<1>1. CASE q = r
  <2>1. v \in granted[r] /\ granted[r] = locks[r]
    BY <1>1 DEF LockInv, GrantedInv, ControlInv
  <2> QED
    BY <1>1, <2>1 DEF TypeOK
<1>2. CASE q # r
  BY <1>2 DEF TypeOK, ReleaseInv
<1> QED
  BY <1>1, <1>2

LEMMA ReleaseNext == TypeOK /\ LockInv /\ ReleaseInv /\ [Next]_vars => ReleaseInv'
<1> SUFFICES ASSUME TypeOK, LockInv, ReleaseInv, [Next]_vars PROVE ReleaseInv'
  OBVIOUS
\* Nobody who has been granted nothing holds a lock.
<1>a. ASSUME NEW r \in Requests, granted[r] = {}, NEW p, NEW o,
             pc' = [pc EXCEPT ![r] = p], outcome' = [outcome EXCEPT ![r] = o],
             UNCHANGED <<lockOwner, locks>>
      PROVE  ReleaseInv'
  <2>1. \A v \in Variants : lockOwner[v] # r
    BY <1>a DEF LockInv, GrantedInv
  <2> QED
    BY <1>a, <2>1 DEF TypeOK, ReleaseInv
<1>1. ASSUME NEW r \in Requests, Begin(r) PROVE ReleaseInv'
  <2>1. granted[r] = {} /\ outcome[r] = "none"
    BY <1>1 DEF Begin, LockInv, ControlInv
  <2>2. CASE cart[r] \in carts
    <3>1. outcome' = [outcome EXCEPT ![r] = "none"]
      BY <1>1, <2>1, <2>2 DEF Begin, TypeOK
    <3> QED
      BY <1>a, <1>1, <2>1, <2>2, <3>1 DEF Begin
  <2>3. CASE cart[r] \notin carts
    BY <1>a, <1>1, <2>1, <2>3 DEF Begin
  <2> QED
    BY <2>2, <2>3
<1>2. ASSUME NEW r \in Requests, Reject(r) PROVE ReleaseInv'
  BY <1>a, <1>2 DEF Reject
<1>3. ASSUME NEW r \in Requests, PlaceOrder(r) PROVE ReleaseInv'
  <2>1. /\ pc[r] = "locking" /\ pc' = [pc EXCEPT ![r] = "releasing"]
        /\ \E a : outcome' = [outcome EXCEPT ![r] = a]
        /\ UNCHANGED <<lockOwner, locks>>
    BY <1>3 DEF PlaceOrder, InCritical, Leave
  <2> QED
    BY <2>1, LeaveReleases
<1>4. ASSUME NEW r \in Requests, Answer(r) PROVE ReleaseInv'
  BY <1>4 DEF TypeOK, ReleaseInv, Answer
<1>5. ASSUME NEW r \in Requests, NEW v \in Variants, AcquireLock(r, v)
      PROVE  ReleaseInv'
  <2>1. CASE lockOwner[v] = Nobody
    BY <1>5, <2>1 DEF TypeOK, ReleaseInv, AcquireLock
  <2>2. CASE lockOwner[v] # Nobody
    BY <1>5, <2>2, LeaveReleases DEF AcquireLock, Leave
  <2> QED
    BY <2>1, <2>2
<1>6. ASSUME NEW r \in Requests, NEW v \in Variants, ReleaseLock(r, v)
      PROVE  ReleaseInv'
  BY <1>6, NobodyAssumption DEF NobodyAssumption, TypeOK, ReleaseInv, ReleaseLock
<1>7. ASSUME NEW r \in Requests, Fail(r) PROVE ReleaseInv'
  BY <1>7, LeaveReleases DEF Fail, Leave
<1>8. ASSUME NEW r \in Requests, Crash(r) PROVE ReleaseInv'
  BY <1>8 DEF TypeOK, ReleaseInv, Crash
<1>9. ASSUME NEW r \in Requests, NEW v \in Variants, AcquireReplyLost(r, v)
      PROVE  ReleaseInv'
  BY <1>9 DEF TypeOK, ReleaseInv, AcquireReplyLost, Leave
<1>10. ASSUME NEW v \in Variants, Expire(v) PROVE ReleaseInv'
  BY <1>10, NobodyAssumption DEF NobodyAssumption, TypeOK, ReleaseInv, Expire
<1>11. CASE UNCHANGED vars
  BY <1>11 DEF ReleaseInv, vars
<1> QED
  BY <1>1, <1>2, <1>3, <1>4, <1>5, <1>6, <1>7, <1>8, <1>9, <1>10, <1>11
  DEF Next, Serve

\* A request that was answered holds no lock but one whose grant it never heard of,
\* whatever path it left on (checkout_service.py:505-510).
THEOREM LocksGivenBack == Spec => []NoLockLeftBehind
<1>1. (TypeOK /\ LockInv) /\ ReleaseInv /\ [Next]_vars => ReleaseInv'
  BY ReleaseNext
<1>2. ReleaseInv => NoLockLeftBehind
  BY DEF ReleaseInv, NoLockLeftBehind
<1> QED
  BY <1>1, <1>2, ReleaseInit, LocksInvariant, PTL DEF Spec

-------------------------------------------------------------------------------
(***************************************************************************)
(* One cart, two orders.                                                   *)
(***************************************************************************)

\* A cart does not outlive its order.
SpentCart == \A r \in Requests : outcome[r] = "placed" => cart[r] \notin carts

\* The stock of a variant that was never overwritten only falls, so no request has
\* read less than what is left of it.
StaleInv ==
  \A q \in Requests : pc[q] = "locking" =>
    \A v \in Variants \ overwritten : stock[v] <= snap[q].stock[v]

\* Whoever still works on a cart that became an order read the stock before it fell.
OutpacedInv ==
  \A q \in Requests : pc[q] = "locking" /\ cart[q] \notin carts =>
    \A v \in Deducted(q) \ overwritten : stock[v] < snap[q].stock[v]

TwiceInv == SpentCart /\ StaleInv /\ OutpacedInv /\ DoubleOrderOverwrites

LEMMA TwiceInit == Init => TwiceInv
  BY DEF Init, TwiceInv, SpentCart, StaleInv, OutpacedInv, DoubleOrderOverwrites

\* Nothing is committed, nobody is told of an order, nobody starts to lock.
LEMMA TwiceAside ==
  ASSUME TwiceInv, UNCHANGED <<stock, carts, overwritten, cart>>,
         \A r \in Requests : /\ outcome'[r] = "placed" => outcome[r] = "placed"
                             /\ pc'[r] = "locking" => /\ pc[r] = "locking"
                                                      /\ snap'[r] = snap[r]
  PROVE  TwiceInv'
<1>1. SpentCart'
  BY DEF TwiceInv, SpentCart
<1>2. StaleInv'
  BY DEF TwiceInv, StaleInv
<1>3. OutpacedInv'
  BY DEF TwiceInv, OutpacedInv, Deducted, ToLock
<1>4. DoubleOrderOverwrites'
  BY DEF TwiceInv, DoubleOrderOverwrites, Deducted, ToLock
<1> QED
  BY <1>1, <1>2, <1>3, <1>4 DEF TwiceInv

LEMMA TwiceCommit ==
  ASSUME TypeOK, TwiceInv, NEW r \in Requests, pc[r] = "locking",
         EnoughStock(r), Commit(r), Leave(r, "placed"), cart' = cart
  PROVE  TwiceInv'
<1>1. /\ \A q \in Requests \ {r} : /\ pc'[q] = pc[q] /\ snap'[q] = snap[q]
                                   /\ outcome'[q] = outcome[q]
      /\ pc'[r] = "releasing" /\ outcome'[r] = "placed"
  BY DEF Leave, TypeOK
<1>2. /\ carts' = carts \ {cart[r]}
      /\ overwritten' = overwritten \cup {v \in Deducted(r) : stock[v] # snap[r].stock[v]}
      /\ \A q \in Requests : Deducted(q)' = Deducted(q)
  BY DEF Commit, Deducted, ToLock
<1>3. ASSUME NEW v \in Variants \ overwritten'
      PROVE  /\ v \notin overwritten /\ stock'[v] \in Int /\ stock[v] \in Int
             /\ stock'[v] <= stock[v]
             /\ v \in Deducted(r) => stock'[v] < stock[v]
  <2>1. v \notin overwritten /\ stock[v] \in Nat
    BY <1>2, <1>3 DEF TypeOK
  <2>2. CASE v \in Deducted(r)
    <3>1. stock[v] = snap[r].stock[v] /\ stock'[v] = snap[r].stock[v] - Demand[cart[r]][v]
      BY <1>2, <1>3, <2>2 DEF Commit
    <3>2. Demand[cart[r]][v] \in Nat \ {0}
      BY <2>2, DemandFacts
    <3> QED
      BY <2>1, <3>1, <3>2
  <2>3. CASE v \notin Deducted(r)
    BY <2>1, <2>3 DEF Commit
  <2> QED
    BY <2>1, <2>2, <2>3
<1>4. SpentCart'
  BY <1>1, <1>2 DEF TwiceInv, SpentCart
<1>5. ASSUME NEW q \in Requests, pc'[q] = "locking", NEW v \in Variants \ overwritten'
      PROVE  /\ q # r /\ pc[q] = "locking" /\ snap'[q].stock[v] = snap[q].stock[v]
             /\ snap[q].stock[v] \in Int /\ stock[v] <= snap[q].stock[v]
  <2>1. q # r /\ pc[q] = "locking" /\ snap'[q] = snap[q]
    BY <1>1, <1>5
  <2>2. snap[q].stock[v] \in Int
    BY DEF TypeOK, Snapshots
  <2>3. stock[v] <= snap[q].stock[v]
    BY <1>3, <1>5, <2>1 DEF TwiceInv, StaleInv
  <2> QED
    BY <2>1, <2>2, <2>3
<1>6. StaleInv'
  <2> SUFFICES ASSUME NEW q \in Requests, pc'[q] = "locking",
                      NEW v \in Variants \ overwritten'
               PROVE  stock'[v] <= snap'[q].stock[v]
    BY DEF StaleInv
  <2> QED
    BY <1>3, <1>5
<1>7. OutpacedInv'
  <2> SUFFICES ASSUME NEW q \in Requests, pc'[q] = "locking", cart[q] \notin carts',
                      NEW v \in Deducted(q) \ overwritten'
               PROVE  stock'[v] < snap'[q].stock[v]
    BY <1>2 DEF OutpacedInv
  <2>1. v \in Variants \ overwritten'
    BY DemandFacts
  <2>2. CASE cart[q] = cart[r]
    <3>1. v \in Deducted(r)
      BY <2>2 DEF Deducted, ToLock
    <3> QED
      BY <1>3, <1>5, <2>1, <3>1
  <2>3. CASE cart[q] # cart[r]
    <3>1. cart[q] \notin carts /\ v \notin overwritten /\ pc[q] = "locking"
      BY <1>2, <1>3, <1>5, <2>1, <2>3
    <3>2. stock[v] < snap[q].stock[v]
      BY <3>1 DEF TwiceInv, OutpacedInv
    <3> QED
      BY <1>3, <1>5, <2>1, <3>2
  <2> QED
    BY <2>2, <2>3
\* The second order of a cart is computed from a stock its first one has changed.
<1>8. ASSUME NEW q \in Requests, q # r, cart[q] = cart[r], outcome[q] = "placed"
      PROVE  Deducted(r) \subseteq overwritten'
  <2> SUFFICES ASSUME NEW v \in Deducted(r), v \notin overwritten
               PROVE  stock[v] # snap[r].stock[v]
    BY <1>2
  <2>1. cart[r] \notin carts
    BY <1>8 DEF TwiceInv, SpentCart
  <2>2. stock[v] < snap[r].stock[v]
    BY <2>1 DEF TwiceInv, OutpacedInv
  <2>3. stock[v] \in Int /\ snap[r].stock[v] \in Int
    BY DemandFacts DEF TypeOK, Snapshots
  <2> QED
    BY <2>2, <2>3
<1>9. DoubleOrderOverwrites'
  <2> SUFFICES ASSUME NEW p \in Requests, NEW q \in Requests, p # q, cart[p] = cart[q],
                      outcome'[p] = "placed", outcome'[q] = "placed"
               PROVE  Deducted(p) \subseteq overwritten'
    BY <1>2 DEF DoubleOrderOverwrites
  <2>1. CASE p = r
    BY <1>1, <1>8, <2>1
  <2>2. CASE q = r
    <3>1. Deducted(p) = Deducted(r)
      BY <2>2 DEF Deducted, ToLock
    <3> QED
      BY <1>1, <1>8, <2>2, <3>1
  <2>3. CASE p # r /\ q # r
    BY <1>1, <1>2, <2>3 DEF TwiceInv, DoubleOrderOverwrites
  <2> QED
    BY <2>1, <2>2, <2>3
<1> QED
  BY <1>4, <1>6, <1>7, <1>9 DEF TwiceInv

LEMMA TwiceNext == TypeOK /\ TwiceInv /\ [Next]_vars => TwiceInv'
<1> SUFFICES ASSUME TypeOK, TwiceInv, [Next]_vars PROVE TwiceInv'
  OBVIOUS
<1>1. ASSUME NEW r \in Requests, Begin(r) PROVE TwiceInv'
  <2>1. CASE cart[r] \in carts
    <3>1. /\ UNCHANGED <<stock, carts, overwritten, cart, outcome>>
          /\ \A q \in Requests \ {r} : pc'[q] = pc[q] /\ snap'[q] = snap[q]
          /\ snap'[r].stock = stock
      BY <1>1, <2>1 DEF Begin, store, history, TypeOK
    <3>2. SpentCart' /\ DoubleOrderOverwrites'
      BY <3>1 DEF TwiceInv, SpentCart, DoubleOrderOverwrites, Deducted, ToLock
    <3>3. StaleInv'
      BY <3>1 DEF TwiceInv, StaleInv, TypeOK
    <3>4. OutpacedInv'
      BY <2>1, <3>1 DEF TwiceInv, OutpacedInv, Deducted, ToLock
    <3> QED
      BY <3>2, <3>3, <3>4 DEF TwiceInv
  <2>2. CASE cart[r] \notin carts
    BY <1>1, <2>2, TwiceAside DEF Begin, store, history, TypeOK
  <2> QED
    BY <2>1, <2>2
<1>2. ASSUME NEW r \in Requests, Reject(r) PROVE TwiceInv'
  BY <1>2, TwiceAside DEF Reject, store, history, TypeOK
<1>3. ASSUME NEW r \in Requests, PlaceOrder(r) PROVE TwiceInv'
  <2>1. CASE EnoughStock(r) /\ Commit(r) /\ Leave(r, "placed")
    BY <1>3, <2>1, TwiceCommit DEF PlaceOrder, InCritical
  <2>2. CASE UNCHANGED <<store, history>> /\ (Leave(r, "nostock") \/ Leave(r, "badcoupon"))
    BY <1>3, <2>2, TwiceAside DEF PlaceOrder, Leave, store, history, TypeOK
  <2> QED
    BY <1>3, <2>1, <2>2 DEF PlaceOrder
<1>4. ASSUME NEW r \in Requests, Answer(r) PROVE TwiceInv'
  BY <1>4, TwiceAside DEF Answer, store, history, TypeOK
<1>5. ASSUME NEW r \in Requests, NEW v \in Variants, AcquireLock(r, v)
      PROVE  TwiceInv'
  BY <1>5, TwiceAside DEF AcquireLock, Leave, store, history, TypeOK
<1>6. ASSUME NEW r \in Requests, NEW v \in Variants, ReleaseLock(r, v)
      PROVE  TwiceInv'
  BY <1>6, TwiceAside DEF ReleaseLock, store, history, TypeOK
<1>7. ASSUME NEW r \in Requests, Fail(r) PROVE TwiceInv'
  BY <1>7, TwiceAside DEF Fail, Leave, store, history, TypeOK
<1>8. ASSUME NEW r \in Requests, Crash(r) PROVE TwiceInv'
  BY <1>8, TwiceAside DEF Crash, store, history, TypeOK
<1>9. ASSUME NEW r \in Requests, NEW v \in Variants, AcquireReplyLost(r, v)
      PROVE  TwiceInv'
  BY <1>9, TwiceAside DEF AcquireReplyLost, Leave, store, history, TypeOK
<1>10. ASSUME NEW v \in Variants, Expire(v) PROVE TwiceInv'
  BY <1>10, TwiceAside DEF Expire, store
<1>11. CASE UNCHANGED vars
  BY <1>11, TwiceAside DEF vars
<1> QED
  BY <1>1, <1>2, <1>3, <1>4, <1>5, <1>6, <1>7, <1>8, <1>9, <1>10, <1>11
  DEF Next, Serve

\* A cart that became two orders always left an overwritten stock behind, for every
\* one of its variants that has a stock.
THEOREM DoubleOrderShows == Spec => []DoubleOrderOverwrites
<1>1. TwiceInv => DoubleOrderOverwrites
  BY DEF TwiceInv
<1> QED
  BY <1>1, TwiceInit, TwiceNext, TypeCorrect, PTL DEF Spec

-------------------------------------------------------------------------------
(***************************************************************************)
(* Units, coupons and leases.                                              *)
(***************************************************************************)

LEMMA UnitsNext ==
  TypeOK /\ UnitsAccountedFor /\ [Next]_vars => UnitsAccountedFor'
<1> SUFFICES ASSUME TypeOK, UnitsAccountedFor, [Next]_vars
             PROVE  UnitsAccountedFor'
  OBVIOUS
<1>1. CASE UNCHANGED <<stock, sold, overwritten>>
  BY <1>1 DEF UnitsAccountedFor
<1>2. ASSUME NEW r \in Requests, EnoughStock(r), Commit(r)
      PROVE  UnitsAccountedFor'
  <2> SUFFICES ASSUME NEW v \in Variants, v \notin overwritten'
               PROVE  stock'[v] + sold'[v] = InitialStock[v]
    BY DEF UnitsAccountedFor
  <2>1. stock[v] + sold[v] = InitialStock[v]
    BY <1>2 DEF Commit, UnitsAccountedFor
  <2>2. CASE v \in Deducted(r)
    <3>1. stock[v] = snap[r].stock[v]
      BY <1>2, <2>2 DEF Commit
    <3>2. /\ stock'[v] = snap[r].stock[v] - Demand[cart[r]][v]
          /\ sold'[v] = sold[v] + Demand[cart[r]][v]
      BY <1>2, <2>2 DEF Commit
    <3>3. stock[v] \in Nat /\ sold[v] \in Nat /\ Demand[cart[r]][v] \in Nat
      BY <2>2, DemandFacts DEF TypeOK
    <3> QED
      BY <2>1, <3>1, <3>2, <3>3
  <2>3. CASE v \notin Deducted(r)
    BY <1>2, <2>1, <2>3 DEF Commit
  <2> QED
    BY <2>2, <2>3
<1> QED
  BY <1>1, <1>2
  DEF Next, Serve, vars, store, history, Begin, Reject, PlaceOrder, Answer,
      AcquireLock, ReleaseLock, Fail, Crash, AcquireReplyLost, Expire

\* Units leave the books only when a commit overwrites a stock it had not read:
\* no crash, lapsed lock, refusal or failure loses one.
THEOREM UnitsHold == Spec => []UnitsAccountedFor
<1>1. Init => UnitsAccountedFor
  BY VariantAssumption DEF VariantAssumption, Init, UnitsAccountedFor
<1> QED
  BY <1>1, UnitsNext, TypeCorrect, PTL DEF Spec

LEMMA CouponNext == TypeOK /\ CouponCounted /\ [Next]_vars => CouponCounted'
<1> SUFFICES ASSUME TypeOK, CouponCounted, [Next]_vars PROVE CouponCounted'
  OBVIOUS
<1>1. CASE UNCHANGED <<usedCount, redeemed, overCoupon>>
  BY <1>1 DEF CouponCounted
<1>2. ASSUME NEW r \in Requests, coupon[r] => CouponUsable(r), Commit(r)
      PROVE  CouponCounted'
  <2>1. snap[r].used \in Nat /\ usedCount \in Nat /\ redeemed \in Nat
    BY DEF TypeOK, Snapshots
  <2>2. UsageLimit \in Nat
    BY LimitAssumption DEF LimitAssumption
  <2>3. CASE coupon[r]
    <3>1. /\ usedCount' = snap[r].used + 1
          /\ redeemed' = redeemed + 1
          /\ UsageLimit = 0 \/ snap[r].used < UsageLimit
      BY <1>2, <2>3 DEF Commit, CouponUsable
    <3>2. ~overCoupon' => ~overCoupon /\ usedCount = snap[r].used
      BY <1>2, <2>3 DEF Commit
    <3>3. UsageLimit # 0 => usedCount' <= UsageLimit
      BY <2>1, <2>2, <3>1
    <3>4. ~overCoupon' => usedCount' = redeemed'
      BY <3>1, <3>2 DEF CouponCounted
    <3> QED
      BY <3>3, <3>4 DEF CouponCounted
  <2>4. CASE ~coupon[r]
    <3>1. usedCount' = usedCount /\ redeemed' = redeemed
      BY <1>2, <2>4 DEF Commit
    <3>2. ~overCoupon' => ~overCoupon
      BY <1>2 DEF Commit
    <3> QED
      BY <3>1, <3>2 DEF CouponCounted
  <2> QED
    BY <2>3, <2>4
<1> QED
  BY <1>1, <1>2
  DEF Next, Serve, vars, store, history, Begin, Reject, PlaceOrder, Answer,
      AcquireLock, ReleaseLock, Fail, Crash, AcquireReplyLost, Expire

\* used_count stays within usage_limit whatever the interleaving, and is exact
\* until a commit overwrites a newer one.
THEOREM CouponHolds == Spec => []CouponCounted
<1>1. Init => CouponCounted
  BY LimitAssumption DEF LimitAssumption, Init, CouponCounted
<1> QED
  BY <1>1, CouponNext, TypeCorrect, PTL DEF Spec

LEMMA LeaseNext == TypeOK /\ [Next]_vars => [Leases!LocksNext]_lockOwner
<1> SUFFICES ASSUME TypeOK, [Next]_vars PROVE [Leases!LocksNext]_lockOwner
  OBVIOUS
<1> USE DEF Leases!LocksNext, Leases!Grant, Leases!Free
<1>1. CASE UNCHANGED lockOwner
  BY <1>1
<1>2. ASSUME NEW r \in Requests, NEW v \in Variants,
             lockOwner[v] = Nobody, lockOwner' = [lockOwner EXCEPT ![v] = r]
      PROVE  Leases!LocksNext
  BY <1>2
<1>3. ASSUME NEW v \in Variants, lockOwner[v] # Nobody,
             lockOwner' = [lockOwner EXCEPT ![v] = Nobody]
      PROVE  Leases!LocksNext
  BY <1>3
<1>4. ASSUME NEW r \in Requests, NEW v \in Variants, AcquireLock(r, v)
      PROVE  [Leases!LocksNext]_lockOwner
  BY <1>1, <1>2, <1>4 DEF AcquireLock
<1>5. ASSUME NEW r \in Requests, NEW v \in Variants, AcquireReplyLost(r, v)
      PROVE  [Leases!LocksNext]_lockOwner
  BY <1>2, <1>5 DEF AcquireReplyLost
<1>6. ASSUME NEW r \in Requests, NEW v \in Variants, ReleaseLock(r, v)
      PROVE  [Leases!LocksNext]_lockOwner
  <2>1. CASE lockOwner[v] = r
    BY <1>3, <1>6, <2>1, NobodyAssumption DEF ReleaseLock, NobodyAssumption
  <2>2. CASE lockOwner[v] # r
    BY <1>6, <2>2 DEF ReleaseLock
  <2> QED
    BY <2>1, <2>2
<1>7. ASSUME NEW v \in Variants, Expire(v) PROVE [Leases!LocksNext]_lockOwner
  BY <1>3, <1>7 DEF Expire
<1> QED
  BY <1>1, <1>4, <1>5, <1>6, <1>7
  DEF Next, Serve, vars, Begin, Reject, PlaceOrder, Answer, Fail, Crash

\* The checkouts implement the lease table: the safety part of LocksAreLeases.
THEOREM CheckoutImplementsLeases == Spec => Leases!LocksSafety
<1>1. Init => Leases!LocksInit
  BY DEF Init, Leases!LocksInit
<1> QED
  BY <1>1, LeaseNext, TypeCorrect, PTL DEF Spec, Leases!LocksSafety
===============================================================================
