---------------------------- MODULE OrderPayments ----------------------------
(***************************************************************************)
(* What happens to an order after checkout has inserted it as              *)
(* 'pending_payment': the customer pays or cancels it, Stripe's webhook    *)
(* confirms the charge, the vendor sets its status or ships it, and the    *)
(* sweep expires it when nobody paid (order_service.py, tasks.py,          *)
(* marketplace_service.pay_master_order_service, shipping_service.py,      *)
(* services/payments/).                                                    *)
(*                                                                         *)
(* Each of these is a handler: an asyncio task with a database session of  *)
(* its own.  A handler reads the rows it works on once, and keeps what it  *)
(* read (its view) until it commits: REPEATABLE READ and SQLAlchemy's      *)
(* identity map both see to that, also across an await of Stripe or of a   *)
(* courier.  A commit writes only the columns the handler changed, without *)
(* a check that the row is still the one that was read.                    *)
(*                                                                         *)
(* A payable is what one PaymentIntent covers: an order, or a MasterOrder  *)
(* with all its sub-orders.  Nothing keeps a sub-order from being paid     *)
(* through /customer/orders/{id}/pay on its own, so it may be covered by   *)
(* two intents.                                                            *)
(***************************************************************************)
EXTENDS Naturals, FiniteSets

CONSTANTS
  Orders, Masters,
  MasterOf,     \* master_order_id of each order
  Nobody,       \* NULL: of a master_order_id, or of a payment_intent_id
  Physical,     \* orders with order_type 'physical'
  AutoFulfil,   \* orders of vendors with an auto_fulfill courier
  Connected,    \* orders of vendors with a Stripe Connect account
  Handlers,     \* the requests and sweeps that may run at the same time
  Intents,      \* ids of PaymentIntents
  MaxReturned,  \* bound on how often the vendor cancels one order again
  MaxEffects,   \* bound on what is counted of shipments and transfers
  MaxCrashes    \* bound on handlers that die half-way

Payables == Orders \cup Masters

ASSUME OrderAssumption ==
  /\ Orders \cap Masters = {}
  /\ Nobody \notin Payables
  /\ MasterOf \in [Orders -> Masters \cup {Nobody}]
  /\ AutoFulfil \subseteq Orders /\ Physical \subseteq Orders
  /\ Connected \subseteq Orders

ASSUME IntentAssumption == Nobody \notin Intents

ASSUME BoundAssumption ==
  MaxReturned \in Nat /\ MaxEffects \in Nat /\ MaxCrashes \in Nat

VARIABLES
  provider,    \* settings.PAYMENT_PROVIDER, read when the application starts
  \* The database:
  status,      \* orders.status
  tracking,    \* is orders.tracking_number set?
  returned,    \* units of the order put back in stock, per unit it took
  intentOf,    \* payment_intent_id of each order and master order
  age,         \* time since created_at, as far as the sweep tells it apart
  \* Stripe:
  charge,      \* the state of each PaymentIntent
  owner,       \* the payable an intent was created for
  keyed,       \* the intent Stripe remembers under a payable's key
  known,       \* intents whose client_secret reached the customer
  acked,       \* intents whose success event was answered with 200
  \* The courier, and Stripe's Connect transfers:
  shipments,   \* shipments the courier accepted for an order
  transfers,   \* payouts transferred for an order
  \* The handlers, and how many died:
  task, crashes,
  \* History, read by properties only:
  touched,     \* orders whose status the vendor set by hand
  overwrote,   \* orders a commit changed although the row was not the one read
  raced        \* intents with two deliveries of their event in progress at once

db       == <<status, tracking, returned, intentOf>>
stripe   == <<charge, owner, keyed, known, acked>>
effects  == <<shipments, transfers>>
history  == <<touched, overwrote, raced>>
vars == <<provider, status, tracking, returned, intentOf, age, charge, owner,
          keyed, known, acked, shipments, transfers, task, crashes, touched,
          overwrote, raced>>

Statuses == {"pending_payment", "processing", "shipped", "completed",
             "cancelled", "expired"}
Ages == {"fresh", "mock_cutoff", "stripe_cutoff"}
MaybeIntent == Intents \cup {Nobody}
Views == [status : [Orders -> Statuses], tracking : [Orders -> BOOLEAN],
          returned : [Orders -> Nat], intentOf : [Payables -> MaybeIntent]]

\* What is in the database now.
Rows == [status |-> status, tracking |-> tracking, returned |-> returned,
         intentOf |-> intentOf]

Kinds == {"idle", "pay", "webhook", "sweep", "cancel", "set", "fulfil"}
Steps == {"none", "gateway", "create", "store", "commit", "courier", "ship",
          "transfer"}
Tasks == [kind : Kinds, step : Steps, subject : Payables \cup {Nobody},
          intent : MaybeIntent, todo : SUBSET Orders, marked : SUBSET Orders,
          dead : SUBSET Masters, target : Statuses, view : Views]

TypeOK ==
  /\ provider \in {"mock", "stripe"}
  /\ Rows \in Views
  /\ age \in [Orders -> Ages]
  /\ charge \in [Intents -> {"none", "open", "succeeded", "canceled"}]
  /\ owner \in [Intents -> Payables \cup {Nobody}]
  /\ keyed \in [Payables -> MaybeIntent]
  /\ known \subseteq Intents /\ acked \subseteq Intents
  /\ shipments \in [Orders -> 0..MaxEffects]
  /\ transfers \in [Orders -> 0..MaxEffects]
  /\ task \in [Handlers -> Tasks]
  /\ crashes \in 0..MaxCrashes
  /\ touched \subseteq Orders /\ overwrote \subseteq Orders
  /\ raced \subseteq Intents

-------------------------------------------------------------------------------
\* State formulae

\* The orders one payment of p pays for.
Covered(p) == IF p \in Masters THEN {o \in Orders : MasterOf[o] = p} ELSE {p}

Bump(n) == IF n < MaxEffects THEN n + 1 ELSE n

\* Mutant: a payment is applied to orders in whatever state they are.
AwaitingOrNot(v, p) == Covered(p)

Awaiting(v, p) == {o \in Covered(p) : v.status[o] = "pending_payment"}

Dead == {"cancelled", "expired"}

\* A handler between requests: it has no session, and so remembers nothing.
NoView == [status |-> [o \in Orders |-> "pending_payment"],
           tracking |-> [o \in Orders |-> FALSE],
           returned |-> [o \in Orders |-> 0],
           intentOf |-> [p \in Payables |-> Nobody]]
NoTask == [kind |-> "idle", step |-> "none", subject |-> Nobody,
           intent |-> Nobody, todo |-> {}, marked |-> {}, dead |-> {},
           target |-> "processing", view |-> NoView]

Idle(h) == task[h].kind = "idle"

At(h, k, s) == task[h].kind = k /\ task[h].step = s

\* The session opens with the SELECT of the rows.
Opened(k, s, orders) ==
  [NoTask EXCEPT !.kind = k, !.step = s, !.todo = orders, !.view = Rows]

Close(h) == task' = [task EXCEPT ![h] = NoTask]

GoTo(h, s) == task' = [task EXCEPT ![h].step = s]

\* UPDATE orders SET status = s for the orders S the handler assigned it to: a
\* value equal to the one it read is no change, and nothing is sent.
WriteStatus(h, S, s) ==
  /\ status' = [o \in Orders |->
                  IF o \in S /\ task[h].view.status[o] # s THEN s ELSE status[o]]
  /\ overwrote' = overwrote \cup
       {o \in S : \/ status[o] # task[h].view.status[o]
                  \/ tracking[o] # task[h].view.tracking[o]
                  \/ returned[o] # task[h].view.returned[o]}

\* Mutant: UPDATE ... SET stock_quantity = stock_quantity + n.
ReturnStockAgain(h, S) ==
  returned' = [o \in Orders |-> IF o \in S THEN returned[o] + 1 ELSE returned[o]]

\* restore_stock_for_order: the stock read in this session, plus the quantity.
ReturnStock(h, S) ==
  returned' = [o \in Orders |->
                 IF o \in S THEN task[h].view.returned[o] + 1 ELSE returned[o]]

-------------------------------------------------------------------------------
Init ==
  /\ provider \in {"mock", "stripe"}
  /\ status = [o \in Orders |-> "pending_payment"]
  /\ tracking = [o \in Orders |-> FALSE]
  /\ returned = [o \in Orders |-> 0]
  /\ intentOf = [p \in Payables |-> Nobody]
  /\ age = [o \in Orders |-> "fresh"]
  /\ charge = [i \in Intents |-> "none"]
  /\ owner = [i \in Intents |-> Nobody]
  /\ keyed = [p \in Payables |-> Nobody]
  /\ known = {} /\ acked = {}
  /\ shipments = [o \in Orders |-> 0]
  /\ transfers = [o \in Orders |-> 0]
  /\ task = [h \in Handlers |-> NoTask]
  /\ crashes = 0
  /\ touched = {} /\ overwrote = {} /\ raced = {}

-------------------------------------------------------------------------------
\* POST .../orders/{id}/pay (pay_order_service) and .../master-orders/{id}/pay
\* (pay_master_order_service).

\* Mutant: every gateway is taken to pay at once.
PayStartAtOnce(h, p) ==
  /\ Idle(h)
  /\ Awaiting(Rows, p) # {}
  /\ task' = [task EXCEPT ![h] =
                [Opened("pay", "commit", Awaiting(Rows, p)) EXCEPT !.subject = p]]
  /\ UNCHANGED <<provider, db, age, stripe, effects, crashes, history>>

PayStart(h, p) ==
  /\ Idle(h)
  /\ Awaiting(Rows, p) # {}
  /\ task' = [task EXCEPT ![h] =
                [Opened("pay", IF provider = "mock" THEN "commit" ELSE "gateway",
                        Awaiting(Rows, p)) EXCEPT !.subject = p]]
  /\ UNCHANGED <<provider, db, age, stripe, effects, crashes, history>>

\* The mock gateway: paid at once.  Only the single-order handler goes on to
\* maybe_auto_fulfill_order.
PayMock(h) ==
  /\ At(h, "pay", "commit")
  /\ WriteStatus(h, task[h].todo, "processing")
  /\ IF task[h].subject \in Masters
     THEN Close(h)
     ELSE task' = [task EXCEPT ![h].step = "courier",
                               ![h].view.status =
                                 [o \in Orders |-> IF o \in task[h].todo
                                                   THEN "processing" ELSE @[o]]]
  /\ UNCHANGED <<provider, tracking, returned, intentOf, age, stripe, effects,
                 crashes, touched, raced>>

\* get_or_create_payment_intent: an intent that is on the row and not dead is
\* retrieved and handed out again.
PayRetrieve(h) ==
  /\ At(h, "pay", "gateway")
  /\ LET i == task[h].view.intentOf[task[h].subject]
     IN  IF i # Nobody /\ charge[i] # "canceled"
         THEN known' = known \cup {i} /\ Close(h)
         ELSE known' = known /\ GoTo(h, "create")
  /\ UNCHANGED <<provider, db, age, charge, owner, keyed, acked, effects,
                 crashes, history>>

\* Mutant: no idempotency key.
CreateIntentAnew(p, i) ==
  /\ charge[i] = "none"
  /\ charge' = [charge EXCEPT ![i] = "open"]
  /\ owner' = [owner EXCEPT ![i] = p]
  /\ UNCHANGED keyed

\* PaymentIntent.create with the payable's idempotency key: Stripe answers with
\* the intent it made under that key, whatever became of it, or makes one.
CreateIntent(p, i) ==
  IF keyed[p] # Nobody
  THEN i = keyed[p] /\ UNCHANGED <<charge, owner, keyed>>
  ELSE /\ charge[i] = "none"
       /\ charge' = [charge EXCEPT ![i] = "open"]
       /\ owner' = [owner EXCEPT ![i] = p]
       /\ keyed' = [keyed EXCEPT ![p] = i]

PayCreate(h, i) ==
  /\ At(h, "pay", "create")
  /\ CreateIntent(task[h].subject, i)
  /\ task' = [task EXCEPT ![h].step = "store", ![h].intent = i]
  /\ UNCHANGED <<provider, db, age, known, acked, effects, crashes, history>>

\* The reference is stored, unless it is the one that was read, and the
\* client_secret returned.
PayStore(h) ==
  /\ At(h, "pay", "store")
  /\ LET p == task[h].subject
     IN  intentOf' = IF task[h].view.intentOf[p] # task[h].intent
                     THEN [intentOf EXCEPT ![p] = task[h].intent] ELSE intentOf
  /\ known' = known \cup {task[h].intent}
  /\ Close(h)
  /\ UNCHANGED <<provider, status, tracking, returned, age, charge, owner,
                 keyed, acked, effects, crashes, history>>

\* The customer confirms the payment at Stripe.
Confirm(i) ==
  /\ i \in known /\ charge[i] = "open"
  /\ charge' = [charge EXCEPT ![i] = "succeeded"]
  /\ UNCHANGED <<provider, db, age, owner, keyed, known, acked, effects, task,
                 crashes, history>>

-------------------------------------------------------------------------------
\* POST /payments/webhook/stripe (mark_order_paid_by_payment_intent).  Stripe
\* delivers payment_intent.succeeded at least once: again while it has no 200,
\* and now and then although it has one.

Delivering(h, i) == task[h].kind = "webhook" /\ task[h].intent = i

\* The order or master order whose reference is i, as this session finds it.
WebhookOpened(i, p) ==
  [Opened("webhook", "commit", Awaiting(Rows, p)) EXCEPT !.subject = p, !.intent = i]

\* Mutants: Stripe has its 200 before the work is done; an event that finds no
\* order in 'pending_payment' is an error.
WebhookStartAnswered(h, i) ==
  /\ Idle(h)
  /\ charge[i] = "succeeded"
  /\ \E p \in Payables :
       /\ intentOf[p] = i
       /\ Awaiting(Rows, p) # {}
       /\ task' = [task EXCEPT ![h] = WebhookOpened(i, p)]
  /\ acked' = acked \cup {i}
  /\ UNCHANGED <<provider, db, age, charge, owner, keyed, known, effects, crashes,
                 history>>

WebhookStartStrict(h, i) ==
  /\ Idle(h)
  /\ charge[i] = "succeeded"
  /\ \E p \in Payables :
       /\ intentOf[p] = i
       /\ Awaiting(Rows, p) # {}
       /\ task' = [task EXCEPT ![h] = WebhookOpened(i, p)]
  /\ UNCHANGED <<provider, db, age, stripe, effects, crashes, history>>

WebhookStart(h, i) ==
  /\ Idle(h)
  /\ charge[i] = "succeeded"
  /\ \/ \E p \in Payables :
          /\ intentOf[p] = i
          /\ Awaiting(Rows, p) # {}
          /\ task' = [task EXCEPT ![h] = WebhookOpened(i, p)]
          /\ UNCHANGED acked
     \/ /\ \A p \in Payables : intentOf[p] = i => Awaiting(Rows, p) = {}
        /\ acked' = acked \cup {i}
        /\ UNCHANGED task
  /\ raced' = IF \E g \in Handlers : Delivering(g, i)
              THEN raced \cup {i} ELSE raced
  /\ UNCHANGED <<provider, db, age, charge, owner, keyed, known, effects,
                 crashes, touched, overwrote>>

WebhookCommit(h) ==
  /\ At(h, "webhook", "commit")
  /\ WriteStatus(h, task[h].todo, "processing")
  /\ task' = [task EXCEPT ![h].step = "courier",
                          ![h].view.status =
                            [o \in Orders |-> IF o \in task[h].todo
                                              THEN "processing" ELSE @[o]]]
  /\ UNCHANGED <<provider, tracking, returned, intentOf, age, stripe, effects,
                 crashes, touched, raced>>

\* maybe_auto_fulfill_order for one of the orders that were just marked: a
\* no-op, a courier that failed (logged), or a shipment to be committed.  The
\* tracking number it looks at is the one this session read at its start.
AutoFulfilCall(h, o) ==
  /\ task[h].kind \in {"pay", "webhook"} /\ task[h].step = "courier"
  /\ o \in task[h].todo
  /\ \/ /\ task' = [task EXCEPT ![h].todo = @ \ {o}]
        /\ UNCHANGED shipments
     \/ /\ o \in AutoFulfil \cap Physical
        /\ ~task[h].view.tracking[o]
        /\ shipments' = [shipments EXCEPT ![o] = Bump(@)]
        /\ task' = [task EXCEPT ![h].step = "ship", ![h].marked = {o}]
  /\ UNCHANGED <<provider, db, age, stripe, transfers, crashes, touched,
                 overwrote, raced>>

\* _apply_shipment_result and commit.
ShipCommit(h) ==
  /\ task[h].kind \in {"pay", "webhook", "fulfil"} /\ task[h].step = "ship"
  /\ WriteStatus(h, task[h].marked, "shipped")
  /\ tracking' = [o \in Orders |-> o \in task[h].marked \/ tracking[o]]
  /\ IF task[h].kind = "fulfil"
     THEN Close(h)
     ELSE task' = [task EXCEPT ![h].step = "courier",
                               ![h].todo = @ \ task[h].marked,
                               ![h].marked = {},
                               ![h].view.status =
                                 [o \in Orders |-> IF o \in task[h].marked
                                                   THEN "shipped" ELSE @[o]]]
  /\ UNCHANGED <<provider, returned, intentOf, age, stripe, effects, crashes,
                 touched, raced>>

\* After the last order: the mock handler is done.  The webhook goes on to the
\* transfers: of the order itself, or of the sub-orders this session knows as
\* processing or completed.
FulfilDone(h) ==
  /\ task[h].kind \in {"pay", "webhook"} /\ task[h].step = "courier"
  /\ task[h].todo = {}
  /\ IF task[h].kind = "pay"
     THEN Close(h)
     ELSE LET p == task[h].subject
              paid == IF p \in Masters
                      THEN {o \in Covered(p) :
                              task[h].view.status[o] \in {"processing", "completed"}}
                      ELSE {p}
          IN  task' = [task EXCEPT ![h].step = "transfer", ![h].todo = paid]
  /\ UNCHANGED <<provider, db, age, stripe, effects, crashes, history>>

\* _transfer_for_order: no Connect account, or the transfer failed (logged), or
\* it was made.
Transfer(h, o) ==
  /\ At(h, "webhook", "transfer")
  /\ o \in task[h].todo
  /\ \/ UNCHANGED transfers
     \/ /\ o \in Connected
        /\ transfers' = [transfers EXCEPT ![o] = Bump(@)]
  /\ task' = [task EXCEPT ![h].todo = @ \ {o}]
  /\ UNCHANGED <<provider, db, age, stripe, shipments, crashes, history>>

WebhookAnswer(h) ==
  /\ At(h, "webhook", "transfer")
  /\ task[h].todo = {}
  /\ acked' = acked \cup {task[h].intent}
  /\ Close(h)
  /\ UNCHANGED <<provider, db, age, charge, owner, keyed, known, effects,
                 crashes, history>>

-------------------------------------------------------------------------------
\* The customer cancels (cancel_customer_order_service), the vendor sets a
\* status (update_order_status_service) or ships (fulfill_order_service).

\* Mutant: the customer may cancel whatever the status.
CancelStartAny(h, o) ==
  /\ Idle(h)
  /\ task' = [task EXCEPT ![h] = Opened("cancel", "commit", {o})]
  /\ UNCHANGED <<provider, db, age, stripe, effects, crashes, history>>

CancelStart(h, o) ==
  /\ Idle(h)
  /\ status[o] = "pending_payment"
  /\ task' = [task EXCEPT ![h] = Opened("cancel", "commit", {o})]
  /\ UNCHANGED <<provider, db, age, stripe, effects, crashes, history>>

CancelCommit(h) ==
  /\ At(h, "cancel", "commit")
  /\ WriteStatus(h, task[h].todo, "cancelled")
  /\ ReturnStock(h, task[h].todo)
  /\ Close(h)
  /\ UNCHANGED <<provider, tracking, intentOf, age, stripe, effects, crashes,
                 touched, raced>>

SetStart(h, o, s) ==
  /\ Idle(h)
  /\ s \in {"processing", "completed", "cancelled"}
  /\ returned[o] < MaxReturned
  /\ task' = [task EXCEPT ![h] = [Opened("set", "commit", {o}) EXCEPT !.target = s]]
  /\ UNCHANGED <<provider, db, age, stripe, effects, crashes, history>>

SetCommit(h) ==
  /\ At(h, "set", "commit")
  /\ WriteStatus(h, task[h].todo, task[h].target)
  /\ ReturnStock(h, {o \in task[h].todo : /\ task[h].target = "cancelled"
                                          /\ task[h].view.status[o] # "cancelled"})
  /\ touched' = touched \cup task[h].todo
  /\ Close(h)
  /\ UNCHANGED <<provider, tracking, intentOf, age, stripe, effects, crashes,
                 raced>>

FulfilStart(h, o) ==
  /\ Idle(h)
  /\ o \in Physical
  /\ ~tracking[o] /\ status[o] = "processing"
  /\ task' = [task EXCEPT ![h] = Opened("fulfil", "courier", {o})]
  /\ UNCHANGED <<provider, db, age, stripe, effects, crashes, history>>

\* The courier refuses (502), or accepts and the result is to be committed.
FulfilCall(h) ==
  /\ At(h, "fulfil", "courier")
  /\ \/ Close(h) /\ UNCHANGED shipments
     \/ /\ shipments' = [o \in Orders |-> IF o \in task[h].todo
                                          THEN Bump(shipments[o]) ELSE shipments[o]]
        /\ task' = [task EXCEPT ![h].step = "ship", ![h].marked = task[h].todo]
  /\ UNCHANGED <<provider, db, age, stripe, transfers, crashes, history>>

-------------------------------------------------------------------------------
\* The sweep (cleanup_abandoned_checkouts), of any of the application processes.

\* The intent the sweep looks at for an order: its own, or else its master's.
SweptIntent(v, o) ==
  IF v.intentOf[o] # Nobody THEN v.intentOf[o]
  ELSE IF MasterOf[o] # Nobody THEN v.intentOf[MasterOf[o]] ELSE Nobody

SweepStart(h) ==
  /\ Idle(h)
  /\ LET candidates == {o \in Orders : /\ status[o] = "pending_payment"
                                       /\ age[o] # "fresh"}
     IN  /\ candidates # {}
         /\ task' = [task EXCEPT ![h] = Opened("sweep", "gateway", candidates)]
  /\ UNCHANGED <<provider, db, age, stripe, effects, crashes, history>>

\* No open charge anywhere, as far as this session read: expire it.
SweepNoCharge(h, o) ==
  /\ At(h, "sweep", "gateway")
  /\ o \in task[h].todo
  /\ SweptIntent(task[h].view, o) = Nobody
  /\ task' = [task EXCEPT ![h].todo = @ \ {o}, ![h].marked = @ \cup {o}]
  /\ UNCHANGED <<provider, db, age, stripe, effects, crashes, history>>

\* Within the grace window of a real gateway.
SweepGrace(h, o) ==
  /\ At(h, "sweep", "gateway")
  /\ o \in task[h].todo
  /\ SweptIntent(task[h].view, o) # Nobody
  /\ age[o] # "stripe_cutoff"
  /\ task' = [task EXCEPT ![h].todo = @ \ {o}]
  /\ UNCHANGED <<provider, db, age, stripe, effects, crashes, history>>

PastGrace(h, o) ==
  /\ At(h, "sweep", "gateway")
  /\ o \in task[h].todo
  /\ SweptIntent(task[h].view, o) # Nobody
  /\ age[o] = "stripe_cutoff"

\* Mutants: an intent that was canceled before is an error, and so is left for
\* the next sweep; Stripe's status is spelled as the orders' one is.
CancelIntentStrict(i) ==
  charge[i] = "open" /\ charge' = [charge EXCEPT ![i] = "canceled"]

CancelIntentMisspelt(i) ==
  charge' = IF charge[i] = "open" THEN [charge EXCEPT ![i] = "cancelled"] ELSE charge

\* cancel_payment_intent: an intent that cannot be canceled any more (already
\* canceled, or already paid) counts as canceled.
CancelIntent(i) ==
  charge' = IF charge[i] = "open" THEN [charge EXCEPT ![i] = "canceled"] ELSE charge

SweepCancel(h, o) ==
  /\ PastGrace(h, o)
  /\ MasterOf[o] \notin task[h].dead
  /\ CancelIntent(SweptIntent(task[h].view, o))
  /\ task' = [task EXCEPT ![h].todo = @ \ {o}, ![h].marked = @ \cup {o},
                          ![h].dead = @ \cup ({MasterOf[o]} \ {Nobody})]
  /\ UNCHANGED <<provider, db, age, owner, keyed, known, acked, effects,
                 crashes, history>>

\* The intent of this master was canceled for another sub-order already.
SweepMasterDead(h, o) ==
  /\ PastGrace(h, o)
  /\ MasterOf[o] \in task[h].dead
  /\ task' = [task EXCEPT ![h].todo = @ \ {o}, ![h].marked = @ \cup {o}]
  /\ UNCHANGED <<provider, db, age, stripe, effects, crashes, history>>

\* Mutant: the order is expired although its intent could not be canceled.
SweepCancelIgnored(h, o) ==
  /\ PastGrace(h, o)
  /\ MasterOf[o] \notin task[h].dead
  /\ task' = [task EXCEPT ![h].todo = @ \ {o}, ![h].marked = @ \cup {o}]
  /\ UNCHANGED <<provider, db, age, stripe, effects, crashes, history>>

\* Stripe could not be reached: the order is left for the next sweep.
SweepCancelFails(h, o) ==
  /\ PastGrace(h, o)
  /\ MasterOf[o] \notin task[h].dead
  /\ task' = [task EXCEPT ![h].todo = @ \ {o}]
  /\ UNCHANGED <<provider, db, age, stripe, effects, crashes, history>>

\* Mutant: the units are not put back.
SweepCommitOnly(h) ==
  /\ At(h, "sweep", "gateway")
  /\ task[h].todo = {}
  /\ WriteStatus(h, task[h].marked, "expired")
  /\ Close(h)
  /\ UNCHANGED <<provider, tracking, returned, intentOf, age, stripe, effects,
                 crashes, touched, raced>>

\* _expire_orders: all of them in one commit.
SweepCommit(h) ==
  /\ At(h, "sweep", "gateway")
  /\ task[h].todo = {}
  /\ WriteStatus(h, task[h].marked, "expired")
  /\ ReturnStock(h, task[h].marked)
  /\ Close(h)
  /\ UNCHANGED <<provider, tracking, intentOf, age, stripe, effects, crashes,
                 touched, raced>>

Grow(o) ==
  /\ age[o] # "stripe_cutoff"
  /\ age' = [age EXCEPT ![o] = IF @ = "fresh" THEN "mock_cutoff" ELSE "stripe_cutoff"]
  /\ UNCHANGED <<provider, db, stripe, effects, task, crashes, history>>

\* The process dies, or a call raises: what was not committed is rolled back,
\* what Stripe and the courier were told stays told.
Crash(h) ==
  /\ ~Idle(h)
  /\ crashes < MaxCrashes
  /\ crashes' = crashes + 1
  /\ Close(h)
  /\ UNCHANGED <<provider, db, age, stripe, effects, history>>

-------------------------------------------------------------------------------
\* A handler goes on with what it has begun.
Sweep(h) ==
  \/ SweepCommit(h)
  \/ \E o \in Orders : \/ SweepNoCharge(h, o) \/ SweepGrace(h, o)
                       \/ SweepCancel(h, o) \/ SweepMasterDead(h, o)
                       \/ SweepCancelFails(h, o)

Webhook(h) ==
  \/ WebhookCommit(h) \/ WebhookAnswer(h)
  \/ \E o \in Orders : Transfer(h, o)

Run(h) ==
  \/ PayMock(h) \/ PayRetrieve(h) \/ PayStore(h)
  \/ \E i \in Intents : PayCreate(h, i)
  \/ Webhook(h)
  \/ ShipCommit(h) \/ FulfilDone(h) \/ FulfilCall(h)
  \/ \E o \in Orders : AutoFulfilCall(h, o)
  \/ CancelCommit(h) \/ SetCommit(h)
  \/ Sweep(h)

Start(h) ==
  \/ \E p \in Payables : PayStart(h, p)
  \/ \E i \in Intents : WebhookStart(h, i)
  \/ \E o \in Orders : CancelStart(h, o) \/ FulfilStart(h, o)
  \/ \E o \in Orders, s \in Statuses : SetStart(h, o, s)
  \/ SweepStart(h)

Next ==
  \/ \E h \in Handlers : Start(h) \/ Run(h) \/ Crash(h)
  \/ \E i \in Intents : Confirm(i)
  \/ \E o \in Orders : Grow(o)

Spec == Init /\ [][Next]_vars

\* The event loop goes on with every handler; Stripe repeats an event until it
\* is answered; the sweep runs every minute, time passes, and Stripe can be
\* reached again and again.  Starting is strongly fair only because the model
\* has so few handlers that the others may keep them all busy.
Fairness ==
  /\ \A h \in Handlers : WF_vars(Run(h))
  /\ \A o \in Orders : WF_vars(Grow(o))
  /\ \A i \in Intents : SF_vars(i \notin acked /\ \E h \in Handlers : WebhookStart(h, i))
  /\ SF_vars(\E h \in Handlers : SweepStart(h))
  /\ \A o \in Orders : SF_vars(\E h \in Handlers : SweepCancel(h, o))

FairSpec == Spec /\ Fairness

-------------------------------------------------------------------------------
\* Properties

Covers(p, o) == o \in Covered(p)

Succeeded(o) == {i \in Intents : /\ charge[i] = "succeeded"
                                 /\ owner[i] # Nobody /\ Covers(owner[i], o)}

\* Whatever double clicks, retries, crashes between Stripe's answer and the
\* commit, and sweeps do: one order or master order never has two intents that
\* were, or could still be, paid (payments/__init__.py:39-43).
OneChargePerPayable ==
  \A i, j \in Intents :
    /\ owner[i] = owner[j] /\ owner[i] # Nobody
    /\ {charge[i], charge[j]} \subseteq {"open", "succeeded"}
    => i = j

\* An order the vendor never touched is only fulfilled if Stripe took money for
\* it: "only a verified webhook is allowed to move it to 'processing'"
\* (order_service.py:376-379), whatever commits in between.
FulfilledOnlyIfPaid ==
  provider = "stripe" =>
    \A o \in Orders \ touched :
      status[o] \in {"processing", "shipped", "completed"} => Succeeded(o) # {}

\* The customer's cancel and any number of sweeps may all find the same order
\* unpaid: its units go back to stock once.  (The vendor's status endpoint is
\* left out: it restores again every time it takes an order out of another
\* state.)
StockReturnedOnce == \A o \in Orders \ touched : returned[o] <= 1

\* No unit is kept by an order that will never be paid.
DeadOrderReturnsStock ==
  \A o \in Orders : status[o] \in Dead => returned[o] >= 1

\* As long as no commit wrote over a row it had not read, stock and status
\* agree: exactly the cancelled and expired orders gave their units back.
BooksBalance ==
  \A o \in Orders \ (touched \cup overwrote) :
    returned[o] = IF status[o] \in Dead THEN 1 ELSE 0

\* The sweep never releases stock under a charge it knew of and that the
\* customer can still pay: cancel first, and leave the order alone when the
\* cancel failed (tasks.py:61-80).  Sub-orders of a master one of whose
\* sub-orders has an intent of its own are left out: for them the code does not
\* look at the master's intent.
SweepCancelsFirst ==
  \A h \in Handlers : \A o \in task[h].marked :
    /\ task[h].kind = "sweep"
    /\ SweptIntent(task[h].view, o) # Nobody
    /\ \A p \in Orders : MasterOf[p] = MasterOf[o] /\ MasterOf[o] # Nobody =>
                           task[h].view.intentOf[p] = Nobody
    => charge[SweptIntent(task[h].view, o)] # "open"

\* A vendor is paid out for an order at most once per charge that covers it,
\* unless two deliveries of one event were in progress at once: a redelivery
\* that starts later, or after a crash, transfers nothing twice.
PayoutsMatchCharges ==
  \A o \in Orders :
    (\A i \in Succeeded(o) : i \notin raced)
      => transfers[o] <= Cardinality(Succeeded(o))

\* Stripe stops repeating an event only when nothing is left to lose: after the
\* 200, no order the payment covers is 'pending_payment', wherever a handler of
\* the event died before (payments_router.py:27-47).
AnsweredIsMarked ==
  \A i \in acked : \A o \in Covered(owner[i]) : status[o] # "pending_payment"

\* Money that was taken is noticed: every event is answered in the end, however
\* often its handler died.
PaidIsNoticed == \A i \in Intents : charge[i] = "succeeded" ~> i \in acked

\* Nothing reserves stock for ever: every order leaves 'pending_payment'.
ReservationEnds == \A o \in Orders : <>(status[o] # "pending_payment")

-------------------------------------------------------------------------------
\* What comments, docs and tests say, and the code does not do

\* tasks.py:20-24: orders with an open PaymentIntent "are only ever expired
\* after that PaymentIntent is explicitly canceled first".
ExpiredOnlyAfterCancel ==
  [][\A o \in Orders :
       status[o] # "expired" /\ status'[o] = "expired"
         => LET i == SweptIntent(Rows, o)
            IN  i # Nobody => charge[i] = "canceled"]_vars

\* payments/__init__.py:42-44 and tests/test_payments.py:322-325: when the old
\* intent is dead, /pay mints "a genuinely new one".
DeadIntentReplaced ==
  \A h \in Handlers :
    At(h, "pay", "store") /\ task[h].view.intentOf[task[h].subject] # Nobody
      => task[h].intent # task[h].view.intentOf[task[h].subject]

\* models/order.py:94-96: an order's own payment_intent_id is "NULL for mock-mode
\* orders and for marketplace sub-orders, which are paid via
\* MasterOrder.payment_intent_id instead"; payments/__init__.py:39-41: a retried
\* /pay "must never start a second charge for the same order".
OneChargePerOrder == \A o \in Orders : Cardinality(Succeeded(o)) <= 1
===============================================================================
