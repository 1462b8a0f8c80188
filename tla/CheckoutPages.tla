----------------------------- MODULE CheckoutPages -----------------------------
(***************************************************************************)
(* The page a shopper pays on: the checkout page of a store or of the      *)
(* marketplace, with its card form.  The page is mounted with fresh state, *)
(* its requests outlive it, and what it says of an order is what it last   *)
(* heard.  The server is the order's status and Stripe's charge            *)
(* (OrderPayments has the whole of it).                                    *)
(*                                                                         *)
(* Form fields are one thing, filled or not; amounts, coupons (Pricing),   *)
(* messages and the choice of a shipping method are left out.              *)
(***************************************************************************)
EXTENDS Naturals, FiniteSets

CONSTANTS MaxOrders,    \* bound: orders placed
          MaxPolls,     \* polls within POLL_TIMEOUT_MS
          MaxRequests,  \* bound: requests in progress
          MaxFailures   \* bound: requests that fail, sessions that end

ASSUME CheckoutPagesAssumption ==
  MaxOrders \in Nat \ {0} /\ MaxPolls \in Nat \ {0} /\ MaxFailures \in Nat
  /\ MaxRequests \in Nat \ {0}

VARIABLES
  kind,      \* "store" or "market": which checkout page
  gateway,   \* "mock" or "stripe"
  ship,      \* requiresShippingAddress
  page,      \* the page is mounted
  logged,    \* the token cookie is there
  rendered,  \* isLoggedIn, as of the last render
  filled,    \* the required fields of the form
  draft,     \* sessionStorage has a form that was filled in
  cart,      \* the page's cart has items
  basket,    \* the server's has
  order,     \* payingOrder, masterOrder
  done,      \* paymentDone
  secret,    \* stripePayment: the order whose intent it belongs to
  reqs,      \* requests in progress
  card,      \* the card form's handleSubmit
  placed, status, charged,  \* the server's orders, and Stripe's charges
  failures,
  paid,      \* history: orders that were marked paid
  owed       \* history: filled in, and sent to log in by the page

payVars == <<kind, gateway, ship, page, logged, rendered, filled, draft, cart,
             basket, order, done, secret, reqs, card, placed, status, charged,
             failures, paid, owed>>
form == <<filled, draft, owed>>
server == <<basket, placed, status, charged, paid>>
fixed == <<kind, gateway, ship>>

Orders == 1..MaxOrders
Request(k, o) == [kind |-> k, order |-> o, at |-> "sent", answer |-> "none", here |-> TRUE]
NoCard == [at |-> "off", order |-> 0, secret |-> 0, polls |-> 0, here |-> FALSE]
InProgress(kinds) == \E r \in reqs : r.kind \in kinds /\ r.here
Fail == failures < MaxFailures /\ failures' = failures + 1

\* What the page renders: the first that applies.
View ==
  IF ~page THEN "none"
  ELSE IF ~rendered THEN "login"
  ELSE IF order # 0 THEN (IF done THEN "done" ELSE "awaiting")
  ELSE IF cart THEN "form" ELSE "empty"

-------------------------------------------------------------------------------
PayInit ==
  /\ kind \in {"store", "market"} /\ gateway \in {"mock", "stripe"} /\ ship \in BOOLEAN
  /\ page = FALSE /\ logged \in BOOLEAN /\ rendered = FALSE
  /\ filled = FALSE /\ draft = FALSE
  /\ cart = TRUE /\ basket = TRUE
  /\ order = 0 /\ done = FALSE /\ secret = 0
  /\ reqs = {} /\ card = NoCard
  /\ placed = 0 /\ status = [o \in Orders |-> "none"] /\ charged = {}
  /\ failures = 0 /\ paid = {} /\ owed = FALSE

\* Mutant: the draft is thrown away unread.
VisitAfresh ==
  /\ ~page /\ page' = TRUE /\ rendered' = logged
  /\ filled' = FALSE /\ draft' = (kind # "store" /\ draft)
  /\ UNCHANGED <<fixed, logged, cart, server, order, done, secret, reqs, card,
                 failures, owed>>

\* Mounted: the draft is put into the form, and read once.
Visit ==
  /\ ~page /\ page' = TRUE /\ rendered' = logged
  /\ filled' = (kind = "store" /\ draft)
  /\ draft' = (kind # "store" /\ draft)
  /\ UNCHANGED <<fixed, logged, cart, server, order, done, secret, reqs, card,
                 failures, owed>>

\* Without its page this answer still does something: clear(), a draft.
Heard(r) == r.kind = "place"

\* Gone, by whatever link: its state is lost and its requests are not.
Unmount ==
  /\ page' = FALSE /\ rendered' = FALSE
  /\ filled' = FALSE /\ order' = 0 /\ done' = FALSE /\ secret' = 0
  /\ reqs' = {[r EXCEPT !.here = FALSE] : r \in {q \in reqs : q.at = "sent" \/ Heard(q)}}
  /\ card' = [card EXCEPT !.here = FALSE]
  /\ UNCHANGED <<fixed, logged, cart, server, failures>>

Leave == page /\ Unmount /\ UNCHANGED draft /\ owed' = (owed /\ draft)

\* The buttons of the login view; the store's keep the form in sessionStorage.
GoToLogin ==
  /\ View = "login" /\ kind = "store" /\ Unmount
  /\ draft' = filled /\ owed' = (owed \/ filled)

GoToLoginMarket ==
  /\ View = "login" /\ kind = "market" /\ Unmount /\ UNCHANGED <<draft, owed>>

\* useSyncExternalStore reads the cookie when the page is rendered again.
Rerender ==
  /\ page /\ rendered # logged /\ rendered' = logged
  /\ UNCHANGED <<fixed, page, logged, form, cart, server, order, done, secret,
                 reqs, card, failures>>

SignIn ==
  /\ ~page /\ ~logged /\ logged' = TRUE
  /\ UNCHANGED <<fixed, page, rendered, form, cart, server, order, done, secret,
                 reqs, card, failures>>

SessionEnds ==
  /\ logged /\ Fail /\ logged' = FALSE
  /\ UNCHANGED <<fixed, page, rendered, form, cart, server, order, done, secret,
                 reqs, card>>

\* Something is put into the cart again.
Shop ==
  /\ ~page /\ ~cart /\ ~basket /\ placed < MaxOrders
  /\ cart' = TRUE /\ basket' = TRUE
  /\ UNCHANGED <<fixed, page, logged, rendered, form, order, done, secret, reqs,
                 card, placed, status, charged, failures, paid>>

-------------------------------------------------------------------------------
FillIn ==
  /\ View = "form" /\ ship /\ ~filled /\ filled' = TRUE
  /\ UNCHANGED <<fixed, page, logged, rendered, draft, cart, server, order, done,
                 secret, reqs, card, failures, owed>>

FillInMarket == kind = "market" /\ FillIn
FillInStore == kind = "store" /\ FillIn

Send(r) ==
  /\ Cardinality(reqs) < MaxRequests
  /\ reqs' = reqs \cup {r}
  /\ UNCHANGED <<fixed, page, logged, rendered, form, cart, server, order, done,
                 secret, card, failures>>

\* handleCheckout, handlePay and handleCancelPending, of buttons that are disabled
\* while they are at work; only the store's page can cancel.
Complete == ship => filled
HandleCheckout ==
  /\ View = "form" /\ Complete /\ ~InProgress({"place"})
  /\ Send(Request("place", 0))

HandlePay ==
  /\ View = "awaiting" /\ secret = 0 /\ ~InProgress({"pay", "cancel"})
  /\ Send(Request("pay", order))

HandleCancelPending ==
  /\ View = "awaiting" /\ kind = "store" /\ ~InProgress({"pay", "cancel"})
  /\ Send(Request("cancel", order))

-------------------------------------------------------------------------------
Answer(r, what, o) ==
  reqs' = (reqs \ {r}) \cup
    IF r.here \/ Heard(r) THEN {[r EXCEPT !.at = "answered", !.answer = what, !.order = o]}
                         ELSE {}
ServerOnly == UNCHANGED <<fixed, page, logged, rendered, form, cart, order, done,
                          secret, card, failures>>

\* An order is made of a cart that is not empty, once.
ServePlace(r) ==
  /\ r.kind = "place" /\ r.at = "sent"
  /\ IF ~logged THEN Answer(r, "401", 0) /\ UNCHANGED server
     ELSE IF ~basket THEN Answer(r, "error", 0) /\ UNCHANGED server
     ELSE /\ placed < MaxOrders
          /\ placed' = placed + 1 /\ basket' = FALSE
          /\ status' = [status EXCEPT ![placed + 1] = "pending_payment"]
          /\ Answer(r, "ok", placed + 1) /\ UNCHANGED <<charged, paid>>
  /\ ServerOnly

\* The mock gateway pays at once, Stripe hands out the intent's secret.
ServePay(r) ==
  /\ r.kind = "pay" /\ r.at = "sent"
  /\ IF ~logged \/ status[r.order] # "pending_payment"
       THEN Answer(r, "error", r.order) /\ UNCHANGED <<status, paid>>
     ELSE IF gateway = "mock"
       THEN /\ \E new \in {"processing", "shipped"} :
                 status' = [status EXCEPT ![r.order] = new]
            /\ paid' = paid \cup {r.order}
            /\ Answer(r, "ok", r.order)
       ELSE Answer(r, "secret", r.order) /\ UNCHANGED <<status, paid>>
  /\ UNCHANGED <<basket, placed, charged>> /\ ServerOnly

ServeCancel(r) ==
  /\ r.kind = "cancel" /\ r.at = "sent"
  /\ IF ~logged \/ status[r.order] # "pending_payment"
       THEN Answer(r, "error", r.order) /\ UNCHANGED status
       ELSE /\ status' = [status EXCEPT ![r.order] = "cancelled"]
            /\ Answer(r, "ok", r.order)
  /\ UNCHANGED <<basket, placed, charged, paid>> /\ ServerOnly

\* The request, or its answer, is lost; or the server has an error.
RequestFails(r) ==
  /\ r.answer # "error" /\ Fail
  /\ Answer(r, "error", r.order)
  /\ UNCHANGED <<fixed, page, logged, rendered, form, cart, server, order, done,
                 secret, card>>

\* The webhook marks the order (under mock: it is paid from the list of orders),
\* the vendor ships it or not, the sweep expires it:
\* "completed" is to these pages what "processing" is, "expired" what "cancelled" is.
OrderMoves(o) ==
  /\ \/ status[o] = "pending_payment" /\ (o \in charged \/ gateway = "mock")
          /\ status' = [status EXCEPT ![o] = "processing"] /\ paid' = paid \cup {o}
     \/ status[o] = "processing" /\ UNCHANGED paid
          /\ \E new \in {"shipped", "cancelled"} :
               status' = [status EXCEPT ![o] = new]
     \/ status[o] = "pending_payment" /\ o \notin charged /\ UNCHANGED paid
          /\ status' = [status EXCEPT ![o] = "cancelled"]
  /\ UNCHANGED <<reqs, basket, placed, charged>> /\ ServerOnly

-------------------------------------------------------------------------------
\* The order is placed: clear() works even if the page is gone.  A 401 keeps the
\* store's form, for the login it asks for.
CheckoutAnswered(r) ==
  /\ r.kind = "place" /\ r.at = "answered" /\ reqs' = reqs \ {r}
  /\ order' = IF r.answer = "ok" /\ r.here THEN r.order ELSE order
  /\ cart' = (cart /\ r.answer # "ok")
  /\ IF r.answer = "401" /\ kind = "store"
       THEN draft' = ship /\ owed' = (owed \/ (ship /\ r.here)) /\ UNCHANGED filled
       ELSE UNCHANGED form
  /\ UNCHANGED <<fixed, page, logged, rendered, server, done, secret, card,
                 failures>>

PayAnswered(r) ==
  /\ r.kind = "pay" /\ r.at = "answered" /\ reqs' = reqs \ {r}
  /\ secret' = IF r.answer = "secret" /\ r.here THEN r.order ELSE secret
  /\ IF r.answer = "ok" /\ r.here THEN done' = TRUE ELSE UNCHANGED done
  /\ UNCHANGED <<fixed, page, logged, rendered, form, cart, server, order, card,
                 failures>>

CancelAnswered(r) ==
  /\ r.kind = "cancel" /\ r.at = "answered" /\ reqs' = reqs \ {r}
  /\ order' = IF r.answer = "ok" /\ r.here THEN 0 ELSE order
  /\ UNCHANGED <<fixed, page, logged, rendered, form, cart, server, done, secret,
                 card, failures>>

-------------------------------------------------------------------------------
\* The card form: handleSubmit, which goes on when the form is gone.
CardOnly == UNCHANGED <<fixed, page, logged, rendered, form, cart, basket, placed,
                        status, paid, secret, reqs>>

SubmitCard ==
  /\ View = "awaiting" /\ secret # 0 /\ card.at = "off"
  /\ card' = [at |-> "confirm", order |-> order, secret |-> secret, polls |-> 0, here |-> TRUE]
  /\ CardOnly /\ UNCHANGED <<charged, order, done, failures>>

\* confirmCardPayment: refused, being processed, or charged.
Confirmed ==
  /\ card.at = "confirm"
  /\ \/ card' = NoCard /\ UNCHANGED charged
     \/ /\ card' = [card EXCEPT !.at = "check"]
        /\ charged' \in {charged, charged \cup {card.secret}}
  /\ CardOnly /\ UNCHANGED <<order, done, failures>>

\* Mutant: what Stripe said of the card is good enough.
TrustStripe ==
  /\ card.at = "check" /\ card' = [card EXCEPT !.at = "success"]
  /\ CardOnly /\ UNCHANGED <<charged, order, done, failures>>

\* checkPaid asks our server, not Stripe.
PaidStatus == {"processing", "completed"}
CheckPaid ==
  /\ card.at = "check"
  /\ card' = [card EXCEPT !.at =
                IF status[card.order] \in PaidStatus THEN "success" ELSE "sleep"]
  /\ CardOnly /\ UNCHANGED <<charged, order, done, failures>>

\* Until the deadline.
PollAgain ==
  /\ card.at = "sleep"
  /\ \/ card.polls < MaxPolls /\ card' = [card EXCEPT !.at = "check", !.polls = @ + 1]
     \/ card' = NoCard
  /\ CardOnly /\ UNCHANGED <<charged, order, done, failures>>

\* onSuccess: the store's page reads the order once more, the other does not.
OnSuccess ==
  /\ card.at = "success" /\ card' = NoCard
  /\ IF card.here THEN order' = card.order /\ done' = TRUE ELSE UNCHANGED <<order,
                                                                            done>>
  /\ CardOnly /\ UNCHANGED <<charged, failures>>

\* A poll fails: an error.  The read in onSuccess fails: nobody is told anything.
CardRequestFails ==
  /\ card.at = "check" \/ (card.at = "success" /\ kind = "store")
  /\ Fail /\ card' = NoCard
  /\ CardOnly /\ UNCHANGED <<charged, order, done>>

StripeCardForm == Confirmed \/ CheckPaid \/ PollAgain \/ OnSuccess \/ CardRequestFails

-------------------------------------------------------------------------------
Serve(r) == ServePlace(r) \/ ServePay(r) \/ ServeCancel(r) \/ RequestFails(r)
Hear(r) == CheckoutAnswered(r) \/ PayAnswered(r) \/ CancelAnswered(r)

PayNext ==
  \/ Visit \/ Leave \/ GoToLogin \/ GoToLoginMarket \/ Rerender \/ SignIn \/ SessionEnds \/ Shop
  \/ FillInStore \/ FillInMarket \/ HandleCheckout \/ HandlePay \/ HandleCancelPending
  \/ SubmitCard \/ StripeCardForm
  \/ \E o \in Orders : OrderMoves(o)
  \/ \E r \in reqs : Serve(r) \/ Hear(r)

PaySpec == PayInit /\ [][PayNext]_payVars

-------------------------------------------------------------------------------
\* A shopper is told that an order is paid only when the server has marked it
\* paid: a card that Stripe accepted, an order cancelled under the card form and
\* an answer that comes when its page is gone are not enough
\* (StripeCardForm.tsx:89-107, checkout/page.tsx:193-217).
PaidWhenToldSo == done => order \in paid

\* What was typed into the store's form survives a login the page asked for: it
\* is in the form or in sessionStorage (checkout/page.tsx:68-83, 137-182, 233-260).
DraftSurvives == owed => filled \/ draft
===============================================================================
