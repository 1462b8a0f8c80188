-------------------------- MODULE CheckoutPagesProofs --------------------------
(***************************************************************************)
(* Theorems about CheckoutPages, for every number of orders, polls,        *)
(* requests and failures.                                                  *)
(***************************************************************************)
EXTENDS CheckoutPages, TLAPS

Statuses == {"none", "pending_payment", "processing", "shipped", "cancelled"}
MaybeOrder == 0..MaxOrders
Requests == [kind : {"place", "pay", "cancel"}, order : MaybeOrder, at : {"sent", "answered"},
             answer : {"none", "ok", "secret", "401", "error"}, here : BOOLEAN]
Cards == [at : {"off", "confirm", "check", "sleep", "success"}, order : MaybeOrder,
          secret : MaybeOrder, polls : Nat, here : BOOLEAN]

PayTyped ==
  /\ kind \in {"store", "market"} /\ gateway \in {"mock", "stripe"}
  /\ ship \in BOOLEAN /\ page \in BOOLEAN /\ logged \in BOOLEAN /\ rendered \in BOOLEAN
  /\ filled \in BOOLEAN /\ draft \in BOOLEAN /\ cart \in BOOLEAN /\ basket \in BOOLEAN
  /\ done \in BOOLEAN /\ owed \in BOOLEAN
  /\ order \in MaybeOrder /\ secret \in MaybeOrder
  /\ reqs \subseteq Requests /\ card \in Cards
  /\ placed \in MaybeOrder /\ status \in [Orders -> Statuses]
  /\ charged \subseteq Orders /\ paid \subseteq Orders

\* Payments, cancellations and cards are of an order.
OfOrder ==
  /\ \A r \in reqs : r.kind \in {"pay", "cancel"} => r.order \in Orders
  /\ card.at # "off" => card.order \in Orders /\ card.secret \in Orders

PayTypeInv == PayTyped /\ OfOrder

\* Requests of the page that is mounted now.
Placing(r) == r.here /\ r.kind = "place"
OnOrder(r) == r.here /\ r.kind \in {"pay", "cancel"}
CardHere == card.at # "off" /\ card.here

\* What the server has marked paid was pending, and is not again.
Ledger ==
  /\ \A o \in Orders : o > placed => status[o] = "none"
  /\ \A o \in Orders : status[o] \in {"none", "pending_payment"} => o \notin paid
  /\ \A o \in Orders : status[o] \in PaidStatus => o \in paid

\* What an answer says was true when the server gave it, and still is.
AnswersTrue ==
  /\ \A r \in reqs : r.kind = "pay" /\ r.answer = "ok" => r.order \in paid
  /\ \A r \in reqs : r.kind = "cancel" /\ r.answer = "ok"
                       => r.order \notin paid /\ status[r.order] = "cancelled"
  /\ card.at = "success" => card.order \in paid

\* One request of a kind at a time, and none of an order while one is placed: the
\* cart is empty as long as the page has an order.
OneAtATime ==
  /\ \A r, q \in reqs : Placing(r) /\ Placing(q) => r = q
  /\ \A r, q \in reqs : OnOrder(r) /\ OnOrder(q) => r = q
  /\ \A r, q \in reqs : ~(Placing(r) /\ OnOrder(q))
  /\ \A r \in reqs : Placing(r) => order = 0 /\ ~CardHere /\ ~done
  /\ \A r \in reqs : OnOrder(r) => order = r.order
  /\ CardHere => order \in {0, card.order}
  /\ order # 0 \/ CardHere => ~cart
  /\ ~page => order = 0 /\ ~done /\ ~CardHere /\ \A r \in reqs : ~r.here

PaidInv == Ledger /\ AnswersTrue /\ OneAtATime /\ PaidWhenToldSo

\* What was filled in is in the form of the store's page as long as it is mounted.
DraftInv ==
  /\ filled \/ draft \/ owed => ship
  /\ owed => kind = "store"
  /\ ~page => ~filled /\ \A r \in reqs : ~r.here
  /\ \A r \in reqs : Placing(r) /\ ship => filled
  /\ owed => IF page THEN filled ELSE draft

-------------------------------------------------------------------------------
LEMMA Numbers == 0 \in MaybeOrder /\ Orders \subseteq MaybeOrder /\ 0 \notin Orders
                 /\ \A o \in MaybeOrder : o # 0 => o \in Orders
  BY CheckoutPagesAssumption DEF CheckoutPagesAssumption, MaybeOrder, Orders

LEMMA NoCardTyped == NoCard \in Cards /\ NoCard.at = "off"
  BY Numbers DEF NoCard, Cards

Answered(r, what, o) == [r EXCEPT !.at = "answered", !.answer = what, !.order = o]

\* An answer puts itself in its request's place, or nothing.
LEMMA AnswerStep ==
  ASSUME PayTyped, NEW r \in reqs, NEW what \in {"ok", "secret", "401", "error"},
         NEW o \in MaybeOrder, Answer(r, what, o)
  PROVE  /\ reqs' \subseteq (reqs \ {r}) \cup {Answered(r, what, o)}
         /\ Answered(r, what, o) \in Requests
         /\ Answered(r, what, o).kind = r.kind /\ Answered(r, what, o).here = r.here
         /\ Answered(r, what, o).order = o /\ Answered(r, what, o).answer = what
         /\ reqs' \subseteq Requests
<1>1. r \in Requests
  BY DEF PayTyped
<1>2. Answered(r, what, o) \in Requests
  BY <1>1 DEF Answered, Requests
<1>3. /\ Answered(r, what, o).kind = r.kind /\ Answered(r, what, o).here = r.here
      /\ Answered(r, what, o).order = o /\ Answered(r, what, o).answer = what
  BY <1>1 DEF Answered, Requests
<1>4. reqs' \subseteq (reqs \ {r}) \cup {Answered(r, what, o)}
  BY DEF Answer, Answered
<1> QED
  BY <1>2, <1>3, <1>4 DEF PayTyped

\* The requests of a page that is gone: the same, but nobody hears them.
LEMMA UnmountStep ==
  ASSUME PayTyped, Unmount
  PROVE  /\ reqs' \subseteq Requests
         /\ \A r \in reqs' : ~r.here /\ \E q \in reqs : /\ r.kind = q.kind /\ r.order = q.order
                                                        /\ r.answer = q.answer
         /\ card' \in Cards /\ card'.at = card.at /\ card'.order = card.order
         /\ card'.secret = card.secret /\ ~card'.here
<1>1. \A q \in reqs : /\ q \in Requests /\ [q EXCEPT !.here = FALSE] \in Requests
                      /\ [q EXCEPT !.here = FALSE].here = FALSE
                      /\ [q EXCEPT !.here = FALSE].kind = q.kind
                      /\ [q EXCEPT !.here = FALSE].order = q.order
                      /\ [q EXCEPT !.here = FALSE].answer = q.answer
  BY DEF PayTyped, Requests
<1>2. \A r \in reqs' : \E q \in reqs : r = [q EXCEPT !.here = FALSE]
  BY DEF Unmount
<1>3. /\ card' \in Cards /\ card'.at = card.at /\ card'.order = card.order
      /\ card'.secret = card.secret /\ ~card'.here
  BY DEF Unmount, PayTyped, Cards
<1>4. ASSUME NEW r \in reqs'
      PROVE  /\ r \in Requests /\ ~r.here
             /\ \E q \in reqs : r.kind = q.kind /\ r.order = q.order /\ r.answer = q.answer
  <2>1. PICK q \in reqs : r = [q EXCEPT !.here = FALSE]
    BY <1>2
  <2> QED
    BY <1>1, <2>1
<1> QED
  BY <1>3, <1>4

LEMMA TypedInit == PayInit => PayTypeInv
<1> SUFFICES ASSUME PayInit PROVE PayTypeInv
  OBVIOUS
<1>1. status \in [Orders -> Statuses]
  BY DEF PayInit, Statuses
<1>2. order \in MaybeOrder /\ secret \in MaybeOrder /\ placed \in MaybeOrder
  BY Numbers DEF PayInit
<1>3. PayTyped
  BY <1>1, <1>2, NoCardTyped DEF PayInit, PayTyped
<1> QED
  BY <1>3, NoCardTyped DEF PayInit, PayTypeInv, OfOrder

\* What the page does by itself.
LEMMA TypedByPage ==
  ASSUME PayTypeInv,
         \/ Visit \/ Leave \/ GoToLogin \/ GoToLoginMarket \/ Rerender \/ SignIn
         \/ SessionEnds \/ Shop \/ FillIn
  PROVE  PayTypeInv'
<1>a. PayTyped /\ OfOrder
  BY DEF PayTypeInv
<1>1. ASSUME PayTyped', UNCHANGED <<reqs, card>> PROVE PayTypeInv'
  BY <1>a, <1>1 DEF PayTypeInv, OfOrder
<1>2. CASE Visit
  BY <1>a, <1>1, <1>2 DEF Visit, PayTyped, fixed, server
<1>3. ASSUME Unmount, draft' \in BOOLEAN, owed' \in BOOLEAN PROVE PayTypeInv'
  <2>1. /\ reqs' \subseteq Requests
        /\ \A r \in reqs' : \E q \in reqs : r.kind = q.kind /\ r.order = q.order
        /\ card' \in Cards /\ card'.at = card.at /\ card'.order = card.order
        /\ card'.secret = card.secret
    BY <1>a, <1>3, UnmountStep
  <2>2. /\ page' = FALSE /\ rendered' = FALSE /\ filled' = FALSE /\ order' = 0
        /\ done' = FALSE /\ secret' = 0
        /\ UNCHANGED <<kind, gateway, ship, logged, cart, basket, placed, status, charged, paid>>
    BY <1>3 DEF Unmount, fixed, server
  <2>3. PayTyped'
    BY <1>a, <1>3, <2>1, <2>2, Numbers DEF PayTyped
  <2>4. OfOrder'
    BY <1>a, <2>1 DEF OfOrder
  <2> QED
    BY <2>3, <2>4 DEF PayTypeInv
<1>4. CASE Leave \/ GoToLogin \/ GoToLoginMarket
  BY <1>a, <1>3, <1>4 DEF Leave, GoToLogin, GoToLoginMarket, PayTyped
<1>5. CASE Rerender
  BY <1>a, <1>1, <1>5 DEF Rerender, PayTyped, fixed, form, server
<1>6. CASE SignIn
  BY <1>a, <1>1, <1>6 DEF SignIn, PayTyped, fixed, form, server
<1>7. CASE SessionEnds
  <2>1. /\ logged' = FALSE
        /\ UNCHANGED <<kind, gateway, ship, page, rendered, filled, draft, owed, cart, basket,
                       order, done, secret, reqs, card, placed, status, charged, paid>>
    BY <1>7 DEF SessionEnds, fixed, form, server
  <2>2. PayTyped'
    BY <1>a, <2>1 DEF PayTyped
  <2> QED
    BY <1>1, <2>1, <2>2
<1>8. CASE Shop
  BY <1>a, <1>1, <1>8 DEF Shop, PayTyped, fixed, form
<1>9. CASE FillIn
  BY <1>a, <1>1, <1>9 DEF FillIn, PayTyped, fixed, server
<1> QED
  BY <1>2, <1>4, <1>5, <1>6, <1>7, <1>8, <1>9

LEMMA RequestTyped ==
  ASSUME NEW k \in {"place", "pay", "cancel"}, NEW o \in MaybeOrder
  PROVE  /\ Request(k, o) \in Requests /\ Request(k, o).kind = k /\ Request(k, o).order = o
         /\ Request(k, o).answer = "none" /\ Request(k, o).here
  BY DEF Request, Requests

LEMMA TypedBySend ==
  ASSUME PayTypeInv, HandleCheckout \/ HandlePay \/ HandleCancelPending
  PROVE  PayTypeInv'
<1>a. PayTyped /\ OfOrder
  BY DEF PayTypeInv
<1>1. ASSUME NEW k \in {"place", "pay", "cancel"}, NEW o \in MaybeOrder, k # "place" => o # 0,
             Send(Request(k, o))
      PROVE  PayTypeInv'
  <2>1. PayTyped'
    BY <1>a, <1>1, RequestTyped DEF Send, PayTyped, fixed, form, server
  <2>2. OfOrder'
    BY <1>a, <1>1, RequestTyped, Numbers DEF Send, OfOrder
  <2> QED
    BY <2>1, <2>2 DEF PayTypeInv
<1> QED
  BY <1>a, <1>1, Numbers DEF HandleCheckout, HandlePay, HandleCancelPending, View, PayTyped

\* What the server does with a request.
LEMMA TypedByServer ==
  ASSUME PayTypeInv, NEW r \in reqs, Serve(r)
  PROVE  PayTypeInv'
<1>a. PayTyped /\ OfOrder
  BY DEF PayTypeInv
<1>b. r \in Requests /\ r.order \in MaybeOrder
  BY <1>a DEF PayTyped, Requests
<1>1. ASSUME NEW what \in {"ok", "secret", "401", "error"}, NEW o \in MaybeOrder, Answer(r, what, o),
             r.kind = "place" \/ o = r.order
      PROVE  /\ reqs' \subseteq Requests
             /\ \A q \in reqs' : q.kind \in {"pay", "cancel"} => q.order \in Orders
  BY <1>a, <1>1, AnswerStep DEF OfOrder
<1>2. ASSUME reqs' \subseteq Requests, \A q \in reqs' : q.kind \in {"pay", "cancel"} => q.order \in Orders,
             basket' \in BOOLEAN, placed' \in MaybeOrder, charged' \subseteq Orders, paid' \subseteq Orders,
             status' \in [Orders -> Statuses], ServerOnly \/ RequestFails(r)
      PROVE  PayTypeInv'
  BY <1>a, <1>2 DEF ServerOnly, RequestFails, PayTypeInv, PayTyped, OfOrder, fixed, form
<1>3. CASE ServePlace(r)
  <2>1. placed + 1 \in MaybeOrder \/ ~(placed < MaxOrders)
    BY <1>a, CheckoutPagesAssumption DEF CheckoutPagesAssumption, PayTyped, MaybeOrder
  <2>2. \E what \in {"ok", "401", "error"}, o \in MaybeOrder : Answer(r, what, o)
    BY <1>3, <2>1, Numbers DEF ServePlace
  <2>3. basket' \in BOOLEAN /\ placed' \in MaybeOrder /\ charged' \subseteq Orders /\ paid' \subseteq Orders
    BY <1>a, <1>3, <2>1 DEF ServePlace, PayTyped, server
  <2>4. status' \in [Orders -> Statuses]
    BY <1>a, <1>3 DEF ServePlace, PayTyped, Statuses, server
  <2>5. r.kind = "place" /\ ServerOnly
    BY <1>3 DEF ServePlace
  <2> QED
    BY <1>1, <1>2, <2>2, <2>3, <2>4, <2>5
<1>4. CASE ServePay(r)
  <2>1. \E what \in {"ok", "secret", "error"} : Answer(r, what, r.order)
    BY <1>4 DEF ServePay
  <2>2. status' \in [Orders -> Statuses]
    BY <1>a, <1>4 DEF ServePay, PayTyped, Statuses
  <2>3. r.order \in Orders
    BY <1>a, <1>4 DEF ServePay, OfOrder
  <2>4. paid' \subseteq Orders /\ UNCHANGED <<basket, placed, charged>> /\ ServerOnly
    BY <1>a, <1>4, <2>3 DEF ServePay, PayTyped
  <2> QED
    BY <1>a, <1>b, <1>1, <1>2, <2>1, <2>2, <2>4 DEF PayTyped
<1>5. CASE ServeCancel(r)
  <2>1. \E what \in {"ok", "error"} : Answer(r, what, r.order)
    BY <1>5 DEF ServeCancel
  <2>2. status' \in [Orders -> Statuses]
    BY <1>a, <1>5 DEF ServeCancel, PayTyped, Statuses
  <2>3. UNCHANGED <<basket, placed, charged, paid>> /\ ServerOnly
    BY <1>5 DEF ServeCancel
  <2> QED
    BY <1>a, <1>b, <1>1, <1>2, <2>1, <2>2, <2>3 DEF PayTyped
<1>6. CASE RequestFails(r)
  <2>1. Answer(r, "error", r.order) /\ UNCHANGED <<basket, placed, status, charged, paid>>
    BY <1>6 DEF RequestFails, server
  <2> QED
    BY <1>a, <1>b, <1>1, <1>2, <1>6, <2>1 DEF PayTyped
<1> QED
  BY <1>3, <1>4, <1>5, <1>6 DEF Serve

LEMMA TypedByOrder ==
  ASSUME PayTypeInv, NEW o \in Orders, OrderMoves(o)
  PROVE  PayTypeInv'
<1>1. status' \in [Orders -> Statuses] /\ paid' \subseteq Orders
  BY DEF OrderMoves, PayTypeInv, PayTyped, Statuses
<1> QED
  BY <1>1 DEF OrderMoves, ServerOnly, PayTypeInv, PayTyped, OfOrder, fixed, form

\* What the page does with an answer.
LEMMA TypedByAnswer ==
  ASSUME PayTypeInv, NEW r \in reqs, Hear(r)
  PROVE  PayTypeInv'
<1>a. PayTyped /\ OfOrder
  BY DEF PayTypeInv
<1>b. r.order \in MaybeOrder /\ reqs' \subseteq reqs
  BY <1>a DEF PayTyped, Requests, Hear, CheckoutAnswered, PayAnswered, CancelAnswered
<1>1. OfOrder'
  BY <1>a, <1>b DEF OfOrder, Hear, CheckoutAnswered, PayAnswered, CancelAnswered
<1>2. ASSUME CheckoutAnswered(r) PROVE PayTyped'
  <2>1. order' \in MaybeOrder /\ cart' \in BOOLEAN
    BY <1>a, <1>b, <1>2 DEF CheckoutAnswered, PayTyped
  <2>2. draft' \in BOOLEAN /\ owed' \in BOOLEAN /\ filled' = filled
    BY <1>a, <1>2 DEF CheckoutAnswered, PayTyped, form
  <2> QED
    BY <1>a, <1>b, <1>2, <2>1, <2>2 DEF CheckoutAnswered, PayTyped, fixed, server
<1>3. ASSUME PayAnswered(r) PROVE PayTyped'
  <2>1. secret' \in MaybeOrder /\ done' \in BOOLEAN
    BY <1>a, <1>b, <1>3 DEF PayAnswered, PayTyped
  <2> QED
    BY <1>a, <1>b, <1>3, <2>1 DEF PayAnswered, PayTyped, fixed, form, server
<1>4. ASSUME CancelAnswered(r) PROVE PayTyped'
  <2>1. order' \in MaybeOrder
    BY <1>a, <1>4, Numbers DEF CancelAnswered, PayTyped
  <2> QED
    BY <1>a, <1>b, <1>4, <2>1 DEF CancelAnswered, PayTyped, fixed, form, server
<1> QED
  BY <1>1, <1>2, <1>3, <1>4 DEF Hear, PayTypeInv

LEMMA TypedByCard ==
  ASSUME PayTypeInv, SubmitCard \/ StripeCardForm
  PROVE  PayTypeInv'
<1>a. PayTyped /\ OfOrder
  BY DEF PayTypeInv
<1>1. ASSUME CardOnly, card' \in Cards, card'.at # "off" => card'.order \in Orders /\ card'.secret \in Orders,
             charged' \subseteq Orders, order' \in MaybeOrder, done' \in BOOLEAN
      PROVE  PayTypeInv'
  BY <1>a, <1>1 DEF CardOnly, PayTypeInv, PayTyped, OfOrder, fixed, form
<1>2. CASE SubmitCard
  <2>1. /\ card' \in Cards /\ card'.order = order /\ order \in Orders
        /\ card'.secret = secret /\ secret \in Orders
    BY <1>a, <1>2, Numbers DEF SubmitCard, View, PayTyped, Cards
  <2> QED
    BY <1>a, <1>1, <1>2, <2>1 DEF SubmitCard, PayTyped
<1>3. CASE Confirmed
  <2>1. card' = NoCard \/ (/\ card' \in Cards /\ card'.order = card.order
                          /\ card'.secret = card.secret)
    BY <1>a, <1>3 DEF Confirmed, PayTyped, Cards
  <2>2. charged' \subseteq Orders
    BY <1>a, <1>3 DEF Confirmed, PayTyped, OfOrder
  <2>3. card.order \in Orders /\ card.secret \in Orders
    BY <1>a, <1>3 DEF Confirmed, OfOrder
  <2> QED
    BY <1>a, <1>1, <1>3, <2>1, <2>2, <2>3, NoCardTyped DEF Confirmed, PayTyped
<1>4. CASE CheckPaid
  <2>1. card' \in Cards /\ card'.order = card.order /\ card'.secret = card.secret
    BY <1>a, <1>4 DEF CheckPaid, PayTyped, Cards
  <2> QED
    BY <1>a, <1>1, <1>4, <2>1 DEF CheckPaid, PayTyped, OfOrder
<1>5. CASE PollAgain
  <2>1. card' = NoCard \/ (/\ card' \in Cards /\ card'.order = card.order
                          /\ card'.secret = card.secret)
    <3>1. CASE card' = [card EXCEPT !.at = "check", !.polls = @ + 1]
      <4>1. card.polls + 1 \in Nat /\ card \in Cards
        BY <1>a DEF PayTyped, Cards
      <4> DEFINE n == card.polls + 1
      <4>2. n \in Nat /\ card' = [card EXCEPT !.at = "check", !.polls = n]
        BY <3>1, <4>1
      <4> HIDE DEF n
      <4> QED
        BY <4>1, <4>2 DEF Cards
    <3> QED
      BY <1>5, <3>1 DEF PollAgain
  <2> QED
    BY <1>a, <1>1, <1>5, <2>1, NoCardTyped DEF PollAgain, PayTyped, OfOrder
<1>6. CASE OnSuccess
  <2>1. card.order \in MaybeOrder
    BY <1>a DEF PayTyped, Cards
  <2> QED
    BY <1>a, <1>1, <1>6, <2>1, NoCardTyped DEF OnSuccess, PayTyped
<1>7. CASE CardRequestFails
  BY <1>a, <1>1, <1>7, NoCardTyped DEF CardRequestFails, PayTyped
<1> QED
  BY <1>2, <1>3, <1>4, <1>5, <1>6, <1>7 DEF StripeCardForm

LEMMA TypedNext == PayTypeInv /\ [PayNext]_payVars => PayTypeInv'
<1> SUFFICES ASSUME PayTypeInv, [PayNext]_payVars PROVE PayTypeInv'
  OBVIOUS
<1>1. CASE UNCHANGED payVars
  BY <1>1 DEF payVars, PayTypeInv, PayTyped, OfOrder
<1> QED
  BY <1>1, TypedByPage, TypedBySend, TypedByServer, TypedByOrder, TypedByAnswer, TypedByCard
  DEF PayNext, FillInStore, FillInMarket

-------------------------------------------------------------------------------
(***************************************************************************)
(* PaidWhenToldSo.                                                         *)
(***************************************************************************)
LEMMA PaidInit == PayInit => PaidInv
<1> SUFFICES ASSUME PayInit PROVE PaidInv
  OBVIOUS
<1>1. Ledger
  BY DEF PayInit, Ledger, PaidStatus
<1>2. AnswersTrue /\ OneAtATime /\ PaidWhenToldSo
  BY NoCardTyped
  DEF PayInit, AnswersTrue, OneAtATime, PaidWhenToldSo, Placing, OnOrder, CardHere
<1> QED
  BY <1>1, <1>2 DEF PaidInv

\* What the page does without a request, and does not go away.
LEMMA PaidByPage ==
  ASSUME PayTypeInv, PaidInv, Visit \/ Rerender \/ SignIn \/ SessionEnds \/ Shop \/ FillIn
  PROVE  PaidInv'
<1>1. /\ UNCHANGED <<order, done, reqs, card, placed, status, paid>>
      /\ ~page' => ~page
      /\ (order = 0 /\ ~CardHere) \/ UNCHANGED cart
  BY DEF Visit, Rerender, SignIn, SessionEnds, Shop, FillIn, server, PaidInv, OneAtATime
<1>2. Ledger' /\ AnswersTrue' /\ PaidWhenToldSo'
  BY <1>1 DEF PaidInv, Ledger, AnswersTrue, PaidWhenToldSo
<1>3. OneAtATime'
  BY <1>1 DEF PaidInv, OneAtATime, Placing, OnOrder, CardHere
<1> QED
  BY <1>2, <1>3 DEF PaidInv

LEMMA PaidByUnmount ==
  ASSUME PayTypeInv, PaidInv, Unmount
  PROVE  PaidInv'
<1>1. /\ \A r \in reqs' : ~r.here /\ \E q \in reqs : /\ r.kind = q.kind /\ r.order = q.order
                                                     /\ r.answer = q.answer
      /\ card'.at = card.at /\ card'.order = card.order /\ ~card'.here
  BY UnmountStep DEF PayTypeInv
<1>2. page' = FALSE /\ order' = 0 /\ done' = FALSE /\ UNCHANGED <<cart, placed, status, paid>>
  BY DEF Unmount, server
<1>3. Ledger' /\ PaidWhenToldSo'
  BY <1>2 DEF PaidInv, Ledger, PaidWhenToldSo
<1>4. AnswersTrue'
  BY <1>1, <1>2 DEF PaidInv, AnswersTrue
<1>5. OneAtATime'
  BY <1>1, <1>2 DEF OneAtATime, Placing, OnOrder, CardHere
<1> QED
  BY <1>3, <1>4, <1>5 DEF PaidInv

LEMMA PaidBySend ==
  ASSUME PayTypeInv, PaidInv, HandleCheckout \/ HandlePay \/ HandleCancelPending
  PROVE  PaidInv'
<1>1. PICK k \in {"place", "pay", "cancel"}, o \in MaybeOrder :
        /\ Send(Request(k, o)) /\ page
        /\ k = "place" => /\ order = 0 /\ cart /\ \A r \in reqs : ~Placing(r)
        /\ k # "place" => /\ order # 0 /\ o = order /\ \A r \in reqs : ~OnOrder(r)
  BY Numbers DEF HandleCheckout, HandlePay, HandleCancelPending, View, InProgress, Placing,
                 OnOrder, PayTypeInv, PayTyped
<1> DEFINE new == Request(k, o)
<1>2. new.kind = k /\ new.order = o /\ new.answer = "none" /\ new.here
  BY RequestTyped
<1>3. /\ reqs' = reqs \cup {new}
      /\ UNCHANGED <<page, cart, order, done, card, placed, status, paid>>
  BY <1>1 DEF Send, server
<1> HIDE DEF new
<1>4. Ledger' /\ PaidWhenToldSo'
  BY <1>3 DEF PaidInv, Ledger, PaidWhenToldSo
<1>5. AnswersTrue'
  BY <1>2, <1>3 DEF PaidInv, AnswersTrue
<1>6. CASE k = "place"
  <2>1. ~done /\ ~CardHere
    BY <1>1, <1>6, Numbers DEF PaidInv, PaidWhenToldSo, OneAtATime, PayTypeInv, PayTyped
  <2>2. \A r \in reqs : ~OnOrder(r)
    BY <1>1, <1>6, Numbers DEF PaidInv, OneAtATime, OnOrder, PayTypeInv, OfOrder
  <2>3. OneAtATime'
    BY <1>1, <1>2, <1>3, <1>6, <2>1, <2>2 DEF PaidInv, OneAtATime, Placing, OnOrder, CardHere
  <2> QED
    BY <1>4, <1>5, <2>3 DEF PaidInv
<1>7. CASE k # "place"
  <2>1. \A r \in reqs : ~Placing(r)
    BY <1>1, <1>7 DEF PaidInv, OneAtATime
  <2>2. OneAtATime'
    BY <1>1, <1>2, <1>3, <1>7, <2>1 DEF PaidInv, OneAtATime, Placing, OnOrder, CardHere
  <2> QED
    BY <1>4, <1>5, <2>2 DEF PaidInv
<1> QED
  BY <1>6, <1>7

\* An answer changes nothing of who asked what for which page.
LEMMA OneByAnswer ==
  ASSUME PayTypeInv, OneAtATime, NEW r \in reqs, NEW what \in {"ok", "secret", "401", "error"},
         NEW o \in MaybeOrder, Answer(r, what, o), r.kind = "place" \/ o = r.order,
         UNCHANGED <<page, cart, order, done, card>>
  PROVE  OneAtATime'
<1> DEFINE new == Answered(r, what, o)
<1>1. /\ reqs' \subseteq (reqs \ {r}) \cup {new}
      /\ new.kind = r.kind /\ new.here = r.here /\ new.order = o
  BY AnswerStep DEF PayTypeInv
<1> HIDE DEF new
<1>2. /\ Placing(new) = Placing(r) /\ OnOrder(new) = OnOrder(r)
      /\ OnOrder(r) => new.order = r.order
  BY <1>1 DEF Placing, OnOrder
<1> QED
  BY <1>1, <1>2 DEF OneAtATime, CardHere, Placing, OnOrder

\* What was true of an order before an answer is true of it still.
Lasting ==
  /\ paid \subseteq paid'
  /\ \A o \in Orders : o \notin paid /\ status[o] = "cancelled"
                         => o \notin paid' /\ status'[o] = "cancelled"

LEMMA TrueByAnswer ==
  ASSUME PayTypeInv, AnswersTrue, Lasting, NEW r \in reqs,
         NEW what \in {"ok", "secret", "401", "error"}, NEW o \in MaybeOrder,
         Answer(r, what, o), UNCHANGED card,
         r.kind = "pay" /\ what = "ok" => o \in paid',
         r.kind = "cancel" /\ what = "ok" => o \notin paid' /\ status'[o] = "cancelled"
  PROVE  AnswersTrue'
<1> DEFINE new == Answered(r, what, o)
<1>1. /\ reqs' \subseteq (reqs \ {r}) \cup {new}
      /\ new.kind = r.kind /\ new.order = o /\ new.answer = what
  BY AnswerStep DEF PayTypeInv
<1> HIDE DEF new
<1>2. \A q \in reqs : q.kind \in {"pay", "cancel"} => q.order \in Orders
  BY DEF PayTypeInv, OfOrder
<1> QED
  BY <1>1, <1>2 DEF AnswersTrue, Lasting

LEMMA PaidByServer ==
  ASSUME PayTypeInv, PaidInv, NEW r \in reqs, Serve(r)
  PROVE  PaidInv'
<1>a. /\ r.order \in MaybeOrder /\ placed \in Nat /\ paid \subseteq Orders
      /\ status \in [Orders -> Statuses] /\ placed + 1 # 0
  BY DEF PayTypeInv, PayTyped, Requests, MaybeOrder
<1>b. Ledger /\ AnswersTrue /\ OneAtATime /\ PaidWhenToldSo
  BY DEF PaidInv
<1>c. UNCHANGED <<page, cart, order, done, card>>
  BY DEF Serve, ServePlace, ServePay, ServeCancel, RequestFails, ServerOnly
<1>1. ASSUME NEW what \in {"ok", "secret", "401", "error"}, NEW o \in MaybeOrder,
             Answer(r, what, o), r.kind = "place" \/ o = r.order,
             Lasting, Ledger',
             r.kind = "pay" /\ what = "ok" => o \in paid',
             r.kind = "cancel" /\ what = "ok" => o \notin paid' /\ status'[o] = "cancelled"
      PROVE  PaidInv'
  <2>1. AnswersTrue' /\ OneAtATime'
    BY <1>b, <1>c, <1>1, TrueByAnswer, OneByAnswer
  <2>2. PaidWhenToldSo'
    BY <1>b, <1>c, <1>1 DEF PaidWhenToldSo, Lasting
  <2> QED
    BY <1>1, <2>1, <2>2 DEF PaidInv
<1>2. UNCHANGED <<placed, status, paid>> => Lasting /\ Ledger'
  BY <1>b DEF Lasting, Ledger
<1>3. CASE ServePlace(r)
  <2>1. r.kind = "place"
    BY <1>3 DEF ServePlace
  <2>2. CASE UNCHANGED server
    <3>1. Answer(r, "401", 0) \/ Answer(r, "error", 0)
      BY <1>3, <2>2, <1>a DEF ServePlace, server
    <3> QED
      BY <1>1, <1>2, <2>1, <2>2, <3>1, Numbers DEF server
  <2>3. CASE ~UNCHANGED server
    <3>1. /\ placed < MaxOrders /\ placed' = placed + 1
          /\ status' = [status EXCEPT ![placed + 1] = "pending_payment"]
          /\ Answer(r, "ok", placed + 1) /\ UNCHANGED <<charged, paid>>
      BY <1>3, <2>3 DEF ServePlace
    <3>2. placed + 1 \in Orders
      BY <1>a, <3>1, CheckoutPagesAssumption DEF CheckoutPagesAssumption, Orders
    <3>3. status[placed + 1] = "none" /\ placed + 1 \notin paid
      BY <1>a, <1>b, <3>2 DEF Ledger
    <3>4. Lasting
      BY <1>a, <3>1, <3>2, <3>3 DEF Lasting
    <3>5. \A o \in Orders : o > placed' => o > placed /\ o # placed + 1
      BY <1>a, <3>1 DEF Orders
    <3>6. Ledger'
      BY <1>a, <1>b, <3>1, <3>2, <3>3, <3>5 DEF Ledger, PaidStatus
    <3> QED
      BY <1>1, <2>1, <3>1, <3>2, <3>4, <3>6, Numbers
  <2> QED
    BY <2>2, <2>3
<1>4. CASE ServePay(r)
  <2>1. r.kind = "pay" /\ r.order \in Orders /\ placed' = placed
    BY <1>4 DEF ServePay, PayTypeInv, OfOrder
  <2>2. CASE UNCHANGED <<status, paid>>
    <3>1. (r.order \in paid /\ Answer(r, "ok", r.order)) \/ Answer(r, "secret", r.order)
            \/ Answer(r, "error", r.order)
      BY <1>4, <2>2 DEF ServePay
    <3> QED
      BY <1>1, <1>2, <1>a, <2>1, <2>2, <3>1
  <2>3. CASE ~UNCHANGED <<status, paid>>
    <3>1. PICK new \in {"processing", "shipped"} :
            status' = [status EXCEPT ![r.order] = new]
      BY <1>4, <2>3 DEF ServePay
    <3>2. /\ status[r.order] = "pending_payment" /\ paid' = paid \cup {r.order}
          /\ Answer(r, "ok", r.order)
      BY <1>4, <2>3 DEF ServePay
    <3>3. Lasting
      BY <1>a, <2>1, <3>1, <3>2 DEF Lasting
    <3>4. Ledger'
      BY <1>a, <1>b, <2>1, <3>1, <3>2 DEF Ledger, PaidStatus
    <3> QED
      BY <1>1, <1>a, <2>1, <3>2, <3>3, <3>4
  <2> QED
    BY <2>2, <2>3
<1>5. CASE ServeCancel(r)
  <2>1. r.kind = "cancel" /\ r.order \in Orders /\ UNCHANGED <<placed, paid>>
    BY <1>5 DEF ServeCancel, PayTypeInv, OfOrder
  <2>2. CASE UNCHANGED status /\ Answer(r, "error", r.order)
    BY <1>1, <1>2, <1>a, <2>1, <2>2
  <2>3. CASE /\ status[r.order] = "pending_payment" /\ Answer(r, "ok", r.order)
             /\ status' = [status EXCEPT ![r.order] = "cancelled"]
    <3>1. r.order \notin paid
      BY <1>b, <2>1, <2>3 DEF Ledger
    <3>2. Lasting
      BY <1>a, <2>1, <2>3 DEF Lasting
    <3>3. Ledger'
      BY <1>a, <1>b, <2>1, <2>3, <3>1 DEF Ledger, PaidStatus
    <3>4. status'[r.order] = "cancelled"
      BY <1>a, <2>1, <2>3
    <3> QED
      BY <1>1, <1>a, <2>1, <2>3, <3>1, <3>2, <3>3, <3>4
  <2> QED
    BY <1>5, <2>2, <2>3 DEF ServeCancel
<1>6. CASE RequestFails(r)
  BY <1>1, <1>2, <1>6, <1>a DEF RequestFails, server
<1> QED
  BY <1>3, <1>4, <1>5, <1>6 DEF Serve

LEMMA PaidByOrder ==
  ASSUME PayTypeInv, PaidInv, NEW o \in Orders, OrderMoves(o)
  PROVE  PaidInv'
<1>a. paid \subseteq Orders /\ status \in [Orders -> Statuses]
  BY DEF PayTypeInv, PayTyped
<1>b. Ledger /\ AnswersTrue /\ OneAtATime /\ PaidWhenToldSo
  BY DEF PaidInv
<1>c. UNCHANGED <<page, cart, order, done, card, reqs, placed>>
  BY DEF OrderMoves, ServerOnly
<1>1. \/ /\ status[o] = "pending_payment" /\ paid' = paid \cup {o}
         /\ status' = [status EXCEPT ![o] = "processing"]
      \/ /\ status[o] = "processing" /\ paid' = paid
         /\ \E new \in {"shipped", "cancelled"} : status' = [status EXCEPT ![o] = new]
      \/ /\ status[o] = "pending_payment" /\ paid' = paid
         /\ status' = [status EXCEPT ![o] = "cancelled"]
  BY DEF OrderMoves
<1>2. Ledger'
  BY <1>a, <1>b, <1>c, <1>1 DEF Ledger, PaidStatus
<1>3. Lasting
  BY <1>a, <1>b, <1>1 DEF Lasting, Ledger, PaidStatus
<1>4. AnswersTrue'
  BY <1>b, <1>c, <1>3 DEF AnswersTrue, Lasting, PayTypeInv, OfOrder
<1>5. OneAtATime' /\ PaidWhenToldSo'
  BY <1>b, <1>c, <1>3 DEF OneAtATime, Placing, OnOrder, CardHere, PaidWhenToldSo, Lasting
<1> QED
  BY <1>2, <1>4, <1>5 DEF PaidInv

LEMMA PaidByAnswer ==
  ASSUME PayTypeInv, PaidInv, NEW r \in reqs, Hear(r)
  PROVE  PaidInv'
<1>a. paid \subseteq Orders /\ r.order \in MaybeOrder /\ r \in Requests
  BY DEF PayTypeInv, PayTyped, Requests
<1>b. Ledger /\ AnswersTrue /\ OneAtATime /\ PaidWhenToldSo
  BY DEF PaidInv
<1>c. reqs' = reqs \ {r} /\ UNCHANGED <<page, card, placed, status, paid>>
  BY DEF Hear, CheckoutAnswered, PayAnswered, CancelAnswered, server
<1>1. Ledger' /\ AnswersTrue'
  BY <1>b, <1>c DEF Ledger, AnswersTrue
<1>2. CASE CheckoutAnswered(r)
  <2>1. CASE r.answer = "ok" /\ r.here
    <3>1. order' = r.order /\ ~cart' /\ done' = done /\ Placing(r)
      BY <1>2, <2>1 DEF CheckoutAnswered, Placing
    <3>2. ~done /\ ~CardHere /\ page /\ \A q \in reqs : ~OnOrder(q)
      BY <1>b, <2>1, <3>1 DEF OneAtATime
    <3>3. \A q \in reqs' : ~Placing(q)
      BY <1>b, <1>c, <3>1 DEF OneAtATime
    <3> QED
      BY <1>1, <1>c, <3>1, <3>2, <3>3
      DEF PaidInv, OneAtATime, PaidWhenToldSo, Placing, OnOrder, CardHere
  <2>2. CASE ~(r.answer = "ok" /\ r.here)
    <3>1. order' = order /\ (cart' => cart) /\ done' = done
      BY <1>2, <2>2 DEF CheckoutAnswered
    <3> QED
      BY <1>1, <1>b, <1>c, <3>1
      DEF PaidInv, OneAtATime, PaidWhenToldSo, Placing, OnOrder, CardHere
  <2> QED
    BY <2>1, <2>2
<1>3. CASE PayAnswered(r)
  <2>1. CASE r.answer = "ok" /\ r.here
    <3>1. done' /\ UNCHANGED <<order, cart>> /\ OnOrder(r) /\ r.order \in paid
      BY <1>b, <1>3, <2>1 DEF PayAnswered, OnOrder, AnswersTrue
    <3>2. order = r.order /\ page /\ \A q \in reqs : ~Placing(q)
      BY <1>b, <2>1, <3>1 DEF OneAtATime
    <3> QED
      BY <1>1, <1>b, <1>c, <3>1, <3>2
      DEF PaidInv, OneAtATime, PaidWhenToldSo, Placing, OnOrder, CardHere
  <2>2. CASE ~(r.answer = "ok" /\ r.here)
    <3>1. UNCHANGED <<order, cart, done>>
      BY <1>3, <2>2 DEF PayAnswered
    <3> QED
      BY <1>1, <1>b, <1>c, <3>1
      DEF PaidInv, OneAtATime, PaidWhenToldSo, Placing, OnOrder, CardHere
  <2> QED
    BY <2>1, <2>2
<1>4. CASE CancelAnswered(r)
  <2>1. CASE r.answer = "ok" /\ r.here
    <3>1. order' = 0 /\ UNCHANGED <<cart, done>> /\ OnOrder(r) /\ r.order \notin paid
      BY <1>b, <1>4, <2>1 DEF CancelAnswered, OnOrder, AnswersTrue
    <3>2. order = r.order /\ ~done /\ page
      BY <1>b, <2>1, <3>1 DEF OneAtATime, PaidWhenToldSo
    <3>3. r.order # 0
      BY <1>4, Numbers DEF CancelAnswered, PayTypeInv, OfOrder
    <3>4. /\ \A q \in reqs' : ~OnOrder(q) /\ ~Placing(q)
          /\ ~cart
      BY <1>b, <1>c, <3>1, <3>2, <3>3 DEF OneAtATime
    <3> QED
      BY <1>1, <1>b, <1>c, <3>1, <3>2, <3>4
      DEF PaidInv, OneAtATime, PaidWhenToldSo, Placing, OnOrder, CardHere
  <2>2. CASE ~(r.answer = "ok" /\ r.here)
    <3>1. UNCHANGED <<order, cart, done>>
      BY <1>4, <2>2 DEF CancelAnswered
    <3> QED
      BY <1>1, <1>b, <1>c, <3>1
      DEF PaidInv, OneAtATime, PaidWhenToldSo, Placing, OnOrder, CardHere
  <2> QED
    BY <2>1, <2>2
<1> QED
  BY <1>2, <1>3, <1>4 DEF Hear

LEMMA PaidByCard ==
  ASSUME PayTypeInv, PaidInv, SubmitCard \/ StripeCardForm
  PROVE  PaidInv'
<1>a. paid \subseteq Orders /\ card \in Cards
  BY DEF PayTypeInv, PayTyped
<1>b. Ledger /\ AnswersTrue /\ OneAtATime /\ PaidWhenToldSo
  BY DEF PaidInv
<1>c. UNCHANGED <<page, cart, reqs, placed, status, paid>>
  BY DEF SubmitCard, StripeCardForm, Confirmed, CheckPaid, PollAgain, OnSuccess,
         CardRequestFails, CardOnly
<1>1. Ledger'
  BY <1>b, <1>c DEF Ledger
<1>2. ASSUME UNCHANGED <<order, done>>, card'.at = "success" => card'.order \in paid,
             CardHere' => /\ order \in {0, card'.order} /\ page /\ ~cart
                          /\ \A r \in reqs : ~Placing(r)
      PROVE  PaidInv'
  BY <1>1, <1>2, <1>b, <1>c
  DEF PaidInv, AnswersTrue, OneAtATime, PaidWhenToldSo, Placing, OnOrder, CardHere
<1>3. CASE SubmitCard
  <2>1. /\ card'.at = "confirm" /\ card'.order = order /\ order # 0 /\ page
        /\ UNCHANGED <<order, done>>
    BY <1>3 DEF SubmitCard, View
  <2>2. ~cart /\ \A r \in reqs : ~Placing(r)
    BY <1>b, <2>1 DEF OneAtATime
  <2> QED
    BY <1>2, <2>1, <2>2
<1>4. ASSUME UNCHANGED <<order, done>>,
             \/ card'.at = "off"
             \/ /\ card'.order = card.order /\ card'.here = card.here /\ card.at # "off"
                /\ card'.at = "success" => card.order \in paid
      PROVE  PaidInv'
  <2>1. CASE card'.at = "off"
    BY <1>2, <1>4, <2>1 DEF CardHere
  <2>2. CASE card'.at # "off"
    <3>1. CardHere' => CardHere /\ page
      BY <1>4, <1>b, <2>2 DEF CardHere, OneAtATime
    <3>2. CardHere' => /\ order \in {0, card'.order} /\ page /\ ~cart
                       /\ \A r \in reqs : ~Placing(r)
      BY <1>4, <1>b, <2>2, <3>1 DEF OneAtATime
    <3> QED
      BY <1>2, <1>4, <2>2, <3>2
  <2> QED
    BY <2>1, <2>2
<1>5. CASE Confirmed \/ PollAgain
  <2>1. \/ card' = NoCard
        \/ /\ card'.order = card.order /\ card'.here = card.here /\ card'.at = "check"
           /\ card.at # "off"
    BY <1>a, <1>5 DEF Confirmed, PollAgain, Cards
  <2> QED
    BY <1>4, <1>5, <2>1, NoCardTyped DEF Confirmed, PollAgain
<1>6. CASE CheckPaid
  <2>1. /\ card'.order = card.order /\ card'.here = card.here /\ card.at # "off"
        /\ card'.at = "success" => status[card.order] \in PaidStatus
    BY <1>a, <1>6 DEF CheckPaid, Cards
  <2>2. card.order \in Orders
    BY <2>1 DEF PayTypeInv, OfOrder
  <2>3. card'.at = "success" => card.order \in paid
    BY <1>b, <2>1, <2>2 DEF Ledger
  <2> QED
    BY <1>4, <1>6, <2>1, <2>3 DEF CheckPaid
<1>7. CASE OnSuccess
  <2>1. card.order \in paid /\ card' = NoCard /\ card.at # "off"
    BY <1>7, <1>b DEF OnSuccess, AnswersTrue
  <2>2. CASE ~card.here
    BY <1>4, <1>7, <2>1, <2>2, NoCardTyped DEF OnSuccess
  <2>3. CASE card.here
    <3>1. order' = card.order /\ done' /\ CardHere
      BY <1>7, <2>1, <2>3 DEF OnSuccess, CardHere
    <3>2. page /\ ~cart /\ \A r \in reqs : ~Placing(r)
      BY <1>b, <3>1 DEF OneAtATime
    <3>3. \A r \in reqs : OnOrder(r) => order = card.order
      BY <1>b, <3>1, Numbers DEF OneAtATime, OnOrder, PayTypeInv, OfOrder
    <3>4. ~CardHere' /\ card'.at # "success"
      BY <2>1, NoCardTyped DEF CardHere
    <3>5. OneAtATime'
      BY <1>b, <1>c, <3>1, <3>2, <3>3, <3>4 DEF OneAtATime, Placing, OnOrder
    <3> QED
      BY <1>1, <1>b, <1>c, <2>1, <3>1, <3>4, <3>5 DEF PaidInv, AnswersTrue, PaidWhenToldSo
  <2> QED
    BY <2>2, <2>3
<1>8. CASE CardRequestFails
  BY <1>4, <1>8, NoCardTyped DEF CardRequestFails
<1> QED
  BY <1>3, <1>5, <1>6, <1>7, <1>8 DEF StripeCardForm

LEMMA PaidNext == PayTypeInv /\ PaidInv /\ [PayNext]_payVars => PaidInv'
<1> SUFFICES ASSUME PayTypeInv, PaidInv, [PayNext]_payVars PROVE PaidInv'
  OBVIOUS
<1>1. CASE UNCHANGED payVars
  BY <1>1
  DEF payVars, PaidInv, Ledger, AnswersTrue, OneAtATime, Placing, OnOrder, CardHere,
      PaidWhenToldSo
<1>2. CASE Leave \/ GoToLogin \/ GoToLoginMarket
  BY <1>2, PaidByUnmount DEF Leave, GoToLogin, GoToLoginMarket
<1> QED
  BY <1>1, <1>2, PaidByPage, PaidBySend, PaidByServer, PaidByOrder, PaidByAnswer, PaidByCard
  DEF PayNext, FillInStore, FillInMarket

\* A shopper is told that an order is paid only when the server has marked it.
THEOREM ToldOnlyWhenPaid == PaySpec => []PaidWhenToldSo
<1>1. PaidInv => PaidWhenToldSo
  BY DEF PaidInv
<1> QED
  BY <1>1, TypedInit, TypedNext, PaidInit, PaidNext, PTL DEF PaySpec

-------------------------------------------------------------------------------
(***************************************************************************)
(* DraftSurvives.                                                          *)
(***************************************************************************)
LEMMA DraftInit == PayInit => DraftInv
  BY DEF PayInit, DraftInv, Placing

LEMMA DraftByPage ==
  ASSUME PayTypeInv, DraftInv, Visit \/ Rerender \/ SignIn \/ SessionEnds \/ Shop \/ FillIn
  PROVE  DraftInv'
<1>a. {ship, page, filled, draft, owed} \subseteq BOOLEAN
  BY DEF PayTypeInv, PayTyped
<1>b. UNCHANGED <<kind, ship, reqs, owed>>
  BY DEF Visit, Rerender, SignIn, SessionEnds, Shop, FillIn, fixed, form
<1>1. CASE Visit
  <2>1. /\ ~page /\ page' = TRUE
        /\ filled' = (kind = "store" /\ draft) /\ draft' = (kind # "store" /\ draft)
    BY <1>1 DEF Visit
  <2> QED
    BY <1>a, <1>b, <2>1 DEF DraftInv, Placing
<1>2. CASE FillIn
  <2>1. page /\ ship /\ filled' /\ UNCHANGED <<page, draft>>
    BY <1>2 DEF FillIn, View
  <2> QED
    BY <1>a, <1>b, <2>1 DEF DraftInv, Placing
<1>3. CASE Rerender \/ SignIn \/ SessionEnds \/ Shop
  <2>1. UNCHANGED <<page, filled, draft>>
    BY <1>3 DEF Rerender, SignIn, SessionEnds, Shop, form
  <2> QED
    BY <1>b, <2>1 DEF DraftInv, Placing
<1> QED
  BY <1>1, <1>2, <1>3

LEMMA DraftByUnmount ==
  ASSUME PayTypeInv, DraftInv, Leave \/ GoToLogin \/ GoToLoginMarket
  PROVE  DraftInv'
<1>1. Unmount /\ page
  BY DEF Leave, GoToLogin, GoToLoginMarket, View
<1>2. \A r \in reqs' : ~r.here
  BY <1>1, UnmountStep DEF PayTypeInv
<1>3. page' = FALSE /\ filled' = FALSE /\ UNCHANGED <<kind, ship>>
  BY <1>1 DEF Unmount, fixed
<1>4. draft' => draft \/ filled
  BY DEF Leave, GoToLogin, GoToLoginMarket
<1>5. owed' => draft' /\ kind = "store" /\ ship
  <2>1. CASE Leave
    BY <2>1 DEF Leave, DraftInv
  <2>2. CASE GoToLogin
    BY <1>1, <2>2 DEF GoToLogin, DraftInv
  <2>3. CASE GoToLoginMarket
    <3>1. kind = "market" /\ owed' = owed
      BY <2>3 DEF GoToLoginMarket
    <3> QED
      BY <3>1 DEF DraftInv
  <2> QED
    BY <2>1, <2>2, <2>3
<1> QED
  BY <1>2, <1>3, <1>4, <1>5 DEF DraftInv, Placing

LEMMA DraftBySend ==
  ASSUME PayTypeInv, DraftInv, HandleCheckout \/ HandlePay \/ HandleCancelPending
  PROVE  DraftInv'
<1>1. PICK k \in {"place", "pay", "cancel"}, o \in MaybeOrder :
        /\ Send(Request(k, o)) /\ page
        /\ k = "place" => (ship => filled)
  BY Numbers DEF HandleCheckout, HandlePay, HandleCancelPending, View, Complete, PayTypeInv,
                 PayTyped
<1> DEFINE new == Request(k, o)
<1>2. new.kind = k
  BY RequestTyped
<1>3. /\ reqs' = reqs \cup {new}
      /\ UNCHANGED <<kind, ship, page, filled, draft, owed>>
  BY <1>1 DEF Send, fixed, form
<1> HIDE DEF new
<1> QED
  BY <1>1, <1>2, <1>3 DEF DraftInv, Placing

LEMMA DraftByServer ==
  ASSUME PayTypeInv, DraftInv, NEW r \in reqs, Serve(r)
  PROVE  DraftInv'
<1>1. UNCHANGED <<kind, ship, page, filled, draft, owed>>
  BY DEF Serve, ServePlace, ServePay, ServeCancel, RequestFails, ServerOnly, fixed, form
<1>2. ASSUME NEW what \in {"ok", "secret", "401", "error"}, NEW o \in MaybeOrder, Answer(r, what, o)
      PROVE  DraftInv'
  <2> DEFINE new == Answered(r, what, o)
  <2>1. /\ reqs' \subseteq (reqs \ {r}) \cup {new}
        /\ new.kind = r.kind /\ new.here = r.here
    BY <1>2, AnswerStep DEF PayTypeInv
  <2> HIDE DEF new
  <2> QED
    BY <1>1, <2>1 DEF DraftInv, Placing
<1>3. r.order \in MaybeOrder /\ (placed < MaxOrders => placed + 1 \in MaybeOrder)
  BY CheckoutPagesAssumption
  DEF CheckoutPagesAssumption, PayTypeInv, PayTyped, Requests, MaybeOrder
<1>4. \E what \in {"ok", "secret", "401", "error"}, o \in MaybeOrder : Answer(r, what, o)
  BY <1>3, Numbers DEF Serve, ServePlace, ServePay, ServeCancel, RequestFails
<1> QED
  BY <1>2, <1>4

LEMMA DraftByAnswer ==
  ASSUME PayTypeInv, DraftInv, NEW r \in reqs, Hear(r)
  PROVE  DraftInv'
<1>a. {ship, page, filled, draft, owed} \subseteq BOOLEAN
  BY DEF PayTypeInv, PayTyped
<1>1. reqs' = reqs \ {r} /\ UNCHANGED <<kind, ship, page, filled>>
  BY DEF Hear, CheckoutAnswered, PayAnswered, CancelAnswered, fixed, form
<1>2. CASE UNCHANGED <<draft, owed>>
  BY <1>1, <1>2 DEF DraftInv, Placing
<1>3. CASE /\ r.kind = "place" /\ kind = "store"
           /\ draft' = ship /\ owed' = (owed \/ (ship /\ r.here))
  <2>1. r.here => page /\ (ship => filled)
    BY <1>3 DEF DraftInv, Placing
  <2> QED
    BY <1>a, <1>1, <1>3, <2>1 DEF DraftInv, Placing
<1> QED
  BY <1>2, <1>3 DEF Hear, CheckoutAnswered, PayAnswered, CancelAnswered, form

LEMMA DraftNext == PayTypeInv /\ DraftInv /\ [PayNext]_payVars => DraftInv'
<1> SUFFICES ASSUME PayTypeInv, DraftInv, [PayNext]_payVars PROVE DraftInv'
  OBVIOUS
<1>1. ASSUME UNCHANGED <<kind, ship, page, filled, draft, owed, reqs>> PROVE DraftInv'
  BY <1>1 DEF DraftInv, Placing
<1>2. CASE UNCHANGED payVars
  BY <1>1, <1>2 DEF payVars
<1>3. ASSUME NEW o \in Orders, OrderMoves(o) PROVE DraftInv'
  BY <1>1, <1>3 DEF OrderMoves, ServerOnly, fixed, form
<1>4. CASE SubmitCard \/ StripeCardForm
  BY <1>1, <1>4
  DEF SubmitCard, StripeCardForm, Confirmed, CheckPaid, PollAgain, OnSuccess,
      CardRequestFails, CardOnly, fixed, form
<1> QED
  BY <1>2, <1>3, <1>4, DraftByPage, DraftByUnmount, DraftBySend, DraftByServer, DraftByAnswer
  DEF PayNext, FillInStore, FillInMarket

\* What was typed survives the login that the page asked for.
THEOREM DraftIsKept == PaySpec => []DraftSurvives
<1>1. PayTypeInv /\ DraftInv => DraftSurvives
  BY DEF DraftInv, DraftSurvives
<1> QED
  BY <1>1, TypedInit, TypedNext, DraftInit, DraftNext, PTL DEF PaySpec
===============================================================================
