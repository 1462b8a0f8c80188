-------------------------------- MODULE ShopCart --------------------------------
(***************************************************************************)
(* The shopping cart of one tab: CartContext for a store, and              *)
(* MarketplaceCartContext, the same text but for the scope of its cart.    *)
(* localStorage holds the cart's id, React state the cart as it was last   *)
(* fetched, the server the cart itself.  Every change is a request that is *)
(* followed by a refresh, and several may be on their way at once.         *)
(*                                                                         *)
(* A cart is its quantities by variant; a line of a cart is a pair of the  *)
(* cart and the variant, as the ids of lines are not used twice.  Prices,  *)
(* the drawer being open and the loading flag are left out.                *)
(***************************************************************************)
EXTENDS Naturals, Sequences

CONSTANTS Shops, Variants,
          MaxTasks,     \* bound: operations of the cart in progress at one time
          Stock,        \* units of each variant
          MaxCarts,     \* bound: cart ids made
          MaxCartMoves  \* bound: adds, clicks, orders, loads, failures

ASSUME CartAssumption == /\ Stock \in Nat \ {0} /\ MaxCarts \in Nat \ {0}
                         /\ MaxTasks \in Nat \ {0} /\ MaxCartMoves \in Nat
                         /\ "none" \notin Shops

VARIABLES
  scope,     \* "store" or "market": which of the two carts this is
  stored,    \* localStorage: [shop, id]
  shown,     \* React state: the cart on the screen
  idsMade,   \* ids made so far (crypto.randomUUID)
  content,   \* the server's carts
  denied,    \* carts the server answers 404 for
  task,      \* operations in progress
  pending,   \* pendingRef: lines with an operation in progress
  adding,    \* variants whose button says "Adding..."
  cartMoves, \* what was done so far
  serverOrder, \* history: answered refreshes, in the server's order
  lateReads, \* history: those a later one has overtaken
  overtaken, \* history: the screen may be out of date for a known reason
  mixed,     \* history: a variant was added and edited at the same time
  wanted     \* history: what the shopper asked for, by line

cartVars == <<scope, stored, shown, idsMade, content, denied, task, pending,
              adding, cartMoves, serverOrder, lateReads, overtaken, mixed,
              wanted>>

CartIds == 1..MaxCarts
Tasks == 1..MaxTasks
Lines == CartIds \X Variants
Empty == [v \in Variants |-> 0]
NoCart == [shop |-> "none", id |-> 0]
NoCartShown == [id |-> 0, lines |-> Empty]
AnyShop == IF scope = "market" THEN {"any"} ELSE Shops

NoTask == [at |-> "idle", kind |-> "view", shop |-> "none", id |-> 0,
           line |-> <<0, "none">>, qty |-> 0, again |-> FALSE, ok |-> "yes", lines |-> Empty]

\* A new operation takes the first free place.
FreePlace(t) == task[t].at = "idle" /\ \A u \in 1..t - 1 : task[u].at # "idle"
\* The bound: and nothing new begins once the properties below say nothing more.
CartMove == cartMoves < MaxCartMoves /\ cartMoves' = cartMoves + 1 /\ ~overtaken

AtWork(kinds) == {t \in Tasks : task[t].at # "idle" /\ task[t].kind \in kinds}

-------------------------------------------------------------------------------
\* The id in localStorage, for a store: one cart, of one store at a time.
GetOrCreateCart(shop, from) ==
  IF from.shop = shop THEN from ELSE [shop |-> shop, id |-> idsMade + 1]

\* For the marketplace: any cart will do.
GetOrCreateMarketplaceCart(from) ==
  IF from # NoCart THEN from ELSE [shop |-> "any", id |-> idsMade + 1]

OwnCart(shop, from) == IF scope = "market" THEN GetOrCreateMarketplaceCart(from)
                                           ELSE GetOrCreateCart(shop, from)

\* A new id is written down at once.
Take(cart) == stored' = cart /\ idsMade' = IF cart.id > idsMade THEN cart.id ELSE idsMade

\* refresh(): reads the id; without one the screen is emptied and that is all.
StartRefresh(t) ==
  IF stored = NoCart
    THEN shown' = NoCartShown /\ task' = [task EXCEPT ![t] = NoTask]
    ELSE /\ task' = [task EXCEPT ![t] =
               [NoTask EXCEPT !.at = "get", !.kind = task[t].kind, !.id = stored.id,
                              !.line = task[t].line]]
         /\ UNCHANGED shown

\* The lock of a line is given back, whatever happened: "finally".
Unlock(t) == IF task[t].kind = "edit" THEN pending \ {task[t].line} ELSE pending
Added(t) == IF task[t].kind = "add" THEN adding \ {task[t].line[2]} ELSE adding

-------------------------------------------------------------------------------
Refreshing(cart) == [NoTask EXCEPT !.at = "get", !.id = cart.id]

\* A first visit, or a return to a cart with one unit of everything in it.
CartInit ==
  /\ scope \in {"store", "market"}
  /\ stored \in {NoCart} \cup [shop : AnyShop, id : {1}]
  /\ idsMade = stored.id
  /\ content = [i \in CartIds |-> [v \in Variants |-> IF i = stored.id THEN 1 ELSE 0]]
  /\ task = [t \in Tasks |-> IF t = 1 /\ stored # NoCart THEN Refreshing(stored) ELSE NoTask]
  /\ shown = NoCartShown /\ denied = {} /\ pending = {} /\ adding = {} /\ cartMoves = 0
  /\ serverOrder = <<>> /\ lateReads = {} /\ overtaken = FALSE /\ mixed = FALSE
  /\ wanted = [l \in Lines |-> content[l[1]][l[2]]]

\* The buttons of a page go with it; the provider, and what it waits for, stay.
LeavePage ==
  /\ adding # {} /\ adding' = {}
  /\ UNCHANGED <<scope, stored, shown, idsMade, content, denied, task, pending,
                 cartMoves, serverOrder, lateReads, overtaken, mixed, wanted>>

\* A document is loaded: the provider is mounted anew and refreshes.  A request
\* that was on its way may still be served, so that the screen may miss it.
Load(t) ==
  /\ stored # NoCart /\ CartMove /\ t = 1
  /\ task' = [u \in Tasks |-> IF u = t THEN Refreshing(stored) ELSE NoTask]
  /\ shown' = NoCartShown /\ pending' = {} /\ adding' = {} /\ serverOrder' = <<>> /\ lateReads' = {}
  /\ overtaken' = (overtaken \/ \E u \in Tasks : task[u].at = "post")
  /\ wanted' = [l \in Lines |-> content[l[1]][l[2]]]
  /\ UNCHANGED <<scope, stored, idsMade, content, denied, mixed>>

\* The quantity field of a product's page, between 1 and the stock it knows.
ClampQuantity(n) == IF n < 1 THEN 1 ELSE IF n > Stock THEN Stock ELSE n

\* The button of a product, not while it says "Adding...".  It writes the cart's
\* id down and posts.
AddToCart(t, shop, v, qty) ==
  /\ FreePlace(t) /\ v \notin adding /\ CartMove
  /\ LET cart == OwnCart(shop, stored) IN
       /\ cart.id <= MaxCarts
       /\ Take(cart)
       /\ task' = [task EXCEPT ![t] =
            [NoTask EXCEPT !.at = "post", !.kind = "add", !.shop = shop, !.id = cart.id,
                           !.line = <<cart.id, v>>, !.qty = qty]]
  /\ adding' = adding \cup {v}
  /\ mixed' = (mixed \/ \E u \in AtWork({"edit"}) : task[u].line[2] = v)
  /\ UNCHANGED <<scope, shown, content, denied, pending, serverOrder, lateReads,
                 overtaken, wanted>>

\* A product's card adds one, its page adds what its quantity field says.
ProductCard(t, shop, v) == scope = "store" /\ AddToCart(t, shop, v, 1)
MarketplaceProductCard(t, v) == scope = "market" /\ AddToCart(t, "any", v, 1)
ProductDetailView(t, shop, v) ==
  \E n \in 0..Stock + 1 : AddToCart(t, shop, v, ClampQuantity(n))

\* Mutant: every click is accepted.
WithoutItemLock(t, line) ==
  /\ FreePlace(t) /\ CartMove
  /\ pending' = pending \cup {line}

\* withItemLock: a second click on a line in progress is dropped.
WithItemLock(t, line) ==
  /\ FreePlace(t) /\ line \notin pending /\ CartMove
  /\ pending' = pending \cup {line}

\* updateItemQuantity and removeCartItem are sent to the cart in localStorage,
\* for a line and from a quantity of the cart on the screen.
SendEdit(t, line, qty) ==
  /\ WithItemLock(t, line)
  /\ stored # NoCart
  /\ task' = [task EXCEPT ![t] =
       [NoTask EXCEPT !.at = "post", !.kind = "edit", !.id = stored.id, !.line = line,
                      !.qty = qty]]
  /\ mixed' = (mixed \/ \E u \in AtWork({"add"}) : task[u].line[2] = line[2])
  /\ UNCHANGED <<scope, stored, shown, idsMade, content, denied, adding,
                 serverOrder, lateReads, overtaken>>

IncrementItem(t, line) ==
  /\ SendEdit(t, line, shown.lines[line[2]] + 1)
  /\ wanted' = [wanted EXCEPT ![line] = @ + 1]

DecrementItem(t, line) ==
  /\ SendEdit(t, line, shown.lines[line[2]] - 1)
  /\ wanted' = [wanted EXCEPT ![line] = IF @ = 0 THEN 0 ELSE @ - 1]

RemoveCartItem(t, line) ==
  /\ SendEdit(t, line, 0)
  /\ wanted' = [wanted EXCEPT ![line] = 0]

\* The drawer has three buttons for each line of the cart on the screen.
Buttons(t, line) ==
  IncrementItem(t, line) \/ DecrementItem(t, line) \/ RemoveCartItem(t, line)
Drawer(t) == \E v \in {w \in Variants : shown.lines[w] > 0} : Buttons(t, <<shown.id, v>>)
CartDrawer(t) == scope = "store" /\ Drawer(t)
MarketplaceCartDrawer(t) == scope = "market" /\ Drawer(t)

\* The checkout page sends the order.
SendOrder(t) ==
  /\ FreePlace(t) /\ stored # NoCart /\ shown.lines # Empty /\ CartMove
  /\ task' = [task EXCEPT ![t] = [NoTask EXCEPT !.at = "post", !.kind = "order",
                                                !.id = stored.id]]
  /\ UNCHANGED <<scope, stored, shown, idsMade, content, denied, pending, adding,
                 serverOrder, lateReads, overtaken, mixed, wanted>>

-------------------------------------------------------------------------------
\* The server's answer to a change.
AnswerChange(t, ok) == task' = [task EXCEPT ![t].at = "done", ![t].ok = ok]

\* POST items: 404 for a cart that is somebody else's, or a variant that is gone.
ServeAdd(t) ==
  LET v == task[t].line[2]  i == task[t].id IN
  /\ task[t].at = "post" /\ task[t].kind = "add"
  /\ \/ /\ i \notin denied
        /\ content' = [content EXCEPT ![i][v] = @ + task[t].qty]
        /\ wanted' = [wanted EXCEPT ![<<i, v>>] = @ + task[t].qty]
        /\ AnswerChange(t, "yes") /\ UNCHANGED cartMoves
     \/ i \in denied /\ AnswerChange(t, "404") /\ UNCHANGED <<content, wanted, cartMoves>>
     \/ /\ CartMove
        /\ \E no \in {"404", "error"} : AnswerChange(t, no)
        /\ UNCHANGED <<content, wanted>>
  /\ UNCHANGED <<scope, stored, shown, idsMade, denied, pending, adding,
                 serverOrder, lateReads, overtaken, mixed>>

\* PATCH and DELETE: the line must be one of the cart that is named.
ServeEdit(t) ==
  LET line == task[t].line IN
  /\ task[t].at = "post" /\ task[t].kind = "edit"
  /\ IF /\ line[1] = task[t].id /\ task[t].id \notin denied
        /\ content[line[1]][line[2]] > 0 /\ task[t].qty <= Stock
       THEN /\ content' = [content EXCEPT ![line[1]][line[2]] = task[t].qty]
            /\ AnswerChange(t, "yes") /\ UNCHANGED wanted
       ELSE /\ AnswerChange(t, "error") /\ UNCHANGED content
            /\ wanted' = [wanted EXCEPT ![line] = content[line[1]][line[2]]]
  /\ UNCHANGED <<scope, stored, shown, idsMade, denied, pending, adding,
                 cartMoves, serverOrder, lateReads, overtaken, mixed>>

\* An order empties the cart.
ServeOrder(t) ==
  /\ task[t].at = "post" /\ task[t].kind = "order"
  /\ IF task[t].id \in denied \/ content[task[t].id] = Empty
       THEN AnswerChange(t, "error") /\ UNCHANGED <<content, wanted>>
       ELSE /\ content' = [content EXCEPT ![task[t].id] = Empty]
            /\ wanted' = [l \in Lines |-> IF l[1] = task[t].id THEN 0 ELSE wanted[l]]
            /\ AnswerChange(t, "yes")
  /\ UNCHANGED <<scope, stored, shown, idsMade, denied, pending, adding,
                 cartMoves, serverOrder, lateReads, overtaken, mixed>>

\* GET: the cart as it is now; a 404 if it is somebody else's.
ServeGet(t) ==
  /\ task[t].at = "get"
  /\ task' = [task EXCEPT ![t].at = "got", ![t].lines = content[task[t].id],
                          ![t].ok = IF task[t].id \in denied THEN "404" ELSE "yes"]
  /\ serverOrder' = Append(serverOrder, t)
  /\ UNCHANGED <<scope, stored, shown, idsMade, content, denied, pending, adding,
                 cartMoves, lateReads, overtaken, mixed, wanted>>

-------------------------------------------------------------------------------
\* Mutant: a change is not followed by a refresh.
ChangedUnseen(t) ==
  /\ task[t].at = "done" /\ task[t].ok = "yes" /\ task[t].kind # "order"
  /\ task' = [task EXCEPT ![t] = NoTask] /\ pending' = Unlock(t) /\ adding' = Added(t)
  /\ UNCHANGED <<scope, stored, shown, idsMade, content, denied, cartMoves,
                 serverOrder, lateReads, overtaken, mixed, wanted>>

\* The change succeeded: refresh.
Changed(t) ==
  /\ task[t].at = "done" /\ task[t].ok = "yes" /\ task[t].kind # "order"
  /\ StartRefresh(t)
  /\ IF stored = NoCart THEN pending' = Unlock(t) /\ adding' = Added(t)
                        ELSE UNCHANGED <<pending, adding>>
  /\ UNCHANGED <<scope, stored, idsMade, content, denied, cartMoves, serverOrder,
                 lateReads, overtaken, mixed, wanted>>

\* addItemToCart, on a 404: once more, with a cart of its own.
AddAgain(t) ==
  /\ task[t].at = "done" /\ task[t].kind = "add" /\ task[t].ok = "404" /\ ~task[t].again
  /\ LET cart == OwnCart(task[t].shop, NoCart) IN
       /\ cart.id <= MaxCarts
       /\ Take(cart)
       /\ task' = [task EXCEPT ![t].at = "post", ![t].again = TRUE, ![t].id = cart.id,
                               ![t].line = <<cart.id, @[2]>>]
  /\ UNCHANGED <<scope, shown, content, denied, pending, adding, cartMoves,
                 serverOrder, lateReads, overtaken, mixed, wanted>>

\* Any other failure is the caller's: a toast, and no refresh.
ChangeFailed(t) ==
  /\ task[t].at = "done"
  /\ task[t].ok = "error" \/ (task[t].ok = "404" /\ task[t].again)
  /\ task' = [task EXCEPT ![t] = NoTask]
  /\ pending' = Unlock(t) /\ adding' = Added(t)
  /\ overtaken' = (overtaken \/ stored.id # shown.id)
  /\ UNCHANGED <<scope, stored, shown, idsMade, content, denied, cartMoves,
                 serverOrder, lateReads, mixed, wanted>>

\* The order was placed: clear().
Clear(t) ==
  /\ task[t].at = "done" /\ task[t].kind = "order" /\ task[t].ok = "yes"
  /\ stored' = NoCart /\ shown' = NoCartShown
  /\ task' = [task EXCEPT ![t] = NoTask]
  /\ UNCHANGED <<scope, idsMade, content, denied, pending, adding, cartMoves,
                 serverOrder, lateReads, overtaken, mixed, wanted>>

\* refresh() has its answer.  Any failure drops whichever cart is in localStorage.
Refreshed(t) ==
  /\ task[t].at = "got"
  /\ IF task[t].ok = "yes"
       THEN shown' = [id |-> task[t].id, lines |-> task[t].lines] /\ UNCHANGED stored
       ELSE stored' = NoCart /\ shown' = NoCartShown
  /\ LET n == CHOOSE i \in DOMAIN serverOrder : serverOrder[i] = t IN
       /\ lateReads' = (lateReads \ {t}) \cup {serverOrder[i] : i \in 1..n - 1}
       /\ serverOrder' = SubSeq(serverOrder, 1, n - 1)
                           \o SubSeq(serverOrder, n + 1, Len(serverOrder))
  /\ overtaken' = (overtaken \/ t \in lateReads \/ task[t].id # stored.id)
  /\ task' = [task EXCEPT ![t] = NoTask]
  /\ pending' = Unlock(t) /\ adding' = Added(t)
  /\ UNCHANGED <<scope, idsMade, content, denied, cartMoves, mixed, wanted>>

\* No answer: the caller has an error, and a change may have been made.
Lost(t) ==
  /\ CartMove
  /\ \/ /\ task[t].at \in {"post", "done"} /\ task[t].ok = "yes"
        /\ task' = [task EXCEPT ![t].at = "done", ![t].ok = "error"]
        /\ wanted' = [l \in Lines |-> content[l[1]][l[2]]]
        /\ overtaken' = TRUE /\ UNCHANGED serverOrder
     \/ /\ task[t].at = "get"
        /\ task' = [task EXCEPT ![t].at = "got", ![t].ok = "error"]
        /\ serverOrder' = Append(serverOrder, t)
        /\ UNCHANGED <<wanted, overtaken>>
  /\ UNCHANGED <<scope, stored, shown, idsMade, content, denied, pending, adding,
                 lateReads, mixed>>

\* A cart that was claimed by an account is refused after a logout.
Deny(i) ==
  /\ CartMove
  /\ i <= idsMade /\ i \notin denied
  /\ denied' = denied \cup {i}
  /\ UNCHANGED <<scope, stored, shown, idsMade, content, task, pending, adding,
                 serverOrder, lateReads, overtaken, mixed, wanted>>

-------------------------------------------------------------------------------
CartServer(t) == ServeAdd(t) \/ ServeEdit(t) \/ ServeOrder(t) \/ ServeGet(t)
CartClient(t) == Changed(t) \/ AddAgain(t) \/ ChangeFailed(t) \/ Clear(t) \/ Refreshed(t)

CartNext ==
  \/ \E t \in Tasks :
       \/ \E shop \in AnyShop, v \in Variants :
            ProductCard(t, shop, v) \/ ProductDetailView(t, shop, v)
       \/ \E v \in Variants : MarketplaceProductCard(t, v)
       \/ Load(t) \/ CartDrawer(t) \/ MarketplaceCartDrawer(t) \/ SendOrder(t)
       \/ CartServer(t) \/ CartClient(t) \/ Lost(t)
  \/ LeavePage
  \/ \E i \in CartIds : Deny(i)

CartSpec == CartInit /\ [][CartNext]_cartVars

-------------------------------------------------------------------------------
\* When nothing is in progress the screen shows the server's cart, the one in
\* localStorage.  Excepted is what the code does not guard against: the answers
\* of two refreshes, or a refresh and clear(), in the wrong order, a change whose
\* answer is lost, and a failed first add to another store's cart
\* (CartContext.tsx:42-79).
IdleCartIsTrue ==
  (\A t \in Tasks : task[t].at = "idle") /\ ~overtaken =>
    /\ shown.id = stored.id
    /\ shown.lines = IF stored = NoCart THEN Empty ELSE content[stored.id]

\* No click of the drawer is lost: quantities are sent as absolute numbers, read
\* from the screen, and still every accepted click counts once, whatever other
\* lines are being edited.  Excepted is a variant that is added and edited at the
\* same time (CartContext.tsx:81-124).
NoLostClick ==
  ~overtaken /\ ~mixed =>
    \A l \in Lines : \/ \E t \in Tasks : task[t].at = "post" /\ task[t].line = l
                     \/ wanted[l] = content[l[1]][l[2]]
===============================================================================
