----------------------------- MODULE ShopCartProofs -----------------------------
(***************************************************************************)
(* The cart of one tab, for any shops, variants and number of operations   *)
(* in progress: an idle cart is shown as the server has it, and no click   *)
(* of the drawer is lost.                                                  *)
(*                                                                         *)
(* Both rest on one inductive invariant.  What the screen shows of a       *)
(* variant may differ from the server's cart only while a change of that   *)
(* variant still has its refresh to come (Dirty), or an order has emptied  *)
(* the cart and clear() is to come (ShownFresh).  The same is said of      *)
(* every answer that waits to be shown and that no later one has           *)
(* overtaken, with a refresh that the server answered after it             *)
(* (AnswersFresh): so an answer may be shown in the place of an older one, *)
(* and never leaves the screen behind for good.  A line is locked from the *)
(* click to the end of its refresh (Locked), which is why a click reads a  *)
(* quantity that the server still has, and the absolute number it sends is *)
(* the one that was wanted (ClicksCount).                                  *)
(***************************************************************************)
EXTENDS ShopCart, SequenceTheorems, TLAPS

-------------------------------------------------------------------------------
(***************************************************************************)
(* The invariant.                                                          *)
(***************************************************************************)
Quantities == [Variants -> Nat]
TaskRecords ==
  [at : {"idle", "post", "done", "get", "got"}, kind : {"view", "add", "edit", "order"},
   shop : Shops \cup {"any", "none"}, id : 0..MaxCarts,
   line : (0..MaxCarts) \X (Variants \cup {"none"}), qty : Nat, again : BOOLEAN,
   ok : {"yes", "404", "error"}, lines : Quantities]

\* Ids are handed out in order, and a screen without a cart is empty.
CartTyped ==
  /\ idsMade \in 0..MaxCarts /\ overtaken \in BOOLEAN /\ mixed \in BOOLEAN
  /\ stored = NoCart \/ stored \in [shop : AnyShop, id : 1..idsMade]
  /\ shown \in [id : 0..idsMade, lines : Quantities] /\ (shown.id = 0 => shown.lines = Empty)
  /\ content \in [CartIds -> Quantities] /\ wanted \in [Lines -> Nat]
  /\ task \in [Tasks -> TaskRecords]

\* What an operation is about.
MakesSense(k) ==
  k.at # "idle" =>
    /\ k.id \in 1..idsMade
    /\ k.kind \in {"add", "edit"} => k.line \in Lines
    /\ k.kind = "add" /\ k.at = "post" => k.line[1] = k.id
    /\ k.kind = "add" /\ k.at \in {"post", "done"} => k.shop \in AnyShop
    /\ k.at \in {"post", "done"} => k.kind # "view"
TasksMakeSense == \A t \in Tasks : MakesSense(task[t])

\* The operations that wait for an answer that is there, in the server's order.
Once(s) == \A i, j \in DOMAIN s : s[i] = s[j] => i = j
Holds(s, x) == \E i \in DOMAIN s : s[i] = x
InOrder(s, x, y) == \E i, j \in DOMAIN s : i <= j /\ s[i] = x /\ s[j] = y

OrderTyped ==
  /\ serverOrder \in Seq(Tasks) /\ Once(serverOrder)
  /\ \A t \in Tasks : task[t].at = "got" <=> Holds(serverOrder, t)

\* A line has one edit at a time; not mixed, no variant has an edit and an add.
Locked ==
  \A t \in Tasks : task[t].at # "idle" /\ task[t].kind = "edit" =>
    /\ task[t].line \in pending
    /\ \A u \in Tasks : task[u].at # "idle" =>
         /\ task[u].kind = "edit" /\ task[u].line = task[t].line => u = t
         /\ task[u].kind = "add" /\ ~mixed => task[u].line[2] # task[t].line[2]

\* A change that was made, and whose refresh is still to come.
Dirty(t, l) ==
  /\ task[t].kind \in {"add", "edit"} /\ task[t].line = l
  /\ (task[t].at = "done" /\ task[t].ok = "yes") \/ task[t].at \in {"get", "got"}
\* The cart was ordered, and clear() is still to come.
OrderDone(i) ==
  \E t \in Tasks : task[t].at = "done" /\ task[t].ok = "yes" /\ task[t].kind = "order"
                   /\ task[t].id = i
\* The screen shows the cart that is written down, or will.
Synced == ~overtaken => shown.id = stored.id \/ \E t \in Tasks : task[t].at # "idle"

\* What the screen does not show yet is on its way.
ShownFresh ==
  ~overtaken /\ stored # NoCart /\ shown.id = stored.id =>
    \A v \in Variants :
      \/ shown.lines[v] = content[stored.id][v]
      \/ content[stored.id][v] = 0 /\ OrderDone(stored.id)
      \/ \E u \in Tasks : Dirty(u, <<stored.id, v>>)

\* The same of an answer that waits to be shown: what it misses comes after it.
AnswersFresh ==
  ~overtaken /\ stored # NoCart =>
    \A t \in Tasks : task[t].at = "got" /\ task[t].ok = "yes" /\ task[t].id = stored.id
                       /\ t \notin lateReads =>
      \A v \in Variants :
        \/ task[t].lines[v] = content[stored.id][v]
        \/ content[stored.id][v] = 0 /\ OrderDone(stored.id)
        \/ \E u \in Tasks : Dirty(u, <<stored.id, v>>) /\ ~InOrder(serverOrder, u, t)

\* An edit of the line that the server has not answered.
Editing(t, l) == task[t].at = "post" /\ task[t].kind = "edit" /\ task[t].line = l
\* What was asked for of a line is what the server has, or what an edit will make of it.
ClicksCount ==
  ~overtaken /\ ~mixed =>
    \A l \in Lines :
      /\ wanted[l] = content[l[1]][l[2]] \/ \E t \in Tasks : Editing(t, l)
      /\ \A t \in Tasks : Editing(t, l) /\ task[t].id = l[1] /\ content[l[1]][l[2]] > 0 =>
           wanted[l] = task[t].qty \/ task[t].qty > Stock

CartInv ==
  CartTyped /\ TasksMakeSense /\ OrderTyped /\ Locked /\ Synced /\ ShownFresh /\ AnswersFresh
  /\ ClicksCount

-------------------------------------------------------------------------------
(***************************************************************************)
(* Operations, and the order of the server's answers.                      *)
(***************************************************************************)
\* The operation in place t becomes k, and the others stay.
Becomes(t, k) ==
  /\ task' \in [Tasks -> TaskRecords] /\ task'[t] = k
  /\ \A u \in Tasks : u # t => task'[u] = task[u]

\* The constants, and an idle place.
LEMMA Fits ==
  /\ Empty \in Quantities /\ NoTask \in TaskRecords /\ MaxCarts \in Nat /\ Stock \in Nat
  /\ NoTask.at = "idle" /\ NoTask.kind = "view" /\ NoTask.ok = "yes" /\ NoTask.id = 0
<1>1. MaxCarts \in Nat /\ Stock \in Nat /\ 0 \in 0..MaxCarts /\ 0 \in Nat
  BY CartAssumption
<1>2. Empty \in Quantities
  BY DEF Empty, Quantities
<1>3. NoTask \in TaskRecords
  BY <1>1, <1>2 DEF NoTask, TaskRecords
<1> QED
  BY <1>1, <1>2, <1>3 DEF NoTask

\* A place is given to an operation.
LEMMA OneBecomes ==
  ASSUME CartTyped, NEW t \in Tasks, NEW k \in TaskRecords, task' = [task EXCEPT ![t] = k]
  PROVE  Becomes(t, k)
BY DEF CartTyped, Becomes

\* The end of an operation.
LEMMA IdleBecomes ==
  ASSUME CartTyped, NEW t \in Tasks, task' = [task EXCEPT ![t] = NoTask]
  PROVE  Becomes(t, NoTask)
BY Fits, OneBecomes

\* An answer to a change.
LEMMA AnswerBecomes ==
  ASSUME CartTyped, NEW t \in Tasks, NEW ok \in {"yes", "404", "error"}, AnswerChange(t, ok)
  PROVE  \E k \in TaskRecords :
           /\ Becomes(t, k) /\ k.at = "done" /\ k.ok = ok /\ k.kind = task[t].kind
           /\ k.line = task[t].line /\ k.id = task[t].id /\ k.shop = task[t].shop
<1> DEFINE k == [task[t] EXCEPT !.at = "done", !.ok = ok]
<1>1. task[t] \in TaskRecords
  BY DEF CartTyped
<1>2. /\ k \in TaskRecords /\ k.at = "done" /\ k.ok = ok /\ k.kind = task[t].kind
      /\ k.line = task[t].line /\ k.id = task[t].id /\ k.shop = task[t].shop
  BY <1>1 DEF TaskRecords
<1>3. task' = [task EXCEPT ![t] = k]
  BY DEF AnswerChange, CartTyped
<1> HIDE DEF k
<1> QED
  BY <1>2, <1>3, OneBecomes

\* A refresh: what the change was about is kept, and the id is the one written down.
LEMMA RefreshBecomes ==
  ASSUME CartTyped, NEW t \in Tasks, stored # NoCart, StartRefresh(t)
  PROVE  /\ UNCHANGED shown
         /\ \E k \in TaskRecords :
              /\ Becomes(t, k) /\ k.at = "get" /\ k.kind = task[t].kind
              /\ k.line = task[t].line /\ k.id = stored.id
<1> DEFINE k == [NoTask EXCEPT !.at = "get", !.kind = task[t].kind, !.id = stored.id,
                               !.line = task[t].line]
<1>1. task[t] \in TaskRecords /\ stored.id \in 0..MaxCarts
  <2>1. idsMade \in 0..MaxCarts /\ MaxCarts \in Nat /\ stored.id \in 1..idsMade
    BY CartAssumption DEF CartTyped
  <2> QED
    BY <2>1 DEF CartTyped
<1>2. /\ k \in TaskRecords /\ k.at = "get" /\ k.kind = task[t].kind
      /\ k.line = task[t].line /\ k.id = stored.id
  BY <1>1, Fits DEF TaskRecords
<1>3. task' = [task EXCEPT ![t] = k] /\ UNCHANGED shown
  BY DEF StartRefresh
<1> HIDE DEF k
<1> QED
  BY <1>2, <1>3, OneBecomes

\* The cart that an add goes to: the one written down, or a new one.
LEMMA OwnCartIs ==
  ASSUME CartTyped, NEW shop \in AnyShop, NEW cart,
         cart \in {OwnCart(shop, stored), OwnCart(shop, NoCart)}, cart.id <= MaxCarts,
         Take(cart)
  PROVE  /\ stored' = cart /\ cart.id \in 1..idsMade' /\ idsMade' \in idsMade..MaxCarts
         /\ cart \in [shop : AnyShop, id : 1..idsMade']
         /\ cart # stored => cart.id > idsMade
         /\ cart = OwnCart(shop, NoCart) => cart.id > idsMade
<1>1. idsMade \in Nat /\ MaxCarts \in Nat /\ idsMade <= MaxCarts
  BY CartAssumption DEF CartTyped
<1>2. /\ OwnCart(shop, NoCart).id = idsMade + 1
      /\ OwnCart(shop, NoCart) \in [shop : AnyShop, id : {idsMade + 1}]
  BY CartAssumption DEF OwnCart, GetOrCreateCart, GetOrCreateMarketplaceCart, NoCart, AnyShop
<1>3. (cart = stored /\ stored # NoCart) \/ cart = OwnCart(shop, NoCart)
  BY CartAssumption DEF OwnCart, GetOrCreateCart, GetOrCreateMarketplaceCart, NoCart, AnyShop
<1>4. CASE cart = stored /\ stored # NoCart
  <2>1. stored \in [shop : AnyShop, id : 1..idsMade]
    BY <1>4 DEF CartTyped
  <2>2. cart.id \in 1..idsMade /\ idsMade' = idsMade /\ stored' = cart
    BY <1>1, <1>4, <2>1 DEF Take
  <2>3. cart # OwnCart(shop, NoCart)
    BY <1>1, <1>2, <2>2
  <2> QED
    BY <1>1, <1>4, <2>1, <2>2, <2>3
<1>5. CASE cart = OwnCart(shop, NoCart)
  <2>1. cart.id = idsMade + 1 /\ idsMade' = idsMade + 1 /\ stored' = cart
    BY <1>1, <1>2, <1>5 DEF Take
  <2> QED
    BY <1>1, <1>2, <1>5, <2>1
<1> QED
  BY <1>3, <1>4, <1>5

\* The server's order without one of the answers.
Out(s, i) == SubSeq(s, 1, i - 1) \o SubSeq(s, i + 1, Len(s))

\* Its places, which are those of SubSeq and \o.
LEMMA OutIs ==
  ASSUME NEW S, NEW s \in Seq(S), NEW i \in 1..Len(s)
  PROVE  /\ Out(s, i) \in Seq(S) /\ Len(Out(s, i)) = Len(s) - 1
         /\ \A j \in 1..Len(s) - 1 : Out(s, i)[j] = IF j < i THEN s[j] ELSE s[j + 1]
<1> DEFINE r == Out(s, i)
           a == SubSeq(s, 1, i - 1)
           b == SubSeq(s, i + 1, Len(s))
<1>1. a \in Seq(S) /\ Len(a) = i - 1 /\ \A j \in 1..i - 1 : a[j] = s[j]
  OBVIOUS
<1>2. b \in Seq(S) /\ Len(b) = Len(s) - i /\ \A j \in 1..Len(s) - i : b[j] = s[i + j]
  OBVIOUS
<1>3. r = a \o b
  BY DEF Out
<1> HIDE DEF a, b, r
<1>4. /\ a \o b \in Seq(S) /\ Len(a \o b) = Len(a) + Len(b)
      /\ \A j \in 1..Len(a) + Len(b) :
           (a \o b)[j] = IF j <= Len(a) THEN a[j] ELSE b[j - Len(a)]
  BY <1>1, <1>2, ConcatProperties
<1>5. ASSUME NEW j \in 1..Len(s) - 1
      PROVE  (a \o b)[j] = IF j < i THEN s[j] ELSE s[j + 1]
  <2>1. j \in 1..Len(a) + Len(b) /\ Len(s) \in Nat /\ i \in Nat /\ j \in Nat
    BY <1>1, <1>2
  <2>2. (a \o b)[j] = IF j <= Len(a) THEN a[j] ELSE b[j - Len(a)]
    BY <1>4, <2>1
  <2>3. CASE j < i
    <3>1. j \in 1..i - 1 /\ j <= Len(a)
      BY <1>1, <2>1, <2>3
    <3> QED
      BY <1>1, <2>2, <2>3, <3>1
  <2>4. CASE ~(j < i)
    <3>1. j - Len(a) \in 1..Len(s) - i /\ ~(j <= Len(a)) /\ i + (j - Len(a)) = j + 1
      BY <1>1, <2>1, <2>4
    <3> QED
      BY <1>2, <2>2, <2>4, <3>1
  <2> QED
    BY <2>3, <2>4
<1>6. Len(s) \in Nat /\ i \in Nat /\ Len(a) + Len(b) = Len(s) - 1
  BY <1>1, <1>2
<1>7. r \in Seq(S) /\ Len(r) = Len(s) - 1
  BY <1>3, <1>4, <1>6
<1> QED
  BY <1>3, <1>5, <1>7 DEF r

\* The others stay, in their order.
LEMMA OthersInOrder ==
  ASSUME NEW S, NEW s \in Seq(S), Once(s), NEW i \in DOMAIN s, NEW r, r = Out(s, i)
  PROVE  /\ r \in Seq(S) /\ Once(r)
         /\ \A x : Holds(r, x) <=> (x # s[i] /\ Holds(s, x))
         /\ \A x, y : InOrder(r, x, y) => InOrder(s, x, y)
<1> DEFINE p == [j \in 1..Len(s) - 1 |-> IF j < i THEN j ELSE j + 1]
<1>1. Len(s) \in Nat /\ DOMAIN s = 1..Len(s) /\ i \in 1..Len(s) /\ s \in Seq(S)
  OBVIOUS
<1>2. /\ r \in Seq(S) /\ Len(r) = Len(s) - 1
      /\ \A j \in 1..Len(s) - 1 : r[j] = IF j < i THEN s[j] ELSE s[j + 1]
  BY <1>1, OutIs
<1>3. DOMAIN r = 1..Len(s) - 1
  BY <1>2, LenProperties
<1>4. \A j \in 1..Len(s) - 1 : p[j] \in 1..Len(s) /\ p[j] # i /\ r[j] = s[p[j]]
  <2> SUFFICES ASSUME NEW j \in 1..Len(s) - 1
               PROVE  p[j] \in 1..Len(s) /\ p[j] # i /\ r[j] = s[p[j]]
    OBVIOUS
  <2>1. p[j] = IF j < i THEN j ELSE j + 1
    OBVIOUS
  <2> HIDE DEF p
  <2>2. p[j] \in 1..Len(s) /\ p[j] # i
    BY <1>1, <2>1
  <2> QED
    BY <1>2, <2>1, <2>2
<1>5. \A a, b \in 1..Len(s) - 1 : (a <= b => p[a] <= p[b]) /\ (p[a] = p[b] => a = b)
  BY <1>1
<1>6. ASSUME NEW x \in 1..Len(s), x # i PROVE \E j \in 1..Len(s) - 1 : p[j] = x
  <2>1. CASE x < i
    <3>1. x \in 1..Len(s) - 1
      BY <1>1, <2>1
    <3> QED
      BY <2>1, <3>1
  <2>2. CASE ~(x < i)
    <3>1. x - 1 \in 1..Len(s) - 1 /\ ~(x - 1 < i) /\ (x - 1) + 1 = x
      BY <1>1, <1>6, <2>2
    <3> QED
      BY <3>1
  <2> QED
    BY <2>1, <2>2
<1> HIDE DEF p
<1>7. \A a, b \in 1..Len(s) : s[a] = s[b] => a = b
  BY <1>1 DEF Once
<1>8. Once(r)
  <2> SUFFICES ASSUME NEW a \in 1..Len(s) - 1, NEW b \in 1..Len(s) - 1, r[a] = r[b] PROVE a = b
    BY <1>3 DEF Once
  <2>1. p[a] \in 1..Len(s) /\ p[b] \in 1..Len(s) /\ s[p[a]] = s[p[b]]
    BY <1>4
  <2>2. p[a] = p[b]
    BY <1>7, <2>1
  <2> QED
    BY <1>5, <2>2
<1>9. ASSUME NEW x PROVE Holds(r, x) <=> (x # s[i] /\ Holds(s, x))
  <2>1. ASSUME Holds(r, x) PROVE x # s[i] /\ Holds(s, x)
    <3>1. PICK j \in 1..Len(s) - 1 : r[j] = x
      BY <1>3, <2>1 DEF Holds
    <3> QED
      BY <1>1, <1>4, <1>7, <3>1 DEF Holds
  <2>2. ASSUME x # s[i], Holds(s, x) PROVE Holds(r, x)
    <3>1. PICK d \in 1..Len(s) : s[d] = x
      BY <1>1, <2>2 DEF Holds
    <3>2. PICK j \in 1..Len(s) - 1 : p[j] = d
      BY <1>6, <2>2, <3>1
    <3> QED
      BY <1>3, <1>4, <3>1, <3>2 DEF Holds
  <2> QED
    BY <2>1, <2>2
<1>10. ASSUME NEW x, NEW y, InOrder(r, x, y) PROVE InOrder(s, x, y)
  <2>1. PICK a \in 1..Len(s) - 1, b \in 1..Len(s) - 1 : a <= b /\ r[a] = x /\ r[b] = y
    BY <1>3, <1>10 DEF InOrder
  <2>2. /\ p[a] \in DOMAIN s /\ p[b] \in DOMAIN s /\ p[a] <= p[b]
        /\ s[p[a]] = x /\ s[p[b]] = y
    BY <1>1, <1>4, <1>5, <2>1
  <2> QED
    BY <2>2 DEF InOrder
<1> QED
  BY <1>2, <1>8, <1>9, <1>10

\* One that comes last.
LEMMA LastInOrder ==
  ASSUME NEW S, NEW s \in Seq(S), Once(s), NEW z \in S, ~Holds(s, z),
         NEW r, r = Append(s, z)
  PROVE  /\ r \in Seq(S) /\ Once(r)
         /\ \A x : Holds(r, x) <=> (x = z \/ Holds(s, x))
         /\ \A x, y : y # z /\ InOrder(r, x, y) => InOrder(s, x, y)
<1> DEFINE n == Len(s)
<1>1. n \in Nat /\ DOMAIN s = 1..n
  OBVIOUS
<1>2. /\ r \in Seq(S) /\ DOMAIN r = 1..n + 1 /\ r[n + 1] = z
      /\ \A i \in 1..n : i \in 1..n + 1 /\ r[i] = s[i]
  OBVIOUS
<1> HIDE DEF n
<1>3. n + 1 \in 1..n + 1 /\ \A i \in 1..n + 1 : i \in 1..n \/ i = n + 1
  BY <1>1
<1>4. \A i \in 1..n : s[i] # z
  BY <1>1 DEF Holds
<1>5. Once(r)
  <2> SUFFICES ASSUME NEW a \in 1..n + 1, NEW b \in 1..n + 1, r[a] = r[b] PROVE a = b
    BY <1>2 DEF Once
  <2>1. \A i, j \in 1..n : s[i] = s[j] => i = j
    BY <1>1 DEF Once
  <2> QED
    BY <1>2, <1>3, <1>4, <2>1
<1>6. ASSUME NEW x PROVE Holds(r, x) <=> (x = z \/ Holds(s, x))
  <2>1. Holds(r, x) <=> \E i \in 1..n + 1 : r[i] = x
    BY <1>2 DEF Holds
  <2>2. Holds(s, x) <=> \E i \in 1..n : s[i] = x
    BY <1>1 DEF Holds
  <2> QED
    BY <1>2, <1>3, <2>1, <2>2
<1>7. ASSUME NEW x, NEW y, y # z, InOrder(r, x, y) PROVE InOrder(s, x, y)
  <2>1. PICK i \in 1..n + 1, j \in 1..n + 1 : i <= j /\ r[i] = x /\ r[j] = y
    BY <1>2, <1>7 DEF InOrder
  <2>2. j \in 1..n
    BY <1>2, <1>3, <1>7, <2>1
  <2>3. i \in 1..n
    BY <1>1, <2>1, <2>2
  <2> QED
    BY <1>1, <1>2, <2>1, <2>2, <2>3 DEF InOrder
<1> QED
  BY <1>2, <1>5, <1>6, <1>7

-------------------------------------------------------------------------------
(***************************************************************************)
(* What a step keeps.                                                      *)
(***************************************************************************)
\* What a step keeps, when it is about one operation.
LEMMA SenseKept ==
  ASSUME CartInv, NEW t \in Tasks, NEW k, Becomes(t, k), UNCHANGED scope,
         idsMade' \in Nat, idsMade <= idsMade', k.at = "idle" \/ MakesSense(k)'
  PROVE  TasksMakeSense'
<1>1. idsMade \in Nat /\ AnyShop' = AnyShop
  BY CartAssumption DEF CartInv, CartTyped, AnyShop
<1>2. MakesSense(k)'
  BY DEF MakesSense
<1>3. ASSUME NEW u \in Tasks, u # t PROVE MakesSense(task[u])'
  <2>1. task'[u] = task[u] /\ MakesSense(task[u])
    BY <1>3 DEF Becomes, CartInv, TasksMakeSense
  <2> QED
    BY <1>1, <2>1 DEF MakesSense
<1> QED
  BY <1>2, <1>3 DEF TasksMakeSense, Becomes, MakesSense

\* A lock is given back only at the end of its operation.
LEMMA LockedKept ==
  ASSUME CartInv, NEW t \in Tasks, NEW k, Becomes(t, k), mixed => mixed',
         \/ k.at = "idle" \/ k.kind \notin {"add", "edit"}
         \/ /\ task[t].at # "idle" /\ k.kind = task[t].kind /\ k.line[2] = task[t].line[2]
            /\ k.kind = "edit" => k.line = task[t].line,
         \A l \in pending : l \in pending' \/ (k.at = "idle" /\ task[t].at # "idle"
                                               /\ task[t].kind = "edit" /\ l = task[t].line)
  PROVE  Locked'
<1> SUFFICES ASSUME NEW e \in Tasks, task'[e].at # "idle", task'[e].kind = "edit"
             PROVE  /\ task'[e].line \in pending'
                    /\ \A u \in Tasks : task'[u].at # "idle" =>
                         /\ task'[u].kind = "edit" /\ task'[u].line = task'[e].line => u = e
                         /\ task'[u].kind = "add" /\ ~mixed' =>
                              task'[u].line[2] # task'[e].line[2]
  BY DEF Locked
<1>1. /\ task[e].at # "idle" /\ task[e].kind = "edit" /\ task[e].line = task'[e].line
  BY DEF Becomes
<1>2. /\ task[e].line \in pending
      /\ \A u \in Tasks : task[u].at # "idle" =>
           /\ task[u].kind = "edit" /\ task[u].line = task[e].line => u = e
           /\ task[u].kind = "add" /\ ~mixed => task[u].line[2] # task[e].line[2]
  BY <1>1 DEF CartInv, Locked
<1>3. task'[e].line \in pending'
  BY <1>1, <1>2 DEF Becomes
<1>4. ASSUME NEW u \in Tasks, task'[u].at # "idle", task'[u].kind \in {"add", "edit"}
      PROVE  /\ task[u].at # "idle" /\ task[u].kind = task'[u].kind
             /\ task[u].line[2] = task'[u].line[2]
             /\ task'[u].kind = "edit" => task[u].line = task'[u].line
  BY <1>4 DEF Becomes
<1> QED
  BY <1>1, <1>2, <1>3, <1>4

\* The answers that wait: as before, one more, one less.
LEMMA OrderKept ==
  ASSUME CartInv, NEW t \in Tasks, NEW k, Becomes(t, k), UNCHANGED serverOrder,
         k.at = "got" <=> task[t].at = "got"
  PROVE  OrderTyped'
BY DEF CartInv, OrderTyped, Becomes

LEMMA OrderGrows ==
  ASSUME CartInv, NEW t \in Tasks, NEW k, Becomes(t, k), k.at = "got", task[t].at # "got",
         serverOrder' = Append(serverOrder, t)
  PROVE  /\ OrderTyped'
         /\ \A u, w \in Tasks :
              w # t /\ InOrder(serverOrder, u, w)' => InOrder(serverOrder, u, w)
<1>1. /\ serverOrder \in Seq(Tasks) /\ Once(serverOrder) /\ ~Holds(serverOrder, t)
      /\ \A w \in Tasks : task[w].at = "got" <=> Holds(serverOrder, w)
  BY DEF CartInv, OrderTyped
<1>2. /\ serverOrder' \in Seq(Tasks) /\ Once(serverOrder')
      /\ \A x : Holds(serverOrder', x) <=> (x = t \/ Holds(serverOrder, x))
      /\ \A x, y : y # t /\ InOrder(serverOrder', x, y) => InOrder(serverOrder, x, y)
  BY <1>1, LastInOrder
<1>3. OrderTyped'
  BY <1>1, <1>2 DEF OrderTyped, Becomes
<1> QED
  BY <1>2, <1>3

LEMMA OrderShrinks ==
  ASSUME CartInv, NEW t \in Tasks, NEW k, Becomes(t, k), k.at # "got", task[t].at = "got",
         NEW n, n = CHOOSE i \in DOMAIN serverOrder : serverOrder[i] = t,
         serverOrder' = Out(serverOrder, n)
  PROVE  /\ OrderTyped'
         /\ \A u, w \in Tasks : InOrder(serverOrder, u, w)' => InOrder(serverOrder, u, w)
         /\ \A w \in Tasks : task'[w].at = "got" =>
              InOrder(serverOrder, t, w) \/ w \in {serverOrder[i] : i \in 1..n - 1}
<1>1. /\ serverOrder \in Seq(Tasks) /\ Once(serverOrder)
      /\ \A w \in Tasks : task[w].at = "got" <=> Holds(serverOrder, w)
  BY DEF CartInv, OrderTyped
<1>2. n \in DOMAIN serverOrder /\ serverOrder[n] = t
  BY <1>1 DEF Holds
<1>3. /\ serverOrder' \in Seq(Tasks) /\ Once(serverOrder')
      /\ \A x : Holds(serverOrder', x) <=> (x # serverOrder[n] /\ Holds(serverOrder, x))
      /\ \A x, y : InOrder(serverOrder', x, y) => InOrder(serverOrder, x, y)
  BY <1>1, <1>2, OthersInOrder
<1>4. OrderTyped'
  BY <1>1, <1>2, <1>3 DEF OrderTyped, Becomes
<1>5. ASSUME NEW w \in Tasks, task'[w].at = "got"
      PROVE  InOrder(serverOrder, t, w) \/ w \in {serverOrder[i] : i \in 1..n - 1}
  <2>1. w # t /\ task[w].at = "got"
    BY <1>5 DEF Becomes
  <2>2. PICK i \in DOMAIN serverOrder : serverOrder[i] = w
    BY <1>1, <2>1 DEF Holds
  <2>3. i \in Nat /\ i >= 1 /\ n \in Nat
    BY <1>1, <1>2
  <2>4. CASE i < n
    <3>1. i \in 1..n - 1
      BY <2>3, <2>4
    <3> QED
      BY <2>2, <3>1
  <2>5. CASE ~(i < n)
    <3>1. n <= i
      BY <2>3, <2>5
    <3> QED
      BY <1>2, <2>2, <3>1 DEF InOrder
  <2> QED
    BY <2>4, <2>5
<1> QED
  BY <1>3, <1>4, <1>5

\* The screen and the answers on their way may stay what they are as long as what is
\* missing from them has a refresh to come.
LEMMA FreshKept ==
  ASSUME CartInv, UNCHANGED <<stored, shown>>, overtaken => overtaken',
         \A i \in CartIds : OrderDone(i) => OrderDone(i)',
         \A i \in CartIds, v \in Variants, u \in Tasks :
           Dirty(u, <<i, v>>) => Dirty(u, <<i, v>>)',
         \A i \in CartIds, v \in Variants :
           \/ content'[i][v] = content[i][v]
           \/ content'[i][v] = 0 /\ OrderDone(i)'
           \/ \E u \in Tasks : Dirty(u, <<i, v>>)' /\ \A w \in Tasks : ~InOrder(serverOrder, u, w)',
         \A w \in Tasks : task'[w].at = "got" /\ task'[w].ok = "yes" /\ w \notin lateReads' =>
           \/ task'[w].lines = content'[task'[w].id]
           \/ /\ task'[w] = task[w] /\ w \notin lateReads
              /\ \A u \in Tasks : InOrder(serverOrder, u, w)' => InOrder(serverOrder, u, w)
  PROVE  ShownFresh' /\ AnswersFresh'
<1>1. stored # NoCart => stored.id \in CartIds
  BY CartAssumption DEF CartInv, CartTyped, CartIds
<1>2. ASSUME ~overtaken', stored # NoCart, shown.id = stored.id, NEW v \in Variants
      PROVE  \/ shown.lines[v] = content'[stored.id][v]
             \/ content'[stored.id][v] = 0 /\ OrderDone(stored.id)'
             \/ \E u \in Tasks : Dirty(u, <<stored.id, v>>)'
  <2> DEFINE i == stored.id
  <2>1. i \in CartIds
    BY <1>1, <1>2
  <2>2. \/ shown.lines[v] = content[i][v]
        \/ content[i][v] = 0 /\ OrderDone(i)
        \/ \E u \in Tasks : Dirty(u, <<i, v>>)
    BY <1>2 DEF CartInv, ShownFresh
  <2>3. i' = i
    OBVIOUS
  <2> QED
    BY <2>1, <2>2, <2>3
<1>3. ShownFresh'
  BY <1>2 DEF ShownFresh
<1>4. ASSUME ~overtaken', stored # NoCart, NEW w \in Tasks, task'[w].at = "got",
             task'[w].ok = "yes", task'[w].id = stored.id, w \notin lateReads', NEW v \in Variants
      PROVE  \/ task'[w].lines[v] = content'[stored.id][v]
             \/ content'[stored.id][v] = 0 /\ OrderDone(stored.id)'
             \/ \E u \in Tasks : Dirty(u, <<stored.id, v>>)' /\ ~InOrder(serverOrder, u, w)'
  <2>1. CASE task'[w].lines = content'[task'[w].id]
    BY <1>4, <2>1
  <2>2. CASE /\ task'[w] = task[w] /\ w \notin lateReads
             /\ \A u \in Tasks : InOrder(serverOrder, u, w)' => InOrder(serverOrder, u, w)
    <3>1. \/ task[w].lines[v] = content[stored.id][v]
          \/ content[stored.id][v] = 0 /\ OrderDone(stored.id)
          \/ \E u \in Tasks : Dirty(u, <<stored.id, v>>) /\ ~InOrder(serverOrder, u, w)
      BY <1>4, <2>2 DEF CartInv, AnswersFresh
    <3>2. stored.id \in CartIds
      BY <1>1, <1>4
    <3> QED
      BY <1>4, <2>2, <3>1, <3>2
  <2> QED
    BY <1>4, <2>1, <2>2
<1>5. AnswersFresh'
  BY <1>4 DEF AnswersFresh
<1> QED
  BY <1>3, <1>5

\* There is nothing to be fresh.
LEMMA FreshMoot ==
  ASSUME \/ stored' = NoCart \/ overtaken'
         \/ /\ shown'.id # stored'.id
            /\ \A w \in Tasks : task'[w].at = "got" => task'[w].id # stored'.id
  PROVE  ShownFresh' /\ AnswersFresh'
BY DEF ShownFresh, AnswersFresh

\* What was asked for of a line is what the server has, or is being edited.
Unclicked(l) ==
  /\ wanted'[l] = wanted[l] /\ content'[l[1]][l[2]] = content[l[1]][l[2]]
  /\ \A t \in Tasks : /\ Editing(t, l)' <=> Editing(t, l)
                      /\ Editing(t, l) => task'[t].id = task[t].id /\ task'[t].qty = task[t].qty
Settled(l) ==
  /\ wanted'[l] = content'[l[1]][l[2]]
  /\ content'[l[1]][l[2]] > 0 => \A t \in Tasks : ~Editing(t, l)'
Clicked(l) ==
  \E t \in Tasks :
    /\ Editing(t, l)'
    /\ \A u \in Tasks : Editing(u, l)' => u = t
    /\ task'[t].id = l[1] /\ content'[l[1]][l[2]] > 0 => wanted'[l] = task'[t].qty

\* It is enough to say of each line which of the three a step makes of it.
LEMMA ClicksKept ==
  ASSUME CartInv, overtaken => overtaken', mixed => mixed',
         ~overtaken' /\ ~mixed' => \A l \in Lines : Unclicked(l) \/ Settled(l) \/ Clicked(l)
  PROVE  ClicksCount'
<1> SUFFICES ASSUME ~overtaken', ~mixed', NEW l \in Lines
             PROVE  /\ \/ wanted'[l] = content'[l[1]][l[2]]
                       \/ \E t \in Tasks : Editing(t, l)'
                    /\ \A t \in Tasks :
                         Editing(t, l)' /\ task'[t].id = l[1] /\ content'[l[1]][l[2]] > 0 =>
                           wanted'[l] = task'[t].qty \/ task'[t].qty > Stock
  BY DEF ClicksCount
<1>1. /\ wanted[l] = content[l[1]][l[2]] \/ \E t \in Tasks : Editing(t, l)
      /\ \A t \in Tasks : Editing(t, l) /\ task[t].id = l[1] /\ content[l[1]][l[2]] > 0 =>
           wanted[l] = task[t].qty \/ task[t].qty > Stock
  BY DEF CartInv, ClicksCount
<1>2. CASE Unclicked(l)
  BY <1>1, <1>2 DEF Unclicked
<1>3. CASE Settled(l)
  BY <1>3 DEF Settled
<1>4. CASE Clicked(l)
  BY <1>4 DEF Clicked
<1> QED
  BY <1>2, <1>3, <1>4

LEMMA ClicksQuiet ==
  ASSUME CartInv, overtaken => overtaken', mixed => mixed', UNCHANGED <<content, wanted>>,
         NEW t \in Tasks, NEW k, Becomes(t, k),
         task[t].at # "post" \/ task[t].kind # "edit", k.at # "post" \/ k.kind # "edit"
  PROVE  ClicksCount'
<1>1. \A l \in Lines : Unclicked(l)
  BY DEF Unclicked, Editing, Becomes
<1> QED
  BY <1>1, ClicksKept

\* Something is in progress, or the screen shows the cart that is written down.
LEMMA SyncedBusy ==
  ASSUME NEW t \in Tasks, NEW k, Becomes(t, k), k.at # "idle"
  PROVE  Synced'
BY DEF Synced, Becomes

-------------------------------------------------------------------------------
(***************************************************************************)
(* The first state, a new document, an add and the drawer.                 *)
(***************************************************************************)
LEMMA RefreshingIs ==
  ASSUME NEW cart, cart.id \in 0..MaxCarts
  PROVE  /\ Refreshing(cart) \in TaskRecords /\ Refreshing(cart).at = "get"
         /\ Refreshing(cart).kind = "view" /\ Refreshing(cart).id = cart.id
BY Fits DEF Refreshing, TaskRecords

LEMMA CartInit0 == CartInit => CartInv
<1> SUFFICES ASSUME CartInit PROVE CartInv
  OBVIOUS
<1>1. /\ stored = NoCart \/ stored \in [shop : AnyShop, id : {1}]
      /\ idsMade = stored.id /\ idsMade \in 0..MaxCarts
  BY CartAssumption DEF CartInit, NoCart
<1>2. \A i \in CartIds : content[i] \in Quantities
  BY DEF CartInit, Quantities
<1>3. content \in [CartIds -> Quantities]
  BY <1>2 DEF CartInit
<1>4. /\ task \in [Tasks -> TaskRecords]
      /\ \A t \in Tasks : task[t].at = "idle" \/ (task[t].at = "get" /\ task[t].kind = "view"
                                                  /\ stored # NoCart /\ task[t].id = stored.id)
  <2>1. Refreshing(stored) \in TaskRecords /\ Refreshing(stored).at = "get"
        /\ Refreshing(stored).kind = "view" /\ Refreshing(stored).id = stored.id
    BY <1>1, RefreshingIs
  <2>2. \A t \in Tasks : task[t] = IF t = 1 /\ stored # NoCart THEN Refreshing(stored) ELSE NoTask
    BY DEF CartInit
  <2>3. task \in [Tasks -> TaskRecords]
    BY <2>1, Fits DEF CartInit
  <2> QED
    BY <2>1, <2>2, <2>3, Fits
<1>5. CartTyped
  <2>1. stored = NoCart \/ stored \in [shop : AnyShop, id : 1..idsMade]
    BY <1>1
  <2>2. shown \in [id : 0..idsMade, lines : Quantities] /\ (shown.id = 0 => shown.lines = Empty)
    <3>1. 0 \in 0..idsMade
      BY <1>1, CartAssumption
    <3> QED
      BY <3>1, Fits DEF CartInit, NoCartShown
  <2>3. wanted \in [Lines -> Nat]
    <3>1. \A l \in Lines : content[l[1]][l[2]] \in Nat
      BY <1>3 DEF Lines, Quantities
    <3> QED
      BY <3>1 DEF CartInit
  <2>4. overtaken \in BOOLEAN /\ mixed \in BOOLEAN
    BY DEF CartInit
  <2> QED
    BY <1>1, <1>3, <1>4, <2>1, <2>2, <2>3, <2>4 DEF CartTyped
<1>6. TasksMakeSense
  <2>1. stored # NoCart => stored.id \in 1..idsMade
    BY <1>1
  <2> QED
    BY <1>4, <2>1 DEF TasksMakeSense, MakesSense
<1>7. OrderTyped
  <2>1. <<>> \in Seq(Tasks) /\ Once(<<>>) /\ \A t \in Tasks : ~Holds(<<>>, t)
    BY DEF Once, Holds
  <2> QED
    BY <1>4, <2>1 DEF CartInit, OrderTyped
<1>8. Locked
  BY <1>4 DEF Locked
<1>9. Synced
  <2>1. CASE stored = NoCart
    BY <2>1 DEF Synced, CartInit, NoCartShown, NoCart
  <2>2. CASE stored # NoCart
    <3>1. 1 \in Tasks
      BY CartAssumption DEF Tasks
    <3>2. task[1].at = "get"
      <4>1. task[1] = Refreshing(stored)
        BY <2>2, <3>1 DEF CartInit
      <4> QED
        BY <1>1, <4>1, RefreshingIs
    <3> QED
      BY <3>1, <3>2 DEF Synced
  <2> QED
    BY <2>1, <2>2
<1>10. ShownFresh
  BY <1>1 DEF ShownFresh, CartInit, NoCartShown
<1>11. AnswersFresh
  BY <1>4 DEF AnswersFresh
<1>12. ClicksCount
  <2>1. \A l \in Lines : wanted[l] = content[l[1]][l[2]]
    BY DEF CartInit
  <2>2. \A l \in Lines : \A t \in Tasks : ~Editing(t, l)
    BY <1>4 DEF Editing
  <2> QED
    BY <2>1, <2>2 DEF ClicksCount
<1> QED
  BY <1>5, <1>6, <1>7, <1>8, <1>9, <1>10, <1>11, <1>12 DEF CartInv

\* A document is loaded.
LEMMA LoadStep ==
  ASSUME CartInv, NEW t \in Tasks, Load(t)
  PROVE  CartInv'
<1>1. /\ stored # NoCart /\ t = 1
      /\ task' = [u \in Tasks |-> IF u = t THEN Refreshing(stored) ELSE NoTask]
      /\ shown' = NoCartShown /\ pending' = {} /\ serverOrder' = <<>>
      /\ overtaken' = (overtaken \/ \E u \in Tasks : task[u].at = "post")
      /\ wanted' = [l \in Lines |-> content[l[1]][l[2]]]
      /\ UNCHANGED <<scope, stored, idsMade, content, mixed>>
  BY DEF Load
<1>2. /\ stored \in [shop : AnyShop, id : 1..idsMade] /\ stored.id \in 1..idsMade
      /\ idsMade \in 0..MaxCarts /\ idsMade \in Nat /\ MaxCarts \in Nat
      /\ content \in [CartIds -> Quantities]
  BY <1>1, CartAssumption DEF CartInv, CartTyped
<1>3. /\ task' \in [Tasks -> TaskRecords]
      /\ task'[t].at = "get" /\ task'[t].kind = "view" /\ task'[t].id = stored.id
      /\ \A u \in Tasks : u # t => task'[u].at = "idle"
  <2>1. Refreshing(stored) \in TaskRecords /\ Refreshing(stored).at = "get"
        /\ Refreshing(stored).kind = "view" /\ Refreshing(stored).id = stored.id
    <3>1. stored.id \in 0..MaxCarts
      BY <1>2
    <3> QED
      BY <3>1, RefreshingIs
  <2>2. \A u \in Tasks : task'[u] = IF u = t THEN Refreshing(stored) ELSE NoTask
    BY <1>1
  <2>3. task' \in [Tasks -> TaskRecords]
    BY <1>1, <2>1, Fits
  <2> QED
    BY <2>1, <2>2, <2>3, Fits
<1>4. CartTyped'
  <2>1. shown' \in [id : 0..idsMade, lines : Quantities] /\ (shown'.id = 0 => shown'.lines = Empty)
    <3>1. 0 \in 0..idsMade
      BY <1>2
    <3> QED
      BY <1>1, <3>1, Fits DEF NoCartShown
  <2>2. wanted' \in [Lines -> Nat]
    <3>1. \A l \in Lines : content[l[1]][l[2]] \in Nat
      BY <1>2 DEF Lines, Quantities
    <3> QED
      BY <1>1, <3>1
  <2>3. overtaken' \in BOOLEAN
    BY <1>1
  <2>4. AnyShop' = AnyShop
    BY <1>1 DEF AnyShop
  <2> QED
    BY <1>1, <1>2, <1>3, <2>1, <2>2, <2>3, <2>4 DEF CartInv, CartTyped
<1>5. TasksMakeSense'
  BY <1>1, <1>2, <1>3 DEF TasksMakeSense, MakesSense
<1>6. OrderTyped'
  <2>1. <<>> \in Seq(Tasks) /\ Once(<<>>) /\ \A u \in Tasks : ~Holds(<<>>, u)
    BY DEF Once, Holds
  <2>2. \A u \in Tasks : task'[u].at # "got"
    BY <1>3
  <2> QED
    BY <1>1, <2>1, <2>2 DEF OrderTyped
<1>7. Locked'
  BY <1>3 DEF Locked
<1>8. Synced'
  BY <1>3 DEF Synced
<1>9. ShownFresh' /\ AnswersFresh'
  <2>1. shown'.id # stored'.id
    BY <1>1, <1>2 DEF NoCartShown
  <2>2. \A u \in Tasks : task'[u].at # "got"
    BY <1>3
  <2> QED
    BY <2>1, <2>2, FreshMoot
<1>10. ClicksCount'
  <2>1. \A l \in Lines : wanted'[l] = content'[l[1]][l[2]]
    BY <1>1
  <2>2. \A l \in Lines : \A u \in Tasks : ~Editing(u, l)'
    BY <1>3 DEF Editing
  <2> QED
    BY <2>1, <2>2 DEF ClicksCount
<1> QED
  BY <1>4, <1>5, <1>6, <1>7, <1>8, <1>9, <1>10 DEF CartInv

\* An item is added.
LEMMA AddStep ==
  ASSUME CartInv, NEW t \in Tasks, NEW shop \in AnyShop, NEW v \in Variants, NEW qty \in Nat,
         AddToCart(t, shop, v, qty)
  PROVE  CartInv'
<1>1. PICK cart : cart = OwnCart(shop, stored)
  OBVIOUS
<1>2. PICK k : k = [NoTask EXCEPT !.at = "post", !.kind = "add", !.shop = shop, !.id = cart.id,
                                  !.line = <<cart.id, v>>, !.qty = qty]
  OBVIOUS
<1>3. /\ task[t].at = "idle" /\ cart.id <= MaxCarts /\ Take(cart)
      /\ task' = [task EXCEPT ![t] = k]
      /\ mixed' = (mixed \/ \E u \in AtWork({"edit"}) : task[u].line[2] = v)
      /\ UNCHANGED <<scope, shown, content, pending, serverOrder, lateReads, overtaken, wanted>>
  BY <1>1, <1>2 DEF AddToCart, FreePlace
<1>4. CartTyped
  BY DEF CartInv
<1>5. /\ stored' = cart /\ cart.id \in 1..idsMade' /\ idsMade' \in idsMade..MaxCarts
      /\ cart \in [shop : AnyShop, id : 1..idsMade']
      /\ cart # stored => cart.id > idsMade
  BY <1>1, <1>3, <1>4, OwnCartIs
<1>6. idsMade \in Nat /\ MaxCarts \in Nat /\ idsMade' \in Nat /\ idsMade <= idsMade'
      /\ idsMade' \in 0..MaxCarts
  BY <1>5, CartAssumption DEF CartInv, CartTyped
<1>7. /\ k \in TaskRecords /\ k.at = "post" /\ k.kind = "add" /\ k.shop = shop
      /\ k.id = cart.id /\ k.line = <<cart.id, v>>
  <2>1. NoTask \in TaskRecords /\ cart.id \in 0..MaxCarts /\ shop \in Shops \cup {"any", "none"}
    BY <1>5, <1>6, Fits DEF AnyShop
  <2>2. <<cart.id, v>> \in (0..MaxCarts) \X (Variants \cup {"none"})
    BY <2>1
  <2> QED
    BY <1>2, <2>1, <2>2 DEF TaskRecords
<1>8. Becomes(t, k)
  BY <1>3, <1>4, <1>7, OneBecomes
<1>9. CartTyped'
  <2>1. AnyShop' = AnyShop
    BY <1>3 DEF AnyShop
  <2>2. mixed' \in BOOLEAN
    BY <1>3 DEF CartInv, CartTyped
  <2>3. shown' \in [id : 0..idsMade', lines : Quantities]
    BY <1>3, <1>6 DEF CartInv, CartTyped
  <2> QED
    BY <1>3, <1>5, <1>6, <1>8, <2>1, <2>2, <2>3 DEF CartInv, CartTyped, Becomes
<1>10. TasksMakeSense'
  <2>1. MakesSense(k)'
    <3>1. k.id \in 1..idsMade' /\ k.line \in Lines /\ k.line[1] = k.id /\ k.shop \in AnyShop'
      BY <1>3, <1>5, <1>6, <1>7 DEF Lines, CartIds, AnyShop
    <3> QED
      BY <1>7, <3>1 DEF MakesSense
  <2> QED
    BY <1>3, <1>6, <1>8, <2>1, SenseKept
<1>11. OrderTyped'
  BY <1>3, <1>7, <1>8, OrderKept
<1>12. Locked'
  <2> SUFFICES ASSUME NEW e \in Tasks, task'[e].at # "idle", task'[e].kind = "edit"
               PROVE  /\ task'[e].line \in pending'
                      /\ \A u \in Tasks : task'[u].at # "idle" =>
                           /\ task'[u].kind = "edit" /\ task'[u].line = task'[e].line => u = e
                           /\ task'[u].kind = "add" /\ ~mixed' =>
                                task'[u].line[2] # task'[e].line[2]
    BY DEF Locked
  <2>1. e # t /\ task'[e] = task[e]
    BY <1>7, <1>8 DEF Becomes
  <2>2. ~mixed' => ~mixed /\ task[e].line[2] # v
    BY <1>3, <2>1 DEF AtWork
  <2>3. ASSUME NEW u \in Tasks, task'[u].at # "idle"
        PROVE  /\ task'[u].kind = "edit" /\ task'[u].line = task'[e].line => u = e
               /\ task'[u].kind = "add" /\ ~mixed' => task'[u].line[2] # task'[e].line[2]
    <3>1. CASE u = t
      BY <1>7, <1>8, <2>1, <2>2, <3>1 DEF Becomes
    <3>2. CASE u # t
      BY <1>8, <2>1, <2>2, <2>3, <3>2 DEF Becomes, CartInv, Locked
    <3> QED
      BY <3>1, <3>2
  <2> QED
    BY <1>3, <2>1, <2>3 DEF CartInv, Locked
<1>13. Synced'
  BY <1>7, <1>8, SyncedBusy
<1>14. ShownFresh' /\ AnswersFresh'
  <2>1. CASE cart = stored
    <3>1. \A i \in CartIds : OrderDone(i) => OrderDone(i)'
      BY <1>3, <1>8 DEF OrderDone, Becomes
    <3>2. \A i \in CartIds, x \in Variants, u \in Tasks : Dirty(u, <<i, x>>) => Dirty(u, <<i, x>>)'
      BY <1>3, <1>8 DEF Dirty, Becomes
    <3>3. \A w \in Tasks : task'[w].at = "got" =>
            /\ task'[w] = task[w]
            /\ \A u \in Tasks : InOrder(serverOrder, u, w)' => InOrder(serverOrder, u, w)
      BY <1>3, <1>7, <1>8 DEF Becomes
    <3> QED
      BY <1>3, <1>5, <2>1, <3>1, <3>2, <3>3, FreshKept
  <2>2. CASE cart # stored
    <3>1. cart.id > idsMade /\ stored'.id = cart.id
      BY <1>5, <2>2
    <3>2. shown'.id # stored'.id
      BY <1>3, <1>6, <3>1 DEF CartInv, CartTyped
    <3>3. ASSUME NEW w \in Tasks, task'[w].at = "got" PROVE task'[w].id # stored'.id
      <4>1. task'[w] = task[w]
        BY <1>7, <1>8, <3>3 DEF Becomes
      <4>2. task[w].id \in 1..idsMade
        BY <3>3, <4>1 DEF CartInv, TasksMakeSense, MakesSense
      <4> QED
        BY <1>6, <3>1, <4>1, <4>2
    <3> QED
      BY <3>2, <3>3, FreshMoot
  <2> QED
    BY <2>1, <2>2
<1>15. ClicksCount'
  BY <1>3, <1>7, <1>8, ClicksQuiet
<1> QED
  BY <1>9, <1>10, <1>11, <1>12, <1>13, <1>14, <1>15 DEF CartInv

\* A line is changed from the drawer, from what the screen shows of it.
LEMMA EditStep ==
  ASSUME CartInv, NEW t \in Tasks, NEW v \in Variants, NEW line, line = <<shown.id, v>>,
         NEW qty \in Nat, NEW wish \in Nat, SendEdit(t, line, qty), shown.lines[v] > 0,
         wanted' = [wanted EXCEPT ![line] = wish],
         wanted[line] = shown.lines[v] => wish = qty
  PROVE  CartInv'
<1>1. PICK k : k = [NoTask EXCEPT !.at = "post", !.kind = "edit", !.id = stored.id,
                                  !.line = line, !.qty = qty]
  OBVIOUS
<1>2. /\ task[t].at = "idle" /\ line \notin pending /\ pending' = pending \cup {line}
      /\ ~overtaken /\ stored # NoCart /\ task' = [task EXCEPT ![t] = k]
      /\ mixed' = (mixed \/ \E u \in AtWork({"add"}) : task[u].line[2] = v)
      /\ UNCHANGED <<scope, stored, shown, idsMade, content, serverOrder, lateReads, overtaken>>
  BY <1>1 DEF SendEdit, WithItemLock, FreePlace, CartMove
<1>3. /\ stored \in [shop : AnyShop, id : 1..idsMade] /\ stored.id \in 1..idsMade
      /\ idsMade \in 0..MaxCarts /\ idsMade \in Nat /\ MaxCarts \in Nat
      /\ content \in [CartIds -> Quantities] /\ wanted \in [Lines -> Nat]
      /\ shown.id \in 0..idsMade /\ shown.lines \in Quantities
  BY <1>2, CartAssumption DEF CartInv, CartTyped
<1>4. shown.id \in CartIds /\ line \in Lines /\ line[1] = shown.id /\ line[2] = v
  <2>1. shown.id # 0
    BY DEF CartInv, CartTyped, Empty
  <2>2. shown.id \in CartIds
    BY <1>3, <2>1 DEF CartIds
  <2> QED
    BY <2>2 DEF Lines
<1>5. /\ k \in TaskRecords /\ k.at = "post" /\ k.kind = "edit" /\ k.id = stored.id
      /\ k.line = line /\ k.qty = qty
  <2>1. stored.id \in 0..MaxCarts /\ line \in (0..MaxCarts) \X (Variants \cup {"none"})
    BY <1>3
  <2> QED
    BY <1>1, <2>1, Fits DEF TaskRecords
<1>6. Becomes(t, k)
  BY <1>2, <1>5, OneBecomes DEF CartInv
<1>7. CartTyped'
  <2>1. AnyShop' = AnyShop
    BY <1>2 DEF AnyShop
  <2>2. mixed' \in BOOLEAN
    BY <1>2 DEF CartInv, CartTyped
  <2>3. wanted' \in [Lines -> Nat]
    BY <1>3
  <2> QED
    BY <1>2, <1>6, <2>1, <2>2, <2>3 DEF CartInv, CartTyped, Becomes
<1>8. TasksMakeSense'
  <2>1. MakesSense(k)'
    BY <1>2, <1>3, <1>4, <1>5 DEF MakesSense
  <2> QED
    BY <1>2, <1>3, <1>6, <2>1, SenseKept
<1>9. OrderTyped'
  BY <1>2, <1>5, <1>6, OrderKept
<1>10. \A u \in Tasks : task[u].at # "idle" /\ task[u].kind = "edit" => task[u].line # line
  BY <1>2 DEF CartInv, Locked
<1>11. ~mixed' => /\ ~mixed
                  /\ \A u \in Tasks : task[u].at # "idle" /\ task[u].kind = "add" =>
                       task[u].line[2] # v
  BY <1>2 DEF AtWork
<1>12. Locked'
  <2> SUFFICES ASSUME NEW e \in Tasks, task'[e].at # "idle", task'[e].kind = "edit"
               PROVE  /\ task'[e].line \in pending'
                      /\ \A u \in Tasks : task'[u].at # "idle" =>
                           /\ task'[u].kind = "edit" /\ task'[u].line = task'[e].line => u = e
                           /\ task'[u].kind = "add" /\ ~mixed' =>
                                task'[u].line[2] # task'[e].line[2]
    BY DEF Locked
  <2>1. CASE e = t
    <3>1. task'[e].line = line /\ line \in pending'
      BY <1>2, <1>5, <1>6, <2>1 DEF Becomes
    <3>2. ASSUME NEW u \in Tasks, task'[u].at # "idle", u # t
          PROVE  /\ task'[u].kind = "edit" => task'[u].line # line
                 /\ task'[u].kind = "add" /\ ~mixed' => task'[u].line[2] # v
      BY <1>6, <1>10, <1>11, <3>2 DEF Becomes
    <3> QED
      BY <1>4, <1>5, <1>6, <2>1, <3>1, <3>2 DEF Becomes
  <2>2. CASE e # t
    <3>1. /\ task'[e] = task[e] /\ task[e].line \in pending /\ task[e].line # line
      BY <1>6, <1>10, <2>2 DEF Becomes, CartInv, Locked
    <3>2. ASSUME NEW u \in Tasks, task'[u].at # "idle"
          PROVE  /\ task'[u].kind = "edit" /\ task'[u].line = task'[e].line => u = e
                 /\ task'[u].kind = "add" /\ ~mixed' => task'[u].line[2] # task'[e].line[2]
      <4>1. CASE u = t
        BY <1>5, <1>6, <3>1, <4>1 DEF Becomes
      <4>2. CASE u # t
        BY <1>6, <1>11, <2>2, <3>1, <3>2, <4>2 DEF Becomes, CartInv, Locked
      <4> QED
        BY <4>1, <4>2
    <3> QED
      BY <1>2, <3>1, <3>2
  <2> QED
    BY <2>1, <2>2
<1>13. Synced'
  BY <1>5, <1>6, SyncedBusy
<1>14. ShownFresh' /\ AnswersFresh'
  <2>1. \A i \in CartIds : OrderDone(i) => OrderDone(i)'
    BY <1>2, <1>6 DEF OrderDone, Becomes
  <2>2. \A i \in CartIds, x \in Variants, u \in Tasks : Dirty(u, <<i, x>>) => Dirty(u, <<i, x>>)'
    BY <1>2, <1>6 DEF Dirty, Becomes
  <2>3. \A w \in Tasks : task'[w].at = "got" =>
          /\ task'[w] = task[w]
          /\ \A u \in Tasks : InOrder(serverOrder, u, w)' => InOrder(serverOrder, u, w)
    BY <1>2, <1>5, <1>6 DEF Becomes
  <2> QED
    BY <1>2, <2>1, <2>2, <2>3, FreshKept
<1>15. ClicksCount'
  <2>1. ASSUME NEW l \in Lines, l # line PROVE Unclicked(l)
    <3>1. wanted'[l] = wanted[l]
      BY <1>2, <1>3, <2>1
    <3> QED
      BY <1>2, <1>5, <1>6, <2>1, <3>1 DEF Unclicked, Editing, Becomes
  <2>2. ASSUME ~mixed' PROVE Clicked(line)
    <3>1. ASSUME shown.id = stored.id, content[shown.id][v] > 0 PROVE wish = qty
      <4>1. \A u \in Tasks : ~Dirty(u, <<stored.id, v>>)
        BY <1>4, <1>10, <1>11, <2>2, <3>1 DEF Dirty
      <4>2. content[stored.id][v] # 0
        BY <3>1
      <4>3. shown.lines[v] = content[stored.id][v]
        BY <1>2, <3>1, <4>1, <4>2 DEF CartInv, ShownFresh
      <4>4. \A u \in Tasks : ~Editing(u, line)
        BY <1>10 DEF Editing
      <4>5. wanted[line] = content[line[1]][line[2]]
        BY <1>2, <1>4, <1>11, <2>2, <4>4 DEF CartInv, ClicksCount
      <4> QED
        BY <1>4, <3>1, <4>3, <4>5
    <3>2. Editing(t, line)' /\ task'[t].id = stored.id /\ task'[t].qty = qty
      BY <1>5, <1>6 DEF Editing, Becomes
    <3>3. \A u \in Tasks : Editing(u, line)' => u = t
      BY <1>6, <1>10 DEF Editing, Becomes
    <3>4. wanted'[line] = wish
      BY <1>2, <1>3, <1>4
    <3>5. task'[t].id = line[1] /\ content'[line[1]][line[2]] > 0 => wanted'[line] = task'[t].qty
      BY <1>2, <1>4, <3>1, <3>2, <3>4
    <3> QED
      BY <3>2, <3>3, <3>5 DEF Clicked
  <2>3. mixed => mixed'
    BY <1>2
  <2> QED
    BY <1>2, <2>1, <2>2, <2>3, ClicksKept
<1> QED
  BY <1>7, <1>8, <1>9, <1>12, <1>13, <1>14, <1>15 DEF CartInv

\* The three buttons of a line.
LEMMA DrawerStep ==
  ASSUME CartInv, NEW t \in Tasks, Drawer(t)
  PROVE  CartInv'
<1>1. PICK v \in Variants : shown.lines[v] > 0 /\ Buttons(t, <<shown.id, v>>)
  BY DEF Drawer
<1>2. PICK line : line = <<shown.id, v>>
  OBVIOUS
<1>3. /\ shown.lines[v] \in Nat /\ shown.lines[v] + 1 \in Nat /\ shown.lines[v] - 1 \in Nat
      /\ line[2] = v
  BY <1>1, <1>2 DEF CartInv, CartTyped, Quantities
<1>4. line \in Lines /\ wanted[line] \in Nat
  <2>1. shown.id # 0
    BY <1>1 DEF CartInv, CartTyped, Empty
  <2>2. shown.id \in CartIds
    BY <2>1, CartAssumption DEF CartInv, CartTyped, CartIds
  <2>3. line \in Lines
    BY <1>2, <2>2 DEF Lines
  <2> QED
    BY <2>3 DEF CartInv, CartTyped
<1>5. CASE IncrementItem(t, line)
  <2>1. wanted' = [wanted EXCEPT ![line] = wanted[line] + 1]
        /\ SendEdit(t, line, shown.lines[v] + 1) /\ wanted[line] + 1 \in Nat
    BY <1>3, <1>4, <1>5 DEF IncrementItem
  <2> QED
    BY <1>1, <1>2, <1>3, <2>1, EditStep
<1>6. CASE DecrementItem(t, line)
  <2> DEFINE wish == IF wanted[line] = 0 THEN 0 ELSE wanted[line] - 1
  <2>1. wish \in Nat /\ (wanted[line] = shown.lines[v] => wish = shown.lines[v] - 1)
    BY <1>1, <1>3, <1>4
  <2>2. wanted' = [wanted EXCEPT ![line] = wish] /\ SendEdit(t, line, shown.lines[v] - 1)
    BY <1>3, <1>6 DEF DecrementItem
  <2> HIDE DEF wish
  <2> QED
    BY <1>1, <1>2, <1>3, <2>1, <2>2, EditStep
<1>7. CASE RemoveCartItem(t, line)
  <2>1. wanted' = [wanted EXCEPT ![line] = 0] /\ SendEdit(t, line, 0) /\ 0 \in Nat
    BY <1>7 DEF RemoveCartItem
  <2> QED
    BY <1>1, <1>2, <2>1, EditStep
<1> QED
  BY <1>1, <1>2, <1>5, <1>6, <1>7 DEF Buttons

-------------------------------------------------------------------------------
(***************************************************************************)
(* The order is sent.                                                      *)
(***************************************************************************)
LEMMA TypedKept ==
  ASSUME CartInv, NEW t \in Tasks, NEW k, Becomes(t, k), UNCHANGED <<scope, stored, shown, idsMade>>,
         mixed' \in BOOLEAN, overtaken' \in BOOLEAN, content' \in [CartIds -> Quantities],
         wanted' \in [Lines -> Nat]
  PROVE  CartTyped'
<1>1. AnyShop' = AnyShop
  BY DEF AnyShop
<1> QED
  BY <1>1 DEF CartInv, CartTyped, Becomes

\* The quantities of a cart that some operation is about.
LEMMA TaskIs ==
  ASSUME CartInv, NEW t \in Tasks, task[t].at # "idle"
  PROVE  /\ task[t].id \in CartIds /\ task[t].id \in 1..idsMade /\ task[t].qty \in Nat
         /\ task[t].kind \in {"add", "edit"} => task[t].line \in Lines
         /\ content \in [CartIds -> Quantities] /\ wanted \in [Lines -> Nat]
         /\ overtaken \in BOOLEAN /\ mixed \in BOOLEAN
         /\ \A l \in Lines : l[1] \in CartIds /\ l[2] \in Variants /\ l = <<l[1], l[2]>>
                             /\ content[l[1]][l[2]] \in Nat
<1>1. idsMade \in 0..MaxCarts /\ MaxCarts \in Nat
  BY CartAssumption DEF CartInv, CartTyped
<1>2. task[t] \in TaskRecords /\ MakesSense(task[t])
  BY DEF CartInv, CartTyped, TasksMakeSense
<1>3. task[t].id \in 1..idsMade /\ (task[t].kind \in {"add", "edit"} => task[t].line \in Lines)
  BY <1>2 DEF MakesSense
<1>4. task[t].id \in CartIds /\ task[t].qty \in Nat
  BY <1>1, <1>2, <1>3 DEF CartIds, TaskRecords
<1>5. /\ content \in [CartIds -> Quantities] /\ wanted \in [Lines -> Nat]
      /\ overtaken \in BOOLEAN /\ mixed \in BOOLEAN
  BY DEF CartInv, CartTyped
<1>6. \A l \in Lines : l[1] \in CartIds /\ l[2] \in Variants /\ l = <<l[1], l[2]>>
  BY DEF Lines
<1> QED
  BY <1>3, <1>4, <1>5, <1>6 DEF Quantities

\* The order is sent.
LEMMA SendOrderStep ==
  ASSUME CartInv, NEW t \in Tasks, SendOrder(t)
  PROVE  CartInv'
<1>1. PICK k : k = [NoTask EXCEPT !.at = "post", !.kind = "order", !.id = stored.id]
  OBVIOUS
<1>2. /\ task[t].at = "idle" /\ stored # NoCart /\ task' = [task EXCEPT ![t] = k]
      /\ UNCHANGED <<scope, stored, shown, idsMade, content, pending, serverOrder, lateReads,
                     overtaken, mixed, wanted>>
  BY <1>1 DEF SendOrder, FreePlace
<1>3. stored.id \in 1..idsMade /\ idsMade \in 0..MaxCarts /\ idsMade \in Nat /\ MaxCarts \in Nat
  BY <1>2, CartAssumption DEF CartInv, CartTyped
<1>4. k \in TaskRecords /\ k.at = "post" /\ k.kind = "order" /\ k.id = stored.id
  <2>1. stored.id \in 0..MaxCarts
    BY <1>3
  <2> QED
    BY <1>1, <2>1, Fits DEF TaskRecords
<1>5. Becomes(t, k)
  BY <1>2, <1>4, OneBecomes DEF CartInv
<1>6. CartTyped'
  BY <1>2, <1>5, TypedKept DEF CartInv, CartTyped
<1>7. TasksMakeSense'
  <2>1. MakesSense(k)'
    BY <1>2, <1>3, <1>4 DEF MakesSense
  <2> QED
    BY <1>2, <1>3, <1>5, <2>1, SenseKept
<1>8. OrderTyped'
  BY <1>2, <1>4, <1>5, OrderKept
<1>9. Locked'
  BY <1>2, <1>4, <1>5, LockedKept
<1>10. Synced'
  BY <1>4, <1>5, SyncedBusy
<1>11. ShownFresh' /\ AnswersFresh'
  <2>1. \A i \in CartIds : OrderDone(i) => OrderDone(i)'
    BY <1>2, <1>5 DEF OrderDone, Becomes
  <2>2. \A i \in CartIds, x \in Variants, u \in Tasks : Dirty(u, <<i, x>>) => Dirty(u, <<i, x>>)'
    BY <1>2, <1>5 DEF Dirty, Becomes
  <2>3. \A w \in Tasks : task'[w].at = "got" =>
          /\ task'[w] = task[w]
          /\ \A u \in Tasks : InOrder(serverOrder, u, w)' => InOrder(serverOrder, u, w)
    BY <1>2, <1>4, <1>5 DEF Becomes
  <2> QED
    BY <1>2, <2>1, <2>2, <2>3, FreshKept
<1>12. ClicksCount'
  BY <1>2, <1>4, <1>5, ClicksQuiet
<1> QED
  BY <1>6, <1>7, <1>8, <1>9, <1>10, <1>11, <1>12 DEF CartInv

-------------------------------------------------------------------------------
(***************************************************************************)
(* What the server answers.                                                *)
(***************************************************************************)
\* A change has its answer, or none.
Answers(t, k) ==
  /\ Becomes(t, k) /\ k.at = "done" /\ k.kind = task[t].kind /\ k.line = task[t].line
  /\ k.id = task[t].id /\ k.shop = task[t].shop

\* A change that is answered is still in progress; what is fresh depends on the answer.
LEMMA AnswerRest ==
  ASSUME CartInv, NEW t \in Tasks, task[t].at \in {"post", "done"}, NEW k, Answers(t, k),
         UNCHANGED <<scope, stored, shown, idsMade, pending, serverOrder, mixed>>,
         overtaken' \in BOOLEAN, content' \in [CartIds -> Quantities], wanted' \in [Lines -> Nat]
  PROVE  CartTyped' /\ TasksMakeSense' /\ OrderTyped' /\ Locked' /\ Synced'
<1>1. Becomes(t, k) /\ k.at = "done"
  BY DEF Answers
<1>2. CartTyped'
  BY <1>1, TypedKept DEF CartInv, CartTyped
<1>3. TasksMakeSense'
  <2>1. MakesSense(task[t]) /\ idsMade \in Nat
    BY CartAssumption DEF CartInv, CartTyped, TasksMakeSense
  <2>2. AnyShop' = AnyShop
    BY DEF AnyShop
  <2>3. MakesSense(k)'
    BY <2>1, <2>2 DEF MakesSense, Answers
  <2> QED
    BY <1>1, <2>1, <2>3, SenseKept
<1>4. OrderTyped'
  BY <1>1, OrderKept
<1>5. Locked'
  BY <1>1, LockedKept DEF Answers
<1>6. Synced'
  BY <1>1, SyncedBusy
<1> QED
  BY <1>2, <1>3, <1>4, <1>5, <1>6

LEMMA AnswerFresh ==
  ASSUME CartInv, NEW t \in Tasks, task[t].at = "post", NEW k, Answers(t, k),
         UNCHANGED <<stored, shown, overtaken, serverOrder, lateReads>>,
         \A i \in CartIds, v \in Variants :
           \/ content'[i][v] = content[i][v]
           \/ k.ok = "yes" /\ k.kind \in {"add", "edit"} /\ k.line = <<i, v>>
           \/ k.ok = "yes" /\ k.kind = "order" /\ k.id = i /\ content'[i][v] = 0
  PROVE  ShownFresh' /\ AnswersFresh'
<1>1. \A i \in CartIds : OrderDone(i) => OrderDone(i)'
  BY DEF OrderDone, Becomes, Answers
<1>2. \A i \in CartIds, x \in Variants, u \in Tasks : Dirty(u, <<i, x>>) => Dirty(u, <<i, x>>)'
  BY DEF Dirty, Becomes, Answers
<1>3. \A w \in Tasks : task'[w].at = "got" =>
        /\ task'[w] = task[w]
        /\ \A u \in Tasks : InOrder(serverOrder, u, w)' => InOrder(serverOrder, u, w)
  BY DEF Becomes, Answers
<1>4. \A w \in Tasks : ~InOrder(serverOrder, t, w)
  BY DEF CartInv, OrderTyped, Holds, InOrder
<1>5. ASSUME NEW i \in CartIds, NEW v \in Variants
      PROVE  \/ content'[i][v] = content[i][v]
             \/ content'[i][v] = 0 /\ OrderDone(i)'
             \/ \E u \in Tasks : Dirty(u, <<i, v>>)' /\ \A w \in Tasks : ~InOrder(serverOrder, u, w)'
  <2>1. CASE k.ok = "yes" /\ k.kind \in {"add", "edit"} /\ k.line = <<i, v>>
    <3>1. Dirty(t, <<i, v>>)'
      BY <2>1 DEF Dirty, Becomes, Answers
    <3> QED
      BY <1>4, <3>1
  <2>2. CASE k.ok = "yes" /\ k.kind = "order" /\ k.id = i /\ content'[i][v] = 0
    <3>1. OrderDone(i)'
      BY <2>2 DEF OrderDone, Becomes, Answers
    <3> QED
      BY <2>2, <3>1
  <2> QED
    BY <2>1, <2>2
<1> QED
  BY <1>1, <1>2, <1>3, <1>5, FreshKept

\* The server adds, changes a line, or takes the order.
LEMMA ServeAddStep ==
  ASSUME CartInv, NEW t \in Tasks, ServeAdd(t)
  PROVE  CartInv'
<1>1. /\ task[t].at = "post" /\ task[t].kind = "add"
      /\ UNCHANGED <<scope, stored, shown, idsMade, pending, serverOrder, lateReads, overtaken,
                     mixed>>
  BY DEF ServeAdd
<1>2. PICK i, v : i = task[t].id /\ v = task[t].line[2]
  OBVIOUS
<1>3. /\ i \in CartIds /\ v \in Variants /\ task[t].line = <<i, v>> /\ task[t].line \in Lines
      /\ task[t].qty \in Nat /\ content \in [CartIds -> Quantities] /\ wanted \in [Lines -> Nat]
      /\ overtaken \in BOOLEAN
  <2>1. MakesSense(task[t])
    BY DEF CartInv, TasksMakeSense
  <2>2. task[t].line[1] = i
    BY <1>1, <1>2, <2>1 DEF MakesSense
  <2> QED
    BY <1>1, <1>2, <2>2, TaskIs
<1>4. CASE /\ content' = [content EXCEPT ![i][v] = @ + task[t].qty]
           /\ wanted' = [wanted EXCEPT ![<<i, v>>] = @ + task[t].qty]
           /\ AnswerChange(t, "yes")
  <2>1. PICK k \in TaskRecords : Answers(t, k) /\ k.ok = "yes"
    BY <1>4, AnswerBecomes DEF CartInv, Answers
  <2>2. content[i] \in Quantities /\ content[i][v] \in Nat /\ wanted[<<i, v>>] \in Nat
    BY <1>3 DEF Quantities
  <2>3. content[i][v] + task[t].qty \in Nat /\ wanted[<<i, v>>] + task[t].qty \in Nat
    BY <1>3, <2>2
  <2>4. /\ content' \in [CartIds -> Quantities] /\ content'[i][v] = content[i][v] + task[t].qty
        /\ \A j \in CartIds, x \in Variants : <<j, x>> # <<i, v>> => content'[j][x] = content[j][x]
    BY <1>3, <1>4, <2>3 DEF Quantities
  <2>5. /\ wanted' \in [Lines -> Nat] /\ wanted'[<<i, v>>] = wanted[<<i, v>>] + task[t].qty
        /\ \A l \in Lines : l # <<i, v>> => wanted'[l] = wanted[l]
    BY <1>3, <1>4, <2>3
  <2>6. CartTyped' /\ TasksMakeSense' /\ OrderTyped' /\ Locked' /\ Synced'
    BY <1>1, <1>3, <2>1, <2>4, <2>5, AnswerRest
  <2>7. ShownFresh' /\ AnswersFresh'
    <3>1. k.kind = "add" /\ k.line = <<i, v>>
      BY <1>1, <1>3, <2>1 DEF Answers
    <3> QED
      BY <1>1, <2>1, <2>4, <3>1, AnswerFresh
  <2>8. ClicksCount'
    <3>1. \A u \in Tasks, l \in Lines : Editing(u, l)' <=> Editing(u, l)
      BY <1>1, <2>1 DEF Editing, Answers, Becomes
    <3>2. ASSUME ~overtaken', ~mixed' PROVE Settled(<<i, v>>)
      <4>1. \A u \in Tasks : ~Editing(u, <<i, v>>)
        BY <1>1, <1>3, <3>2 DEF CartInv, Locked, Editing
      <4>2. wanted[<<i, v>>] = content[i][v]
        BY <1>1, <1>3, <3>2, <4>1 DEF CartInv, ClicksCount
      <4> QED
        BY <1>3, <2>4, <2>5, <3>1, <4>1, <4>2 DEF Settled
    <3>3. ASSUME NEW l \in Lines, l # <<i, v>> PROVE Unclicked(l)
      <4>1. wanted'[l] = wanted[l] /\ content'[l[1]][l[2]] = content[l[1]][l[2]]
        BY <1>1, <2>4, <2>5, <3>3, TaskIs
      <4>2. \A u \in Tasks : Editing(u, l) => task'[u] = task[u]
        BY <1>1, <2>1 DEF Editing, Answers, Becomes
      <4> QED
        BY <3>1, <4>1, <4>2 DEF Unclicked
    <3> QED
      BY <1>1, <3>2, <3>3, ClicksKept
  <2> QED
    BY <2>6, <2>7, <2>8 DEF CartInv
<1>5. CASE UNCHANGED <<content, wanted>> /\ \E no \in {"404", "error"} : AnswerChange(t, no)
  <2>1. PICK k \in TaskRecords : Answers(t, k)
    BY <1>5, AnswerBecomes DEF CartInv, Answers
  <2>2. CartTyped' /\ TasksMakeSense' /\ OrderTyped' /\ Locked' /\ Synced'
    BY <1>1, <1>3, <1>5, <2>1, AnswerRest
  <2>3. ShownFresh' /\ AnswersFresh'
    BY <1>1, <1>5, <2>1, AnswerFresh
  <2>4. ClicksCount'
    BY <1>1, <1>5, <2>1, ClicksQuiet DEF Answers
  <2> QED
    BY <2>2, <2>3, <2>4 DEF CartInv
<1> QED
  BY <1>2, <1>4, <1>5 DEF ServeAdd

LEMMA ServeEditStep ==
  ASSUME CartInv, NEW t \in Tasks, ServeEdit(t)
  PROVE  CartInv'
<1>1. /\ task[t].at = "post" /\ task[t].kind = "edit"
      /\ UNCHANGED <<scope, stored, shown, idsMade, pending, serverOrder, lateReads, overtaken,
                     mixed>>
  BY DEF ServeEdit
<1>2. PICK line : line = task[t].line
  OBVIOUS
<1>3. PICK i \in CartIds, v \in Variants : line = <<i, v>>
  BY <1>1, <1>2, TaskIs
<1>4. /\ line \in Lines /\ task[t].qty \in Nat /\ content \in [CartIds -> Quantities]
      /\ wanted \in [Lines -> Nat] /\ overtaken \in BOOLEAN /\ line[1] = i /\ line[2] = v
      /\ content[i][v] \in Nat
  BY <1>1, <1>2, <1>3, TaskIs
<1>5. Editing(t, line) /\ \A u \in Tasks : Editing(u, line) => u = t
  BY <1>1, <1>2 DEF CartInv, Locked, Editing
<1>6. ASSUME NEW k, Answers(t, k)
      PROVE  /\ \A u \in Tasks : ~Editing(u, line)'
             /\ \A l \in Lines : l # line /\ wanted'[l] = wanted[l]
                                 /\ content'[l[1]][l[2]] = content[l[1]][l[2]] => Unclicked(l)
  <2>1. task'[t].at = "done" /\ \A u \in Tasks : u # t => task'[u] = task[u]
    BY <1>6 DEF Answers, Becomes
  <2>2. \A u \in Tasks : ~Editing(u, line)'
    BY <1>5, <2>1 DEF Editing
  <2>3. \A l \in Lines, u \in Tasks : l # line => ~(Editing(t, l) \/ Editing(t, l)')
    BY <1>2, <2>1 DEF Editing
  <2>4. \A l \in Lines, u \in Tasks : u # t =>
          (Editing(u, l)' <=> Editing(u, l)) /\ task'[u] = task[u]
    BY <2>1 DEF Editing
  <2> QED
    BY <2>2, <2>3, <2>4 DEF Unclicked
<1>7. CASE /\ line[1] = task[t].id /\ content[line[1]][line[2]] > 0 /\ task[t].qty <= Stock
           /\ content' = [content EXCEPT ![line[1]][line[2]] = task[t].qty]
           /\ AnswerChange(t, "yes") /\ UNCHANGED wanted
  <2>1. PICK k \in TaskRecords : Answers(t, k) /\ k.ok = "yes"
    BY <1>7, AnswerBecomes DEF CartInv, Answers
  <2>2. /\ content' \in [CartIds -> Quantities] /\ content'[i][v] = task[t].qty
        /\ \A j \in CartIds, x \in Variants : <<j, x>> # <<i, v>> => content'[j][x] = content[j][x]
    BY <1>4, <1>7 DEF Quantities
  <2>3. CartTyped' /\ TasksMakeSense' /\ OrderTyped' /\ Locked' /\ Synced'
    BY <1>1, <1>4, <1>7, <2>1, <2>2, AnswerRest
  <2>4. ShownFresh' /\ AnswersFresh'
    <3>1. k.kind = "edit" /\ k.line = <<i, v>>
      BY <1>1, <1>2, <1>3, <2>1 DEF Answers
    <3> QED
      BY <1>1, <2>1, <2>2, <3>1, AnswerFresh
  <2>5. ClicksCount'
    <3>1. ASSUME ~overtaken', ~mixed' PROVE Settled(line)
      <4>1. wanted[line] = task[t].qty \/ task[t].qty > Stock
        BY <1>1, <1>4, <1>5, <1>7, <3>1 DEF CartInv, ClicksCount
      <4>2. wanted[line] = task[t].qty
        BY <1>4, <1>7, <4>1, Fits
      <4> QED
        BY <1>4, <1>6, <1>7, <2>1, <2>2, <4>2 DEF Settled
    <3>2. ASSUME NEW l \in Lines, l # line PROVE Unclicked(l)
      <4>1. content'[l[1]][l[2]] = content[l[1]][l[2]]
        BY <1>1, <1>3, <2>2, <3>2, TaskIs
      <4> QED
        BY <1>6, <1>7, <2>1, <3>2, <4>1
    <3> QED
      BY <1>1, <3>1, <3>2, ClicksKept
  <2> QED
    BY <2>3, <2>4, <2>5 DEF CartInv
<1>8. CASE /\ AnswerChange(t, "error") /\ UNCHANGED content
           /\ wanted' = [wanted EXCEPT ![line] = content[line[1]][line[2]]]
  <2>1. PICK k \in TaskRecords : Answers(t, k)
    BY <1>8, AnswerBecomes DEF CartInv, Answers
  <2>2. /\ wanted' \in [Lines -> Nat] /\ wanted'[line] = content[line[1]][line[2]]
        /\ \A l \in Lines : l # line => wanted'[l] = wanted[l]
    BY <1>4, <1>8
  <2>3. CartTyped' /\ TasksMakeSense' /\ OrderTyped' /\ Locked' /\ Synced'
    BY <1>1, <1>4, <1>8, <2>1, <2>2, AnswerRest
  <2>4. ShownFresh' /\ AnswersFresh'
    BY <1>1, <1>8, <2>1, AnswerFresh
  <2>5. ClicksCount'
    <3>1. Settled(line)
      BY <1>6, <1>8, <2>1, <2>2 DEF Settled
    <3>2. \A l \in Lines : l # line => Unclicked(l)
      BY <1>6, <1>8, <2>1, <2>2
    <3> QED
      BY <1>1, <3>1, <3>2, ClicksKept
  <2> QED
    BY <2>3, <2>4, <2>5 DEF CartInv
<1> QED
  BY <1>2, <1>7, <1>8 DEF ServeEdit

LEMMA ServeOrderStep ==
  ASSUME CartInv, NEW t \in Tasks, ServeOrder(t)
  PROVE  CartInv'
<1>1. /\ task[t].at = "post" /\ task[t].kind = "order"
      /\ UNCHANGED <<scope, stored, shown, idsMade, pending, serverOrder, lateReads, overtaken,
                     mixed>>
  BY DEF ServeOrder
<1>2. PICK i : i = task[t].id
  OBVIOUS
<1>3. /\ i \in CartIds /\ content \in [CartIds -> Quantities] /\ wanted \in [Lines -> Nat]
      /\ overtaken \in BOOLEAN
  BY <1>1, <1>2, TaskIs
<1>4. CASE AnswerChange(t, "error") /\ UNCHANGED <<content, wanted>>
  <2>1. PICK k \in TaskRecords : Answers(t, k)
    BY <1>4, AnswerBecomes DEF CartInv, Answers
  <2>2. CartTyped' /\ TasksMakeSense' /\ OrderTyped' /\ Locked' /\ Synced'
    BY <1>1, <1>3, <1>4, <2>1, AnswerRest
  <2>3. ShownFresh' /\ AnswersFresh'
    BY <1>1, <1>4, <2>1, AnswerFresh
  <2>4. ClicksCount'
    BY <1>1, <1>4, <2>1, ClicksQuiet DEF Answers
  <2> QED
    BY <2>2, <2>3, <2>4 DEF CartInv
<1>5. CASE /\ content' = [content EXCEPT ![i] = Empty]
           /\ wanted' = [l \in Lines |-> IF l[1] = i THEN 0 ELSE wanted[l]]
           /\ AnswerChange(t, "yes")
  <2>1. PICK k \in TaskRecords : Answers(t, k) /\ k.ok = "yes"
    BY <1>5, AnswerBecomes DEF CartInv, Answers
  <2>2. /\ content' \in [CartIds -> Quantities] /\ \A v \in Variants : content'[i][v] = 0
        /\ \A j \in CartIds : j # i => content'[j] = content[j]
    BY <1>3, <1>5, Fits DEF Empty
  <2>3. /\ wanted' \in [Lines -> Nat]
        /\ \A l \in Lines : wanted'[l] = IF l[1] = i THEN 0 ELSE wanted[l]
    BY <1>3, <1>5, Fits
  <2>4. CartTyped' /\ TasksMakeSense' /\ OrderTyped' /\ Locked' /\ Synced'
    BY <1>1, <1>3, <2>1, <2>2, <2>3, AnswerRest
  <2>5. ShownFresh' /\ AnswersFresh'
    <3>1. k.kind = "order" /\ k.id = i
      BY <1>1, <1>2, <2>1 DEF Answers
    <3>2. ASSUME NEW j \in CartIds, NEW v \in Variants
          PROVE  content'[j][v] = content[j][v] \/ (k.id = j /\ content'[j][v] = 0)
      BY <2>2, <3>1
    <3> QED
      BY <1>1, <2>1, <3>1, <3>2, AnswerFresh
  <2>6. ClicksCount'
    <3>1. \A u \in Tasks, l \in Lines : Editing(u, l)' <=> Editing(u, l)
      BY <1>1, <2>1 DEF Editing, Answers, Becomes
    <3>2. ASSUME NEW l \in Lines, l[1] = i PROVE Settled(l)
      <4>1. content'[l[1]][l[2]] = 0
        BY <1>1, <2>2, <3>2, TaskIs
      <4> QED
        BY <2>3, <3>2, <4>1 DEF Settled
    <3>3. ASSUME NEW l \in Lines, l[1] # i PROVE Unclicked(l)
      <4>1. wanted'[l] = wanted[l] /\ content'[l[1]][l[2]] = content[l[1]][l[2]]
        BY <1>1, <2>2, <2>3, <3>3, TaskIs
      <4>2. \A u \in Tasks : Editing(u, l) => task'[u] = task[u]
        BY <1>1, <2>1 DEF Editing, Answers, Becomes
      <4> QED
        BY <3>1, <4>1, <4>2 DEF Unclicked
    <3> QED
      BY <1>1, <3>2, <3>3, ClicksKept
  <2> QED
    BY <2>4, <2>5, <2>6 DEF CartInv
<1> QED
  BY <1>2, <1>4, <1>5 DEF ServeOrder

\* A refresh has its answer, or none.
LEMMA GotStep ==
  ASSUME CartInv, NEW t \in Tasks, task[t].at = "get", NEW k, Becomes(t, k), k.at = "got",
         k.kind = task[t].kind, k.line = task[t].line, k.id = task[t].id,
         k.ok = "yes" => k.lines = content[k.id], serverOrder' = Append(serverOrder, t),
         UNCHANGED <<scope, stored, shown, idsMade, content, pending, lateReads, overtaken,
                     mixed, wanted>>
  PROVE  CartInv'
<1>1. CartTyped'
  BY TypedKept DEF CartInv, CartTyped
<1>2. TasksMakeSense'
  <2>1. MakesSense(task[t]) /\ idsMade \in Nat
    BY CartAssumption DEF CartInv, CartTyped, TasksMakeSense
  <2>2. MakesSense(k)'
    BY <2>1 DEF MakesSense
  <2> QED
    BY <2>1, <2>2, SenseKept
<1>3. /\ OrderTyped'
      /\ \A u, w \in Tasks : w # t /\ InOrder(serverOrder, u, w)' => InOrder(serverOrder, u, w)
  BY OrderGrows
<1>4. Locked'
  BY LockedKept
<1>5. Synced'
  BY SyncedBusy
<1>6. ShownFresh' /\ AnswersFresh'
  <2>1. \A i \in CartIds : OrderDone(i) => OrderDone(i)'
    BY DEF OrderDone, Becomes
  <2>2. \A i \in CartIds, x \in Variants, u \in Tasks : Dirty(u, <<i, x>>) => Dirty(u, <<i, x>>)'
    BY DEF Dirty, Becomes
  <2>3. ASSUME NEW w \in Tasks, task'[w].at = "got", task'[w].ok = "yes", w \notin lateReads'
        PROVE  \/ task'[w].lines = content'[task'[w].id]
               \/ /\ task'[w] = task[w] /\ w \notin lateReads
                  /\ \A u \in Tasks : InOrder(serverOrder, u, w)' => InOrder(serverOrder, u, w)
    <3>1. CASE w = t
      BY <2>3, <3>1 DEF Becomes
    <3>2. CASE w # t
      BY <1>3, <2>3, <3>2 DEF Becomes
    <3> QED
      BY <3>1, <3>2
  <2> QED
    BY <2>1, <2>2, <2>3, FreshKept
<1>7. ClicksCount'
  BY ClicksQuiet
<1> QED
  BY <1>1, <1>2, <1>3, <1>4, <1>5, <1>6, <1>7 DEF CartInv

\* The cart as the server has it now.
LEMMA ServeGetStep ==
  ASSUME CartInv, NEW t \in Tasks, ServeGet(t)
  PROVE  CartInv'
<1> DEFINE ok == IF task[t].id \in denied THEN "404" ELSE "yes"
           k == [task[t] EXCEPT !.at = "got", !.lines = content[task[t].id], !.ok = ok]
<1>1. /\ task[t].at = "get" /\ serverOrder' = Append(serverOrder, t)
      /\ UNCHANGED <<scope, stored, shown, idsMade, content, pending, lateReads, overtaken,
                     mixed, wanted>>
  BY DEF ServeGet
<1>2. task[t] \in TaskRecords /\ task \in [Tasks -> TaskRecords]
  BY DEF CartInv, CartTyped
<1>3. content[task[t].id] \in Quantities
  BY <1>1, TaskIs
<1>4. ok \in {"yes", "404", "error"}
  OBVIOUS
<1>5. task' = [task EXCEPT ![t] = k]
  BY <1>2 DEF ServeGet
<1> HIDE DEF ok
<1>6. /\ k \in TaskRecords /\ k.at = "got" /\ k.kind = task[t].kind /\ k.line = task[t].line
      /\ k.id = task[t].id /\ k.lines = content[k.id]
  BY <1>2, <1>3, <1>4 DEF TaskRecords
<1> HIDE DEF k
<1>7. Becomes(t, k)
  BY <1>5, <1>6, OneBecomes DEF CartInv
<1> QED
  BY <1>1, <1>6, <1>7, GotStep

\* The answer, or the order, is lost.
LEMMA LostStep ==
  ASSUME CartInv, NEW t \in Tasks, Lost(t)
  PROVE  CartInv'
<1>1. /\ UNCHANGED <<scope, stored, shown, idsMade, content, pending, lateReads, mixed>>
      /\ task[t].at # "idle"
  BY DEF Lost
<1>2. CASE /\ task[t].at \in {"post", "done"} /\ AnswerChange(t, "error")
           /\ wanted' = [l \in Lines |-> content[l[1]][l[2]]]
           /\ overtaken' = TRUE /\ UNCHANGED serverOrder
  <2>1. PICK k \in TaskRecords : Answers(t, k)
    BY <1>2, AnswerBecomes DEF CartInv, Answers
  <2>2. wanted' \in [Lines -> Nat] /\ content' \in [CartIds -> Quantities] /\ overtaken'
    <3>1. \A l \in Lines : content[l[1]][l[2]] \in Nat
      BY <1>1, TaskIs
    <3> QED
      BY <1>1, <1>2, <3>1, TaskIs
  <2>3. CartTyped' /\ TasksMakeSense' /\ OrderTyped' /\ Locked' /\ Synced'
    BY <1>1, <1>2, <2>1, <2>2, AnswerRest
  <2>4. ShownFresh' /\ AnswersFresh'
    BY <2>2, FreshMoot
  <2>5. ClicksCount'
    BY <2>2 DEF ClicksCount
  <2> QED
    BY <2>3, <2>4, <2>5 DEF CartInv
<1>3. CASE /\ task[t].at = "get"
           /\ task' = [task EXCEPT ![t].at = "got", ![t].ok = "error"]
           /\ serverOrder' = Append(serverOrder, t)
           /\ UNCHANGED <<wanted, overtaken>>
  <2> DEFINE k == [task[t] EXCEPT !.at = "got", !.ok = "error"]
  <2>1. task[t] \in TaskRecords /\ task \in [Tasks -> TaskRecords]
    BY DEF CartInv, CartTyped
  <2>2. task' = [task EXCEPT ![t] = k]
    BY <1>3, <2>1
  <2>3. /\ k \in TaskRecords /\ k.at = "got" /\ k.kind = task[t].kind /\ k.line = task[t].line
        /\ k.id = task[t].id /\ k.ok = "error"
    BY <2>1 DEF TaskRecords
  <2> HIDE DEF k
  <2>4. Becomes(t, k)
    BY <2>2, <2>3, OneBecomes DEF CartInv
  <2> QED
    BY <1>1, <1>3, <2>3, <2>4, GotStep
<1> QED
  BY <1>2, <1>3 DEF Lost, AnswerChange

-------------------------------------------------------------------------------
(***************************************************************************)
(* What the client does with the answers.                                  *)
(***************************************************************************)
\* A change was made: refresh.
LEMMA ChangedStep ==
  ASSUME CartInv, NEW t \in Tasks, Changed(t)
  PROVE  CartInv'
<1>1. /\ task[t].at = "done" /\ task[t].kind # "order" /\ StartRefresh(t)
      /\ UNCHANGED <<scope, stored, idsMade, content, serverOrder, lateReads, overtaken, mixed,
                     wanted>>
      /\ IF stored = NoCart THEN pending' = Unlock(t) ELSE UNCHANGED pending
  BY DEF Changed
<1>2. CartTyped /\ idsMade \in 0..MaxCarts /\ idsMade \in Nat /\ MaxCarts \in Nat
  BY CartAssumption DEF CartInv, CartTyped
<1>3. CASE stored = NoCart
  <2>1. shown' = NoCartShown /\ task' = [task EXCEPT ![t] = NoTask] /\ pending' = Unlock(t)
    BY <1>1, <1>3 DEF StartRefresh
  <2>2. Becomes(t, NoTask)
    BY <1>2, <2>1, IdleBecomes
  <2>3. CartTyped'
    <3>1. shown' \in [id : 0..idsMade', lines : Quantities] /\ (shown'.id = 0 => shown'.lines = Empty)
      <4>1. 0 \in 0..idsMade
        BY <1>2
      <4> QED
        BY <1>1, <2>1, <4>1, Fits DEF NoCartShown
    <3>2. AnyShop' = AnyShop
      BY <1>1 DEF AnyShop
    <3> QED
      BY <1>1, <1>2, <2>2, <3>1, <3>2 DEF CartTyped, Becomes
  <2>4. TasksMakeSense'
    BY <1>1, <1>2, <2>2, Fits, SenseKept
  <2>5. OrderTyped'
    BY <1>1, <2>2, Fits, OrderKept
  <2>6. Locked'
    BY <1>1, <2>1, <2>2, Fits, LockedKept DEF Unlock
  <2>7. Synced'
    BY <1>1, <1>3, <2>1 DEF Synced, NoCartShown, NoCart
  <2>8. ShownFresh' /\ AnswersFresh'
    BY <1>1, <1>3, FreshMoot
  <2>9. ClicksCount'
    BY <1>1, <2>2, Fits, ClicksQuiet
  <2> QED
    BY <2>3, <2>4, <2>5, <2>6, <2>7, <2>8, <2>9 DEF CartInv
<1>4. CASE stored # NoCart
  <2>1. PICK k \in TaskRecords : /\ Becomes(t, k) /\ k.at = "get" /\ k.kind = task[t].kind
                                 /\ k.line = task[t].line /\ k.id = stored.id
    BY <1>1, <1>2, <1>4, RefreshBecomes
  <2>2. UNCHANGED <<shown, pending>>
    BY <1>1, <1>2, <1>4, RefreshBecomes
  <2>3. CartTyped'
    BY <1>1, <2>1, <2>2, TypedKept DEF CartInv, CartTyped
  <2>4. TasksMakeSense'
    <3>1. MakesSense(task[t]) /\ stored.id \in 1..idsMade
      BY <1>4 DEF CartInv, CartTyped, TasksMakeSense
    <3>2. MakesSense(k)'
      BY <1>1, <2>1, <3>1 DEF MakesSense
    <3> QED
      BY <1>1, <1>2, <2>1, <3>2, SenseKept
  <2>5. OrderTyped'
    BY <1>1, <2>1, OrderKept
  <2>6. Locked'
    BY <1>1, <2>1, <2>2, LockedKept
  <2>7. Synced'
    BY <2>1, SyncedBusy
  <2>8. ShownFresh' /\ AnswersFresh'
    <3>1. \A i \in CartIds : OrderDone(i) => OrderDone(i)'
      BY <1>1, <2>1 DEF OrderDone, Becomes
    <3>2. \A i \in CartIds, x \in Variants, u \in Tasks : Dirty(u, <<i, x>>) => Dirty(u, <<i, x>>)'
      BY <1>1, <2>1 DEF Dirty, Becomes
    <3>3. \A w \in Tasks : task'[w].at = "got" =>
            /\ task'[w] = task[w]
            /\ \A u \in Tasks : InOrder(serverOrder, u, w)' => InOrder(serverOrder, u, w)
      BY <1>1, <2>1 DEF Becomes
    <3> QED
      BY <1>1, <2>2, <3>1, <3>2, <3>3, FreshKept
  <2>9. ClicksCount'
    BY <1>1, <2>1, ClicksQuiet
  <2> QED
    BY <2>3, <2>4, <2>5, <2>6, <2>7, <2>8, <2>9 DEF CartInv
<1> QED
  BY <1>3, <1>4

\* A refused add is tried again, with a new cart.
LEMMA AddAgainStep ==
  ASSUME CartInv, NEW t \in Tasks, AddAgain(t)
  PROVE  CartInv'
<1>1. PICK cart : cart = OwnCart(task[t].shop, NoCart)
  OBVIOUS
<1>2. PICK k : k = [task[t] EXCEPT !.at = "post", !.again = TRUE, !.id = cart.id,
                                   !.line = <<cart.id, task[t].line[2]>>]
  OBVIOUS
<1>3. CartTyped /\ MakesSense(task[t]) /\ task[t] \in TaskRecords /\ task \in [Tasks -> TaskRecords]
  BY DEF CartInv, CartTyped, TasksMakeSense
<1>4. /\ task[t].at = "done" /\ task[t].kind = "add" /\ cart.id <= MaxCarts /\ Take(cart)
      /\ task' = [task EXCEPT ![t] = k]
      /\ UNCHANGED <<scope, shown, content, pending, serverOrder, lateReads, overtaken, mixed,
                     wanted>>
  BY <1>1, <1>2, <1>3 DEF AddAgain
<1>5. task[t].shop \in AnyShop /\ task[t].line \in Lines /\ task[t].line[2] \in Variants
  BY <1>3, <1>4 DEF MakesSense, Lines
<1>6. /\ stored' = cart /\ cart.id \in 1..idsMade' /\ idsMade' \in idsMade..MaxCarts
      /\ cart \in [shop : AnyShop, id : 1..idsMade'] /\ cart.id > idsMade
  BY <1>1, <1>3, <1>4, <1>5, OwnCartIs
<1>7. idsMade \in Nat /\ MaxCarts \in Nat /\ idsMade' \in Nat /\ idsMade <= idsMade'
      /\ idsMade' \in 0..MaxCarts
  BY <1>6, CartAssumption DEF CartInv, CartTyped
<1>8. /\ k \in TaskRecords /\ k.at = "post" /\ k.kind = "add" /\ k.shop = task[t].shop
      /\ k.id = cart.id /\ k.line = <<cart.id, task[t].line[2]>>
  <2>1. <<cart.id, task[t].line[2]>> \in (0..MaxCarts) \X (Variants \cup {"none"})
        /\ cart.id \in 0..MaxCarts
    BY <1>5, <1>6, <1>7
  <2> QED
    BY <1>2, <1>3, <1>4, <2>1 DEF TaskRecords
<1>9. Becomes(t, k)
  BY <1>3, <1>4, <1>8, OneBecomes
<1>10. CartTyped'
  <2>1. AnyShop' = AnyShop
    BY <1>4 DEF AnyShop
  <2>2. shown' \in [id : 0..idsMade', lines : Quantities]
    BY <1>4, <1>7 DEF CartInv, CartTyped
  <2> QED
    BY <1>3, <1>4, <1>6, <1>7, <1>9, <2>1, <2>2 DEF CartTyped, Becomes
<1>11. TasksMakeSense'
  <2>1. MakesSense(k)'
    <3>1. k.id \in 1..idsMade' /\ k.line \in Lines /\ k.line[1] = k.id /\ k.shop \in AnyShop'
      BY <1>4, <1>5, <1>6, <1>7, <1>8 DEF Lines, CartIds, AnyShop
    <3> QED
      BY <1>8, <3>1 DEF MakesSense
  <2> QED
    BY <1>4, <1>7, <1>9, <2>1, SenseKept
<1>12. OrderTyped'
  BY <1>4, <1>8, <1>9, OrderKept
<1>13. Locked'
  BY <1>4, <1>8, <1>9, LockedKept
<1>14. Synced'
  BY <1>8, <1>9, SyncedBusy
<1>15. ShownFresh' /\ AnswersFresh'
  <2>1. shown'.id # stored'.id
    BY <1>4, <1>6, <1>7 DEF CartInv, CartTyped
  <2>2. ASSUME NEW w \in Tasks, task'[w].at = "got" PROVE task'[w].id # stored'.id
    <3>1. task'[w] = task[w]
      BY <1>8, <1>9, <2>2 DEF Becomes
    <3>2. task[w].id \in 1..idsMade
      BY <2>2, <3>1 DEF CartInv, TasksMakeSense, MakesSense
    <3> QED
      BY <1>6, <1>7, <3>1, <3>2
  <2> QED
    BY <2>1, <2>2, FreshMoot
<1>16. ClicksCount'
  BY <1>4, <1>8, <1>9, ClicksQuiet
<1> QED
  BY <1>10, <1>11, <1>12, <1>13, <1>14, <1>15, <1>16 DEF CartInv

\* A change failed: no refresh.
LEMMA ChangeFailedStep ==
  ASSUME CartInv, NEW t \in Tasks, ChangeFailed(t)
  PROVE  CartInv'
<1>1. /\ task[t].at = "done" /\ task[t].ok # "yes" /\ task' = [task EXCEPT ![t] = NoTask]
      /\ pending' = Unlock(t) /\ overtaken' = (overtaken \/ stored.id # shown.id)
      /\ UNCHANGED <<scope, stored, shown, idsMade, content, serverOrder, lateReads, mixed, wanted>>
  BY DEF ChangeFailed
<1>2. Becomes(t, NoTask)
  BY <1>1, IdleBecomes DEF CartInv
<1>3. idsMade \in Nat
  BY CartAssumption DEF CartInv, CartTyped
<1>4. CartTyped'
  BY <1>1, <1>2, TypedKept DEF CartInv, CartTyped
<1>5. TasksMakeSense'
  BY <1>1, <1>2, <1>3, Fits, SenseKept
<1>6. OrderTyped'
  BY <1>1, <1>2, Fits, OrderKept
<1>7. Locked'
  BY <1>1, <1>2, Fits, LockedKept DEF Unlock
<1>8. Synced'
  BY <1>1 DEF Synced
<1>9. ShownFresh' /\ AnswersFresh'
  <2>1. \A i \in CartIds : OrderDone(i) => OrderDone(i)'
    BY <1>1, <1>2 DEF OrderDone, Becomes
  <2>2. \A i \in CartIds, x \in Variants, u \in Tasks : Dirty(u, <<i, x>>) => Dirty(u, <<i, x>>)'
    BY <1>1, <1>2 DEF Dirty, Becomes
  <2>3. \A w \in Tasks : task'[w].at = "got" =>
          /\ task'[w] = task[w]
          /\ \A u \in Tasks : InOrder(serverOrder, u, w)' => InOrder(serverOrder, u, w)
    BY <1>1, <1>2, Fits DEF Becomes
  <2> QED
    BY <1>1, <2>1, <2>2, <2>3, FreshKept
<1>10. ClicksCount'
  BY <1>1, <1>2, Fits, ClicksQuiet
<1> QED
  BY <1>4, <1>5, <1>6, <1>7, <1>8, <1>9, <1>10 DEF CartInv

\* The order was placed: the cart is forgotten.
LEMMA ClearStep ==
  ASSUME CartInv, NEW t \in Tasks, Clear(t)
  PROVE  CartInv'
<1>1. /\ task[t].at = "done" /\ task[t].kind = "order" /\ task' = [task EXCEPT ![t] = NoTask]
      /\ stored' = NoCart /\ shown' = NoCartShown
      /\ UNCHANGED <<scope, idsMade, content, pending, serverOrder, lateReads, overtaken, mixed,
                     wanted>>
  BY DEF Clear
<1>2. Becomes(t, NoTask)
  BY <1>1, IdleBecomes DEF CartInv
<1>3. CartTyped /\ idsMade \in 0..MaxCarts /\ idsMade \in Nat
  BY CartAssumption DEF CartInv, CartTyped
<1>4. CartTyped'
  <2>1. shown' \in [id : 0..idsMade', lines : Quantities] /\ (shown'.id = 0 => shown'.lines = Empty)
    <3>1. 0 \in 0..idsMade
      BY <1>3
    <3> QED
      BY <1>1, <3>1, Fits DEF NoCartShown
  <2> QED
    BY <1>1, <1>2, <1>3, <2>1 DEF CartTyped, Becomes
<1>5. TasksMakeSense'
  BY <1>1, <1>2, <1>3, Fits, SenseKept
<1>6. OrderTyped'
  BY <1>1, <1>2, Fits, OrderKept
<1>7. Locked'
  BY <1>1, <1>2, Fits, LockedKept
<1>8. Synced'
  BY <1>1 DEF Synced, NoCartShown, NoCart
<1>9. ShownFresh' /\ AnswersFresh'
  BY <1>1, FreshMoot
<1>10. ClicksCount'
  BY <1>1, <1>2, Fits, ClicksQuiet
<1> QED
  BY <1>4, <1>5, <1>6, <1>7, <1>8, <1>9, <1>10 DEF CartInv

\* The answer to a refresh is shown, unless it was a failure.
LEMMA RefreshedStep ==
  ASSUME CartInv, NEW t \in Tasks, Refreshed(t)
  PROVE  CartInv'
<1>1. PICK n : n = CHOOSE i \in DOMAIN serverOrder : serverOrder[i] = t
  OBVIOUS
<1>2. /\ task[t].at = "got" /\ task' = [task EXCEPT ![t] = NoTask] /\ pending' = Unlock(t)
      /\ lateReads' = (lateReads \ {t}) \cup {serverOrder[i] : i \in 1..n - 1}
      /\ serverOrder' = Out(serverOrder, n)
      /\ overtaken' = (overtaken \/ t \in lateReads \/ task[t].id # stored.id)
      /\ UNCHANGED <<scope, idsMade, content, mixed, wanted>>
      /\ \/ /\ task[t].ok = "yes" /\ UNCHANGED stored
            /\ shown' = [id |-> task[t].id, lines |-> task[t].lines]
         \/ stored' = NoCart /\ shown' = NoCartShown
  BY <1>1 DEF Refreshed, Out
<1>3. CartTyped /\ idsMade \in 0..MaxCarts /\ idsMade \in Nat
  BY CartAssumption DEF CartInv, CartTyped
<1>4. Becomes(t, NoTask)
  BY <1>2, <1>3, IdleBecomes
<1>5. /\ OrderTyped'
      /\ \A u, w \in Tasks : InOrder(serverOrder, u, w)' => InOrder(serverOrder, u, w)
      /\ \A w \in Tasks : task'[w].at = "got" =>
           InOrder(serverOrder, t, w) \/ w \in {serverOrder[i] : i \in 1..n - 1}
  BY <1>1, <1>2, <1>4, Fits, OrderShrinks
<1>6. task[t].id \in 1..idsMade /\ task[t].lines \in Quantities
  <2>1. task[t] \in TaskRecords
    BY <1>3 DEF CartTyped
  <2> QED
    BY <1>2, <2>1, TaskIs DEF TaskRecords
<1>7. CartTyped'
  <2>1. shown' \in [id : 0..idsMade', lines : Quantities] /\ (shown'.id = 0 => shown'.lines = Empty)
    <3>1. CASE shown' = [id |-> task[t].id, lines |-> task[t].lines]
      <4>1. task[t].id \in 0..idsMade /\ task[t].id # 0
        BY <1>3, <1>6
      <4> QED
        BY <1>2, <1>6, <3>1, <4>1
    <3>2. CASE shown' = NoCartShown
      <4>1. 0 \in 0..idsMade
        BY <1>3
      <4> QED
        BY <1>2, <3>2, <4>1, Fits DEF NoCartShown
    <3> QED
      BY <1>2, <3>1, <3>2
  <2>2. AnyShop' = AnyShop /\ (stored' = stored \/ stored' = NoCart)
    BY <1>2 DEF AnyShop
  <2>3. overtaken' \in BOOLEAN
    BY <1>2
  <2> QED
    BY <1>2, <1>3, <1>4, <2>1, <2>2, <2>3 DEF CartTyped, Becomes
<1>8. TasksMakeSense'
  BY <1>2, <1>3, <1>4, Fits, SenseKept
<1>9. Locked'
  BY <1>2, <1>4, Fits, LockedKept DEF Unlock
<1>10. Synced'
  <2>1. CASE stored' = NoCart /\ shown' = NoCartShown
    BY <2>1 DEF Synced, NoCartShown, NoCart
  <2>2. CASE stored' = stored /\ shown' = [id |-> task[t].id, lines |-> task[t].lines]
    <3>1. shown'.id = task[t].id
      BY <2>2
    <3>2. ~overtaken' => task[t].id = stored.id
      BY <1>2
    <3> QED
      BY <2>2, <3>1, <3>2 DEF Synced
  <2> QED
    BY <1>2, <2>1, <2>2
<1>11. ShownFresh' /\ AnswersFresh'
  <2>1. CASE stored' = NoCart
    BY <2>1, FreshMoot
  <2>2. CASE overtaken'
    BY <2>2, FreshMoot
  <2>3. CASE stored' # NoCart /\ ~overtaken'
    <3>1. /\ task[t].ok = "yes" /\ stored' = stored /\ stored # NoCart /\ ~overtaken
          /\ shown' = [id |-> task[t].id, lines |-> task[t].lines]
          /\ t \notin lateReads /\ task[t].id = stored.id
      BY <1>2, <2>3
    <3>2. OrderDone(stored.id) => OrderDone(stored.id)'
      BY <1>2, <1>4, <3>1 DEF OrderDone, Becomes
    <3>3. \A u \in Tasks, v \in Variants : u # t /\ Dirty(u, <<stored.id, v>>) =>
            Dirty(u, <<stored.id, v>>)'
      BY <1>4, <3>1 DEF Dirty, Becomes
    <3>4. InOrder(serverOrder, t, t)
      <4>1. Holds(serverOrder, t) /\ serverOrder \in Seq(Tasks)
        BY <1>2 DEF CartInv, OrderTyped
      <4>2. PICK i \in DOMAIN serverOrder : serverOrder[i] = t
        BY <4>1 DEF Holds
      <4>3. i <= i
        BY <4>1
      <4> QED
        BY <4>2, <4>3 DEF InOrder
    <3>5. ASSUME NEW w \in Tasks, task[w].at = "got", task[w].ok = "yes", task[w].id = stored.id,
                 w \notin lateReads, InOrder(serverOrder, t, w), NEW v \in Variants
          PROVE  \/ task[w].lines[v] = content'[stored.id][v]
                 \/ content'[stored.id][v] = 0 /\ OrderDone(stored.id)'
                 \/ \E u \in Tasks : Dirty(u, <<stored.id, v>>)' /\ ~InOrder(serverOrder, u, w)'
      <4>1. \/ task[w].lines[v] = content[stored.id][v]
            \/ content[stored.id][v] = 0 /\ OrderDone(stored.id)
            \/ \E u \in Tasks : Dirty(u, <<stored.id, v>>) /\ ~InOrder(serverOrder, u, w)
        BY <3>1, <3>5 DEF CartInv, AnswersFresh
      <4>2. ASSUME NEW u \in Tasks, Dirty(u, <<stored.id, v>>), ~InOrder(serverOrder, u, w)
            PROVE  Dirty(u, <<stored.id, v>>)' /\ ~InOrder(serverOrder, u, w)'
        BY <1>5, <3>3, <3>5, <4>2
      <4> QED
        BY <1>2, <3>2, <4>1, <4>2
    <3>6. ShownFresh'
      BY <1>2, <3>1, <3>4, <3>5 DEF ShownFresh
    <3>7. AnswersFresh'
      <4> SUFFICES ASSUME NEW w \in Tasks, task'[w].at = "got", task'[w].ok = "yes",
                          task'[w].id = stored'.id, w \notin lateReads', NEW v \in Variants
                   PROVE  \/ task'[w].lines[v] = content'[stored'.id][v]
                          \/ content'[stored'.id][v] = 0 /\ OrderDone(stored.id)'
                          \/ \E u \in Tasks : Dirty(u, <<stored.id, v>>)'
                                              /\ ~InOrder(serverOrder, u, w)'
        BY DEF AnswersFresh
      <4>1. w # t /\ task'[w] = task[w]
        BY <1>4, Fits DEF Becomes
      <4>2. w \notin lateReads /\ InOrder(serverOrder, t, w)
        BY <1>2, <1>5, <4>1
      <4> QED
        BY <3>1, <3>5, <4>1, <4>2
    <3> QED
      BY <3>6, <3>7
  <2> QED
    BY <2>1, <2>2, <2>3
<1>12. ClicksCount'
  BY <1>2, <1>4, Fits, ClicksQuiet
<1> QED
  BY <1>5, <1>7, <1>8, <1>9, <1>10, <1>11, <1>12 DEF CartInv

\* What is not told apart above: the buttons of a page that is left, a cart that is
\* claimed.
LEMMA CartSame ==
  ASSUME CartInv,
         UNCHANGED <<scope, stored, shown, idsMade, content, task, pending, serverOrder,
                     lateReads, overtaken, mixed, wanted>>
  PROVE  CartInv'
<1>1. CartTyped'
  BY DEF CartInv, CartTyped, AnyShop
<1>2. TasksMakeSense'
  BY DEF CartInv, TasksMakeSense, MakesSense, AnyShop
<1>3. OrderTyped'
  BY DEF CartInv, OrderTyped
<1>4. Locked'
  BY DEF CartInv, Locked
<1>5. Synced'
  BY DEF CartInv, Synced
<1>6. ShownFresh'
  BY DEF CartInv, ShownFresh, Dirty, OrderDone
<1>7. AnswersFresh'
  BY DEF CartInv, AnswersFresh, Dirty, OrderDone
<1>8. ClicksCount'
  BY DEF CartInv, ClicksCount, Editing
<1> QED
  BY <1>1, <1>2, <1>3, <1>4, <1>5, <1>6, <1>7, <1>8 DEF CartInv

\* The invariant is inductive.
LEMMA CartStep == CartInv /\ [CartNext]_cartVars => CartInv'
<1> SUFFICES ASSUME CartInv, [CartNext]_cartVars PROVE CartInv'
  OBVIOUS
<1>1. CASE UNCHANGED cartVars
  BY <1>1, CartSame DEF cartVars
<1>2. CASE LeavePage
  BY <1>2, CartSame DEF LeavePage
<1>3. ASSUME NEW i \in CartIds, Deny(i) PROVE CartInv'
  BY <1>3, CartSame DEF Deny
<1>4. ASSUME NEW t \in Tasks, NEW shop \in AnyShop, NEW v \in Variants,
             ProductCard(t, shop, v) \/ ProductDetailView(t, shop, v)
      PROVE  CartInv'
  <2>1. \A n \in 0..Stock + 1 : ClampQuantity(n) \in Nat
    BY CartAssumption DEF ClampQuantity
  <2>2. PICK qty \in Nat : AddToCart(t, shop, v, qty)
    <3>1. 1 \in Nat
      OBVIOUS
    <3> QED
      BY <1>4, <2>1, <3>1 DEF ProductCard, ProductDetailView
  <2> QED
    BY <2>2, AddStep
<1>5. ASSUME NEW t \in Tasks, NEW v \in Variants, MarketplaceProductCard(t, v) PROVE CartInv'
  <2>1. "any" \in AnyShop /\ 1 \in Nat /\ AddToCart(t, "any", v, 1)
    BY <1>5 DEF MarketplaceProductCard, AnyShop
  <2> QED
    BY <2>1, AddStep
<1>6. ASSUME NEW t \in Tasks, CartDrawer(t) \/ MarketplaceCartDrawer(t) PROVE CartInv'
  BY <1>6, DrawerStep DEF CartDrawer, MarketplaceCartDrawer
<1>7. ASSUME NEW t \in Tasks, Load(t) \/ SendOrder(t) \/ Lost(t) PROVE CartInv'
  BY <1>7, LoadStep, SendOrderStep, LostStep
<1>8. ASSUME NEW t \in Tasks, CartServer(t) PROVE CartInv'
  BY <1>8, ServeAddStep, ServeEditStep, ServeOrderStep, ServeGetStep DEF CartServer
<1>9. ASSUME NEW t \in Tasks, CartClient(t) PROVE CartInv'
  BY <1>9, ChangedStep, AddAgainStep, ChangeFailedStep, ClearStep, RefreshedStep DEF CartClient
<1> QED
  BY <1>1, <1>2, <1>3, <1>4, <1>5, <1>6, <1>7, <1>8, <1>9 DEF CartNext

LEMMA CartHolds == CartSpec => []CartInv
BY CartInit0, CartStep, PTL DEF CartSpec

-------------------------------------------------------------------------------
(***************************************************************************)
(* The theorems.                                                           *)
(***************************************************************************)
\* When nothing is in progress, and nothing the code does not guard against has
\* happened, the screen shows the cart that the server has for the id in localStorage,
\* or an empty one where there is no id: every change is followed by a refresh, and the
\* refresh that is shown last was answered last (CartContext.tsx:42-79).
THEOREM CartIsTrue == CartSpec => []IdleCartIsTrue
<1>1. CartInv => IdleCartIsTrue
  <2> SUFFICES ASSUME CartInv, \A t \in Tasks : task[t].at = "idle", ~overtaken
               PROVE  /\ shown.id = stored.id
                      /\ shown.lines = IF stored = NoCart THEN Empty ELSE content[stored.id]
    BY DEF IdleCartIsTrue
  <2>1. shown.id = stored.id
    BY DEF CartInv, Synced
  <2>2. CASE stored = NoCart
    BY <2>1, <2>2 DEF CartInv, CartTyped, NoCart
  <2>3. CASE stored # NoCart
    <3>1. \A v \in Variants : shown.lines[v] = content[stored.id][v]
      BY <2>1, <2>3 DEF CartInv, ShownFresh, OrderDone, Dirty
    <3>2. shown.lines \in Quantities /\ content[stored.id] \in Quantities
      BY <2>3, CartAssumption DEF CartInv, CartTyped, CartIds
    <3>3. shown.lines = content[stored.id]
      BY <3>1, <3>2 DEF Quantities
    <3> QED
      BY <2>1, <2>3, <3>3
  <2> QED
    BY <2>2, <2>3
<1> QED
  BY <1>1, CartHolds, PTL

\* Every accepted click of the drawer counts once: what the shopper asked for of a line
\* is what the server has of it, or a request about it is on its way.  The quantity that
\* is sent is absolute and read from the screen, which is safe because a line with a
\* request in progress, its refresh included, takes no other click
\* (CartContext.tsx:81-124).
THEOREM ClicksAreKept == CartSpec => []NoLostClick
<1>1. CartInv => NoLostClick
  BY DEF CartInv, ClicksCount, Editing, NoLostClick
<1> QED
  BY <1>1, CartHolds, PTL
===============================================================================
