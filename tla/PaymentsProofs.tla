---------------------------- MODULE PaymentsProofs ----------------------------
(***************************************************************************)
(* Theorems about OrderPayments, for every set of orders, master orders,   *)
(* handlers and intents, and every bound.                                  *)
(***************************************************************************)
EXTENDS OrderPayments, FiniteSetTheorems, TLAPS

\* What a handler has read and chosen when it has got so far.
TaskInv ==
  \A h \in Handlers :
    /\ task[h].kind \in {"pay", "webhook"} => task[h].subject \in Payables
    /\ task[h].kind = "webhook" => task[h].intent \in Intents
    /\ At(h, "pay", "store") => task[h].intent \in Intents

TypeInv == TypeOK /\ TaskInv

LEMMA NoTaskType == NoTask \in Tasks /\ NoTask.kind = "idle"
<1>1. NoView \in Views
  BY DEF NoView, Views, Statuses, MaybeIntent
<1> QED
  BY <1>1 DEF NoTask, Tasks, Kinds, Steps, MaybeIntent, Statuses

LEMMA OpenedType ==
  ASSUME TypeOK, NEW k \in Kinds, NEW s \in Steps, NEW S \in SUBSET Orders
  PROVE  /\ Opened(k, s, S) \in Tasks
         /\ Opened(k, s, S).kind = k /\ Opened(k, s, S).step = s
         /\ Opened(k, s, S).todo = S /\ Opened(k, s, S).marked = {}
         /\ Opened(k, s, S).view = Rows /\ Opened(k, s, S).dead = {}
<1>1. Rows \in Views
  BY DEF TypeOK
<1> QED
  BY <1>1, NoTaskType DEF Opened, Tasks, NoTask

LEMMA TypeInit == Init => TypeInv
<1> SUFFICES ASSUME Init PROVE TypeInv
  OBVIOUS
<1>1. Rows \in Views
  BY DEF Init, Rows, Views, Statuses, MaybeIntent
<1>2. task \in [Handlers -> Tasks] /\ \A h \in Handlers : task[h].kind = "idle"
  BY NoTaskType DEF Init
<1>3. TaskInv
  BY <1>2 DEF TaskInv, At
<1>4. TypeOK
  BY <1>1, <1>2, BoundAssumption
  DEF Init, TypeOK, BoundAssumption, Ages, MaybeIntent
<1> QED
  BY <1>3, <1>4 DEF TypeInv

\* A step of handler h is typed when the record it leaves behind is.
TaskStep(h, t) ==
  /\ task' = [task EXCEPT ![h] = t]
  /\ t \in Tasks
  /\ t.kind \in {"pay", "webhook"} => t.subject \in Payables
  /\ t.kind = "webhook" => t.intent \in Intents
  /\ t.kind = "pay" /\ t.step = "store" => t.intent \in Intents

LEMMA TaskStepTyped ==
  ASSUME TypeInv, NEW h \in Handlers, NEW t, TaskStep(h, t)
  PROVE  task' \in [Handlers -> Tasks] /\ TaskInv'
  BY DEF TypeInv, TypeOK, TaskInv, TaskStep, At

LEMMA CloseTyped ==
  ASSUME TypeInv, NEW h \in Handlers, Close(h)
  PROVE  task' \in [Handlers -> Tasks] /\ TaskInv'
<1>1. TaskStep(h, NoTask)
  BY NoTaskType DEF Close, TaskStep
<1> QED
  BY <1>1, TaskStepTyped

\* A handler that opened its session for something else than a payment.
LEMMA OpenTyped ==
  ASSUME TypeInv, NEW h \in Handlers, NEW t \in Tasks,
         t.kind \notin {"pay", "webhook"}, task' = [task EXCEPT ![h] = t]
  PROVE  task' \in [Handlers -> Tasks] /\ TaskInv'
<1>1. TaskStep(h, t)
  BY DEF TaskStep
<1> QED
  BY <1>1, TaskStepTyped

\* A handler that goes on: of the same kind, for the same subject and intent.
LEMMA GoTyped ==
  ASSUME TypeInv, NEW h \in Handlers, NEW t \in Tasks,
         t.kind = task[h].kind, t.subject = task[h].subject,
         t.intent = task[h].intent,
         t.step = task[h].step \/ t.step # "store",
         task' = [task EXCEPT ![h] = t]
  PROVE  task' \in [Handlers -> Tasks] /\ TaskInv'
<1>1. TaskStep(h, t)
  BY DEF TaskStep, TypeInv, TaskInv, At
<1> QED
  BY <1>1, TaskStepTyped

\* The status column as a handler knows it after it assigned s to the orders S.
Known(h, S, s) ==
  [o \in Orders |-> IF o \in S THEN s ELSE task[h].view.status[o]]

LEMMA KnownType ==
  ASSUME TypeInv, NEW h \in Handlers, NEW S, NEW s \in Statuses
  PROVE  Known(h, S, s) \in [Orders -> Statuses]
<1>1. task[h] \in Tasks
  BY DEF TypeInv, TypeOK
<1> QED
  BY <1>1 DEF Known, Tasks, Views

LEMMA TaskOf ==
  ASSUME TypeInv, NEW h \in Handlers
  PROVE  /\ task[h] \in Tasks
         /\ task[h].todo \subseteq Orders /\ task[h].marked \subseteq Orders
         /\ task[h].dead \subseteq Masters
         /\ task[h].kind \in {"pay", "webhook"} => task[h].subject \in Payables
         /\ task[h].kind = "webhook" => task[h].intent \in Intents
         /\ At(h, "pay", "store") => task[h].intent \in Intents
         /\ task[h].view \in Views
  BY DEF TypeInv, TypeOK, TaskInv, Tasks

\* The SELECT of a handler that has no payable and no intent.
LEMMA OpenedTyped ==
  ASSUME TypeInv, NEW h \in Handlers, NEW k \in {"sweep", "cancel", "fulfil"},
         NEW s \in Steps, NEW S \in SUBSET Orders,
         task' = [task EXCEPT ![h] = Opened(k, s, S)]
  PROVE  task' \in [Handlers -> Tasks] /\ TaskInv'
<1> DEFINE op == Opened(k, s, S)
<1>1. k \in Kinds
  BY DEF Kinds
<1>2. op \in Tasks /\ op.kind = k
  BY <1>1, OpenedType DEF TypeInv
<1>3. task' = [task EXCEPT ![h] = op]
  OBVIOUS
<1> HIDE DEF op
<1> QED
  BY <1>2, <1>3, OpenTyped

LEMMA TaskNext ==
  TypeInv /\ [Next]_vars => task' \in [Handlers -> Tasks] /\ TaskInv'
<1> SUFFICES ASSUME TypeInv, [Next]_vars
             PROVE  task' \in [Handlers -> Tasks] /\ TaskInv'
  OBVIOUS
<1> DEFINE Goal == task' \in [Handlers -> Tasks] /\ TaskInv'
<1>0. ASSUME UNCHANGED task PROVE Goal
  BY <1>0 DEF TypeInv, TypeOK, TaskInv, At
<1>1. ASSUME NEW h \in Handlers, NEW p \in Payables, PayStart(h, p) PROVE Goal
  <2> DEFINE st == IF provider = "mock" THEN "commit" ELSE "gateway"
             op == Opened("pay", st, Awaiting(Rows, p))
             t  == [op EXCEPT !.subject = p]
  <2>1. Awaiting(Rows, p) \subseteq Orders
    BY DEF Awaiting, Covered, Payables
  <2>2. op \in Tasks /\ op.kind = "pay" /\ op.step \in {"commit", "gateway"}
    BY <2>1, OpenedType DEF TypeInv, Kinds, Steps
  <2> HIDE DEF op
  <2>3. t \in Tasks /\ t.kind = "pay" /\ t.subject = p /\ t.step # "store"
    BY <2>2 DEF Tasks
  <2>4. task' = [task EXCEPT ![h] = t]
    BY <1>1 DEF PayStart, op
  <2>5. TaskStep(h, t)
    BY <2>3, <2>4 DEF TaskStep
  <2> QED
    BY <2>5, TaskStepTyped
<1>2. ASSUME NEW h \in Handlers, PayMock(h) PROVE Goal
  <2>1. CASE task[h].subject \in Masters
    BY <1>2, <2>1, CloseTyped DEF PayMock
  <2>2. CASE task[h].subject \notin Masters
    <3> DEFINE st == Known(h, task[h].todo, "processing")
               t  == [task[h] EXCEPT !.step = "courier", !.view.status = st]
    <3>1. st \in [Orders -> Statuses] /\ task[h] \in Tasks
      BY KnownType, TaskOf DEF Statuses
    <3>2. task' = [task EXCEPT ![h] = t]
      BY <1>2, <2>2 DEF PayMock, Known
    <3> HIDE DEF st
    <3>3. t \in Tasks /\ t.kind = task[h].kind /\ t.subject = task[h].subject
            /\ t.intent = task[h].intent /\ t.step # "store"
      BY <3>1 DEF Tasks, Views, Steps
    <3> QED
      BY <3>2, <3>3, GoTyped
  <2> QED
    BY <2>1, <2>2
<1>3. ASSUME NEW h \in Handlers, PayRetrieve(h) PROVE Goal
  <2>1. CASE Close(h)
    BY <2>1, CloseTyped
  <2>2. CASE GoTo(h, "create")
    <3> DEFINE t == [task[h] EXCEPT !.step = "create"]
    <3>1. task' = [task EXCEPT ![h] = t]
      BY <2>2 DEF GoTo
    <3>2. t \in Tasks /\ t.kind = task[h].kind /\ t.subject = task[h].subject
            /\ t.intent = task[h].intent /\ t.step # "store"
      BY TaskOf DEF Tasks, Steps
    <3> QED
      BY <3>1, <3>2, GoTyped
  <2> QED
    BY <1>3, <2>1, <2>2 DEF PayRetrieve
<1>4. ASSUME NEW h \in Handlers, NEW i \in Intents, PayCreate(h, i) PROVE Goal
  <2> DEFINE t == [task[h] EXCEPT !.step = "store", !.intent = i]
  <2>1. task' = [task EXCEPT ![h] = t]
    BY <1>4 DEF PayCreate
  <2>2. task[h].kind = "pay" /\ task[h].subject \in Payables
    BY <1>4, TaskOf DEF PayCreate, At
  <2>3. t \in Tasks /\ t.kind = "pay" /\ t.subject \in Payables /\ t.intent = i
    BY <2>2, TaskOf DEF Tasks, Steps, MaybeIntent
  <2>4. TaskStep(h, t)
    BY <2>1, <2>3 DEF TaskStep
  <2> QED
    BY <2>4, TaskStepTyped
<1>5. ASSUME NEW h \in Handlers, NEW i \in Intents, WebhookStart(h, i) PROVE Goal
  <2>1. CASE UNCHANGED task
    BY <2>1, <1>0
  <2>2. ASSUME NEW p \in Payables, task' = [task EXCEPT ![h] = WebhookOpened(i, p)]
        PROVE  Goal
    <3> DEFINE op == Opened("webhook", "commit", Awaiting(Rows, p))
               t  == [op EXCEPT !.subject = p, !.intent = i]
    <3>1. Awaiting(Rows, p) \subseteq Orders
      BY DEF Awaiting, Covered, Payables
    <3>2. op \in Tasks /\ op.kind = "webhook" /\ op.step = "commit"
      BY <3>1, OpenedType DEF TypeInv, Kinds, Steps
    <3>3. task' = [task EXCEPT ![h] = t]
      BY <2>2 DEF WebhookOpened
    <3> HIDE DEF op
    <3>4. t \in Tasks /\ t.kind = "webhook" /\ t.subject = p /\ t.intent = i
      BY <3>2 DEF Tasks, MaybeIntent
    <3>5. TaskStep(h, t)
      BY <3>3, <3>4 DEF TaskStep
    <3> QED
      BY <3>5, TaskStepTyped
  <2> QED
    BY <1>5, <2>1, <2>2 DEF WebhookStart
<1>6. ASSUME NEW h \in Handlers, WebhookCommit(h) PROVE Goal
  <2> DEFINE st == Known(h, task[h].todo, "processing")
             t  == [task[h] EXCEPT !.step = "courier", !.view.status = st]
  <2>1. st \in [Orders -> Statuses] /\ task[h] \in Tasks
    BY KnownType, TaskOf DEF Statuses
  <2>2. task' = [task EXCEPT ![h] = t]
    BY <1>6 DEF WebhookCommit, Known
  <2> HIDE DEF st
  <2>3. t \in Tasks /\ t.kind = task[h].kind /\ t.subject = task[h].subject
          /\ t.intent = task[h].intent /\ t.step # "store"
    BY <2>1 DEF Tasks, Views, Steps
  <2> QED
    BY <2>2, <2>3, GoTyped
<1>7. ASSUME NEW h \in Handlers, NEW o \in Orders, AutoFulfilCall(h, o) PROVE Goal
  <2>1. CASE task' = [task EXCEPT ![h].todo = @ \ {o}]
    <3> DEFINE t == [task[h] EXCEPT !.todo = @ \ {o}]
    <3>1. t \in Tasks /\ t.kind = task[h].kind /\ t.subject = task[h].subject
            /\ t.intent = task[h].intent /\ t.step = task[h].step
      BY TaskOf DEF Tasks
    <3>2. task' = [task EXCEPT ![h] = t]
      BY <2>1
    <3> QED
      BY <3>1, <3>2, GoTyped
  <2>2. CASE task' = [task EXCEPT ![h].step = "ship", ![h].marked = {o}]
    <3> DEFINE t == [task[h] EXCEPT !.step = "ship", !.marked = {o}]
    <3>1. t \in Tasks /\ t.kind = task[h].kind /\ t.subject = task[h].subject
            /\ t.intent = task[h].intent /\ t.step # "store"
      BY TaskOf DEF Tasks, Steps
    <3>2. task' = [task EXCEPT ![h] = t]
      BY <2>2
    <3> QED
      BY <3>1, <3>2, GoTyped
  <2> QED
    BY <1>7, <2>1, <2>2 DEF AutoFulfilCall
<1>8. ASSUME NEW h \in Handlers, ShipCommit(h) PROVE Goal
  <2>1. CASE task[h].kind = "fulfil"
    BY <1>8, <2>1, CloseTyped DEF ShipCommit
  <2>2. CASE task[h].kind # "fulfil"
    <3> DEFINE st == Known(h, task[h].marked, "shipped")
               S  == task[h].todo \ task[h].marked
               t  == [task[h] EXCEPT !.step = "courier", !.todo = S, !.marked = {},
                                     !.view.status = st]
    <3>1. st \in [Orders -> Statuses] /\ S \subseteq Orders /\ task[h] \in Tasks
      BY KnownType, TaskOf DEF Statuses
    <3>2. task' = [task EXCEPT ![h] = t]
      BY <1>8, <2>2 DEF ShipCommit, Known
    <3> HIDE DEF st, S
    <3>3. t \in Tasks /\ t.kind = task[h].kind /\ t.subject = task[h].subject
            /\ t.intent = task[h].intent /\ t.step # "store"
      BY <3>1 DEF Tasks, Views, Steps
    <3> QED
      BY <3>2, <3>3, GoTyped
  <2> QED
    BY <2>1, <2>2
<1>9. ASSUME NEW h \in Handlers, FulfilDone(h) PROVE Goal
  <2>1. CASE task[h].kind = "pay"
    BY <1>9, <2>1, CloseTyped DEF FulfilDone
  <2>2. ASSUME NEW S \in SUBSET Orders,
               task' = [task EXCEPT ![h].step = "transfer", ![h].todo = S]
        PROVE  Goal
    <3> DEFINE t == [task[h] EXCEPT !.step = "transfer", !.todo = S]
    <3>1. t \in Tasks /\ t.kind = task[h].kind /\ t.subject = task[h].subject
            /\ t.intent = task[h].intent /\ t.step # "store"
      BY TaskOf DEF Tasks, Steps
    <3>2. task' = [task EXCEPT ![h] = t]
      BY <2>2
    <3> QED
      BY <3>1, <3>2, GoTyped
  <2>3. task[h].subject \in Masters \/ task[h].subject \in Orders
    BY <1>9, TaskOf DEF FulfilDone, Payables
  <2> QED
    BY <1>9, <2>1, <2>2, <2>3 DEF FulfilDone, Covered
<1>10. ASSUME NEW h \in Handlers, NEW o \in Orders, Transfer(h, o) PROVE Goal
  <2> DEFINE t == [task[h] EXCEPT !.todo = @ \ {o}]
  <2>1. t \in Tasks /\ t.kind = task[h].kind /\ t.subject = task[h].subject
          /\ t.intent = task[h].intent /\ t.step = task[h].step
    BY TaskOf DEF Tasks
  <2>2. task' = [task EXCEPT ![h] = t]
    BY <1>10 DEF Transfer
  <2> QED
    BY <2>1, <2>2, GoTyped
<1>11. ASSUME NEW h \in Handlers, NEW o \in Orders, NEW s \in Statuses,
              SetStart(h, o, s)
       PROVE  Goal
  <2> DEFINE op == Opened("set", "commit", {o})
             t  == [op EXCEPT !.target = s]
  <2>1. op \in Tasks /\ op.kind = "set"
    BY OpenedType DEF TypeInv, Kinds, Steps
  <2>2. task' = [task EXCEPT ![h] = t]
    BY <1>11 DEF SetStart
  <2> HIDE DEF op
  <2>3. t \in Tasks /\ t.kind = "set"
    BY <2>1 DEF Tasks
  <2> QED
    BY <2>2, <2>3, OpenTyped
<1>12. ASSUME NEW h \in Handlers, FulfilCall(h) PROVE Goal
  <2>1. CASE Close(h)
    BY <2>1, CloseTyped
  <2>2. CASE task' = [task EXCEPT ![h].step = "ship", ![h].marked = task[h].todo]
    <3> DEFINE t == [task[h] EXCEPT !.step = "ship", !.marked = task[h].todo]
    <3>1. t \in Tasks /\ t.kind = task[h].kind /\ t.subject = task[h].subject
            /\ t.intent = task[h].intent /\ t.step # "store"
      BY TaskOf DEF Tasks, Steps
    <3>2. task' = [task EXCEPT ![h] = t]
      BY <2>2
    <3> QED
      BY <3>1, <3>2, GoTyped
  <2> QED
    BY <1>12, <2>1, <2>2 DEF FulfilCall
<1>13. ASSUME NEW h \in Handlers, SweepStart(h) PROVE Goal
  <2> DEFINE S == {o \in Orders : status[o] = "pending_payment" /\ age[o] # "fresh"}
  <2>1. task' = [task EXCEPT ![h] = Opened("sweep", "gateway", S)]
    BY <1>13 DEF SweepStart
  <2>2. "gateway" \in Steps /\ S \in SUBSET Orders
    BY DEF Steps
  <2> HIDE DEF S
  <2> QED
    BY <2>1, <2>2, OpenedTyped
<1>14. ASSUME NEW h \in Handlers, NEW o \in Orders,
              NEW M \in SUBSET Orders, NEW D \in SUBSET Masters,
              task' = [task EXCEPT ![h].todo = @ \ {o}, ![h].marked = M,
                                   ![h].dead = D]
       PROVE  Goal
  <2> DEFINE t == [task[h] EXCEPT !.todo = @ \ {o}, !.marked = M, !.dead = D]
  <2>1. t \in Tasks /\ t.kind = task[h].kind /\ t.subject = task[h].subject
          /\ t.intent = task[h].intent /\ t.step = task[h].step
    BY TaskOf DEF Tasks
  <2>2. task' = [task EXCEPT ![h] = t]
    BY <1>14
  <2> QED
    BY <2>1, <2>2, GoTyped
<1>15. ASSUME NEW h \in Handlers, Sweep(h) PROVE Goal
  <2>1. CASE SweepCommit(h)
    BY <2>1, CloseTyped DEF SweepCommit
  <2>2. ASSUME NEW o \in Orders, SweepCancel(h, o) PROVE Goal
    <3>1. task[h].marked \cup {o} \in SUBSET Orders
      BY TaskOf
    <3>2. task[h].dead \cup ({MasterOf[o]} \ {Nobody}) \in SUBSET Masters
      BY TaskOf, OrderAssumption DEF OrderAssumption
    <3> QED
      BY <1>14, <2>2, <3>1, <3>2 DEF SweepCancel
  <2>3. ASSUME NEW o \in Orders, SweepNoCharge(h, o) \/ SweepMasterDead(h, o)
        PROVE  Goal
    <3> DEFINE t == [task[h] EXCEPT !.todo = @ \ {o}, !.marked = @ \cup {o}]
    <3>1. t \in Tasks /\ t.kind = task[h].kind /\ t.subject = task[h].subject
            /\ t.intent = task[h].intent /\ t.step = task[h].step
      BY TaskOf DEF Tasks
    <3>2. task' = [task EXCEPT ![h] = t]
      BY <2>3 DEF SweepNoCharge, SweepMasterDead
    <3> QED
      BY <3>1, <3>2, GoTyped
  <2>4. ASSUME NEW o \in Orders, SweepGrace(h, o) \/ SweepCancelFails(h, o)
        PROVE  Goal
    <3> DEFINE t == [task[h] EXCEPT !.todo = @ \ {o}]
    <3>1. t \in Tasks /\ t.kind = task[h].kind /\ t.subject = task[h].subject
            /\ t.intent = task[h].intent /\ t.step = task[h].step
      BY TaskOf DEF Tasks
    <3>2. task' = [task EXCEPT ![h] = t]
      BY <2>4 DEF SweepGrace, SweepCancelFails
    <3> QED
      BY <3>1, <3>2, GoTyped
  <2> QED
    BY <1>15, <2>1, <2>2, <2>3, <2>4 DEF Sweep
<1>16. ASSUME NEW h \in Handlers, Start(h) PROVE Goal
  <2>1. ASSUME NEW o \in Orders, CancelStart(h, o) PROVE Goal
    <3>1. task' = [task EXCEPT ![h] = Opened("cancel", "commit", {o})]
      BY <2>1 DEF CancelStart
    <3>2. "commit" \in Steps /\ {o} \in SUBSET Orders
      BY DEF Steps
    <3> QED
      BY <3>1, <3>2, OpenedTyped
  <2>2. ASSUME NEW o \in Orders, FulfilStart(h, o) PROVE Goal
    <3>1. task' = [task EXCEPT ![h] = Opened("fulfil", "courier", {o})]
      BY <2>2 DEF FulfilStart
    <3>2. "courier" \in Steps /\ {o} \in SUBSET Orders
      BY DEF Steps
    <3> QED
      BY <3>1, <3>2, OpenedTyped
  <2> QED
    BY <1>1, <1>5, <1>11, <1>13, <1>16, <2>1, <2>2 DEF Start
<1>17. ASSUME NEW h \in Handlers, Run(h) PROVE Goal
  <2>1. CASE PayStore(h) \/ WebhookAnswer(h) \/ CancelCommit(h) \/ SetCommit(h)
    BY <2>1, CloseTyped DEF PayStore, WebhookAnswer, CancelCommit, SetCommit
  <2> QED
    BY <1>2, <1>3, <1>4, <1>6, <1>7, <1>8, <1>9, <1>10, <1>12, <1>15, <1>17, <2>1
    DEF Run, Webhook
<1>18. ASSUME NEW h \in Handlers, Crash(h) PROVE Goal
  BY <1>18, CloseTyped DEF Crash
<1>19. ASSUME NEW i \in Intents, Confirm(i) PROVE Goal
  BY <1>0, <1>19 DEF Confirm
<1>20. ASSUME NEW o \in Orders, Grow(o) PROVE Goal
  BY <1>0, <1>20 DEF Grow
<1>21. CASE UNCHANGED vars
  BY <1>0, <1>21 DEF vars
<1> QED
  BY <1>16, <1>17, <1>18, <1>19, <1>20, <1>21 DEF Next

-------------------------------------------------------------------------------
\* Everything TypeOK says but of the handlers.
ColumnsOK ==
  /\ status \in [Orders -> Statuses]
  /\ tracking \in [Orders -> BOOLEAN]
  /\ returned \in [Orders -> Nat]
  /\ intentOf \in [Payables -> MaybeIntent]

StripeOK ==
  /\ charge \in [Intents -> {"none", "open", "succeeded", "canceled"}]
  /\ owner \in [Intents -> Payables \cup {Nobody}]
  /\ keyed \in [Payables -> MaybeIntent]
  /\ known \subseteq Intents /\ acked \subseteq Intents

WorldOK ==
  /\ provider \in {"mock", "stripe"}
  /\ age \in [Orders -> Ages]
  /\ shipments \in [Orders -> 0..MaxEffects]
  /\ transfers \in [Orders -> 0..MaxEffects]
  /\ crashes \in 0..MaxCrashes
  /\ touched \subseteq Orders /\ overwrote \subseteq Orders
  /\ raced \subseteq Intents

DataOK == ColumnsOK /\ StripeOK /\ WorldOK

LEMMA TypeParts == TypeOK <=> DataOK /\ task \in [Handlers -> Tasks]
<1>1. Rows \in Views <=> ColumnsOK
  BY DEF Rows, Views, ColumnsOK
<1> QED
  BY <1>1 DEF TypeOK, DataOK, StripeOK, WorldOK

LEMMA WriteStatusTyped ==
  ASSUME DataOK, NEW h, NEW S \in SUBSET Orders, NEW s \in Statuses,
         WriteStatus(h, S, s)
  PROVE  status' \in [Orders -> Statuses] /\ overwrote' \subseteq Orders
  BY DEF DataOK, ColumnsOK, WorldOK, WriteStatus

LEMMA ReturnStockTyped ==
  ASSUME TypeInv, NEW h \in Handlers, NEW S, ReturnStock(h, S)
  PROVE  returned' \in [Orders -> Nat]
<1>1. task[h].view.returned \in [Orders -> Nat]
  BY TaskOf DEF Views
<1>2. returned \in [Orders -> Nat]
  BY TypeParts DEF TypeInv, DataOK, ColumnsOK
<1> QED
  BY <1>1, <1>2 DEF ReturnStock

LEMMA BumpType == \A n \in 0..MaxEffects : Bump(n) \in 0..MaxEffects
  BY BoundAssumption DEF Bump, BoundAssumption

LEMMA DataNext == TypeInv /\ [Next]_vars => DataOK'
<1> SUFFICES ASSUME TypeInv, [Next]_vars PROVE DataOK'
  OBVIOUS
<1>0. DataOK
  BY TypeParts DEF TypeInv
<1> USE DEF DataOK, ColumnsOK, StripeOK, WorldOK, db, stripe, effects, history
<1>1. ASSUME NEW h \in Handlers, Start(h) PROVE DataOK'
  BY <1>0, <1>1 DEF Start, PayStart, WebhookStart, CancelStart, FulfilStart,
                    SetStart, SweepStart
<1>2. ASSUME NEW h \in Handlers,
             PayMock(h) \/ WebhookCommit(h) \/ ShipCommit(h) PROVE DataOK'
  <2>1. \E S \in SUBSET Orders, s \in Statuses : WriteStatus(h, S, s)
    BY <1>2, TaskOf DEF PayMock, WebhookCommit, ShipCommit, Statuses
  <2>2. status' \in [Orders -> Statuses] /\ overwrote' \subseteq Orders
    BY <1>0, <2>1, WriteStatusTyped
  <2>3. tracking' \in [Orders -> BOOLEAN]
    BY <1>0, <1>2 DEF PayMock, WebhookCommit, ShipCommit
  <2> QED
    BY <1>0, <1>2, <2>2, <2>3 DEF PayMock, WebhookCommit, ShipCommit
<1>3. ASSUME NEW h \in Handlers,
             CancelCommit(h) \/ SetCommit(h) \/ SweepCommit(h) PROVE DataOK'
  <2>1. \E S \in SUBSET Orders, s \in Statuses : WriteStatus(h, S, s)
    <3>1. task[h].todo \in SUBSET Orders /\ task[h].marked \in SUBSET Orders
            /\ task[h].target \in Statuses
      BY TaskOf DEF Tasks
    <3> QED
      BY <1>3, <3>1 DEF CancelCommit, SetCommit, SweepCommit, Statuses
  <2>2. status' \in [Orders -> Statuses] /\ overwrote' \subseteq Orders
    BY <1>0, <2>1, WriteStatusTyped
  <2>3. returned' \in [Orders -> Nat]
    BY <1>3, ReturnStockTyped DEF CancelCommit, SetCommit, SweepCommit
  <2>4. touched' \subseteq Orders
    BY <1>0, <1>3, TaskOf DEF CancelCommit, SetCommit, SweepCommit
  <2> QED
    BY <1>0, <1>3, <2>2, <2>3, <2>4 DEF CancelCommit, SetCommit, SweepCommit
<1>4. ASSUME NEW h \in Handlers, PayRetrieve(h) PROVE DataOK'
  <2>1. CASE known' = known
    BY <1>0, <1>4, <2>1 DEF PayRetrieve
  <2>2. CASE known' # known
    <3>1. PICK i : i = task[h].view.intentOf[task[h].subject] /\ i # Nobody
                     /\ known' = known \cup {i}
      BY <1>4, <2>2 DEF PayRetrieve
    <3>2. task[h].subject \in Payables /\ task[h].view.intentOf \in [Payables -> MaybeIntent]
      BY <1>4, TaskOf DEF PayRetrieve, At, Views
    <3>3. i \in Intents
      BY <3>1, <3>2 DEF MaybeIntent
    <3> QED
      BY <1>0, <1>4, <3>1, <3>3 DEF PayRetrieve
  <2> QED
    BY <2>1, <2>2
<1>5. ASSUME NEW h \in Handlers, NEW i \in Intents, PayCreate(h, i) PROVE DataOK'
  <2>1. task[h].subject \in Payables
    BY <1>5, TaskOf DEF PayCreate, At
  <2> QED
    BY <1>0, <1>5, <2>1 DEF PayCreate, CreateIntent, MaybeIntent
<1>6. ASSUME NEW h \in Handlers, PayStore(h) PROVE DataOK'
  <2>1. task[h].subject \in Payables /\ task[h].intent \in Intents
    BY <1>6, TaskOf DEF PayStore, At
  <2> QED
    BY <1>0, <1>6, <2>1 DEF PayStore, MaybeIntent
<1>7. ASSUME NEW h \in Handlers, NEW o \in Orders, AutoFulfilCall(h, o) PROVE DataOK'
  BY <1>0, <1>7, BumpType DEF AutoFulfilCall
<1>8. ASSUME NEW h \in Handlers, NEW o \in Orders, Transfer(h, o) PROVE DataOK'
  BY <1>0, <1>8, BumpType DEF Transfer
<1>9. ASSUME NEW h \in Handlers, FulfilCall(h) PROVE DataOK'
  BY <1>0, <1>9, BumpType DEF FulfilCall
<1>10. ASSUME NEW h \in Handlers, FulfilDone(h) PROVE DataOK'
  BY <1>0, <1>10 DEF FulfilDone
<1>11. ASSUME NEW h \in Handlers, WebhookAnswer(h) PROVE DataOK'
  <2>1. task[h].intent \in Intents
    BY <1>11, TaskOf DEF WebhookAnswer, At
  <2> QED
    BY <1>0, <1>11, <2>1 DEF WebhookAnswer
<1>12. ASSUME NEW h \in Handlers, NEW o \in Orders, SweepCancel(h, o) PROVE DataOK'
  <2>1. charge' \in [Intents -> {"none", "open", "succeeded", "canceled"}]
    BY <1>0, <1>12 DEF SweepCancel, CancelIntent
  <2> QED
    BY <1>0, <1>12, <2>1 DEF SweepCancel
<1>13. ASSUME NEW h \in Handlers, Sweep(h) PROVE DataOK'
  <2>1. ASSUME NEW o \in Orders,
               SweepNoCharge(h, o) \/ SweepGrace(h, o) \/ SweepMasterDead(h, o)
                 \/ SweepCancelFails(h, o)
        PROVE  DataOK'
    BY <1>0, <2>1 DEF SweepNoCharge, SweepGrace, SweepMasterDead, SweepCancelFails
  <2> QED
    BY <1>3, <1>12, <1>13, <2>1 DEF Sweep
<1>14. ASSUME NEW h \in Handlers, Run(h) PROVE DataOK'
  BY <1>2, <1>3, <1>4, <1>5, <1>6, <1>7, <1>8, <1>9, <1>10, <1>11, <1>13, <1>14
  DEF Run, Webhook
<1>15. ASSUME NEW h \in Handlers, Crash(h) PROVE DataOK'
  BY <1>0, <1>15, BoundAssumption DEF Crash, BoundAssumption
<1>16. ASSUME NEW i \in Intents, Confirm(i) PROVE DataOK'
  BY <1>0, <1>16 DEF Confirm
<1>17. ASSUME NEW o \in Orders, Grow(o) PROVE DataOK'
  BY <1>0, <1>17 DEF Grow, Ages
<1>18. CASE UNCHANGED vars
  BY <1>0, <1>18 DEF vars
<1> QED
  BY <1>1, <1>14, <1>15, <1>16, <1>17, <1>18 DEF Next

LEMMA TypeNext == TypeInv /\ [Next]_vars => TypeInv'
<1> SUFFICES ASSUME TypeInv, [Next]_vars PROVE TypeInv'
  OBVIOUS
<1>1. DataOK' /\ task' \in [Handlers -> Tasks] /\ TaskInv'
  BY DataNext, TaskNext
<1>2. TypeOK' <=> DataOK' /\ task' \in [Handlers -> Tasks]
  <2>1. (Rows \in Views)' <=> ColumnsOK'
    BY DEF Rows, Views, ColumnsOK
  <2> QED
    BY <2>1 DEF TypeOK, DataOK, StripeOK, WorldOK
<1> QED
  BY <1>1, <1>2 DEF TypeInv

LEMMA TypeInvariant == Spec => []TypeInv
  BY TypeInit, TypeNext, PTL DEF Spec

\* Every reachable state of the handlers, the database, Stripe and the couriers
\* is well-typed: in particular a handler that stores an intent, or works on an
\* event, has one.
THEOREM TypeCorrect == Spec => []TypeOK
<1>1. TypeInv => TypeOK
  BY DEF TypeInv
<1> QED
  BY <1>1, TypeInvariant, PTL

-------------------------------------------------------------------------------
\* What a handler knows of the orders it is going to write, with T the orders
\* the vendor has touched: a cancellation and a sweep found them unpaid and, if
\* untouched, with no unit put back; a payment found them unpaid until it marked
\* them; only an order known as 'processing' is shipped.
ViewRec(t, T) ==
  /\ t.target \in {"processing", "completed", "cancelled"}
  /\ t.kind \in {"cancel", "sweep"} =>
       \A o \in t.todo \cup t.marked :
         /\ t.view.status[o] = "pending_payment"
         /\ o \in T \/ t.view.returned[o] = 0
  /\ t.kind \in {"pay", "webhook"} /\ t.step = "commit" =>
       /\ t.marked = {}
       /\ \A o \in t.todo : t.view.status[o] = "pending_payment"
  /\ t.kind \in {"pay", "webhook", "fulfil"} /\ t.step \in {"courier", "ship"} =>
       \A o \in t.todo \cup t.marked : t.view.status[o] = "processing"

ViewInv == \A h \in Handlers : ViewRec(task[h], touched)

\* An order the customer still has to pay for has kept its units.
UnpaidKeeps ==
  \A o \in Orders \ touched : status[o] = "pending_payment" => returned[o] = 0

LEMMA ViewOfNoTask == ASSUME NEW T PROVE ViewRec(NoTask, T)
  BY DEF ViewRec, NoTask

LEMMA ViewStep ==
  ASSUME TypeInv, ViewInv, touched \subseteq touched', NEW h \in Handlers, NEW t,
         task' = [task EXCEPT ![h] = t], ViewRec(t, touched')
  PROVE  ViewInv'
<1>1. task \in [Handlers -> Tasks]
  BY DEF TypeInv, TypeOK
<1>2. ASSUME NEW g \in Handlers PROVE ViewRec(task'[g], touched')
  <2>1. CASE g = h
    BY <1>1, <2>1
  <2>2. CASE g # h
    <3>1. task'[g] = task[g] /\ ViewRec(task[g], touched)
      BY <1>1, <2>2 DEF ViewInv
    <3> QED
      BY <3>1 DEF ViewRec
  <2> QED
    BY <2>1, <2>2
<1> QED
  BY <1>2 DEF ViewInv

LEMMA ViewClose ==
  ASSUME TypeInv, ViewInv, touched \subseteq touched', NEW h \in Handlers, Close(h)
  PROVE  ViewInv'
  BY ViewOfNoTask, ViewStep DEF Close

\* A handler that goes on with less to do, or with what it had to do, marked.
LEMMA ViewLess ==
  ASSUME TypeInv, ViewInv, NEW h \in Handlers, NEW t \in Tasks,
         t.kind = task[h].kind, t.view = task[h].view, t.target = task[h].target,
         t.todo \cup t.marked \subseteq task[h].todo \cup task[h].marked,
         t.step = task[h].step
           \/ (t.step = "ship" /\ task[h].step = "courier")
           \/ t.step \in {"create", "store", "transfer"},
         t.step # "commit",
         touched \subseteq touched'
  PROVE  ViewRec(t, touched')
<1>1. ViewRec(task[h], touched)
  BY DEF ViewInv
<1> QED
  BY <1>1 DEF ViewRec

LEMMA ViewOpened ==
  ASSUME TypeInv, UnpaidKeeps, NEW k \in Kinds, NEW s \in Steps, NEW S \in SUBSET Orders,
         \/ /\ k \in {"cancel", "sweep", "pay", "webhook"}
            /\ s \notin {"courier", "ship"}
            /\ \A o \in S : status[o] = "pending_payment"
         \/ k = "set" /\ s = "commit"
         \/ k = "fulfil" /\ \A o \in S : status[o] = "processing"
  PROVE  ViewRec(Opened(k, s, S), touched)
<1>1. /\ Opened(k, s, S).kind = k /\ Opened(k, s, S).step = s
      /\ Opened(k, s, S).todo = S /\ Opened(k, s, S).marked = {}
      /\ Opened(k, s, S).view = Rows
  BY OpenedType DEF TypeInv
<1>2. Opened(k, s, S).target = "processing"
  BY DEF Opened, NoTask
<1>3. Rows.status = status /\ Rows.returned = returned
  BY DEF Rows
<1> DEFINE op == Opened(k, s, S)
<1>4. /\ op.kind = k /\ op.step = s /\ op.todo = S /\ op.marked = {}
      /\ op.view.status = status /\ op.view.returned = returned
      /\ op.target = "processing"
  BY <1>1, <1>2, <1>3
<1> HIDE DEF op
<1>5. ViewRec(op, touched)
  BY <1>4 DEF ViewRec, UnpaidKeeps
<1> QED
  BY <1>5 DEF op

LEMMA ViewInit == Init => ViewInv /\ UnpaidKeeps
<1> SUFFICES ASSUME Init PROVE ViewInv /\ UnpaidKeeps
  OBVIOUS
<1>1. ViewInv
  BY ViewOfNoTask DEF Init, ViewInv
<1>2. UnpaidKeeps
  BY DEF Init, UnpaidKeeps
<1> QED
  BY <1>1, <1>2

LEMMA ViewNext ==
  TypeInv /\ ViewInv /\ UnpaidKeeps /\ [Next]_vars => ViewInv'
<1> SUFFICES ASSUME TypeInv, ViewInv, UnpaidKeeps, [Next]_vars PROVE ViewInv'
  OBVIOUS
<1> USE DEF history
<1>0. ASSUME UNCHANGED <<task, touched>> PROVE ViewInv'
  BY <1>0 DEF ViewInv
<1>1. ASSUME NEW h \in Handlers, NEW p \in Payables, PayStart(h, p) PROVE ViewInv'
  <2> DEFINE st == IF provider = "mock" THEN "commit" ELSE "gateway"
             op == Opened("pay", st, Awaiting(Rows, p))
             t  == [op EXCEPT !.subject = p]
  <2>1. /\ Awaiting(Rows, p) \in SUBSET Orders
        /\ \A o \in Awaiting(Rows, p) : status[o] = "pending_payment"
    BY DEF Awaiting, Covered, Payables, Rows
  <2>2. "pay" \in Kinds /\ st \in Steps /\ st \notin {"courier", "ship"}
    BY DEF Kinds, Steps
  <2>3. op \in Tasks /\ ViewRec(op, touched)
    BY <2>1, <2>2, OpenedType, ViewOpened DEF TypeInv
  <2>4. task' = [task EXCEPT ![h] = t] /\ touched' = touched
    BY <1>1 DEF PayStart
  <2> HIDE DEF op
  <2>5. ViewRec(t, touched')
    BY <2>3, <2>4 DEF ViewRec, Tasks
  <2> QED
    BY <2>4, <2>5, ViewStep
<1>2. ASSUME NEW h \in Handlers, NEW i \in Intents, WebhookStart(h, i) PROVE ViewInv'
  <2>1. CASE UNCHANGED task
    BY <1>0, <1>2, <2>1 DEF WebhookStart
  <2>2. ASSUME NEW p \in Payables, task' = [task EXCEPT ![h] = WebhookOpened(i, p)]
        PROVE  ViewInv'
    <3> DEFINE op == Opened("webhook", "commit", Awaiting(Rows, p))
               t  == [op EXCEPT !.subject = p, !.intent = i]
    <3>1. /\ Awaiting(Rows, p) \in SUBSET Orders
          /\ \A o \in Awaiting(Rows, p) : status[o] = "pending_payment"
      BY DEF Awaiting, Covered, Payables, Rows
    <3>2. "webhook" \in Kinds /\ "commit" \in Steps
      BY DEF Kinds, Steps
    <3>3. op \in Tasks /\ ViewRec(op, touched)
      BY <3>1, <3>2, OpenedType, ViewOpened DEF TypeInv
    <3>4. task' = [task EXCEPT ![h] = t] /\ touched' = touched
      BY <1>2, <2>2 DEF WebhookStart, WebhookOpened
    <3> HIDE DEF op
    <3>5. ViewRec(t, touched')
      BY <3>3, <3>4 DEF ViewRec, Tasks
    <3> QED
      BY <3>4, <3>5, ViewStep
  <2> QED
    BY <1>2, <2>1, <2>2 DEF WebhookStart
<1>3. ASSUME NEW h \in Handlers, NEW o \in Orders, NEW s \in Statuses,
             SetStart(h, o, s)
      PROVE  ViewInv'
  <2> DEFINE op == Opened("set", "commit", {o})
             t  == [op EXCEPT !.target = s]
  <2>1. "set" \in Kinds /\ "commit" \in Steps /\ {o} \in SUBSET Orders
    BY DEF Kinds, Steps
  <2>2. op \in Tasks /\ ViewRec(op, touched) /\ op.kind = "set"
    BY <2>1, OpenedType, ViewOpened DEF TypeInv
  <2>3. /\ task' = [task EXCEPT ![h] = t] /\ touched' = touched
        /\ s \in {"processing", "completed", "cancelled"}
    BY <1>3 DEF SetStart
  <2> HIDE DEF op
  <2>4. ViewRec(t, touched')
    BY <2>2, <2>3 DEF ViewRec, Tasks
  <2> QED
    BY <2>3, <2>4, ViewStep
<1>4. ASSUME NEW h \in Handlers, NEW k \in {"cancel", "fulfil", "sweep"},
             NEW s \in {"commit", "courier", "gateway"}, NEW S \in SUBSET Orders,
             task' = [task EXCEPT ![h] = Opened(k, s, S)], touched' = touched,
             IF k = "fulfil" THEN \A o \in S : status[o] = "processing"
             ELSE s # "courier" /\ \A o \in S : status[o] = "pending_payment"
      PROVE  ViewInv'
  <2>1. k \in Kinds /\ s \in Steps
    BY DEF Kinds, Steps
  <2>2. ViewRec(Opened(k, s, S), touched')
    BY <1>4, <2>1, ViewOpened
  <2> DEFINE op == Opened(k, s, S)
  <2>3. task' = [task EXCEPT ![h] = op] /\ ViewRec(op, touched') /\ touched' = touched
    BY <1>4, <2>2
  <2> HIDE DEF op
  <2> QED
    BY <2>3, ViewStep
<1>5. ASSUME NEW h \in Handlers, Start(h) PROVE ViewInv'
  <2>1. ASSUME NEW o \in Orders, CancelStart(h, o) PROVE ViewInv'
    <3>1. task' = [task EXCEPT ![h] = Opened("cancel", "commit", {o})]
            /\ touched' = touched /\ status[o] = "pending_payment"
      BY <2>1 DEF CancelStart
    <3> DEFINE S == {o}
    <3>2. S \in SUBSET Orders /\ \A p \in S : status[p] = "pending_payment"
      BY <3>1
    <3>3. task' = [task EXCEPT ![h] = Opened("cancel", "commit", S)]
      BY <3>1
    <3> HIDE DEF S
    <3> QED
      BY <3>1, <3>2, <3>3, <1>4
  <2>2. ASSUME NEW o \in Orders, FulfilStart(h, o) PROVE ViewInv'
    <3>1. task' = [task EXCEPT ![h] = Opened("fulfil", "courier", {o})]
            /\ touched' = touched /\ status[o] = "processing"
      BY <2>2 DEF FulfilStart
    <3> DEFINE S == {o}
    <3>2. S \in SUBSET Orders /\ \A p \in S : status[p] = "processing"
      BY <3>1
    <3>3. task' = [task EXCEPT ![h] = Opened("fulfil", "courier", S)]
      BY <3>1
    <3> HIDE DEF S
    <3> QED
      BY <3>1, <3>2, <3>3, <1>4
  <2>3. CASE SweepStart(h)
    <3> DEFINE S == {o \in Orders : status[o] = "pending_payment" /\ age[o] # "fresh"}
    <3>1. task' = [task EXCEPT ![h] = Opened("sweep", "gateway", S)]
            /\ touched' = touched
      BY <2>3 DEF SweepStart
    <3>2. S \in SUBSET Orders /\ \A o \in S : status[o] = "pending_payment"
      OBVIOUS
    <3> HIDE DEF S
    <3> QED
      BY <3>1, <3>2, <1>4
  <2> QED
    BY <1>1, <1>2, <1>3, <1>5, <2>1, <2>2, <2>3 DEF Start
<1>6. ASSUME NEW h \in Handlers, PayMock(h) \/ WebhookCommit(h) PROVE ViewInv'
  <2>1. CASE Close(h)
    BY <1>6, <2>1, ViewClose DEF PayMock, WebhookCommit
  <2>2. CASE ~Close(h)
    <3> DEFINE st == Known(h, task[h].todo, "processing")
               t  == [task[h] EXCEPT !.step = "courier", !.view.status = st]
    <3>1. /\ st \in [Orders -> Statuses]
          /\ \A o \in task[h].todo : st[o] = "processing"
      BY KnownType, TaskOf DEF Statuses, Known
    <3>2. /\ task' = [task EXCEPT ![h] = t] /\ touched' = touched
          /\ task[h].kind \in {"pay", "webhook"} /\ task[h].step = "commit"
      BY <1>6, <2>2 DEF PayMock, WebhookCommit, Known, At
    <3> HIDE DEF st
    <3>3. task[h] \in Tasks
      BY TaskOf
    <3>4. /\ t.kind = task[h].kind /\ t.todo = task[h].todo
          /\ t.marked = task[h].marked /\ t.target = task[h].target
          /\ t.step = "courier" /\ t.view.status = st
      BY <3>1, <3>3 DEF Tasks, Views
    <3> HIDE DEF t
    <3>5. ViewRec(t, touched')
      BY <3>1, <3>2, <3>4 DEF ViewRec, ViewInv
    <3> QED
      BY <3>2, <3>5, ViewStep
  <2> QED
    BY <2>1, <2>2
<1>7. ASSUME NEW h \in Handlers, ShipCommit(h) PROVE ViewInv'
  <2>1. CASE task[h].kind = "fulfil"
    BY <1>7, <2>1, ViewClose DEF ShipCommit
  <2>2. CASE task[h].kind # "fulfil"
    <3> DEFINE st == Known(h, task[h].marked, "shipped")
               S  == task[h].todo \ task[h].marked
               t  == [task[h] EXCEPT !.step = "courier", !.todo = S, !.marked = {},
                                     !.view.status = st]
    <3>1. /\ st \in [Orders -> Statuses] /\ S \subseteq task[h].todo
          /\ \A o \in S : st[o] = task[h].view.status[o]
      BY KnownType, TaskOf DEF Statuses, Known
    <3>2. /\ task' = [task EXCEPT ![h] = t] /\ touched' = touched
          /\ task[h].kind \in {"pay", "webhook"} /\ task[h].step = "ship"
      BY <1>7, <2>2 DEF ShipCommit, Known
    <3> HIDE DEF st, S
    <3>3. task[h] \in Tasks
      BY TaskOf
    <3>4. /\ t.kind = task[h].kind /\ t.todo = S /\ t.marked = {}
          /\ t.target = task[h].target /\ t.step = "courier" /\ t.view.status = st
      BY <3>1, <3>3 DEF Tasks, Views
    <3> HIDE DEF t
    <3>5. ViewRec(t, touched')
      BY <3>1, <3>2, <3>4 DEF ViewRec, ViewInv
    <3> QED
      BY <3>2, <3>5, ViewStep
  <2> QED
    BY <2>1, <2>2
<1>8. ASSUME NEW h \in Handlers, NEW t \in Tasks,
             t.kind = task[h].kind, t.view = task[h].view, t.target = task[h].target,
             t.todo \cup t.marked \subseteq task[h].todo \cup task[h].marked,
             t.step = task[h].step
               \/ (t.step = "ship" /\ task[h].step = "courier")
               \/ t.step \in {"create", "store", "transfer"},
             t.step # "commit",
             task' = [task EXCEPT ![h] = t], touched' = touched
      PROVE  ViewInv'
  <2>1. ViewRec(t, touched')
    BY <1>8, ViewLess
  <2> QED
    BY <1>8, <2>1, ViewStep
<1>9. ASSUME NEW h \in Handlers, PayRetrieve(h) PROVE ViewInv'
  <2>1. CASE Close(h)
    BY <1>9, <2>1, ViewClose DEF PayRetrieve
  <2>2. CASE GoTo(h, "create")
    <3> DEFINE t == [task[h] EXCEPT !.step = "create"]
    <3>1. task' = [task EXCEPT ![h] = t] /\ touched' = touched
      BY <1>9, <2>2 DEF GoTo, PayRetrieve
    <3>2. /\ t \in Tasks /\ t.kind = task[h].kind /\ t.view = task[h].view
          /\ t.target = task[h].target /\ t.step = "create"
          /\ t.todo = task[h].todo /\ t.marked = task[h].marked
      BY TaskOf DEF Tasks, Steps
    <3> HIDE DEF t
    <3> QED
      BY <1>8, <3>1, <3>2
  <2> QED
    BY <1>9, <2>1, <2>2 DEF PayRetrieve
<1>10. ASSUME NEW h \in Handlers, NEW i \in Intents, PayCreate(h, i) PROVE ViewInv'
  <2> DEFINE t == [task[h] EXCEPT !.step = "store", !.intent = i]
  <2>1. task' = [task EXCEPT ![h] = t] /\ touched' = touched
    BY <1>10 DEF PayCreate
  <2>2. /\ t \in Tasks /\ t.kind = task[h].kind /\ t.view = task[h].view
        /\ t.target = task[h].target /\ t.step = "store"
        /\ t.todo = task[h].todo /\ t.marked = task[h].marked
    BY TaskOf DEF Tasks, Steps, MaybeIntent
  <2> HIDE DEF t
  <2> QED
    BY <1>8, <2>1, <2>2
<1>11. ASSUME NEW h \in Handlers, NEW o \in Orders, task[h].step # "commit",
              task' = [task EXCEPT ![h].todo = @ \ {o}], touched' = touched
       PROVE  ViewInv'
  <2> DEFINE t == [task[h] EXCEPT !.todo = @ \ {o}]
  <2>1. /\ t \in Tasks /\ t.kind = task[h].kind /\ t.view = task[h].view
        /\ t.target = task[h].target /\ t.step = task[h].step
        /\ t.todo = task[h].todo \ {o} /\ t.marked = task[h].marked
    BY TaskOf DEF Tasks
  <2>2. task' = [task EXCEPT ![h] = t] /\ touched' = touched /\ t.step # "commit"
    BY <1>11, <2>1
  <2> HIDE DEF t
  <2> QED
    BY <1>8, <2>1, <2>2
<1>12. ASSUME NEW h \in Handlers, NEW S \in SUBSET task[h].todo,
              task[h].step = "courier", touched' = touched,
              task' = [task EXCEPT ![h].step = "ship", ![h].marked = S]
       PROVE  ViewInv'
  <2> DEFINE t == [task[h] EXCEPT !.step = "ship", !.marked = S]
  <2>1. /\ t \in Tasks /\ t.kind = task[h].kind /\ t.view = task[h].view
        /\ t.target = task[h].target /\ t.step = "ship"
        /\ t.todo = task[h].todo /\ t.marked = S
    BY TaskOf DEF Tasks, Steps
  <2>2. task' = [task EXCEPT ![h] = t]
    BY <1>12
  <2> HIDE DEF t
  <2> QED
    BY <1>8, <1>12, <2>1, <2>2
<1>13. ASSUME NEW h \in Handlers, NEW o \in Orders, AutoFulfilCall(h, o)
       PROVE  ViewInv'
  <2>1. CASE task' = [task EXCEPT ![h].todo = @ \ {o}]
    BY <1>11, <1>13, <2>1 DEF AutoFulfilCall
  <2>2. CASE task' = [task EXCEPT ![h].step = "ship", ![h].marked = {o}]
    <3>1. {o} \in SUBSET task[h].todo /\ task[h].step = "courier" /\ touched' = touched
      BY <1>13 DEF AutoFulfilCall
    <3> QED
      BY <1>12, <2>2, <3>1
  <2> QED
    BY <1>13, <2>1, <2>2 DEF AutoFulfilCall
<1>14. ASSUME NEW h \in Handlers, FulfilCall(h) PROVE ViewInv'
  <2>1. CASE Close(h)
    BY <1>14, <2>1, ViewClose DEF FulfilCall
  <2>2. CASE task' = [task EXCEPT ![h].step = "ship", ![h].marked = task[h].todo]
    <3>1. task[h].todo \in SUBSET task[h].todo /\ task[h].step = "courier"
            /\ touched' = touched
      BY <1>14 DEF FulfilCall, At
    <3> QED
      BY <1>12, <2>2, <3>1
  <2> QED
    BY <1>14, <2>1, <2>2 DEF FulfilCall
<1>15. ASSUME NEW h \in Handlers, FulfilDone(h) PROVE ViewInv'
  <2>1. CASE task[h].kind = "pay"
    BY <1>15, <2>1, ViewClose DEF FulfilDone
  <2>2. ASSUME NEW S \in SUBSET Orders, task[h].kind = "webhook",
               task' = [task EXCEPT ![h].step = "transfer", ![h].todo = S]
        PROVE  ViewInv'
    <3> DEFINE t == [task[h] EXCEPT !.step = "transfer", !.todo = S]
    <3>1. /\ t \in Tasks /\ t.kind = "webhook" /\ t.step = "transfer"
          /\ t.target = task[h].target
      BY <2>2, TaskOf DEF Tasks, Steps
    <3>2. task' = [task EXCEPT ![h] = t] /\ touched' = touched
      BY <1>15, <2>2 DEF FulfilDone
    <3> HIDE DEF t
    <3>3. ViewRec(t, touched')
      BY <3>1 DEF ViewRec, ViewInv
    <3> QED
      BY <3>2, <3>3, ViewStep
  <2>3. task[h].subject \in Masters \/ task[h].subject \in Orders
    BY <1>15, TaskOf DEF FulfilDone, Payables
  <2> QED
    BY <1>15, <2>1, <2>2, <2>3 DEF FulfilDone, Covered
<1>16. ASSUME NEW h \in Handlers, NEW o \in Orders, NEW D \in SUBSET Masters,
              task[h].kind = "sweep", task[h].step = "gateway", o \in task[h].todo,
              touched' = touched,
              task' = [task EXCEPT ![h].todo = @ \ {o}, ![h].marked = @ \cup {o},
                                   ![h].dead = D]
       PROVE  ViewInv'
  <2> DEFINE t == [task[h] EXCEPT !.todo = @ \ {o}, !.marked = @ \cup {o}, !.dead = D]
  <2>1. /\ t \in Tasks /\ t.kind = task[h].kind /\ t.view = task[h].view
        /\ t.target = task[h].target /\ t.step = task[h].step
        /\ t.todo = task[h].todo \ {o} /\ t.marked = task[h].marked \cup {o}
    BY TaskOf DEF Tasks
  <2>2. task' = [task EXCEPT ![h] = t]
    BY <1>16
  <2> HIDE DEF t
  <2>3. /\ t.todo \cup t.marked \subseteq task[h].todo \cup task[h].marked
        /\ t.step = task[h].step /\ t.step # "commit"
    BY <1>16, <2>1
  <2> QED
    BY <1>8, <1>16, <2>1, <2>2, <2>3
<1>17. ASSUME NEW h \in Handlers, Sweep(h) PROVE ViewInv'
  <2>1. CASE SweepCommit(h)
    BY <2>1, ViewClose DEF SweepCommit
  <2>2. ASSUME NEW o \in Orders, SweepCancel(h, o) PROVE ViewInv'
    <3>1. task[h].dead \cup ({MasterOf[o]} \ {Nobody}) \in SUBSET Masters
      BY TaskOf, OrderAssumption DEF OrderAssumption
    <3> QED
      BY <1>16, <2>2, <3>1 DEF SweepCancel, PastGrace, At
  <2>3. ASSUME NEW o \in Orders, SweepNoCharge(h, o) \/ SweepMasterDead(h, o)
        PROVE  ViewInv'
    <3> DEFINE t == [task[h] EXCEPT !.todo = @ \ {o}, !.marked = @ \cup {o}]
    <3>1. /\ t \in Tasks /\ t.kind = task[h].kind /\ t.view = task[h].view
          /\ t.target = task[h].target /\ t.step = task[h].step
          /\ t.todo = task[h].todo \ {o} /\ t.marked = task[h].marked \cup {o}
      BY TaskOf DEF Tasks
    <3>2. /\ task' = [task EXCEPT ![h] = t] /\ touched' = touched
          /\ task[h].step = "gateway" /\ o \in task[h].todo
      BY <2>3 DEF SweepNoCharge, SweepMasterDead, PastGrace, At
    <3> HIDE DEF t
    <3> QED
      BY <1>8, <3>1, <3>2
  <2>4. ASSUME NEW o \in Orders, SweepGrace(h, o) \/ SweepCancelFails(h, o)
        PROVE  ViewInv'
    BY <1>11, <2>4 DEF SweepGrace, SweepCancelFails, PastGrace, At
  <2> QED
    BY <1>17, <2>1, <2>2, <2>3, <2>4 DEF Sweep
<1>18. ASSUME NEW h \in Handlers, Run(h) PROVE ViewInv'
  <2>1. CASE PayStore(h) \/ WebhookAnswer(h) \/ CancelCommit(h) \/ SetCommit(h)
    BY <2>1, ViewClose DEF PayStore, WebhookAnswer, CancelCommit, SetCommit
  <2>2. ASSUME NEW o \in Orders, Transfer(h, o) PROVE ViewInv'
    BY <1>11, <2>2 DEF Transfer, At
  <2> QED
    BY <1>6, <1>7, <1>9, <1>10, <1>13, <1>14, <1>15, <1>17, <1>18, <2>1, <2>2
    DEF Run, Webhook
<1>19. ASSUME NEW h \in Handlers, Crash(h) PROVE ViewInv'
  BY <1>19, ViewClose DEF Crash
<1>20. ASSUME NEW i \in Intents, Confirm(i) PROVE ViewInv'
  BY <1>0, <1>20 DEF Confirm
<1>21. ASSUME NEW o \in Orders, Grow(o) PROVE ViewInv'
  BY <1>0, <1>21 DEF Grow
<1>22. CASE UNCHANGED vars
  BY <1>0, <1>22 DEF vars
<1> QED
  BY <1>5, <1>18, <1>19, <1>20, <1>21, <1>22 DEF Next

-------------------------------------------------------------------------------
\* Stock and status, for all orders at once.
StockInv ==
  UnpaidKeeps /\ StockReturnedOnce /\ DeadOrderReturnsStock /\ BooksBalance

LEMMA StockInit == Init => StockInv
  BY DEF Init, StockInv, UnpaidKeeps, StockReturnedOnce, DeadOrderReturnsStock,
         BooksBalance, Dead

\* A handler marks orders it knows as unpaid, or as processing, to be something
\* that is alive, and leaves the stock alone.
LEMMA MarkAlive ==
  ASSUME TypeInv, StockInv, NEW h \in Handlers, NEW S \in SUBSET Orders,
         NEW s \in {"processing", "shipped"}, WriteStatus(h, S, s),
         \A o \in S : task[h].view.status[o] \notin Dead,
         UNCHANGED <<returned, touched>>
  PROVE  StockInv'
<1>1. \A o \in Orders :
        /\ status'[o] = status[o] \/ status'[o] \in {"processing", "shipped"}
        /\ o \notin overwrote' =>
             o \notin overwrote /\ (status'[o] = status[o] \/ status[o] \notin Dead)
  BY DEF WriteStatus
<1>2. returned' = returned /\ touched' = touched
  OBVIOUS
<1>3. UnpaidKeeps' /\ StockReturnedOnce'
  BY <1>1, <1>2 DEF StockInv, UnpaidKeeps, StockReturnedOnce
<1>4. DeadOrderReturnsStock' /\ BooksBalance'
  BY <1>1, <1>2 DEF StockInv, DeadOrderReturnsStock, BooksBalance, Dead
<1> QED
  BY <1>3, <1>4 DEF StockInv

\* A cancellation or a sweep.
LEMMA MarkDead ==
  ASSUME TypeInv, StockInv, NEW h \in Handlers, NEW S \in SUBSET Orders,
         NEW s \in {"cancelled", "expired"}, WriteStatus(h, S, s), ReturnStock(h, S),
         \A o \in S : /\ task[h].view.status[o] = "pending_payment"
                      /\ o \in touched \/ task[h].view.returned[o] = 0,
         UNCHANGED touched
  PROVE  StockInv'
<1>1. \A o \in Orders : task[h].view.returned[o] \in Nat /\ returned[o] \in Nat
  BY TaskOf, TypeParts DEF Views, TypeInv, DataOK, ColumnsOK
<1>2. /\ \A o \in S : status'[o] = s /\ returned'[o] = task[h].view.returned[o] + 1
      /\ \A o \in Orders \ S : status'[o] = status[o] /\ returned'[o] = returned[o]
      /\ overwrote \subseteq overwrote'
  BY DEF WriteStatus, ReturnStock
<1>3. UnpaidKeeps' /\ StockReturnedOnce'
  BY <1>1, <1>2 DEF StockInv, UnpaidKeeps, StockReturnedOnce
<1>4. DeadOrderReturnsStock' /\ BooksBalance'
  BY <1>1, <1>2 DEF StockInv, DeadOrderReturnsStock, BooksBalance, Dead
<1> QED
  BY <1>3, <1>4 DEF StockInv

LEMMA StockNext == TypeInv /\ ViewInv /\ StockInv /\ [Next]_vars => StockInv'
<1> SUFFICES ASSUME TypeInv, ViewInv, StockInv, [Next]_vars PROVE StockInv'
  OBVIOUS
<1> USE DEF db, history
<1>0. ASSUME UNCHANGED <<status, returned, touched, overwrote>> PROVE StockInv'
  BY <1>0 DEF StockInv, UnpaidKeeps, StockReturnedOnce, DeadOrderReturnsStock,
              BooksBalance
<1>1. ASSUME NEW h \in Handlers, Start(h) PROVE StockInv'
  BY <1>0, <1>1 DEF Start, PayStart, WebhookStart, CancelStart, FulfilStart,
                    SetStart, SweepStart
<1>2. ASSUME NEW h \in Handlers, PayMock(h) \/ WebhookCommit(h) PROVE StockInv'
  <2>1. \A o \in task[h].todo : task[h].view.status[o] = "pending_payment"
    BY <1>2 DEF PayMock, WebhookCommit, At, ViewInv, ViewRec
  <2>2. WriteStatus(h, task[h].todo, "processing") /\ UNCHANGED <<returned, touched>>
    BY <1>2 DEF PayMock, WebhookCommit
  <2>3. task[h].todo \in SUBSET Orders
    BY TaskOf
  <2> QED
    BY <2>1, <2>2, <2>3, MarkAlive DEF Dead
<1>3. ASSUME NEW h \in Handlers, ShipCommit(h) PROVE StockInv'
  <2>1. \A o \in task[h].marked : task[h].view.status[o] = "processing"
    BY <1>3 DEF ShipCommit, ViewInv, ViewRec
  <2>2. WriteStatus(h, task[h].marked, "shipped") /\ UNCHANGED <<returned, touched>>
    BY <1>3 DEF ShipCommit
  <2>3. task[h].marked \in SUBSET Orders
    BY TaskOf
  <2> QED
    BY <2>1, <2>2, <2>3, MarkAlive DEF Dead
<1>4. ASSUME NEW h \in Handlers, CancelCommit(h) PROVE StockInv'
  <2>1. \A o \in task[h].todo : /\ task[h].view.status[o] = "pending_payment"
                                /\ o \in touched \/ task[h].view.returned[o] = 0
    BY <1>4 DEF CancelCommit, At, ViewInv, ViewRec
  <2>2. /\ WriteStatus(h, task[h].todo, "cancelled") /\ ReturnStock(h, task[h].todo)
        /\ UNCHANGED touched
    BY <1>4 DEF CancelCommit
  <2>3. task[h].todo \in SUBSET Orders
    BY TaskOf
  <2> QED
    BY <2>1, <2>2, <2>3, MarkDead
<1>5. ASSUME NEW h \in Handlers, SweepCommit(h) PROVE StockInv'
  <2>1. \A o \in task[h].marked : /\ task[h].view.status[o] = "pending_payment"
                                  /\ o \in touched \/ task[h].view.returned[o] = 0
    BY <1>5 DEF SweepCommit, At, ViewInv, ViewRec
  <2>2. /\ WriteStatus(h, task[h].marked, "expired") /\ ReturnStock(h, task[h].marked)
        /\ UNCHANGED touched
    BY <1>5 DEF SweepCommit
  <2>3. task[h].marked \in SUBSET Orders
    BY TaskOf
  <2> QED
    BY <2>1, <2>2, <2>3, MarkDead
<1>6. ASSUME NEW h \in Handlers, SetCommit(h) PROVE StockInv'
  <2> DEFINE s == task[h].target
             S == task[h].todo
             R == {o \in S : s = "cancelled" /\ task[h].view.status[o] # "cancelled"}
  <2>1. \A o \in Orders : task[h].view.returned[o] \in Nat /\ returned[o] \in Nat
    BY TaskOf, TypeParts DEF Views, TypeInv, DataOK, ColumnsOK
  <2>2. s \in {"processing", "completed", "cancelled"} /\ S \subseteq Orders
    BY TaskOf DEF ViewInv, ViewRec
  <2>3. /\ \A o \in Orders \ S : status'[o] = status[o] /\ returned'[o] = returned[o]
        /\ \A o \in S \ R : /\ returned'[o] = returned[o]
                            /\ status'[o] = status[o] \/ status'[o] \notin Dead
        /\ \A o \in R : returned'[o] = task[h].view.returned[o] + 1
        /\ overwrote \subseteq overwrote' /\ touched' = touched \cup S
    BY <1>6, <2>2 DEF SetCommit, WriteStatus, ReturnStock, Dead
  <2> HIDE DEF S, R
  <2>4. R \subseteq S
    BY DEF R
  <2>5. UnpaidKeeps' /\ StockReturnedOnce'
    BY <2>3 DEF StockInv, UnpaidKeeps, StockReturnedOnce
  <2>6. DeadOrderReturnsStock'
    BY <2>1, <2>2, <2>3, <2>4 DEF StockInv, DeadOrderReturnsStock
  <2>7. BooksBalance'
    BY <2>3 DEF StockInv, BooksBalance
  <2> QED
    BY <2>5, <2>6, <2>7 DEF StockInv
<1>7. ASSUME NEW h \in Handlers, Run(h) PROVE StockInv'
  <2>1. CASE \/ PayRetrieve(h) \/ PayStore(h) \/ FulfilDone(h) \/ FulfilCall(h)
             \/ WebhookAnswer(h) \/ \E i \in Intents : PayCreate(h, i)
             \/ \E o \in Orders : AutoFulfilCall(h, o) \/ Transfer(h, o)
    BY <1>0, <2>1 DEF PayRetrieve, PayStore, FulfilDone, FulfilCall, WebhookAnswer,
                      PayCreate, AutoFulfilCall, Transfer
  <2>2. CASE \E o \in Orders : \/ SweepNoCharge(h, o) \/ SweepGrace(h, o)
                               \/ SweepCancel(h, o) \/ SweepMasterDead(h, o)
                               \/ SweepCancelFails(h, o)
    BY <1>0, <2>2 DEF SweepNoCharge, SweepGrace, SweepCancel, SweepMasterDead,
                      SweepCancelFails
  <2> QED
    BY <1>2, <1>3, <1>4, <1>5, <1>6, <1>7, <2>1, <2>2 DEF Run, Webhook, Sweep
<1>8. ASSUME NEW h \in Handlers, Crash(h) PROVE StockInv'
  BY <1>0, <1>8 DEF Crash
<1>9. ASSUME NEW i \in Intents, Confirm(i) PROVE StockInv'
  BY <1>0, <1>9 DEF Confirm
<1>10. ASSUME NEW o \in Orders, Grow(o) PROVE StockInv'
  BY <1>0, <1>10 DEF Grow
<1>11. CASE UNCHANGED vars
  BY <1>0, <1>11 DEF vars
<1> QED
  BY <1>1, <1>7, <1>8, <1>9, <1>10, <1>11 DEF Next

LEMMA StockInvariant == Spec => [](ViewInv /\ StockInv)
<1> DEFINE I == TypeInv /\ ViewInv /\ StockInv
<1>1. Init => I
  BY TypeInit, ViewInit, StockInit
<1>2. I /\ [Next]_vars => I'
  BY TypeNext, ViewNext, StockNext DEF StockInv
<1> QED
  BY <1>1, <1>2, PTL DEF Spec

\* However many cancellations, sweeps and payments of one order overlap, its
\* units go back to stock at most once unless the vendor changes its status.
THEOREM StockReturnedOnceHolds == Spec => []StockReturnedOnce
<1>1. StockInv => StockReturnedOnce
  BY DEF StockInv
<1> QED
  BY <1>1, StockInvariant, PTL

\* Every cancelled or expired order has given its units back.
THEOREM DeadOrderReturnsStockHolds == Spec => []DeadOrderReturnsStock
<1>1. StockInv => DeadOrderReturnsStock
  BY DEF StockInv
<1> QED
  BY <1>1, StockInvariant, PTL

\* Stock and status of an order agree as long as no commit overwrote a row that
\* had changed since it was read.
THEOREM BooksBalanceHolds == Spec => []BooksBalance
<1>1. StockInv => BooksBalance
  BY DEF StockInv
<1> QED
  BY <1>1, StockInvariant, PTL

-------------------------------------------------------------------------------
\* A handler that goes on, from u to t, stays with its payable and with what it
\* read, works on no other orders (the webhook: on none its payment does not
\* cover), and marks or ships only if it was marking already.
GoesOn(t, u) ==
  /\ t.kind = u.kind /\ t.subject = u.subject
  /\ t.view.intentOf = u.view.intentOf
  /\ t.todo \cup t.marked \subseteq
       u.todo \cup u.marked \cup (IF u.kind = "webhook" THEN Covered(u.subject) ELSE {})
  /\ t.step # "commit"
  /\ t.step \in {"courier", "ship"} => u.step \in {"commit", "courier", "ship"}

\* What a handler that runs leaves of its record.
Proceeds(h) ==
  \E t \in Tasks :
    /\ task' = [task EXCEPT ![h] = t]
    /\ \/ t = NoTask
       \/ /\ GoesOn(t, task[h])
          /\ t.step # "store" /\ t.intent = task[h].intent
       \/ /\ GoesOn(t, task[h])
          /\ \E i \in Intents : PayCreate(h, i) /\ t.intent = i

LEMMA RunGoesOn == ASSUME TypeInv, NEW h \in Handlers, Run(h) PROVE Proceeds(h)
<1>0. ASSUME Close(h) PROVE Proceeds(h)
  BY <1>0, NoTaskType DEF Close, Proceeds
<1>1. ASSUME NEW t \in Tasks, task' = [task EXCEPT ![h] = t], GoesOn(t, task[h]),
             t.step # "store", t.intent = task[h].intent
      PROVE  Proceeds(h)
  BY <1>1 DEF Proceeds
<1>2. task[h] \in Tasks
  BY TaskOf
<1>3. ASSUME NEW st \in [Orders -> Statuses], NEW T \in SUBSET Orders,
             NEW M \in SUBSET Orders, T \subseteq task[h].todo, M \subseteq task[h].marked,
             task[h].step \in {"commit", "ship"},
             task' = [task EXCEPT ![h].step = "courier", ![h].todo = T, ![h].marked = M,
                                  ![h].view.status = st]
      PROVE  Proceeds(h)
  <2> DEFINE t == [task[h] EXCEPT !.step = "courier", !.todo = T, !.marked = M,
                                  !.view.status = st]
  <2>1. task' = [task EXCEPT ![h] = t]
    BY <1>2, <1>3 DEF Tasks
  <2>2. /\ t \in Tasks /\ t.kind = task[h].kind /\ t.subject = task[h].subject
        /\ t.intent = task[h].intent /\ t.step = "courier" /\ t.todo = T
        /\ t.marked = M /\ t.view.intentOf = task[h].view.intentOf
    <3> DEFINE w == [task[h].view EXCEPT !.status = st]
    <3>1. w \in Views /\ w.intentOf = task[h].view.intentOf
      BY <1>2 DEF Tasks, Views
    <3>2. t = [task[h] EXCEPT !.step = "courier", !.todo = T, !.marked = M, !.view = w]
      BY <1>2 DEF Tasks
    <3> HIDE DEF w, t
    <3> QED
      BY <1>2, <3>1, <3>2 DEF Tasks, Steps
  <2> HIDE DEF t
  <2>3. GoesOn(t, task[h])
    BY <1>3, <2>2 DEF GoesOn
  <2> QED
    BY <1>1, <2>1, <2>2, <2>3
<1>4. CASE PayMock(h) \/ WebhookCommit(h)
  <2>1. CASE Close(h)
    BY <1>0, <2>1
  <2>2. CASE ~Close(h)
    <3>1. /\ task' = [task EXCEPT ![h].step = "courier",
                                  ![h].view.status = Known(h, task[h].todo, "processing")]
          /\ task[h].step = "commit"
      BY <1>4, <2>2 DEF PayMock, WebhookCommit, Known, At
    <3> DEFINE st == Known(h, task[h].todo, "processing")
    <3>2. task' = [task EXCEPT ![h].step = "courier", ![h].todo = task[h].todo,
                               ![h].marked = task[h].marked, ![h].view.status = st]
      <4> HIDE DEF st
      <4>1. task' = [task EXCEPT ![h].step = "courier", ![h].view.status = st]
        BY <3>1 DEF st
      <4>2. [task[h] EXCEPT !.step = "courier", !.view.status = st]
              = [task[h] EXCEPT !.step = "courier", !.todo = task[h].todo,
                                !.marked = task[h].marked, !.view.status = st]
        BY <1>2 DEF Tasks, Views
      <4> QED
        BY <4>1, <4>2
    <3>3. task[h].todo \in SUBSET Orders /\ task[h].marked \in SUBSET Orders
            /\ task[h].todo \subseteq task[h].todo /\ task[h].marked \subseteq task[h].marked
            /\ "processing" \in Statuses
      BY TaskOf DEF Statuses
    <3>4. st \in [Orders -> Statuses]
      BY <3>3, KnownType
    <3> HIDE DEF st
    <3> QED
      BY <1>3, <3>1, <3>2, <3>3, <3>4
  <2> QED
    BY <2>1, <2>2
<1>5. CASE ShipCommit(h)
  <2>1. CASE task[h].kind = "fulfil"
    BY <1>0, <1>5, <2>1 DEF ShipCommit
  <2>2. CASE task[h].kind # "fulfil"
    <3> DEFINE st == Known(h, task[h].marked, "shipped")
               S  == task[h].todo \ task[h].marked
    <3>1. /\ task' = [task EXCEPT ![h].step = "courier", ![h].todo = S, ![h].marked = {},
                                  ![h].view.status = st]
          /\ task[h].step = "ship"
      BY <1>5, <2>2 DEF ShipCommit, Known
    <3>2. S \in SUBSET Orders /\ {} \in SUBSET Orders
      BY TaskOf
    <3>3. st \in [Orders -> Statuses]
      BY KnownType DEF Statuses
    <3> HIDE DEF st
    <3> QED
      BY <1>3, <3>1, <3>2, <3>3
  <2> QED
    BY <2>1, <2>2
<1>6. CASE PayRetrieve(h)
  <2>1. CASE GoTo(h, "create")
    <3> DEFINE t == [task[h] EXCEPT !.step = "create"]
    <3>1. task' = [task EXCEPT ![h] = t]
      BY <2>1 DEF GoTo
    <3>2. /\ t \in Tasks /\ t.kind = task[h].kind /\ t.subject = task[h].subject
          /\ t.intent = task[h].intent /\ t.step = "create" /\ t.view = task[h].view
          /\ t.todo = task[h].todo /\ t.marked = task[h].marked
      BY <1>2 DEF Tasks, Steps
    <3> HIDE DEF t
    <3> QED
      BY <1>1, <3>1, <3>2 DEF GoesOn
  <2> QED
    BY <1>0, <1>6, <2>1 DEF PayRetrieve
<1>7. ASSUME NEW i \in Intents, PayCreate(h, i) PROVE Proceeds(h)
  <2> DEFINE t == [task[h] EXCEPT !.step = "store", !.intent = i]
  <2>1. task' = [task EXCEPT ![h] = t]
    BY <1>7 DEF PayCreate
  <2>2. /\ t \in Tasks /\ t.kind = task[h].kind /\ t.subject = task[h].subject
        /\ t.intent = i /\ t.step = "store" /\ t.view = task[h].view
        /\ t.todo = task[h].todo /\ t.marked = task[h].marked
    BY <1>2 DEF Tasks, Steps, MaybeIntent
  <2> HIDE DEF t
  <2>3. GoesOn(t, task[h])
    BY <2>2 DEF GoesOn
  <2> QED
    BY <1>7, <2>1, <2>2, <2>3 DEF Proceeds
<1>8. ASSUME NEW T \in SUBSET task[h].todo, task[h].step \notin {"store", "commit"},
             task' = [task EXCEPT ![h].todo = T]
      PROVE  Proceeds(h)
  <2> DEFINE t == [task[h] EXCEPT !.todo = T]
  <2>1. task' = [task EXCEPT ![h] = t]
    BY <1>8
  <2>2. /\ t \in Tasks /\ t.kind = task[h].kind /\ t.subject = task[h].subject
        /\ t.intent = task[h].intent /\ t.step = task[h].step /\ t.view = task[h].view
        /\ t.todo = T /\ t.marked = task[h].marked
    BY <1>2 DEF Tasks
  <2> HIDE DEF t
  <2>3. GoesOn(t, task[h])
    BY <1>8, <2>2 DEF GoesOn
  <2> QED
    BY <1>1, <1>8, <2>1, <2>2, <2>3
<1>9. ASSUME NEW M \in SUBSET task[h].todo, task[h].step = "courier",
             task' = [task EXCEPT ![h].step = "ship", ![h].marked = M]
      PROVE  Proceeds(h)
  <2> DEFINE t == [task[h] EXCEPT !.step = "ship", !.marked = M]
  <2>1. task' = [task EXCEPT ![h] = t]
    BY <1>9
  <2>2. /\ t \in Tasks /\ t.kind = task[h].kind /\ t.subject = task[h].subject
        /\ t.intent = task[h].intent /\ t.step = "ship" /\ t.view = task[h].view
        /\ t.todo = task[h].todo /\ t.marked = M
    BY <1>2 DEF Tasks, Steps
  <2> HIDE DEF t
  <2>3. GoesOn(t, task[h])
    BY <1>9, <2>2 DEF GoesOn
  <2> QED
    BY <1>1, <2>1, <2>2, <2>3
<1>10. CASE FulfilDone(h)
  <2>1. CASE task[h].kind = "pay"
    BY <1>0, <1>10, <2>1 DEF FulfilDone
  <2>2. ASSUME NEW S \in SUBSET Orders, task[h].kind = "webhook",
               S \subseteq Covered(task[h].subject),
               task' = [task EXCEPT ![h].step = "transfer", ![h].todo = S]
        PROVE  Proceeds(h)
    <3> DEFINE t == [task[h] EXCEPT !.step = "transfer", !.todo = S]
    <3>1. task' = [task EXCEPT ![h] = t]
      BY <2>2
    <3>2. /\ t \in Tasks /\ t.kind = task[h].kind /\ t.subject = task[h].subject
          /\ t.intent = task[h].intent /\ t.step = "transfer" /\ t.view = task[h].view
          /\ t.todo = S /\ t.marked = task[h].marked
      BY <1>2 DEF Tasks, Steps
    <3> HIDE DEF t
    <3>3. GoesOn(t, task[h])
      BY <2>2, <3>2 DEF GoesOn
    <3> QED
      BY <1>1, <3>1, <3>2, <3>3
  <2>3. task[h].subject \in Masters \/ task[h].subject \in Orders
    BY <1>10, TaskOf DEF FulfilDone, Payables
  <2> QED
    BY <1>10, <2>1, <2>2, <2>3 DEF FulfilDone, Covered
<1>11. ASSUME NEW o \in Orders, AutoFulfilCall(h, o) PROVE Proceeds(h)
  <2>1. task[h].step = "courier" /\ o \in task[h].todo
    BY <1>11 DEF AutoFulfilCall
  <2>2. CASE task' = [task EXCEPT ![h].todo = @ \ {o}]
    <3>1. (task[h].todo \ {o}) \in SUBSET task[h].todo
      OBVIOUS
    <3>2. task' = [task EXCEPT ![h].todo = task[h].todo \ {o}]
      BY <2>2
    <3> QED
      BY <1>8, <2>1, <3>1, <3>2
  <2>3. CASE task' = [task EXCEPT ![h].step = "ship", ![h].marked = {o}]
    <3> DEFINE M == {o}
    <3>1. M \in SUBSET task[h].todo
      BY <2>1
    <3>2. task' = [task EXCEPT ![h].step = "ship", ![h].marked = M]
      BY <2>3
    <3> HIDE DEF M
    <3> QED
      BY <1>9, <2>1, <3>1, <3>2
  <2> QED
    BY <1>11, <2>2, <2>3 DEF AutoFulfilCall
<1>12. CASE FulfilCall(h)
  <2>1. CASE Close(h)
    BY <1>0, <2>1
  <2>2. CASE task' = [task EXCEPT ![h].step = "ship", ![h].marked = task[h].todo]
    <3>1. task[h].todo \in SUBSET task[h].todo /\ task[h].step = "courier"
      BY <1>12 DEF FulfilCall, At
    <3> QED
      BY <1>9, <2>2, <3>1
  <2> QED
    BY <1>12, <2>1, <2>2 DEF FulfilCall
<1>13. ASSUME NEW o \in Orders,
              Transfer(h, o) \/ SweepGrace(h, o) \/ SweepCancelFails(h, o)
       PROVE  Proceeds(h)
  <2>1. /\ task' = [task EXCEPT ![h].todo = task[h].todo \ {o}]
        /\ task[h].step \in {"transfer", "gateway"}
    BY <1>13 DEF Transfer, SweepGrace, SweepCancelFails, PastGrace, At
  <2> DEFINE T == task[h].todo \ {o}
  <2>2. T \in SUBSET task[h].todo /\ task' = [task EXCEPT ![h].todo = T]
    BY <2>1
  <2> HIDE DEF T
  <2> QED
    BY <1>8, <2>1, <2>2
<1>14. ASSUME NEW o \in Orders,
              SweepNoCharge(h, o) \/ SweepMasterDead(h, o) \/ SweepCancel(h, o)
       PROVE  Proceeds(h)
  <2> DEFINE D == IF SweepCancel(h, o)
                  THEN task[h].dead \cup ({MasterOf[o]} \ {Nobody}) ELSE task[h].dead
             t == [task[h] EXCEPT !.todo = @ \ {o}, !.marked = @ \cup {o}, !.dead = D]
  <2>1. D \subseteq Masters /\ task[h].step = "gateway" /\ o \in task[h].todo
    BY <1>14, TaskOf, OrderAssumption
    DEF OrderAssumption, SweepNoCharge, SweepMasterDead, SweepCancel, PastGrace, At
  <2>2. task' = [task EXCEPT ![h] = t]
    <3>1. CASE SweepCancel(h, o)
      BY <3>1 DEF SweepCancel
    <3>2. CASE ~SweepCancel(h, o)
      <4>1. task' = [task EXCEPT ![h].todo = @ \ {o}, ![h].marked = @ \cup {o}]
        BY <1>14, <3>2 DEF SweepNoCharge, SweepMasterDead
      <4>2. t = [task[h] EXCEPT !.todo = @ \ {o}, !.marked = @ \cup {o}]
        BY <1>2, <3>2 DEF Tasks
      <4> QED
        BY <4>1, <4>2
    <3> QED
      BY <3>1, <3>2
  <2> HIDE DEF D
  <2>3. /\ t \in Tasks /\ t.kind = task[h].kind /\ t.subject = task[h].subject
        /\ t.intent = task[h].intent /\ t.step = task[h].step /\ t.view = task[h].view
        /\ t.todo = task[h].todo \ {o} /\ t.marked = task[h].marked \cup {o}
    BY <1>2, <2>1 DEF Tasks
  <2> HIDE DEF t
  <2>4. GoesOn(t, task[h])
    BY <2>1, <2>3 DEF GoesOn
  <2> QED
    BY <1>1, <2>1, <2>2, <2>3, <2>4
<1>15. CASE \/ PayStore(h) \/ WebhookAnswer(h) \/ CancelCommit(h) \/ SetCommit(h)
            \/ SweepCommit(h)
  BY <1>0, <1>15 DEF PayStore, WebhookAnswer, CancelCommit, SetCommit, SweepCommit
<1> QED
  BY <1>4, <1>5, <1>6, <1>7, <1>10, <1>11, <1>12, <1>13, <1>14, <1>15
  DEF Run, Webhook, Sweep

-------------------------------------------------------------------------------
\* Stripe's books and the shop's references to them.
LedgerInv ==
  /\ \A i \in Intents : charge[i] # "none" => owner[i] \in Payables /\ keyed[owner[i]] = i
  /\ \A p \in Payables : keyed[p] # Nobody =>
                           charge[keyed[p]] # "none" /\ owner[keyed[p]] = p
  /\ \A p \in Payables : intentOf[p] # Nobody => keyed[p] = intentOf[p]
  /\ \A i \in known : owner[i] \in Payables /\ intentOf[owner[i]] = i
  /\ \A i \in Intents : charge[i] = "succeeded" => i \in known

\* What a handler holds of them, given K == keyed, C == charge, I == intentOf.
ChargeRec(t, K, C, I) ==
  /\ t.kind = "pay" /\ t.step = "store" => K[t.subject] = t.intent
  /\ t.kind = "webhook" => K[t.subject] = t.intent /\ C[t.intent] = "succeeded"
  /\ \A p \in Payables : t.view.intentOf[p] # Nobody => I[p] = t.view.intentOf[p]

ChargeInv ==
  LedgerInv /\ \A h \in Handlers : ChargeRec(task[h], keyed, charge, intentOf)

\* A step never takes back an intent, its key, its reference or its payment.
ChargesKept ==
  /\ \A i \in Intents : charge[i] # "none" =>
       /\ owner'[i] = owner[i] /\ charge'[i] # "none"
       /\ charge[i] = "succeeded" => charge'[i] = "succeeded"
  /\ \A p \in Payables : keyed[p] # Nobody => keyed'[p] = keyed[p]
  /\ \A p \in Payables : intentOf[p] # Nobody => intentOf'[p] = intentOf[p]

LEMMA ChargeInit == Init => ChargeInv
<1> SUFFICES ASSUME Init PROVE ChargeInv
  OBVIOUS
<1>1. LedgerInv
  BY DEF Init, LedgerInv
<1>2. ChargeRec(NoTask, keyed, charge, intentOf)
  BY DEF ChargeRec, NoTask, NoView
<1> QED
  BY <1>1, <1>2 DEF Init, ChargeInv

LEMMA LedgerNext ==
  TypeInv /\ ChargeInv /\ [Next]_vars => LedgerInv' /\ ChargesKept
<1> SUFFICES ASSUME TypeInv, ChargeInv, [Next]_vars PROVE LedgerInv' /\ ChargesKept
  OBVIOUS
<1> USE DEF db, stripe
<1>0. StripeOK /\ intentOf \in [Payables -> MaybeIntent] /\ LedgerInv
  BY TypeParts DEF TypeInv, DataOK, ColumnsOK, ChargeInv
<1>a. ASSUME UNCHANGED <<charge, owner, keyed, known, intentOf>>
      PROVE  LedgerInv' /\ ChargesKept
  BY <1>0, <1>a DEF LedgerInv, ChargesKept
<1>1. ASSUME NEW h \in Handlers, Start(h) PROVE LedgerInv' /\ ChargesKept
  BY <1>a, <1>1 DEF Start, PayStart, WebhookStart, CancelStart, FulfilStart,
                    SetStart, SweepStart
<1>2. ASSUME NEW h \in Handlers, PayRetrieve(h) PROVE LedgerInv' /\ ChargesKept
  <2>1. CASE known' = known
    BY <1>a, <1>2, <2>1 DEF PayRetrieve
  <2>2. CASE known' # known
    <3> DEFINE p == task[h].subject
               i == task[h].view.intentOf[p]
    <3>1. i # Nobody /\ known' = known \cup {i}
      BY <1>2, <2>2 DEF PayRetrieve
    <3>2. p \in Payables
      BY <1>2, TaskOf DEF PayRetrieve, At
    <3>3. intentOf[p] = i
      BY <3>1, <3>2 DEF ChargeInv, ChargeRec
    <3>4. keyed[p] = i /\ owner[i] = p
      BY <1>0, <3>1, <3>2, <3>3 DEF LedgerInv
    <3>5. UNCHANGED <<charge, owner, keyed, intentOf>>
      BY <1>2 DEF PayRetrieve
    <3> HIDE DEF i, p
    <3> QED
      BY <1>0, <3>1, <3>2, <3>3, <3>4, <3>5 DEF LedgerInv, ChargesKept
  <2> QED
    BY <2>1, <2>2
<1>3. ASSUME NEW h \in Handlers, NEW i \in Intents, PayCreate(h, i)
      PROVE  LedgerInv' /\ ChargesKept
  <2> DEFINE p == task[h].subject
  <2>1. p \in Payables
    BY <1>3, TaskOf DEF PayCreate, At
  <2>2. UNCHANGED <<known, intentOf>> /\ CreateIntent(p, i)
    BY <1>3 DEF PayCreate
  <2>3. CASE keyed[p] # Nobody
    BY <1>a, <2>2, <2>3 DEF CreateIntent
  <2>4. CASE keyed[p] = Nobody
    <3> HIDE DEF p
    <3>1. /\ charge[i] = "none" /\ charge' = [charge EXCEPT ![i] = "open"]
          /\ owner' = [owner EXCEPT ![i] = p] /\ keyed' = [keyed EXCEPT ![p] = i]
      BY <2>2, <2>4 DEF CreateIntent
    <3>2. \A j \in known : j # i
      <4>1. \A j \in known : keyed[owner[j]] = j
        BY <1>0, IntentAssumption DEF LedgerInv, StripeOK, IntentAssumption
      <4> QED
        BY <1>0, <3>1, <4>1, IntentAssumption DEF LedgerInv, StripeOK, IntentAssumption
    <3>3. ChargesKept
      BY <1>0, <2>1, <2>2, <2>4, <3>1 DEF StripeOK, ChargesKept
    <3>4. /\ \A j \in Intents : charge'[j] # "none" =>
                                  owner'[j] \in Payables /\ keyed'[owner'[j]] = j
          /\ \A q \in Payables : keyed'[q] # Nobody =>
                                   charge'[keyed'[q]] # "none" /\ owner'[keyed'[q]] = q
      BY <1>0, <2>1, <2>4, <3>1, IntentAssumption
      DEF LedgerInv, StripeOK, IntentAssumption, MaybeIntent
    <3>5. /\ \A q \in Payables : intentOf'[q] # Nobody => keyed'[q] = intentOf'[q]
          /\ \A j \in known' : owner'[j] \in Payables /\ intentOf'[owner'[j]] = j
          /\ \A j \in Intents : charge'[j] = "succeeded" => j \in known'
      BY <1>0, <2>1, <2>2, <2>4, <3>1, <3>2 DEF LedgerInv, StripeOK
    <3> QED
      BY <3>3, <3>4, <3>5 DEF LedgerInv
  <2> QED
    BY <2>3, <2>4
<1>4. ASSUME NEW h \in Handlers, PayStore(h) PROVE LedgerInv' /\ ChargesKept
  <2> DEFINE p == task[h].subject
             i == task[h].intent
  <2>1. p \in Payables /\ i \in Intents /\ keyed[p] = i
    BY <1>4, TaskOf DEF PayStore, At, ChargeInv, ChargeRec
  <2>2. /\ intentOf' = [intentOf EXCEPT ![p] = i]
        /\ known' = known \cup {i} /\ UNCHANGED <<charge, owner, keyed>>
    <3>1. task[h].view.intentOf[p] = i => intentOf[p] = i
      BY <2>1, IntentAssumption DEF IntentAssumption, ChargeInv, ChargeRec
    <3> QED
      BY <1>0, <1>4, <2>1, <3>1 DEF PayStore
  <2> HIDE DEF p, i
  <2>3. owner[i] = p /\ (intentOf[p] # Nobody => intentOf[p] = i)
    BY <1>0, <2>1, IntentAssumption DEF LedgerInv, IntentAssumption
  <2>4. ChargesKept
    BY <1>0, <2>1, <2>2, <2>3 DEF ChargesKept
  <2>5. \A q \in Payables : intentOf'[q] = IF q = p THEN i ELSE intentOf[q]
    BY <1>0, <2>1, <2>2
  <2>6. \A j \in known' : owner[j] \in Payables /\ intentOf'[owner[j]] = j
    <3>1. ASSUME NEW j \in known, j # i
          PROVE  owner[j] \in Payables /\ intentOf'[owner[j]] = j
      <4>1. owner[j] \in Payables /\ intentOf[owner[j]] = j /\ j # Nobody
        BY <1>0, <3>1, IntentAssumption DEF LedgerInv, StripeOK, IntentAssumption
      <4> QED
        BY <2>3, <2>5, <3>1, <4>1
    <3> QED
      BY <2>1, <2>2, <2>3, <2>5, <3>1
  <2> QED
    BY <1>0, <2>1, <2>2, <2>4, <2>5, <2>6 DEF LedgerInv
<1>5. ASSUME NEW h \in Handlers, NEW o \in Orders, SweepCancel(h, o)
      PROVE  LedgerInv' /\ ChargesKept
  <2>1. UNCHANGED <<owner, keyed, known, intentOf>>
    BY <1>5 DEF SweepCancel
  <2>2. \A j \in Intents : \/ charge'[j] = charge[j]
                           \/ charge[j] = "open" /\ charge'[j] = "canceled"
    BY <1>0, <1>5 DEF SweepCancel, CancelIntent, StripeOK
  <2>3. \A q \in Payables : keyed[q] # Nobody => keyed[q] \in Intents
    BY <1>0 DEF StripeOK, MaybeIntent
  <2> QED
    BY <1>0, <2>1, <2>2, <2>3 DEF LedgerInv, ChargesKept
<1>6. ASSUME NEW h \in Handlers, Run(h) PROVE LedgerInv' /\ ChargesKept
  <2>1. CASE \/ PayMock(h) \/ WebhookCommit(h) \/ WebhookAnswer(h) \/ ShipCommit(h)
             \/ FulfilDone(h) \/ FulfilCall(h) \/ CancelCommit(h) \/ SetCommit(h)
             \/ SweepCommit(h)
             \/ \E o \in Orders : AutoFulfilCall(h, o) \/ Transfer(h, o)
    BY <1>a, <2>1 DEF PayMock, WebhookCommit, WebhookAnswer, ShipCommit, FulfilDone,
                      FulfilCall, CancelCommit, SetCommit, SweepCommit,
                      AutoFulfilCall, Transfer
  <2>2. CASE \E o \in Orders : \/ SweepNoCharge(h, o) \/ SweepGrace(h, o)
                               \/ SweepMasterDead(h, o) \/ SweepCancelFails(h, o)
    BY <1>a, <2>2 DEF SweepNoCharge, SweepGrace, SweepMasterDead, SweepCancelFails
  <2>3. CASE Webhook(h)
    BY <2>1, <2>3 DEF Webhook
  <2>4. CASE Sweep(h)
    BY <1>5, <2>1, <2>2, <2>4 DEF Sweep
  <2> QED
    BY <1>2, <1>3, <1>4, <1>6, <2>1, <2>3, <2>4 DEF Run
<1>7. ASSUME NEW h \in Handlers, Crash(h) PROVE LedgerInv' /\ ChargesKept
  BY <1>a, <1>7 DEF Crash
<1>8. ASSUME NEW i \in Intents, Confirm(i) PROVE LedgerInv' /\ ChargesKept
  <2>1. /\ i \in known /\ charge[i] = "open" /\ charge' = [charge EXCEPT ![i] = "succeeded"]
        /\ UNCHANGED <<owner, keyed, known, intentOf>>
    BY <1>8 DEF Confirm
  <2>2. \A q \in Payables : keyed[q] # Nobody => keyed[q] \in Intents
    BY <1>0 DEF StripeOK, MaybeIntent
  <2> QED
    BY <1>0, <2>1, <2>2 DEF LedgerInv, StripeOK, ChargesKept
<1>9. ASSUME NEW o \in Orders, Grow(o) PROVE LedgerInv' /\ ChargesKept
  BY <1>a, <1>9 DEF Grow
<1>10. CASE UNCHANGED vars
  BY <1>a, <1>10 DEF vars
<1> QED
  BY <1>1, <1>6, <1>7, <1>8, <1>9, <1>10 DEF Next

\* How a handler's record can look after its SELECT.
OpenedFor(t) ==
  /\ t.view = Rows /\ t.marked = {} /\ t.dead = {}
  /\ t.kind # "idle" /\ t.step # "store"
  /\ t.kind = "pay" =>
       t.subject \in Payables
         /\ t.step = IF provider = "mock" THEN "commit" ELSE "gateway"
  /\ t.kind = "webhook" =>
       /\ t.step = "commit" /\ t.subject \in Payables /\ t.intent \in Intents
       /\ intentOf[t.subject] = t.intent /\ charge[t.intent] = "succeeded"
       /\ t.todo = Awaiting(Rows, t.subject) /\ t.todo # {}
  /\ t.kind = "fulfil" => \A o \in t.todo : o \in Orders /\ status[o] = "processing"

LEMMA StartedBy ==
  ASSUME TypeInv, NEW h \in Handlers, Start(h)
  PROVE  \/ UNCHANGED task
         \/ \E t \in Tasks : /\ task' = [task EXCEPT ![h] = t] /\ OpenedFor(t)
                             /\ t.kind = "webhook" => WebhookStart(h, t.intent)
<1> DEFINE Goal == \/ UNCHANGED task
                   \/ \E t \in Tasks : /\ task' = [task EXCEPT ![h] = t] /\ OpenedFor(t)
                                       /\ t.kind = "webhook" => WebhookStart(h, t.intent)
<1> SUFFICES Goal
  OBVIOUS
<1>1. ASSUME NEW p \in Payables, PayStart(h, p) PROVE Goal
  <2> DEFINE st == IF provider = "mock" THEN "commit" ELSE "gateway"
             op == Opened("pay", st, Awaiting(Rows, p))
             t  == [op EXCEPT !.subject = p]
  <2>1. Awaiting(Rows, p) \in SUBSET Orders /\ "pay" \in Kinds /\ st \in Steps
    BY DEF Awaiting, Covered, Payables, Kinds, Steps
  <2>2. /\ op \in Tasks /\ op.kind = "pay" /\ op.step = st /\ op.marked = {}
        /\ op.view = Rows /\ op.dead = {}
    BY <2>1, OpenedType DEF TypeInv
  <2>3. task' = [task EXCEPT ![h] = t]
    BY <1>1 DEF PayStart
  <2> HIDE DEF op
  <2>4. /\ t \in Tasks /\ t.kind = "pay" /\ t.step = st /\ t.marked = {}
        /\ t.view = Rows /\ t.subject = p /\ t.dead = {}
    BY <2>2 DEF Tasks
  <2> HIDE DEF t
  <2>5. OpenedFor(t)
    BY <2>4 DEF OpenedFor
  <2> QED
    BY <2>3, <2>4, <2>5
<1>2. ASSUME NEW i \in Intents, WebhookStart(h, i) PROVE Goal
  <2>1. CASE UNCHANGED task
    BY <2>1
  <2>2. ASSUME NEW p \in Payables, intentOf[p] = i, Awaiting(Rows, p) # {},
               task' = [task EXCEPT ![h] = WebhookOpened(i, p)]
        PROVE  Goal
    <3> DEFINE op == Opened("webhook", "commit", Awaiting(Rows, p))
               t  == [op EXCEPT !.subject = p, !.intent = i]
    <3>1. Awaiting(Rows, p) \in SUBSET Orders /\ "webhook" \in Kinds /\ "commit" \in Steps
      BY DEF Awaiting, Covered, Payables, Kinds, Steps
    <3>2. /\ op \in Tasks /\ op.kind = "webhook" /\ op.step = "commit"
          /\ op.marked = {} /\ op.view = Rows /\ op.todo = Awaiting(Rows, p)
          /\ op.dead = {}
      BY <3>1, OpenedType DEF TypeInv
    <3>3. task' = [task EXCEPT ![h] = t]
      BY <2>2 DEF WebhookOpened
    <3> HIDE DEF op
    <3>4. /\ t \in Tasks /\ t.kind = "webhook" /\ t.step = "commit" /\ t.marked = {}
          /\ t.view = Rows /\ t.subject = p /\ t.intent = i
          /\ t.todo = Awaiting(Rows, p) /\ t.dead = {}
      BY <3>2 DEF Tasks, MaybeIntent
    <3> HIDE DEF t
    <3>5. charge[i] = "succeeded"
      BY <1>2 DEF WebhookStart
    <3>6. OpenedFor(t)
      BY <2>2, <3>4, <3>5 DEF OpenedFor
    <3> QED
      BY <1>2, <3>3, <3>4, <3>6
  <2> QED
    BY <1>2, <2>1, <2>2 DEF WebhookStart
<1>3. ASSUME NEW k \in {"cancel", "sweep", "fulfil"},
             NEW s \in {"commit", "gateway", "courier"}, NEW S \in SUBSET Orders,
             k = "fulfil" => \A o \in S : status[o] = "processing",
             task' = [task EXCEPT ![h] = Opened(k, s, S)]
      PROVE  Goal
  <2> DEFINE op == Opened(k, s, S)
  <2>1. k \in Kinds /\ s \in Steps
    BY DEF Kinds, Steps
  <2>2. /\ op \in Tasks /\ op.kind = k /\ op.step = s /\ op.marked = {}
        /\ op.view = Rows /\ op.todo = S /\ op.dead = {}
    BY <2>1, OpenedType DEF TypeInv
  <2>3. task' = [task EXCEPT ![h] = op]
    BY <1>3
  <2> HIDE DEF op
  <2>4. OpenedFor(op)
    BY <1>3, <2>2 DEF OpenedFor
  <2> QED
    BY <2>2, <2>3, <2>4
<1>4. ASSUME NEW o \in Orders, CancelStart(h, o) \/ FulfilStart(h, o) PROVE Goal
  <2> DEFINE S == {o}
  <2>1. \/ task' = [task EXCEPT ![h] = Opened("cancel", "commit", S)]
        \/ /\ task' = [task EXCEPT ![h] = Opened("fulfil", "courier", S)]
           /\ \A p \in S : status[p] = "processing"
    BY <1>4 DEF CancelStart, FulfilStart
  <2>2. S \in SUBSET Orders
    OBVIOUS
  <2> HIDE DEF S, Goal
  <2>3. CASE task' = [task EXCEPT ![h] = Opened("cancel", "commit", S)]
    BY <1>3, <2>2, <2>3
  <2>4. CASE /\ task' = [task EXCEPT ![h] = Opened("fulfil", "courier", S)]
             /\ \A p \in S : status[p] = "processing"
    BY <1>3, <2>2, <2>4
  <2> QED
    BY <2>1, <2>3, <2>4
<1>5. ASSUME NEW o \in Orders, NEW s \in Statuses, SetStart(h, o, s) PROVE Goal
  <2> DEFINE op == Opened("set", "commit", {o})
             t  == [op EXCEPT !.target = s]
  <2>1. "set" \in Kinds /\ "commit" \in Steps /\ {o} \in SUBSET Orders
    BY DEF Kinds, Steps
  <2>2. op \in Tasks /\ op.kind = "set" /\ op.step = "commit" /\ op.marked = {}
          /\ op.view = Rows /\ op.dead = {}
    BY <2>1, OpenedType DEF TypeInv
  <2>3. task' = [task EXCEPT ![h] = t]
    BY <1>5 DEF SetStart
  <2> HIDE DEF op
  <2>4. t \in Tasks /\ t.kind = "set" /\ t.step = "commit" /\ t.marked = {}
          /\ t.view = Rows /\ t.dead = {}
    BY <2>2 DEF Tasks
  <2> HIDE DEF t
  <2>5. OpenedFor(t)
    BY <2>4 DEF OpenedFor
  <2> QED
    BY <2>3, <2>4, <2>5
<1>6. CASE SweepStart(h)
  <2> DEFINE S == {o \in Orders : status[o] = "pending_payment" /\ age[o] # "fresh"}
  <2>1. task' = [task EXCEPT ![h] = Opened("sweep", "gateway", S)] /\ S \in SUBSET Orders
    BY <1>6 DEF SweepStart
  <2> HIDE DEF S, Goal
  <2> QED
    BY <1>3, <2>1
<1> QED
  BY <1>1, <1>2, <1>4, <1>5, <1>6 DEF Start

LEMMA StartOpens ==
  ASSUME TypeInv, NEW h \in Handlers, Start(h)
  PROVE  \/ UNCHANGED task
         \/ \E t \in Tasks : task' = [task EXCEPT ![h] = t] /\ OpenedFor(t)
<1>1. CASE UNCHANGED task
  BY <1>1
<1>2. ASSUME NEW t \in Tasks, task' = [task EXCEPT ![h] = t], OpenedFor(t)
      PROVE  \E u \in Tasks : task' = [task EXCEPT ![h] = u] /\ OpenedFor(u)
  BY <1>2
<1> QED
  BY <1>1, <1>2, StartedBy

LEMMA ChargeNext == TypeInv /\ ChargeInv /\ [Next]_vars => ChargeInv' /\ ChargesKept
<1> SUFFICES ASSUME TypeInv, ChargeInv, [Next]_vars PROVE ChargeInv' /\ ChargesKept
  OBVIOUS
<1>0. LedgerInv' /\ ChargesKept
  BY LedgerNext
<1>1. ASSUME NEW g \in Handlers, NEW t, t = task[g]
      PROVE  ChargeRec(t, keyed', charge', intentOf')
  <2>1. ChargeRec(t, keyed, charge, intentOf)
    BY <1>1 DEF ChargeInv
  <2>2. /\ t.kind \in {"pay", "webhook"} => t.subject \in Payables
        /\ t.kind = "webhook" => t.intent \in Intents
        /\ t.kind = "pay" /\ t.step = "store" => t.intent \in Intents
    BY <1>1, TaskOf DEF At
  <2> QED
    BY <1>0, <2>1, <2>2, IntentAssumption DEF ChargeRec, ChargesKept, IntentAssumption
<1>2. ASSUME NEW h \in Handlers, NEW t, task' = [task EXCEPT ![h] = t],
             ChargeRec(t, keyed', charge', intentOf')
      PROVE  ChargeInv'
  <2>1. task \in [Handlers -> Tasks]
    BY DEF TypeInv, TypeOK
  <2>2. ASSUME NEW g \in Handlers
        PROVE  ChargeRec(task'[g], keyed', charge', intentOf')
    <3>1. CASE g = h
      BY <1>2, <2>1, <3>1
    <3>2. CASE g # h
      <4>1. task'[g] = task[g]
        BY <1>2, <2>1, <3>2
      <4> QED
        BY <1>1, <4>1
    <3> QED
      BY <3>1, <3>2
  <2> QED
    BY <1>0, <2>2 DEF ChargeInv
<1>3. ASSUME UNCHANGED task PROVE ChargeInv'
  <2>1. ASSUME NEW g \in Handlers
        PROVE  ChargeRec(task'[g], keyed', charge', intentOf')
    BY <1>1, <1>3
  <2> QED
    BY <1>0, <2>1 DEF ChargeInv
<1>4. ChargeRec(NoTask, keyed', charge', intentOf')
  BY DEF ChargeRec, NoTask, NoView
<1>5. ASSUME NEW h \in Handlers, Start(h) PROVE ChargeInv'
  <2>1. ASSUME NEW t \in Tasks, task' = [task EXCEPT ![h] = t], OpenedFor(t)
        PROVE  ChargeInv'
    <3>1. Rows.intentOf = intentOf
      BY DEF Rows
    <3>2. t.kind = "webhook" => keyed[t.subject] = t.intent
      BY <2>1, IntentAssumption DEF OpenedFor, ChargeInv, LedgerInv, IntentAssumption
    <3>3. ChargeRec(t, keyed', charge', intentOf')
      BY <1>0, <2>1, <3>1, <3>2, IntentAssumption
      DEF OpenedFor, ChargeRec, ChargesKept, IntentAssumption
    <3> QED
      BY <1>2, <2>1, <3>3
  <2> QED
    BY <1>3, <1>5, <2>1, StartOpens
<1>6. ASSUME NEW h \in Handlers, Run(h) PROVE ChargeInv'
  <2>1. PICK t \in Tasks :
          /\ task' = [task EXCEPT ![h] = t]
          /\ \/ t = NoTask
             \/ GoesOn(t, task[h]) /\ t.step # "store" /\ t.intent = task[h].intent
             \/ /\ GoesOn(t, task[h])
                /\ \E i \in Intents : PayCreate(h, i) /\ t.intent = i
    BY <1>6, RunGoesOn DEF Proceeds
  <2>2. ChargeRec(task[h], keyed', charge', intentOf')
    BY <1>1
  <2>3. CASE t = NoTask
    BY <1>2, <1>4, <2>1, <2>3
  <2>4. CASE GoesOn(t, task[h]) /\ t.step # "store" /\ t.intent = task[h].intent
    <3>1. ChargeRec(t, keyed', charge', intentOf')
      BY <2>2, <2>4 DEF GoesOn, ChargeRec
    <3> QED
      BY <1>2, <2>1, <3>1
  <2>5. ASSUME GoesOn(t, task[h]), NEW i \in Intents, PayCreate(h, i), t.intent = i
        PROVE  ChargeInv'
    <3>1. task[h].kind = "pay" /\ task[h].subject \in Payables
      BY <2>5, TaskOf DEF PayCreate, At
    <3>2. keyed'[task[h].subject] = i
      <4>1. keyed \in [Payables -> MaybeIntent]
        BY TypeParts DEF TypeInv, DataOK, StripeOK
      <4> QED
        BY <2>5, <3>1, <4>1 DEF PayCreate, CreateIntent
    <3>3. ChargeRec(t, keyed', charge', intentOf')
      BY <2>2, <2>5, <3>1, <3>2 DEF GoesOn, ChargeRec
    <3> QED
      BY <1>2, <2>1, <3>3
  <2> QED
    BY <2>1, <2>3, <2>4, <2>5
<1>7. ASSUME NEW h \in Handlers, Crash(h) PROVE ChargeInv'
  <2>1. task' = [task EXCEPT ![h] = NoTask]
    BY <1>7 DEF Crash, Close
  <2> QED
    BY <1>2, <1>4, <2>1
<1>8. ASSUME NEW i \in Intents, Confirm(i) PROVE ChargeInv'
  BY <1>3, <1>8 DEF Confirm
<1>9. ASSUME NEW o \in Orders, Grow(o) PROVE ChargeInv'
  BY <1>3, <1>9 DEF Grow
<1>10. CASE UNCHANGED vars
  <2>1. UNCHANGED task
    BY <1>10 DEF vars
  <2> QED
    BY <1>0, <1>3, <2>1
<1> QED
  BY <1>0, <1>5, <1>6, <1>7, <1>8, <1>9, <1>10 DEF Next

LEMMA ChargeInvariant == Spec => []ChargeInv
<1>1. Init => TypeInv /\ ChargeInv
  BY TypeInit, ChargeInit
<1>2. TypeInv /\ ChargeInv /\ [Next]_vars => (TypeInv /\ ChargeInv)'
  BY TypeNext, ChargeNext
<1> QED
  BY <1>1, <1>2, PTL DEF Spec

\* One order or master order never has two intents that were, or could still
\* be, paid: the idempotency key remembers the first.
THEOREM OneCharge == Spec => []OneChargePerPayable
<1>1. TypeInv /\ ChargeInv => OneChargePerPayable
  BY DEF ChargeInv, LedgerInv, OneChargePerPayable
<1> QED
  BY <1>1, TypeInvariant, ChargeInvariant, PTL

-------------------------------------------------------------------------------
\* Fulfilled orders were paid.
PaidOrders == {o \in Orders : o \in touched \/ Succeeded(o) # {}}

\* What a handler may mark as 'processing' or 'shipped', given the provider and
\* P == PaidOrders.
PaidRec(t, prov, P) ==
  /\ t.kind = "pay" /\ t.step \in {"commit", "courier", "ship"} => prov = "mock"
  /\ t.kind = "webhook" => t.todo \cup t.marked \subseteq Covered(t.subject)
  /\ t.kind = "fulfil" => prov = "mock" \/ t.todo \cup t.marked \subseteq P

PaidInv ==
  /\ provider = "mock" \/
       \A o \in Orders : status[o] \in {"processing", "shipped", "completed"} =>
                           o \in PaidOrders
  /\ \A h \in Handlers : PaidRec(task[h], provider, PaidOrders)

LEMMA PaidInit == Init => PaidInv
<1> SUFFICES ASSUME Init PROVE PaidInv
  OBVIOUS
<1>1. \A P : PaidRec(NoTask, provider, P)
  BY DEF PaidRec, NoTask
<1>2. \A h \in Handlers : PaidRec(task[h], provider, PaidOrders)
  BY <1>1 DEF Init
<1>3. \A o \in Orders : status[o] = "pending_payment"
  BY DEF Init
<1> QED
  BY <1>2, <1>3 DEF PaidInv

\* The event a webhook works on was paid for everything it covers.
LEMMA WebhookPaid ==
  ASSUME TypeInv, ChargeInv, NEW h \in Handlers, task[h].kind = "webhook"
  PROVE  Covered(task[h].subject) \subseteq PaidOrders
<1> DEFINE p == task[h].subject
           i == task[h].intent
<1>1. p \in Payables /\ i \in Intents /\ keyed[p] = i /\ charge[i] = "succeeded"
  BY TaskOf DEF ChargeInv, ChargeRec
<1>2. owner[i] = p /\ p # Nobody
  BY <1>1, IntentAssumption, OrderAssumption
  DEF IntentAssumption, OrderAssumption, ChargeInv, LedgerInv
<1>3. Covered(p) \subseteq Orders
  BY <1>1 DEF Covered, Payables
<1> HIDE DEF p, i
<1>4. \A o \in Covered(p) : i \in Succeeded(o)
  BY <1>1, <1>2 DEF Succeeded, Covers
<1> QED
  BY <1>3, <1>4 DEF PaidOrders, p

LEMMA ProviderKept == [Next]_vars => provider' = provider /\ touched \subseteq touched'
<1> SUFFICES ASSUME [Next]_vars PROVE provider' = provider /\ touched \subseteq touched'
  OBVIOUS
<1> USE DEF history
<1>1. ASSUME NEW h \in Handlers, Start(h) PROVE provider' = provider /\ touched \subseteq touched'
  BY <1>1 DEF Start, PayStart, WebhookStart, CancelStart, FulfilStart, SetStart,
              SweepStart
<1>2. ASSUME NEW h \in Handlers, Run(h) PROVE provider' = provider /\ touched \subseteq touched'
  BY <1>2 DEF Run, PayMock, PayRetrieve, PayStore, PayCreate, Webhook, WebhookCommit,
              WebhookAnswer, Transfer, ShipCommit, FulfilDone, FulfilCall,
              AutoFulfilCall, CancelCommit, SetCommit, Sweep, SweepCommit,
              SweepNoCharge, SweepGrace, SweepCancel, SweepMasterDead,
              SweepCancelFails
<1> QED
  BY <1>1, <1>2 DEF Next, Crash, Confirm, Grow, vars

LEMMA PaidKept ==
  TypeInv /\ ChargeInv /\ [Next]_vars => PaidOrders \subseteq PaidOrders'
<1> SUFFICES ASSUME TypeInv, ChargeInv, [Next]_vars, NEW o \in PaidOrders
             PROVE  o \in PaidOrders'
  OBVIOUS
<1>1. ChargesKept /\ touched \subseteq touched'
  BY ChargeNext, ProviderKept
<1>2. Succeeded(o) \subseteq Succeeded(o)'
  BY <1>1 DEF ChargesKept, Succeeded, Covers
<1> QED
  BY <1>1, <1>2 DEF PaidOrders

\* How the status of an order may change.
LEMMA StatusNext ==
  ASSUME TypeInv, ViewInv, ChargeInv, PaidInv, [Next]_vars, NEW o \in Orders
  PROVE  \/ status'[o] = status[o]
         \/ status'[o] \in {"cancelled", "expired"}
         \/ /\ status'[o] \in {"processing", "shipped", "completed"}
            /\ provider = "mock" \/ o \in PaidOrders \/ o \in touched'
<1> DEFINE Goal == \/ status'[o] = status[o]
                   \/ status'[o] \in {"cancelled", "expired"}
                   \/ /\ status'[o] \in {"processing", "shipped", "completed"}
                      /\ provider = "mock" \/ o \in PaidOrders \/ o \in touched'
<1> USE DEF db
<1>1. ASSUME NEW h \in Handlers, Start(h) PROVE Goal
  BY <1>1 DEF Start, PayStart, WebhookStart, CancelStart, FulfilStart, SetStart,
              SweepStart
<1>2. ASSUME NEW h \in Handlers, NEW S, NEW s, WriteStatus(h, S, s)
      PROVE  status'[o] = status[o] \/ (o \in S /\ status'[o] = s)
  BY <1>2 DEF WriteStatus
<1>3. ASSUME NEW h \in Handlers, PayMock(h) \/ WebhookCommit(h) \/ ShipCommit(h)
      PROVE  Goal
  <2>1. PICK S \in {task[h].todo, task[h].marked}, s \in {"processing", "shipped"} :
          WriteStatus(h, S, s)
    BY <1>3 DEF PayMock, WebhookCommit, ShipCommit
  <2>2. PaidRec(task[h], provider, PaidOrders)
    BY DEF PaidInv
  <2>3. \/ task[h].kind = "pay" /\ task[h].step \in {"commit", "ship"}
        \/ task[h].kind = "webhook" \/ task[h].kind = "fulfil"
    BY <1>3 DEF PayMock, WebhookCommit, ShipCommit, At
  <2>4. o \in S => provider = "mock" \/ o \in PaidOrders
    BY <2>1, <2>2, <2>3, WebhookPaid DEF PaidRec
  <2> QED
    BY <1>2, <2>1, <2>4
<1>4. ASSUME NEW h \in Handlers, CancelCommit(h) \/ SweepCommit(h) PROVE Goal
  BY <1>2, <1>4 DEF CancelCommit, SweepCommit
<1>5. ASSUME NEW h \in Handlers, SetCommit(h) PROVE Goal
  <2>1. task[h].target \in {"processing", "completed", "cancelled"}
    BY DEF ViewInv, ViewRec
  <2>2. WriteStatus(h, task[h].todo, task[h].target) /\ touched' = touched \cup task[h].todo
    BY <1>5 DEF SetCommit
  <2> QED
    BY <1>2, <2>1, <2>2
<1>6. ASSUME NEW h \in Handlers, Run(h) PROVE Goal
  <2>1. CASE \/ PayRetrieve(h) \/ PayStore(h) \/ FulfilDone(h) \/ FulfilCall(h)
             \/ WebhookAnswer(h) \/ \E i \in Intents : PayCreate(h, i)
             \/ \E x \in Orders : AutoFulfilCall(h, x) \/ Transfer(h, x)
    BY <2>1 DEF PayRetrieve, PayStore, FulfilDone, FulfilCall, WebhookAnswer,
                PayCreate, AutoFulfilCall, Transfer
  <2>2. CASE \E x \in Orders : \/ SweepNoCharge(h, x) \/ SweepGrace(h, x)
                               \/ SweepCancel(h, x) \/ SweepMasterDead(h, x)
                               \/ SweepCancelFails(h, x)
    BY <2>2 DEF SweepNoCharge, SweepGrace, SweepCancel, SweepMasterDead,
                SweepCancelFails
  <2> QED
    BY <1>3, <1>4, <1>5, <1>6, <2>1, <2>2 DEF Run, Webhook, Sweep
<1> QED
  BY <1>1, <1>6 DEF Next, Crash, Confirm, Grow, vars

LEMMA PaidNext ==
  TypeInv /\ ViewInv /\ ChargeInv /\ PaidInv /\ [Next]_vars => PaidInv'
<1> SUFFICES ASSUME TypeInv, ViewInv, ChargeInv, PaidInv, [Next]_vars PROVE PaidInv'
  OBVIOUS
<1>0. /\ PaidOrders \subseteq PaidOrders' /\ provider' = provider
      /\ \A o \in Orders : o \in touched' => o \in PaidOrders'
  BY PaidKept, ProviderKept DEF PaidOrders
<1>1. provider' = "mock" \/
        \A o \in Orders : status'[o] \in {"processing", "shipped", "completed"} =>
                            o \in PaidOrders'
  <2> SUFFICES ASSUME provider # "mock", NEW o \in Orders,
                      status'[o] \in {"processing", "shipped", "completed"}
               PROVE  o \in PaidOrders'
    BY <1>0
  <2>1. CASE status'[o] = status[o]
    BY <1>0, <2>1 DEF PaidInv
  <2>2. CASE status'[o] # status[o]
    BY <1>0, <2>2, StatusNext
  <2> QED
    BY <2>1, <2>2
<1>2. ASSUME NEW t, PaidRec(t, provider, PaidOrders)
      PROVE  PaidRec(t, provider', PaidOrders')
  BY <1>0, <1>2 DEF PaidRec
<1>3. ASSUME NEW h \in Handlers, NEW t, task' = [task EXCEPT ![h] = t],
             PaidRec(t, provider, PaidOrders)
      PROVE  PaidInv'
  <2>1. task \in [Handlers -> Tasks]
    BY DEF TypeInv, TypeOK
  <2>2. ASSUME NEW g \in Handlers
        PROVE  PaidRec(task'[g], provider', PaidOrders')
    <3>1. CASE g = h
      BY <1>2, <1>3, <2>1, <3>1
    <3>2. CASE g # h
      <4>1. task'[g] = task[g] /\ PaidRec(task[g], provider, PaidOrders)
        BY <1>3, <2>1, <3>2 DEF PaidInv
      <4> QED
        BY <1>2, <4>1
    <3> QED
      BY <3>1, <3>2
  <2> QED
    BY <1>1, <2>2 DEF PaidInv
<1>4. ASSUME UNCHANGED task PROVE PaidInv'
  <2>1. ASSUME NEW g \in Handlers
        PROVE  PaidRec(task'[g], provider', PaidOrders')
    <3>1. PaidRec(task[g], provider, PaidOrders)
      BY DEF PaidInv
    <3> QED
      BY <1>2, <1>4, <3>1
  <2> QED
    BY <1>1, <2>1 DEF PaidInv
<1>5. PaidRec(NoTask, provider, PaidOrders)
  BY DEF PaidRec, NoTask
<1>6. ASSUME NEW h \in Handlers, Start(h) PROVE PaidInv'
  <2>1. ASSUME NEW t \in Tasks, task' = [task EXCEPT ![h] = t], OpenedFor(t)
        PROVE  PaidInv'
    <3>1. t.kind = "webhook" => t.todo \subseteq Covered(t.subject)
      BY <2>1 DEF OpenedFor, Awaiting
    <3>2. t.kind = "fulfil" => provider = "mock" \/ t.todo \subseteq PaidOrders
      BY <2>1 DEF OpenedFor, PaidInv
    <3>3. t.marked = {}
            /\ (t.kind = "pay" /\ t.step \in {"commit", "courier", "ship"}
                  => provider = "mock")
      BY <2>1 DEF OpenedFor
    <3>4. PaidRec(t, provider, PaidOrders)
      BY <3>1, <3>2, <3>3 DEF PaidRec
    <3> QED
      BY <1>3, <2>1, <3>4
  <2> QED
    BY <1>4, <1>6, <2>1, StartOpens
<1>7. ASSUME NEW h \in Handlers, Run(h) PROVE PaidInv'
  <2>1. PICK t \in Tasks : task' = [task EXCEPT ![h] = t]
                             /\ (t = NoTask \/ GoesOn(t, task[h]))
    BY <1>7, RunGoesOn DEF Proceeds
  <2>2. CASE t = NoTask
    BY <1>3, <1>5, <2>1, <2>2
  <2>3. CASE GoesOn(t, task[h])
    <3>1. PaidRec(task[h], provider, PaidOrders)
      BY DEF PaidInv
    <3>2. PaidRec(t, provider, PaidOrders)
      BY <2>3, <3>1 DEF GoesOn, PaidRec
    <3> QED
      BY <1>3, <2>1, <3>2
  <2> QED
    BY <2>1, <2>2, <2>3
<1>8. ASSUME NEW h \in Handlers, Crash(h) PROVE PaidInv'
  <2>1. task' = [task EXCEPT ![h] = NoTask]
    BY <1>8 DEF Crash, Close
  <2> QED
    BY <1>3, <1>5, <2>1
<1>9. ASSUME NEW i \in Intents, Confirm(i) PROVE PaidInv'
  BY <1>4, <1>9 DEF Confirm
<1>10. ASSUME NEW o \in Orders, Grow(o) PROVE PaidInv'
  BY <1>4, <1>10 DEF Grow
<1>11. CASE UNCHANGED vars
  <2>1. UNCHANGED task
    BY <1>11 DEF vars
  <2> QED
    BY <1>4, <2>1
<1> QED
  BY <1>6, <1>7, <1>8, <1>9, <1>10, <1>11 DEF Next

\* With Stripe, an order the vendor never touched is only fulfilled after money
\* was taken for it, whatever commits, repeats or dies in between.
THEOREM OnlyPaidFulfilled == Spec => []FulfilledOnlyIfPaid
<1> DEFINE I == TypeInv /\ ViewInv /\ StockInv /\ ChargeInv /\ PaidInv
<1>1. Init => I
  BY TypeInit, ViewInit, StockInit, ChargeInit, PaidInit
<1>2. I /\ [Next]_vars => I'
  BY TypeNext, ViewNext, StockNext, ChargeNext, PaidNext DEF StockInv
<1>3. I => FulfilledOnlyIfPaid
  BY DEF PaidInv, PaidOrders, FulfilledOnlyIfPaid
<1> QED
  BY <1>1, <1>2, <1>3, PTL DEF Spec

-------------------------------------------------------------------------------
\* Stripe's 200 is only sent when nothing is left to lose.

\* What a webhook has marked, given st == status.
MarkedRec(t, st) ==
  t.kind = "webhook" =>
    \A o \in Covered(t.subject) :
      st[o] # "pending_payment" \/ (t.step = "commit" /\ o \in t.todo)

AnswerInv ==
  /\ \A i \in acked : /\ i \in Intents /\ charge[i] = "succeeded"
                      /\ \A o \in Covered(owner[i]) : status[o] # "pending_payment"
  /\ \A h \in Handlers : MarkedRec(task[h], status)

LEMMA AnswerInit == Init => AnswerInv
<1> SUFFICES ASSUME Init PROVE AnswerInv
  OBVIOUS
<1>1. MarkedRec(NoTask, status)
  BY DEF MarkedRec, NoTask
<1> QED
  BY <1>1 DEF Init, AnswerInv

\* A webhook that has yet to commit does nothing else.
LEMMA CommitFirst ==
  ASSUME NEW h \in Handlers, Run(h), At(h, "webhook", "commit")
  PROVE  WebhookCommit(h)
  BY DEF Run, At, PayMock, PayRetrieve, PayStore, PayCreate, Webhook,
         WebhookAnswer, Transfer, ShipCommit, FulfilDone, FulfilCall,
         AutoFulfilCall, CancelCommit, SetCommit, Sweep, SweepCommit,
         SweepNoCharge, SweepGrace, SweepCancel, SweepMasterDead,
         SweepCancelFails, PastGrace

LEMMA AckNext ==
  ASSUME TypeInv, ChargeInv, AnswerInv, [Next]_vars, NEW i \in acked', i \notin acked
  PROVE  /\ i \in Intents /\ charge[i] = "succeeded"
         /\ \A o \in Covered(owner[i]) : status[o] # "pending_payment"
<1> USE DEF db, stripe
<1>1. ASSUME NEW h \in Handlers, NEW j \in Intents, WebhookStart(h, j)
      PROVE  /\ i \in Intents /\ charge[i] = "succeeded"
             /\ \A o \in Covered(owner[i]) : status[o] # "pending_payment"
  <2>1. /\ i = j /\ charge[j] = "succeeded"
        /\ \A p \in Payables : intentOf[p] = j => Awaiting(Rows, p) = {}
    BY <1>1 DEF WebhookStart
  <2>2. owner[j] \in Payables /\ intentOf[owner[j]] = j
    BY <2>1 DEF ChargeInv, LedgerInv
  <2>3. Awaiting(Rows, owner[j]) = {}
    BY <2>1, <2>2
  <2> QED
    BY <2>1, <2>3 DEF Awaiting, Rows
<1>2. ASSUME NEW h \in Handlers, WebhookAnswer(h)
      PROVE  /\ i \in Intents /\ charge[i] = "succeeded"
             /\ \A o \in Covered(owner[i]) : status[o] # "pending_payment"
  <2>1. /\ task[h].kind = "webhook" /\ task[h].step # "commit" /\ i = task[h].intent
    BY <1>2 DEF WebhookAnswer, At
  <2>2. /\ i \in Intents /\ charge[i] = "succeeded" /\ keyed[task[h].subject] = i
        /\ task[h].subject \in Payables
    BY <2>1, TaskOf DEF ChargeInv, ChargeRec
  <2>3. owner[i] = task[h].subject
    BY <2>2, IntentAssumption DEF ChargeInv, LedgerInv, IntentAssumption
  <2>4. MarkedRec(task[h], status)
    BY DEF AnswerInv
  <2> QED
    BY <2>1, <2>2, <2>3, <2>4 DEF MarkedRec
<1>3. ASSUME NEW h \in Handlers, Start(h)
      PROVE  \E j \in Intents : WebhookStart(h, j)
  BY <1>3 DEF Start, PayStart, CancelStart, FulfilStart, SetStart, SweepStart
<1>4. ASSUME NEW h \in Handlers, Run(h) PROVE WebhookAnswer(h)
  BY <1>4 DEF Run, PayMock, PayRetrieve, PayStore, PayCreate, Webhook, WebhookCommit,
              Transfer, ShipCommit, FulfilDone, FulfilCall,
              AutoFulfilCall, CancelCommit, SetCommit, Sweep, SweepCommit,
              SweepNoCharge, SweepGrace, SweepCancel, SweepMasterDead,
              SweepCancelFails
<1> QED
  BY <1>1, <1>2, <1>3, <1>4 DEF Next, Crash, Confirm, Grow, vars

LEMMA AnswerNext ==
  TypeInv /\ ViewInv /\ ChargeInv /\ PaidInv /\ AnswerInv /\ [Next]_vars => AnswerInv'
<1> SUFFICES ASSUME TypeInv, ViewInv, ChargeInv, PaidInv, AnswerInv, [Next]_vars
             PROVE  AnswerInv'
  OBVIOUS
<1>0. \A o \in Orders : status[o] # "pending_payment" => status'[o] # "pending_payment"
  BY StatusNext
<1>1. \A p \in Payables : Covered(p) \subseteq Orders
  BY DEF Covered, Payables
<1>2. \A i \in acked' : /\ i \in Intents /\ charge'[i] = "succeeded"
                        /\ \A o \in Covered(owner'[i]) : status'[o] # "pending_payment"
  <2> SUFFICES ASSUME NEW i \in acked'
               PROVE  /\ i \in Intents /\ charge'[i] = "succeeded"
                      /\ \A o \in Covered(owner'[i]) : status'[o] # "pending_payment"
    OBVIOUS
  <2>1. /\ i \in Intents /\ charge[i] = "succeeded"
        /\ \A o \in Covered(owner[i]) : status[o] # "pending_payment"
    BY AckNext DEF AnswerInv
  <2>2. owner'[i] = owner[i] /\ charge'[i] = "succeeded" /\ owner[i] \in Payables
    BY <2>1, ChargeNext DEF ChargesKept, ChargeInv, LedgerInv
  <2> QED
    BY <1>0, <1>1, <2>1, <2>2
<1>3. ASSUME NEW t, MarkedRec(t, status), t.kind = "webhook" => t.subject \in Payables
      PROVE  MarkedRec(t, status')
  BY <1>0, <1>1, <1>3 DEF MarkedRec
<1>4. ASSUME NEW g \in Handlers PROVE MarkedRec(task[g], status')
  <2>1. MarkedRec(task[g], status)
    BY DEF AnswerInv
  <2>2. task[g].kind = "webhook" => task[g].subject \in Payables
    BY TaskOf
  <2> QED
    BY <1>3, <2>1, <2>2
<1>5. ASSUME NEW h \in Handlers, NEW t, task' = [task EXCEPT ![h] = t],
             MarkedRec(t, status')
      PROVE  AnswerInv'
  <2>1. task \in [Handlers -> Tasks]
    BY DEF TypeInv, TypeOK
  <2>2. ASSUME NEW g \in Handlers PROVE MarkedRec(task'[g], status')
    <3>1. CASE g = h
      BY <1>5, <2>1, <3>1
    <3>2. CASE g # h
      <4>1. task'[g] = task[g]
        BY <1>5, <2>1, <3>2
      <4> QED
        BY <1>4, <4>1
    <3> QED
      BY <3>1, <3>2
  <2> QED
    BY <1>2, <2>2 DEF AnswerInv
<1>6. ASSUME UNCHANGED task PROVE AnswerInv'
  <2>1. ASSUME NEW g \in Handlers PROVE MarkedRec(task'[g], status')
    BY <1>4, <1>6
  <2> QED
    BY <1>2, <2>1 DEF AnswerInv
<1>7. MarkedRec(NoTask, status')
  BY DEF MarkedRec, NoTask
<1>8. ASSUME NEW h \in Handlers, Start(h) PROVE AnswerInv'
  <2>1. ASSUME NEW t \in Tasks, task' = [task EXCEPT ![h] = t], OpenedFor(t)
        PROVE  AnswerInv'
    <3>1. MarkedRec(t, status)
      BY <2>1, <1>1 DEF MarkedRec, OpenedFor, Awaiting, Rows
    <3>2. MarkedRec(t, status')
      BY <1>3, <2>1, <3>1 DEF OpenedFor
    <3> QED
      BY <1>5, <2>1, <3>2
  <2> QED
    BY <1>6, <1>8, <2>1, StartOpens
<1>9. ASSUME NEW h \in Handlers, Run(h) PROVE AnswerInv'
  <2>1. PICK t \in Tasks : task' = [task EXCEPT ![h] = t]
                             /\ (t = NoTask \/ GoesOn(t, task[h]))
    BY <1>9, RunGoesOn DEF Proceeds
  <2>2. CASE t = NoTask
    BY <1>5, <1>7, <2>1, <2>2
  <2>3. CASE GoesOn(t, task[h]) /\ At(h, "webhook", "commit")
    <3>1. /\ WriteStatus(h, task[h].todo, "processing")
          /\ \A o \in task[h].todo : task[h].view.status[o] = "pending_payment"
      BY <1>9, <2>3, CommitFirst DEF WebhookCommit, At, ViewInv, ViewRec
    <3>2. \A o \in task[h].todo : o \in Orders /\ status'[o] = "processing"
      BY <3>1, TaskOf DEF WriteStatus
    <3>3. t.kind = "webhook" /\ t.subject = task[h].subject
      BY <2>3 DEF GoesOn, At
    <3>4. MarkedRec(t, status')
      BY <1>4, <2>3, <3>2, <3>3 DEF MarkedRec, At
    <3> QED
      BY <1>5, <2>1, <3>4
  <2>4. CASE GoesOn(t, task[h]) /\ ~At(h, "webhook", "commit")
    <3>1. MarkedRec(t, status')
      BY <1>4, <2>4 DEF MarkedRec, GoesOn, At
    <3> QED
      BY <1>5, <2>1, <3>1
  <2> QED
    BY <2>1, <2>2, <2>3, <2>4
<1>10. ASSUME NEW h \in Handlers, Crash(h) PROVE AnswerInv'
  <2>1. task' = [task EXCEPT ![h] = NoTask]
    BY <1>10 DEF Crash, Close
  <2> QED
    BY <1>5, <1>7, <2>1
<1>11. ASSUME NEW i \in Intents, Confirm(i) PROVE AnswerInv'
  BY <1>6, <1>11 DEF Confirm
<1>12. ASSUME NEW o \in Orders, Grow(o) PROVE AnswerInv'
  BY <1>6, <1>12 DEF Grow
<1>13. CASE UNCHANGED vars
  <2>1. UNCHANGED task
    BY <1>13 DEF vars
  <2> QED
    BY <1>6, <2>1
<1> QED
  BY <1>8, <1>9, <1>10, <1>11, <1>12, <1>13 DEF Next

\* Once Stripe has its 200, no order the payment covers is waiting for it any
\* more, wherever a handler of the event died before.
THEOREM AnsweredMeansMarked == Spec => []AnsweredIsMarked
<1> DEFINE I == /\ TypeInv /\ ViewInv /\ StockInv /\ ChargeInv /\ PaidInv
                /\ AnswerInv
<1>1. Init => I
  BY TypeInit, ViewInit, StockInit, ChargeInit, PaidInit, AnswerInit
<1>2. I /\ [Next]_vars => I'
  BY TypeNext, ViewNext, StockNext, ChargeNext, PaidNext, AnswerNext DEF StockInv
<1>3. I => AnsweredIsMarked
  BY DEF AnswerInv, AnsweredIsMarked
<1> QED
  BY <1>1, <1>2, <1>3, PTL DEF Spec

-------------------------------------------------------------------------------
(***************************************************************************)
(* The sweep cancels first.                                                *)
(***************************************************************************)

\* No sub-order of master m had an intent of its own when the sweep read it.
Alone(t, m) == \A p \in Orders : MasterOf[p] = m => t.view.intentOf[p] = Nobody

\* The intents a sweep has done with, given C == charge: those of the orders it
\* marked, and of the masters it noted as dead.
SweepRec(t, C) ==
  t.kind = "sweep" =>
    /\ \A o \in t.marked :
         LET i == SweptIntent(t.view, o) IN
         i # Nobody /\ (MasterOf[o] # Nobody => Alone(t, MasterOf[o])) => C[i] # "open"
    /\ \A m \in t.dead :
         Alone(t, m) /\ t.view.intentOf[m] # Nobody => C[t.view.intentOf[m]] # "open"

SweepInv == \A h \in Handlers : SweepRec(task[h], charge)

LEMMA SweepInit == Init => SweepInv
<1>1. SweepRec(NoTask, charge)
  BY DEF SweepRec, NoTask
<1> QED
  BY <1>1 DEF Init, SweepInv

\* Only an intent that was never used is opened.
LEMMA NeverReopened ==
  ASSUME TypeInv, [Next]_vars, NEW i \in Intents, charge[i] \notin {"none", "open"}
  PROVE  charge'[i] # "open"
<1> USE DEF stripe
<1>0. charge \in [Intents -> {"none", "open", "succeeded", "canceled"}]
  BY DEF TypeInv, TypeOK
<1>1. ASSUME NEW h \in Handlers, Start(h) PROVE charge' = charge
  BY <1>1 DEF Start, PayStart, WebhookStart, CancelStart, FulfilStart, SetStart,
              SweepStart
<1>2. ASSUME NEW h \in Handlers, NEW j \in Intents, PayCreate(h, j)
      PROVE  charge'[i] # "open"
  BY <1>0, <1>2 DEF PayCreate, CreateIntent
<1>3. ASSUME NEW h \in Handlers, NEW o \in Orders, SweepCancel(h, o)
      PROVE  charge'[i] # "open"
  BY <1>0, <1>3 DEF SweepCancel, CancelIntent
<1>4. ASSUME NEW h \in Handlers, Run(h) PROVE charge'[i] # "open"
  BY <1>2, <1>3, <1>4
  DEF Run, PayMock, PayRetrieve, PayStore, Webhook, WebhookCommit, WebhookAnswer,
      Transfer, ShipCommit, FulfilDone, FulfilCall, AutoFulfilCall, CancelCommit,
      SetCommit, Sweep, SweepCommit, SweepNoCharge, SweepGrace, SweepMasterDead,
      SweepCancelFails
<1>5. ASSUME NEW j \in Intents, Confirm(j) PROVE charge'[i] # "open"
  BY <1>0, <1>5 DEF Confirm
<1> QED
  BY <1>1, <1>4, <1>5 DEF Next, Crash, Grow, vars

\* An intent that a handler read from a row is one that Stripe made.
LEMMA ReadIntent ==
  ASSUME TypeInv, ChargeInv, NEW h \in Handlers, NEW p \in Payables,
         task[h].view.intentOf[p] # Nobody
  PROVE  /\ task[h].view.intentOf[p] \in Intents
         /\ charge[task[h].view.intentOf[p]] # "none"
<1> DEFINE i == task[h].view.intentOf[p]
<1>1. i \in MaybeIntent
  BY TaskOf DEF Tasks, Views
<1>2. keyed[p] = i
  BY DEF ChargeInv, ChargeRec, LedgerInv
<1> QED
  BY <1>1, <1>2 DEF MaybeIntent, ChargeInv, LedgerInv

\* The intent a sweep looks at for an order is the order's or its master's.
LEMMA SweptFrom ==
  ASSUME NEW v, NEW o \in Orders, SweptIntent(v, o) # Nobody
  PROVE  \E p \in Payables : /\ SweptIntent(v, o) = v.intentOf[p]
                             /\ p = o \/ (p = MasterOf[o] /\ v.intentOf[o] = Nobody)
<1>1. MasterOf[o] \in Masters \cup {Nobody}
  BY OrderAssumption DEF OrderAssumption
<1> QED
  BY <1>1 DEF SweptIntent, Payables

LEMMA SweepKept ==
  ASSUME TypeInv, ChargeInv, SweepInv, [Next]_vars, NEW g \in Handlers
  PROVE  SweepRec(task[g], charge')
<1> SUFFICES ASSUME task[g].kind = "sweep" PROVE SweepRec(task[g], charge')
  BY DEF SweepRec
<1>0. SweepRec(task[g], charge) /\ task[g] \in Tasks
  BY TaskOf DEF SweepInv
<1>1. ASSUME NEW p \in Payables, task[g].view.intentOf[p] # Nobody,
             charge[task[g].view.intentOf[p]] # "open"
      PROVE  charge'[task[g].view.intentOf[p]] # "open"
  BY <1>1, ReadIntent, NeverReopened
<1>2. ASSUME NEW o \in task[g].marked, SweptIntent(task[g].view, o) # Nobody,
             MasterOf[o] # Nobody => Alone(task[g], MasterOf[o])
      PROVE  charge'[SweptIntent(task[g].view, o)] # "open"
  <2>1. charge[SweptIntent(task[g].view, o)] # "open"
    BY <1>0, <1>2 DEF SweepRec
  <2>2. o \in Orders
    BY <1>0 DEF Tasks
  <2>3. PICK p \in Payables : SweptIntent(task[g].view, o) = task[g].view.intentOf[p]
    BY <1>2, <2>2, SweptFrom
  <2> QED
    BY <1>1, <1>2, <2>1, <2>3
<1>3. ASSUME NEW m \in task[g].dead, Alone(task[g], m),
             task[g].view.intentOf[m] # Nobody
      PROVE  charge'[task[g].view.intentOf[m]] # "open"
  <2>1. m \in Payables /\ charge[task[g].view.intentOf[m]] # "open"
    BY <1>0, <1>3 DEF SweepRec, Tasks, Payables
  <2> QED
    BY <1>1, <1>3, <2>1
<1> QED
  BY <1>2, <1>3 DEF SweepRec

\* A handler that is at a sweep does nothing else.
LEMMA SweepOnly ==
  ASSUME NEW h \in Handlers, Run(h), task[h].kind = "sweep"
  PROVE  Sweep(h)
  BY DEF Run, At, PayMock, PayRetrieve, PayStore, PayCreate, Webhook, WebhookCommit,
         WebhookAnswer, Transfer, ShipCommit, FulfilDone, FulfilCall, AutoFulfilCall,
         CancelCommit, SetCommit

\* What one turn of the sweep's loop adds to its record is paid or canceled.
LEMMA SweepTurn ==
  ASSUME TypeInv, ChargeInv, SweepInv, [Next]_vars, NEW h \in Handlers, Sweep(h)
  PROVE  \E t \in Tasks : task' = [task EXCEPT ![h] = t] /\ SweepRec(t, charge')
<1> DEFINE u == task[h]
           Goal == \E t \in Tasks : task' = [task EXCEPT ![h] = t] /\ SweepRec(t, charge')
           Shut(M, D) ==
             /\ \A o \in M : /\ SweptIntent(u.view, o) # Nobody
                             /\ MasterOf[o] # Nobody => Alone(u, MasterOf[o])
                             => charge'[SweptIntent(u.view, o)] # "open"
             /\ \A m \in D : Alone(u, m) /\ u.view.intentOf[m] # Nobody
                               => charge'[u.view.intentOf[m]] # "open"
<1>0. /\ u \in Tasks /\ SweepRec(u, charge')
      /\ charge \in [Intents -> {"none", "open", "succeeded", "canceled"}]
  BY TaskOf, SweepKept DEF TypeInv, TypeOK
\* An order struck off, and perhaps marked, and masters noted.
<1>1. ASSUME NEW t \in Tasks, task' = [task EXCEPT ![h] = t],
             t.kind = u.kind, t.view = u.view,
             NEW M, t.marked = u.marked \cup M, NEW D, t.dead = u.dead \cup D,
             Shut(M, D)
      PROVE  Goal
  <2>1. \A m : Alone(t, m) <=> Alone(u, m)
    BY <1>1 DEF Alone
  <2>2. SweepRec(t, charge')
    BY <1>0, <1>1, <2>1 DEF SweepRec
  <2> QED
    BY <1>1, <2>2
<1>2. CASE SweepCommit(h)
  <2>1. task' = [task EXCEPT ![h] = NoTask] /\ SweepRec(NoTask, charge')
    BY <1>2 DEF SweepCommit, Close, SweepRec, NoTask
  <2> QED
    BY <2>1, NoTaskType
<1>3. ASSUME NEW o \in Orders, SweepGrace(h, o) \/ SweepCancelFails(h, o) PROVE Goal
  <2> DEFINE t == [u EXCEPT !.todo = @ \ {o}]
  <2>1. task' = [task EXCEPT ![h].todo = @ \ {o}]
    BY <1>3 DEF SweepGrace, SweepCancelFails
  <2>2. task' = [task EXCEPT ![h] = t]
    BY <1>0, <2>1 DEF Tasks
  <2>3. /\ t \in Tasks /\ t.kind = u.kind /\ t.view = u.view
        /\ t.marked = u.marked \cup {} /\ t.dead = u.dead \cup {}
    BY <1>0 DEF Tasks
  <2>4. Shut({}, {})
    OBVIOUS
  <2> HIDE DEF t, Shut, Goal
  <2> QED
    BY <1>1, <2>2, <2>3, <2>4
<1>4. ASSUME NEW o \in Orders, SweepNoCharge(h, o) \/ SweepMasterDead(h, o) PROVE Goal
  <2> DEFINE t == [u EXCEPT !.todo = @ \ {o}, !.marked = @ \cup {o}]
  <2>1. task' = [task EXCEPT ![h].todo = @ \ {o}, ![h].marked = @ \cup {o}]
    BY <1>4 DEF SweepNoCharge, SweepMasterDead
  <2>2. task' = [task EXCEPT ![h] = t]
    BY <1>0, <2>1 DEF Tasks
  <2>3. /\ t \in Tasks /\ t.kind = u.kind /\ t.view = u.view
        /\ t.marked = u.marked \cup {o} /\ t.dead = u.dead \cup {}
    BY <1>0 DEF Tasks
  <2> HIDE DEF t
  <2>4. ASSUME SweptIntent(u.view, o) # Nobody,
               MasterOf[o] # Nobody => Alone(u, MasterOf[o])
        PROVE  charge'[SweptIntent(u.view, o)] # "open"
    <3>1. MasterOf[o] \in u.dead /\ u.kind = "sweep"
      BY <1>4, <2>4 DEF SweepNoCharge, SweepMasterDead, PastGrace, At
    <3>2. MasterOf[o] # Nobody
      BY <1>0, <3>1, OrderAssumption DEF Tasks, OrderAssumption, Payables
    <3>3. SweptIntent(u.view, o) = u.view.intentOf[MasterOf[o]]
      BY <2>4, <3>2 DEF Alone, SweptIntent
    <3> QED
      BY <1>0, <2>4, <3>1, <3>2, <3>3 DEF SweepRec
  <2>5. Shut({o}, {})
    BY <2>4
  <2> HIDE DEF Shut, Goal
  <2> QED
    BY <1>1, <2>2, <2>3, <2>5
<1>5. ASSUME NEW o \in Orders, SweepCancel(h, o) PROVE Goal
  <2> DEFINE D == {MasterOf[o]} \ {Nobody}
             i == SweptIntent(u.view, o)
             t == [u EXCEPT !.todo = @ \ {o}, !.marked = @ \cup {o}, !.dead = @ \cup D]
  <2>1. D \subseteq Masters
    BY OrderAssumption DEF OrderAssumption
  <2>2. i # Nobody /\ charge' = IF charge[i] = "open"
                                THEN [charge EXCEPT ![i] = "canceled"] ELSE charge
    BY <1>5 DEF SweepCancel, PastGrace, CancelIntent
  <2>3. charge'[i] # "open"
    <3>1. i \in Intents
      BY <2>2, SweptFrom, ReadIntent
    <3> QED
      BY <1>0, <2>2, <3>1
  <2>4. ASSUME NEW m \in D, Alone(u, m), u.view.intentOf[m] # Nobody
        PROVE  charge'[u.view.intentOf[m]] # "open"
    <3>1. m = MasterOf[o] /\ m # Nobody /\ u.view.intentOf[o] = Nobody
      BY <2>4 DEF Alone
    <3>2. i = u.view.intentOf[m]
      BY <3>1 DEF SweptIntent
    <3> QED
      BY <2>3, <3>2
  <2>5. task' = [task EXCEPT ![h].todo = @ \ {o}, ![h].marked = @ \cup {o},
                             ![h].dead = @ \cup D]
    BY <1>5 DEF SweepCancel
  <2> HIDE DEF D
  <2>6. task' = [task EXCEPT ![h] = t]
    BY <1>0, <2>5 DEF Tasks
  <2>7. /\ t \in Tasks /\ t.kind = u.kind /\ t.view = u.view
        /\ t.marked = u.marked \cup {o} /\ t.dead = u.dead \cup D
    BY <1>0, <2>1 DEF Tasks
  <2>8. Shut({o}, D)
    BY <2>3, <2>4
  <2> HIDE DEF t, Shut, Goal
  <2> QED
    BY <1>1, <2>6, <2>7, <2>8
<1> QED
  BY <1>2, <1>3, <1>4, <1>5 DEF Sweep

LEMMA SweepNext == TypeInv /\ ChargeInv /\ SweepInv /\ [Next]_vars => SweepInv'
<1> SUFFICES ASSUME TypeInv, ChargeInv, SweepInv, [Next]_vars PROVE SweepInv'
  OBVIOUS
<1>1. ASSUME NEW h \in Handlers, NEW t, task' = [task EXCEPT ![h] = t],
             SweepRec(t, charge')
      PROVE  SweepInv'
  <2>1. task \in [Handlers -> Tasks]
    BY DEF TypeInv, TypeOK
  <2>2. \A g \in Handlers : task'[g] = IF g = h THEN t ELSE task[g]
    BY <1>1, <2>1
  <2> QED
    BY <1>1, <2>2, SweepKept DEF SweepInv
<1>2. ASSUME UNCHANGED task PROVE SweepInv'
  BY <1>2, SweepKept DEF SweepInv
<1>3. ASSUME NEW t, t.kind # "sweep" PROVE SweepRec(t, charge')
  BY <1>3 DEF SweepRec
<1>4. ASSUME NEW h \in Handlers, Start(h) PROVE SweepInv'
  <2>1. ASSUME NEW t \in Tasks, OpenedFor(t) PROVE SweepRec(t, charge')
    BY <2>1 DEF OpenedFor, SweepRec
  <2> QED
    BY <1>1, <1>2, <1>4, <2>1, StartOpens
<1>5. ASSUME NEW h \in Handlers, Run(h) PROVE SweepInv'
  <2>1. CASE task[h].kind = "sweep"
    BY <1>1, <1>5, <2>1, SweepOnly, SweepTurn
  <2>2. CASE task[h].kind # "sweep"
    <3>1. PICK t \in Tasks : task' = [task EXCEPT ![h] = t]
                               /\ (t = NoTask \/ GoesOn(t, task[h]))
      BY <1>5, RunGoesOn DEF Proceeds
    <3>2. t.kind # "sweep"
      BY <2>2, <3>1, NoTaskType DEF GoesOn
    <3> QED
      BY <1>1, <1>3, <3>1, <3>2
  <2> QED
    BY <2>1, <2>2
<1>6. ASSUME NEW h \in Handlers, Crash(h) PROVE SweepInv'
  <2>1. task' = [task EXCEPT ![h] = NoTask] /\ NoTask.kind # "sweep"
    BY <1>6, NoTaskType DEF Crash, Close
  <2> QED
    BY <1>1, <1>3, <2>1
<1>7. ASSUME NEW i \in Intents, Confirm(i) PROVE SweepInv'
  BY <1>2, <1>7 DEF Confirm
<1>8. ASSUME NEW o \in Orders, Grow(o) PROVE SweepInv'
  BY <1>2, <1>8 DEF Grow
<1>9. CASE UNCHANGED vars
  BY <1>2, <1>9 DEF vars
<1> QED
  BY <1>4, <1>5, <1>6, <1>7, <1>8, <1>9 DEF Next

\* No order is marked for expiry under a charge the sweep read and the customer can
\* still pay, but for the sub-orders the code does not look at the master for
\* (tasks.py:61-80).
THEOREM SweepCancels == Spec => []SweepCancelsFirst
<1>1. TypeInv /\ SweepInv => SweepCancelsFirst
  <2> SUFFICES ASSUME TypeInv, SweepInv, NEW h \in Handlers, NEW o \in task[h].marked,
                      task[h].kind = "sweep", SweptIntent(task[h].view, o) # Nobody,
                      \A p \in Orders : MasterOf[p] = MasterOf[o] /\ MasterOf[o] # Nobody
                                          => task[h].view.intentOf[p] = Nobody
               PROVE  charge[SweptIntent(task[h].view, o)] # "open"
    BY DEF SweepCancelsFirst
  <2>1. MasterOf[o] # Nobody => Alone(task[h], MasterOf[o])
    BY DEF Alone
  <2> QED
    BY <2>1 DEF SweepInv, SweepRec
<1> DEFINE I == TypeInv /\ ChargeInv /\ SweepInv
<1>2. Init => I
  BY TypeInit, ChargeInit, SweepInit
<1>3. I /\ [Next]_vars => I'
  BY TypeNext, ChargeNext, SweepNext
<1>4. I => SweepCancelsFirst
  BY <1>1
<1> QED
  BY <1>2, <1>3, <1>4, PTL DEF Spec
-------------------------------------------------------------------------------
(***************************************************************************)
(* A payout for every charge.                                              *)
(***************************************************************************)

\* A delivery of intent i that may still pay out order o.
Owing(i, o) ==
  \E h \in Handlers : /\ Delivering(h, i)
                      /\ task[h].step = "transfer" => o \in task[h].todo

\* The charges of o that will not be paid out again: everything they cover is marked,
\* so a new delivery finds nothing to do, and no delivery in progress has o before it.
Spent(o) ==
  {i \in Succeeded(o) : /\ \A p \in Covered(owner[i]) : status[p] # "pending_payment"
                        /\ ~Owing(i, o)}

RaceInv ==
  \A g, h \in Handlers, i \in Intents :
    g # h /\ Delivering(g, i) /\ Delivering(h, i) => i \in raced

PayoutInv ==
  \A o \in Orders : Succeeded(o) \cap raced = {} => transfers[o] <= Cardinality(Spent(o))

LEMMA TwoAtMost == ASSUME NEW a, NEW b, NEW S \in SUBSET {a, b} PROVE IsFiniteSet(S)
<1>1. {a, b} = {a} \cup {b}
  OBVIOUS
<1>2. IsFiniteSet({a} \cup {b})
  BY FS_Singleton, FS_AddElement
<1> QED
  BY <1>1, <1>2, FS_Subset

\* An order is charged under its own key, or its master's.
LEMMA ChargesAreFew ==
  ASSUME ChargeInv, NEW o \in Orders
  PROVE  /\ IsFiniteSet(Succeeded(o)) /\ IsFiniteSet(Spent(o))
         /\ Cardinality(Spent(o)) <= Cardinality(Succeeded(o))
<1>1. Succeeded(o) \subseteq {keyed[o], keyed[MasterOf[o]]}
  BY DEF Succeeded, Covers, Covered, ChargeInv, LedgerInv
<1>2. IsFiniteSet(Succeeded(o))
  BY <1>1, TwoAtMost
<1>3. Spent(o) \subseteq Succeeded(o)
  BY DEF Spent
<1> QED
  BY <1>2, <1>3, FS_Subset

LEMMA PayoutInit == Init => RaceInv /\ PayoutInv
<1> SUFFICES ASSUME Init PROVE RaceInv /\ PayoutInv
  OBVIOUS
<1>1. \A h \in Handlers : task[h].kind = "idle"
  BY NoTaskType DEF Init
<1>2. \A o \in Orders : Spent(o) = {} /\ transfers[o] = 0
  BY DEF Init, Spent, Succeeded
<1> QED
  BY <1>1, <1>2, FS_EmptySet DEF RaceInv, PayoutInv, Delivering

\* A webhook that has come to its transfers does nothing else.
LEMMA TransferLast ==
  ASSUME NEW h \in Handlers, Run(h), At(h, "webhook", "transfer")
  PROVE  WebhookAnswer(h) \/ \E o \in Orders : Transfer(h, o)
  BY DEF Run, At, PayMock, PayRetrieve, PayStore, PayCreate, Webhook, WebhookCommit,
         ShipCommit, FulfilDone, FulfilCall, AutoFulfilCall, CancelCommit, SetCommit,
         Sweep, SweepCommit, SweepNoCharge, SweepGrace, SweepCancel, SweepMasterDead,
         SweepCancelFails, PastGrace

\* Where a delivery comes from: it was in progress, or it has just been opened.
LEMMA DeliveryNext ==
  ASSUME TypeInv, [Next]_vars, NEW h \in Handlers, NEW i \in Intents, Delivering(h, i)'
  PROVE  \/ Delivering(h, i) /\ (task'[h] = task[h] \/ Run(h))
         \/ WebhookStart(h, i) /\ \E p \in Payables : intentOf[p] = i /\ Awaiting(Rows, p) # {}
<1> DEFINE Goal == \/ Delivering(h, i) /\ (task'[h] = task[h] \/ Run(h))
                   \/ /\ WebhookStart(h, i)
                      /\ \E p \in Payables : intentOf[p] = i /\ Awaiting(Rows, p) # {}
<1>0. task'[h].kind = "webhook" /\ task'[h].intent = i /\ task \in [Handlers -> Tasks]
  BY DEF Delivering, TypeInv, TypeOK
<1>1. ASSUME task'[h] = task[h] PROVE Goal
  BY <1>0, <1>1 DEF Delivering
<1>2. ASSUME NEW g \in Handlers, g # h, NEW t, task' = [task EXCEPT ![g] = t] PROVE Goal
  BY <1>0, <1>1, <1>2
<1>3. ASSUME NEW g \in Handlers, Start(g) PROVE Goal
  <2>1. CASE UNCHANGED task
    BY <1>1, <2>1
  <2>2. ASSUME NEW t \in Tasks, task' = [task EXCEPT ![g] = t], OpenedFor(t),
               t.kind = "webhook" => WebhookStart(g, t.intent)
        PROVE  Goal
    <3>1. CASE g # h
      BY <1>2, <2>2, <3>1
    <3>2. CASE g = h
      <4>1. t.kind = "webhook" /\ t.intent = i
        BY <1>0, <2>2, <3>2
      <4>2. /\ t.subject \in Payables /\ intentOf[t.subject] = i
            /\ Awaiting(Rows, t.subject) # {}
        BY <2>2, <4>1 DEF OpenedFor
      <4> QED
        BY <2>2, <3>2, <4>1, <4>2
    <3> QED
      BY <3>1, <3>2
  <2> HIDE DEF Goal
  <2> QED
    BY <1>3, <2>1, <2>2, StartedBy
<1>4. ASSUME NEW g \in Handlers, Run(g) PROVE Goal
  <2>1. PICK t \in Tasks :
          /\ task' = [task EXCEPT ![g] = t]
          /\ \/ t = NoTask
             \/ t.kind = task[g].kind /\ t.intent = task[g].intent
             \/ t.kind = task[g].kind /\ \E j \in Intents : PayCreate(g, j)
    BY <1>4, RunGoesOn DEF Proceeds, GoesOn
  <2>2. CASE g = h
    <3>1. t.kind = "webhook" /\ t.intent = i
      BY <1>0, <2>1, <2>2
    <3>2. task[h].kind = "webhook" /\ task[h].intent = i
      BY <2>1, <2>2, <3>1, NoTaskType DEF PayCreate, At
    <3> QED
      BY <1>4, <2>2, <3>2 DEF Delivering
  <2> QED
    BY <1>2, <2>1, <2>2
<1>5. ASSUME NEW g \in Handlers, Crash(g) PROVE Goal
  <2>1. task' = [task EXCEPT ![g] = NoTask] /\ NoTask.kind = "idle"
    BY <1>5, NoTaskType DEF Crash, Close
  <2>2. g # h
    BY <1>0, <2>1
  <2> QED
    BY <1>2, <2>1, <2>2
<1> QED
  BY <1>1, <1>3, <1>4, <1>5 DEF Next, Confirm, Grow, vars

LEMMA RaceNext == TypeInv /\ RaceInv /\ [Next]_vars => RaceInv' /\ raced \subseteq raced'
<1> SUFFICES ASSUME TypeInv, RaceInv, [Next]_vars PROVE RaceInv' /\ raced \subseteq raced'
  OBVIOUS
<1>1. raced \subseteq raced'
  <2> USE DEF history
  <2>1. ASSUME NEW h \in Handlers, Start(h) PROVE raced \subseteq raced'
    BY <2>1 DEF Start, PayStart, WebhookStart, CancelStart, FulfilStart, SetStart,
                SweepStart
  <2>2. ASSUME NEW h \in Handlers, Run(h) PROVE raced \subseteq raced'
    BY <2>2 DEF Run, PayMock, PayRetrieve, PayStore, PayCreate, Webhook,
                WebhookCommit, WebhookAnswer, Transfer, ShipCommit, FulfilDone,
                FulfilCall, AutoFulfilCall, CancelCommit, SetCommit, Sweep,
                SweepCommit, SweepNoCharge, SweepGrace, SweepCancel,
                SweepMasterDead, SweepCancelFails
  <2> QED
    BY <2>1, <2>2 DEF Next, Crash, Confirm, Grow, vars
<1>2. ASSUME NEW g \in Handlers, NEW h \in Handlers, NEW i \in Intents, g # h,
             WebhookStart(g, i), Delivering(h, i)'
      PROVE  i \in raced'
  <2>1. task'[h] = task[h]
    BY <1>2 DEF WebhookStart, TypeInv, TypeOK
  <2> QED
    BY <1>2, <2>1 DEF WebhookStart, Delivering
<1>3. ASSUME NEW g \in Handlers, NEW h \in Handlers, NEW i \in Intents, g # h,
             Delivering(g, i)', Delivering(h, i)'
      PROVE  i \in raced'
  <2>1. Delivering(g, i) \/ WebhookStart(g, i)
    BY <1>3, DeliveryNext
  <2>2. Delivering(h, i) \/ WebhookStart(h, i)
    BY <1>3, DeliveryNext
  <2> QED
    BY <1>1, <1>2, <1>3, <2>1, <2>2 DEF RaceInv
<1> QED
  BY <1>1, <1>3 DEF RaceInv

\* A delivery that has paid out an order does not come back to it.
LEMMA OwingNext ==
  ASSUME TypeInv, ChargeInv, [Next]_vars, NEW o \in Orders, NEW i \in Intents,
         charge[i] = "succeeded", Owing(i, o)',
         \A p \in Covered(owner[i]) : status[p] # "pending_payment"
  PROVE  Owing(i, o)
<1>1. PICK h \in Handlers : /\ Delivering(h, i)'
                            /\ task'[h].step = "transfer" => o \in task'[h].todo
  BY DEF Owing
<1>2. ~\E p \in Payables : intentOf[p] = i /\ Awaiting(Rows, p) # {}
  <2> SUFFICES ASSUME NEW p \in Payables, intentOf[p] = i PROVE Awaiting(Rows, p) = {}
    OBVIOUS
  <2>1. owner[i] = p
    BY IntentAssumption DEF IntentAssumption, ChargeInv, LedgerInv
  <2> QED
    BY <2>1 DEF Awaiting, Rows
<1>3. Delivering(h, i) /\ (task'[h] = task[h] \/ Run(h))
  BY <1>1, <1>2, DeliveryNext
<1>4. CASE task[h].step # "transfer"
  BY <1>3, <1>4 DEF Owing
<1>5. CASE task[h].step = "transfer" /\ Run(h)
  <2>1. task \in [Handlers -> Tasks] /\ task'[h].kind = "webhook"
    BY <1>1 DEF TypeInv, TypeOK, Delivering
  <2>2. ~WebhookAnswer(h)
    BY <2>1, NoTaskType DEF WebhookAnswer, Close
  <2>3. PICK x \in Orders : Transfer(h, x)
    BY <1>3, <1>5, <2>2, TransferLast DEF At, Delivering
  <2>4. task'[h].step = "transfer" /\ task'[h].todo = task[h].todo \ {x}
    BY <1>5, <2>1, <2>3 DEF Transfer, Tasks
  <2> QED
    BY <1>1, <1>3, <2>4 DEF Owing
<1>6. CASE task'[h] = task[h]
  BY <1>1, <1>3, <1>6 DEF Owing
<1> QED
  BY <1>3, <1>4, <1>5, <1>6

LEMMA SpentKept ==
  ASSUME TypeInv, ViewInv, ChargeInv, PaidInv, [Next]_vars, NEW o \in Orders
  PROVE  Spent(o) \subseteq Spent(o)' /\ Succeeded(o) \subseteq Succeeded(o)'
<1>1. ASSUME NEW i \in Succeeded(o)
      PROVE  /\ i \in Succeeded(o)' /\ owner'[i] = owner[i]
             /\ i \in Intents /\ charge[i] = "succeeded" /\ owner[i] \in Payables
  BY ChargeNext DEF ChargesKept, Succeeded, Covers, ChargeInv, LedgerInv
<1>2. ASSUME NEW i \in Spent(o) PROVE i \in Spent(o)'
  <2>1. /\ i \in Succeeded(o) /\ ~Owing(i, o)
        /\ \A p \in Covered(owner[i]) : status[p] # "pending_payment"
    BY <1>2 DEF Spent
  <2>2. ~Owing(i, o)'
    BY <1>1, <2>1, OwingNext
  <2>3. Covered(owner[i]) \subseteq Orders
    BY <1>1, <2>1 DEF Covered, Payables
  <2>4. \A p \in Covered(owner'[i]) : status'[p] # "pending_payment"
    BY <1>1, <2>1, <2>3, StatusNext
  <2> QED
    BY <1>1, <2>1, <2>2, <2>4 DEF Spent
<1> QED
  BY <1>1, <1>2

\* Only a webhook at its transfers pays out, one order at a time.
LEMMA TransfersNext ==
  ASSUME TypeInv, [Next]_vars, NEW o \in Orders, transfers'[o] # transfers[o]
  PROVE  \E h \in Handlers : Transfer(h, o) /\ transfers'[o] <= transfers[o] + 1
<1> USE DEF effects
<1>0. transfers \in [Orders -> 0..MaxEffects]
  BY DEF TypeInv, TypeOK
<1>1. ASSUME NEW h \in Handlers, Start(h) PROVE transfers' = transfers
  BY <1>1 DEF Start, PayStart, WebhookStart, CancelStart, FulfilStart, SetStart,
              SweepStart
<1>2. ASSUME NEW h \in Handlers, NEW x \in Orders, Transfer(h, x)
      PROVE  x = o /\ transfers'[o] <= transfers[o] + 1
  <2>1. x \in Connected /\ transfers' = [transfers EXCEPT ![x] = Bump(@)]
    BY <1>2 DEF Transfer
  <2> QED
    BY <1>0, <2>1, BoundAssumption DEF Bump, BoundAssumption
<1>3. ASSUME NEW h \in Handlers, Run(h)
      PROVE  transfers' = transfers \/ \E x \in Orders : Transfer(h, x)
  BY <1>3 DEF Run, PayMock, PayRetrieve, PayStore, PayCreate, Webhook, WebhookCommit,
              WebhookAnswer, ShipCommit, FulfilDone, FulfilCall, AutoFulfilCall,
              CancelCommit, SetCommit, Sweep, SweepCommit, SweepNoCharge,
              SweepGrace, SweepCancel, SweepMasterDead, SweepCancelFails
<1> QED
  BY <1>1, <1>2, <1>3 DEF Next, Crash, Confirm, Grow, vars

LEMMA PayoutNext ==
  /\ TypeInv /\ ViewInv /\ ChargeInv /\ PaidInv /\ AnswerInv
  /\ RaceInv /\ PayoutInv /\ [Next]_vars
  => PayoutInv'
<1> SUFFICES ASSUME TypeInv, ViewInv, ChargeInv, PaidInv, AnswerInv, RaceInv,
                    PayoutInv, [Next]_vars,
                    NEW o \in Orders, Succeeded(o)' \cap raced' = {}
             PROVE  transfers'[o] <= Cardinality(Spent(o)')
  BY DEF PayoutInv
<1>0. TypeInv' /\ ChargeInv'
  BY TypeNext, ChargeNext
<1>1. /\ IsFiniteSet(Spent(o)) /\ IsFiniteSet(Spent(o)')
      /\ Cardinality(Spent(o)) \in Nat /\ Cardinality(Spent(o)') \in Nat
  <2>1. Succeeded(o)' \subseteq {keyed'[o], keyed'[MasterOf[o]]}
    BY <1>0 DEF Succeeded, Covers, Covered, ChargeInv, LedgerInv
  <2>2. Spent(o)' \subseteq {keyed'[o], keyed'[MasterOf[o]]}
    BY <2>1 DEF Spent
  <2>3. IsFiniteSet(Spent(o)')
    BY <2>2, TwoAtMost
  <2> QED
    BY <2>3, ChargesAreFew, FS_CardinalityType
<1>2. transfers[o] \in Nat /\ transfers'[o] \in Nat
  BY <1>0 DEF TypeInv, TypeOK
<1>3. /\ Spent(o) \subseteq Spent(o)' /\ Succeeded(o) \subseteq Succeeded(o)'
      /\ raced \subseteq raced'
  BY SpentKept, RaceNext
<1>4. transfers[o] <= Cardinality(Spent(o)) /\ Cardinality(Spent(o)) <= Cardinality(Spent(o)')
  BY <1>1, <1>3, FS_Subset DEF PayoutInv
<1>5. CASE transfers'[o] = transfers[o]
  BY <1>1, <1>2, <1>4, <1>5
<1>6. CASE transfers'[o] # transfers[o]
  <2>1. PICK h \in Handlers : Transfer(h, o) /\ transfers'[o] <= transfers[o] + 1
    BY <1>6, TransfersNext
  <2> DEFINE i == task[h].intent
             p == task[h].subject
  <2>2. /\ task[h].kind = "webhook" /\ task[h].step = "transfer" /\ o \in task[h].todo
        /\ task' = [task EXCEPT ![h].todo = @ \ {o}]
        /\ UNCHANGED <<status, charge, owner, raced>>
    BY <2>1 DEF Transfer, At, db, stripe, history
  <2>3. /\ p \in Payables /\ i \in Intents /\ charge[i] = "succeeded" /\ keyed[p] = i
        /\ p # Nobody /\ i # Nobody
    BY <2>2, TaskOf, IntentAssumption, OrderAssumption
    DEF ChargeInv, ChargeRec, IntentAssumption, OrderAssumption
  <2>4. owner[i] = p
    BY <2>3 DEF ChargeInv, LedgerInv
  <2>5. o \in Covered(p) /\ \A x \in Covered(p) : status[x] # "pending_payment"
    BY <2>2 DEF PaidInv, PaidRec, AnswerInv, MarkedRec
  <2>6. i \in Succeeded(o) /\ i \in Succeeded(o)'
    BY <2>2, <2>3, <2>4, <2>5 DEF Succeeded, Covers
  <2>7. i \notin Spent(o)
    BY <2>2, <2>3 DEF Spent, Owing, Delivering
  <2>8. ASSUME NEW g \in Handlers, Delivering(g, i)'
        PROVE  task'[g].step = "transfer" /\ o \notin task'[g].todo
    <3>1. task \in [Handlers -> Tasks] /\ task[h] \in Tasks
      BY DEF TypeInv, TypeOK
    <3>2. CASE g = h
      BY <2>2, <3>1, <3>2 DEF Tasks
    <3>3. CASE g # h
      <4>1. task'[g] = task[g]
        BY <2>2, <3>1, <3>3
      <4>2. i \in raced
        BY <2>2, <2>3, <2>8, <3>3, <4>1 DEF RaceInv, Delivering
      <4> QED
        BY <2>2, <2>6, <4>2
    <3> QED
      BY <3>2, <3>3
  <2>9. i \in Spent(o)'
    BY <2>2, <2>4, <2>5, <2>6, <2>8 DEF Spent, Owing
  <2> HIDE DEF i
  <2>10. /\ Spent(o) \cup {i} \subseteq Spent(o)'
         /\ Cardinality(Spent(o) \cup {i}) = Cardinality(Spent(o)) + 1
    BY <1>1, <1>3, <2>7, <2>9, FS_AddElement
  <2>11. Cardinality(Spent(o) \cup {i}) <= Cardinality(Spent(o)')
    BY <1>1, <2>10, FS_Subset
  <2> QED
    BY <1>1, <1>2, <1>4, <2>1, <2>10, <2>11
<1> QED
  BY <1>5, <1>6

\* A vendor is paid out for an order at most once per charge that covers it, unless
\* two deliveries of one event overlapped (order_service.py:429-480).
THEOREM PayoutsMatch == Spec => []PayoutsMatchCharges
<1> DEFINE I == /\ TypeInv /\ ViewInv /\ StockInv /\ ChargeInv /\ PaidInv /\ AnswerInv
                /\ RaceInv /\ PayoutInv
<1>1. Init => I
  BY TypeInit, ViewInit, StockInit, ChargeInit, PaidInit, AnswerInit, PayoutInit
<1>2. I /\ [Next]_vars => I'
  BY TypeNext, ViewNext, StockNext, ChargeNext, PaidNext, AnswerNext, RaceNext,
     PayoutNext DEF StockInv
<1>3. I => PayoutsMatchCharges
  <2> SUFFICES ASSUME TypeInv, ChargeInv, PayoutInv, NEW o \in Orders,
                      \A i \in Succeeded(o) : i \notin raced
               PROVE  transfers[o] <= Cardinality(Succeeded(o))
    BY DEF PayoutsMatchCharges
  <2>1. transfers[o] <= Cardinality(Spent(o)) /\ transfers[o] \in Nat
    BY DEF PayoutInv, TypeInv, TypeOK
  <2>2. /\ Cardinality(Spent(o)) \in Nat /\ Cardinality(Succeeded(o)) \in Nat
        /\ Cardinality(Spent(o)) <= Cardinality(Succeeded(o))
    BY ChargesAreFew, FS_CardinalityType
  <2> QED
    BY <2>1, <2>2
<1> QED
  BY <1>1, <1>2, <1>3, PTL DEF Spec
===============================================================================
