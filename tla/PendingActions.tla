----------------------------- MODULE PendingActions -----------------------------
(***************************************************************************)
(* What the AI may not do by itself: it stages a row, the chat shows a     *)
(* card with two buttons, and a click has the server do it, or drop it     *)
(* (copilot/page.tsx, ai-layout/page.tsx, ChatDrawer.tsx; on the server    *)
(* ai_pending_action_service.py).  The action commits its own work before  *)
(* the row is deleted.  What the action is (an order cancelled, a product  *)
(* deleted, a template published) does not matter here, nor what is said.  *)
(***************************************************************************)
EXTENDS Naturals, FiniteSets

CONSTANTS MaxActions,  \* bound: actions that the AI stages
          MaxClicks,   \* bound: clicks on the cards' buttons
          MaxFaults    \* bound: answers lost, crashes of the server

ASSUME PendingActionsAssumption ==
  MaxActions \in Nat \ {0} /\ MaxClicks \in Nat /\ MaxFaults \in Nat

VARIABLES
  isBusy, chats,  \* the drawer's flag, and the turns in progress
  card,       \* what the chat shows of each action
  resolving,  \* resolvingConfirmationId, 0 for null
  rows,       \* AIPendingAction
  overdue,    \* rows past their 15 minutes
  ran,        \* how often each action was done
  clicks,     \* requests of the two buttons
  clicked, faults,
  entangled   \* history: actions clicked while a click was in progress, or
              \* done by a server that crashed before it deleted the row

pendingVars == <<isBusy, chats, card, resolving, rows, overdue, ran, clicks,
                 clicked, faults, entangled>>

Actions == 1..MaxActions
Click(kind, a) == [kind |-> kind, action |-> a, at |-> "sent", heard |-> TRUE]
OfAction(a) == {r \in clicks : r.action = a}
Staged == {a \in Actions : card[a] # "none"} \cup rows \cup {a \in Actions : ran[a] > 0}

PendingInit ==
  /\ isBusy = FALSE /\ chats = 0
  /\ card = [a \in Actions |-> "none"] /\ resolving = 0
  /\ rows = {} /\ overdue = {} /\ ran = [a \in Actions |-> 0]
  /\ clicks = {} /\ clicked = 0 /\ faults = 0 /\ entangled = {}

-------------------------------------------------------------------------------
\* The drawer sends one message at a time; the panel's "Ask AI" does not look.
SendMessage ==
  /\ chats < 2 /\ isBusy' = TRUE /\ chats' = chats + 1
  /\ UNCHANGED <<card, resolving, rows, overdue, ran, clicks, clicked, faults,
                 entangled>>

ChatDrawer == ~isBusy /\ SendMessage
AskAI == isBusy /\ SendMessage

\* The turn may stage an action; its reply brings the card, or is lost.
TurnEnds(a) ==
  /\ chats > 0 /\ chats' = chats - 1 /\ isBusy' = FALSE
  /\ a \notin Staged /\ rows' = rows \cup {a}
  /\ \/ card' = [card EXCEPT ![a] = "open"] /\ UNCHANGED faults
     \/ faults < MaxFaults /\ faults' = faults + 1 /\ UNCHANGED card
  /\ UNCHANGED <<resolving, overdue, ran, clicks, clicked, entangled>>

TurnEndsPlain ==
  /\ chats > 0 /\ chats' = chats - 1 /\ isBusy' = FALSE
  /\ UNCHANGED <<card, resolving, rows, overdue, ran, clicks, clicked, faults,
                 entangled>>

\* The messages go, another page's are shown, or none: the rows stay.
HandleNewConversation ==
  /\ ~isBusy /\ \E a \in Actions : card[a] = "open"
  /\ card' = [a \in Actions |-> IF card[a] = "open" THEN "gone" ELSE card[a]]
  /\ UNCHANGED <<isBusy, chats, resolving, rows, overdue, ran, clicks, clicked,
                 faults, entangled>>

\* The buttons of a card are disabled while it is the one being resolved; another
\* card's click takes its place.
HandleClick(kind, a) ==
  /\ card[a] = "open" /\ resolving # a /\ clicked < MaxClicks
  /\ Click(kind, a) \notin clicks
  /\ clicked' = clicked + 1 /\ resolving' = a
  /\ clicks' = clicks \cup {Click(kind, a)}
  /\ entangled' = IF OfAction(a) # {} THEN entangled \cup {a} ELSE entangled
  /\ UNCHANGED <<isBusy, chats, card, rows, overdue, ran, faults>>

HandleConfirmPendingAction(a) == HandleClick("confirm", a)
HandleCancelPendingAction(a) == HandleClick("cancel", a)

-------------------------------------------------------------------------------
ClickTo(r, at) == clicks' = (clicks \ {r}) \cup {[r EXCEPT !.at = at]}
Chat == UNCHANGED <<isBusy, chats, card, resolving, clicked, faults, entangled>>

\* A row that is gone is a 404; one that is overdue is deleted, a 410.
LoadPendingAction(r) ==
  /\ r.at = "sent"
  /\ ClickTo(r, IF r.action \in rows \ overdue THEN "loaded" ELSE "error")
  /\ rows' = rows \ (overdue \cap {r.action})
  /\ UNCHANGED <<overdue, ran>> /\ Chat

\* The service does it and commits; or refuses, and the row stays.
PerformAction(r) ==
  /\ r.kind = "confirm" /\ r.at = "loaded"
  /\ \/ ran' = [ran EXCEPT ![r.action] = @ + 1] /\ ClickTo(r, "ran")
     \/ ClickTo(r, "error") /\ UNCHANGED ran
  /\ UNCHANGED <<rows, overdue>> /\ Chat

\* Mutant: the row of an action that was done is kept.
DropRowOfCancel(r) == IF r.kind = "cancel" THEN rows \ {r.action} ELSE rows

DropRow(r) == rows \ {r.action}

DeletePendingAction(r) ==
  /\ r.at = IF r.kind = "confirm" THEN "ran" ELSE "loaded"
  /\ rows' = DropRow(r) /\ ClickTo(r, "ok")
  /\ UNCHANGED <<overdue, ran>> /\ Chat

Expire(a) ==
  /\ a \in rows \ overdue /\ overdue' = overdue \cup {a}
  /\ UNCHANGED <<rows, ran, clicks>> /\ Chat

-------------------------------------------------------------------------------
\* The first answer that is good closes the card; an error is a toast.
ResolvePendingConfirmationInPlace(r) ==
  /\ r.at \in {"ok", "error"}
  /\ clicks' = clicks \ {r}
  /\ IF r.heard
       THEN /\ resolving' = 0
            /\ card' = IF r.at = "ok" /\ card[r.action] = "open"
                         THEN [card EXCEPT ![r.action] = IF r.kind = "confirm" THEN "done"
                                                                             ELSE "cancelled"]
                         ELSE card
       ELSE UNCHANGED <<resolving, card>>
  /\ UNCHANGED <<isBusy, chats, rows, overdue, ran, clicked, faults, entangled>>

\* The browser gives a request up that the server is still at work on.
AnswerLost(r) ==
  /\ r.heard /\ faults < MaxFaults /\ faults' = faults + 1
  /\ clicks' = (clicks \ {r}) \cup {[r EXCEPT !.heard = FALSE]}
  /\ resolving' = 0
  /\ UNCHANGED <<isBusy, chats, card, rows, overdue, ran, clicked, entangled>>

\* The server stops: what was committed stays.
Crash(r) ==
  /\ r.at \notin {"ok", "error"} /\ faults < MaxFaults /\ faults' = faults + 1
  /\ clicks' = clicks \ {r} /\ resolving' = IF r.heard THEN 0 ELSE resolving
  /\ entangled' = IF r.at = "ran" THEN entangled \cup {r.action} ELSE entangled
  /\ UNCHANGED <<isBusy, chats, card, rows, overdue, ran, clicked>>

PendingNext ==
  \/ ChatDrawer \/ AskAI \/ TurnEndsPlain \/ HandleNewConversation
  \/ \E a \in Actions : \/ TurnEnds(a) \/ Expire(a)
                        \/ HandleConfirmPendingAction(a) \/ HandleCancelPendingAction(a)
  \/ \E r \in clicks : \/ LoadPendingAction(r) \/ PerformAction(r) \/ DeletePendingAction(r)
                       \/ ResolvePendingConfirmationInPlace(r) \/ AnswerLost(r) \/ Crash(r)

PendingSpec == PendingInit /\ [][PendingNext]_pendingVars

-------------------------------------------------------------------------------
ClickRecords == [kind : {"confirm", "cancel"}, action : Actions,
                 at : {"sent", "loaded", "ran", "ok", "error"}, heard : BOOLEAN]

PendingTypeOK ==
  /\ card \in [Actions -> {"none", "open", "done", "cancelled", "gone"}]
  /\ resolving \in 0..MaxActions /\ rows \subseteq Actions /\ overdue \subseteq Actions
  /\ ran \in [Actions -> Nat] /\ clicks \subseteq ClickRecords /\ entangled \subseteq Actions

\* A card tells the truth: "Cancelled - nothing was changed" of an action that was
\* not done, "done" of one that was; and whatever answers are lost and buttons are
\* tried again, no action is done twice.  Excepted is an action that is clicked
\* while an earlier click is in progress, which a second card or a lost answer
\* makes possible, and a crash between the two commits
\* (ai_pending_action_service.py:81-136, copilot/page.tsx:58-91).
CardTellsTruth ==
  \A a \in Actions \ entangled :
    /\ card[a] = "cancelled" => ran[a] = 0
    /\ card[a] = "done" => ran[a] = 1
    /\ ran[a] <= 1
===============================================================================
