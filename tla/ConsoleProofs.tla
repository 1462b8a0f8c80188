-------------------------------- MODULE ConsoleProofs --------------------------------
(***************************************************************************)
(* Theorems about the pages of the seller's console that keep one record   *)
(* each: the assistant's cards, the product forms, the product list and    *)
(* the settings page; for every bound on what happens in them.             *)
(***************************************************************************)
EXTENDS PendingActions, ProductForms, ProductList, StoreSettings, FiniteSetTheorems,
        WellFoundedInduction, TLAPS

-------------------------------------------------------------------------------
(*****************************************************************************)
(* The assistant's cards.                                                    *)
(*****************************************************************************)

\* What is so of an action that has one click in progress at most: the row is there
\* until the action was done, and gone when the card may be closed.
Sound(a) ==
  /\ \A r, q \in clicks : r.action = a /\ q.action = a => r = q
  /\ \A r \in clicks : r.action = a =>
       /\ r.at = "loaded" => a \in rows
       /\ r.at = "ran" => r.kind = "confirm" /\ ran[a] = 1 /\ a \in rows
       /\ r.at = "ok" => a \notin rows /\ ran[a] = IF r.kind = "confirm" THEN 1 ELSE 0
       /\ card[a] # "none"
  /\ a \in rows /\ (\A r \in clicks : r.action = a => r.at # "ran") => ran[a] = 0
  /\ card[a] = "cancelled" => a \notin rows /\ ran[a] = 0
  /\ card[a] = "done" => a \notin rows /\ ran[a] = 1
  /\ ran[a] <= 1

CardInv == \A a \in Actions \ entangled : Sound(a)

-------------------------------------------------------------------------------
LEMMA ClickTyped ==
  ASSUME NEW a \in Actions, NEW k \in {"confirm", "cancel"}
  PROVE  /\ Click(k, a) \in ClickRecords /\ Click(k, a).kind = k
         /\ Click(k, a).action = a /\ Click(k, a).at = "sent"
  BY DEF Click, ClickRecords

LEMMA MovedTyped ==
  ASSUME NEW r \in ClickRecords, NEW at \in {"sent", "loaded", "ran", "ok", "error"}
  PROVE  /\ [r EXCEPT !.at = at] \in ClickRecords /\ [r EXCEPT !.at = at].at = at
         /\ [r EXCEPT !.at = at].action = r.action /\ [r EXCEPT !.at = at].kind = r.kind
  BY DEF ClickRecords

LEMMA UnheardTyped ==
  ASSUME NEW r \in ClickRecords
  PROVE  LET u == [r EXCEPT !.heard = FALSE]
         IN  u \in ClickRecords /\ u.at = r.at /\ u.action = r.action /\ u.kind = r.kind
  BY DEF ClickRecords

LEMMA PendingTyped == PendingInit => PendingTypeOK
  BY PendingActionsAssumption
  DEF PendingActionsAssumption, PendingInit, PendingTypeOK, Actions

LEMMA TypedByChat ==
  ASSUME PendingTypeOK, ChatDrawer \/ AskAI \/ TurnEndsPlain \/ HandleNewConversation
  PROVE  PendingTypeOK'
<1>1. CASE ChatDrawer \/ AskAI \/ TurnEndsPlain
  BY <1>1 DEF ChatDrawer, AskAI, SendMessage, TurnEndsPlain, PendingTypeOK
<1>2. CASE HandleNewConversation
  BY <1>2 DEF HandleNewConversation, PendingTypeOK
<1> QED
  BY <1>1, <1>2

LEMMA TypedByAction ==
  ASSUME PendingTypeOK, NEW a \in Actions,
         \/ TurnEnds(a) \/ Expire(a)
         \/ HandleConfirmPendingAction(a) \/ HandleCancelPendingAction(a)
  PROVE  PendingTypeOK'
<1>1. CASE TurnEnds(a)
  BY <1>1 DEF TurnEnds, PendingTypeOK
<1>2. CASE Expire(a)
  BY <1>2 DEF Expire, Chat, PendingTypeOK
<1>3. ASSUME NEW k \in {"confirm", "cancel"}, HandleClick(k, a)
      PROVE  PendingTypeOK'
  <2>1. a \in 0..MaxActions
    BY PendingActionsAssumption DEF PendingActionsAssumption, Actions
  <2> QED
    BY <1>3, <2>1, ClickTyped DEF HandleClick, PendingTypeOK
<1> QED
  BY <1>1, <1>2, <1>3 DEF HandleConfirmPendingAction, HandleCancelPendingAction

LEMMA TypedByClick ==
  ASSUME PendingTypeOK, NEW r \in clicks,
         \/ LoadPendingAction(r) \/ PerformAction(r) \/ DeletePendingAction(r)
         \/ ResolvePendingConfirmationInPlace(r) \/ AnswerLost(r) \/ Crash(r)
  PROVE  PendingTypeOK'
<1>a. r \in ClickRecords /\ r.action \in Actions /\ 0 \in 0..MaxActions
  BY PendingActionsAssumption DEF PendingActionsAssumption, PendingTypeOK, ClickRecords
<1>b. ASSUME NEW at \in {"sent", "loaded", "ran", "ok", "error"}, ClickTo(r, at)
      PROVE  clicks' \subseteq ClickRecords
  <2>1. [r EXCEPT !.at = at] \in ClickRecords
    BY <1>a, MovedTyped
  <2> QED
    BY <1>b, <2>1 DEF ClickTo, PendingTypeOK
<1>1. CASE LoadPendingAction(r)
  BY <1>1, <1>b DEF LoadPendingAction, Chat, PendingTypeOK
<1>2. CASE PerformAction(r)
  BY <1>a, <1>2, <1>b DEF PerformAction, Chat, PendingTypeOK
<1>3. CASE DeletePendingAction(r)
  BY <1>3, <1>b DEF DeletePendingAction, DropRow, Chat, PendingTypeOK
<1>4. CASE ResolvePendingConfirmationInPlace(r)
  BY <1>a, <1>4 DEF ResolvePendingConfirmationInPlace, PendingTypeOK
<1>5. CASE AnswerLost(r)
  BY <1>a, <1>5, UnheardTyped DEF AnswerLost, PendingTypeOK
<1>6. CASE Crash(r)
  BY <1>a, <1>6 DEF Crash, PendingTypeOK
<1> QED
  BY <1>1, <1>2, <1>3, <1>4, <1>5, <1>6

\* Type correctness: cards, rows and requests are what the chat and the server keep.
THEOREM PendingTypeCorrect == PendingSpec => []PendingTypeOK
<1>1. PendingInit => PendingTypeOK
  BY PendingTyped
<1>2. PendingTypeOK /\ [PendingNext]_pendingVars => PendingTypeOK'
  <2> SUFFICES ASSUME PendingTypeOK, [PendingNext]_pendingVars PROVE PendingTypeOK'
    OBVIOUS
  <2>1. CASE UNCHANGED pendingVars
    BY <2>1 DEF pendingVars, PendingTypeOK
  <2>2. CASE PendingNext
    BY <2>2, TypedByChat, TypedByAction, TypedByClick DEF PendingNext
  <2> QED
    BY <2>1, <2>2
<1> QED
  BY <1>1, <1>2, PTL DEF PendingSpec

-------------------------------------------------------------------------------
\* A step that leaves an action, its card, its row and its clicks alone.
LEMMA LeftAlone ==
  ASSUME NEW a, Sound(a),
         \A r \in clicks' : r.action = a => r \in clicks,
         \A r \in clicks : r.action = a => r \in clicks',
         card'[a] = card[a], ran'[a] = ran[a], a \in rows' <=> a \in rows
  PROVE  Sound(a)'
  BY DEF Sound

LEMMA CardByChat ==
  ASSUME PendingTypeOK, CardInv,
         ChatDrawer \/ AskAI \/ TurnEndsPlain \/ HandleNewConversation
  PROVE  CardInv'
<1> SUFFICES ASSUME NEW a \in Actions \ entangled' PROVE Sound(a)'
  BY DEF CardInv
<1>0. entangled' = entangled /\ Sound(a)
  BY DEF CardInv, ChatDrawer, AskAI, SendMessage, TurnEndsPlain, HandleNewConversation
<1>1. CASE ChatDrawer \/ AskAI \/ TurnEndsPlain
  <2>1. UNCHANGED <<clicks, card, ran, rows>>
    BY <1>1 DEF ChatDrawer, AskAI, SendMessage, TurnEndsPlain
  <2> QED
    BY <1>0, <2>1, LeftAlone
<1>2. CASE HandleNewConversation
  <2>1. UNCHANGED <<clicks, ran, rows>>
    BY <1>2 DEF HandleNewConversation
  <2>2. card'[a] = IF card[a] = "open" THEN "gone" ELSE card[a]
    BY <1>2 DEF HandleNewConversation
  <2> QED
    BY <1>0, <2>1, <2>2 DEF Sound
<1> QED
  BY <1>1, <1>2

LEMMA CardByAction ==
  ASSUME PendingTypeOK, CardInv, NEW b \in Actions,
         \/ TurnEnds(b) \/ Expire(b)
         \/ HandleConfirmPendingAction(b) \/ HandleCancelPendingAction(b)
  PROVE  CardInv'
<1> SUFFICES ASSUME NEW a \in Actions \ entangled' PROVE Sound(a)'
  BY DEF CardInv
<1>1. CASE TurnEnds(b)
  <2>0. Sound(a)
    BY <1>1 DEF CardInv, TurnEnds
  <2>1. UNCHANGED <<clicks, ran>> /\ rows' = rows \cup {b}
    BY <1>1 DEF TurnEnds
  <2>2. card' \in {card, [card EXCEPT ![b] = "open"]}
    BY <1>1 DEF TurnEnds
  <2>3. card[b] = "none" /\ ~(ran[b] > 0) /\ ran[b] \in Nat
    BY <1>1 DEF TurnEnds, Staged, PendingTypeOK
  <2>4. CASE a # b
    <3>1. card'[a] = card[a]
      BY <2>2, <2>4 DEF PendingTypeOK
    <3> QED
      BY <2>0, <2>1, <2>4, <3>1, LeftAlone
  <2>5. CASE a = b
    <3>1. card'[a] \in {"none", "open"}
      BY <2>2, <2>3, <2>5 DEF PendingTypeOK
    <3>2. ran'[a] = 0
      BY <2>1, <2>3, <2>5
    <3>3. \A r \in clicks' : r.action # a
      BY <2>0, <2>1, <2>3, <2>5 DEF Sound
    <3> QED
      BY <3>1, <3>2, <3>3 DEF Sound
  <2> QED
    BY <2>4, <2>5
<1>2. CASE Expire(b)
  <2>1. UNCHANGED <<clicks, card, ran, rows, entangled>>
    BY <1>2 DEF Expire, Chat
  <2> QED
    BY <2>1, LeftAlone DEF CardInv
<1>3. ASSUME NEW k \in {"confirm", "cancel"}, HandleClick(k, b)
      PROVE  Sound(a)'
  <2>1. /\ clicks' = clicks \cup {Click(k, b)} /\ card[b] = "open"
        /\ entangled' = IF OfAction(b) # {} THEN entangled \cup {b} ELSE entangled
        /\ UNCHANGED <<card, rows, ran>>
    BY <1>3 DEF HandleClick
  <2>2. Sound(a)
    BY <2>1 DEF CardInv
  <2>3. CASE a # b
    BY <2>1, <2>2, <2>3, ClickTyped, LeftAlone
  <2>4. CASE a = b
    <3>1. \A r \in clicks : r.action # a
      BY <2>1, <2>4 DEF OfAction
    <3>2. \A r \in clicks' : r.action = a => r = Click(k, b) /\ r.at = "sent"
      BY <2>1, <3>1, ClickTyped
    <3> QED
      BY <2>1, <2>2, <2>4, <3>1, <3>2 DEF Sound
  <2> QED
    BY <2>3, <2>4
<1> QED
  BY <1>1, <1>2, <1>3 DEF HandleConfirmPendingAction, HandleCancelPendingAction

\* A click goes on: it is the only one of its action, before and after.
LEMMA OnlyClick ==
  ASSUME NEW r \in clicks, NEW s, s.action = r.action,
         clicks' \subseteq (clicks \ {r}) \cup {s}, Sound(r.action)
  PROVE  /\ \A q \in clicks : q.action = r.action => q = r
         /\ \A q \in clicks' : q.action = r.action => q = s
  BY DEF Sound

\* The other actions are left alone by what a click does.
LEMMA OtherAction ==
  ASSUME NEW r \in clicks, NEW a, Sound(a), a # r.action, NEW s, s.action = r.action,
         clicks' = clicks \ {r} \/ clicks' = (clicks \ {r}) \cup {s},
         card'[a] = card[a], ran'[a] = ran[a], a \in rows' <=> a \in rows
  PROVE  Sound(a)'
  BY LeftAlone

LEMMA ClickGoesOn ==
  ASSUME PendingTypeOK, CardInv, NEW r \in clicks, NEW at \in {"loaded", "ran", "ok", "error"},
         ClickTo(r, at), UNCHANGED <<card, entangled>>,
         \A b \in Actions \ {r.action} : ran'[b] = ran[b] /\ (b \in rows' <=> b \in rows),
         Sound(r.action) =>
           /\ at = "loaded" => r.action \in rows'
           /\ at = "ran" => r.kind = "confirm" /\ ran'[r.action] = 1 /\ r.action \in rows'
           /\ at = "ok" => /\ r.action \notin rows'
                           /\ ran'[r.action] = IF r.kind = "confirm" THEN 1 ELSE 0
           /\ r.action \in rows' /\ at # "ran" => ran'[r.action] = 0
           /\ card[r.action] = "cancelled" => r.action \notin rows' /\ ran'[r.action] = 0
           /\ card[r.action] = "done" => r.action \notin rows' /\ ran'[r.action] = 1
           /\ ran'[r.action] <= 1
  PROVE  CardInv'
<1> SUFFICES ASSUME NEW a \in Actions \ entangled' PROVE Sound(a)'
  BY DEF CardInv
<1> DEFINE s == [r EXCEPT !.at = at]
<1>0. Sound(a)
  BY DEF CardInv
<1>1. r \in ClickRecords /\ r.action \in Actions
  BY DEF PendingTypeOK, ClickRecords
<1>2. s.at = at /\ s.action = r.action /\ s.kind = r.kind
  BY <1>1, MovedTyped
<1>3. clicks' = (clicks \ {r}) \cup {s}
  BY DEF ClickTo
<1> HIDE DEF s
<1>4. CASE a # r.action
  BY <1>0, <1>2, <1>3, <1>4, OtherAction
<1>5. CASE a = r.action
  <2>1. /\ \A q \in clicks' : q.action = a => q = s
        /\ s \in clicks'
    BY <1>0, <1>2, <1>3, <1>5, OnlyClick
  <2>2. card'[a] # "none"
    BY <1>0, <1>5 DEF Sound
  <2> QED
    BY <1>0, <1>2, <1>5, <2>1, <2>2 DEF Sound
<1> QED
  BY <1>4, <1>5

LEMMA CardByServer ==
  ASSUME PendingTypeOK, CardInv, NEW r \in clicks,
         LoadPendingAction(r) \/ PerformAction(r) \/ DeletePendingAction(r)
  PROVE  CardInv'
<1> DEFINE a == r.action
<1>0. UNCHANGED <<card, entangled>>
  BY DEF LoadPendingAction, PerformAction, DeletePendingAction, Chat
<1>1. a \in Actions /\ ran[a] \in Nat
  BY DEF PendingTypeOK, ClickRecords
<1>2. \A b \in Actions \ {a} : ran'[b] = ran[b] /\ (b \in rows' <=> b \in rows)
  BY DEF LoadPendingAction, PerformAction, DeletePendingAction, DropRow, PendingTypeOK
<1>3. ASSUME Sound(a)
      PROVE  /\ \A q \in clicks : q.action = a => q = r
             /\ r.at = "loaded" => a \in rows
             /\ r.at = "ran" => r.kind = "confirm" /\ ran[a] = 1 /\ a \in rows
             /\ r.at # "ran" /\ a \in rows => ran[a] = 0
             /\ card[a] = "cancelled" => a \notin rows /\ ran[a] = 0
             /\ card[a] = "done" => a \notin rows /\ ran[a] = 1
             /\ ran[a] <= 1
  BY <1>3 DEF Sound
<1>4. CASE LoadPendingAction(r)
  <2>1. r.at = "sent" /\ ran' = ran /\ rows' = rows \ (overdue \cap {a})
    BY <1>4 DEF LoadPendingAction
  <2>2. CASE a \in rows \ overdue
    <3>1. ClickTo(r, "loaded") /\ a \in rows'
      BY <1>4, <2>1, <2>2 DEF LoadPendingAction
    <3> QED
      BY <1>0, <1>1, <1>2, <1>3, <2>1, <3>1, ClickGoesOn
  <2>3. CASE a \notin rows \ overdue
    <3>1. ClickTo(r, "error") /\ a \notin rows'
      BY <1>4, <2>1, <2>3 DEF LoadPendingAction
    <3> QED
      BY <1>0, <1>1, <1>2, <1>3, <2>1, <3>1, ClickGoesOn
  <2> QED
    BY <2>2, <2>3
<1>5. CASE PerformAction(r)
  <2>1. r.at = "loaded" /\ rows' = rows /\ r.kind = "confirm"
    BY <1>5 DEF PerformAction
  <2>2. CASE ran' = [ran EXCEPT ![a] = @ + 1] /\ ClickTo(r, "ran")
    <3>1. ran'[a] = ran[a] + 1
      BY <1>1, <2>2 DEF PendingTypeOK
    <3> QED
      BY <1>0, <1>1, <1>2, <1>3, <2>1, <2>2, <3>1, ClickGoesOn
  <2>3. CASE ran' = ran /\ ClickTo(r, "error")
    BY <1>0, <1>1, <1>2, <1>3, <2>1, <2>3, ClickGoesOn
  <2> QED
    BY <1>5, <2>2, <2>3 DEF PerformAction
<1>6. CASE DeletePendingAction(r)
  <2>1. /\ r.at = (IF r.kind = "confirm" THEN "ran" ELSE "loaded") /\ ran' = ran
        /\ rows' = rows \ {a} /\ ClickTo(r, "ok")
    BY <1>6 DEF DeletePendingAction, DropRow
  <2> QED
    BY <1>0, <1>1, <1>2, <1>3, <2>1, ClickGoesOn
<1> QED
  BY <1>4, <1>5, <1>6

LEMMA CardByAnswer ==
  ASSUME PendingTypeOK, CardInv, NEW r \in clicks,
         ResolvePendingConfirmationInPlace(r) \/ AnswerLost(r) \/ Crash(r)
  PROVE  CardInv'
<1> SUFFICES ASSUME NEW a \in Actions \ entangled' PROVE Sound(a)'
  BY DEF CardInv
<1>0. UNCHANGED <<ran, rows>> /\ a \notin entangled /\ Sound(a)
  BY DEF CardInv, ResolvePendingConfirmationInPlace, AnswerLost, Crash
<1>a. r \in ClickRecords /\ r.action \in Actions
  BY DEF PendingTypeOK, ClickRecords
<1>1. CASE ResolvePendingConfirmationInPlace(r)
  <2>1. clicks' = clicks \ {r} /\ r.at \in {"ok", "error"}
    BY <1>1 DEF ResolvePendingConfirmationInPlace
  <2>2. \/ card' = card
        \/ /\ r.at = "ok"
           /\ card' = [card EXCEPT ![r.action] = IF r.kind = "confirm" THEN "done"
                                                                      ELSE "cancelled"]
    BY <1>1 DEF ResolvePendingConfirmationInPlace
  <2>3. CASE a # r.action
    <3>1. card'[a] = card[a]
      BY <2>2, <2>3 DEF PendingTypeOK
    <3> QED
      BY <1>0, <2>1, <2>3, <3>1, OtherAction
  <2>4. CASE a = r.action
    <3>1. \A q \in clicks' : q.action # a
      BY <1>0, <2>1, <2>4 DEF Sound
    <3>2. a \in rows => ran[a] = 0
      <4>1. \A q \in clicks : q.action = a => q.at # "ran"
        BY <1>0, <2>1, <2>4 DEF Sound
      <4> QED
        BY <1>0, <4>1 DEF Sound
    <3>3. CASE card' = card
      BY <1>0, <3>1, <3>2, <3>3 DEF Sound
    <3>4. CASE card' # card
      <4>1. /\ a \notin rows /\ ran[a] = IF r.kind = "confirm" THEN 1 ELSE 0
            /\ card'[a] = IF r.kind = "confirm" THEN "done" ELSE "cancelled"
        BY <1>0, <2>2, <2>4, <3>4 DEF Sound, PendingTypeOK
      <4> QED
        BY <1>0, <3>1, <4>1 DEF Sound
    <3> QED
      BY <3>3, <3>4
  <2> QED
    BY <2>3, <2>4
<1>2. CASE AnswerLost(r)
  <2> DEFINE s == [r EXCEPT !.heard = FALSE]
  <2>1. clicks' = (clicks \ {r}) \cup {s} /\ card' = card
    BY <1>2 DEF AnswerLost
  <2>2. s.at = r.at /\ s.action = r.action /\ s.kind = r.kind
    BY <1>a, UnheardTyped
  <2> HIDE DEF s
  <2>3. CASE a # r.action
    BY <1>0, <2>1, <2>2, <2>3, OtherAction
  <2>4. CASE a = r.action
    <3>1. /\ \A q \in clicks : q.action = a => q = r
          /\ \A q \in clicks' : q.action = a => q = s
          /\ s \in clicks'
      BY <1>0, <2>1, <2>2, <2>4, OnlyClick
    <3> QED
      BY <1>0, <2>1, <2>2, <2>4, <3>1 DEF Sound
  <2> QED
    BY <2>3, <2>4
<1>3. CASE Crash(r)
  <2>1. clicks' = clicks \ {r} /\ card' = card /\ (r.at = "ran" => r.action \in entangled')
    BY <1>3 DEF Crash
  <2>2. CASE a # r.action
    BY <1>0, <2>1, <2>2, OtherAction
  <2>3. CASE a = r.action
    <3>1. \A q \in clicks' : q.action # a
      BY <1>0, <2>1, <2>3 DEF Sound
    <3>2. \A q \in clicks : q.action = a => q.at # "ran"
      BY <1>0, <2>1, <2>3 DEF Sound
    <3> QED
      BY <1>0, <2>1, <3>1, <3>2 DEF Sound
  <2> QED
    BY <2>2, <2>3
<1> QED
  BY <1>1, <1>2, <1>3

\* However often answers are lost, buttons are tried again and rows run out, a card that
\* says "cancelled" is of an action that was not done, one that says "done" of one that
\* was, and no action is done twice (ai_pending_action_service.py:81-136).
THEOREM CardsTellTheTruth == PendingSpec => []CardTellsTruth
<1>1. PendingInit => CardInv
  BY DEF PendingInit, CardInv, Sound
<1>2. PendingTypeOK /\ CardInv /\ [PendingNext]_pendingVars => CardInv'
  <2> SUFFICES ASSUME PendingTypeOK, CardInv, [PendingNext]_pendingVars PROVE CardInv'
    OBVIOUS
  <2>1. CASE UNCHANGED pendingVars
    BY <2>1 DEF pendingVars, CardInv, Sound
  <2>2. CASE PendingNext
    BY <2>2, CardByChat, CardByAction, CardByServer, CardByAnswer DEF PendingNext
  <2> QED
    BY <2>1, <2>2
<1>3. PendingTypeOK /\ CardInv => CardTellsTruth
  BY DEF CardInv, Sound, CardTellsTruth
<1> QED
  BY <1>1, <1>2, <1>3, PendingTypeCorrect, PTL DEF PendingSpec

-------------------------------------------------------------------------------
(*****************************************************************************)
(* The product forms.                                                        *)
(*****************************************************************************)

\* What a form or the assistant may ask for; a form asks for all fields at once, but for
\* the description, which a new product may do without.
WriteTyped(w) ==
  /\ DOMAIN w.payload \subseteq Fields
  /\ w.kind = "create" /\ w.at \in {"sent", "read"}
       => Fields \ {"desc"} \subseteq DOMAIN w.payload
  /\ w.at = "read" => DOMAIN w.before = Fields

FormsInv == ProductFormsTypeOK /\ \A w \in writes : WriteTyped(w)

-------------------------------------------------------------------------------
LEMMA Joined ==
  ASSUME NEW f, NEW g, NEW h, h = Over(f, g)
  PROVE  DOMAIN h = DOMAIN f \cup DOMAIN g
  BY DEF Over

LEMMA BlankTyped == DOMAIN Blank = Fields
  BY DEF Blank, Product, Fields

LEMMA RuleTyped ==
  ASSUME NEW a \in BOOLEAN, NEW b \in BOOLEAN, NEW L \in {{"he"}, {"en", "he"}, Languages}
  PROVE  [require |-> a, force |-> b, langs |-> L] \in Rule
  BY DEF Rule

LEMMA FormsInitially == ProductFormsInit => FormsInv
<1> SUFFICES ASSUME ProductFormsInit PROVE FormsInv
  OBVIOUS
<1>1. Default \in Rule
  BY RuleTyped DEF Default
<1>2. HebrewOnly \in Rule
  BY RuleTyped DEF HebrewOnly
<1>3. rule \in Rule /\ seen \in Rule
  BY <1>1, <1>2 DEF ProductFormsInit
<1>4. DOMAIN product = Fields /\ DOMAIN values = Fields
  BY DEF ProductFormsInit, Blank, Product, Fields
<1>5. stock = 1 /\ uploading = {} /\ formLoading = FALSE /\ writes = {}
  BY DEF ProductFormsInit
<1>6. stock \in 0..1
  BY <1>5
<1>7. uploading \subseteq {"image", "file"}
  BY <1>5
<1>8. formLoading \in BOOLEAN
  BY <1>5
<1>9. ProductFormsTypeOK
  BY <1>3, <1>4, <1>6, <1>7, <1>8 DEF ProductFormsTypeOK
<1> QED
  BY <1>5, <1>9 DEF FormsInv

\* The fields of the form: the server and the requests are left alone.
LEMMA FormsByPage ==
  ASSUME FormsInv, Server, UNCHANGED writes,
         seen' \in Rule, DOMAIN values' = Fields, uploading' \subseteq {"image", "file"},
         formLoading' \in BOOLEAN
  PROVE  FormsInv'
  BY DEF FormsInv, Server, ProductFormsTypeOK, WriteTyped

LEMMA PayloadsTyped ==
  /\ DOMAIN NewPayload \subseteq Fields /\ Fields \ {"desc"} \subseteq DOMAIN NewPayload
  /\ DOMAIN EditPayload \subseteq Fields
<1>0. DOMAIN <<>> = {}
  OBVIOUS
<1> DEFINE n == [name |-> Filled(values.name)]
           d == [desc |-> Filled(values.desc)]
           asked == values.desc \cap ({"en", "he"} \cup ExtraLangs) # {} \/ CompletenessSeen
           m == IF asked THEN d ELSE <<>>
           t == BuildProductI18nFields
           o == Over(t, Options)
           i == [image |-> values.image]
           j == IF values.image THEN [image |-> TRUE] ELSE <<>>
<1>1. DOMAIN n = {"name"} /\ DOMAIN m \subseteq {"desc"}
  BY <1>0
<1>2. DOMAIN i = {"image"} /\ DOMAIN j \subseteq {"image"}
  BY <1>0
<1>3. DOMAIN Options = {"digital", "file", "active"}
  BY DEF Options
<1>4. t = Over(n, m) /\ NewPayload = Over(o, i) /\ EditPayload = Over(o, j)
  BY DEF BuildProductI18nFields, NewPayload, EditPayload
<1> HIDE DEF n, m, i, j, t
<1>5. DOMAIN t = DOMAIN n \cup DOMAIN m
  BY <1>4, Joined
<1>6. DOMAIN o = DOMAIN t \cup DOMAIN Options
  BY Joined
<1> HIDE DEF o
<1>7. DOMAIN NewPayload = DOMAIN o \cup DOMAIN i
  BY <1>4, Joined
<1>8. DOMAIN EditPayload = DOMAIN o \cup DOMAIN j
  BY <1>4, Joined
<1> QED
  BY <1>1, <1>2, <1>3, <1>5, <1>6, <1>7, <1>8 DEF Fields

\* Requests that a page leaves, that are asked anew or that are answered.
LEMMA SentTyped ==
  ASSUME NEW k, NEW p, NEW h, DOMAIN p \subseteq Fields,
         k = "create" => Fields \ {"desc"} \subseteq DOMAIN p
  PROVE  WriteTyped(Write(k, p, h))
  BY DEF Write, WriteTyped

LEMMA AnsweredTyped ==
  ASSUME NEW k, NEW at \in {"ok", "error"}
  PROVE  WriteTyped([Write(k, <<>>, TRUE) EXCEPT !.at = at])
  BY DEF Write, WriteTyped
LEMMA Unheard ==
  ASSUME NEW w, WriteTyped(w)
  PROVE  WriteTyped([w EXCEPT !.heard = FALSE])
  BY DEF WriteTyped

\* The page's own steps.
LEMMA FormsByTyping ==
  ASSUME FormsInv,
         \/ TypeImage \/ TickDigital \/ RemoveFile \/ TickActive
         \/ \E l \in Languages : TypeName(l) \/ TypeDescription(l)
  PROVE  FormsInv'
<1>1. \A f, x : DOMAIN [values EXCEPT ![f] = x] = Fields
  BY DEF FormsInv, ProductFormsTypeOK
<1>2. ASSUME NEW new, DOMAIN new = Fields, Type(new) PROVE FormsInv'
  BY <1>2, FormsByPage DEF Type, FormsInv, ProductFormsTypeOK
<1> QED
  BY <1>1, <1>2 DEF TypeImage, TickDigital, RemoveFile, TickActive, TypeName, TypeDescription

LEMMA FormsByUpload ==
  ASSUME FormsInv, ConfigAnswers \/ \E f \in {"image", "file"} : HandleUpload(f) \/ Uploaded(f)
  PROVE  FormsInv'
<1>1. CASE ConfigAnswers
  BY <1>1, FormsByPage DEF ConfigAnswers, Server, FormsInv, ProductFormsTypeOK
<1>2. ASSUME NEW f \in {"image", "file"}, HandleUpload(f) PROVE FormsInv'
  BY <1>2, FormsByPage DEF HandleUpload, FormsInv, ProductFormsTypeOK
<1>3. ASSUME NEW f \in {"image", "file"}, Uploaded(f) PROVE FormsInv'
  BY <1>3, FormsByPage DEF Uploaded, FormsInv, ProductFormsTypeOK
<1> QED
  BY <1>1, <1>2, <1>3

LEMMA LeftTyped ==
  ASSUME FormsInv
  PROVE  \A w \in Left : WriteTyped(w)
  BY Unheard DEF Left, FormsInv

LEMMA FormsByVisit ==
  ASSUME FormsInv, NEW page, Visit(page)
  PROVE  FormsInv'
<1>1. DOMAIN values' = Fields /\ writes' = Left /\ uploading' = {} /\ formLoading' = FALSE
      /\ UNCHANGED <<rule, seen, stock, product>>
  BY BlankTyped DEF Visit, Server, FormsInv, ProductFormsTypeOK
<1> QED
  BY <1>1, LeftTyped DEF FormsInv, ProductFormsTypeOK, WriteTyped

LEMMA FormsBySubmit ==
  ASSUME FormsInv, SubmitNew \/ SubmitEdit \/ AssistantWrite
  PROVE  FormsInv'
<1>1. ASSUME NEW k \in {"create", "update"}, NEW p, DOMAIN p \subseteq Fields,
             k = "create" => Fields \ {"desc"} \subseteq DOMAIN p, NEW h \in BOOLEAN,
             writes' \subseteq writes \cup {Write(k, p, h)}, formLoading' \in BOOLEAN,
             Server, UNCHANGED <<form, values, seen, uploading>>
      PROVE  FormsInv'
  BY <1>1, SentTyped DEF FormsInv, ProductFormsTypeOK, Server, WriteTyped
<1>2. CASE SubmitNew
  <2>1. /\ writes' \subseteq writes \cup {Write("create", NewPayload, TRUE)}
        /\ formLoading' \in BOOLEAN /\ Server /\ UNCHANGED <<form, values, seen, uploading>>
    BY <1>2 DEF SubmitNew, Submit, FormsInv, ProductFormsTypeOK
  <2> QED
    BY <1>1, <2>1, PayloadsTyped
<1>3. CASE SubmitEdit
  <2>1. /\ writes' \subseteq writes \cup {Write("update", EditPayload, TRUE)}
        /\ formLoading' \in BOOLEAN /\ Server /\ UNCHANGED <<form, values, seen, uploading>>
    BY <1>3 DEF SubmitEdit, Submit, FormsInv, ProductFormsTypeOK
  <2> QED
    BY <1>1, <2>1, PayloadsTyped
<1>4. CASE AssistantWrite
  <2>1. PICK f \in {"name", "desc", "image", "digital", "active"}, v \in (SUBSET Languages) \cup BOOLEAN : AssistantWrites(f, v)
    BY <1>4 DEF AssistantWrite
  <2> DEFINE p == [x \in {f} |-> v]
  <2>2. DOMAIN p \subseteq Fields
    BY DEF Fields
  <2>3. writes' \subseteq writes \cup {Write("update", p, FALSE)}
        /\ Server /\ UNCHANGED <<form, values, seen, uploading, formLoading>>
    BY <2>1 DEF AssistantWrites
  <2>4. formLoading' \in BOOLEAN
    BY <2>3 DEF FormsInv, ProductFormsTypeOK
  <2> HIDE DEF p
  <2> QED
    BY <1>1, <2>2, <2>3, <2>4
<1> QED
  BY <1>2, <1>3, <1>4

-------------------------------------------------------------------------------
\* The server, which leaves the page alone.
LEMMA FormsByServer ==
  ASSUME FormsInv, Page, rule' \in Rule, DOMAIN product' = Fields, stock' \in 0..1,
         \A w \in writes' : w \in writes \/ WriteTyped(w)
  PROVE  FormsInv'
  BY DEF FormsInv, Page, ProductFormsTypeOK, WriteTyped

LEMMA AnswerTyped ==
  ASSUME NEW v, NEW at \in {"ok", "error"}, Answer(v, at)
  PROVE  \A w \in writes' : w \in writes \/ WriteTyped(w)
  BY AnsweredTyped DEF Answer

LEMMA CreatedTyped ==
  ASSUME FormsInv, NEW w \in writes, CreateProduct(w)
  PROVE  FormsInv'
<1> DEFINE d == [desc |-> {}]
           p == Over(w.payload, d)
<1>1. /\ w.at = "read" /\ w.kind = "create" /\ product' = p /\ UNCHANGED rule /\ Page
      /\ stock' = (IF p.digital THEN 0 ELSE 1) /\ Answer(w, "ok")
  BY DEF CreateProduct
<1>2. DOMAIN d = {"desc"}
  OBVIOUS
<1>3. WriteTyped(w)
  BY DEF FormsInv
<1> HIDE DEF d
<1>4. DOMAIN p = DOMAIN w.payload \cup DOMAIN d
  BY Joined
<1>5. DOMAIN product' = Fields
  BY <1>1, <1>2, <1>3, <1>4 DEF WriteTyped, Fields
<1>6. rule' \in Rule /\ stock' \in 0..1
  BY <1>1 DEF FormsInv, ProductFormsTypeOK
<1> QED
  BY <1>1, <1>5, <1>6, FormsByServer, AnswerTyped

LEMMA FormsByWrite ==
  ASSUME FormsInv, NEW w \in writes,
         \/ ReadProduct(w) \/ Refuse(w) \/ CreateProduct(w) \/ UpdateProduct(w)
         \/ UpdateProductVariant(w)
  PROVE  FormsInv'
<1>a. rule \in Rule /\ DOMAIN product = Fields /\ stock \in 0..1 /\ WriteTyped(w)
  BY DEF FormsInv, ProductFormsTypeOK
<1>1. CASE ReadProduct(w)
  <2> DEFINE r == [w EXCEPT !.at = "read", !.rule = rule, !.before = product]
  <2>1. WriteTyped(r)
    BY <1>a, <1>1 DEF ReadProduct, WriteTyped
  <2>2. /\ \A v \in writes' : v \in writes \/ v = r
        /\ UNCHANGED <<rule, product, stock>> /\ Page
    BY <1>1 DEF ReadProduct, WriteTo
  <2> QED
    BY <1>a, <2>1, <2>2, FormsByServer
<1>2. CASE Refuse(w)
  <2>1. Answer(w, "error") /\ UNCHANGED <<rule, product, stock>> /\ Page
    BY <1>2 DEF Refuse
  <2> QED
    BY <1>a, <2>1, AnswerTyped, FormsByServer
<1>3. CASE CreateProduct(w)
  BY <1>3, CreatedTyped
<1>4. CASE UpdateProduct(w)
  <2>1. Answer(w, "ok") /\ rule' = rule /\ Page /\ stock' \in {0, stock}
    BY <1>4 DEF UpdateProduct
  <2>2. DOMAIN product' = Fields
    BY <1>4 DEF UpdateProduct
  <2> QED
    BY <1>a, <2>1, <2>2, AnswerTyped, FormsByServer
<1>5. CASE UpdateProductVariant(w)
  <2>1. Answer(w, "ok") /\ UNCHANGED <<rule, product>> /\ Page /\ stock' \in {0, 1}
    BY <1>5 DEF UpdateProductVariant
  <2> QED
    BY <1>a, <2>1, AnswerTyped, FormsByServer
<1> QED
  BY <1>1, <1>2, <1>3, <1>4, <1>5

LEMMA RuleChanged ==
  ASSUME rule \in Rule, NEW a \in BOOLEAN, NEW L \in {{"he"}, {"en", "he"}, Languages}
  PROVE  /\ [rule EXCEPT !.require = a, !.langs = L] \in Rule
         /\ [rule EXCEPT !.force = a] \in Rule
  BY DEF Rule

LEMMA FormsByDemand ==
  ASSUME FormsInv, ForceCompleteness \/ \E r \in Rule : ChangeSettings(r.require, r.langs)
  PROVE  FormsInv'
<1>a. rule \in Rule /\ DOMAIN product = Fields
  BY DEF FormsInv, ProductFormsTypeOK
<1>1. ASSUME NEW new \in Rule, Demand(new) PROVE FormsInv'
  <2>1. /\ rule' = new /\ product' \in {product, [product EXCEPT !.active = FALSE]}
        /\ UNCHANGED <<stock, values, seen, uploading, formLoading, writes>>
    BY <1>1 DEF Demand, DeactivateIncomplete
  <2>2. DOMAIN product' = Fields
    BY <1>a, <2>1
  <2> QED
    BY <2>1, <2>2 DEF FormsInv, ProductFormsTypeOK, WriteTyped
<1>2. CASE ForceCompleteness
  <2>1. [rule EXCEPT !.force = ~@] \in Rule
    BY <1>a DEF Rule
  <2> QED
    BY <1>1, <1>2, <2>1 DEF ForceCompleteness
<1>3. ASSUME NEW r \in Rule, ChangeSettings(r.require, r.langs) PROVE FormsInv'
  <2> DEFINE a == IF rule.force THEN rule.require ELSE r.require
  <2>1. a \in BOOLEAN /\ r.langs \in {{"he"}, {"en", "he"}, Languages}
    BY <1>a DEF Rule
  <2>2. Demand([rule EXCEPT !.require = a, !.langs = r.langs])
    BY <1>3 DEF ChangeSettings
  <2> HIDE DEF a
  <2> QED
    BY <1>a, <1>1, <2>1, <2>2, RuleChanged
<1> QED
  BY <1>2, <1>3

LEMMA FormsByAnswer ==
  ASSUME FormsInv, NEW w \in writes, Saved(w) \/ SaveVariant(w) \/ Failed(w)
  PROVE  FormsInv'
<1>1. CASE Saved(w)
  BY <1>1, LeftTyped, BlankTyped
  DEF Saved, Server, FormsInv, ProductFormsTypeOK, WriteTyped
<1>2. CASE SaveVariant(w)
  <2>1. WriteTyped(Write("variant", <<>>, TRUE))
    <3>1. DOMAIN <<>> = {}
      OBVIOUS
    <3> QED
      BY <3>1, SentTyped
  <2>2. /\ \A v \in writes' : v \in writes \/ WriteTyped(v)
        /\ UNCHANGED <<rule, seen, stock, product, values, uploading, formLoading>>
    BY <1>2, <2>1 DEF SaveVariant, WriteTo, Server
  <2> QED
    BY <2>2 DEF FormsInv, ProductFormsTypeOK, WriteTyped
<1>3. CASE Failed(w)
  <2>1. WriteTyped([w EXCEPT !.heard = FALSE])
    BY Unheard DEF FormsInv
  <2>2. /\ \A v \in writes' : v \in writes \/ WriteTyped(v)
        /\ formLoading' = FALSE /\ UNCHANGED <<rule, seen, stock, product, values, uploading>>
    BY <1>3, <2>1 DEF Failed, Server
  <2> QED
    BY <2>2 DEF FormsInv, ProductFormsTypeOK, WriteTyped
<1> QED
  BY <1>1, <1>2, <1>3

LEMMA FormsKept == FormsInv /\ [ProductFormsNext]_formVars => FormsInv'
<1> SUFFICES ASSUME FormsInv, [ProductFormsNext]_formVars PROVE FormsInv'
  OBVIOUS
<1>1. CASE UNCHANGED formVars
  BY <1>1 DEF formVars, FormsInv, ProductFormsTypeOK, WriteTyped
<1>2. CASE ProductFormsNext
  BY <1>2, FormsByTyping, FormsByUpload, FormsByVisit, FormsBySubmit, FormsByWrite,
     FormsByDemand, FormsByAnswer DEF ProductFormsNext
<1> QED
  BY <1>1, <1>2

LEMMA FormsAlways == ProductFormsSpec => []FormsInv
  BY FormsInitially, FormsKept, PTL DEF ProductFormsSpec

\* Type correctness: whatever a form leaves out or the assistant sends alone, the row
\* that is kept has all its fields.
THEOREM ProductFormsTypeCorrect == ProductFormsSpec => []ProductFormsTypeOK
<1>1. FormsInv => ProductFormsTypeOK
  BY DEF FormsInv
<1> QED
  BY <1>1, FormsAlways, PTL

-------------------------------------------------------------------------------
\* A product that was accepted by the rule as it is read, and a rule that takes an
\* incomplete product off sale, leave what is on sale complete.
LEMMA CompleteByCreate ==
  ASSUME FormsInv, NEW w \in writes, CreateProduct(w)
  PROVE  OnSaleIsComplete'
<1>1. Accepts(w.rule, product') /\ rule' = rule /\ (~crossed' => rule = w.rule)
  BY DEF CreateProduct
<1> QED
  BY <1>1 DEF Accepts, OnSaleIsComplete

LEMMA CompleteByUpdate ==
  ASSUME FormsInv, NEW w \in writes, UpdateProduct(w)
  PROVE  OnSaleIsComplete'
<1> DEFINE set == Over(w.payload, w.before)
           p == IF set.digital THEN set ELSE [set EXCEPT !.file = FALSE]
<1>1. /\ Accepts(w.rule, p) /\ rule' = rule
      /\ product' = [f \in Fields |-> IF p[f] # w.before[f] THEN p[f] ELSE product[f]]
      /\ crossed' = (crossed \/ rule # w.rule \/ product # w.before)
  BY DEF UpdateProduct
<1> HIDE DEF p
<1> SUFFICES ASSUME ~crossed' PROVE OnSaleIsComplete'
  BY DEF OnSaleIsComplete
<1>2. rule = w.rule /\ product = w.before
  BY <1>1
<1>3. \A f \in Fields : product'[f] = p[f]
  BY <1>1, <1>2
<1>4. /\ product'.name = p.name /\ product'.desc = p.desc /\ product'.image = p.image
      /\ product'.digital = p.digital /\ product'.file = p.file /\ product'.active = p.active
  BY <1>3 DEF Fields
<1>5. \A L : ProductCompletenessGaps(product', L) = ProductCompletenessGaps(p, L)
  BY <1>4 DEF ProductCompletenessGaps
<1> QED
  BY <1>1, <1>2, <1>4, <1>5 DEF Accepts, OnSaleIsComplete

LEMMA CompleteByDemand ==
  ASSUME FormsInv, OnSaleIsComplete, NEW new, Demand(new)
  PROVE  OnSaleIsComplete'
<1>1. /\ rule' = new /\ product' = DeactivateIncomplete(product, rule, new)
      /\ UNCHANGED <<made, crossed>>
  BY DEF Demand
<1>2. CASE CompletenessRequired(new) /\ ProductCompletenessGaps(product, new.langs) # {}
  <2>1. product'.active = FALSE
    BY <1>1, <1>2 DEF DeactivateIncomplete, FormsInv, ProductFormsTypeOK, Fields
  <2> QED
    BY <2>1 DEF OnSaleIsComplete
<1>3. CASE ~(CompletenessRequired(new) /\ ProductCompletenessGaps(product, new.langs) # {})
  BY <1>1, <1>3 DEF DeactivateIncomplete, OnSaleIsComplete
<1> QED
  BY <1>2, <1>3

\* Whichever of the forms, the assistant, the settings page and the platform writes last,
\* and however old the rule that a form goes by, a product on sale is complete when that
\* is demanded (catalog_service.py:502-583, tenant_service.py:141-153).
THEOREM WhatIsOnSaleIsComplete == ProductFormsSpec => []OnSaleIsComplete
<1>1. ProductFormsInit => OnSaleIsComplete
  <2> SUFFICES ASSUME ProductFormsInit PROVE OnSaleIsComplete
    OBVIOUS
  <2>1. CASE rule = Default
    BY <2>1 DEF OnSaleIsComplete, CompletenessRequired, Default
  <2>2. CASE rule = HebrewOnly /\ rule # Default
    <3>1. product = Product(Languages, TRUE) /\ rule.langs = {"he"}
      BY <2>2 DEF ProductFormsInit, HebrewOnly
    <3>2. {"he"} \subseteq Languages
      BY DEF Languages
    <3>3. ProductCompletenessGaps(product, {"he"}) = {}
      BY <3>1, <3>2 DEF ProductCompletenessGaps, Product
    <3> QED
      BY <3>1, <3>3 DEF OnSaleIsComplete
  <2> QED
    BY <2>1, <2>2 DEF ProductFormsInit
<1>2. FormsInv /\ OnSaleIsComplete /\ [ProductFormsNext]_formVars => OnSaleIsComplete'
  <2> SUFFICES ASSUME FormsInv, OnSaleIsComplete, [ProductFormsNext]_formVars
               PROVE  OnSaleIsComplete'
    OBVIOUS
  <2>1. ASSUME UNCHANGED <<rule, made, product, crossed>> PROVE OnSaleIsComplete'
    BY <2>1 DEF OnSaleIsComplete
  <2>2. CASE UNCHANGED formVars
    BY <2>1, <2>2 DEF formVars
  <2>3. ASSUME Server PROVE OnSaleIsComplete'
    BY <2>1, <2>3 DEF Server
  <2>4. CASE \/ ConfigAnswers \/ TypeImage \/ TickDigital \/ RemoveFile \/ TickActive
             \/ SubmitNew \/ SubmitEdit \/ AssistantWrite
    BY <2>3, <2>4 DEF ConfigAnswers, TypeImage, TickDigital, RemoveFile, TickActive, Type,
       SubmitNew, SubmitEdit, Submit, AssistantWrite, AssistantWrites
  <2>5. ASSUME NEW page, Visit(page) PROVE OnSaleIsComplete'
    BY <2>3, <2>5 DEF Visit
  <2>6. ASSUME NEW l, TypeName(l) \/ TypeDescription(l) PROVE OnSaleIsComplete'
    BY <2>3, <2>6 DEF TypeName, TypeDescription, Type
  <2>7. ASSUME NEW f, HandleUpload(f) \/ Uploaded(f) PROVE OnSaleIsComplete'
    BY <2>3, <2>7 DEF HandleUpload, Uploaded
  <2>8. CASE ForceCompleteness \/ \E r \in Rule : ChangeSettings(r.require, r.langs)
    BY <2>8, CompleteByDemand DEF ForceCompleteness, ChangeSettings
  <2>9. ASSUME NEW w \in writes,
               ReadProduct(w) \/ Refuse(w) \/ UpdateProductVariant(w)
               \/ Saved(w) \/ SaveVariant(w) \/ Failed(w)
        PROVE  OnSaleIsComplete'
    BY <2>1, <2>9
    DEF ReadProduct, Refuse, UpdateProductVariant, Saved, SaveVariant, Failed, Server
  <2>10. CASE ProductFormsNext
    BY <2>4, <2>5, <2>6, <2>7, <2>8, <2>9, <2>10, CompleteByCreate, CompleteByUpdate
    DEF ProductFormsNext
  <2> QED
    BY <2>2, <2>10
<1> QED
  BY <1>1, <1>2, FormsAlways, PTL DEF ProductFormsSpec

-------------------------------------------------------------------------------
(*****************************************************************************)
(* The product list.                                                         *)
(*****************************************************************************)

\* No deletion and no import that the page will follow with a load of its own.
Settled ==
  /\ \A d \in deletes : ~d.heard
  /\ \A c \in committing : c.at # "done"

\* What a load that is alone has read is still so, and so is what the page shows.
ListInv ==
  Settled => /\ loads = {} /\ ~stale => products = Found(Query)
             /\ \A l \in loads : l.at = "read" /\ ~l.mixed => l.rows = Found(l.query)

OneDeletion == \A d, e \in deletes : d = e

-------------------------------------------------------------------------------
LEMMA QueryTyped ==
  ASSUME ListTypeOK
  PROVE  /\ <<search, filter>> \in Queries /\ <<debouncedSearch, filter>> \in Queries
         /\ <<debouncedSearch, 1 - filter>> \in Queries
         /\ 1 - search \in 0..1 /\ 1 - filter \in 0..1
<1>1. search \in 0..1 /\ debouncedSearch \in 0..1 /\ filter \in 0..1
  BY DEF ListTypeOK
<1>2. 1 - search \in 0..1 /\ 1 - filter \in 0..1
  BY <1>1
<1> QED
  BY <1>1, <1>2 DEF Queries

LEMMA FoundTyped == ASSUME ListTypeOK, NEW q PROVE Found(q) \subseteq Ids
  BY DEF Found, ListTypeOK

\* All loads in progress count as mixed.
LEMMA MixedTyped ==
  ASSUME ListTypeOK
  PROVE  Mixed \subseteq LoadRecords /\ \A l \in Mixed : l.mixed
<1>1. \A l \in LoadRecords : /\ [l EXCEPT !.mixed = TRUE] \in LoadRecords
                             /\ [l EXCEPT !.mixed = TRUE].mixed
  BY DEF LoadRecords
<1> QED
  BY <1>1 DEF Mixed, ListTypeOK

LEMMA LoadTyped ==
  ASSUME ListTypeOK, NEW q \in Queries, LoadProducts(q)
  PROVE  /\ loads' \subseteq LoadRecords /\ loads' # {}
         /\ \A l \in loads' : l.at = "read" => l.mixed
<1>1. PICK n \in 1..MaxLoads :
        loads' = Mixed \cup {[n |-> n, query |-> q, at |-> "sent", rows |-> {},
                              mixed |-> loads # {}]}
  BY DEF LoadProducts
<1> DEFINE l == [n |-> n, query |-> q, at |-> "sent", rows |-> {}, mixed |-> loads # {}]
<1>2. l \in LoadRecords /\ l.at = "sent"
  BY DEF LoadRecords
<1>3. loads' = Mixed \cup {l}
  BY <1>1
<1> HIDE DEF l
<1> QED
  BY <1>2, <1>3, MixedTyped

LEMMA DisturbTyped ==
  ASSUME ListTypeOK, Disturb \/ Undisturbed
  PROVE  loads' \subseteq LoadRecords
  BY MixedTyped DEF Disturb, Undisturbed, ListTypeOK

LEMMA ListTyped == ListInit => ListTypeOK
<1> SUFFICES ASSUME ListInit PROVE ListTypeOK
  OBVIOUS
<1>1. catalogue \subseteq Ids /\ products \subseteq Ids
  BY DEF ListInit, Found
<1>2. search = 0 /\ debouncedSearch = 0 /\ filter = 0 /\ 0 \in 0..1
  BY DEF ListInit
<1>3. /\ selectedIds = {} /\ loads = {} /\ deletes = {} /\ reading = {} /\ committing = {}
      /\ step = "select"
  BY DEF ListInit
<1> QED
  BY <1>1, <1>2, <1>3 DEF ListTypeOK

LEMMA TypedByLoad ==
  ASSUME ListTypeOK, NEW l \in loads, FetchProducts(l) \/ ListAnswered(l) \/ ListFails(l)
  PROVE  ListTypeOK'
<1>1. CASE FetchProducts(l)
  <2> DEFINE r == [l EXCEPT !.at = "read", !.rows = Found(l.query)]
  <2>1. r \in LoadRecords
    BY FoundTyped DEF ListTypeOK, LoadRecords
  <2>2. loads' = (loads \ {l}) \cup {r}
    BY <1>1 DEF FetchProducts
  <2> HIDE DEF r
  <2> QED
    BY <1>1, <2>1, <2>2 DEF FetchProducts, dialog, ListTypeOK
<1>2. CASE ListAnswered(l)
  <2>1. l.rows \subseteq Ids
    BY DEF ListTypeOK, LoadRecords
  <2> QED
    BY <1>2, <2>1 DEF ListAnswered, RowsShown, dialog, ListTypeOK
<1>3. CASE ListFails(l)
  BY <1>3 DEF ListFails, dialog, ListTypeOK
<1> QED
  BY <1>1, <1>2, <1>3

LEMMA TypedByManager ==
  ASSUME ListTypeOK,
         \/ TypeSearch \/ Debounce \/ SetFilter \/ HandleSelectAll \/ HandleBulkDelete
         \/ \E p \in Ids : HandleSelectOne(p) \/ HandleDelete(p) \/ DeletedElsewhere(p)
  PROVE  ListTypeOK'
<1>1. CASE TypeSearch
  BY <1>1, QueryTyped DEF TypeSearch, Undisturbed, dialog, ListTypeOK
<1>2. CASE Debounce
  <2>1. loads' \subseteq LoadRecords
    BY <1>2, LoadTyped, QueryTyped DEF Debounce
  <2> QED
    BY <1>2, <2>1 DEF Debounce, dialog, ListTypeOK
<1>3. CASE SetFilter
  <2>1. loads' \subseteq LoadRecords
    BY <1>3, LoadTyped, QueryTyped DEF SetFilter
  <2> QED
    BY <1>3, <2>1, QueryTyped DEF SetFilter, dialog, ListTypeOK
<1>4. ASSUME NEW ids \in SUBSET Ids, Select(ids) PROVE ListTypeOK'
  BY <1>4 DEF Select, Undisturbed, dialog, ListTypeOK
<1>5. CASE HandleSelectAll
  BY <1>4, <1>5 DEF HandleSelectAll, ListTypeOK
<1>6. ASSUME NEW p \in Ids, HandleSelectOne(p) PROVE ListTypeOK'
  <2>1. (IF p \in selectedIds THEN selectedIds \ {p} ELSE selectedIds \cup {p}) \in SUBSET Ids
    BY DEF ListTypeOK
  <2> QED
    BY <1>4, <1>6, <2>1 DEF HandleSelectOne
<1>7. ASSUME NEW ids \in SUBSET Ids, NEW all \in BOOLEAN, Delete(ids, all) PROVE ListTypeOK'
  <2> DEFINE d == [left |-> ids, all |-> all, query |-> <<search, filter>>, heard |-> TRUE]
  <2>1. d \in DeleteRecords
    BY QueryTyped DEF DeleteRecords
  <2>2. deletes' = {d}
    BY <1>7 DEF Delete
  <2> HIDE DEF d
  <2> QED
    BY <1>7, <2>1, <2>2 DEF Delete, Undisturbed, dialog, ListTypeOK
<1>8. CASE HandleBulkDelete
  BY <1>7, <1>8 DEF HandleBulkDelete, ListTypeOK
<1>9. ASSUME NEW p \in Ids, HandleDelete(p) PROVE ListTypeOK'
  BY <1>7, <1>9 DEF HandleDelete
<1>10. ASSUME NEW p \in Ids, DeletedElsewhere(p) PROVE ListTypeOK'
  BY <1>10, DisturbTyped DEF DeletedElsewhere, dialog, ListTypeOK
<1> QED
  BY <1>1, <1>2, <1>3, <1>5, <1>6, <1>8, <1>9, <1>10

LEMMA TypedByDelete ==
  ASSUME ListTypeOK, NEW d \in deletes,
         DeletesAnswered(d) \/ \E p \in Ids : DeleteProduct(d, p) \/ DeleteFails(d, p)
  PROVE  ListTypeOK'
<1>a. d \in DeleteRecords /\ d.query \in Queries
  BY DEF ListTypeOK, DeleteRecords
<1>1. ASSUME NEW p \in Ids, DeleteProduct(d, p) PROVE ListTypeOK'
  <2>1. [d EXCEPT !.left = @ \ {p}] \in DeleteRecords
    BY <1>a DEF DeleteRecords
  <2>2. Disturb \/ Undisturbed
    BY <1>1 DEF DeleteProduct
  <2> QED
    BY <1>1, <2>1, <2>2, DisturbTyped DEF DeleteProduct, dialog, ListTypeOK
<1>2. ASSUME NEW p \in Ids, DeleteFails(d, p) PROVE ListTypeOK'
  <2>1. [d EXCEPT !.left = @ \ {p}, !.heard = FALSE] \in DeleteRecords
    BY <1>a DEF DeleteRecords
  <2> QED
    BY <1>2, <2>1, DisturbTyped DEF DeleteFails, dialog, ListTypeOK
<1>3. CASE DeletesAnswered(d)
  <2>1. loads' \subseteq LoadRecords /\ selectedIds' \subseteq Ids
    BY <1>a, <1>3, LoadTyped DEF DeletesAnswered, ListTypeOK
  <2> QED
    BY <1>3, <2>1 DEF DeletesAnswered, dialog, ListTypeOK
<1> QED
  BY <1>1, <1>2, <1>3

LEMMA TypedByDialog ==
  ASSUME ListTypeOK,
         \/ HandleConfirm \/ Reset
         \/ \E p \in Ids : HandleImportFile(p) \/ PreviewAnswered(p)
  PROVE  ListTypeOK'
<1>1. CASE HandleConfirm
  <2>1. [file |-> previewResult, at |-> "sent"]
          \in [file : Ids, at : {"sent", "done", "unheard"}]
    BY <1>1 DEF HandleConfirm, ListTypeOK
  <2> QED
    BY <1>1, <2>1 DEF HandleConfirm, Undisturbed, List, ListTypeOK
<1>2. CASE Reset
  BY <1>2 DEF Reset, Undisturbed, List, ListTypeOK
<1>3. ASSUME NEW p \in Ids, HandleImportFile(p) \/ PreviewAnswered(p) PROVE ListTypeOK'
  BY <1>3 DEF HandleImportFile, PreviewAnswered, Undisturbed, List, ListTypeOK
<1> QED
  BY <1>1, <1>2, <1>3

LEMMA TypedByImport ==
  ASSUME ListTypeOK, NEW c \in committing,
         CommitProductsImport(c) \/ Imported(c) \/ ImportFails(c)
  PROVE  ListTypeOK'
<1> DEFINE Imports == [file : Ids, at : {"sent", "done", "unheard"}]
<1>a. /\ c \in Imports /\ [c EXCEPT !.at = "done"] \in Imports
      /\ [c EXCEPT !.at = "unheard"] \in Imports /\ c.file \in Ids
  BY DEF ListTypeOK
<1>1. CASE CommitProductsImport(c)
  <2>1. Disturb \/ Undisturbed
    BY <1>1 DEF CommitProductsImport
  <2>2. committing' \subseteq Imports /\ catalogue' \subseteq Ids
    BY <1>a, <1>1 DEF CommitProductsImport, ListTypeOK
  <2> QED
    BY <1>1, <2>1, <2>2, DisturbTyped DEF CommitProductsImport, List, ListTypeOK
<1>2. CASE Imported(c)
  <2>1. loads' \subseteq LoadRecords
    BY <1>2, LoadTyped, QueryTyped DEF Imported
  <2> QED
    BY <1>2, <2>1 DEF Imported, List, ListTypeOK
<1>3. CASE ImportFails(c)
  <2>1. committing' \subseteq Imports
    BY <1>a, <1>3 DEF ImportFails, ListTypeOK
  <2> QED
    BY <1>3, <2>1, DisturbTyped DEF ImportFails, List, ListTypeOK
<1> QED
  BY <1>1, <1>2, <1>3

\* Type correctness: only products of the store are listed, selected and deleted.
THEOREM ListTypeCorrect == ListSpec => []ListTypeOK
<1>1. ListTypeOK /\ [ListNext]_listVars => ListTypeOK'
  <2> SUFFICES ASSUME ListTypeOK, [ListNext]_listVars PROVE ListTypeOK'
    OBVIOUS
  <2>1. CASE UNCHANGED listVars
    BY <2>1 DEF listVars, ListTypeOK
  <2>2. CASE ListNext
    BY <2>2, TypedByLoad, TypedByManager, TypedByDelete, TypedByDialog, TypedByImport
    DEF ListNext
  <2> QED
    BY <2>1, <2>2
<1> QED
  BY <1>1, ListTyped, PTL DEF ListSpec

-------------------------------------------------------------------------------
\* Steps that change neither the store nor what is shown or loaded.
LEMMA ShownStays ==
  ASSUME ListInv, UNCHANGED <<catalogue, products, debouncedSearch, filter, stale, loads>>,
         Settled' => Settled
  PROVE  ListInv'
<1>1. Query' = Query /\ \A q : Found(q)' = Found(q)
  BY DEF Query, Found
<1> QED
  BY <1>1 DEF ListInv

\* A disturbance excuses the page and all loads in progress.
LEMMA Disturbed ==
  ASSUME ListTypeOK, Disturb
  PROVE  ListInv'
  BY MixedTyped DEF Disturb, ListInv

\* A new load has read nothing yet, and those in progress do not count.
LEMMA Loaded ==
  ASSUME ListTypeOK, NEW q \in Queries, LoadProducts(q)
  PROVE  ListInv'
  BY LoadTyped DEF ListInv

LEMMA TrueByLoad ==
  ASSUME ListTypeOK, ListInv, NEW l \in loads,
         FetchProducts(l) \/ ListAnswered(l) \/ ListFails(l)
  PROVE  ListInv'
<1>1. CASE FetchProducts(l)
  <2> DEFINE r == [l EXCEPT !.at = "read", !.rows = Found(l.query)]
  <2>1. r.rows = Found(r.query)
    BY DEF ListTypeOK, LoadRecords
  <2>2. loads' = (loads \ {l}) \cup {r}
        /\ UNCHANGED <<catalogue, products, debouncedSearch, filter, deletes, committing>>
    BY <1>1 DEF FetchProducts, dialog
  <2> HIDE DEF r
  <2>3. Settled' => Settled
    BY <2>2 DEF Settled
  <2>4. \A q : Found(q)' = Found(q)
    BY <2>2 DEF Found
  <2>5. loads' # {}
    BY <2>2
  <2> QED
    BY <2>1, <2>2, <2>3, <2>4, <2>5 DEF ListInv
<1>2. CASE ListAnswered(l)
  <2>1. /\ l.at = "read" /\ loads' = loads \ {l} /\ products' = l.rows
        /\ stale' = (l.mixed \/ l.query # Query)
        /\ UNCHANGED <<catalogue, debouncedSearch, filter, deletes, committing>>
    BY <1>2 DEF ListAnswered, RowsShown, dialog
  <2>2. Settled' => Settled
    BY <2>1 DEF Settled
  <2>3. Query' = Query /\ \A q : Found(q)' = Found(q)
    BY <2>1 DEF Query, Found
  <2> QED
    BY <2>1, <2>2, <2>3 DEF ListInv
<1>3. CASE ListFails(l)
  <2>1. /\ loads' = loads \ {l} /\ stale' = TRUE
        /\ UNCHANGED <<catalogue, deletes, committing>>
    BY <1>3 DEF ListFails, dialog
  <2>2. Settled' => Settled
    BY <2>1 DEF Settled
  <2>3. \A q : Found(q)' = Found(q)
    BY <2>1 DEF Found
  <2> QED
    BY <2>1, <2>2, <2>3 DEF ListInv
<1> QED
  BY <1>1, <1>2, <1>3

LEMMA TrueByManager ==
  ASSUME ListTypeOK, ListInv,
         \/ TypeSearch \/ Debounce \/ SetFilter \/ HandleSelectAll \/ HandleBulkDelete
         \/ \E p \in Ids : HandleSelectOne(p) \/ HandleDelete(p) \/ DeletedElsewhere(p)
  PROVE  ListInv'
<1>1. CASE TypeSearch
  <2>1. UNCHANGED <<catalogue, products, debouncedSearch, filter, stale, loads, deletes,
                    committing>>
    BY <1>1 DEF TypeSearch, Undisturbed, dialog
  <2> QED
    BY <2>1, ShownStays DEF Settled
<1>2. CASE Debounce
  BY <1>2, Loaded, QueryTyped DEF Debounce
<1>3. CASE SetFilter
  BY <1>3, Loaded, QueryTyped DEF SetFilter
<1>4. ASSUME NEW ids, Select(ids) PROVE ListInv'
  <2>1. UNCHANGED <<catalogue, products, debouncedSearch, filter, stale, loads, deletes,
                    committing>>
    BY <1>4 DEF Select, Undisturbed, dialog
  <2> QED
    BY <2>1, ShownStays DEF Settled
<1>5. ASSUME NEW ids, NEW all, Delete(ids, all) PROVE ListInv'
  <2> DEFINE d == [left |-> ids, all |-> all, query |-> <<search, filter>>, heard |-> TRUE]
  <2>1. deletes' = {d} /\ d.heard
    BY <1>5 DEF Delete
  <2> QED
    BY <2>1 DEF ListInv, Settled
<1>6. ASSUME NEW p \in Ids, DeletedElsewhere(p) PROVE ListInv'
  BY <1>6, Disturbed DEF DeletedElsewhere
<1> QED
  BY <1>1, <1>2, <1>3, <1>4, <1>5, <1>6
  DEF HandleSelectAll, HandleBulkDelete, HandleSelectOne, HandleDelete

LEMMA TrueByDelete ==
  ASSUME ListTypeOK, OneDeletion, ListInv, NEW d \in deletes,
         DeletesAnswered(d) \/ \E p \in Ids : DeleteProduct(d, p) \/ DeleteFails(d, p)
  PROVE  ListInv'
<1>a. d \in DeleteRecords /\ d.query \in Queries
  BY DEF ListTypeOK, DeleteRecords
<1>1. ASSUME NEW p \in Ids, DeleteProduct(d, p) PROVE ListInv'
  <2>1. CASE d.heard
    <3> DEFINE e == [d EXCEPT !.left = @ \ {p}]
    <3>1. deletes' = {e} /\ e.heard
      BY <1>a, <1>1, <2>1 DEF DeleteProduct, DeleteRecords
    <3> QED
      BY <3>1 DEF ListInv, Settled
  <2>2. CASE ~d.heard
    BY <1>1, <2>2, Disturbed DEF DeleteProduct
  <2> QED
    BY <2>1, <2>2
<1>2. ASSUME NEW p \in Ids, DeleteFails(d, p) PROVE ListInv'
  BY <1>2, Disturbed DEF DeleteFails
<1>3. CASE DeletesAnswered(d)
  <2>1. CASE d.heard
    BY <1>a, <1>3, <2>1, Loaded DEF DeletesAnswered
  <2>2. CASE ~d.heard
    <3>1. deletes' = {} /\ UNCHANGED <<loads, stale, catalogue, products, debouncedSearch,
                                       filter, committing>>
      BY <1>3, <2>2 DEF DeletesAnswered, dialog
    <3>2. Settled' => Settled
      <4>1. deletes \subseteq {d}
        BY DEF OneDeletion
      <4> QED
        BY <2>2, <3>1, <4>1 DEF Settled
    <3> QED
      BY <3>1, <3>2, ShownStays
  <2> QED
    BY <2>1, <2>2
<1> QED
  BY <1>1, <1>2, <1>3

LEMMA TrueByDialog ==
  ASSUME ListTypeOK, ListInv,
         \/ HandleConfirm \/ Reset
         \/ \E p \in Ids : HandleImportFile(p) \/ PreviewAnswered(p)
  PROVE  ListInv'
<1>1. UNCHANGED <<catalogue, products, debouncedSearch, filter, stale, loads, deletes>>
  BY DEF HandleConfirm, Reset, HandleImportFile, PreviewAnswered, Undisturbed, List
<1>2. \A c \in committing : c \in committing'
  BY DEF HandleConfirm, Reset, HandleImportFile, PreviewAnswered
<1> QED
  BY <1>1, <1>2, ShownStays DEF Settled

LEMMA TrueByImport ==
  ASSUME ListTypeOK, ListInv, NEW c \in committing,
         CommitProductsImport(c) \/ Imported(c) \/ ImportFails(c)
  PROVE  ListInv'
<1>1. CASE CommitProductsImport(c)
  <2>1. CASE c.at = "sent"
    <3> DEFINE e == [c EXCEPT !.at = "done"]
    <3>1. e.at = "done" /\ e \in committing'
      BY <1>1, <2>1 DEF CommitProductsImport, ListTypeOK
    <3> QED
      BY <3>1 DEF ListInv, Settled
  <2>2. CASE c.at # "sent"
    BY <1>1, <2>2, Disturbed DEF CommitProductsImport
  <2> QED
    BY <2>1, <2>2
<1>2. CASE Imported(c)
  BY <1>2, Loaded, QueryTyped DEF Imported
<1>3. CASE ImportFails(c)
  BY <1>3, Disturbed DEF ImportFails
<1> QED
  BY <1>1, <1>2, <1>3

LEMMA OneDeletionKept == OneDeletion /\ [ListNext]_listVars => OneDeletion'
<1> SUFFICES ASSUME OneDeletion, [ListNext]_listVars PROVE OneDeletion'
  OBVIOUS
<1>1. ASSUME UNCHANGED deletes PROVE OneDeletion'
  BY <1>1 DEF OneDeletion
<1>2. CASE UNCHANGED listVars
  BY <1>1, <1>2 DEF listVars
<1>3. CASE \/ TypeSearch \/ Debounce \/ SetFilter \/ HandleSelectAll
           \/ HandleConfirm \/ Reset
  BY <1>1, <1>3
  DEF TypeSearch, Debounce, SetFilter, HandleSelectAll, Select, HandleConfirm, Reset, List
<1>4. ASSUME NEW l \in loads, FetchProducts(l) \/ ListAnswered(l) \/ ListFails(l)
      PROVE  OneDeletion'
  BY <1>1, <1>4 DEF FetchProducts, ListAnswered, ListFails
<1>5. ASSUME NEW p \in Ids,
             \/ HandleSelectOne(p) \/ DeletedElsewhere(p)
             \/ HandleImportFile(p) \/ PreviewAnswered(p)
      PROVE  OneDeletion'
  BY <1>1, <1>5
  DEF HandleSelectOne, Select, DeletedElsewhere, HandleImportFile, PreviewAnswered, List
<1>6. ASSUME NEW x, deletes' = {x} \/ deletes' = {} PROVE OneDeletion'
  BY <1>6 DEF OneDeletion
<1>a. ASSUME NEW ids, NEW all, Delete(ids, all) PROVE OneDeletion'
  <2> DEFINE x == [left |-> ids, all |-> all, query |-> <<search, filter>>, heard |-> TRUE]
  <2>1. deletes' = {x}
    BY <1>a DEF Delete
  <2> HIDE DEF x
  <2> QED
    BY <1>6, <2>1
<1>7. CASE HandleBulkDelete
  BY <1>a, <1>7 DEF HandleBulkDelete
<1>8. ASSUME NEW p \in Ids, HandleDelete(p) PROVE OneDeletion'
  BY <1>a, <1>8 DEF HandleDelete
<1>9. ASSUME NEW d \in deletes, NEW p \in Ids, DeleteProduct(d, p) \/ DeleteFails(d, p)
      PROVE  OneDeletion'
  <2> DEFINE x == [d EXCEPT !.left = @ \ {p}]
             y == [d EXCEPT !.left = @ \ {p}, !.heard = FALSE]
  <2>1. deletes' = {x} \/ deletes' = {y}
    BY <1>9 DEF DeleteProduct, DeleteFails
  <2> HIDE DEF x, y
  <2> QED
    BY <1>6, <2>1
<1>10. ASSUME NEW d \in deletes, DeletesAnswered(d) PROVE OneDeletion'
  BY <1>6, <1>10 DEF DeletesAnswered
<1>11. ASSUME NEW c \in committing, CommitProductsImport(c) \/ Imported(c) \/ ImportFails(c)
       PROVE  OneDeletion'
  BY <1>1, <1>11 DEF CommitProductsImport, Imported, ImportFails, List
<1>12. CASE ListNext
  BY <1>3, <1>4, <1>5, <1>7, <1>8, <1>9, <1>10, <1>11, <1>12 DEF ListNext
<1> QED
  BY <1>2, <1>12

\* When nothing is in progress the list is what the store has for the search and the page
\* that are set, after every search, deletion and import, unless loads crossed, one failed
\* or somebody else changed the store (ProductsPageClient.tsx:69-149).
THEOREM TheListIsTrue == ListSpec => []ListIsTrue
<1>1. ListInit => ListInv /\ OneDeletion
  BY DEF ListInit, ListInv, OneDeletion, Query
<1>2. ListTypeOK /\ OneDeletion /\ ListInv /\ [ListNext]_listVars => ListInv'
  <2> SUFFICES ASSUME ListTypeOK, OneDeletion, ListInv, [ListNext]_listVars PROVE ListInv'
    OBVIOUS
  <2>1. CASE UNCHANGED listVars
    BY <2>1, ShownStays DEF listVars, Settled
  <2>2. CASE ListNext
    BY <2>2, TrueByLoad, TrueByManager, TrueByDelete, TrueByDialog, TrueByImport DEF ListNext
  <2> QED
    BY <2>1, <2>2
<1>3. ListInv => ListIsTrue
  BY DEF ListInv, Settled, ListIsTrue
<1> QED
  BY <1>1, <1>2, <1>3, OneDeletionKept, ListTypeCorrect, PTL DEF ListSpec

-------------------------------------------------------------------------------
(*****************************************************************************)
(* The settings page.  The languages that are left when one is taken out are *)
(* a fold; what a fold returns for every list is shown by a smallest set of  *)
(* positions for which the claim fails.                                      *)
(*****************************************************************************)

\* Of some subsets of a finite set one is least.
LEMMA LeastSet ==
  ASSUME NEW S, IsFiniteSet(S), NEW B \in SUBSET SUBSET S, B # {}
  PROVE  \E T \in B : \A U \in B : U \subseteq T => U = T
<1>1. IsWellFoundedOn(StrictSubsetOrdering(S), SUBSET S)
  BY FS_StrictSubsetOrderingWellFounded, FS_FiniteSubsetsOfFinite
<1>2. PICK T \in B : \A U \in B : ~(<<U, T>> \in StrictSubsetOrdering(S))
  BY <1>1, WFMin
<1> QED
  BY <1>2 DEF StrictSubsetOrdering

\* The same for positions of a list.
LEMMA LeastPositions ==
  ASSUME NEW n \in Nat, NEW B, \A T \in B : T \subseteq 1..n, B # {}
  PROVE  \E T \in B : \A U \in B : U \subseteq T => U = T
<1> DEFINE S == 1..n
<1>1. IsFiniteSet(S)
  BY FS_Interval
<1>2. B \in SUBSET SUBSET S
  OBVIOUS
<1> HIDE DEF S
<1> QED
  BY <1>1, <1>2, LeastSet

\* A set of positions has a last one.
LEMMA LastPosition ==
  ASSUME NEW n \in Nat, NEW s \in SUBSET (1..n), s # {}
  PROVE  Max(s) \in s
<1> DEFINE Above(x) == {y \in s : y > x}
           B == {Above(x) : x \in s}
<1>1. PICK T \in B : \A U \in B : U \subseteq T => U = T
  <2>1. B # {} /\ \A U \in B : U \subseteq 1..n
    OBVIOUS
  <2> HIDE DEF B
  <2> QED
    BY <2>1, LeastPositions
<1>2. PICK x \in s : T = Above(x)
  BY <1>1
<1>3. ASSUME NEW y \in T PROVE FALSE
  <2>1. y \in s /\ y > x /\ y \in Int /\ x \in Int /\ s \subseteq Int
    BY <1>2, <1>3
  <2>2. Above(y) \in B
    BY <2>1
  <2>3. Above(y) \subseteq T
    <3>1. \A z \in s : z \in Int /\ (z > y => z > x)
      BY <2>1
    <3> QED
      BY <1>2, <3>1
  <2>4. y \notin Above(y)
    BY <2>1
  <2> HIDE DEF Above, B
  <2> QED
    BY <1>1, <1>3, <2>2, <2>3, <2>4
<1>4. \A y \in s : x >= y
  BY <1>2, <1>3
<1> QED
  BY <1>4 DEF Max

\* g takes code out of the positions of langs, for each set of positions.
Keeps(langs, code, S, g) ==
  g = [s \in SUBSET S |->
         IF s = {} THEN <<>>
         ELSE IF langs[Max(s)] = code THEN g[s \ {Max(s)}]
                                      ELSE Append(g[s \ {Max(s)}], langs[Max(s)])]

\* There is at most one such g ...
LEMMA OneKeeps ==
  ASSUME NEW langs, NEW code, NEW n \in Nat, NEW S \in SUBSET (1..n), NEW U \in SUBSET S,
         NEW g, Keeps(langs, code, S, g), NEW h, Keeps(langs, code, U, h)
  PROVE  g[U] = h[U]
<1> DEFINE B == {r \in SUBSET U : g[r] # h[r]}
           One(it, r) == IF r = {} THEN <<>>
                         ELSE IF langs[Max(r)] = code THEN it[r \ {Max(r)}]
                                                      ELSE Append(it[r \ {Max(r)}], langs[Max(r)])
<1>1. \A r \in SUBSET U : g[r] = One(g, r) /\ h[r] = One(h, r)
  BY DEF Keeps
<1>2. ASSUME B # {} PROVE FALSE
  <2>1. PICK T \in B : \A r \in B : r \subseteq T => r = T
    <3>1. \A r \in B : r \subseteq 1..n
      OBVIOUS
    <3> HIDE DEF B
    <3> QED
      BY <1>2, <3>1, LeastPositions
  <2>2. T # {}
    BY <1>1, <2>1
  <2>3. Max(T) \in T
    BY <2>1, <2>2, LastPosition
  <2>4. g[T \ {Max(T)}] = h[T \ {Max(T)}]
    BY <2>1, <2>3
  <2> QED
    BY <1>1, <2>1, <2>2, <2>4
<1> QED
  BY <1>2

\* ... and there is one.
LEMMA KeepsExists ==
  ASSUME NEW langs, NEW code, NEW n \in Nat
  PROVE  \E g : Keeps(langs, code, 1..n, g)
<1> DEFINE B == {T \in SUBSET (1..n) : ~\E g : Keeps(langs, code, T, g)}
<1> SUFFICES ASSUME B # {} PROVE FALSE
  OBVIOUS
<1>1. PICK T \in B : \A U \in B : U \subseteq T => U = T
  <2>1. \A U \in B : U \subseteq 1..n
    OBVIOUS
  <2> HIDE DEF B
  <2> QED
    BY <2>1, LeastPositions
<1> DEFINE Of(U) == CHOOSE g : Keeps(langs, code, U, g)
           Rest(s) == s \ {Max(s)}
           One(s, to) == IF langs[Max(s)] = code THEN to ELSE Append(to, langs[Max(s)])
           g == [s \in SUBSET T |-> IF s = {} THEN <<>> ELSE One(s, Of(Rest(s))[Rest(s)])]
<1>2. \A U \in SUBSET T : U # T => Keeps(langs, code, U, Of(U))
  BY <1>1
<1>3. \A s \in SUBSET T : s # {} => Rest(s) \in SUBSET T /\ Rest(s) # T /\ Rest(s) # s /\ Max(s) \in s
  BY <1>1, LastPosition
<1>4. \A s \in SUBSET T : s # {} => g[Rest(s)] = Of(Rest(s))[Rest(s)]
  <2> SUFFICES ASSUME NEW s \in SUBSET T, s # {} PROVE g[Rest(s)] = Of(Rest(s))[Rest(s)]
    OBVIOUS
  <2> DEFINE r == Rest(s)
  <2>1. r \in SUBSET T /\ r # T /\ Keeps(langs, code, r, Of(r))
    BY <1>2, <1>3
  <2>2. Of(r)[r] = IF r = {} THEN <<>> ELSE One(r, Of(r)[Rest(r)])
    BY <2>1 DEF Keeps
  <2> HIDE DEF Of, r
  <2>3. ASSUME r # {} PROVE Of(r)[Rest(r)] = Of(Rest(r))[Rest(r)]
    <3>1. Rest(r) \in SUBSET r /\ Rest(r) \in SUBSET T /\ Rest(r) # T
      BY <1>3, <2>1, <2>3
    <3>2. Keeps(langs, code, Rest(r), Of(Rest(r))) /\ r \in SUBSET (1..n)
      BY <1>1, <1>2, <3>1, <2>1
    <3>3. PICK u, h, f : u = Rest(r) /\ h = Of(Rest(r)) /\ f = Of(r)
      OBVIOUS
    <3>4. /\ u \in SUBSET r /\ r \in SUBSET (1..n)
          /\ Keeps(langs, code, r, f) /\ Keeps(langs, code, u, h)
      BY <2>1, <3>1, <3>2, <3>3
    <3>5. f[u] = h[u]
      BY <3>4, OneKeeps
    <3> QED
      BY <3>3, <3>5
  <2> QED
    BY <2>1, <2>2, <2>3 DEF r
<1>5. Keeps(langs, code, T, g)
  <2> HIDE DEF Of
  <2> QED
    BY <1>4 DEF Keeps
<1> QED
  BY <1>1, <1>5

\* The fold is such a g.
LEMMA OthersKeep ==
  ASSUME NEW langs, NEW code, NEW n \in Nat, DOMAIN langs = 1..n
  PROVE  \E g : Keeps(langs, code, 1..n, g) /\ OtherLanguages(langs, code) = g[1..n]
<1> DEFINE S == DOMAIN langs
           Adding(it) == it = [s \in SUBSET S |->
                                 IF s = {} THEN <<>>
                                 ELSE LET x == Max(s)
                                      IN  IF langs[x] = code THEN it[s \ {x}]
                                                             ELSE Append(it[s \ {x}], langs[x])]
           iter == CHOOSE it : Adding(it)
<1>1. \A g : Keeps(langs, code, S, g) <=> Adding(g)
  BY DEF Keeps
<1>2. OtherLanguages(langs, code) = iter[S]
  BY DEF OtherLanguages, FoldLeft, MapThenFoldSet
<1> HIDE DEF Adding
<1>3. Keeps(langs, code, S, iter)
  BY <1>1, KeepsExists
<1> QED
  BY <1>2, <1>3

\* What is left is a list of languages.
LEMMA OthersType ==
  ASSUME NEW L, NEW langs \in Seq(L), NEW code
  PROVE  OtherLanguages(langs, code) \in Seq(L)
<1> DEFINE n == Len(langs)
<1>1. n \in Nat /\ DOMAIN langs = 1..n /\ \A i \in 1..n : langs[i] \in L
  OBVIOUS
<1> HIDE DEF n
<1>2. PICK g : Keeps(langs, code, 1..n, g) /\ OtherLanguages(langs, code) = g[1..n]
  BY <1>1, OthersKeep
<1> DEFINE B == {s \in SUBSET (1..n) : g[s] \notin Seq(L)}
<1>3. \A s \in SUBSET (1..n) :
        g[s] = IF s = {} THEN <<>>
               ELSE IF langs[Max(s)] = code THEN g[s \ {Max(s)}]
                                            ELSE Append(g[s \ {Max(s)}], langs[Max(s)])
  BY <1>2 DEF Keeps
<1>4. ASSUME B # {} PROVE FALSE
  <2>1. PICK T \in B : \A U \in B : U \subseteq T => U = T
    <3>1. \A U \in B : U \subseteq 1..n
      OBVIOUS
    <3> HIDE DEF B
    <3> QED
      BY <1>1, <1>4, <3>1, LeastPositions
  <2>2. T # {} /\ Max(T) \in T
    <3>1. T # {}
      <4>1. {} \in SUBSET (1..n)
        OBVIOUS
      <4>2. g[{}] = <<>>
        BY <1>3, <4>1
      <4>3. <<>> \in Seq(L)
        OBVIOUS
      <4> QED
        BY <2>1, <4>2, <4>3
    <3> QED
      BY <1>1, <2>1, <3>1, LastPosition
  <2>3. g[T \ {Max(T)}] \in Seq(L)
    BY <2>1, <2>2
  <2>4. langs[Max(T)] \in L
    BY <1>1, <2>1, <2>2
  <2>5. g[T] = g[T \ {Max(T)}] \/ g[T] = Append(g[T \ {Max(T)}], langs[Max(T)])
    BY <1>3, <2>1, <2>2
  <2>6. Append(g[T \ {Max(T)}], langs[Max(T)]) \in Seq(L)
    BY <2>3, <2>4
  <2> QED
    BY <2>1, <2>3, <2>5, <2>6
<1> QED
  BY <1>2, <1>4

-------------------------------------------------------------------------------
\* What the page and the service keep.
Menu == Seq([custom : BOOLEAN, enabled : BOOLEAN, label : SUBSET SiteLangs])
SettingsRecords ==
  [plain : {0, 1}, logo : {0, 1}, langs : Seq(SiteLangs), def : SiteLangs, nav : Menu,
   require : BOOLEAN, force : BOOLEAN]

SettingsTyped ==
  /\ row \in SettingsRecords /\ formData \in SettingsRecords
  /\ uploads \in SUBSET SettingsRecords /\ saving \in SUBSET SettingsRecords
  /\ lopsided \in BOOLEAN

\* What an upload keeps may come back to the page: it has to have its default as well.
\* A payload need not: the service looks at it.
UploadsSpeak == ~lopsided => \A base \in uploads : DefaultSupported(base)

SpeakInv == SettingsTyped /\ UploadsSpeak /\ StoreCanSpeak

\* The list of all languages has each of them.
LEMMA ListOfAll ==
  SetToSeq(SiteLangs) \in Seq(SiteLangs) /\ ToSet(SetToSeq(SiteLangs)) = SiteLangs
<1> DEFINE n == Cardinality(SiteLangs)
           f == SetToSeq(SiteLangs)
<1>1. n \in Nat /\ ExistsBijection(1..n, SiteLangs)
  BY FS_CardinalityType, StoreSettingsAssumption
<1>2. \E g \in [1..n -> SiteLangs] : IsInjective(g)
  BY <1>1 DEF ExistsBijection, Bijection, Injection, IsInjective
<1>3. f \in [1..n -> SiteLangs] /\ IsInjective(f)
  BY <1>2 DEF SetToSeq
<1> HIDE DEF f
<1>4. f \in Injection(1..n, SiteLangs)
  BY <1>3 DEF Injection, IsInjective
<1>5. Cardinality(1..n) = n
  BY <1>1, FS_Interval
<1>6. f \in Surjection(1..n, SiteLangs)
  BY <1>4, <1>5, FS_Injection, StoreSettingsAssumption
<1> HIDE DEF n
<1>7. f \in Seq(SiteLangs) /\ DOMAIN f = 1..n
  BY <1>1, <1>3
<1>8. ToSet(f) = SiteLangs
  BY <1>3, <1>6, <1>7 DEF ToSet, Surjection
<1> QED
  BY <1>7, <1>8 DEF f

\* The defaults of the page are a record with its default language.
LEMMA DefaultsSpeak ==
  DefaultSettings \in SettingsRecords /\ DefaultSupported(DefaultSettings)
<1>1. <<"he">> \in Seq(SiteLangs) /\ "he" \in SiteLangs
  BY StoreSettingsAssumption
<1>2. DefaultNav \in Menu
  BY DEF DefaultNav, NavItem, Menu
<1>3. "he" \in ToSet(<<"he">>)
  BY DEF ToSet
<1> QED
  BY <1>1, <1>2, <1>3 DEF DefaultSettings, SettingsRecords, DefaultSupported

LEMMA SpeakInit == SettingsInit => SpeakInv
<1> SUFFICES ASSUME SettingsInit PROVE SpeakInv
  OBVIOUS
<1> DEFINE Full == [DefaultSettings EXCEPT !.langs = SetToSeq(SiteLangs),
                                           !.nav = <<NavItem(FALSE, SiteLangs)>>,
                                           !.require = TRUE]
<1>1. Full \in SettingsRecords
  <2>1. <<NavItem(FALSE, SiteLangs)>> \in Menu
    BY DEF NavItem, Menu
  <2> QED
    BY <2>1, DefaultsSpeak, ListOfAll DEF SettingsRecords
<1>2. DefaultSupported(Full)
  <2>1. Full.def = "he" /\ Full.langs = SetToSeq(SiteLangs)
    BY DEF DefaultSettings
  <2> QED
    BY <2>1, ListOfAll, StoreSettingsAssumption DEF DefaultSupported
<1>3. NavLabelled(Full)
  <2>1. Full.nav = <<NavItem(FALSE, SiteLangs)>> /\ Full.langs = SetToSeq(SiteLangs)
    BY DEF DefaultSettings
  <2>2. \A i \in DOMAIN Full.nav : Full.nav[i].label = SiteLangs
    BY <2>1 DEF NavItem
  <2> QED
    BY <2>1, <2>2, ListOfAll DEF NavLabelled
<1>4. row \in {DefaultSettings, Full} /\ formData \in {row, DefaultSettings}
  BY DEF SettingsInit, LoadSettings
<1>5. ~DefaultSettings.require
  BY DEF DefaultSettings
<1> HIDE DEF Full
<1> QED
  BY <1>1, <1>2, <1>3, <1>4, <1>5, DefaultsSpeak
  DEF SettingsInit, SpeakInv, SettingsTyped, UploadsSpeak, StoreCanSpeak

\* What the page edits keeps its type and a default that it has.
Speaking(new) == new \in SettingsRecords /\ (DefaultSupported(formData) => DefaultSupported(new))

LEMMA SpeakingStays ==
  ASSUME SpeakInv, NEW new, Speaking(new), SetFormData(new)
  PROVE  SpeakInv'
BY DEF Speaking, SetFormData, SpeakInv, SettingsTyped, UploadsSpeak, StoreCanSpeak,
       DefaultSupported, NavLabelled

\* One language more.
LEMMA LanguageAdded ==
  ASSUME SpeakInv, NEW code \in SiteLangs, AddLanguage(code)
  PROVE  SpeakInv'
<1> DEFINE new == [formData EXCEPT !.langs = Append(@, code)]
<1>1. formData \in SettingsRecords /\ formData.langs \in Seq(SiteLangs)
  BY DEF SpeakInv, SettingsTyped, SettingsRecords
<1>2. Append(formData.langs, code) \in Seq(SiteLangs)
  BY <1>1
<1>3. new \in SettingsRecords /\ new.langs = Append(formData.langs, code)
      /\ new.def = formData.def
  BY <1>1, <1>2 DEF SettingsRecords
<1>4. ToSet(formData.langs) \subseteq ToSet(Append(formData.langs, code))
  BY <1>1 DEF ToSet
<1>5. Speaking(new)
  BY <1>3, <1>4 DEF Speaking, DefaultSupported
<1>6. SetFormData(new)
  BY DEF AddLanguage
<1> QED
  BY <1>5, <1>6, SpeakingStays

\* One language less: if it was the default, the first of the others is.
LEMMA LanguageRemoved ==
  ASSUME SpeakInv, NEW code \in SiteLangs, RemoveLanguage(code)
  PROVE  SpeakInv'
<1> DEFINE left == OtherLanguages(formData.langs, code)
           next == IF left = <<>> THEN <<"he">> ELSE left
           def == IF formData.def \in ToSet(next) THEN formData.def ELSE next[1]
           new == [formData EXCEPT !.langs = next, !.def = def]
<1>1. formData \in SettingsRecords /\ formData.langs \in Seq(SiteLangs)
  BY DEF SpeakInv, SettingsTyped, SettingsRecords
<1>2. left \in Seq(SiteLangs)
  BY <1>1, OthersType
<1>3. WithoutLanguage(formData, code) = new
  BY <1>1 DEF WithoutLanguage, SettingsRecords
<1> HIDE DEF left
<1>4. next \in Seq(SiteLangs) /\ next # <<>>
  BY <1>2, StoreSettingsAssumption
<1> HIDE DEF next
<1>5. 1 \in DOMAIN next /\ next[1] \in SiteLangs
  BY <1>4
<1>6. def \in SiteLangs /\ def \in ToSet(next)
  BY <1>1, <1>5 DEF ToSet, SettingsRecords
<1> HIDE DEF def
<1>7. new \in SettingsRecords /\ new.langs = next /\ new.def = def
  BY <1>1, <1>4, <1>6 DEF SettingsRecords
<1> HIDE DEF new
<1>8. Speaking(new)
  BY <1>6, <1>7 DEF Speaking, DefaultSupported
<1>9. SetFormData(new)
  BY <1>3 DEF RemoveLanguage
<1> QED
  BY <1>8, <1>9, SpeakingStays

\* Another default, one of the languages.
LEMMA DefaultChosen ==
  ASSUME SpeakInv, NEW code \in SiteLangs, ChooseDefault(code)
  PROVE  SpeakInv'
<1> DEFINE new == [formData EXCEPT !.def = code]
<1>1. formData \in SettingsRecords
  BY DEF SpeakInv, SettingsTyped
<1>2. new \in SettingsRecords /\ new.def = code /\ new.langs = formData.langs
  BY <1>1 DEF SettingsRecords
<1>3. Speaking(new)
  BY <1>2 DEF Speaking, DefaultSupported, ChooseDefault
<1>4. SetFormData(new)
  BY DEF ChooseDefault
<1> QED
  BY <1>3, <1>4, SpeakingStays

\* An edit of the menu leaves the languages as they are.
LEMMA MenuEdited ==
  ASSUME SpeakInv, NEW menu \in Menu, SetFormData([formData EXCEPT !.nav = menu])
  PROVE  SpeakInv'
<1> DEFINE new == [formData EXCEPT !.nav = menu]
<1>1. formData \in SettingsRecords
  BY DEF SpeakInv, SettingsTyped
<1>2. new \in SettingsRecords /\ new.def = formData.def /\ new.langs = formData.langs
  BY <1>1 DEF SettingsRecords
<1> HIDE DEF new
<1>3. Speaking(new)
  BY <1>2 DEF Speaking, DefaultSupported
<1> QED
  BY <1>3, SpeakingStays DEF new

\* What can be done to an item of the menu.
LEMMA MenuActions ==
  ASSUME SpeakInv, NEW i \in DOMAIN formData.nav,
         \/ EnableNavItem(i) \/ MoveNavItem(i) \/ RemoveNavItem(i)
         \/ \E l \in ToSet(formData.langs) : UpdateNavItem(i, l)
  PROVE  SpeakInv'
<1> DEFINE nav == formData.nav
           Item == [custom : BOOLEAN, enabled : BOOLEAN, label : SUBSET SiteLangs]
<1>1. formData \in SettingsRecords /\ formData.langs \in Seq(SiteLangs)
  BY DEF SpeakInv, SettingsTyped, SettingsRecords
<1>2. nav \in Seq(Item) /\ i \in 1..Len(nav) /\ nav[i] \in Item
  <2>1. nav \in Seq(Item) /\ i \in DOMAIN nav
    BY <1>1 DEF SettingsRecords, Menu
  <2> HIDE DEF nav, Item
  <2> QED
    BY <2>1
<1>3. CASE EnableNavItem(i)
  <2> DEFINE item == [nav[i] EXCEPT !.enabled = ~@]
  <2>1. item \in Item
    BY <1>2
  <2>2. [formData EXCEPT !.nav[i].enabled = ~@] = [formData EXCEPT !.nav = [nav EXCEPT ![i] = item]]
    BY <1>1, <1>2 DEF SettingsRecords
  <2> HIDE DEF item
  <2>3. [nav EXCEPT ![i] = item] \in Menu
    BY <1>2, <2>1 DEF Menu
  <2> QED
    BY <1>3, <2>2, <2>3, MenuEdited DEF EnableNavItem
<1>4. CASE MoveNavItem(i)
  <2> DEFINE moved == [nav EXCEPT ![i] = nav[i + 1], ![i + 1] = nav[i]]
  <2>1. i + 1 \in 1..Len(nav) /\ nav[i + 1] \in Item
    <3>1. i + 1 \in DOMAIN nav
      BY <1>4 DEF MoveNavItem
    <3> HIDE DEF nav, Item
    <3> QED
      BY <1>2, <3>1
  <2>2. moved \in Menu
    BY <1>2, <2>1 DEF Menu
  <2>3. SetFormData([formData EXCEPT !.nav = moved])
    BY <1>1, <1>4 DEF MoveNavItem, SettingsRecords
  <2> HIDE DEF moved
  <2> QED
    BY <2>2, <2>3, MenuEdited
<1>5. CASE RemoveNavItem(i)
  <2> DEFINE shorter == RemoveAt(nav, i)
  <2>1. shorter \in Seq(Item)
    <3> HIDE DEF nav, Item
    <3>1. SubSeq(nav, 1, i - 1) \in Seq(Item) /\ SubSeq(nav, i + 1, Len(nav)) \in Seq(Item)
      BY <1>2
    <3> QED
      BY <3>1 DEF RemoveAt
  <2>2. SetFormData([formData EXCEPT !.nav = shorter])
    BY <1>1, <1>5 DEF RemoveNavItem, SettingsRecords
  <2> HIDE DEF shorter
  <2> QED
    BY <2>1, <2>2, MenuEdited DEF Menu
<1>6. ASSUME NEW l \in ToSet(formData.langs), UpdateNavItem(i, l) PROVE SpeakInv'
  <2> DEFINE label == IF l \in nav[i].label THEN nav[i].label \ {l} ELSE nav[i].label \cup {l}
             item == [nav[i] EXCEPT !.label = label]
             new == [formData EXCEPT !.nav[i].label =
                       IF l \in @ THEN @ \ {l} ELSE @ \cup {l}]
  <2>1. l \in SiteLangs
    BY <1>1, <1>6 DEF ToSet
  <2>2. label \in SUBSET SiteLangs
    BY <1>2, <2>1
  <2>3. new = [formData EXCEPT !.nav = [nav EXCEPT ![i] = item]]
    BY <1>1, <1>2 DEF SettingsRecords
  <2>4. SetFormData(new)
    BY <1>6 DEF UpdateNavItem
  <2> HIDE DEF label, new
  <2>5. item \in Item
    BY <1>2, <2>2
  <2> HIDE DEF item
  <2>6. [nav EXCEPT ![i] = item] \in Menu
    BY <1>2, <2>5 DEF Menu
  <2> QED
    BY <2>3, <2>4, <2>6, MenuEdited
<1> QED
  BY <1>3, <1>4, <1>5, <1>6

\* The rest of the form.
LEMMA OtherFields ==
  ASSUME SpeakInv, TypePlain \/ AddCustomNav \/ TickRequire
  PROVE  SpeakInv'
<1>1. formData \in SettingsRecords /\ formData.langs \in Seq(SiteLangs) /\ formData.nav \in Menu
  BY DEF SpeakInv, SettingsTyped, SettingsRecords
<1>2. CASE TypePlain
  <2> DEFINE new == [formData EXCEPT !.plain = 1 - @]
  <2>1. new \in SettingsRecords /\ new.langs = formData.langs /\ new.def = formData.def
    BY <1>1 DEF SettingsRecords
  <2> HIDE DEF new
  <2>2. Speaking(new)
    BY <2>1 DEF Speaking, DefaultSupported
  <2> QED
    BY <1>2, <2>2, SpeakingStays DEF TypePlain, new
<1>3. CASE AddCustomNav
  <2> DEFINE menu == Append(formData.nav, NavItem(TRUE, ToSet(formData.langs)))
  <2>1. ToSet(formData.langs) \in SUBSET SiteLangs
    BY <1>1 DEF ToSet
  <2>2. menu \in Menu
    BY <1>1, <2>1 DEF Menu, NavItem
  <2>3. SetFormData([formData EXCEPT !.nav = menu])
    BY <1>1, <1>3 DEF AddCustomNav, SettingsRecords
  <2> HIDE DEF menu
  <2> QED
    BY <2>2, <2>3, MenuEdited
<1>4. CASE TickRequire
  <2> DEFINE new == [formData EXCEPT !.require = ~@]
  <2>1. new \in SettingsRecords /\ new.langs = formData.langs /\ new.def = formData.def
    BY <1>1 DEF SettingsRecords
  <2> HIDE DEF new
  <2>2. Speaking(new)
    BY <2>1 DEF Speaking, DefaultSupported
  <2> QED
    BY <1>4, <2>2, SpeakingStays DEF TickRequire, new
<1> QED
  BY <1>2, <1>3, <1>4

\* Beginning an upload, saving, and opening the page again.
LEMMA SubmitAndUpload ==
  ASSUME SpeakInv, HandleLogoFile \/ HandleSubmit \/ Reopen
  PROVE  SpeakInv'
<1>1. formData \in SettingsRecords
  BY DEF SpeakInv, SettingsTyped
<1>2. CASE HandleLogoFile
  BY <1>2 DEF HandleLogoFile, SpeakInv, SettingsTyped, UploadsSpeak, StoreCanSpeak,
              DefaultSupported, NavLabelled
<1>3. CASE HandleSubmit
  <2> DEFINE payload == [formData EXCEPT !.require = @ \/ formData.force]
  <2>1. payload \in SettingsRecords
    BY <1>1 DEF SettingsRecords
  <2>2. saving' = {payload}
    BY <1>3 DEF HandleSubmit
  <2> HIDE DEF payload
  <2> QED
    BY <1>3, <2>1, <2>2 DEF HandleSubmit, SpeakInv, SettingsTyped, UploadsSpeak,
                            StoreCanSpeak, DefaultSupported, NavLabelled
<1>4. CASE Reopen
  BY <1>4, DefaultsSpeak DEF Reopen, LoadSettings, SpeakInv, SettingsTyped, UploadsSpeak,
                             StoreCanSpeak, DefaultSupported, NavLabelled
<1> QED
  BY <1>2, <1>3, <1>4

\* An upload brings back the record that it was begun with.
LEMMA UploadEnds ==
  ASSUME SpeakInv, NEW base \in uploads, LogoUploaded(base)
  PROVE  SpeakInv'
<1> DEFINE new == [base EXCEPT !.logo = 1]
<1>1. base \in SettingsRecords
  BY DEF SpeakInv, SettingsTyped
<1>2. new \in SettingsRecords /\ new.langs = base.langs /\ new.def = base.def
  BY <1>1 DEF SettingsRecords
<1>3. formData' \in {formData, new}
  BY DEF LogoUploaded
<1> HIDE DEF new
<1> QED
  BY <1>2, <1>3 DEF LogoUploaded, SpeakInv, SettingsTyped, UploadsSpeak, StoreCanSpeak,
                    DefaultSupported, NavLabelled

\* The service looks at a payload before it becomes the row.
LEMMA RowSaved ==
  ASSUME SpeakInv, NEW payload \in saving, UpdateStoreSettings(payload)
  PROVE  SpeakInv'
<1> DEFINE new == Written(payload)
<1>1. payload \in SettingsRecords /\ row \in SettingsRecords
  BY DEF SpeakInv, SettingsTyped
<1>2. new \in SettingsRecords /\ new.langs = payload.langs /\ new.def = payload.def
  BY <1>1 DEF Written, SettingsRecords
<1>3. row' = new /\ DefaultSupported(payload) /\ Accepted(new)
  BY DEF UpdateStoreSettings
<1> HIDE DEF new
<1>4. DefaultSupported(new) /\ (new.require => NavLabelled(new))
  BY <1>2, <1>3 DEF DefaultSupported, Accepted, CompletenessDemanded
<1> QED
  BY <1>2, <1>3, <1>4 DEF UpdateStoreSettings, SpeakInv, SettingsTyped, UploadsSpeak,
                          StoreCanSpeak, DefaultSupported, NavLabelled

\* A save that is refused or lost.
LEMMA SaveLost ==
  ASSUME SpeakInv, NEW payload \in saving, SaveFails(payload)
  PROVE  SpeakInv'
BY DEF SaveFails, SpeakInv, SettingsTyped, UploadsSpeak, StoreCanSpeak, DefaultSupported,
       NavLabelled

\* The assistant sets the languages alone.
LEMMA LanguagesSet ==
  ASSUME SpeakInv, NEW l \in SiteLangs, AssistantSetsLanguages(<<l>>)
  PROVE  SpeakInv'
<1> DEFINE new == [row EXCEPT !.langs = <<l>>]
<1>1. row \in SettingsRecords
  BY DEF SpeakInv, SettingsTyped
<1>2. <<l>> \in Seq(SiteLangs)
  OBVIOUS
<1>3. new \in SettingsRecords /\ new.langs = <<l>> /\ new.def = row.def
  BY <1>1, <1>2 DEF SettingsRecords
<1>4. /\ row' = new /\ Accepted(new)
      /\ lopsided' = (lopsided \/ row.def \notin ToSet(<<l>>))
      /\ UNCHANGED <<formData, uploads, saving>>
  BY DEF AssistantSetsLanguages, Other
<1> HIDE DEF new
<1>5. (new.require => NavLabelled(new)) /\ (~lopsided' => DefaultSupported(new))
  BY <1>3, <1>4 DEF DefaultSupported, Accepted, CompletenessDemanded
<1> QED
  BY <1>3, <1>4, <1>5 DEF SpeakInv, SettingsTyped, UploadsSpeak, StoreCanSpeak,
                          DefaultSupported, NavLabelled

\* Whoever else writes the row leaves its languages alone.
LEMMA RowChanged ==
  ASSUME SpeakInv, AssistantSetsRequire \/ SetForceProductCompleteness
  PROVE  SpeakInv'
<1>1. row \in SettingsRecords
  BY DEF SpeakInv, SettingsTyped
<1>2. CASE AssistantSetsRequire
  <2> DEFINE new == [row EXCEPT !.require = TRUE]
  <2>1. new \in SettingsRecords /\ new.langs = row.langs /\ new.def = row.def
    BY <1>1 DEF SettingsRecords
  <2>2. /\ row' = new /\ Accepted(new) /\ UNCHANGED <<formData, uploads, saving, lopsided>>
    BY <1>2 DEF AssistantSetsRequire, Other
  <2> HIDE DEF new
  <2> QED
    BY <2>1, <2>2 DEF SpeakInv, SettingsTyped, UploadsSpeak, StoreCanSpeak, DefaultSupported,
                      NavLabelled, Accepted, CompletenessDemanded
<1>3. CASE SetForceProductCompleteness
  <2> DEFINE new == [row EXCEPT !.force = ~@]
  <2>1. /\ new \in SettingsRecords /\ new.langs = row.langs /\ new.def = row.def
        /\ new.require = row.require /\ new.nav = row.nav
    BY <1>1 DEF SettingsRecords
  <2>2. /\ row' = new /\ UNCHANGED <<formData, uploads, saving, lopsided>>
    BY <1>3 DEF SetForceProductCompleteness, Other
  <2> HIDE DEF new
  <2> QED
    BY <2>1, <2>2 DEF SpeakInv, SettingsTyped, UploadsSpeak, StoreCanSpeak, DefaultSupported,
                      NavLabelled
<1> QED
  BY <1>2, <1>3

LEMMA SpeakStep == SpeakInv /\ [SettingsNext]_settingsVars => SpeakInv'
<1> SUFFICES ASSUME SpeakInv, [SettingsNext]_settingsVars PROVE SpeakInv'
  OBVIOUS
<1>1. CASE UNCHANGED settingsVars
  BY <1>1 DEF settingsVars, SpeakInv, SettingsTyped, UploadsSpeak, StoreCanSpeak,
              DefaultSupported, NavLabelled
<1>2. CASE TypePlain \/ AddCustomNav \/ TickRequire
  BY <1>2, OtherFields
<1>3. CASE HandleLogoFile \/ HandleSubmit \/ Reopen
  BY <1>3, SubmitAndUpload
<1>4. CASE \E code \in SiteLangs : AddLanguage(code) \/ RemoveLanguage(code) \/ ChooseDefault(code)
  BY <1>4, LanguageAdded, LanguageRemoved, DefaultChosen
<1>5. CASE \E i \in DOMAIN formData.nav :
             \/ EnableNavItem(i) \/ MoveNavItem(i) \/ RemoveNavItem(i)
             \/ \E l \in ToSet(formData.langs) : UpdateNavItem(i, l)
  BY <1>5, MenuActions
<1>6. CASE \E base \in uploads : LogoUploaded(base)
  BY <1>6, UploadEnds
<1>7. CASE \E payload \in saving : UpdateStoreSettings(payload) \/ SaveFails(payload)
  BY <1>7, RowSaved, SaveLost
<1>8. CASE \E l \in SiteLangs : AssistantSetsLanguages(<<l>>)
  BY <1>8, LanguagesSet
<1>9. CASE AssistantSetsRequire \/ SetForceProductCompleteness
  BY <1>9, RowChanged
<1> QED
  BY <1>1, <1>2, <1>3, <1>4, <1>5, <1>6, <1>7, <1>8, <1>9 DEF SettingsNext

\* The default of a store is one of its languages, in the page and in the row, unless the
\* assistant set the languages alone; and a menu is labelled wherever completeness is
\* demanded (SettingsPageClient.tsx:109-165, tenant_service.py:134-150).
THEOREM StoreSpeaks == SettingsSpec => []StoreCanSpeak
<1>1. SettingsSpec => []SpeakInv
  BY SpeakInit, SpeakStep, PTL DEF SettingsSpec
<1>2. SpeakInv => StoreCanSpeak
  BY DEF SpeakInv
<1> QED
  BY <1>1, <1>2, PTL
===============================================================================
