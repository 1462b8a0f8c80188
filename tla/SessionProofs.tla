----------------------------- MODULE SessionProofs -----------------------------
(***************************************************************************)
(* Theorems about Session, for every set of tabs and calls and every bound *)
(* on the pairs of tokens.                                                 *)
(***************************************************************************)
EXTENDS Session, FiniteSetTheorems, TLAPS

\* A call in progress belongs to a tab.
OfTab == \A c \in Calls : call[c].at # "none" => call[c].tab \in Tabs

TypeInv == SessionTypeOK /\ OfTab /\ IsFiniteSet(ghosts)

LEMMA Numbers ==
  /\ MaxPairs \in Nat \ {0} /\ MaxMishaps \in Nat /\ 0 \in MaybePair /\ 1 \in MaybePair
  /\ Pairs \subseteq MaybePair
  /\ \A n \in MaybePair : n < MaxPairs => n + 1 \in Pairs
  BY SessionAssumption DEF SessionAssumption, MaybePair, Pairs

LEMMA NothingTyped == NoFlight \in Flights /\ NoCall \in CallStates
  BY SessionAssumption
  DEF SessionAssumption, NoFlight, Flights, NoCall, CallStates, MaybePair

LEMMA Counted == ASSUME TypeInv, NEW S \in SUBSET Calls PROVE Cardinality(S) \in Nat
  BY SessionAssumption, FS_Subset, FS_CardinalityType DEF SessionAssumption

\* Where there are pairs to spare, there is one.
LEMMA Spare ==
  ASSUME TypeInv, NEW needed \in Nat, PairsToSpare(needed)
  PROVE  issued + needed <= MaxPairs
<1>1. Cardinality(Active) \in Nat
  BY Counted DEF Active
<1>2. Cardinality({c \in Active : call[c].kind = "register"}) \in Nat
  BY Counted DEF Active
<1>3. Cardinality(ghosts) \in Nat
  BY FS_CardinalityType DEF TypeInv
<1>4. issued \in Nat /\ MaxPairs \in Nat
  BY SessionAssumption DEF SessionAssumption, TypeInv, SessionTypeOK, MaybePair
<1> QED
  BY <1>1, <1>2, <1>3, <1>4 DEF PairsToSpare

\* What Unload touches stays typed, and every flight and call stays or goes.
LEMMA UnloadTyped ==
  ASSUME TypeInv, NEW tab \in Tabs, Unload(tab)
  PROVE  /\ flight' \in [Tabs -> Flights]
         /\ call' \in [Calls -> CallStates]
         /\ ghosts' \subseteq [sent : MaybePair, found : BOOLEAN] /\ IsFiniteSet(ghosts')
         /\ \A t \in Tabs : flight'[t] = IF t = tab THEN NoFlight ELSE flight[t]
         /\ \A c \in Calls : call'[c] \in {call[c], NoCall}
         /\ OfTab'
<1>1. flight' \in [Tabs -> Flights] /\ call' \in [Calls -> CallStates]
  BY NothingTyped DEF Unload, TypeInv, SessionTypeOK
<1>2. /\ \A t \in Tabs : flight'[t] = IF t = tab THEN NoFlight ELSE flight[t]
      /\ \A c \in Calls : call'[c] \in {call[c], NoCall}
  BY DEF Unload, TypeInv, SessionTypeOK
<1>3. ASSUME flight[tab].at \notin {"sent", "found"}
      PROVE  ghosts' \subseteq [sent : MaybePair, found : BOOLEAN] /\ IsFiniteSet(ghosts')
  <2>1. ghosts' = ghosts
    BY <1>3 DEF Unload
  <2> QED
    BY <2>1 DEF TypeInv, SessionTypeOK
<1>4. ASSUME flight[tab].at \in {"sent", "found"}
      PROVE  ghosts' \subseteq [sent : MaybePair, found : BOOLEAN] /\ IsFiniteSet(ghosts')
  <2>1. [sent |-> flight[tab].sent, found |-> flight[tab].at = "found"]
          \in [sent : MaybePair, found : BOOLEAN]
    BY <1>4 DEF TypeInv, SessionTypeOK, Flights
  <2> QED
    BY <1>4, <2>1, FS_AddElement DEF Unload, TypeInv, SessionTypeOK
<1>5. OfTab'
  BY <1>2 DEF TypeInv, OfTab, NoCall
<1> QED
  BY <1>1, <1>2, <1>3, <1>4, <1>5

LEMMA TypeInit == SessionInit => TypeInv
<1> SUFFICES ASSUME SessionInit PROVE TypeInv
  OBVIOUS
<1>1. IsFiniteSet(ghosts)
  BY FS_EmptySet DEF SessionInit
<1>2. flight \in [Tabs -> Flights] /\ call \in [Calls -> CallStates]
  BY NothingTyped DEF SessionInit
<1>3. /\ token \in MaybePair /\ refresh \in MaybePair /\ issued \in MaybePair
      /\ live \subseteq Pairs /\ mishaps \in 0..MaxMishaps
  BY Numbers DEF SessionInit, Pairs
<1>4. SessionTypeOK
  BY <1>2, <1>3 DEF SessionInit, SessionTypeOK
<1>5. OfTab
  BY DEF SessionInit, OfTab, NoCall
<1> QED
  BY <1>1, <1>4, <1>5 DEF TypeInv

\* What the parts of a step do to the types.
LEMMA RequestTyped ==
  ASSUME TypeInv, NEW tab \in Tabs, RequestTokenRefresh(tab)
  PROVE  flight' \in [Tabs -> Flights] /\ excused' \in BOOLEAN
<1>1. CASE UNCHANGED <<flight, excused>>
  BY <1>1 DEF TypeInv, SessionTypeOK
<1>2. ASSUME SendRefresh(tab) PROVE flight' \in [Tabs -> Flights]
  <2>1. [at |-> "sent", sent |-> refresh, pair |-> 0] \in Flights
    BY Numbers DEF Flights, TypeInv, SessionTypeOK
  <2> QED
    BY <1>2, <2>1 DEF SendRefresh, TypeInv, SessionTypeOK
<1>3. ASSUME SendRefresh(tab) PROVE excused' \in BOOLEAN
  BY <1>3 DEF SendRefresh
<1> QED
  BY <1>1, <1>2, <1>3 DEF RequestTokenRefresh

LEMMA ClearTyped ==
  ASSUME TypeInv, ClearAuthTokens
  PROVE  /\ token' \in MaybePair
         /\ logouts' \subseteq [sent : MaybePair, handled : BOOLEAN]
<1>1. [sent |-> refresh, handled |-> FALSE] \in [sent : MaybePair, handled : BOOLEAN]
  BY DEF TypeInv, SessionTypeOK
<1> QED
  BY <1>1, Numbers DEF ClearAuthTokens, TypeInv, SessionTypeOK

LEMMA RotateTyped ==
  ASSUME TypeInv, NEW sent, Rotate(sent)
  PROVE  issued' \in MaybePair /\ issued + 1 \in MaybePair /\ live' \subseteq Pairs
  BY Numbers DEF Rotate, TypeInv, SessionTypeOK

LEMMA LoginTyped ==
  ASSUME TypeInv, SetAuthTokens, issued < MaxPairs
  PROVE  /\ issued' \in MaybePair /\ refresh' \in MaybePair /\ token' \in MaybePair
         /\ live' \subseteq Pairs /\ quiet' \in BOOLEAN
  BY Numbers DEF SetAuthTokens, TypeInv, SessionTypeOK

LEMMA SpareOne == ASSUME TypeInv, PairsToSpare(1) PROVE issued < MaxPairs
  BY Spare, Numbers DEF TypeInv, SessionTypeOK, MaybePair

LEMMA TypeNext == TypeInv /\ [SessionNext]_sessionVars => TypeInv'
<1> SUFFICES ASSUME TypeInv, [SessionNext]_sessionVars PROVE TypeInv'
  OBVIOUS
<1>a. SessionTypeOK /\ OfTab /\ IsFiniteSet(ghosts)
  BY DEF TypeInv
<1>1. CASE UNCHANGED sessionVars
  BY <1>a, <1>1 DEF sessionVars, TypeInv, SessionTypeOK, OfTab
<1>2. ASSUME NEW c \in Calls, NEW tab \in Tabs, NEW kind \in {"data", "register"},
             StartCall(c, tab, kind)
      PROVE  TypeInv'
  <2>1. call' \in [Calls -> CallStates] /\ OfTab'
    BY <1>a, <1>2 DEF StartCall, CallStates, SessionTypeOK, OfTab
  <2> QED
    BY <1>a, <1>2, <2>1 DEF StartCall, TypeInv, SessionTypeOK
<1>3. ASSUME NEW c \in Calls, CallAnswered(c) \/ CallRefused(c) PROVE TypeInv'
  <2>1. call' = [call EXCEPT ![c] = NoCall]
    BY <1>3 DEF CallAnswered, CallRefused
  <2>2. call' \in [Calls -> CallStates] /\ OfTab'
    BY <1>a, <2>1, NothingTyped DEF SessionTypeOK, OfTab, NoCall
  <2> QED
    BY <1>a, <1>3, <2>2 DEF CallAnswered, CallRefused, TypeInv, SessionTypeOK
<1>4. ASSUME NEW c \in Calls, CallRefreshes(c) PROVE TypeInv'
  <2>1. call[c].tab \in Tabs
    BY <1>a, <1>4 DEF CallRefreshes, Unauthorized, OfTab
  <2>2. call' \in [Calls -> CallStates] /\ OfTab'
    BY <1>a, <1>4, <2>1 DEF CallRefreshes, CallStates, SessionTypeOK, OfTab
  <2>3. flight' \in [Tabs -> Flights] /\ excused' \in BOOLEAN
    BY <1>4, <2>1, RequestTyped DEF CallRefreshes
  <2> QED
    BY <1>a, <1>4, <2>2, <2>3 DEF CallRefreshes, TypeInv, SessionTypeOK
<1>5. ASSUME NEW tab \in Tabs, TearDown(tab), excused' \in BOOLEAN, mishaps' \in 0..MaxMishaps,
             live' \subseteq Pairs, UNCHANGED <<refresh, issued, expired, quiet>>
      PROVE  TypeInv'
  BY <1>a, <1>5, ClearTyped, UnloadTyped DEF TearDown, TypeInv, SessionTypeOK
<1>6. ASSUME NEW c \in Calls, CallGivesUp(c) PROVE TypeInv'
  BY <1>a, <1>5, <1>6 DEF CallGivesUp, Unauthorized, OfTab, SessionTypeOK
<1>7. ASSUME NEW tab \in Tabs, RefreshRefused(tab) PROVE TypeInv'
  BY <1>a, <1>5, <1>7 DEF RefreshRefused, SessionTypeOK
<1>8. ASSUME NEW tab \in Tabs, RefreshLost(tab) PROVE TypeInv'
  <2>1. mishaps' \in 0..MaxMishaps /\ live' \subseteq Pairs
    BY <1>a, <1>8, Numbers DEF RefreshLost, SessionTypeOK
  <2> QED
    BY <1>5, <1>8, <2>1 DEF RefreshLost
<1>9. ASSUME NEW tab \in Tabs, RefreshLookup(tab) \/ RefreshHeaders(tab) PROVE TypeInv'
  <2>1. flight' \in [Tabs -> Flights] /\ refresh' \in MaybePair
    BY <1>a, <1>9 DEF RefreshLookup, RefreshHeaders, SessionTypeOK, Flights
  <2> QED
    BY <1>a, <1>9, <2>1 DEF RefreshLookup, RefreshHeaders, TypeInv, SessionTypeOK, OfTab
<1>10. ASSUME NEW tab \in Tabs, RefreshRotate(tab) PROVE TypeInv'
  <2>1. issued' \in MaybePair /\ issued + 1 \in MaybePair /\ live' \subseteq Pairs
    BY <1>10, RotateTyped DEF RefreshRotate
  <2>2. flight' \in [Tabs -> Flights]
    BY <1>a, <1>10, <2>1 DEF RefreshRotate, SessionTypeOK, Flights
  <2> QED
    BY <1>a, <1>10, <2>1, <2>2 DEF RefreshRotate, TypeInv, SessionTypeOK, OfTab
<1>11. ASSUME NEW tab \in Tabs, RefreshBody(tab) PROVE TypeInv'
  <2>1. flight[tab].pair \in MaybePair
    BY <1>a DEF SessionTypeOK, Flights
  <2>2. call' \in [Calls -> CallStates] /\ OfTab'
    <3>1. ASSUME NEW c \in Calls
          PROVE  [call[c] EXCEPT !.at = "sent", !.token = flight[tab].pair,
                                 !.sent = flight[tab].pair, !.retry = TRUE] \in CallStates
      BY <1>a, <2>1 DEF SessionTypeOK, CallStates
    <3>2. call' \in [Calls -> CallStates]
      BY <1>a, <1>11, <3>1 DEF RefreshBody, SessionTypeOK
    <3>3. \A c \in Calls : call'[c].tab = call[c].tab /\ (call'[c].at = "none" <=> call[c].at = "none")
      <4> SUFFICES ASSUME NEW c \in Calls
                   PROVE  call'[c].tab = call[c].tab
                            /\ (call'[c].at = "none" <=> call[c].at = "none")
        OBVIOUS
      <4>1. call[c] \in CallStates
        BY <1>a DEF SessionTypeOK
      <4>2. CASE c \in Waiting(tab)
        <5>1. call[c].at = "refresh"
          BY <4>2 DEF Waiting
        <5>2. call'[c] = [call[c] EXCEPT !.at = "sent", !.token = flight[tab].pair,
                                         !.sent = flight[tab].pair, !.retry = TRUE]
          BY <1>11, <4>2 DEF RefreshBody
        <5>3. call'[c].at = "sent" /\ call'[c].tab = call[c].tab
          BY <4>1, <5>2 DEF CallStates
        <5> QED
          BY <5>1, <5>3
      <4>3. CASE c \notin Waiting(tab)
        BY <1>11, <4>3 DEF RefreshBody
      <4> QED
        BY <4>2, <4>3
    <3> QED
      BY <1>a, <3>2, <3>3 DEF OfTab
  <2>3. flight' \in [Tabs -> Flights]
    BY <1>a, <1>11, NothingTyped DEF RefreshBody, SessionTypeOK
  <2> QED
    BY <1>a, <1>11, <2>1, <2>2, <2>3 DEF RefreshBody, TypeInv, SessionTypeOK
<1>12. ASSUME NEW g \in ghosts, GhostLookup(g) PROVE TypeInv'
  <2>1. /\ IsFiniteSet(ghosts \ {g})
        /\ IsFiniteSet((ghosts \ {g}) \cup {[g EXCEPT !.found = TRUE]})
    BY <1>a, FS_RemoveElement, FS_AddElement
  <2>2. ghosts' \subseteq [sent : MaybePair, found : BOOLEAN]
    BY <1>a, <1>12 DEF GhostLookup, SessionTypeOK
  <2> QED
    BY <1>a, <1>12, <2>1, <2>2 DEF GhostLookup, TypeInv, SessionTypeOK, OfTab
<1>13. ASSUME NEW g \in ghosts, GhostRotate(g) PROVE TypeInv'
  <2>1. IsFiniteSet(ghosts \ {g})
    BY <1>a, FS_RemoveElement
  <2>2. issued' \in MaybePair /\ live' \subseteq Pairs
    BY <1>13, RotateTyped DEF GhostRotate
  <2> QED
    BY <1>a, <1>13, <2>1, <2>2 DEF GhostRotate, TypeInv, SessionTypeOK, OfTab
<1>14. CASE Logout
  BY <1>a, <1>14, ClearTyped DEF Logout, TypeInv, SessionTypeOK, OfTab
<1>15. ASSUME NEW l \in logouts, LogoutHandled(l) \/ LogoutAnswered(l) \/ LogoutLost(l)
       PROVE  TypeInv'
  <2>1. logouts' \subseteq [sent : MaybePair, handled : BOOLEAN]
    <3>1. logouts \subseteq [sent : MaybePair, handled : BOOLEAN]
      BY <1>a DEF SessionTypeOK
    <3>2. [l EXCEPT !.handled = TRUE] \in [sent : MaybePair, handled : BOOLEAN]
      BY <3>1
    <3>3. CASE LogoutHandled(l)
      <4>1. logouts' = (logouts \ {l}) \cup {[l EXCEPT !.handled = TRUE]}
        BY <3>3 DEF LogoutHandled
      <4> QED
        BY <3>1, <3>2, <4>1
    <3>4. CASE LogoutAnswered(l) \/ LogoutLost(l)
      <4>1. logouts' = logouts \ {l}
        BY <3>4 DEF LogoutAnswered, LogoutLost
      <4> QED
        BY <3>1, <4>1
    <3> QED
      BY <1>15, <3>3, <3>4
  <2>2. mishaps' \in 0..MaxMishaps /\ live' \subseteq Pairs /\ refresh' \in MaybePair
    BY <1>a, <1>15, Numbers DEF LogoutHandled, LogoutAnswered, LogoutLost, SessionTypeOK
  <2> QED
    BY <1>a, <1>15, <2>1, <2>2
    DEF LogoutHandled, LogoutAnswered, LogoutLost, TypeInv, SessionTypeOK, OfTab
<1>16. CASE CustomerLogin
  BY <1>a, <1>16, SpareOne, LoginTyped DEF CustomerLogin, TypeInv, SessionTypeOK, OfTab
<1>17. ASSUME NEW tab \in Tabs, AdminLogin(tab) PROVE TypeInv'
  <2>1. CASE Unload(tab)
    BY <1>a, <1>17, <2>1, SpareOne, LoginTyped, UnloadTyped
    DEF AdminLogin, TypeInv, SessionTypeOK
  <2>2. CASE UNCHANGED <<call, flight, ghosts>>
    BY <1>a, <1>17, <2>2, SpareOne, LoginTyped DEF AdminLogin, TypeInv, SessionTypeOK, OfTab
  <2> QED
    BY <1>17, <2>1, <2>2 DEF AdminLogin
<1>18. ASSUME NEW c \in Calls, Registered(c) PROVE TypeInv'
  <2>1. CASE Unload(call[c].tab)
    BY <1>a, <1>18, <2>1, LoginTyped, UnloadTyped
    DEF Registered, TypeInv, SessionTypeOK, OfTab
  <2>2. CASE call' = [call EXCEPT ![c] = NoCall] /\ UNCHANGED <<flight, ghosts>>
    <3>1. call' \in [Calls -> CallStates] /\ OfTab'
      BY <1>a, <2>2, NothingTyped DEF SessionTypeOK, OfTab, NoCall
    <3> QED
      BY <1>a, <1>18, <2>2, <3>1, LoginTyped DEF Registered, TypeInv, SessionTypeOK
  <2> QED
    BY <1>18, <2>1, <2>2 DEF Registered
<1>19. CASE Proxy
  BY <1>a, <1>19, Numbers DEF Proxy, TypeInv, SessionTypeOK, OfTab
<1>20. ASSUME NEW tab \in Tabs, Reload(tab) PROVE TypeInv'
  <2>1. mishaps' \in 0..MaxMishaps
    BY <1>a, <1>20, Numbers DEF Reload, SessionTypeOK
  <2> QED
    BY <1>a, <1>20, <2>1, UnloadTyped DEF Reload, TypeInv, SessionTypeOK
<1>21. ASSUME NEW n \in Pairs, Expire(n) PROVE TypeInv'
  BY <1>a, <1>21 DEF Expire, TypeInv, SessionTypeOK, OfTab
<1> QED
  BY <1>1, <1>2, <1>3, <1>4, <1>6, <1>7, <1>8, <1>9, <1>10, <1>11, <1>12, <1>13, <1>14,
     <1>15, <1>16, <1>17, <1>18, <1>19, <1>20, <1>21
  DEF SessionNext, Settle, Refresh, SubmitSignup

\* Tokens, promises, requests and calls are what they are taken for, and the
\* server issues no pair beyond the bound.
THEOREM SessionTypeCorrect == SessionSpec => []SessionTypeOK
<1>1. TypeInv => SessionTypeOK
  BY DEF TypeInv
<1> QED
  BY <1>1, TypeInit, TypeNext, PTL DEF SessionSpec

-------------------------------------------------------------------------------
(***************************************************************************)
(* LogoutIsFinal: while it is quiet no call holds a token, and so none     *)
(* asks for a refresh.                                                     *)
(***************************************************************************)
Quiet ==
  /\ \A c \in Calls : call[c].at = "none" => call[c].token = 0
  /\ quiet => /\ token = 0
              /\ \A t \in Tabs : flight[t].at = "none"
              /\ \A c \in Calls : call[c].token = 0 /\ call[c].at # "refresh"

LEMMA QuietNext == TypeInv /\ Quiet /\ [SessionNext]_sessionVars => Quiet'
<1> SUFFICES ASSUME TypeInv, Quiet, [SessionNext]_sessionVars PROVE Quiet'
  OBVIOUS
<1>a. flight \in [Tabs -> Flights] /\ call \in [Calls -> CallStates]
  BY DEF TypeInv, SessionTypeOK
<1>1. CASE UNCHANGED sessionVars
  BY <1>1 DEF sessionVars, Quiet
<1>2. ASSUME NEW c \in Calls, NEW tab \in Tabs, NEW kind \in {"data", "register"},
             StartCall(c, tab, kind)
      PROVE  Quiet'
  BY <1>a, <1>2 DEF StartCall, Quiet
<1>3. ASSUME NEW c \in Calls, CallAnswered(c) \/ CallRefused(c) PROVE Quiet'
  <2>1. call' = [call EXCEPT ![c] = NoCall]
    BY <1>3 DEF CallAnswered, CallRefused
  <2>2. UNCHANGED <<token, flight, quiet>>
    BY <1>3 DEF CallAnswered, CallRefused
  <2> QED
    BY <1>a, <2>1, <2>2 DEF Quiet, NoCall
<1>4. ASSUME NEW c \in Calls, CallRefreshes(c) PROVE Quiet'
  <2>1. ~quiet /\ ~quiet'
    BY <1>4 DEF CallRefreshes, Quiet
  <2>2. \A d \in Calls : call'[d].token = call[d].token /\ (call'[d].at = "none" => call[d].at = "none")
    BY <1>a, <1>4 DEF CallRefreshes, CallStates
  <2> QED
    BY <2>1, <2>2 DEF Quiet
<1>5. ASSUME NEW tab \in Tabs, TearDown(tab), UNCHANGED quiet PROVE Quiet'
  BY <1>5, UnloadTyped DEF TearDown, ClearAuthTokens, Quiet, NoCall, NoFlight
<1>6. ASSUME NEW c \in Calls, CallGivesUp(c) PROVE Quiet'
  BY <1>5, <1>6 DEF CallGivesUp, Unauthorized, TypeInv, OfTab
<1>7. ASSUME NEW tab \in Tabs, RefreshRefused(tab) \/ RefreshLost(tab) PROVE Quiet'
  BY <1>5, <1>7 DEF RefreshRefused, RefreshLost
<1>8. ASSUME NEW tab \in Tabs, RefreshLookup(tab) \/ RefreshRotate(tab) \/ RefreshHeaders(tab)
      PROVE  Quiet'
  <2>1. UNCHANGED <<token, call, quiet>> /\ flight[tab].at # "none"
    BY <1>8 DEF RefreshLookup, RefreshRotate, RefreshHeaders
  <2> QED
    BY <2>1 DEF Quiet
<1>9. ASSUME NEW tab \in Tabs, RefreshBody(tab) PROVE Quiet'
  <2>1. ~quiet /\ ~quiet'
    BY <1>9 DEF RefreshBody, Quiet
  <2>2. \A c \in Calls : call'[c].at = "none" => call'[c] = call[c]
    BY <1>a, <1>9 DEF RefreshBody, CallStates
  <2> QED
    BY <2>1, <2>2 DEF Quiet
<1>10. ASSUME NEW g \in ghosts, GhostLookup(g) \/ GhostRotate(g) PROVE Quiet'
  BY <1>10 DEF GhostLookup, GhostRotate, Quiet
<1>11. CASE Logout
  <2>1. token' = 0 /\ UNCHANGED <<call, flight>>
    BY <1>11 DEF Logout, ClearAuthTokens
  <2>2. quiet' => \A t \in Tabs : flight[t].at = "none"
    BY <1>11 DEF Logout
  <2>3. quiet' => \A c \in Calls : call[c].at = "none"
    BY <1>11 DEF Logout, Active
  <2> QED
    BY <2>1, <2>2, <2>3 DEF Quiet
<1>12. ASSUME NEW l \in logouts, LogoutHandled(l) \/ LogoutAnswered(l) \/ LogoutLost(l)
       PROVE  Quiet'
  BY <1>12 DEF LogoutHandled, LogoutAnswered, LogoutLost, Quiet
<1>13. CASE CustomerLogin
  BY <1>13 DEF CustomerLogin, SetAuthTokens, Quiet
<1>14. ASSUME NEW tab \in Tabs, Unload(tab) \/ UNCHANGED <<call, flight, ghosts>>, ~quiet'
       PROVE  Quiet'
  BY <1>14, UnloadTyped DEF Quiet, NoCall
<1>15. ASSUME NEW tab \in Tabs, AdminLogin(tab) PROVE Quiet'
  BY <1>14, <1>15 DEF AdminLogin, SetAuthTokens
<1>16. ASSUME NEW c \in Calls, Registered(c) PROVE Quiet'
  <2>1. CASE Unload(call[c].tab)
    BY <1>14, <1>16, <2>1 DEF Registered, SetAuthTokens, TypeInv, OfTab
  <2>2. CASE call' = [call EXCEPT ![c] = NoCall] /\ UNCHANGED <<flight, ghosts>>
    BY <1>a, <1>16, <2>2 DEF Registered, SetAuthTokens, Quiet, NoCall
  <2> QED
    BY <1>16, <2>1, <2>2 DEF Registered
<1>17. CASE Proxy
  BY <1>17 DEF Proxy, Quiet
<1>18. ASSUME NEW tab \in Tabs, Reload(tab) PROVE Quiet'
  BY <1>18, UnloadTyped DEF Reload, Quiet, NoCall, NoFlight
<1>19. ASSUME NEW n \in Pairs, Expire(n) PROVE Quiet'
  BY <1>19 DEF Expire, Quiet
<1> QED
  BY <1>1, <1>2, <1>3, <1>4, <1>6, <1>7, <1>8, <1>9, <1>10, <1>11, <1>12, <1>13, <1>15,
     <1>16, <1>17, <1>18, <1>19
  DEF SessionNext, Settle, Refresh, SubmitSignup

\* After a logout with nothing in progress, no call brings the session back from
\* a refresh token that is still in the cookie jar.
THEOREM LogoutHolds == SessionSpec => []LogoutIsFinal
<1>1. SessionInit => Quiet
  BY DEF SessionInit, Quiet, NoCall
<1>2. Quiet => LogoutIsFinal
  BY DEF Quiet, LogoutIsFinal
<1> QED
  BY <1>1, <1>2, TypeInit, TypeNext, QuietNext, PTL DEF SessionSpec

-------------------------------------------------------------------------------
(***************************************************************************)
(* SessionKept.  As long as nothing happened that excuses the end of a     *)
(* session, the refresh tokens on their way are different ones, each of    *)
(* them is still in Redis until it is exchanged, and so no refresh is      *)
(* refused; what the cookie holds is in Redis or being exchanged.          *)
(***************************************************************************)
InFlight(t) == flight[t].at # "none"
Asking(t) == flight[t].at \in {"sent", "found"}
Rotated(t) == flight[t].at = "rotated"

\* No pair is known before it is issued.
Issued ==
  /\ refresh <= issued
  /\ \A n \in live : n <= issued
  /\ \A t \in Tabs : flight[t].sent <= issued /\ flight[t].pair <= issued
  /\ \A g \in ghosts : g.sent <= issued

\* An answer carries a pair.
Answers == \A t \in Tabs : flight[t].at \in {"rotated", "body"} => flight[t].pair # 0

NobodyRefused == \A t \in Tabs : flight[t].at # "refused"
AskedIsLive == \A t \in Tabs : Asking(t) => flight[t].sent \in live
AskedOnce ==
  /\ \A t, u \in Tabs : t # u /\ InFlight(t) /\ InFlight(u)
                          => flight[t].sent # flight[u].sent
  /\ \A t \in Tabs, g \in ghosts : InFlight(t) => g.sent # flight[t].sent
GhostsAreOld == \A g \in ghosts : g.sent # refresh
CookieIsLive == refresh \in live \/ \E t \in Tabs : Rotated(t) /\ flight[t].sent = refresh
\* A pair on its way to the browser is in nobody's hands.
PairIsFresh(t) ==
  /\ flight[t].pair \in live /\ flight[t].pair # refresh
  /\ \A u \in Tabs : InFlight(u) => flight[u].sent # flight[t].pair
  /\ \A u \in Tabs \ {t} : Rotated(u) => flight[u].pair # flight[t].pair
  /\ \A g \in ghosts : g.sent # flight[t].pair

Kept ==
  /\ token # 0 /\ logouts = {}
  /\ NobodyRefused /\ AskedIsLive /\ AskedOnce /\ GhostsAreOld /\ CookieIsLive
  /\ \A t \in Tabs : Rotated(t) => PairIsFresh(t)

KeptInv == Issued /\ Answers /\ (~excused => Kept)

LEMMA KeptInit == SessionInit => KeptInv
<1> SUFFICES ASSUME SessionInit PROVE KeptInv
  OBVIOUS
<1>1. \A t \in Tabs : flight[t] = NoFlight
  BY DEF SessionInit
<1>2. token = 1 /\ refresh = 1 /\ issued = 1 /\ live = {1} /\ ghosts = {} /\ logouts = {}
  BY DEF SessionInit
<1>3. Issued /\ Answers
  BY <1>1, <1>2 DEF Issued, Answers, NoFlight
<1>4. Kept
  BY <1>1, <1>2
  DEF Kept, NobodyRefused, AskedIsLive, AskedOnce, GhostsAreOld, CookieIsLive, NoFlight,
      InFlight, Asking, Rotated
<1> QED
  BY <1>3, <1>4 DEF KeptInv

LEMMA Integral ==
  ASSUME TypeInv
  PROVE  /\ issued \in Nat /\ refresh \in Nat /\ \A n \in live : n \in Nat
         /\ \A t \in Tabs : flight[t].sent \in Nat /\ flight[t].pair \in Nat
         /\ \A g \in ghosts : g.sent \in Nat
<1>1. MaybePair \subseteq Nat /\ Pairs \subseteq Nat
  BY Numbers DEF MaybePair, Pairs
<1> QED
  BY <1>1 DEF TypeInv, SessionTypeOK, Flights

\* Nothing that matters changed.
LEMMA KeptStays ==
  ASSUME KeptInv,
         UNCHANGED <<token, refresh, issued, live, flight, ghosts, logouts, excused>>
  PROVE  KeptInv'
  BY DEF KeptInv, Issued, Answers, Kept, NobodyRefused, AskedIsLive, AskedOnce,
         GhostsAreOld, CookieIsLive, PairIsFresh, InFlight, Asking, Rotated

\* Of the flights some are dropped, and what they had sent goes on as a ghost.
LEMMA Dropped ==
  ASSUME TypeInv, UNCHANGED <<flight, ghosts>> \/ \E tab \in Tabs : Unload(tab)
  PROVE  /\ \A t \in Tabs : flight'[t] \in {flight[t], NoFlight}
         /\ \A g \in ghosts' :
              \/ g \in ghosts
              \/ \E t \in Tabs : /\ Asking(t) /\ flight'[t] = NoFlight
                                 /\ g.sent = flight[t].sent
<1>1. CASE UNCHANGED <<flight, ghosts>>
  BY <1>1
<1>2. ASSUME NEW tab \in Tabs, Unload(tab)
      PROVE  /\ \A t \in Tabs : flight'[t] \in {flight[t], NoFlight}
             /\ \A g \in ghosts' :
                  \/ g \in ghosts
                  \/ /\ Asking(tab) /\ flight'[tab] = NoFlight
                     /\ g.sent = flight[tab].sent
  <2>1. \A t \in Tabs : flight'[t] = IF t = tab THEN NoFlight ELSE flight[t]
    BY <1>2, UnloadTyped
  <2>2. \A g \in ghosts' : g \in ghosts \/ (Asking(tab) /\ g.sent = flight[tab].sent)
    BY <1>2 DEF Unload, Asking
  <2> QED
    BY <2>1, <2>2
<1> QED
  BY <1>1, <1>2

\* Somebody logs in, in a document that stays or in one that goes.
LEMMA KeptByLogin ==
  ASSUME TypeInv, KeptInv, SetAuthTokens, UNCHANGED <<logouts, excused>>,
         UNCHANGED <<flight, ghosts>> \/ \E tab \in Tabs : Unload(tab)
  PROVE  KeptInv'
<1> DEFINE new == issued + 1
<1>1. /\ issued' = new /\ live' = live \cup {new} /\ refresh' = new /\ token' = new
      /\ new \in Nat /\ new # 0 /\ new > issued
  BY Integral DEF SetAuthTokens
<1> HIDE DEF new
<1>2. \A t \in Tabs : flight'[t] \in {flight[t], NoFlight}
  BY Dropped
<1>3. \A g \in ghosts' : \/ g \in ghosts
                         \/ \E t \in Tabs : /\ Asking(t) /\ flight'[t] = NoFlight
                                            /\ g.sent = flight[t].sent
  BY Dropped
<1>4. Issued'
  BY <1>1, <1>2, <1>3, Integral DEF KeptInv, Issued, NoFlight
<1>5. Answers'
  BY <1>2 DEF KeptInv, Answers, NoFlight
<1>6. ASSUME ~excused PROVE Kept'
  <2>1. Kept /\ Issued
    BY <1>6 DEF KeptInv
  <2>2. token' # 0 /\ logouts' = {} /\ NobodyRefused'
    BY <1>1, <1>2, <1>3, <2>1 DEF Kept, NobodyRefused, NoFlight
  <2>3. AskedIsLive'
    BY <1>1, <1>2, <1>3, <2>1 DEF Kept, AskedIsLive, Asking, NoFlight
  <2>4. AskedOnce'
    BY <1>2, <1>3, <2>1 DEF Kept, AskedOnce, InFlight, Asking, NoFlight
  <2>5. GhostsAreOld' /\ CookieIsLive'
    BY <1>1, <1>2, <1>3, <2>1, Integral DEF Issued, GhostsAreOld, CookieIsLive
  <2>6. ASSUME NEW t \in Tabs, Rotated(t)' PROVE PairIsFresh(t)'
    <3>1. Rotated(t) /\ PairIsFresh(t) /\ flight'[t] = flight[t]
      BY <1>2, <2>1, <2>6 DEF Kept, Rotated, NoFlight
    <3>2. flight[t].pair # new
      BY <1>1, <2>1, Integral DEF Issued
    <3>3. \A g \in ghosts' : g.sent # flight[t].pair
      BY <1>3, <3>1 DEF PairIsFresh, Asking, InFlight
    <3> QED
      BY <1>1, <1>2, <1>3, <3>1, <3>2, <3>3 DEF PairIsFresh, InFlight, Rotated, NoFlight
  <2> QED
    BY <2>2, <2>3, <2>4, <2>5, <2>6 DEF Kept
<1> QED
  BY <1>4, <1>5, <1>6 DEF KeptInv

\* An end of the session that is excused: the numbers are all there is to say.
LEMMA KeptExcused ==
  ASSUME TypeInv, KeptInv, NEW tab \in Tabs, Unload(tab), excused',
         live' \subseteq live, UNCHANGED <<refresh, issued>>
  PROVE  KeptInv'
<1>1. \A t \in Tabs : flight'[t] \in {flight[t], NoFlight}
  BY Dropped
<1>2. \A g \in ghosts' : \/ g \in ghosts
                         \/ \E t \in Tabs : g.sent = flight[t].sent
  BY Dropped
<1>3. Issued'
  BY <1>1, <1>2, Integral DEF KeptInv, Issued, NoFlight
<1>4. Answers'
  BY <1>1 DEF KeptInv, Answers, NoFlight
<1> QED
  BY <1>3, <1>4 DEF KeptInv

\* A tab asks for a refresh with what is in the cookie.
LEMMA KeptByRequest ==
  ASSUME TypeInv, KeptInv, NEW tab \in Tabs, RequestTokenRefresh(tab),
         UNCHANGED <<token, refresh, issued, live, ghosts, logouts>>
  PROVE  KeptInv'
<1>1. CASE UNCHANGED <<flight, excused>>
  BY <1>1, KeptStays
<1>2. ASSUME ~InFlight(tab), SendRefresh(tab) PROVE KeptInv'
  <2> DEFINE asks == [at |-> "sent", sent |-> refresh, pair |-> 0]
  <2>1. \A t \in Tabs : flight'[t] = IF t = tab THEN asks ELSE flight[t]
    BY <1>2 DEF SendRefresh, TypeInv, SessionTypeOK
  <2>2. Issued'
    BY <2>1, Integral DEF KeptInv, Issued
  <2>3. Answers'
    BY <2>1 DEF KeptInv, Answers
  <2>4. ASSUME ~excused' PROVE Kept'
    <3>1. Kept
      BY <1>2, <2>4 DEF SendRefresh, KeptInv
    <3>2. /\ \A u \in Tabs \ {tab} : InFlight(u) => flight[u].sent # refresh
          /\ \A g \in ghosts : g.sent # refresh
      BY <1>2, <2>4 DEF SendRefresh, SentElsewhere, InFlight
    <3>3. refresh \in live
      BY <1>2, <3>1, <3>2 DEF Kept, CookieIsLive, InFlight, Rotated
    <3>4. NobodyRefused' /\ AskedIsLive'
      BY <2>1, <3>1, <3>3 DEF Kept, NobodyRefused, AskedIsLive, Asking
    <3>5. AskedOnce'
      BY <2>1, <3>1, <3>2 DEF Kept, AskedOnce, InFlight
    <3>6. GhostsAreOld' /\ CookieIsLive'
      BY <3>1, <3>3 DEF Kept, GhostsAreOld, CookieIsLive
    <3>7. ASSUME NEW t \in Tabs, Rotated(t)' PROVE PairIsFresh(t)'
      <4>1. t # tab /\ Rotated(t) /\ PairIsFresh(t) /\ flight'[t] = flight[t]
        BY <2>1, <3>1, <3>7 DEF Kept, Rotated
      <4> QED
        BY <2>1, <4>1 DEF PairIsFresh, InFlight, Rotated
    <3> QED
      BY <3>1, <3>4, <3>5, <3>6, <3>7 DEF Kept
  <2> QED
    BY <2>2, <2>3, <2>4 DEF KeptInv
<1> QED
  BY <1>1, <1>2 DEF RequestTokenRefresh, InFlight

\* The server finds the token it was sent.
LEMMA KeptByLookup ==
  ASSUME TypeInv, KeptInv, NEW tab \in Tabs, RefreshLookup(tab)
  PROVE  KeptInv'
<1>1. /\ flight[tab].at = "sent"
      /\ \A t \in Tabs \ {tab} : flight'[t] = flight[t]
      /\ flight'[tab].at \in {"found", "refused"}
      /\ flight[tab].sent \in live => flight'[tab].at = "found"
      /\ flight'[tab].sent = flight[tab].sent /\ flight'[tab].pair = flight[tab].pair
  BY DEF RefreshLookup, TypeInv, SessionTypeOK, Flights
<1>2. UNCHANGED <<token, refresh, issued, live, ghosts, logouts, excused>>
  BY DEF RefreshLookup
<1>3. Issued' /\ Answers'
  BY <1>1, <1>2 DEF KeptInv, Issued, Answers
<1>4. ASSUME ~excused PROVE Kept'
  <2>1. Kept
    BY <1>4 DEF KeptInv
  <2>2. flight'[tab].at = "found"
    BY <1>1, <2>1 DEF Kept, AskedIsLive, Asking
  <2>3. \A t \in Tabs : /\ InFlight(t)' = InFlight(t) /\ Asking(t)' = Asking(t)
                        /\ Rotated(t)' = Rotated(t)
                        /\ flight'[t].sent = flight[t].sent /\ flight'[t].pair = flight[t].pair
    BY <1>1, <2>2 DEF InFlight, Asking, Rotated
  <2>4. NobodyRefused'
    BY <1>1, <2>1, <2>2 DEF Kept, NobodyRefused
  <2> QED
    BY <1>2, <2>1, <2>3, <2>4
    DEF Kept, AskedIsLive, AskedOnce, GhostsAreOld, CookieIsLive, PairIsFresh
<1> QED
  BY <1>2, <1>3, <1>4 DEF KeptInv

\* It exchanges the token: nobody else was about to.
LEMMA KeptByRotate ==
  ASSUME TypeInv, KeptInv, NEW tab \in Tabs, RefreshRotate(tab)
  PROVE  KeptInv'
<1> DEFINE new == issued + 1
<1>1. /\ flight[tab].at = "found"
      /\ \A t \in Tabs \ {tab} : flight'[t] = flight[t]
      /\ flight'[tab].at = "rotated" /\ flight'[tab].sent = flight[tab].sent
      /\ flight'[tab].pair = new
  BY DEF RefreshRotate, TypeInv, SessionTypeOK, Flights
<1>2. /\ issued' = new /\ live' = (live \ {flight[tab].sent}) \cup {new}
      /\ UNCHANGED <<token, refresh, ghosts, logouts, excused>>
  BY DEF RefreshRotate, Rotate
<1>3. new \in Nat /\ new # 0 /\ new > issued
  BY Integral
<1> HIDE DEF new
<1>4. Issued'
  BY <1>1, <1>2, <1>3, Integral DEF KeptInv, Issued
<1>5. Answers'
  BY <1>1, <1>3 DEF KeptInv, Answers
<1>6. ASSUME ~excused PROVE Kept'
  <2>1. Kept /\ Issued
    BY <1>6 DEF KeptInv
  <2>2. InFlight(tab) /\ ~Rotated(tab)
    BY <1>1 DEF InFlight, Rotated
  <2>3. /\ \A t \in Tabs : InFlight(t)' => InFlight(t) /\ flight'[t].sent = flight[t].sent
        /\ \A t \in Tabs : Asking(t)' => t # tab /\ Asking(t)
        /\ \A t \in Tabs \ {tab} : Rotated(t)' = Rotated(t)
        /\ Rotated(tab)'
    BY <1>1, <2>2 DEF InFlight, Asking, Rotated
  <2>4. \A t \in Tabs \ {tab} : InFlight(t) => flight[t].sent # flight[tab].sent
    BY <2>1, <2>2 DEF Kept, AskedOnce
  <2>5. NobodyRefused' /\ AskedIsLive'
    BY <1>1, <1>2, <2>1, <2>3, <2>4
    DEF Kept, NobodyRefused, AskedIsLive, Asking, InFlight
  <2>6. AskedOnce' /\ GhostsAreOld'
    BY <1>2, <2>1, <2>3 DEF Kept, AskedOnce, GhostsAreOld
  <2>7. CookieIsLive'
    BY <1>1, <1>2, <2>1, <2>3 DEF Kept, CookieIsLive, Rotated
  <2>8. ASSUME NEW t \in Tabs, t # tab, Rotated(t)' PROVE PairIsFresh(t)'
    <3>1. PairIsFresh(t) /\ flight'[t] = flight[t]
      BY <1>1, <2>1, <2>3, <2>8 DEF Kept
    <3>2. flight[t].pair # new /\ flight[t].pair # flight[tab].sent
      BY <1>3, <2>1, <2>2, <3>1, Integral DEF Issued, PairIsFresh
    <3> QED
      BY <1>1, <1>2, <2>3, <3>1, <3>2 DEF PairIsFresh
  <2>9. PairIsFresh(tab)'
    <3>1. /\ refresh # new /\ \A t \in Tabs : flight[t].sent # new /\ flight[t].pair # new
          /\ \A g \in ghosts : g.sent # new
      BY <1>3, <2>1, Integral DEF Issued
    <3> QED
      BY <1>1, <1>2, <2>3, <3>1 DEF PairIsFresh
  <2> QED
    BY <1>2, <2>1, <2>5, <2>6, <2>7, <2>8, <2>9 DEF Kept
<1> QED
  BY <1>2, <1>4, <1>5, <1>6 DEF KeptInv

\* The new pair arrives: its refresh token first ...
LEMMA KeptByHeaders ==
  ASSUME TypeInv, KeptInv, NEW tab \in Tabs, RefreshHeaders(tab)
  PROVE  KeptInv'
<1>1. /\ Rotated(tab) /\ refresh' = flight[tab].pair
      /\ \A t \in Tabs \ {tab} : flight'[t] = flight[t]
      /\ flight'[tab].at = "body" /\ flight'[tab].sent = flight[tab].sent
      /\ flight'[tab].pair = flight[tab].pair
  BY DEF RefreshHeaders, Rotated, TypeInv, SessionTypeOK, Flights
<1>2. UNCHANGED <<token, issued, live, ghosts, logouts, excused>>
  BY DEF RefreshHeaders
<1>3. Issued'
  BY <1>1, <1>2 DEF KeptInv, Issued
<1>4. Answers'
  BY <1>1 DEF KeptInv, Answers, Rotated
<1>5. ASSUME ~excused PROVE Kept'
  <2>1. Kept /\ PairIsFresh(tab)
    BY <1>1, <1>5 DEF KeptInv, Kept
  <2>2. /\ \A t \in Tabs : InFlight(t)' = InFlight(t) /\ Asking(t)' = Asking(t)
                             /\ flight'[t].sent = flight[t].sent
                             /\ flight'[t].pair = flight[t].pair
        /\ \A t \in Tabs : Rotated(t)' => t # tab /\ Rotated(t)
    BY <1>1 DEF InFlight, Asking, Rotated
  <2>3. NobodyRefused'
    BY <1>1, <2>1 DEF Kept, NobodyRefused
  <2>4. AskedIsLive' /\ AskedOnce'
    BY <1>2, <2>1, <2>2 DEF Kept, AskedIsLive, AskedOnce
  <2>5. GhostsAreOld' /\ CookieIsLive'
    BY <1>1, <1>2, <2>1 DEF PairIsFresh, GhostsAreOld, CookieIsLive
  <2>6. ASSUME NEW t \in Tabs, Rotated(t)' PROVE PairIsFresh(t)'
    BY <1>1, <1>2, <2>1, <2>2, <2>6 DEF Kept, PairIsFresh
  <2> QED
    BY <1>2, <2>1, <2>3, <2>4, <2>5, <2>6 DEF Kept
<1> QED
  BY <1>2, <1>3, <1>4, <1>5 DEF KeptInv

\* ... then its access token, and the flight is over.
LEMMA KeptByBody ==
  ASSUME TypeInv, KeptInv, NEW tab \in Tabs, RefreshBody(tab)
  PROVE  KeptInv'
<1>1. /\ flight[tab].at = "body" /\ token' = flight[tab].pair
      /\ \A t \in Tabs : flight'[t] = IF t = tab THEN NoFlight ELSE flight[t]
  BY DEF RefreshBody, TypeInv, SessionTypeOK
<1>2. UNCHANGED <<refresh, issued, live, ghosts, logouts, excused>>
  BY DEF RefreshBody
<1>3. Issued'
  BY <1>1, <1>2, Integral DEF KeptInv, Issued, NoFlight
<1>4. Answers'
  BY <1>1 DEF KeptInv, Answers, NoFlight
<1>5. token' # 0
  BY <1>1 DEF KeptInv, Answers
<1>6. ASSUME ~excused PROVE Kept'
  <2>1. Kept
    BY <1>6 DEF KeptInv
  <2>2. /\ \A t \in Tabs : /\ InFlight(t)' => t # tab /\ InFlight(t)
                           /\ Asking(t)' => t # tab /\ Asking(t)
                           /\ Rotated(t)' <=> Rotated(t)
        /\ ~Rotated(tab)
    BY <1>1 DEF InFlight, Asking, Rotated, NoFlight
  <2>3. NobodyRefused'
    BY <1>1, <2>1 DEF Kept, NobodyRefused, NoFlight
  <2>4. AskedIsLive' /\ AskedOnce'
    BY <1>1, <1>2, <2>1, <2>2 DEF Kept, AskedIsLive, AskedOnce
  <2>5. GhostsAreOld' /\ CookieIsLive'
    BY <1>1, <1>2, <2>1, <2>2 DEF Kept, GhostsAreOld, CookieIsLive
  <2>6. ASSUME NEW t \in Tabs, Rotated(t)' PROVE PairIsFresh(t)'
    BY <1>1, <1>2, <2>1, <2>2, <2>6 DEF Kept, PairIsFresh
  <2> QED
    BY <1>2, <1>5, <2>1, <2>3, <2>4, <2>5, <2>6 DEF Kept
<1> QED
  BY <1>2, <1>3, <1>4, <1>6 DEF KeptInv

\* A refresh nobody waits for is handled: its token was an old one.
LEMMA KeptByGhost ==
  ASSUME TypeInv, KeptInv, NEW g \in ghosts, GhostLookup(g) \/ GhostRotate(g)
  PROVE  KeptInv'
<1>1. UNCHANGED <<token, refresh, flight, logouts, excused>>
  BY DEF GhostLookup, GhostRotate
<1>2. \A h \in ghosts' : \E k \in ghosts : h.sent = k.sent
  BY DEF GhostLookup, GhostRotate, TypeInv, SessionTypeOK
<1>3. /\ issued' \in {issued, issued + 1}
      /\ \A n \in live' : n <= issued'
      /\ live \ {g.sent} \subseteq live'
  BY Integral DEF GhostLookup, GhostRotate, Rotate, KeptInv, Issued
<1>4. Issued'
  BY <1>1, <1>2, <1>3, Integral DEF KeptInv, Issued
<1>5. Answers'
  BY <1>1 DEF KeptInv, Answers
<1>6. ASSUME ~excused PROVE Kept'
  <2>1. Kept
    BY <1>6 DEF KeptInv
  <2>2. \A t \in Tabs : /\ InFlight(t)' = InFlight(t) /\ Asking(t)' = Asking(t)
                        /\ Rotated(t)' = Rotated(t)
    BY <1>1 DEF InFlight, Asking, Rotated
  <2>3. NobodyRefused' /\ GhostsAreOld' /\ AskedOnce'
    BY <1>1, <1>2, <2>1, <2>2 DEF Kept, NobodyRefused, GhostsAreOld, AskedOnce
  <2>4. AskedIsLive'
    BY <1>1, <1>3, <2>1, <2>2 DEF Kept, AskedIsLive, AskedOnce, Asking, InFlight
  <2>5. CookieIsLive'
    BY <1>1, <1>3, <2>1, <2>2 DEF Kept, CookieIsLive, GhostsAreOld
  <2>6. ASSUME NEW t \in Tabs, Rotated(t)' PROVE PairIsFresh(t)'
    BY <1>1, <1>2, <1>3, <2>1, <2>2, <2>6 DEF Kept, PairIsFresh
  <2> QED
    BY <1>1, <2>1, <2>3, <2>4, <2>5, <2>6 DEF Kept
<1> QED
  BY <1>1, <1>4, <1>5, <1>6 DEF KeptInv

LEMMA KeptNext == TypeInv /\ KeptInv /\ [SessionNext]_sessionVars => KeptInv'
<1> SUFFICES ASSUME TypeInv, KeptInv, [SessionNext]_sessionVars PROVE KeptInv'
  OBVIOUS
<1>1. CASE UNCHANGED sessionVars
  BY <1>1, KeptStays DEF sessionVars
<1>2. ASSUME NEW c \in Calls, NEW tab \in Tabs, NEW kind, StartCall(c, tab, kind)
      PROVE  KeptInv'
  BY <1>2, KeptStays DEF StartCall
<1>3. ASSUME NEW c \in Calls, CallAnswered(c) \/ CallRefused(c) PROVE KeptInv'
  BY <1>3, KeptStays DEF CallAnswered, CallRefused
<1>4. ASSUME NEW c \in Calls, CallRefreshes(c) PROVE KeptInv'
  BY <1>4, KeptByRequest DEF CallRefreshes, Unauthorized, TypeInv, OfTab
<1>5. ASSUME NEW c \in Calls, CallGivesUp(c) PROVE KeptInv'
  BY <1>5, KeptExcused DEF CallGivesUp, Unauthorized, TearDown, TypeInv, OfTab
<1>6. ASSUME NEW tab \in Tabs, RefreshRefused(tab) PROVE KeptInv'
  <2>1. excused
    BY <1>6 DEF RefreshRefused, KeptInv, Kept, NobodyRefused
  <2> QED
    BY <1>6, <2>1, KeptExcused DEF RefreshRefused, TearDown
<1>7. ASSUME NEW tab \in Tabs, RefreshLost(tab) PROVE KeptInv'
  <2>1. live' \subseteq live
    BY <1>7 DEF RefreshLost
  <2> QED
    BY <1>7, <2>1, KeptExcused DEF RefreshLost, TearDown
<1>8. ASSUME NEW tab \in Tabs, RefreshLookup(tab) \/ RefreshRotate(tab)
                                 \/ RefreshHeaders(tab) \/ RefreshBody(tab)
      PROVE  KeptInv'
  BY <1>8, KeptByLookup, KeptByRotate, KeptByHeaders, KeptByBody
<1>9. ASSUME NEW g \in ghosts, GhostLookup(g) \/ GhostRotate(g) PROVE KeptInv'
  BY <1>9, KeptByGhost
<1>10. ASSUME excused', UNCHANGED <<refresh, issued, flight, ghosts>>, live' \subseteq live
       PROVE  KeptInv'
  BY <1>10 DEF KeptInv, Issued, Answers
<1>11. CASE Logout
  BY <1>10, <1>11 DEF Logout
<1>12. ASSUME NEW l \in logouts PROVE excused
  BY <1>12 DEF KeptInv, Kept
<1>13. ASSUME NEW l \in logouts, LogoutHandled(l) \/ LogoutLost(l) PROVE KeptInv'
  BY <1>10, <1>12, <1>13 DEF LogoutHandled, LogoutLost
<1>14. ASSUME NEW l \in logouts, LogoutAnswered(l) PROVE KeptInv'
  BY <1>14, Integral DEF LogoutAnswered, KeptInv, Issued, Answers
<1>15. CASE CustomerLogin
  BY <1>15, KeptByLogin DEF CustomerLogin
<1>16. ASSUME NEW tab \in Tabs, AdminLogin(tab) PROVE KeptInv'
  BY <1>16, KeptByLogin DEF AdminLogin
<1>17. ASSUME NEW c \in Calls, Registered(c) PROVE KeptInv'
  BY <1>17, KeptByLogin DEF Registered, TypeInv, OfTab
<1>18. CASE Proxy
  BY <1>10, <1>18 DEF Proxy
<1>19. ASSUME NEW tab \in Tabs, Reload(tab) PROVE KeptInv'
  BY <1>19, KeptExcused DEF Reload
<1>20. ASSUME NEW n \in Pairs, Expire(n) PROVE KeptInv'
  BY <1>20, KeptStays DEF Expire
<1> QED
  BY <1>1, <1>2, <1>3, <1>4, <1>5, <1>6, <1>7, <1>8, <1>9, <1>11, <1>13, <1>14, <1>15,
     <1>16, <1>17, <1>18, <1>19, <1>20
  DEF SessionNext, Settle, Refresh, SubmitSignup

\* However many calls and tabs refresh at one time, the session goes on, unless
\* one of the things happened that may end it.
THEOREM SessionIsKept == SessionSpec => []SessionKept
<1>1. KeptInv => SessionKept
  BY DEF KeptInv, Kept, SessionKept
<1> QED
  BY <1>1, TypeInit, TypeNext, KeptInit, KeptNext, PTL DEF SessionSpec
================================================================================
