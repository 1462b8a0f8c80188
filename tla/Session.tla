-------------------------------- MODULE Session --------------------------------
(***************************************************************************)
(* One browser's session with the API.  The tabs share three cookies: the  *)
(* access token, the HttpOnly refresh token and the store's slug; each tab *)
(* has its own JavaScript, and so its own single-flight refresh            *)
(* (apiClient.ts:13).  A refresh token is exchanged once: the server looks *)
(* it up in Redis, deletes it, and issues the next pair.                   *)
(*                                                                         *)
(* A pair of tokens is a number, counted up by the server; 0 is no token.  *)
(* Access tokens expire after an hour, refresh tokens after seven days,    *)
(* which is out of this model's reach.  Which page a tab shows is left out *)
(* too: every page links to the forms, so it restricts nothing that comes  *)
(* next, and so are the role and the slug, which go with the tokens.       *)
(***************************************************************************)
EXTENDS Naturals, FiniteSets

CONSTANTS Tabs,
          Calls,       \* calls of apiClient in progress at one time
          MaxPairs,    \* bound: pairs of tokens the server issues
          MaxMishaps   \* bound: reloads, lost replies and server errors

ASSUME SessionAssumption ==
  MaxPairs \in Nat \ {0} /\ MaxMishaps \in Nat /\ IsFiniteSet(Calls)

VARIABLES
  token,     \* cookie "token": the access token of which pair
  refresh,   \* HttpOnly cookie "refresh_token": of which pair
  issued,    \* pairs issued so far
  live,      \* keys refresh:<jti> in Redis
  expired,   \* access tokens past their hour
  flight,    \* each tab's refreshPromise
  ghosts,    \* refresh requests whose tab is gone
  logouts,   \* logout requests on their way: the refresh token they carry
  call,      \* calls of apiClient
  mishaps,
  excused,   \* history: something happened that may end a session
  quiet      \* history: logged out, with nothing in progress, and not in again

sessionVars == <<token, refresh, issued, live, expired, flight, ghosts, logouts,
                 call, mishaps, excused, quiet>>

Pairs == 1..MaxPairs
MaybePair == 0..MaxPairs

\* refreshPromise is null, or waits for an answer to the refresh token it sent.
NoFlight == [at |-> "none", sent |-> 0, pair |-> 0]
Flights == [at : {"none", "sent", "found", "refused", "rotated", "body"},
            sent : MaybePair, pair : MaybePair]

\* A call holds the token it read when it began and the one it sent.
NoCall == [at |-> "none", tab |-> "none", kind |-> "data", token |-> 0, sent |-> 0,
           retry |-> FALSE]
CallStates == [at : {"none", "sent", "refresh"}, tab : Tabs \cup {"none"},
               kind : {"data", "register"},
               token : MaybePair, sent : MaybePair, retry : BOOLEAN]

SessionTypeOK ==
  /\ token \in MaybePair /\ refresh \in MaybePair /\ issued \in MaybePair
  /\ live \subseteq Pairs /\ expired \subseteq Pairs
  /\ flight \in [Tabs -> Flights]
  /\ ghosts \subseteq [sent : MaybePair, found : BOOLEAN]
  /\ logouts \subseteq [sent : MaybePair, handled : BOOLEAN]
  /\ call \in [Calls -> CallStates]
  /\ mishaps \in 0..MaxMishaps
  /\ excused \in BOOLEAN /\ quiet \in BOOLEAN

-------------------------------------------------------------------------------
Active == {c \in Calls : call[c].at # "none"}
Waiting(tab) == {c \in Calls : call[c].at = "refresh" /\ call[c].tab = tab}

\* A call in progress can still ask for one more pair, a registration for two, a
\* refresh nobody waits for gets one: the bound leaves room for what is started.
Needs(kind) == IF kind = "register" THEN 2 ELSE 1
PairsToSpare(needed) ==
  issued + Cardinality(Active) + Cardinality({c \in Active : call[c].kind = "register"})
    + Cardinality(ghosts) + needed <= MaxPairs

\* A document is unloaded: its calls and its promise go with it.  A refresh it
\* had sent is still handled by the server, and nobody hears of it.
Unload(tab) ==
  /\ call' = [c \in Calls |-> IF call[c].tab = tab THEN NoCall ELSE call[c]]
  /\ flight' = [flight EXCEPT ![tab] = NoFlight]
  /\ ghosts' = IF flight[tab].at \in {"sent", "found"}
                 THEN ghosts \cup {[sent |-> flight[tab].sent,
                                    found |-> flight[tab].at = "found"]}
                 ELSE ghosts

\* clearAuthTokens: the cookies JavaScript can see go at once, and a request
\* nobody waits for asks the server to drop the refresh token.
ClearAuthTokens ==
  /\ token' = 0
  /\ logouts' = logouts \cup {[sent |-> refresh, handled |-> FALSE]}

\* The session is over: redirectToLogin replaces the document.
TearDown(tab) ==
  /\ ClearAuthTokens
  /\ Unload(tab)

\* Two tabs that send the same refresh token cannot both succeed for sure.
SentElsewhere(tab) ==
  \/ \E u \in Tabs \ {tab} : flight[u].at # "none" /\ flight[u].sent = refresh
  \/ \E g \in ghosts : g.sent = refresh

SendRefresh(tab) ==
  /\ flight' = [flight EXCEPT ![tab] = [at |-> "sent", sent |-> refresh, pair |-> 0]]
  /\ excused' = (excused \/ SentElsewhere(tab))

\* Mutant: every call sends a refresh of its own.
RefreshForEachCall(tab) == SendRefresh(tab)

\* requestTokenRefresh: join the tab's refresh, or send one with the cookie.
RequestTokenRefresh(tab) ==
  IF flight[tab].at # "none" THEN UNCHANGED <<flight, excused>> ELSE SendRefresh(tab)

-------------------------------------------------------------------------------
SessionInit ==
  /\ token = 1 /\ refresh = 1 /\ issued = 1 /\ live = {1} /\ expired = {}
  /\ flight = [t \in Tabs |-> NoFlight]
  /\ ghosts = {} /\ logouts = {}
  /\ call = [c \in Calls |-> NoCall]
  /\ mishaps = 0 /\ excused = FALSE /\ quiet = FALSE

\* apiClient is called: by any page with data, or (SubmitSignup) by the signup
\* form, whose endpoint is not one of those that apiClient exempts.
StartCall(c, tab, kind) ==
  /\ call[c].at = "none" /\ PairsToSpare(Needs(kind))
  /\ call' = [call EXCEPT ![c] = [at |-> "sent", tab |-> tab, kind |-> kind,
                                  token |-> token, sent |-> token, retry |-> FALSE]]
  /\ UNCHANGED <<token, refresh, issued, live, expired, flight, ghosts, logouts,
                 mishaps, excused, quiet>>

\* Anything but a 401: the caller gets its data, or an ApiError to show.
CallAnswered(c) ==
  /\ call[c].at = "sent"
  /\ call[c].kind = "data" => call[c].sent # 0
  /\ call' = [call EXCEPT ![c] = NoCall]
  /\ UNCHANGED <<token, refresh, issued, live, expired, flight, ghosts, logouts,
                 mishaps, excused, quiet>>

\* A 401: for a missing or expired token, or for a seller's wrong password.
Unauthorized(c) ==
  /\ call[c].at = "sent"
  /\ call[c].kind = "register" \/ call[c].sent \in {0} \cup expired

\* Mutant: a call that had no token refreshes, too.
CallRefreshesAnyway(c) ==
  /\ Unauthorized(c) /\ ~call[c].retry
  /\ call' = [call EXCEPT ![c].at = "refresh"]
  /\ RequestTokenRefresh(call[c].tab)
  /\ UNCHANGED <<token, refresh, issued, live, expired, ghosts, logouts, mishaps,
                 quiet>>

\* First time, with a token: wait for a refresh.
CallRefreshes(c) ==
  /\ Unauthorized(c) /\ call[c].token # 0 /\ ~call[c].retry
  /\ call' = [call EXCEPT ![c].at = "refresh"]
  /\ RequestTokenRefresh(call[c].tab)
  /\ UNCHANGED <<token, refresh, issued, live, expired, ghosts, logouts, mishaps,
                 quiet>>

\* Second time: the session is over.
CallGivesUp(c) ==
  /\ Unauthorized(c) /\ call[c].token # 0 /\ call[c].retry
  /\ TearDown(call[c].tab) /\ excused' = TRUE
  /\ UNCHANGED <<refresh, issued, live, expired, mishaps, quiet>>

\* Never logged in: the caller sees the 401.
CallRefused(c) ==
  /\ Unauthorized(c) /\ call[c].token = 0
  /\ call' = [call EXCEPT ![c] = NoCall]
  /\ UNCHANGED <<token, refresh, issued, live, expired, flight, ghosts, logouts,
                 mishaps, excused, quiet>>

-------------------------------------------------------------------------------
\* The server looks the refresh token up ...
RefreshLookup(tab) ==
  /\ flight[tab].at = "sent"
  /\ flight' = [flight EXCEPT ![tab].at =
                  IF flight[tab].sent \in live THEN "found" ELSE "refused"]
  /\ UNCHANGED <<token, refresh, issued, live, expired, ghosts, logouts, call,
                 mishaps, excused, quiet>>

\* ... deletes it, whether it is still there or not, and issues a pair.
Rotate(sent) ==
  /\ issued < MaxPairs
  /\ issued' = issued + 1
  /\ live' = (live \ {sent}) \cup {issued + 1}

RefreshRotate(tab) ==
  /\ flight[tab].at = "found"
  /\ Rotate(flight[tab].sent)
  /\ flight' = [flight EXCEPT ![tab].at = "rotated", ![tab].pair = issued + 1]
  /\ UNCHANGED <<token, refresh, expired, ghosts, logouts, call, mishaps, excused,
                 quiet>>

\* A refresh whose tab is gone is handled all the same.
GhostLookup(g) ==
  /\ ~g.found
  /\ ghosts' = IF g.sent \in live THEN (ghosts \ {g}) \cup {[g EXCEPT !.found = TRUE]}
                                  ELSE ghosts \ {g}
  /\ UNCHANGED <<token, refresh, issued, live, expired, flight, logouts, call,
                 mishaps, excused, quiet>>

GhostRotate(g) ==
  /\ g.found
  /\ Rotate(g.sent)
  /\ ghosts' = ghosts \ {g}
  /\ UNCHANGED <<token, refresh, expired, flight, logouts, call, mishaps, excused,
                 quiet>>

\* The answer's headers set the cookie ...
RefreshHeaders(tab) ==
  /\ flight[tab].at = "rotated"
  /\ refresh' = flight[tab].pair
  /\ flight' = [flight EXCEPT ![tab].at = "body"]
  /\ UNCHANGED <<token, issued, live, expired, ghosts, logouts, call, mishaps,
                 excused, quiet>>

\* ... and its body the access token; whoever waits sends its request again.
RefreshBody(tab) ==
  /\ flight[tab].at = "body"
  /\ token' = flight[tab].pair
  /\ flight' = [flight EXCEPT ![tab] = NoFlight]
  /\ call' = [c \in Calls |->
                IF c \in Waiting(tab)
                  THEN [call[c] EXCEPT !.at = "sent", !.token = flight[tab].pair,
                                       !.sent = flight[tab].pair, !.retry = TRUE]
                  ELSE call[c]]
  /\ UNCHANGED <<refresh, issued, live, expired, ghosts, logouts, mishaps,
                 excused, quiet>>

\* Mutant: whoever waits is not told.
RefreshRefusedSilently(tab) ==
  /\ flight[tab].at = "refused"
  /\ flight' = [flight EXCEPT ![tab] = NoFlight]
  /\ UNCHANGED <<token, refresh, issued, live, expired, ghosts, logouts, call,
                 mishaps, excused, quiet>>

\* The answer is a 401: whoever waits tears the session down, the tab goes to
\* the login page.
RefreshRefused(tab) ==
  /\ flight[tab].at = "refused"
  /\ TearDown(tab)
  /\ UNCHANGED <<refresh, issued, live, expired, mishaps, excused, quiet>>

\* No answer, none but its headers, or a 500 after the old token was deleted: the
\* same for the tab.
RefreshLost(tab) ==
  /\ flight[tab].at \in {"sent", "found", "rotated", "body"} /\ mishaps < MaxMishaps
  /\ mishaps' = mishaps + 1
  /\ live' \in {live, live \ IF flight[tab].at = "found" THEN {flight[tab].sent} ELSE {}}
  /\ TearDown(tab) /\ excused' = TRUE
  /\ UNCHANGED <<refresh, issued, expired, quiet>>

-------------------------------------------------------------------------------
\* The user logs out.
Logout ==
  /\ token # 0
  /\ ClearAuthTokens
  /\ excused' = TRUE
  /\ quiet' = (Active = {} /\ \A t \in Tabs : flight[t].at = "none")
  /\ UNCHANGED <<refresh, issued, live, expired, flight, ghosts, call, mishaps>>

LogoutHandled(l) ==
  /\ ~l.handled
  /\ live' = live \ {l.sent}
  /\ logouts' = (logouts \ {l}) \cup {[l EXCEPT !.handled = TRUE]}
  /\ UNCHANGED <<token, refresh, issued, expired, flight, ghosts, call, mishaps,
                 excused, quiet>>

\* Its answer drops the cookie, whichever it is by now.
LogoutAnswered(l) ==
  /\ l.handled
  /\ refresh' = 0
  /\ logouts' = logouts \ {l}
  /\ excused' = TRUE
  /\ UNCHANGED <<token, issued, live, expired, flight, ghosts, call, mishaps,
                 quiet>>

\* Nobody waits for it: the page may be gone before it is sent or answered.
LogoutLost(l) ==
  /\ mishaps < MaxMishaps /\ mishaps' = mishaps + 1
  /\ logouts' = logouts \ {l}
  /\ UNCHANGED <<token, refresh, issued, live, expired, flight, ghosts, call,
                 excused, quiet>>

\* A login or a registration succeeds: headers and body of one answer.
SetAuthTokens ==
  /\ issued' = issued + 1 /\ live' = live \cup {issued + 1}
  /\ refresh' = issued + 1 /\ token' = issued + 1
  /\ quiet' = FALSE

\* A customer goes on in the same document, a vendor by a new one, unless the
\* login was one of no store.
CustomerLogin ==
  /\ PairsToSpare(1)
  /\ SetAuthTokens
  /\ UNCHANGED <<expired, flight, ghosts, logouts, call, mishaps, excused>>

AdminLogin(tab) ==
  /\ PairsToSpare(1)
  /\ SetAuthTokens
  /\ Unload(tab) \/ UNCHANGED <<call, flight, ghosts>>
  /\ UNCHANGED <<expired, logouts, mishaps, excused>>

SubmitSignup(c, tab) == StartCall(c, tab, "register")

Registered(c) ==
  /\ call[c].at = "sent" /\ call[c].kind = "register" /\ issued < MaxPairs
  /\ SetAuthTokens
  /\ \/ Unload(call[c].tab)
     \/ call' = [call EXCEPT ![c] = NoCall] /\ UNCHANGED <<flight, ghosts>>
  /\ UNCHANGED <<expired, logouts, mishaps, excused>>

\* The proxy in front of /admin drops the cookies of a token that cannot be
\* used, without a look at the refresh token.
Proxy ==
  /\ token \in expired
  /\ token' = 0
  /\ excused' = TRUE
  /\ UNCHANGED <<refresh, issued, live, expired, flight, ghosts, logouts, call,
                 mishaps, quiet>>

\* The user reloads a page that waits for a refresh.
Reload(tab) ==
  /\ mishaps < MaxMishaps /\ mishaps' = mishaps + 1
  /\ flight[tab].at # "none"
  /\ Unload(tab)
  /\ excused' = TRUE
  /\ UNCHANGED <<token, refresh, issued, live, expired, logouts, quiet>>

\* The hour of an access token that somebody still holds is over.
Expire(n) ==
  /\ n \in {token} \cup {call[c].sent : c \in Calls} \cup {flight[t].pair : t \in Tabs}
  /\ n \notin expired
  /\ expired' = expired \cup {n}
  /\ UNCHANGED <<token, refresh, issued, live, flight, ghosts, logouts, call,
                 mishaps, excused, quiet>>

-------------------------------------------------------------------------------
\* What the browser and the server do without anybody's wish.
Settle(c) == CallAnswered(c) \/ CallRefreshes(c) \/ CallGivesUp(c) \/ CallRefused(c)
               \/ Registered(c)
Refresh(tab) == \/ RefreshLookup(tab) \/ RefreshRotate(tab) \/ RefreshHeaders(tab)
                \/ RefreshBody(tab) \/ RefreshRefused(tab) \/ RefreshLost(tab)

SessionNext ==
  \/ \E c \in Calls : \/ Settle(c)
                     \/ \E tab \in Tabs : StartCall(c, tab, "data") \/ SubmitSignup(c, tab)
  \/ \E tab \in Tabs : Refresh(tab) \/ AdminLogin(tab) \/ Reload(tab)
  \/ CustomerLogin \/ Logout \/ Proxy
  \/ \E g \in ghosts : GhostLookup(g) \/ GhostRotate(g)
  \/ \E l \in logouts : LogoutHandled(l) \/ LogoutAnswered(l) \/ LogoutLost(l)
  \/ \E n \in Pairs : Expire(n)

SessionSpec == SessionInit /\ [][SessionNext]_sessionVars

SessionFairness == /\ \A c \in Calls : WF_sessionVars(Settle(c))
                   /\ \A tab \in Tabs : WF_sessionVars(Refresh(tab))

-------------------------------------------------------------------------------
\* A session is not lost to its own refreshes: whatever calls the tabs make at
\* the same time, and however late their 401s arrive, the access token is there
\* unless somebody logged out, an answer was lost, two tabs sent the same
\* refresh token at the same time, a token expired again before its request was
\* repeated, a registration was refused, or an expired token met the proxy
\* (apiClient.ts:73-90).
SessionKept == ~excused => token # 0

\* A logout with nothing in progress is final: no call brings the session back
\* from the refresh token, which is still in the cookie jar, and in Redis, when
\* the logout request is lost (tokenStorage.ts:40-53).
LogoutIsFinal == quiet => token = 0

\* Every call of apiClient ends, and does not refresh for ever.
EveryCallSettles == \A c \in Calls : call[c].at # "none" ~> call[c].at = "none"
===============================================================================
