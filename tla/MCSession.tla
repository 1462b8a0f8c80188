------------------------------- MODULE MCSession -------------------------------
(***************************************************************************)
(* For TLC: the session of a browser, and the checkout page, which is left *)
(* for a login when the session ends.  The page sees no more of it than    *)
(* that the token is there or not (logged), so that the two are checked    *)
(* side by side: a behaviour is one of the session's or one of the page's, *)
(* chosen at the start.                                                    *)
(***************************************************************************)
EXTENDS Session, CheckoutPages

VARIABLE part

vars == <<part, sessionVars, payVars>>

\* The part that is not looked at rests in one of its initial states.
Init ==
  /\ part \in {"session", "checkout"}
  /\ SessionInit /\ PayInit
  /\ part # "checkout" => kind = "store" /\ gateway = "mock" /\ ship /\ ~logged

SessionStep == part = "session" /\ SessionNext /\ UNCHANGED <<part, payVars>>
CheckoutStep == part = "checkout" /\ PayNext /\ UNCHANGED <<part, sessionVars>>

Next == SessionStep \/ CheckoutStep

Spec == Init /\ [][Next]_vars /\ SessionFairness
================================================================================
