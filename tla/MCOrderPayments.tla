--------------------------- MODULE MCOrderPayments ----------------------------
(***************************************************************************)
(* Instances of OrderPayments: one order of a single store; and a          *)
(* marketplace checkout of two vendors, one with an auto_fulfill courier,  *)
(* both with a Connect account.                                            *)
(***************************************************************************)
EXTENDS OrderPayments, TLC

CONSTANTS o1, o2, m1

SingleMasterOf == o1 :> Nobody
MarketMasterOf == (o1 :> m1) @@ (o2 :> m1)
Symmetry == Permutations(Handlers) \cup Permutations(Intents)
MarketSymmetry == Symmetry \cup Permutations(Orders)
HandlerSymmetry == Permutations(Handlers)
===============================================================================
