------------------------------ MODULE MCCheckout ------------------------------
(***************************************************************************)
(* Three requests of one store.  Cart "c1" holds variants 1 and 2, "c2"    *)
(* holds 2 and 3, where 3 is a digital component of a bundle: locked and   *)
(* never deducted.  With three units of variant 2 both carts can be sold,  *)
(* with two (the tight stock) the second one to come is refused.           *)
(***************************************************************************)
EXTENDS Checkout, TLC

MCVariants == 1..3
MCTracked == {1, 2}
MCDemand == ("c1" :> (1 :> 1 @@ 2 :> 1)) @@ ("c2" :> (2 :> 2 @@ 3 :> 1))
MCStock == (1 :> 2) @@ (2 :> 3) @@ (3 :> 0)
MCTightStock == (1 :> 2) @@ (2 :> 2) @@ (3 :> 0)
Symmetry == Permutations(Requests)
===============================================================================
