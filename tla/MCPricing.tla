------------------------------ MODULE MCPricing -------------------------------
(***************************************************************************)
(* Two vendors; subtotals around the points where ten percent, a quarter   *)
(* of a percent or a third of the price fall on half a cent.               *)
(***************************************************************************)
EXTENDS Pricing

MCSubtotals == {0, 1, 4, 5, 15, 99, 250, 1005}
MCFees == {0, 7, 2500}
MCPercents == {25, 1000, 1250, 3333, 5000, 9999, 10000, 10002, 15000}
MCFixedOffs == {1, 5, 300}
MCMinOrders == {0, 100}
===============================================================================
