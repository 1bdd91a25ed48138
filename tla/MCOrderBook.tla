----------------------------- MODULE MCOrderBook -----------------------------
(***************************************************************************)
(* The baseline book with three orders on two prices and 3-bit quantities, *)
(* so that the totals of a level wrap within two adds.                     *)
(***************************************************************************)
EXTENDS OrderBook

MCPrices == {10, 11}

MCQuantities == {0, 3, 5}

\* Order ids are only compared with each other.
IdSymmetry == Permutations(OrderIds)

=============================================================================
