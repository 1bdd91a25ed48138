--------------------------- MODULE MCSingleThread ---------------------------
(***************************************************************************)
(* Every feed of four messages over a cycle of three ids, all of which the *)
(* warm-up uses: the fourth message comes back to the first order.         *)
(***************************************************************************)
EXTENDS SingleThread

MCOrderIds == 1000 .. 1002

MCPrices == {10000}

MCQuantities == {100, 101}

=============================================================================
