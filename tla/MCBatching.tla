----------------------------- MODULE MCBatching -----------------------------
(***************************************************************************)
(* Every feed of three messages over two ids, in batches of one, of two    *)
(* (the second batch is short) and of four (the only batch is short).      *)
(***************************************************************************)
EXTENDS Batching

MCBatchSizes == <<1, 2, 4>>

MCOrderIds == 1000 .. 1001

MCPrices == {10000}

MCQuantities == {100}

\* Neighbours whose 90th percentile is a whole number (0, 10), neighbours whose
\* 99th percentile is so little below one that it may be reached (35, 136), and
\* a sum beyond U64.
MCLatencies == {0, 10, 35, 136}

=============================================================================
