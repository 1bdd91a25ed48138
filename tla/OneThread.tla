----------------------------- MODULE OneThread -----------------------------
(***************************************************************************)
(* What the programs that do all their work in main have in common: the    *)
(* messages are generated first and then applied to a baseline book.       *)
(***************************************************************************)
EXTENDS MarketDataGenerator, SequencesExt

VARIABLE book

Baseline == INSTANCE OrderBook

=============================================================================
