----------------------------- MODULE SampleFeed -----------------------------
(***************************************************************************)
(* What the runs of the pipelines and feeds have in common: the baseline   *)
(* book, and a sequence of messages that touches each of its handlers: a   *)
(* duplicate add, a resize, a partial and a filling trade and a cancel.    *)
(***************************************************************************)
EXTENDS Sequences

CONSTANTS OrderIds, Prices, Quantities, U32

LOCAL BaselineBook == INSTANCE OrderBook WITH book <- <<>>

LOCAL Msg(type, id, price, qty, side) ==
    [type |-> type, order_id |-> id, price |-> price, quantity |-> qty,
     side |-> side]

SampleMessages ==
    << Msg("Add", 1, 10, 3, "Buy"),   Msg("Add", 1, 11, 2, "Sell"),
       Msg("Modify", 1, 10, 4, "Buy"), Msg("Add", 2, 11, 2, "Sell"),
       Msg("Trade", 1, 10, 3, "Buy"), Msg("Trade", 2, 11, 3, "Sell"),
       Msg("Add", 3, 10, 1, "Buy"),   Msg("Cancel", 1, 10, 1, "Buy") >>

\* A shorter feed in which no two prefixes leave the same book.
ShortMessages ==
    << Msg("Add", 1, 10, 3, "Buy"), Msg("Modify", 1, 10, 4, "Buy"),
       Msg("Trade", 1, 10, 3, "Buy"), Msg("Add", 2, 11, 2, "Sell") >>

SampleEmptyBook == BaselineBook!EmptyBook

SampleOnMessage(b, msg) == BaselineBook!on_message(b, msg)

=============================================================================
