------------------------ MODULE MCSpscPooledPipeline ------------------------
(***************************************************************************)
(* The pooled SPSC pipeline with two slots, on a feed that fills the pool, *)
(* gives both slots back by a fill and by a cancel, takes them again, and  *)
(* only then needs a third one; the order refused then is cancelled.       *)
(***************************************************************************)
EXTENDS SpscPooledPipeline

LOCAL Msg(type, id, price, qty, side) ==
    [type |-> type, order_id |-> id, price |-> price, quantity |-> qty,
     side |-> side]

ReusingMessages ==
    << Msg("Add", 1, 10, 3, "Buy"),    Msg("Add", 2, 10, 2, "Buy"),
       Msg("Modify", 2, 10, 4, "Buy"), Msg("Trade", 1, 10, 3, "Buy"),
       Msg("Cancel", 2, 10, 1, "Buy"), Msg("Add", 3, 11, 1, "Sell"),
       Msg("Add", 1, 10, 2, "Buy"),    Msg("Add", 2, 11, 2, "Sell"),
       Msg("Cancel", 2, 11, 2, "Sell") >>

\* No total wraps on this feed.
ASSUME ReusingMessagesFit == FeedFits

=============================================================================
