----------------------------- MODULE PriceLevels -----------------------------
(***************************************************************************)
(* One side of a book: a std::map from a price to its PriceLevel, and the  *)
(* steps OrderBook and PooledOrderBook share on it.  A PriceLevel holds    *)
(* the ids resting at the price in arrival order and a running uint32_t    *)
(* total of their quantities.                                              *)
(***************************************************************************)
EXTENDS MarketMessage, Sequences, SequencesExt

\* The map f with key k bound to v, and the map f without key k.
Put(f, k, v) == [x \in DOMAIN f \union {k} |-> IF x = k THEN v ELSE f[x]]

Erase(f, k) == [x \in DOMAIN f \ {k} |-> f[x]]

PriceLevel == [order_ids : Seq(OrderIds), total_quantity : 0 .. (U32 - 1)]

EmptySide == [p \in {} |-> [order_ids |-> <<>>, total_quantity |-> 0]]

-----------------------------------------------------------------------------
\* Mutated form of add_to_level: the newcomer goes to the front of the level.
add_to_level_Front(side_map, msg) ==
    IF msg.price \in DOMAIN side_map
    THEN [side_map EXCEPT ![msg.price] =
            [order_ids |-> <<msg.order_id>> \o @.order_ids,
             total_quantity |-> (@.total_quantity + msg.quantity) % U32]]
    ELSE Put(side_map, msg.price,
             [order_ids |-> <<msg.order_id>>, total_quantity |-> msg.quantity])

\* The add_to_level lambda: join the level at msg.price, or open it.
add_to_level(side_map, msg) ==
    IF msg.price \in DOMAIN side_map
    THEN [side_map EXCEPT ![msg.price] =
            [order_ids |-> Append(@.order_ids, msg.order_id),
             total_quantity |-> (@.total_quantity + msg.quantity) % U32]]
    ELSE Put(side_map, msg.price,
             [order_ids |-> <<msg.order_id>>, total_quantity |-> msg.quantity])

(***************************************************************************)
(* An order leaves its level: its id is erased, qty is taken off the       *)
(* total, and a level left without ids is erased from the side.  The tail  *)
(* of cancel_level and of a filling trade_level.                           *)
(***************************************************************************)
leave_level(side_map, price, id, qty) ==
    LET order_ids == RemoveFirst(side_map[price].order_ids, id)
    IN  IF order_ids = <<>>
        THEN Erase(side_map, price)
        ELSE [side_map EXCEPT ![price] =
                [order_ids |-> order_ids,
                 total_quantity |-> (@.total_quantity - qty) % U32]]

\* Mutated form of best_price: both maps are ordered by std::less.
best_price_Less(side, side_map) == Min(DOMAIN side_map)

\* best_bid() and best_ask(): the first key of the side's ordered map.
best_price(side, side_map) ==
    IF side = "Buy" THEN Max(DOMAIN side_map) ELSE Min(DOMAIN side_map)

-----------------------------------------------------------------------------
\* The ids of b resting on a side at a price, according to the lookup table.
Resting(b, side, price) ==
    {id \in DOMAIN b.order_map : /\ b.order_map[id].side = side
                                 /\ b.order_map[id].price = price}

(***************************************************************************)
(* No id overtakes another one from one list of ids to the next: those     *)
(* that stay keep their order, and newcomers are behind all of them.       *)
(***************************************************************************)
KeepsOrder(before, after) ==
    /\ \A i, j \in DOMAIN before, k, l \in DOMAIN after :
          before[i] = after[k] /\ before[j] = after[l] /\ i < j => k < l
    /\ \A k, l \in DOMAIN after :
          after[k] \in ToSet(before) /\ after[l] \notin ToSet(before) => k < l

=============================================================================
