--------------------------- MODULE PooledOrderBook ---------------------------
(***************************************************************************)
(* The limit order book whose orders live in an ObjectPool                 *)
(* (src/pooled_order_book.cpp).  Its lookup table maps an id to a slot of  *)
(* the pool; its levels are those of the baseline book.  An add that finds *)
(* the pool exhausted is counted and dropped.                              *)
(***************************************************************************)
EXTENDS PriceLevels, ObjectPool, FiniteSets

VARIABLE pbook   \* [order_map_, levels, order_pool_, pool_exhaustions_]

EmptyPooledBook ==
    [order_map_        |-> [id \in {} |-> nullptr],
     levels            |-> [side \in Side |-> EmptySide],
     order_pool_       |-> NewPool,
     pool_exhaustions_ |-> 0]

\* The order an id of the lookup table points to.
order_at(b, id) == b.order_pool_.storage_[b.order_map_[id]]

-----------------------------------------------------------------------------
\* Mutated form of handle_add: the slot is taken before the duplicate check.
handle_add_AllocatesFirst(b, msg) ==
    LET order == next_slot(b.order_pool_)
        pool  == allocate(b.order_pool_, OrderOf(msg))
    IN  IF msg.order_id \in DOMAIN b.order_map_
        THEN [b EXCEPT !.order_pool_ = pool]
        ELSE IF order = nullptr
        THEN [b EXCEPT !.pool_exhaustions_ = (@ + 1) % U64]
        ELSE [b EXCEPT !.order_map_ = Put(@, msg.order_id, order),
                       !.levels[msg.side] = add_to_level(@, msg),
                       !.order_pool_ = pool]

handle_add(b, msg) ==
    LET order == next_slot(b.order_pool_)
    IN  IF msg.order_id \in DOMAIN b.order_map_
        THEN b
        ELSE IF order = nullptr
        THEN [b EXCEPT !.pool_exhaustions_ = (@ + 1) % U64]
        ELSE [b EXCEPT !.order_map_ = Put(@, msg.order_id, order),
                       !.levels[msg.side] = add_to_level(@, msg),
                       !.order_pool_ = allocate(@, OrderOf(msg))]

\* Mutated form of handle_modify: the order keeps its old quantity.
handle_modify_KeepsOrder(b, msg) ==
    IF msg.order_id \notin DOMAIN b.order_map_
    THEN b
    ELSE LET order == order_at(b, msg.order_id)
         IN  [b EXCEPT !.levels[order.side][order.price].total_quantity =
                          (@ + (msg.quantity - order.quantity)) % U32]

\* The level's total is computed in int64_t and clamped at zero.
handle_modify(b, msg) ==
    IF msg.order_id \notin DOMAIN b.order_map_
    THEN b
    ELSE LET order == order_at(b, msg.order_id)
             level == b.levels[order.side][order.price]
             updated_quantity ==
                 level.total_quantity + (msg.quantity - order.quantity)
         IN  IF order.price \notin DOMAIN b.levels[order.side]
             THEN b
             ELSE [b EXCEPT
                     !.levels[order.side][order.price].total_quantity =
                        IF updated_quantity > 0 THEN updated_quantity % U32 ELSE 0,
                     !.order_pool_.storage_[b.order_map_[msg.order_id]].quantity =
                        msg.quantity]

\* An order leaves the book for good: level, lookup table, pool.
remove_order(b, id, qty) ==
    LET order == order_at(b, id)
    IN  [b EXCEPT !.levels[order.side] = leave_level(@, order.price, id, qty),
                  !.order_map_ = Erase(@, id),
                  !.order_pool_ = deallocate(@, b.order_map_[id])]

\* Mutated form of handle_cancel: the message's quantity is taken off.
handle_cancel_MessageQuantity(b, msg) ==
    IF msg.order_id \notin DOMAIN b.order_map_
    THEN b
    ELSE remove_order(b, msg.order_id, msg.quantity)

handle_cancel(b, msg) ==
    IF msg.order_id \notin DOMAIN b.order_map_
    THEN b
    ELSE LET order == order_at(b, msg.order_id)
         IN  IF order.price \notin DOMAIN b.levels[order.side]
             THEN [b EXCEPT
                     !.order_map_ = Erase(@, msg.order_id),
                     !.order_pool_ = deallocate(@, b.order_map_[msg.order_id])]
             ELSE remove_order(b, msg.order_id, order.quantity)

\* Mutated form of handle_trade: a filled order leaves its level but stays in
\* the lookup table after its slot is freed.
handle_trade_Dangling(b, msg) ==
    IF msg.order_id \notin DOMAIN b.order_map_
    THEN b
    ELSE LET order     == order_at(b, msg.order_id)
             trade_qty == Min({msg.quantity, order.quantity})
         IN  IF order.price \notin DOMAIN b.levels[order.side]
             THEN b
             ELSE IF order.quantity = trade_qty
             THEN [remove_order(b, msg.order_id, trade_qty)
                     EXCEPT !.order_map_ = b.order_map_]
             ELSE [b EXCEPT
                     !.levels[order.side][order.price].total_quantity =
                        (@ - trade_qty) % U32,
                     !.order_pool_.storage_[b.order_map_[msg.order_id]].quantity =
                        @ - trade_qty]

handle_trade(b, msg) ==
    IF msg.order_id \notin DOMAIN b.order_map_
    THEN b
    ELSE LET order     == order_at(b, msg.order_id)
             trade_qty == Min({msg.quantity, order.quantity})
         IN  IF order.price \notin DOMAIN b.levels[order.side]
             THEN b
             ELSE IF order.quantity = trade_qty
             THEN remove_order(b, msg.order_id, trade_qty)
             ELSE [b EXCEPT
                     !.levels[order.side][order.price].total_quantity =
                        (@ - trade_qty) % U32,
                     !.order_pool_.storage_[b.order_map_[msg.order_id]].quantity =
                        @ - trade_qty]

on_message(b, msg) ==
    CASE msg.type = "Add"    -> handle_add(b, msg)
      [] msg.type = "Modify" -> handle_modify(b, msg)
      [] msg.type = "Cancel" -> handle_cancel(b, msg)
      [] msg.type = "Trade"  -> handle_trade(b, msg)

-----------------------------------------------------------------------------
Init == pbook = EmptyPooledBook

MessagesOf(type) == {msg \in Message : msg.type = type}

Add    == \E msg \in MessagesOf("Add")    : pbook' = on_message(pbook, msg)
Modify == \E msg \in MessagesOf("Modify") : pbook' = on_message(pbook, msg)
Cancel == \E msg \in MessagesOf("Cancel") : pbook' = on_message(pbook, msg)
Trade  == \E msg \in MessagesOf("Trade")  : pbook' = on_message(pbook, msg)

Next == Add \/ Modify \/ Cancel \/ Trade

Spec == Init /\ [][Next]_pbook

-----------------------------------------------------------------------------
\* The baseline book this one stands for: the lookup table dereferenced.
AsBook(b) == [order_map |-> [id \in DOMAIN b.order_map_ |-> order_at(b, id)],
              levels |-> b.levels]

Baseline == INSTANCE OrderBook WITH book <- AsBook(pbook)

\* The book, its pool and its levels have their declared shapes.
TypeOK ==
    /\ DOMAIN pbook = {"order_map_", "levels", "order_pool_", "pool_exhaustions_"}
    /\ DOMAIN pbook.order_map_ \subseteq OrderIds
    /\ \A id \in DOMAIN pbook.order_map_ : pbook.order_map_[id] \in PoolSlots
    /\ \A side \in Side : \A p \in DOMAIN pbook.levels[side] :
          p \in Prices /\ pbook.levels[side][p] \in PriceLevel
    /\ pbook.order_pool_.storage_ \in [PoolSlots -> Order \union {NoObject}]
    /\ pbook.order_pool_.in_use_ \in [PoolSlots -> BOOLEAN]
    /\ pbook.order_pool_.free_list_ \in Seq(PoolSlots)
    /\ {pbook.order_pool_.allocations_, pbook.order_pool_.deallocations_,
        pbook.pool_exhaustions_} \subseteq 0 .. (U64 - 1)

(***************************************************************************)
(* Every slot of the pool is either free, listed once in the free list and *)
(* without an object, or holds the order of exactly one id of the lookup   *)
(* table.  So no message sequence leaks a slot, frees one twice, lets two  *)
(* ids share one, or leaves a pointer to a freed order behind.             *)
(***************************************************************************)
PoolPartition ==
    LET pool == pbook.order_pool_
        free == ToSet(pool.free_list_)
        held == {pbook.order_map_[id] : id \in DOMAIN pbook.order_map_}
    IN  /\ TypeOK
        /\ Cardinality(free) = Len(pool.free_list_)
        /\ free = {i \in PoolSlots : ~pool.in_use_[i]}
        /\ held = {i \in PoolSlots : pool.in_use_[i]}
        /\ Cardinality(held) = Cardinality(DOMAIN pbook.order_map_)
        /\ \A i \in free : pool.storage_[i] = NoObject
        /\ \A id \in DOMAIN pbook.order_map_ : order_at(pbook, id).order_id = id

(***************************************************************************)
(* The statistics the benchmarks print add up, also after the counters     *)
(* have wrapped: allocations minus deallocations is the number of orders   *)
(* in the book.                                                            *)
(***************************************************************************)
PoolCountersMatch ==
    LET pool == pbook.order_pool_
    IN  (pool.allocations_ - pool.deallocations_) % U64
          = Cardinality(DOMAIN pbook.order_map_) % U64

(***************************************************************************)
(* An add is refused for exhaustion only while as many orders rest in the  *)
(* book as the pool was built for, however many came and went before.      *)
(***************************************************************************)
ExhaustedOnlyWhenFull ==
    [][pbook'.pool_exhaustions_ # pbook.pool_exhaustions_
         => /\ Cardinality(DOMAIN pbook.order_map_) = PoolCapacity
            /\ AsBook(pbook') = AsBook(pbook)]_pbook

(***************************************************************************)
(* As long as no level's total wraps, the pooled book implements the       *)
(* baseline book: each handler does what the baseline's does, and an add   *)
(* refused for exhaustion does nothing.                                    *)
(***************************************************************************)
ImplementsOrderBook == Baseline!Spec

=============================================================================
