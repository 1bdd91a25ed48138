------------------------------ MODULE OrderBook ------------------------------
(***************************************************************************)
(* The baseline limit order book (src/order_book.cpp): a lookup table of   *)
(* resting orders, and per side a price-ordered map of levels.  Each       *)
(* handler is a function from a book to a book, so that the pipelines can  *)
(* apply it in their consumer thread; the actions below apply it to the    *)
(* book this module owns.                                                  *)
(*                                                                         *)
(* All quantity arithmetic is modulo U32.  handle_modify computes its      *)
(* delta in int32_t; the signed overflow it can meet wraps in every build  *)
(* of CMakeLists.txt (-O3, debug, and UBSan, which reports and continues), *)
(* and the result is cast back to uint32_t, so the outcome is the modular  *)
(* sum.                                                                    *)
(***************************************************************************)
EXTENDS PriceLevels, FiniteSets

VARIABLE book   \* [order_map, levels]: levels["Buy"] is bids_, ["Sell"] asks_

EmptyBook == [order_map |-> [id \in {} |-> {}],
              levels |-> [side \in Side |-> EmptySide]]

-----------------------------------------------------------------------------
\* Mutated form of handle_add: the duplicate-id check is missing, as in the
\* version before the fix recorded in docs/P4notes.txt.
handle_add_NoDuplicateCheck(b, msg) ==
    [order_map |-> IF msg.order_id \in DOMAIN b.order_map THEN b.order_map
                   ELSE Put(b.order_map, msg.order_id, OrderOf(msg)),
     levels |-> [b.levels EXCEPT ![msg.side] = add_to_level(@, msg)]]

handle_add(b, msg) ==
    IF msg.order_id \in DOMAIN b.order_map
    THEN b
    ELSE [order_map |-> Put(b.order_map, msg.order_id, OrderOf(msg)),
          levels |-> [b.levels EXCEPT ![msg.side] = add_to_level(@, msg)]]

\* Mutated form of handle_modify: the new total is not reduced to 32 bits.
handle_modify_Unreduced(b, msg) ==
    IF msg.order_id \notin DOMAIN b.order_map
    THEN b
    ELSE LET order == b.order_map[msg.order_id]
         IN  [order_map |-> [b.order_map EXCEPT
                               ![msg.order_id].quantity = msg.quantity],
              levels |-> [b.levels EXCEPT
                ![order.side][order.price].total_quantity =
                   @ + (msg.quantity - order.quantity)]]

handle_modify(b, msg) ==
    IF msg.order_id \notin DOMAIN b.order_map
    THEN b
    ELSE LET order == b.order_map[msg.order_id]
         IN  IF order.price \notin DOMAIN b.levels[order.side]
             THEN b
             ELSE [order_map |-> [b.order_map EXCEPT
                                    ![msg.order_id].quantity = msg.quantity],
                   levels |-> [b.levels EXCEPT
                     ![order.side][order.price].total_quantity =
                        (@ + (msg.quantity - order.quantity)) % U32]]

handle_cancel(b, msg) ==
    IF msg.order_id \notin DOMAIN b.order_map
    THEN b
    ELSE LET order == b.order_map[msg.order_id]
         IN  [order_map |-> Erase(b.order_map, msg.order_id),
              levels |-> IF order.price \notin DOMAIN b.levels[order.side]
                         THEN b.levels
                         ELSE [b.levels EXCEPT ![order.side] =
                                 leave_level(@, order.price, msg.order_id,
                                             order.quantity)]]

\* Mutated form of handle_trade: the traded quantity is not capped by the
\* order's own.
handle_trade_Uncapped(b, msg) ==
    IF msg.order_id \notin DOMAIN b.order_map
    THEN b
    ELSE LET order == b.order_map[msg.order_id]
             left  == Max({0, order.quantity - msg.quantity})
         IN  IF order.price \notin DOMAIN b.levels[order.side]
             THEN b
             ELSE IF left = 0
             THEN [order_map |-> Erase(b.order_map, msg.order_id),
                   levels |-> [b.levels EXCEPT ![order.side] =
                     leave_level(@, order.price, msg.order_id, msg.quantity)]]
             ELSE [order_map |-> [b.order_map EXCEPT
                                    ![msg.order_id].quantity = left],
                   levels |-> [b.levels EXCEPT
                     ![order.side][order.price].total_quantity =
                        (@ - msg.quantity) % U32]]

handle_trade(b, msg) ==
    IF msg.order_id \notin DOMAIN b.order_map
    THEN b
    ELSE LET order     == b.order_map[msg.order_id]
             trade_qty == Min({msg.quantity, order.quantity})
         IN  IF order.price \notin DOMAIN b.levels[order.side]
             THEN b
             ELSE IF order.quantity = trade_qty
             THEN [order_map |-> Erase(b.order_map, msg.order_id),
                   levels |-> [b.levels EXCEPT ![order.side] =
                     leave_level(@, order.price, msg.order_id, trade_qty)]]
             ELSE [order_map |-> [b.order_map EXCEPT
                                    ![msg.order_id].quantity = @ - trade_qty],
                   levels |-> [b.levels EXCEPT
                     ![order.side][order.price].total_quantity =
                        (@ - trade_qty) % U32]]

\* The dispatcher, used where a whole message stream is applied to a book.
on_message(b, msg) ==
    CASE msg.type = "Add"    -> handle_add(b, msg)
      [] msg.type = "Modify" -> handle_modify(b, msg)
      [] msg.type = "Cancel" -> handle_cancel(b, msg)
      [] msg.type = "Trade"  -> handle_trade(b, msg)

-----------------------------------------------------------------------------
Init == book = EmptyBook

MessagesOf(type) == {msg \in Message : msg.type = type}

Add    == \E msg \in MessagesOf("Add")    : book' = on_message(book, msg)
Modify == \E msg \in MessagesOf("Modify") : book' = on_message(book, msg)
Cancel == \E msg \in MessagesOf("Cancel") : book' = on_message(book, msg)
Trade  == \E msg \in MessagesOf("Trade")  : book' = on_message(book, msg)

Next == Add \/ Modify \/ Cancel \/ Trade

Spec == Init /\ [][Next]_book

-----------------------------------------------------------------------------
\* The sum of the quantities that rest there.
RestingQuantity(b, side, price) ==
    MapThenSumSet(LAMBDA id : b.order_map[id].quantity,
                  Resting(b, side, price))

\* The book is made of orders and levels of the declared shapes, each order
\* filed under its own id.
TypeOK ==
    /\ DOMAIN book = {"order_map", "levels"}
    /\ DOMAIN book.order_map \subseteq OrderIds
    /\ \A id \in DOMAIN book.order_map :
          book.order_map[id] \in Order /\ book.order_map[id].order_id = id
    /\ DOMAIN book.levels = Side
    /\ \A side \in Side :
          /\ DOMAIN book.levels[side] \subseteq Prices
          /\ \A p \in DOMAIN book.levels[side] :
                book.levels[side][p] \in PriceLevel

(***************************************************************************)
(* The two indexes of the book agree: a level exists at a price exactly    *)
(* while an order of the lookup table rests there, and it lists each of    *)
(* those orders once.  No message sequence leaves an orphaned id, a        *)
(* missing id, or an empty level that best_bid() would report.             *)
(***************************************************************************)
LevelsMatchOrders(b) ==
    \A side \in Side, p \in Prices :
        IF p \in DOMAIN b.levels[side]
        THEN LET ids == b.levels[side][p].order_ids
             IN  /\ ids # <<>>
                 /\ Cardinality(ToSet(ids)) = Len(ids)
                 /\ ToSet(ids) = Resting(b, side, p)
        ELSE Resting(b, side, p) = {}

BookConsistent == LevelsMatchOrders(book)

(***************************************************************************)
(* A level's running total is the sum of its orders' quantities modulo     *)
(* 2^32, after any mix of adds, resizes, partial and full trades and       *)
(* cancels; in particular it is that sum whenever the sum fits.            *)
(***************************************************************************)
TotalsMatchOrders ==
    \A side \in Side : \A p \in DOMAIN book.levels[side] :
        book.levels[side][p].total_quantity
            = RestingQuantity(book, side, p) % U32

(***************************************************************************)
(* best_bid() and best_ask() report a level exactly while an order rests   *)
(* on their side, and no resting order has a better price than the level   *)
(* they report: neither an emptied level nor a worse one is ever on top.   *)
(***************************************************************************)
TopOfBook ==
    \A side \in Side :
        LET resting == {id \in DOMAIN book.order_map :
                          book.order_map[id].side = side}
            best == best_price(side, book.levels[side])
        IN  /\ DOMAIN book.levels[side] = {} <=> resting = {}
            /\ resting # {} => Resting(book, side, best) # {}
            /\ \A id \in resting :
                  IF side = "Buy" THEN book.order_map[id].price <= best
                                  ELSE book.order_map[id].price >= best

(***************************************************************************)
(* Price-time priority: no message lets an order overtake another one at   *)
(* its level.  The ids that stay at a level keep their order and remain    *)
(* ahead of whatever a step appends.                                       *)
(***************************************************************************)
TimePriority ==
    [][\A side \in Side :
         \A p \in DOMAIN book.levels[side] \cap DOMAIN book'.levels[side] :
            KeepsOrder(book.levels[side][p].order_ids,
                       book'.levels[side][p].order_ids)]_book

=============================================================================
