---------------------------- MODULE MarketMessage ----------------------------
(***************************************************************************)
(* The messages that drive every order book of the system                  *)
(* (include/latency_lab/market_message.hpp).  A message is abstracted to   *)
(* the fields the books read; sequence number, timestamp, symbol and       *)
(* padding never reach a book's decisions.                                 *)
(***************************************************************************)
EXTENDS Integers

CONSTANTS OrderIds,    \* the order ids a feed may carry
          Prices,      \* the prices a feed may carry (int64_t)
          Quantities,  \* the quantities a feed may carry (uint32_t)
          U32          \* the modulus of uint32_t arithmetic: 2^32 in the code

ASSUME PricesAssumption == Prices \subseteq Int
ASSUME U32Assumption == U32 \in Nat \ {0}
ASSUME QuantitiesAssumption == Quantities \subseteq 0 .. (U32 - 1)

Side == {"Buy", "Sell"}

MessageType == {"Add", "Modify", "Cancel", "Trade"}

Message == [type : MessageType, order_id : OrderIds, price : Prices,
            quantity : Quantities, side : Side]

\* A resting order: the four fields of a message that outlive it.
Order == [order_id : OrderIds, price : Prices, quantity : 0 .. (U32 - 1),
          side : Side]

OrderOf(msg) == [order_id |-> msg.order_id, price |-> msg.price,
                 quantity |-> msg.quantity, side |-> msg.side]

=============================================================================
