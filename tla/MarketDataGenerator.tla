------------------------ MODULE MarketDataGenerator ------------------------
(***************************************************************************)
(* The market data generator (src/generator.cpp): one call of generate(),  *)
(* as every program makes it, message by message.                          *)
(*                                                                         *)
(* The linear congruential generator behind the draws is abstracted: a     *)
(* draw below a bound is any number below it, so the model covers every    *)
(* seed.  Order ids are not drawn: they go round a fixed cycle.  Sequence  *)
(* number, timestamp and symbol never reach a book.                        *)
(***************************************************************************)
EXTENDS MarketMessage, Sequences

CONSTANTS num_messages_,   \* the constructor's argument
          IdCycle,         \* after how many messages the ids repeat: 10000
          PriceRange,      \* how many prices are drawn from: 19000
          QuantityRange    \* how many quantities are drawn from: 10000

ASSUME GeneratorAssumption == /\ num_messages_ \in Nat
                              /\ IdCycle \in Nat \ {0}
                              /\ PriceRange \in Nat \ {0}
                              /\ QuantityRange \in Nat \ {0}

ASSUME GeneratedFieldsAssumption ==
    /\ 1000 .. (1000 + IdCycle - 1) \subseteq OrderIds
    /\ 10000 .. (10000 + PriceRange - 1) \subseteq Prices
    /\ 100 .. (100 + QuantityRange - 1) \subseteq Quantities

VARIABLE messages_

random_bounded(upper_bound) == 0 .. (upper_bound - 1)

type_of(type_rand) ==
    CASE type_rand < 70                    -> "Add"
      [] type_rand >= 70 /\ type_rand < 85 -> "Modify"
      [] type_rand >= 85 /\ type_rand < 95 -> "Cancel"
      [] type_rand >= 95                   -> "Trade"

\* Mutated form of id_of: the ids repeat one message too early.
id_of_ShortCycle(i) == 1000 + (i % (IdCycle - 1))

\* The order id of iteration i.
id_of(i) == 1000 + (i % IdCycle)

\* The messages iteration i may produce.
generated(i) ==
    {[type     |-> type_of(type_rand),
      order_id |-> id_of(i),
      price    |-> 10000 + price,
      quantity |-> 100 + quantity,
      side     |-> IF side = 0 THEN "Buy" ELSE "Sell"] :
        type_rand \in random_bounded(100), price \in random_bounded(PriceRange),
        quantity \in random_bounded(QuantityRange), side \in random_bounded(2)}

\* One iteration of generate().
generate ==
    /\ Len(messages_) < num_messages_
    /\ \E msg \in generated(Len(messages_)) : messages_' = Append(messages_, msg)

=============================================================================
