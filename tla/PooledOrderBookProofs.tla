------------------------ MODULE PooledOrderBookProofs ------------------------
(***************************************************************************)
(* Proofs about the pooled order book and the pool it owns, for every set  *)
(* of ids, prices and quantities, every capacity and every modulus: the    *)
(* pool is partitioned, the counters add up, an add is refused only by a   *)
(* full book, and a book whose totals fit behaves as the baseline does.    *)
(***************************************************************************)
EXTENDS PooledOrderBook, FiniteSetTheorems, TLAPS

\* The proofs about the baseline book, for the book this one stands for.
Book == INSTANCE OrderBookProofs WITH book <- AsBook(pbook)

-----------------------------------------------------------------------------
\* What the baseline's proofs assume of the constants.
LEMMA BookAssumptions ==
    /\ Prices \subseteq Int
    /\ U32 \in Nat \ {0}
    /\ Quantities \subseteq 0 .. (U32 - 1)
  BY PricesAssumption, U32Assumption, QuantitiesAssumption

\* The two modules speak of the same messages, orders and maps.
LEMMA SameTerms ==
    /\ Book!Message = Message /\ Book!Order = Order /\ Book!Side = Side
    /\ Book!PriceLevel = PriceLevel
    /\ \A f, k, v : Book!Put(f, k, v) = Put(f, k, v)
    /\ \A f, k : Book!Erase(f, k) = Erase(f, k)
    /\ \A msg : Book!OrderOf(msg) = OrderOf(msg)
    /\ \A s : Book!ToSet(s) = ToSet(s)
    /\ \A b, side, p : Book!Resting(b, side, p) = Resting(b, side, p)
    /\ \A S : Book!IsFiniteSet(S) <=> IsFiniteSet(S)
  <1>1. Book!Side = Side /\ Book!PriceLevel = PriceLevel
    BY DEF Book!Side, Side, Book!PriceLevel, PriceLevel
  <1>2. Book!Message = Message /\ Book!Order = Order
    BY <1>1 DEF Book!Message, Message, Book!MessageType, MessageType,
                Book!Order, Order
  <1>3. \A f, k, v : Book!Put(f, k, v) = Put(f, k, v)
    BY DEF Book!Put, Put
  <1>4. \A f, k : Book!Erase(f, k) = Erase(f, k)
    BY DEF Book!Erase, Erase
  <1>5. \A msg : Book!OrderOf(msg) = OrderOf(msg)
    BY DEF Book!OrderOf, OrderOf
  <1>6. \A s : Book!ToSet(s) = ToSet(s)
    BY DEF Book!ToSet, ToSet
  <1>7. \A b, side, p : Book!Resting(b, side, p) = Resting(b, side, p)
    BY DEF Book!Resting, Resting
  <1>8. \A S : Book!IsFiniteSet(S) <=> IsFiniteSet(S)
    BY DEF Book!IsFiniteSet, IsFiniteSet
  <1> QED
    BY <1>1, <1>2, <1>3, <1>4, <1>5, <1>6, <1>7, <1>8

\* The same for what joins and leaves a level.
LEMMA SameSideSteps ==
    /\ \A m, msg : Book!add_to_level(m, msg) = add_to_level(m, msg)
    /\ \A m, p, id, q : Book!leave_level(m, p, id, q) = leave_level(m, p, id, q)
  <1>1. \A m, msg : Book!add_to_level(m, msg) = add_to_level(m, msg)
    BY SameTerms DEF Book!add_to_level, add_to_level
  <1>2. \A s, e : Book!RemoveFirst(s, e) = RemoveFirst(s, e)
    BY DEF Book!RemoveFirst, RemoveFirst, Book!SelectInSeq, SelectInSeq,
           Book!RemoveAt, RemoveAt, Book!Min, Min
  <1>3. \A m, p, id, q : Book!leave_level(m, p, id, q) = leave_level(m, p, id, q)
    BY <1>2, SameTerms DEF Book!leave_level, leave_level
  <1> QED
    BY <1>1, <1>3

\* A list that lists nothing twice has as many elements as places.
LEMMA DistinctCardinality ==
    ASSUME NEW S, NEW s \in Seq(S), Book!Distinct(s)
    PROVE  Cardinality(ToSet(s)) = Len(s)
  <1>1. Book!Cardinality(Book!ToSet(s)) = Len(s)
    BY Book!DistinctCardinality, BookAssumptions
  <1> QED
    BY <1>1, SameTerms DEF Book!Cardinality, Cardinality

\* Such a list with one more element.
LEMMA AppendDistinct ==
    ASSUME NEW S, NEW s \in Seq(S), Book!Distinct(s), NEW e \in S, e \notin ToSet(s)
    PROVE  /\ Append(s, e) \in Seq(S) /\ Book!Distinct(Append(s, e))
           /\ ToSet(Append(s, e)) = ToSet(s) \union {e}
  BY Book!AppendDistinct, SameTerms, BookAssumptions

\* The fields of a message, and the order it leaves in the book.
LEMMA MessageFields ==
    ASSUME NEW msg \in Message
    PROVE  /\ msg.type \in MessageType /\ msg.order_id \in OrderIds
           /\ msg.price \in Prices /\ msg.side \in Side
           /\ msg.quantity \in 0 .. (U32 - 1)
           /\ OrderOf(msg) \in Order
  BY QuantitiesAssumption DEF Message, OrderOf, Order

\* An order with another quantity.
LEMMA Requantify ==
    ASSUME NEW order \in Order, NEW q \in 0 .. (U32 - 1)
    PROVE  [order EXCEPT !.quantity = q] \in Order
  BY DEF Order

\* The smaller of two numbers.
LEMMA MinOfTwo ==
    ASSUME NEW x \in Nat, NEW y \in Nat
    PROVE  /\ Min({x, y}) \in Nat
           /\ Min({x, y}) = IF x <= y THEN x ELSE y
  BY DEF Min

\* A remainder is below its modulus.
LEMMA DivMod ==
    ASSUME NEW a \in Int, NEW n \in Int, n > 0
    PROVE  a % n \in 0 .. (n - 1)
  OBVIOUS

\* Reducing a term of a sum first changes nothing.
LEMMA ModAdd ==
    ASSUME NEW n \in Int, n > 0, NEW a \in Int, NEW d \in Int
    PROVE  ((a % n) + d) % n = (a + d) % n
  BY Book!ModAdd, BookAssumptions

\* The same for the term that is taken away.
LEMMA ModSub ==
    ASSUME NEW n \in Int, n > 0, NEW a \in Int, NEW d \in Int
    PROVE  (a - (d % n)) % n = (a - d) % n
  BY Book!ModSub, BookAssumptions

\* A number below the modulus is its own remainder.
LEMMA ModSmall ==
    ASSUME NEW n \in Int, n > 0, NEW r \in 0 .. (n - 1)
    PROVE  r % n = r
  BY Book!ModSmall, BookAssumptions

\* Quantities add up to a natural number.
LEMMA SumNatural ==
    ASSUME NEW orders, NEW S, IsFiniteSet(S), \A x \in S : orders[x].quantity \in Nat
    PROVE  \A T \in SUBSET S : Book!SumOver(orders, T) \in Nat
  <1>1. Book!IsFiniteSet(S)
    BY SameTerms
  <1> QED
    BY <1>1, Book!SumNatural, BookAssumptions

\* One quantity and the sum of the others.
LEMMA SumWithout ==
    ASSUME NEW orders, NEW T, IsFiniteSet(T), \A y \in T : orders[y].quantity \in Int,
           NEW x \in T
    PROVE  Book!SumOver(orders, T)
             = orders[x].quantity + Book!SumOver(orders, T \ {x})
  <1>1. Book!IsFiniteSet(T)
    BY SameTerms
  <1> QED
    BY <1>1, Book!SumWithout, BookAssumptions

\* An order of the lookup table rests at a level.
LEMMA HasLevel ==
    ASSUME NEW b, Book!BookInv(b), NEW id \in DOMAIN b.order_map
    PROVE  LET order == b.order_map[id]
           IN  /\ order \in Order /\ order.order_id = id
               /\ id \in OrderIds
               /\ order.side \in Side /\ order.price \in Prices
               /\ order.quantity \in 0 .. (U32 - 1)
               /\ order.price \in DOMAIN b.levels[order.side]
               /\ id \in Resting(b, order.side, order.price)
  BY Book!HasLevel, SameTerms, BookAssumptions

\* Finitely many orders rest at a level.
LEMMA RestingFinite ==
    ASSUME NEW b, Book!BookInv(b), NEW side \in Side, NEW p \in Prices
    PROVE  IsFiniteSet(Resting(b, side, p))
  <1>1. Book!IsFiniteSet(Book!Resting(b, side, p))
    BY Book!RestingFinite, SameTerms, BookAssumptions
  <1> QED
    BY <1>1, SameTerms

\* The total of a level is a uint32_t.
LEMMA LevelTotal ==
    ASSUME NEW b, Book!BookInv(b), NEW side \in Side, NEW p \in DOMAIN b.levels[side]
    PROVE  b.levels[side][p].total_quantity \in 0 .. (U32 - 1)
  BY Book!LevelTotal, SameTerms, BookAssumptions

\* A new order joins its level.
LEMMA JoinInv ==
    ASSUME NEW b, Book!BookInv(b), NEW msg \in Message,
           msg.order_id \notin DOMAIN b.order_map
    PROVE  Book!StepInv(b, [order_map |-> Put(b.order_map, msg.order_id, OrderOf(msg)),
                            levels |-> [b.levels EXCEPT ![msg.side] =
                                          add_to_level(b.levels[msg.side], msg)]])
  BY Book!JoinInv, SameTerms, SameSideSteps, BookAssumptions

\* An order leaves its level.
LEMMA LeaveInv ==
    ASSUME NEW b, Book!BookInv(b), NEW id \in DOMAIN b.order_map
    PROVE  LET order == b.order_map[id]
           IN  Book!StepInv(b, [order_map |-> Erase(b.order_map, id),
                                levels |-> [b.levels EXCEPT ![order.side] =
                                  leave_level(b.levels[order.side], order.price, id,
                                              order.quantity)]])
  BY Book!LeaveInv, SameTerms, SameSideSteps, BookAssumptions

-----------------------------------------------------------------------------
(***************************************************************************)
(* The invariant of a pool: the free list lists each slot without an       *)
(* object once, and nothing else.                                          *)
(***************************************************************************)
PoolInv(pool) ==
    /\ DOMAIN pool = {"storage_", "free_list_", "in_use_", "allocations_",
                      "deallocations_"}
    /\ pool.storage_ \in [PoolSlots -> Order \union {NoObject}]
    /\ pool.in_use_ \in [PoolSlots -> BOOLEAN]
    /\ pool.free_list_ \in Seq(PoolSlots)
    /\ pool.allocations_ \in 0 .. (U64 - 1)
    /\ pool.deallocations_ \in 0 .. (U64 - 1)
    /\ Book!Distinct(pool.free_list_)
    /\ ToSet(pool.free_list_) = {i \in PoolSlots : ~pool.in_use_[i]}
    /\ \A i \in ToSet(pool.free_list_) : pool.storage_[i] = NoObject

\* The slots that hold an object.
Held(pool) == {i \in PoolSlots : pool.in_use_[i]}

\* The objects alive according to the counters.
Live(pool) == (pool.allocations_ - pool.deallocations_) % U64

\* The last element of a list that lists nothing twice, and the others.
LEMMA FrontDistinct ==
    ASSUME NEW S, NEW s \in Seq(S), Book!Distinct(s), s # <<>>
    PROVE  /\ Last(s) \in ToSet(s) /\ Front(s) \in Seq(S)
           /\ Book!Distinct(Front(s))
           /\ ToSet(Front(s)) = ToSet(s) \ {Last(s)}
  <1> DEFINE f == Front(s)
             n == Len(s)
  <1>1. /\ n \in Nat /\ n >= 1 /\ ToSet(s) = {s[i] : i \in 1 .. n}
        /\ \A i, j \in 1 .. n : s[i] = s[j] => i = j
    BY DEF ToSet, Book!Distinct
  <1>2. Last(s) = s[n]
    BY DEF Last
  <1>3. /\ f \in Seq(S) /\ Len(f) = n - 1
        /\ \A i \in 1 .. (n - 1) : f[i] = s[i]
    <2>1. Len(s) \in Nat /\ Len(s) >= 1 /\ DOMAIN s = 1 .. Len(s)
      OBVIOUS
    <2> QED
      BY <2>1 DEF Front
  <1> HIDE DEF f, n
  <1>4. /\ ToSet(f) = {f[i] : i \in 1 .. (n - 1)}
        /\ Book!Distinct(f) <=> \A i, j \in 1 .. (n - 1) : f[i] = f[j] => i = j
    BY <1>3 DEF ToSet, Book!Distinct
  <1>5. Book!Distinct(f)
    BY <1>1, <1>3, <1>4
  <1>6. ToSet(f) = {s[i] : i \in 1 .. (n - 1)}
    BY <1>3, <1>4
  <1>7. {s[i] : i \in 1 .. (n - 1)} = {s[i] : i \in 1 .. n} \ {s[n]}
    BY <1>1
  <1>8. s[n] \in ToSet(s)
    BY <1>1
  <1> QED
    BY <1>1, <1>2, <1>3, <1>5, <1>6, <1>7, <1>8 DEF f

\* The slots are numbers from 0 on, so nullptr is none of them.
LEMMA Slots ==
    /\ PoolSlots \subseteq Int /\ nullptr \notin PoolSlots
    /\ IsFiniteSet(PoolSlots) /\ Cardinality(PoolSlots) = PoolCapacity
  <1>1. PoolSlots \subseteq Int /\ nullptr \notin PoolSlots
    BY PoolCapacityAssumption DEF PoolSlots, nullptr
  <1>2. /\ IsFiniteSet(PoolSlots)
        /\ Cardinality(PoolSlots)
             = IF 0 > PoolCapacity - 1 THEN 0 ELSE (PoolCapacity - 1) - 0 + 1
    BY PoolCapacityAssumption, FS_Interval DEF PoolSlots
  <1> QED
    BY <1>1, <1>2, PoolCapacityAssumption

\* The counters stay in range, and count as they should across a wrap.
LEMMA Counters ==
    ASSUME NEW a \in 0 .. (U64 - 1), NEW d \in 0 .. (U64 - 1)
    PROVE  /\ (a + 1) % U64 \in 0 .. (U64 - 1)
           /\ (((a + 1) % U64) - d) % U64 = (((a - d) % U64) + 1) % U64
           /\ (a - ((d + 1) % U64)) % U64 = (((a - d) % U64) - 1) % U64
  <1>1. /\ U64 \in Int /\ U64 > 0 /\ a \in Int /\ d \in Int /\ a + 1 \in Int
        /\ d + 1 \in Int /\ a - d \in Int /\ -d \in Int /\ 1 \in Int /\ -1 \in Int
    BY U64Assumption
  <1>2. /\ (((a + 1) % U64) + (-d)) % U64 = ((a + 1) + (-d)) % U64
        /\ (((a - d) % U64) + 1) % U64 = ((a - d) + 1) % U64
        /\ (((a - d) % U64) + (-1)) % U64 = ((a - d) + (-1)) % U64
        /\ (a - ((d + 1) % U64)) % U64 = (a - (d + 1)) % U64
    BY <1>1, ModAdd, ModSub
  <1>3. /\ (a + 1) % U64 \in 0 .. (U64 - 1) /\ (a - d) % U64 \in 0 .. (U64 - 1)
    BY <1>1, DivMod
  <1> DEFINE x == (a + 1) % U64
             y == (a - d) % U64
  <1>4. /\ x + (-d) = x - d /\ y + (-1) = y - 1
        /\ (a + 1) + (-d) = (a - d) + 1
        /\ (a - d) + (-1) = a - (d + 1)
    <2> HIDE DEF x, y
    <2>1. x \in Int /\ y \in Int
      BY <1>1, <1>3 DEF x, y
    <2> QED
      BY <1>1, <2>1
  <1> QED
    BY <1>2, <1>3, <1>4

\* What allocate does to a pool with a free slot.
LEMMA Allocated ==
    ASSUME NEW pool, PoolInv(pool), pool.free_list_ # <<>>, NEW object \in Order
    PROVE  LET slot == next_slot(pool)
               new  == allocate(pool, object)
           IN  /\ slot \in PoolSlots \ Held(pool) /\ slot # nullptr
               /\ PoolInv(new)
               /\ Held(new) = Held(pool) \union {slot}
               /\ new.storage_[slot] = object
               /\ \A i \in PoolSlots : i # slot => new.storage_[i] = pool.storage_[i]
               /\ Live(new) = (Live(pool) + 1) % U64
  <1> DEFINE slot == next_slot(pool)
             new  == allocate(pool, object)
             list == pool.free_list_
  <1>1. /\ Last(list) \in ToSet(list) /\ Front(list) \in Seq(PoolSlots)
        /\ Book!Distinct(Front(list)) /\ ToSet(Front(list)) = ToSet(list) \ {Last(list)}
    BY FrontDistinct DEF PoolInv
  <1>2. slot = Last(list)
    BY DEF next_slot
  <1>3. new = [pool EXCEPT !.storage_[slot] = object, !.free_list_ = Front(@),
                           !.in_use_[slot] = TRUE,
                           !.allocations_ = (@ + 1) % U64]
    BY DEF allocate
  <1> HIDE DEF slot
  <1>4. /\ DOMAIN new = DOMAIN pool
        /\ new.storage_ = [pool.storage_ EXCEPT ![slot] = object]
        /\ new.free_list_ = Front(list)
        /\ new.in_use_ = [pool.in_use_ EXCEPT ![slot] = TRUE]
        /\ new.allocations_ = (pool.allocations_ + 1) % U64
        /\ new.deallocations_ = pool.deallocations_
    BY <1>3 DEF PoolInv
  <1> HIDE DEF new, list
  <1>5. slot \in PoolSlots /\ ~pool.in_use_[slot] /\ slot # nullptr
    BY <1>1, <1>2, Slots DEF PoolInv, list
  <1>6. /\ new.storage_ \in [PoolSlots -> Order \union {NoObject}]
        /\ new.storage_[slot] = object
        /\ \A i \in PoolSlots : i # slot => new.storage_[i] = pool.storage_[i]
    BY <1>4, <1>5 DEF PoolInv
  <1>7. /\ new.in_use_ \in [PoolSlots -> BOOLEAN]
        /\ new.in_use_[slot]
        /\ \A i \in PoolSlots : i # slot => (new.in_use_[i] <=> pool.in_use_[i])
    BY <1>4, <1>5 DEF PoolInv
  <1>8. /\ new.allocations_ \in 0 .. (U64 - 1)
        /\ Live(new) = (Live(pool) + 1) % U64
    BY <1>4, Counters DEF PoolInv, Live
  <1>9. ToSet(new.free_list_) = {i \in PoolSlots : ~new.in_use_[i]}
    BY <1>1, <1>2, <1>4, <1>7 DEF PoolInv, list
  <1>10. \A i \in ToSet(new.free_list_) : new.storage_[i] = NoObject
    BY <1>1, <1>2, <1>4, <1>6 DEF PoolInv, list
  <1>11. PoolInv(new)
    BY <1>1, <1>4, <1>6, <1>7, <1>8, <1>9, <1>10 DEF PoolInv
  <1>12. Held(new) = Held(pool) \union {slot}
    BY <1>5, <1>7 DEF Held
  <1> QED
    BY <1>5, <1>6, <1>8, <1>11, <1>12 DEF slot, new, Held

\* What deallocate does to a pool that holds an object in the slot.
LEMMA Deallocated ==
    ASSUME NEW pool, PoolInv(pool), NEW slot \in Held(pool)
    PROVE  LET new == deallocate(pool, slot)
           IN  /\ PoolInv(new)
               /\ Held(new) = Held(pool) \ {slot}
               /\ \A i \in PoolSlots : i # slot => new.storage_[i] = pool.storage_[i]
               /\ Live(new) = (Live(pool) - 1) % U64
  <1> DEFINE new  == deallocate(pool, slot)
             list == pool.free_list_
  <1>1. slot \in PoolSlots /\ pool.in_use_[slot] /\ slot # nullptr
    BY Slots DEF Held
  <1>2. new = [pool EXCEPT !.storage_[slot] = NoObject, !.in_use_[slot] = FALSE,
                           !.free_list_ = Append(@, slot),
                           !.deallocations_ = (@ + 1) % U64]
    BY <1>1 DEF deallocate
  <1>3. /\ DOMAIN new = DOMAIN pool
        /\ new.storage_ = [pool.storage_ EXCEPT ![slot] = NoObject]
        /\ new.free_list_ = Append(list, slot)
        /\ new.in_use_ = [pool.in_use_ EXCEPT ![slot] = FALSE]
        /\ new.allocations_ = pool.allocations_
        /\ new.deallocations_ = (pool.deallocations_ + 1) % U64
    BY <1>2 DEF PoolInv
  <1> HIDE DEF new
  <1>4. list \in Seq(PoolSlots) /\ Book!Distinct(list) /\ slot \notin ToSet(list)
    BY <1>1 DEF PoolInv
  <1> HIDE DEF list
  <1>5. /\ Append(list, slot) \in Seq(PoolSlots) /\ Book!Distinct(Append(list, slot))
        /\ ToSet(Append(list, slot)) = ToSet(list) \union {slot}
    BY <1>1, <1>4, AppendDistinct
  <1>6. /\ new.storage_ \in [PoolSlots -> Order \union {NoObject}]
        /\ new.storage_[slot] = NoObject
        /\ \A i \in PoolSlots : i # slot => new.storage_[i] = pool.storage_[i]
    BY <1>1, <1>3 DEF PoolInv
  <1>7. /\ new.in_use_ \in [PoolSlots -> BOOLEAN]
        /\ ~new.in_use_[slot]
        /\ \A i \in PoolSlots : i # slot => (new.in_use_[i] <=> pool.in_use_[i])
    BY <1>1, <1>3 DEF PoolInv
  <1>8. /\ new.deallocations_ \in 0 .. (U64 - 1)
        /\ Live(new) = (Live(pool) - 1) % U64
    BY <1>3, Counters DEF PoolInv, Live
  <1>9. ToSet(new.free_list_) = {i \in PoolSlots : ~new.in_use_[i]}
    BY <1>1, <1>3, <1>5, <1>7 DEF PoolInv, list
  <1>10. \A i \in ToSet(new.free_list_) : new.storage_[i] = NoObject
    BY <1>3, <1>5, <1>6 DEF PoolInv, list
  <1>11. PoolInv(new)
    BY <1>3, <1>5, <1>6, <1>7, <1>8, <1>9, <1>10 DEF PoolInv
  <1>12. Held(new) = Held(pool) \ {slot}
    BY <1>1, <1>7 DEF Held
  <1> QED
    BY <1>6, <1>8, <1>11, <1>12 DEF new

\* What a write to the quantity of a held order does.
LEMMA Rewritten ==
    ASSUME NEW pool, PoolInv(pool), NEW slot \in Held(pool),
           pool.storage_[slot] \in Order, NEW q \in 0 .. (U32 - 1)
    PROVE  LET new == [pool EXCEPT !.storage_[slot].quantity = q]
           IN  /\ PoolInv(new) /\ Held(new) = Held(pool) /\ Live(new) = Live(pool)
               /\ new.storage_[slot] = [pool.storage_[slot] EXCEPT !.quantity = q]
               /\ \A i \in PoolSlots : i # slot => new.storage_[i] = pool.storage_[i]
  <1> DEFINE order == [pool.storage_[slot] EXCEPT !.quantity = q]
             new == [pool EXCEPT !.storage_[slot].quantity = q]
  <1>1. order \in Order
    BY Requantify
  <1>2. slot \in PoolSlots /\ pool.in_use_[slot]
    BY DEF Held
  <1>3. new = [pool EXCEPT !.storage_[slot] = order]
    OBVIOUS
  <1> HIDE DEF order
  <1>4. /\ DOMAIN new = DOMAIN pool
        /\ new.storage_ = [pool.storage_ EXCEPT ![slot] = order]
        /\ new.free_list_ = pool.free_list_ /\ new.in_use_ = pool.in_use_
        /\ new.allocations_ = pool.allocations_
        /\ new.deallocations_ = pool.deallocations_
    BY <1>3 DEF PoolInv
  <1> HIDE DEF new
  <1>5. /\ new.storage_ \in [PoolSlots -> Order \union {NoObject}]
        /\ new.storage_[slot] = order
        /\ \A i \in PoolSlots : i # slot => new.storage_[i] = pool.storage_[i]
    BY <1>1, <1>2, <1>4 DEF PoolInv
  <1>6. slot \notin ToSet(pool.free_list_)
    BY <1>2 DEF PoolInv
  <1>7. \A i \in ToSet(new.free_list_) : new.storage_[i] = NoObject
    BY <1>4, <1>5, <1>6 DEF PoolInv
  <1>8. PoolInv(new)
    BY <1>4, <1>5, <1>7 DEF PoolInv
  <1>9. Held(new) = Held(pool) /\ Live(new) = Live(pool)
    BY <1>4 DEF Held, Live
  <1> QED
    BY <1>5, <1>8, <1>9 DEF new, order

-----------------------------------------------------------------------------
(***************************************************************************)
(* The lookup table gives each id a slot of its own, and leaves no held    *)
(* slot without an id.                                                     *)
(***************************************************************************)
TableInv(table, pool) ==
    /\ IsFiniteSet(DOMAIN table)
    /\ \A id \in DOMAIN table : table[id] \in Held(pool)
    /\ \A id, x \in DOMAIN table : table[id] = table[x] => id = x
    /\ \A i \in Held(pool) : \E id \in DOMAIN table : table[id] = i
    /\ Live(pool) = Cardinality(DOMAIN table) % U64

(***************************************************************************)
(* The inductive invariant of the pooled book: pool and lookup table fit   *)
(* together, and the book they stand for satisfies the invariant of the    *)
(* baseline book.                                                          *)
(***************************************************************************)
PooledInv(b) ==
    /\ DOMAIN b = {"order_map_", "levels", "order_pool_", "pool_exhaustions_"}
    /\ b.pool_exhaustions_ \in 0 .. (U64 - 1)
    /\ PoolInv(b.order_pool_)
    /\ TableInv(b.order_map_, b.order_pool_)
    /\ Book!BookInv(AsBook(b))

\* The orders of the pooled book.
LEMMA PooledOrders ==
    ASSUME NEW b
    PROVE  /\ AsBook(b).levels = b.levels
           /\ DOMAIN AsBook(b).order_map = DOMAIN b.order_map_
           /\ \A id \in DOMAIN b.order_map_ :
                 AsBook(b).order_map[id] = order_at(b, id)
           /\ AsBook(b) = [order_map |-> AsBook(b).order_map, levels |-> b.levels]
  BY DEF AsBook

\* An id of the lookup table points to an order of the book.
LEMMA PointsToOrder ==
    ASSUME NEW b, PooledInv(b), NEW id \in DOMAIN b.order_map_
    PROVE  LET order == order_at(b, id)
           IN  /\ id \in OrderIds
               /\ order \in Order /\ order.order_id = id
               /\ order.side \in Side /\ order.price \in Prices
               /\ order.quantity \in 0 .. (U32 - 1)
               /\ order.price \in DOMAIN b.levels[order.side]
               /\ b.order_map_[id] \in Held(b.order_pool_)
               /\ b.order_map_[id] \in PoolSlots
  <1>1. /\ DOMAIN AsBook(b).order_map = DOMAIN b.order_map_
        /\ AsBook(b).order_map[id] = order_at(b, id)
        /\ AsBook(b).levels = b.levels
    BY PooledOrders
  <1>2. Book!BookInv(AsBook(b))
    BY DEF PooledInv
  <1> DEFINE order == AsBook(b).order_map[id]
  <1>3. /\ id \in OrderIds
        /\ order \in Order /\ order.order_id = id
        /\ order.side \in Side /\ order.price \in Prices
        /\ order.quantity \in 0 .. (U32 - 1)
        /\ order.price \in DOMAIN AsBook(b).levels[order.side]
    BY <1>1, <1>2, HasLevel
  <1>4. b.order_map_[id] \in Held(b.order_pool_)
    BY DEF PooledInv, TableInv
  <1>5. b.order_map_[id] \in PoolSlots
    BY <1>4 DEF Held
  <1> QED
    BY <1>1, <1>3, <1>4, <1>5

\* The table and the pool after an allocation for a new id.
LEMMA TableGrows ==
    ASSUME NEW table, NEW pool, TableInv(table, pool), NEW new,
           NEW id, id \notin DOMAIN table, NEW slot, slot \notin Held(pool),
           Held(new) = Held(pool) \union {slot},
           Live(new) = (Live(pool) + 1) % U64
    PROVE  TableInv(Put(table, id, slot), new)
  <1> DEFINE t == Put(table, id, slot)
             n == Cardinality(DOMAIN table)
  <1>1. /\ DOMAIN t = DOMAIN table \union {id} /\ t[id] = slot
        /\ \A x \in DOMAIN table : t[x] = table[x]
    BY DEF Put
  <1> HIDE DEF t
  <1>2. /\ IsFiniteSet(DOMAIN t) /\ Cardinality(DOMAIN t) = n + 1 /\ n \in Nat
    BY <1>1, FS_AddElement, FS_CardinalityType DEF TableInv
  <1>3. Live(new) = (n + 1) % U64
    <2> HIDE DEF n
    <2>1. U64 \in Int /\ U64 > 0 /\ n \in Int /\ 1 \in Int
      BY <1>2, U64Assumption
    <2>2. ((n % U64) + 1) % U64 = (n + 1) % U64
      BY <2>1, ModAdd
    <2> QED
      BY <2>2 DEF TableInv, n
  <1>4. \A x \in DOMAIN t : t[x] \in Held(new)
    BY <1>1 DEF TableInv
  <1>5. \A x, y \in DOMAIN t : t[x] = t[y] => x = y
    BY <1>1 DEF TableInv
  <1>6. \A i \in Held(new) : \E x \in DOMAIN t : t[x] = i
    BY <1>1 DEF TableInv
  <1> QED
    BY <1>2, <1>3, <1>4, <1>5, <1>6 DEF TableInv, t

\* The table and the pool after an id and its slot are given up.
LEMMA TableShrinks ==
    ASSUME NEW table, NEW pool, TableInv(table, pool), NEW new,
           NEW id \in DOMAIN table,
           Held(new) = Held(pool) \ {table[id]},
           Live(new) = (Live(pool) - 1) % U64
    PROVE  TableInv(Erase(table, id), new)
  <1> DEFINE t == Erase(table, id)
             n == Cardinality(DOMAIN table)
  <1>1. /\ DOMAIN t = DOMAIN table \ {id}
        /\ \A x \in DOMAIN t : t[x] = table[x]
    BY DEF Erase
  <1> HIDE DEF t
  <1>2. /\ IsFiniteSet(DOMAIN t) /\ Cardinality(DOMAIN t) = n - 1 /\ n \in Nat
    BY <1>1, FS_RemoveElement, FS_CardinalityType DEF TableInv
  <1>3. Live(new) = (n - 1) % U64
    <2> HIDE DEF n
    <2>1. U64 \in Int /\ U64 > 0 /\ n \in Int /\ -1 \in Int
      BY <1>2, U64Assumption
    <2>2. ((n % U64) + (-1)) % U64 = (n + (-1)) % U64
      BY <2>1, ModAdd
    <2>3. n % U64 \in Int
      BY <2>1, DivMod
    <2>4. (n % U64) + (-1) = (n % U64) - 1 /\ n + (-1) = n - 1
      BY <2>1, <2>3
    <2> QED
      BY <2>2, <2>4 DEF TableInv, n
  <1>4. \A x \in DOMAIN t : t[x] \in Held(new)
    BY <1>1 DEF TableInv
  <1>5. \A x, y \in DOMAIN t : t[x] = t[y] => x = y
    BY <1>1 DEF TableInv
  <1>6. \A i \in Held(new) : \E x \in DOMAIN t : t[x] = i
    BY <1>1 DEF TableInv
  <1> QED
    BY <1>2, <1>3, <1>4, <1>5, <1>6 DEF TableInv, t

-----------------------------------------------------------------------------
\* The pooled book and the baseline book work on their levels alike.
LEMMA SameHelpers ==
    /\ \A f, k, v : Baseline!Put(f, k, v) = Put(f, k, v)
    /\ \A f, k : Baseline!Erase(f, k) = Erase(f, k)
    /\ \A msg : Baseline!OrderOf(msg) = OrderOf(msg)
    /\ \A S : Baseline!Min(S) = Min(S)
    /\ Baseline!Message = Message
  <1>1. \A f, k, v : Baseline!Put(f, k, v) = Put(f, k, v)
    BY DEF Baseline!Put, Put
  <1>2. \A f, k : Baseline!Erase(f, k) = Erase(f, k)
    BY DEF Baseline!Erase, Erase
  <1>3. \A msg : Baseline!OrderOf(msg) = OrderOf(msg)
    BY DEF Baseline!OrderOf, OrderOf
  <1>4. \A S : Baseline!Min(S) = Min(S)
    BY DEF Baseline!Min, Min
  <1>5. Baseline!Message = Message
    BY DEF Baseline!Message, Message, Baseline!MessageType, MessageType,
           Baseline!Side, Side
  <1> QED
    BY <1>1, <1>2, <1>3, <1>4, <1>5

\* The same for what joins and leaves a level.
LEMMA SameLevelSteps ==
    /\ \A m, msg : Baseline!add_to_level(m, msg) = add_to_level(m, msg)
    /\ \A m, p, id, q : Baseline!leave_level(m, p, id, q) = leave_level(m, p, id, q)
  <1>1. \A m, msg : Baseline!add_to_level(m, msg) = add_to_level(m, msg)
    BY SameHelpers DEF Baseline!add_to_level, add_to_level
  <1>2. \A s, e : Baseline!RemoveFirst(s, e) = RemoveFirst(s, e)
    BY DEF Baseline!RemoveFirst, RemoveFirst, Baseline!SelectInSeq, SelectInSeq,
           Baseline!RemoveAt, RemoveAt, Baseline!Min, Min
  <1>3. \A m, p, id, q : Baseline!leave_level(m, p, id, q) = leave_level(m, p, id, q)
    BY <1>2, SameHelpers DEF Baseline!leave_level, leave_level
  <1> QED
    BY <1>1, <1>3

-----------------------------------------------------------------------------
\* As many slots are held as ids are in the lookup table.
LEMMA HeldCount ==
    ASSUME NEW table, NEW pool, TableInv(table, pool)
    PROVE  /\ Cardinality(Held(pool)) = Cardinality(DOMAIN table)
           /\ Held(pool) = {table[id] : id \in DOMAIN table}
  <1> DEFINE f == [id \in DOMAIN table |-> table[id]]
  <1>1. f \in Bijection(DOMAIN table, Held(pool))
    BY DEF TableInv, Bijection, Injection, Surjection, IsInjective
  <1>2. ExistsBijection(DOMAIN table, Held(pool))
    BY <1>1 DEF ExistsBijection
  <1>3. Cardinality(Held(pool)) = Cardinality(DOMAIN table)
    BY <1>2, FS_Bijection DEF TableInv
  <1>4. Held(pool) = {table[id] : id \in DOMAIN table}
    BY DEF TableInv
  <1> QED
    BY <1>3, <1>4

\* A book holds no more orders than its pool has slots.
LEMMA NoMoreThanSlots ==
    ASSUME NEW b, PooledInv(b)
    PROVE  /\ Cardinality(DOMAIN b.order_map_) \in Nat
           /\ Cardinality(DOMAIN b.order_map_) <= PoolCapacity
  <1> DEFINE held == Held(b.order_pool_)
  <1>1. held \subseteq PoolSlots
    BY DEF Held
  <1>2. Cardinality(held) = Cardinality(DOMAIN b.order_map_)
    BY HeldCount DEF PooledInv
  <1> HIDE DEF held
  <1>3. Cardinality(held) <= PoolCapacity /\ Cardinality(held) \in Nat
    BY <1>1, Slots, FS_Subset, FS_CardinalityType
  <1> QED
    BY <1>2, <1>3

\* A pool without a free slot belongs to a book of PoolCapacity orders.
LEMMA FullBook ==
    ASSUME NEW b, PooledInv(b), next_slot(b.order_pool_) = nullptr
    PROVE  Cardinality(DOMAIN b.order_map_) = PoolCapacity
  <1> DEFINE pool == b.order_pool_
             list == pool.free_list_
  <1>1. /\ list \in Seq(PoolSlots) /\ Book!Distinct(list)
        /\ ToSet(list) = {i \in PoolSlots : ~pool.in_use_[i]}
    BY DEF PooledInv, PoolInv
  <1>2. list # <<>> => Last(list) \in ToSet(list)
    <2> HIDE DEF list
    <2> QED
      BY <1>1, FrontDistinct
  <1>3. list = <<>>
    BY <1>1, <1>2, Slots DEF next_slot
  <1>4. ToSet(list) = {}
    BY <1>3 DEF ToSet
  <1>5. Held(pool) = PoolSlots
    BY <1>1, <1>4 DEF Held
  <1> QED
    BY <1>5, HeldCount, Slots DEF PooledInv

\* No level's quantities exceed a uint32_t.
Fits(b) ==
    \A side \in Side : \A p \in DOMAIN b.levels[side] :
        Book!SumOver(b.order_map, Resting(b, side, p)) < U32

\* The step from b to c refuses an add for exhaustion: the book is full, only
\* the counter changes, and the baseline's book base holds one order more.
Refused(b, c, base) ==
    /\ c.pool_exhaustions_ = (b.pool_exhaustions_ + 1) % U64
    /\ Cardinality(DOMAIN b.order_map_) = PoolCapacity
    /\ AsBook(c) = AsBook(b)
    /\ Cardinality(DOMAIN base.order_map) = PoolCapacity + 1

\* The step from b to c does what the baseline's step to base does, as long as
\* the totals fit.
Applied(b, c, base) ==
    /\ c.pool_exhaustions_ = b.pool_exhaustions_
    /\ Book!TotalsInv(AsBook(b)) /\ Fits(AsBook(b))
          => Book!TotalsInv(AsBook(c)) /\ AsBook(c) = base

\* Every step from b to c keeps the invariant and is of one of the two kinds.
PooledStep(b, c, base) ==
    PooledInv(c) /\ (Refused(b, c, base) \/ Applied(b, c, base))

\* A message that changes nothing.
LEMMA PooledSame ==
    ASSUME NEW b, PooledInv(b)
    PROVE  PooledStep(b, b, AsBook(b))
  BY DEF PooledStep, Applied

\* handle_add keeps pool, table and levels together.
LEMMA PooledAdd ==
    ASSUME NEW b, PooledInv(b), NEW msg \in Message
    PROVE  PooledStep(b, handle_add(b, msg), Baseline!handle_add(AsBook(b), msg))
  <1> DEFINE pool == b.order_pool_
             slot == next_slot(pool)
             base == Baseline!handle_add(AsBook(b), msg)
  <1>1. CASE msg.order_id \in DOMAIN b.order_map_
    <2>1. Baseline!handle_add(AsBook(b), msg) = AsBook(b) /\ handle_add(b, msg) = b
      BY <1>1, PooledOrders DEF handle_add, Baseline!handle_add
    <2> QED
      BY <2>1, PooledSame
  <1>2. CASE msg.order_id \notin DOMAIN b.order_map_ /\ slot = nullptr
    <2> DEFINE c == [b EXCEPT !.pool_exhaustions_ = (@ + 1) % U64]
    <2>1. handle_add(b, msg) = c
      BY <1>2 DEF handle_add
    <2>2. /\ DOMAIN c = DOMAIN b /\ c.order_map_ = b.order_map_
          /\ c.levels = b.levels /\ c.order_pool_ = b.order_pool_
          /\ c.pool_exhaustions_ = (b.pool_exhaustions_ + 1) % U64
      BY DEF PooledInv
    <2>3. c.pool_exhaustions_ \in 0 .. (U64 - 1)
      <3>1. b.pool_exhaustions_ + 1 \in Int /\ U64 \in Int /\ U64 > 0
        BY U64Assumption DEF PooledInv
      <3> QED
        BY <2>2, <3>1, DivMod
    <2> HIDE DEF c
    <2>4. AsBook(c) = AsBook(b)
      BY <2>2 DEF AsBook, order_at
    <2>5. PooledInv(c)
      BY <2>2, <2>3, <2>4 DEF PooledInv
    <2>6. Cardinality(DOMAIN b.order_map_) = PoolCapacity
      BY <1>2, FullBook
    <2>7. Cardinality(DOMAIN base.order_map) = PoolCapacity + 1
      <3> DEFINE ids == DOMAIN b.order_map_
      <3>1. DOMAIN base.order_map = ids \union {msg.order_id}
        BY <1>2, PooledOrders, SameHelpers DEF Baseline!handle_add, Put
      <3>2. IsFiniteSet(ids)
        BY DEF PooledInv, TableInv
      <3> QED
        BY <1>2, <2>6, <3>1, <3>2, FS_AddElement
    <2> HIDE DEF base
    <2>8. PooledStep(b, c, base)
      BY <2>2, <2>4, <2>5, <2>6, <2>7 DEF PooledStep, Refused
    <2> QED
      BY <2>1, <2>8 DEF base
  <1>3. CASE msg.order_id \notin DOMAIN b.order_map_ /\ slot # nullptr
    <2> DEFINE id == msg.order_id
               new == allocate(pool, OrderOf(msg))
               c == [b EXCEPT !.order_map_ = Put(@, id, slot),
                              !.levels[msg.side] = add_to_level(@, msg),
                              !.order_pool_ = new]
    <2>1. handle_add(b, msg) = c
      BY <1>3 DEF handle_add
    <2>2. /\ DOMAIN c = DOMAIN b /\ c.order_map_ = Put(b.order_map_, id, slot)
          /\ c.levels = [b.levels EXCEPT ![msg.side] =
                           add_to_level(b.levels[msg.side], msg)]
          /\ c.order_pool_ = new
          /\ c.pool_exhaustions_ = b.pool_exhaustions_
      <3> HIDE DEF new, slot, pool
      <3> QED
        BY DEF PooledInv
    <2> HIDE DEF c
    <2>3. pool.free_list_ # <<>>
      BY <1>3 DEF next_slot
    <2>4. /\ slot \in PoolSlots \ Held(pool) /\ slot # nullptr
          /\ PoolInv(new)
          /\ Held(new) = Held(pool) \union {slot}
          /\ new.storage_[slot] = OrderOf(msg)
          /\ \A i \in PoolSlots : i # slot => new.storage_[i] = pool.storage_[i]
          /\ Live(new) = (Live(pool) + 1) % U64
      <3>1. PoolInv(pool) /\ OrderOf(msg) \in Order
        BY MessageFields DEF PooledInv
      <3> HIDE DEF pool
      <3> QED
        BY <2>3, <3>1, Allocated
    <2> HIDE DEF new, slot
    <2>5. TableInv(c.order_map_, new)
      <3>1. TableInv(b.order_map_, pool)
        BY DEF PooledInv
      <3> HIDE DEF pool
      <3> QED
        BY <1>3, <2>2, <2>4, <3>1, TableGrows
    <2>6. AsBook(c).order_map = Put(AsBook(b).order_map, id, OrderOf(msg))
      <3>1. /\ DOMAIN c.order_map_ = DOMAIN b.order_map_ \union {id}
            /\ c.order_map_[id] = slot
            /\ \A x \in DOMAIN b.order_map_ : c.order_map_[x] = b.order_map_[x]
        BY <1>3, <2>2 DEF Put
      <3>2. order_at(c, id) = OrderOf(msg)
        BY <2>2, <2>4, <3>1 DEF order_at
      <3>3. ASSUME NEW x \in DOMAIN b.order_map_
            PROVE  order_at(c, x) = order_at(b, x)
        <4>1. b.order_map_[x] \in PoolSlots /\ b.order_map_[x] # slot
          BY <2>4, PointsToOrder
        <4> QED
          BY <2>2, <2>4, <3>1, <4>1 DEF order_at
      <3>4. /\ AsBook(c).order_map = [x \in DOMAIN b.order_map_ \union {id} |->
                                       order_at(c, x)]
            /\ AsBook(b).order_map = [x \in DOMAIN b.order_map_ |-> order_at(b, x)]
        BY <3>1 DEF AsBook
      <3> QED
        BY <1>3, <3>2, <3>3, <3>4 DEF Put
    <2>7. AsBook(c) = [order_map |-> Put(AsBook(b).order_map, id, OrderOf(msg)),
                       levels |-> [AsBook(b).levels EXCEPT ![msg.side] =
                                     add_to_level(AsBook(b).levels[msg.side], msg)]]
      BY <2>2, <2>6, PooledOrders
    <2>8. id \notin DOMAIN AsBook(b).order_map /\ Book!BookInv(AsBook(b))
      BY <1>3, PooledOrders DEF PooledInv
    <2>9. Book!StepInv(AsBook(b), AsBook(c))
      BY <2>7, <2>8, JoinInv
    <2>10. AsBook(c) = base
      BY <2>7, <2>8, SameHelpers, SameLevelSteps DEF Baseline!handle_add
    <2>11. PooledInv(c)
      BY <2>2, <2>4, <2>5, <2>9 DEF PooledInv, Book!StepInv, Book!IndexStep
    <2> HIDE DEF base
    <2>12. PooledStep(b, c, base)
      BY <2>2, <2>9, <2>10, <2>11 DEF PooledStep, Applied, Book!StepInv
    <2> QED
      BY <2>1, <2>12 DEF base
  <1> QED
    BY <1>1, <1>2, <1>3

\* remove_order takes an order off level, lookup table and pool, and stands
\* for the removal from the baseline's book.
LEMMA PooledRemove ==
    ASSUME NEW b, PooledInv(b), NEW id \in DOMAIN b.order_map_
    PROVE  LET order == order_at(b, id)
               base  == [order_map |-> Erase(AsBook(b).order_map, id),
                         levels |-> [b.levels EXCEPT ![order.side] =
                           leave_level(b.levels[order.side], order.price, id,
                                       order.quantity)]]
           IN  PooledStep(b, remove_order(b, id, order.quantity), base)
  <1> DEFINE pool  == b.order_pool_
             order == order_at(b, id)
             slot  == b.order_map_[id]
             new   == deallocate(pool, slot)
             left  == leave_level(b.levels[order.side], order.price, id, order.quantity)
             c == [b EXCEPT !.levels[order.side] =
                                leave_level(@, order.price, id, order.quantity),
                            !.order_map_ = Erase(@, id),
                            !.order_pool_ = new]
             base == [order_map |-> Erase(AsBook(b).order_map, id),
                      levels |-> [b.levels EXCEPT ![order.side] = left]]
  <1>1. remove_order(b, id, order.quantity) = c
    BY DEF remove_order
  <1>2. slot \in Held(pool) /\ slot \in PoolSlots
    BY PointsToOrder
  <1>3. /\ DOMAIN c = DOMAIN b /\ c.order_map_ = Erase(b.order_map_, id)
        /\ c.levels = [b.levels EXCEPT ![order.side] = left]
        /\ c.order_pool_ = new
        /\ c.pool_exhaustions_ = b.pool_exhaustions_
    <2> HIDE DEF new, slot, pool, order
    <2> QED
      BY DEF PooledInv
  <1> HIDE DEF c
  <1>4. /\ PoolInv(new)
        /\ Held(new) = Held(pool) \ {slot}
        /\ \A x \in PoolSlots : x # slot => new.storage_[x] = pool.storage_[x]
        /\ Live(new) = (Live(pool) - 1) % U64
    <2>1. PoolInv(pool)
      BY DEF PooledInv
    <2> HIDE DEF pool, slot
    <2> QED
      BY <1>2, <2>1, Deallocated
  <1> HIDE DEF new
  <1>5. TableInv(c.order_map_, new)
    <2>1. TableInv(b.order_map_, pool)
      BY DEF PooledInv
    <2> HIDE DEF pool
    <2> QED
      BY <1>3, <1>4, <2>1, TableShrinks
  <1>6. AsBook(c).order_map = Erase(AsBook(b).order_map, id)
    <2>1. /\ DOMAIN c.order_map_ = DOMAIN b.order_map_ \ {id}
          /\ \A x \in DOMAIN c.order_map_ : c.order_map_[x] = b.order_map_[x]
      BY <1>3 DEF Erase
    <2>2. ASSUME NEW x \in DOMAIN c.order_map_
          PROVE  order_at(c, x) = order_at(b, x)
      <3>1. x \in DOMAIN b.order_map_ /\ x # id
        BY <2>1
      <3>2. b.order_map_[x] \in PoolSlots /\ b.order_map_[x] # slot
        BY <3>1, PointsToOrder DEF PooledInv, TableInv
      <3> QED
        BY <1>3, <1>4, <2>1, <3>2 DEF order_at
    <2>3. /\ AsBook(c).order_map = [x \in DOMAIN b.order_map_ \ {id} |-> order_at(c, x)]
          /\ AsBook(b).order_map = [x \in DOMAIN b.order_map_ |-> order_at(b, x)]
      BY <2>1 DEF AsBook
    <2> QED
      BY <2>1, <2>2, <2>3 DEF Erase
  <1>7. AsBook(c) = base
    BY <1>3, <1>6, PooledOrders
  <1>8. /\ id \in DOMAIN AsBook(b).order_map /\ Book!BookInv(AsBook(b))
        /\ AsBook(b).order_map[id] = order /\ AsBook(b).levels = b.levels
    BY PooledOrders DEF PooledInv
  <1>9. Book!StepInv(AsBook(b), base)
    <2> DEFINE B == AsBook(b)
    <2> HIDE DEF B, order
    <2>1. Book!BookInv(B) /\ id \in DOMAIN B.order_map
          /\ B.order_map[id] = order /\ B.levels = b.levels
      BY <1>8 DEF B
    <2>2. Book!StepInv(B, [order_map |-> Erase(B.order_map, id),
                      levels |-> [B.levels EXCEPT ![order.side] =
                        leave_level(B.levels[order.side], order.price, id,
                                    order.quantity)]])
      BY <2>1, LeaveInv
    <2> QED
      BY <2>1, <2>2 DEF B
  <1> HIDE DEF base
  <1>10. PooledInv(c)
    BY <1>3, <1>4, <1>5, <1>7, <1>9 DEF PooledInv, Book!StepInv, Book!IndexStep
  <1>11. PooledStep(b, c, base)
    BY <1>3, <1>7, <1>9, <1>10 DEF PooledStep, Applied, Book!StepInv
  <1> QED
    BY <1>1, <1>11 DEF base

\* handle_cancel removes the order with its own quantity, as the baseline does.
LEMMA PooledCancel ==
    ASSUME NEW b, PooledInv(b), NEW msg \in Message
    PROVE  PooledStep(b, handle_cancel(b, msg), Baseline!handle_cancel(AsBook(b), msg))
  <1> DEFINE id    == msg.order_id
             order == order_at(b, id)
             base  == [order_map |-> Erase(AsBook(b).order_map, id),
                       levels |-> [b.levels EXCEPT ![order.side] =
                         leave_level(b.levels[order.side], order.price, id,
                                     order.quantity)]]
  <1>1. CASE id \notin DOMAIN b.order_map_
    <2>1. Baseline!handle_cancel(AsBook(b), msg) = AsBook(b) /\ handle_cancel(b, msg) = b
      BY <1>1, PooledOrders DEF handle_cancel, Baseline!handle_cancel
    <2> QED
      BY <2>1, PooledSame
  <1>2. CASE id \in DOMAIN b.order_map_
    <2>1. order.price \in DOMAIN b.levels[order.side]
      BY <1>2, PointsToOrder
    <2>2. handle_cancel(b, msg) = remove_order(b, id, order.quantity)
      BY <1>2, <2>1 DEF handle_cancel
    <2>3. /\ id \in DOMAIN AsBook(b).order_map
          /\ AsBook(b).order_map[id] = order /\ AsBook(b).levels = b.levels
      BY <1>2, PooledOrders
    <2>4. Baseline!handle_cancel(AsBook(b), msg) = base
      <3> HIDE DEF order
      <3> QED
        BY <2>1, <2>3, SameHelpers, SameLevelSteps DEF Baseline!handle_cancel
    <2>5. PooledStep(b, remove_order(b, id, order.quantity), base)
      BY <1>2, PooledRemove
    <2> QED
      BY <2>2, <2>4, <2>5
  <1> QED
    BY <1>1, <1>2

\* What an order of the pool that is resized in place, and its level with it,
\* stand for.
LEMMA PooledResize ==
    ASSUME NEW b, PooledInv(b), NEW id \in DOMAIN b.order_map_,
           NEW q \in 0 .. (U32 - 1), NEW total \in 0 .. (U32 - 1)
    PROVE  LET order == order_at(b, id)
               old   == b.levels[order.side][order.price].total_quantity
               c == [b EXCEPT
                       !.levels[order.side][order.price].total_quantity = total,
                       !.order_pool_.storage_[b.order_map_[id]].quantity = q]
           IN  /\ PooledInv(c) /\ c.pool_exhaustions_ = b.pool_exhaustions_
               /\ AsBook(c) = [order_map |-> [AsBook(b).order_map EXCEPT
                                                ![id].quantity = q],
                               levels |-> [b.levels EXCEPT
                                 ![order.side][order.price].total_quantity = total]]
               /\ total = (old + (q - order.quantity)) % U32
                     => Book!StepInv(AsBook(b), AsBook(c))
  <1> DEFINE pool  == b.order_pool_
             order == order_at(b, id)
             old   == b.levels[order.side][order.price].total_quantity
             slot  == b.order_map_[id]
             new   == [pool EXCEPT !.storage_[slot].quantity = q]
             levels == [b.levels EXCEPT
                          ![order.side][order.price].total_quantity = total]
             orders == [AsBook(b).order_map EXCEPT ![id].quantity = q]
             c == [b EXCEPT !.levels[order.side][order.price].total_quantity = total,
                            !.order_pool_.storage_[slot].quantity = q]
             exact == total = (old + (q - order.quantity)) % U32
  <1>1. /\ slot \in Held(pool) /\ slot \in PoolSlots /\ order \in Order
    BY PointsToOrder
  <1>2. /\ DOMAIN c = DOMAIN b /\ c.order_map_ = b.order_map_
        /\ c.levels = levels /\ c.order_pool_ = new
        /\ c.pool_exhaustions_ = b.pool_exhaustions_
    <2> HIDE DEF slot, order
    <2> QED
      BY DEF PooledInv
  <1> HIDE DEF c
  <1>3. /\ PoolInv(new) /\ Held(new) = Held(pool) /\ Live(new) = Live(pool)
        /\ new.storage_[slot] = [order EXCEPT !.quantity = q]
        /\ \A x \in PoolSlots : x # slot => new.storage_[x] = pool.storage_[x]
    <2>1. PoolInv(pool) /\ pool.storage_[slot] = order
      BY DEF PooledInv, order_at
    <2> HIDE DEF pool, slot, order
    <2> QED
      BY <1>1, <2>1, Rewritten
  <1> HIDE DEF new, levels
  <1>4. TableInv(c.order_map_, new)
    BY <1>2, <1>3 DEF PooledInv, TableInv
  <1>5. AsBook(c).order_map = orders
    <2>1. order_at(c, id) = [order EXCEPT !.quantity = q]
      BY <1>2, <1>3 DEF order_at
    <2>2. ASSUME NEW x \in DOMAIN b.order_map_, x # id
          PROVE  order_at(c, x) = order_at(b, x)
      <3>1. b.order_map_[x] \in PoolSlots /\ b.order_map_[x] # slot
        BY <2>2, PointsToOrder DEF PooledInv, TableInv
      <3> QED
        BY <1>2, <1>3, <3>1 DEF order_at
    <2>3. /\ AsBook(c).order_map = [x \in DOMAIN b.order_map_ |-> order_at(c, x)]
          /\ AsBook(b).order_map = [x \in DOMAIN b.order_map_ |-> order_at(b, x)]
      BY <1>2 DEF AsBook
    <2> HIDE DEF order
    <2>4. AsBook(b).order_map[id] = order
      BY <2>3 DEF order
    <2> QED
      BY <2>1, <2>2, <2>3, <2>4
  <1>6. AsBook(c) = [order_map |-> orders, levels |-> levels]
    BY <1>2, <1>5, PooledOrders
  <1>7. /\ Book!IndexStep(AsBook(b), AsBook(c))
        /\ exact => Book!StepInv(AsBook(b), AsBook(c))
    <2> DEFINE B == AsBook(b)
    <2>1. Book!BookInv(B) /\ id \in DOMAIN B.order_map
          /\ B.order_map[id] = order /\ B.levels = b.levels
      BY PooledOrders DEF PooledInv
    <2> HIDE DEF B, order
    <2> DEFINE d == [order_map |-> [B.order_map EXCEPT ![id].quantity = q],
                     levels |-> [B.levels EXCEPT
                       ![order.side][order.price].total_quantity = total]]
    <2>2. /\ Book!IndexStep(B, d)
          /\ total = (B.levels[order.side][order.price].total_quantity
                        + (q - order.quantity)) % U32 => Book!StepInv(B, d)
      BY <2>1, Book!ResizeInv, BookAssumptions
    <2>3. d = AsBook(c)
      BY <1>6, <2>1 DEF B, levels
    <2> HIDE DEF d
    <2> QED
      BY <2>1, <2>2, <2>3 DEF B
  <1>8. PooledInv(c)
    BY <1>2, <1>3, <1>4, <1>7 DEF PooledInv, Book!IndexStep
  <1> HIDE DEF exact
  <1> QED
    BY <1>2, <1>6, <1>7, <1>8 DEF c, levels, exact

\* A level whose quantities fit has at least the quantity of each of its
\* orders, so that the pooled book's clamp at zero does nothing.
LEMMA TotalCovers ==
    ASSUME NEW b, Book!BookInv(b), Book!TotalsInv(b), Fits(b), NEW id \in DOMAIN b.order_map
    PROVE  LET order == b.order_map[id]
           IN  b.levels[order.side][order.price].total_quantity >= order.quantity
  <1> DEFINE order == b.order_map[id]
             orders == b.order_map
             ids == Resting(b, order.side, order.price)
             sum == Book!SumOver(orders, ids)
  <1>1. /\ order.side \in Side /\ order.price \in Prices /\ id \in ids
        /\ order.price \in DOMAIN b.levels[order.side]
    BY HasLevel
  <1>2. /\ b.levels[order.side][order.price].total_quantity = sum % U32
        /\ sum < U32
    BY <1>1, SameTerms DEF Book!TotalsInv, Fits
  <1>3. IsFiniteSet(ids)
    BY <1>1, RestingFinite
  <1>4. \A x \in ids : orders[x].quantity \in Nat
    <2> SUFFICES ASSUME NEW x \in ids
                 PROVE  orders[x].quantity \in Nat
      OBVIOUS
    <2>1. orders[x].quantity \in 0 .. (U32 - 1)
      BY HasLevel DEF Resting
    <2> QED
      BY <2>1, U32Assumption
  <1> HIDE DEF ids, order
  <1>5. /\ sum \in Nat /\ Book!SumOver(orders, ids \ {id}) \in Nat
        /\ sum = orders[id].quantity + Book!SumOver(orders, ids \ {id})
    <2>1. id \in ids /\ \A x \in ids : orders[x].quantity \in Int
      BY <1>1, <1>4
    <2> HIDE DEF orders
    <2>2. \A T \in SUBSET ids : Book!SumOver(orders, T) \in Nat
      BY <1>3, <1>4, SumNatural
    <2>3. sum = orders[id].quantity + Book!SumOver(orders, ids \ {id})
      BY <1>3, <2>1, SumWithout
    <2> QED
      BY <2>2, <2>3
  <1>6. orders[id].quantity = order.quantity /\ order.quantity \in Nat
    BY <1>1, <1>4 DEF order
  <1> HIDE DEF sum
  <1>7. sum >= order.quantity
    BY <1>5, <1>6
  <1>8. sum % U32 = sum
    <2>1. sum \in 0 .. (U32 - 1) /\ U32 \in Int /\ U32 > 0
      BY <1>2, <1>5, U32Assumption
    <2> QED
      BY <2>1, ModSmall
  <1> QED
    BY <1>2, <1>7, <1>8 DEF order

\* handle_modify resizes in place; where the totals fit its clamp does nothing
\* and it does what the baseline's does.
LEMMA PooledModify ==
    ASSUME NEW b, PooledInv(b), NEW msg \in Message
    PROVE  PooledStep(b, handle_modify(b, msg), Baseline!handle_modify(AsBook(b), msg))
  <1> DEFINE id    == msg.order_id
             order == order_at(b, id)
             old   == b.levels[order.side][order.price].total_quantity
             updated == old + (msg.quantity - order.quantity)
             total == IF updated > 0 THEN updated % U32 ELSE 0
             c == [b EXCEPT !.levels[order.side][order.price].total_quantity = total,
                            !.order_pool_.storage_[b.order_map_[id]].quantity =
                               msg.quantity]
             base == Baseline!handle_modify(AsBook(b), msg)
  <1>1. CASE id \notin DOMAIN b.order_map_
    <2>1. Baseline!handle_modify(AsBook(b), msg) = AsBook(b) /\ handle_modify(b, msg) = b
      BY <1>1, PooledOrders DEF handle_modify, Baseline!handle_modify
    <2> QED
      BY <2>1, PooledSame
  <1>2. CASE id \in DOMAIN b.order_map_
    <2>1. /\ order.side \in Side /\ order.price \in Prices
          /\ order.price \in DOMAIN b.levels[order.side]
          /\ order.quantity \in 0 .. (U32 - 1)
      BY <1>2, PointsToOrder
    <2>2. handle_modify(b, msg) = c
      BY <1>2, <2>1 DEF handle_modify
    <2>3. /\ id \in DOMAIN AsBook(b).order_map /\ Book!BookInv(AsBook(b))
          /\ AsBook(b).order_map[id] = order /\ AsBook(b).levels = b.levels
      BY <1>2, PooledOrders DEF PooledInv
    <2>4. old \in 0 .. (U32 - 1)
      <3> HIDE DEF order
      <3> QED
        BY <2>1, <2>3, LevelTotal
    <2>5. msg.quantity \in 0 .. (U32 - 1)
      BY MessageFields
    <2> HIDE DEF old, order
    <2>6. updated \in Int /\ U32 \in Int /\ U32 > 0
      BY <2>1, <2>4, <2>5, U32Assumption
    <2>7. total \in 0 .. (U32 - 1)
      <3> HIDE DEF updated
      <3>1. updated % U32 \in 0 .. (U32 - 1)
        BY <2>6, DivMod
      <3> QED
        BY <2>6, <3>1
    <2>8. updated >= 0 => total = updated % U32
      <3> HIDE DEF updated
      <3>1. 0 % U32 = 0
        BY <2>6, ModSmall
      <3> QED
        BY <2>6, <3>1
    <2> HIDE DEF total
    <2>9. /\ PooledInv(c) /\ c.pool_exhaustions_ = b.pool_exhaustions_
          /\ AsBook(c) = [order_map |-> [AsBook(b).order_map EXCEPT
                                           ![id].quantity = msg.quantity],
                          levels |-> [b.levels EXCEPT
                            ![order.side][order.price].total_quantity = total]]
          /\ total = updated % U32 => Book!StepInv(AsBook(b), AsBook(c))
      BY <1>2, <2>5, <2>7, PooledResize DEF order, old
    <2>10. base = [order_map |-> [AsBook(b).order_map EXCEPT
                                    ![id].quantity = msg.quantity],
                   levels |-> [b.levels EXCEPT
                     ![order.side][order.price].total_quantity = updated % U32]]
      BY <2>1, <2>3 DEF Baseline!handle_modify, old
    <2>11. ASSUME Book!TotalsInv(AsBook(b)), Fits(AsBook(b))
           PROVE  updated >= 0
      <3>1. old >= order.quantity
        BY <2>3, <2>11, TotalCovers DEF old
      <3> QED
        BY <2>1, <2>4, <2>5, <3>1, U32Assumption
    <2> HIDE DEF c, base, updated
    <2>12. ASSUME Book!TotalsInv(AsBook(b)), Fits(AsBook(b))
           PROVE  Book!TotalsInv(AsBook(c)) /\ AsBook(c) = base
      BY <2>8, <2>9, <2>10, <2>11, <2>12 DEF Book!StepInv
    <2>13. PooledStep(b, c, base)
      BY <2>9, <2>12 DEF PooledStep, Applied
    <2> QED
      BY <2>2, <2>13 DEF base
  <1> QED
    BY <1>1, <1>2

\* handle_trade removes a filled order and resizes another, as the baseline's
\* does.
LEMMA PooledTrade ==
    ASSUME NEW b, PooledInv(b), NEW msg \in Message
    PROVE  PooledStep(b, handle_trade(b, msg), Baseline!handle_trade(AsBook(b), msg))
  <1> DEFINE id    == msg.order_id
             order == order_at(b, id)
             old   == b.levels[order.side][order.price].total_quantity
             trade_qty == Min({msg.quantity, order.quantity})
             base  == Baseline!handle_trade(AsBook(b), msg)
  <1>1. CASE id \notin DOMAIN b.order_map_
    <2>1. Baseline!handle_trade(AsBook(b), msg) = AsBook(b) /\ handle_trade(b, msg) = b
      BY <1>1, PooledOrders DEF handle_trade, Baseline!handle_trade
    <2> QED
      BY <2>1, PooledSame
  <1>2. CASE id \in DOMAIN b.order_map_
    <2>1. /\ order.side \in Side /\ order.price \in Prices
          /\ order.price \in DOMAIN b.levels[order.side]
          /\ order.quantity \in 0 .. (U32 - 1)
      BY <1>2, PointsToOrder
    <2>2. /\ id \in DOMAIN AsBook(b).order_map /\ Book!BookInv(AsBook(b))
          /\ AsBook(b).order_map[id] = order /\ AsBook(b).levels = b.levels
      BY <1>2, PooledOrders DEF PooledInv
    <2>3. msg.quantity \in Nat /\ order.quantity \in Nat
      BY <2>1, MessageFields, U32Assumption
    <2>4. trade_qty \in Nat /\ trade_qty <= order.quantity
      BY <2>3, MinOfTwo
    <2>5. CASE order.quantity = trade_qty
      <3> DEFINE rest == [order_map |-> Erase(AsBook(b).order_map, id),
                          levels |-> [b.levels EXCEPT ![order.side] =
                            leave_level(b.levels[order.side], order.price, id,
                                        order.quantity)]]
      <3>1. handle_trade(b, msg) = remove_order(b, id, order.quantity)
        BY <1>2, <2>1, <2>5 DEF handle_trade
      <3>2. base = rest
        <4> HIDE DEF order
        <4> QED
          BY <2>1, <2>2, <2>5, SameHelpers, SameLevelSteps DEF Baseline!handle_trade
      <3>3. PooledStep(b, remove_order(b, id, order.quantity), rest)
        BY <1>2, PooledRemove
      <3> QED
        BY <3>1, <3>2, <3>3
    <2>6. CASE order.quantity # trade_qty
      <3> DEFINE left  == order.quantity - trade_qty
                 total == (old - trade_qty) % U32
                 c == [b EXCEPT
                         !.levels[order.side][order.price].total_quantity = total,
                         !.order_pool_.storage_[b.order_map_[id]].quantity = left]
      <3>1. handle_trade(b, msg) = c
        <4>1. handle_trade(b, msg)
                = [b EXCEPT
                     !.levels[order.side][order.price].total_quantity =
                        (@ - trade_qty) % U32,
                     !.order_pool_.storage_[b.order_map_[id]].quantity =
                        @ - trade_qty]
          BY <1>2, <2>1, <2>6 DEF handle_trade
        <4>2. order = b.order_pool_.storage_[b.order_map_[id]]
          BY DEF order_at
        <4> QED
          BY <4>1, <4>2
      <3>2. old \in 0 .. (U32 - 1)
        <4> HIDE DEF order
        <4> QED
          BY <2>1, <2>2, LevelTotal
      <3>3. base = [order_map |-> [AsBook(b).order_map EXCEPT ![id].quantity = left],
                    levels |-> [b.levels EXCEPT
                      ![order.side][order.price].total_quantity = total]]
        <4> HIDE DEF order
        <4> QED
          BY <2>1, <2>2, <2>6, SameHelpers DEF Baseline!handle_trade
      <3> HIDE DEF old, order, trade_qty
      <3>4. left \in 0 .. (U32 - 1)
        BY <2>1, <2>3, <2>4, U32Assumption
      <3>5. old - trade_qty = old + (left - order.quantity) /\ old - trade_qty \in Int
        BY <2>3, <2>4, <3>2, U32Assumption
      <3>6. total \in 0 .. (U32 - 1)
        BY <3>5, U32Assumption, DivMod
      <3>7. total = (old + (left - order.quantity)) % U32
        BY <3>5
      <3> HIDE DEF total, left
      <3>8. /\ PooledInv(c) /\ c.pool_exhaustions_ = b.pool_exhaustions_
            /\ AsBook(c) = base
            /\ Book!StepInv(AsBook(b), AsBook(c))
        <4>1. /\ PooledInv(c) /\ c.pool_exhaustions_ = b.pool_exhaustions_
              /\ AsBook(c) = [order_map |-> [AsBook(b).order_map EXCEPT
                                               ![id].quantity = left],
                              levels |-> [b.levels EXCEPT
                                ![order.side][order.price].total_quantity = total]]
              /\ total = (old + (left - order.quantity)) % U32
                    => Book!StepInv(AsBook(b), AsBook(c))
          BY <1>2, <3>4, <3>6, PooledResize DEF order, old
        <4> HIDE DEF c, base
        <4> QED
          BY <3>3, <3>7, <4>1
      <3> HIDE DEF c, base
      <3>9. PooledStep(b, c, base)
        BY <3>8 DEF PooledStep, Applied, Book!StepInv
      <3> QED
        BY <3>1, <3>9 DEF base
    <2> QED
      BY <2>5, <2>6
  <1> QED
    BY <1>1, <1>2

-----------------------------------------------------------------------------
\* The empty book satisfies the invariant, and its totals fit.
LEMMA PooledEmpty ==
    /\ PooledInv(EmptyPooledBook)
    /\ Book!TotalsInv(AsBook(EmptyPooledBook))
    /\ AsBook(EmptyPooledBook) = Baseline!EmptyBook
  <1> DEFINE b == EmptyPooledBook
             pool == NewPool
             list == pool.free_list_
  <1>1. /\ DOMAIN b = {"order_map_", "levels", "order_pool_", "pool_exhaustions_"}
        /\ DOMAIN b.order_map_ = {} /\ b.order_pool_ = pool
        /\ b.levels = [side \in Side |-> EmptySide]
        /\ b.pool_exhaustions_ = 0
    BY DEF EmptyPooledBook
  <1>2. /\ DOMAIN pool = {"storage_", "free_list_", "in_use_", "allocations_",
                          "deallocations_"}
        /\ pool.storage_ = [i \in PoolSlots |-> NoObject]
        /\ pool.in_use_ = [i \in PoolSlots |-> FALSE]
        /\ list = [k \in 1 .. PoolCapacity |-> PoolCapacity - k]
        /\ pool.allocations_ = 0 /\ pool.deallocations_ = 0
    BY DEF NewPool
  <1> HIDE DEF b, pool
  <1>3. 0 \in 0 .. (U64 - 1) /\ U64 \in Int /\ U64 > 0
    BY U64Assumption
  <1>4. /\ list \in Seq(PoolSlots) /\ Book!Distinct(list) /\ ToSet(list) = PoolSlots
    <2> HIDE DEF list
    <2>1. PoolCapacity \in Nat
      BY PoolCapacityAssumption
    <2>2. list \in Seq(PoolSlots) /\ Len(list) = PoolCapacity
      BY <1>2, <2>1 DEF PoolSlots
    <2>3. Book!Distinct(list)
      BY <1>2, <2>1, <2>2 DEF Book!Distinct
    <2>4. ASSUME NEW x \in PoolSlots
          PROVE  x \in ToSet(list)
      <3>1. PoolCapacity - x \in 1 .. PoolCapacity /\ x = PoolCapacity - (PoolCapacity - x)
        BY <2>1 DEF PoolSlots
      <3>2. list[PoolCapacity - x] = x /\ PoolCapacity - x \in DOMAIN list
        BY <1>2, <3>1
      <3> QED
        BY <3>2 DEF ToSet
    <2>5. ToSet(list) \subseteq PoolSlots
      BY <2>2 DEF ToSet
    <2> QED
      BY <2>2, <2>3, <2>4, <2>5
  <1>5. PoolInv(pool)
    BY <1>2, <1>3, <1>4 DEF PoolInv
  <1>6. Held(pool) = {} /\ Live(pool) = 0
    <2>1. 0 % U64 = 0
      BY <1>3, ModSmall
    <2> QED
      BY <1>2, <2>1 DEF Held, Live
  <1>7. TableInv(b.order_map_, pool)
    <2>1. Cardinality(DOMAIN b.order_map_) = 0 /\ IsFiniteSet(DOMAIN b.order_map_)
      BY <1>1, FS_EmptySet
    <2>2. 0 % U64 = 0
      BY <1>3, ModSmall
    <2> QED
      BY <1>1, <1>6, <2>1, <2>2 DEF TableInv
  <1> DEFINE B == AsBook(b)
  <1>8. /\ DOMAIN B = {"order_map", "levels"} /\ DOMAIN B.order_map = {}
        /\ DOMAIN B.levels = Side
        /\ \A side \in Side : DOMAIN B.levels[side] = {}
    BY <1>1 DEF AsBook, EmptySide
  <1>9. Book!BookInv(B)
    <2> HIDE DEF B
    <2>1. \A side \in Side, p \in Prices : Resting(B, side, p) = {}
      BY <1>8 DEF Resting
    <2>2. Book!BookShape(B)
      BY <1>8, FS_EmptySet, SameTerms DEF Book!BookShape, Book!OrdersShape, Book!SideShape
    <2> QED
      BY <1>8, <2>1, <2>2, SameTerms DEF Book!BookInv, Book!Lists
  <1>10. PooledInv(b)
    BY <1>1, <1>3, <1>5, <1>7, <1>9 DEF PooledInv
  <1>11. Book!TotalsInv(B)
    BY <1>8, SameTerms DEF Book!TotalsInv
  <1>12. B = Baseline!EmptyBook
    BY <1>1 DEF AsBook, Baseline!EmptyBook, Baseline!EmptySide, EmptySide,
                Baseline!Side, Side
  <1> QED
    BY <1>10, <1>11, <1>12 DEF b

\* Whatever the message, the invariant stays.
LEMMA PooledMessage ==
    ASSUME NEW b, PooledInv(b), NEW msg \in Message
    PROVE  PooledStep(b, on_message(b, msg), Baseline!on_message(AsBook(b), msg))
  <1>1. msg.type \in MessageType
    BY MessageFields
  <1> QED
    BY <1>1, PooledAdd, PooledModify, PooledCancel, PooledTrade
       DEF on_message, Baseline!on_message, MessageType

\* Every step of the pooled book is one message.
LEMMA PooledNext ==
    ASSUME PooledInv(pbook), [Next]_pbook
    PROVE  /\ PooledInv(pbook)'
           /\ pbook'.pool_exhaustions_ # pbook.pool_exhaustions_
                => /\ Cardinality(DOMAIN pbook.order_map_) = PoolCapacity
                   /\ AsBook(pbook') = AsBook(pbook)
           /\ Book!TotalsInv(AsBook(pbook)) /\ Fits(AsBook(pbook))
                => /\ Book!TotalsInv(AsBook(pbook))'
                   /\ [Baseline!Next]_(AsBook(pbook))
  <1>1. CASE pbook' = pbook
    BY <1>1
  <1>2. CASE Next
    <2>1. PICK msg \in Message : pbook' = on_message(pbook, msg)
      BY <1>2 DEF Next, Add, Modify, Cancel, Trade, MessagesOf
    <2> DEFINE base == Baseline!on_message(AsBook(pbook), msg)
    <2>2. PooledStep(pbook, pbook', base)
      BY <2>1, PooledMessage
    <2>3. AsBook(pbook)' = AsBook(pbook')
      OBVIOUS
    <2>4. ASSUME AsBook(pbook)' = base
          PROVE  Baseline!Next
      <3>1. msg.type \in MessageType /\ msg \in Baseline!Message
        BY MessageFields, SameHelpers
      <3>2. msg \in Baseline!MessagesOf(msg.type)
        BY <3>1 DEF Baseline!MessagesOf
      <3> QED
        BY <2>4, <3>1, <3>2 DEF Baseline!Next, Baseline!Add, Baseline!Modify,
                                Baseline!Cancel, Baseline!Trade, MessageType
    <2> HIDE DEF base
    <2> QED
      BY <2>2, <2>3, <2>4 DEF PooledStep, Refused, Applied
  <1> QED
    BY <1>1, <1>2

\* What the invariant says of the slots of the pool.
LEMMA InvPartition == PooledInv(pbook) => PoolPartition
  <1> SUFFICES ASSUME PooledInv(pbook)
               PROVE  PoolPartition
    OBVIOUS
  <1> DEFINE pool  == pbook.order_pool_
             table == pbook.order_map_
             free  == ToSet(pool.free_list_)
             held  == {table[id] : id \in DOMAIN table}
  <1>1. PoolInv(pool) /\ TableInv(table, pool) /\ Book!BookInv(AsBook(pbook))
    BY DEF PooledInv
  <1>2. \A id \in DOMAIN table : /\ id \in OrderIds /\ table[id] \in PoolSlots
                                 /\ order_at(pbook, id).order_id = id
    BY PointsToOrder
  <1>3. \A side \in Side : \A p \in DOMAIN pbook.levels[side] :
           p \in Prices /\ pbook.levels[side][p] \in PriceLevel
    BY <1>1, PooledOrders, SameTerms DEF Book!BookInv, Book!BookShape, Book!SideShape
  <1>4. TypeOK
    BY <1>1, <1>2, <1>3 DEF TypeOK, PooledInv, PoolInv
  <1>5. Cardinality(free) = Len(pool.free_list_)
    <2>1. pool.free_list_ \in Seq(PoolSlots) /\ Book!Distinct(pool.free_list_)
      BY <1>1 DEF PoolInv
    <2> HIDE DEF pool
    <2> QED
      BY <2>1, DistinctCardinality
  <1>6. /\ free = {i \in PoolSlots : ~pool.in_use_[i]}
        /\ \A i \in free : pool.storage_[i] = NoObject
    BY <1>1 DEF PoolInv
  <1>7. /\ held = Held(pool) /\ Cardinality(Held(pool)) = Cardinality(DOMAIN table)
    <2> HIDE DEF pool, table
    <2> QED
      BY <1>1, HeldCount
  <1>8. held = {i \in PoolSlots : pool.in_use_[i]}
    BY <1>7 DEF Held
  <1> QED
    BY <1>2, <1>4, <1>5, <1>6, <1>7, <1>8 DEF PoolPartition

\* The invariant holds from the start and is kept.
LEMMA PooledInductive ==
    /\ Init => PooledInv(pbook)
    /\ PooledInv(pbook) /\ [Next]_pbook => PooledInv(pbook)'
  <1>1. Init => PooledInv(pbook)
    BY PooledEmpty DEF Init
  <1>2. PooledInv(pbook) /\ [Next]_pbook => PooledInv(pbook)'
    BY PooledNext
  <1> QED
    BY <1>1, <1>2

(***************************************************************************)
(* Every slot of the pool is free, listed once and empty, or holds the     *)
(* order of exactly one id, whatever messages the pooled book sees: it     *)
(* neither leaks a slot nor frees one twice nor leaves a pointer to a      *)
(* freed order.                                                            *)
(***************************************************************************)
THEOREM PoolIsPartitioned == Spec => []PoolPartition
  BY InvPartition, PooledInductive, PTL DEF Spec

(***************************************************************************)
(* The pool's statistics add up to the number of resting orders, also      *)
(* after the counters have wrapped.                                        *)
(***************************************************************************)
THEOREM CountersAddUp == Spec => []PoolCountersMatch
  <1>1. PooledInv(pbook) => PoolCountersMatch
    BY DEF PooledInv, TableInv, Live, PoolCountersMatch
  <1> QED
    BY <1>1, PooledInductive, PTL DEF Spec

(***************************************************************************)
(* An add is refused for exhaustion only by a book that holds as many      *)
(* orders as its pool has slots, and then leaves the book as it was.       *)
(***************************************************************************)
THEOREM RefusedOnlyWhenFull == Spec => ExhaustedOnlyWhenFull
  <1>1. PooledInv(pbook) /\ [Next]_pbook =>
          [pbook'.pool_exhaustions_ # pbook.pool_exhaustions_
             => /\ Cardinality(DOMAIN pbook.order_map_) = PoolCapacity
                /\ AsBook(pbook') = AsBook(pbook)]_pbook
    BY PooledNext
  <1> QED
    BY <1>1, PooledInductive, PTL DEF Spec, ExhaustedOnlyWhenFull

\* No level of the book ever holds more than a uint32_t can count: the total
\* of every level is what its orders add up to.
TotalsFit ==
    \A side \in Side : \A p \in DOMAIN pbook.levels[side] :
        Baseline!RestingQuantity(AsBook(pbook), side, p) < U32

\* The baseline's sum is the sum the lemmas speak of.
LEMMA SumsFit ==
    ASSUME NEW b, \A side \in Side : \A p \in DOMAIN b.levels[side] :
                     Baseline!RestingQuantity(b, side, p) < U32
    PROVE  Fits(b)
  <1>1. ASSUME NEW side, NEW p
        PROVE  Baseline!RestingQuantity(b, side, p)
                 = Book!SumOver(b.order_map, Resting(b, side, p))
    <2>1. Baseline!Resting(b, side, p) = Resting(b, side, p)
      BY DEF Baseline!Resting, Resting
    <2> QED
      BY <2>1 DEF Baseline!RestingQuantity, Baseline!MapThenSumSet, Book!SumOver,
                  Book!IsSum, Book!Pick, Baseline!MapThenFoldSet
  <1> QED
    BY <1>1 DEF Fits

(***************************************************************************)
(* The pooled book implements the baseline book in every behaviour in      *)
(* which no level's quantities exceed a uint32_t: whatever the capacity of *)
(* the pool, each message does to the book it stands for what the baseline *)
(* does, or is refused and does nothing.                                   *)
(***************************************************************************)
THEOREM ImplementsUnlessWrapped == Spec /\ []TotalsFit => ImplementsOrderBook
  <1>1. Init => /\ PooledInv(pbook) /\ Book!TotalsInv(AsBook(pbook))
                /\ Baseline!Init
    BY PooledEmpty DEF Init, Baseline!Init
  <1>2. PooledInv(pbook) /\ Book!TotalsInv(AsBook(pbook)) /\ TotalsFit /\ [Next]_pbook
          => /\ PooledInv(pbook)' /\ Book!TotalsInv(AsBook(pbook))'
             /\ [Baseline!Next]_(AsBook(pbook))
    <2> SUFFICES ASSUME PooledInv(pbook), Book!TotalsInv(AsBook(pbook)), TotalsFit,
                        [Next]_pbook
                 PROVE  /\ PooledInv(pbook)' /\ Book!TotalsInv(AsBook(pbook))'
                        /\ [Baseline!Next]_(AsBook(pbook))
      OBVIOUS
    <2>1. Fits(AsBook(pbook))
      BY PooledOrders, SumsFit DEF TotalsFit
    <2> QED
      BY <2>1, PooledNext
  <1> QED
    BY <1>1, <1>2, PTL DEF Spec, ImplementsOrderBook, Baseline!Spec

=============================================================================
