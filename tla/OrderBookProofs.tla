--------------------------- MODULE OrderBookProofs ---------------------------
(***************************************************************************)
(* Proofs about the baseline order book, for every set of ids, prices and  *)
(* quantities and every modulus of the quantity arithmetic.  The first     *)
(* part says what the steps on one side of a book do; the proofs about the *)
(* pooled book rest on it too.                                             *)
(***************************************************************************)
EXTENDS OrderBook, FiniteSetTheorems, SequenceTheorems, TLAPS

\* No id is listed twice.
Distinct(s) == \A i, j \in 1 .. Len(s) : s[i] = s[j] => i = j

\* A sequence that lists nothing twice has as many elements as places.
LEMMA DistinctCardinality ==
    ASSUME NEW S, NEW s \in Seq(S), Distinct(s)
    PROVE  IsFiniteSet(ToSet(s)) /\ Cardinality(ToSet(s)) = Len(s)
  <1>1. /\ Len(s) \in Nat /\ DOMAIN s = 1 .. Len(s)
        /\ s \in [1 .. Len(s) -> ToSet(s)]
    BY DEF ToSet
  <1>2. s \in Bijection(1 .. Len(s), ToSet(s))
    BY <1>1 DEF Bijection, Injection, Surjection, Distinct, ToSet, IsInjective
  <1>3. ExistsBijection(1 .. Len(s), ToSet(s))
    BY <1>2 DEF ExistsBijection
  <1> QED
    BY <1>1, <1>3, FS_CountingElements, FS_NatBijection

\* What RemoveFirst leaves of a sequence that lists e once, at place k.
LEMMA RemoveFirstPlaces ==
    ASSUME NEW S, NEW s \in Seq(S), Distinct(s), NEW k \in 1 .. Len(s)
    PROVE  LET r == RemoveFirst(s, s[k])
           IN  /\ r \in Seq(S)
               /\ Len(r) = Len(s) - 1
               /\ \A i \in 1 .. (Len(s) - 1) :
                     r[i] = IF i < k THEN s[i] ELSE s[i + 1]
  <1>1. {i \in 1 .. Len(s) : s[i] = s[k]} = {k}
    BY DEF Distinct
  <1>2. Min({k}) = k
    BY DEF Min
  <1>3. SelectInSeq(s, LAMBDA v : v = s[k]) = k
    BY <1>1, <1>2 DEF SelectInSeq
  <1>4. RemoveFirst(s, s[k]) = SubSeq(s, 1, k - 1) \o SubSeq(s, k + 1, Len(s))
    BY <1>3 DEF RemoveFirst, RemoveAt
  <1> DEFINE front == SubSeq(s, 1, k - 1)
             back  == SubSeq(s, k + 1, Len(s))
  <1>5. /\ front \in Seq(S) /\ Len(front) = k - 1
        /\ \A i \in 1 .. (k - 1) : front[i] = s[i]
    OBVIOUS
  <1>6. /\ back \in Seq(S) /\ Len(back) = Len(s) - k
        /\ \A i \in 1 .. (Len(s) - k) : back[i] = s[k + i]
    OBVIOUS
  <1> HIDE DEF front, back
  <1>7. /\ front \o back \in Seq(S)
        /\ Len(front \o back) = Len(s) - 1
        /\ \A i \in 1 .. (Len(s) - 1) : (front \o back)[i] =
              IF i <= k - 1 THEN front[i] ELSE back[i - (k - 1)]
    <2>1. Len(front) + Len(back) = Len(s) - 1
      BY <1>5, <1>6
    <2>2. /\ front \o back \in Seq(S)
          /\ Len(front \o back) = Len(front) + Len(back)
          /\ \A i \in 1 .. (Len(front) + Len(back)) : (front \o back)[i] =
                IF i <= Len(front) THEN front[i] ELSE back[i - Len(front)]
      BY <1>5, <1>6, ConcatProperties
    <2> QED
      BY <1>5, <2>1, <2>2
  <1>8. ASSUME NEW i \in 1 .. (Len(s) - 1)
        PROVE  (front \o back)[i] = IF i < k THEN s[i] ELSE s[i + 1]
    <2>1. CASE i <= k - 1
      <3>1. (front \o back)[i] = front[i] /\ i \in 1 .. (k - 1) /\ i < k
        BY <1>7, <2>1
      <3> QED
        BY <1>5, <3>1
    <2>2. CASE ~(i <= k - 1)
      <3>1. /\ i - (k - 1) \in 1 .. (Len(s) - k) /\ k + (i - (k - 1)) = i + 1
            /\ ~(i < k)
        BY <2>2
      <3>2. (front \o back)[i] = back[i - (k - 1)]
        BY <1>7, <2>2
      <3>3. back[i - (k - 1)] = s[k + (i - (k - 1))]
        BY <1>6, <3>1
      <3> QED
        BY <3>1, <3>2, <3>3
    <2> QED
      BY <2>1, <2>2
  <1>9. RemoveFirst(s, s[k]) = front \o back
    BY <1>4 DEF front, back
  <1> QED
    BY <1>7, <1>8, <1>9

\* Removing the only mention of an id removes exactly that id.
LEMMA RemoveFirstDistinct ==
    ASSUME NEW S, NEW s \in Seq(S), Distinct(s), NEW e \in ToSet(s)
    PROVE  /\ RemoveFirst(s, e) \in Seq(S)
           /\ Distinct(RemoveFirst(s, e))
           /\ ToSet(RemoveFirst(s, e)) = ToSet(s) \ {e}
  <1>1. PICK k \in 1 .. Len(s) : e = s[k]
    BY DEF ToSet
  <1> DEFINE r == RemoveFirst(s, e)
  <1>2. /\ r \in Seq(S)
        /\ Len(r) = Len(s) - 1
        /\ \A i \in 1 .. (Len(s) - 1) : r[i] = IF i < k THEN s[i] ELSE s[i + 1]
    BY <1>1, RemoveFirstPlaces
  <1> HIDE DEF r
  <1> DEFINE place(i) == IF i < k THEN i ELSE i + 1
  <1>3. ASSUME NEW i \in 1 .. Len(r)
        PROVE  place(i) \in 1 .. Len(s) /\ r[i] = s[place(i)]
    BY <1>2
  <1>4. Distinct(r)
    <2> SUFFICES ASSUME NEW i \in 1 .. Len(r), NEW j \in 1 .. Len(r), r[i] = r[j]
                 PROVE  i = j
      BY DEF Distinct
    <2>1. place(i) = place(j)
      BY <1>3 DEF Distinct
    <2> QED
      BY <1>2, <2>1
  <1>5. ASSUME NEW x \in ToSet(r)
        PROVE  x \in ToSet(s) \ {e}
    <2>1. PICK i \in 1 .. Len(r) : x = r[i]
      BY <1>2 DEF ToSet
    <2>2. x = s[place(i)] /\ place(i) \in 1 .. Len(s) /\ place(i) # k
      BY <1>3, <1>2, <2>1
    <2>3. x # e
      BY <1>1, <2>2 DEF Distinct
    <2> QED
      BY <2>2, <2>3 DEF ToSet
  <1>6. ASSUME NEW x \in ToSet(s) \ {e}
        PROVE  x \in ToSet(r)
    <2>1. PICK j \in 1 .. Len(s) : x = s[j] /\ j # k
      BY <1>1 DEF ToSet
    <2>2. CASE j < k
      BY <1>2, <2>1, <2>2 DEF ToSet
    <2>3. CASE j > k
      <3>1. j - 1 \in 1 .. Len(r) /\ r[j - 1] = s[j]
        BY <1>2, <2>1, <2>3
      <3> QED
        BY <1>2, <2>1, <3>1 DEF ToSet
    <2> QED
      BY <2>1, <2>2, <2>3
  <1> QED
    BY <1>2, <1>4, <1>5, <1>6 DEF r

\* A list that stays as it is keeps its order.
LEMMA SameKeepsOrder ==
    ASSUME NEW S, NEW s \in Seq(S), Distinct(s)
    PROVE  KeepsOrder(s, s)
  <1>1. DOMAIN s = 1 .. Len(s)
    OBVIOUS
  <1>2. ASSUME NEW i \in DOMAIN s, NEW j \in DOMAIN s, NEW k \in DOMAIN s,
               NEW l \in DOMAIN s, s[i] = s[k], s[j] = s[l], i < j
        PROVE  k < l
    BY <1>1, <1>2 DEF Distinct
  <1>3. \A k \in DOMAIN s : s[k] \in ToSet(s)
    BY DEF ToSet
  <1> QED
    BY <1>2, <1>3 DEF KeepsOrder

\* A newcomer at the end overtakes nobody.
LEMMA AppendKeepsOrder ==
    ASSUME NEW S, NEW s \in Seq(S), Distinct(s), NEW e \in S, e \notin ToSet(s)
    PROVE  KeepsOrder(s, Append(s, e))
  <1> DEFINE r == Append(s, e)
  <1>1. /\ DOMAIN s = 1 .. Len(s) /\ DOMAIN r = 1 .. (Len(s) + 1)
        /\ Len(s) \in Nat
        /\ \A i \in 1 .. Len(s) : r[i] = s[i]
        /\ r[Len(s) + 1] = e
    OBVIOUS
  <1> HIDE DEF r
  <1>2. \A i \in 1 .. Len(s) : s[i] \in ToSet(s) /\ s[i] # e
    BY <1>1 DEF ToSet
  <1>3. ASSUME NEW i \in DOMAIN s, NEW k \in DOMAIN r, s[i] = r[k]
        PROVE  k = i
    BY <1>1, <1>2, <1>3 DEF Distinct
  <1>4. ASSUME NEW i \in DOMAIN s, NEW j \in DOMAIN s, NEW k \in DOMAIN r,
               NEW l \in DOMAIN r, s[i] = r[k], s[j] = r[l], i < j
        PROVE  k < l
    BY <1>3, <1>4
  <1>5. ASSUME NEW k \in DOMAIN r, NEW l \in DOMAIN r,
               r[k] \in ToSet(s), r[l] \notin ToSet(s)
        PROVE  k < l
    BY <1>1, <1>2, <1>5
  <1> QED
    BY <1>4, <1>5 DEF KeepsOrder, r

\* Those behind the one that leaves move up, nobody else moves.
LEMMA RemoveKeepsOrder ==
    ASSUME NEW S, NEW s \in Seq(S), Distinct(s), NEW e \in ToSet(s)
    PROVE  KeepsOrder(s, RemoveFirst(s, e))
  <1>1. PICK k \in 1 .. Len(s) : e = s[k]
    BY DEF ToSet
  <1> DEFINE r == RemoveFirst(s, e)
             place(i) == IF i < k THEN i ELSE i + 1
  <1>2. /\ r \in Seq(S)
        /\ Len(r) = Len(s) - 1
        /\ \A i \in 1 .. (Len(s) - 1) : r[i] = IF i < k THEN s[i] ELSE s[i + 1]
    BY <1>1, RemoveFirstPlaces
  <1> HIDE DEF r
  <1>3. DOMAIN s = 1 .. Len(s) /\ DOMAIN r = 1 .. (Len(s) - 1)
    BY <1>2
  <1>4. ASSUME NEW i \in DOMAIN r
        PROVE  place(i) \in 1 .. Len(s) /\ r[i] = s[place(i)]
    BY <1>2, <1>3
  <1>5. ASSUME NEW i \in DOMAIN s, NEW m \in DOMAIN r, s[i] = r[m]
        PROVE  i = place(m)
    BY <1>3, <1>4, <1>5 DEF Distinct
  <1>6. ASSUME NEW i \in DOMAIN s, NEW j \in DOMAIN s, NEW m \in DOMAIN r,
               NEW l \in DOMAIN r, s[i] = r[m], s[j] = r[l], i < j
        PROVE  m < l
    <2>1. place(m) < place(l)
      BY <1>5, <1>6
    <2> QED
      BY <1>3, <2>1
  <1>7. \A l \in DOMAIN r : r[l] \in ToSet(s)
    BY <1>3, <1>4 DEF ToSet
  <1> QED
    BY <1>6, <1>7 DEF KeepsOrder, r

-----------------------------------------------------------------------------
\* One side of the book has the declared shape, with finitely many levels.
SideShape(side_map) ==
    /\ IsFiniteSet(DOMAIN side_map) /\ DOMAIN side_map \subseteq Prices
    /\ \A p \in DOMAIN side_map : side_map[p] \in PriceLevel

\* What a side says of a price at which exactly ids rest.
Lists(side_map, p, ids) ==
    IF p \in DOMAIN side_map
    THEN /\ side_map[p].order_ids # <<>>
         /\ Distinct(side_map[p].order_ids)
         /\ ToSet(side_map[p].order_ids) = ids
    ELSE ids = {}

\* Two sides have the same level, or both none, at a price.
SameLevel(m, n, p) == /\ p \in DOMAIN m <=> p \in DOMAIN n
                      /\ p \in DOMAIN m => m[p] = n[p]

\* Nobody overtakes at the levels two sides have in common.
SideKeepsOrder(m, n) ==
    \A p \in DOMAIN m \cap DOMAIN n :
        KeepsOrder(m[p].order_ids, n[p].order_ids)

\* The fields of a level.
LEMMA LevelFields ==
    ASSUME NEW level \in PriceLevel
    PROVE  /\ level.order_ids \in Seq(OrderIds)
           /\ level.total_quantity \in 0 .. (U32 - 1)
           /\ level = [order_ids |-> level.order_ids,
                       total_quantity |-> level.total_quantity]
  BY DEF PriceLevel

\* A level is made of a list of ids and a 32-bit total.
LEMMA NewLevel ==
    ASSUME NEW ids \in Seq(OrderIds), NEW q \in 0 .. (U32 - 1)
    PROVE  [order_ids |-> ids, total_quantity |-> q] \in PriceLevel
  BY DEF PriceLevel

\* A total reduced modulo 2^32 is a 32-bit total.
LEMMA Reduced ==
    ASSUME NEW n \in Int
    PROVE  n % U32 \in 0 .. (U32 - 1)
  BY U32Assumption

\* The fields of a message.
LEMMA MessageFields ==
    ASSUME NEW msg \in Message
    PROVE  /\ msg.type \in MessageType /\ msg.order_id \in OrderIds
           /\ msg.price \in Prices /\ msg.side \in Side
           /\ msg.quantity \in 0 .. (U32 - 1)
  BY QuantitiesAssumption DEF Message

\* One more id at the end of a list.
LEMMA AppendDistinct ==
    ASSUME NEW S, NEW s \in Seq(S), Distinct(s), NEW e \in S, e \notin ToSet(s)
    PROVE  /\ Append(s, e) \in Seq(S) /\ Append(s, e) # <<>>
           /\ Distinct(Append(s, e))
           /\ ToSet(Append(s, e)) = ToSet(s) \union {e}
  <1> DEFINE r == Append(s, e)
  <1>1. /\ r \in Seq(S) /\ r # <<>>
        /\ Len(r) = Len(s) + 1 /\ Len(s) \in Nat
        /\ DOMAIN r = 1 .. Len(r) /\ DOMAIN s = 1 .. Len(s)
        /\ \A i \in 1 .. Len(s) : r[i] = s[i]
        /\ r[Len(s) + 1] = e
    OBVIOUS
  <1> HIDE DEF r
  <1>2. \A i \in 1 .. Len(s) : s[i] # e
    BY <1>1 DEF ToSet
  <1>3. Distinct(r)
    <2> SUFFICES ASSUME NEW i \in 1 .. Len(r), NEW j \in 1 .. Len(r), r[i] = r[j]
                 PROVE  i = j
      BY DEF Distinct
    <2>1. CASE i \in 1 .. Len(s) /\ j \in 1 .. Len(s)
      BY <1>1, <2>1 DEF Distinct
    <2>2. CASE i = Len(s) + 1 \/ j = Len(s) + 1
      BY <1>1, <1>2, <2>2
    <2> QED
      BY <1>1, <2>1, <2>2
  <1>4. ASSUME NEW x
        PROVE  x \in ToSet(r) <=> x \in ToSet(s) \union {e}
    <2>1. x \in ToSet(r) <=> \E i \in 1 .. (Len(s) + 1) : x = r[i]
      BY <1>1 DEF ToSet
    <2>2. x \in ToSet(s) <=> \E i \in 1 .. Len(s) : x = s[i]
      BY <1>1 DEF ToSet
    <2>3. (\E i \in 1 .. (Len(s) + 1) : x = r[i])
            <=> (\E i \in 1 .. Len(s) : x = s[i]) \/ x = e
      BY <1>1
    <2> QED
      BY <2>1, <2>2, <2>3
  <1> QED
    BY <1>1, <1>3, <1>4 DEF r

\* A new order joins its level, or opens it; no other level is touched.
LEMMA AddToLevel ==
    ASSUME NEW m, SideShape(m), NEW msg \in Message,
           NEW ids, Lists(m, msg.price, ids), msg.order_id \notin ids
    PROVE  LET n == add_to_level(m, msg)
           IN  /\ SideShape(n)
               /\ Lists(n, msg.price, ids \union {msg.order_id})
               /\ \A p : p # msg.price => SameLevel(m, n, p)
  <1> DEFINE n == add_to_level(m, msg)
  <1>1. /\ msg.order_id \in OrderIds /\ msg.price \in Prices
        /\ msg.quantity \in 0 .. (U32 - 1)
    BY MessageFields
  <1>2. IsFiniteSet(DOMAIN m \union {msg.price})
    BY FS_AddElement DEF SideShape
  <1>3. CASE msg.price \in DOMAIN m
    <2> DEFINE old == m[msg.price]
               new == [order_ids |-> Append(old.order_ids, msg.order_id),
                       total_quantity |-> (old.total_quantity + msg.quantity) % U32]
    <2>1. n = [m EXCEPT ![msg.price] = new]
      BY <1>3 DEF add_to_level
    <2>2. old.order_ids \in Seq(OrderIds) /\ old.total_quantity \in 0 .. (U32 - 1)
      BY <1>3, LevelFields DEF SideShape
    <2>3. /\ Append(old.order_ids, msg.order_id) \in Seq(OrderIds)
          /\ Append(old.order_ids, msg.order_id) # <<>>
          /\ Distinct(Append(old.order_ids, msg.order_id))
          /\ ToSet(Append(old.order_ids, msg.order_id))
               = ids \union {msg.order_id}
      BY <1>1, <1>3, <2>2, AppendDistinct DEF Lists
    <2>4. new \in PriceLevel
      <3>1. (old.total_quantity + msg.quantity) % U32 \in 0 .. (U32 - 1)
        <4>1. old.total_quantity + msg.quantity \in Int
          BY <1>1, <2>2, U32Assumption
        <4> QED
          BY <4>1, Reduced
      <3> QED
        BY <2>3, <3>1, NewLevel
    <2> HIDE DEF new
    <2>5. DOMAIN n = DOMAIN m /\ n[msg.price] = new
          /\ \A p \in DOMAIN m : p # msg.price => n[p] = m[p]
      BY <1>3, <2>1
    <2> HIDE DEF n, old
    <2>6. SideShape(n)
      BY <2>4, <2>5 DEF SideShape
    <2>7. Lists(n, msg.price, ids \union {msg.order_id})
      BY <1>3, <2>3, <2>5 DEF Lists, new
    <2>8. \A p : p # msg.price => SameLevel(m, n, p)
      BY <2>5 DEF SameLevel
    <2> QED
      BY <2>6, <2>7, <2>8 DEF n
  <1>4. CASE msg.price \notin DOMAIN m
    <2> DEFINE new == [order_ids |-> <<msg.order_id>>, total_quantity |-> msg.quantity]
    <2>1. n = Put(m, msg.price, new)
      BY <1>4 DEF add_to_level
    <2>2. new \in PriceLevel
      <3>1. <<msg.order_id>> \in Seq(OrderIds)
        BY <1>1
      <3> QED
        BY <1>1, <3>1, NewLevel
    <2>3. /\ new.order_ids # <<>> /\ Distinct(new.order_ids)
          /\ ToSet(new.order_ids) = {msg.order_id}
      BY DEF Distinct, ToSet
    <2> HIDE DEF new
    <2>4. /\ DOMAIN n = DOMAIN m \union {msg.price}
          /\ n[msg.price] = new
          /\ \A p \in DOMAIN m : n[p] = m[p]
      BY <1>4, <2>1 DEF Put
    <2>5. ids = {}
      BY <1>4 DEF Lists
    <2> HIDE DEF n
    <2>6. SideShape(n)
      BY <1>1, <1>2, <2>2, <2>4 DEF SideShape
    <2>7. Lists(n, msg.price, ids \union {msg.order_id})
      BY <2>3, <2>4, <2>5 DEF Lists
    <2>8. \A p : p # msg.price => SameLevel(m, n, p)
      BY <2>4 DEF SameLevel
    <2> QED
      BY <2>6, <2>7, <2>8 DEF n
  <1> QED
    BY <1>3, <1>4

\* An order leaves its level, which is erased with its last order; no other
\* level is touched.
LEMMA LeaveLevel ==
    ASSUME NEW m, SideShape(m), NEW price \in DOMAIN m, NEW q \in Int,
           NEW ids, Lists(m, price, ids), NEW id \in ids
    PROVE  LET n == leave_level(m, price, id, q)
           IN  /\ SideShape(n)
               /\ Lists(n, price, ids \ {id})
               /\ \A p : p # price => SameLevel(m, n, p)
  <1> DEFINE n == leave_level(m, price, id, q)
             old == m[price].order_ids
             left == RemoveFirst(old, id)
  <1>1. /\ old \in Seq(OrderIds) /\ Distinct(old) /\ ToSet(old) = ids
        /\ m[price].total_quantity \in 0 .. (U32 - 1)
    BY LevelFields DEF SideShape, Lists
  <1>2. /\ left \in Seq(OrderIds) /\ Distinct(left)
        /\ ToSet(left) = ids \ {id}
    BY <1>1, RemoveFirstDistinct
  <1> HIDE DEF left
  <1>3. left = <<>> <=> ids \ {id} = {}
    <2>1. left = <<>> <=> DOMAIN left = {}
      BY <1>2
    <2> QED
      BY <1>2, <2>1 DEF ToSet
  <1>4. CASE left = <<>>
    <2>1. n = Erase(m, price)
      BY <1>4 DEF leave_level, left
    <2>2. /\ DOMAIN n = DOMAIN m \ {price}
          /\ \A p \in DOMAIN n : n[p] = m[p]
      BY <2>1 DEF Erase
    <2>3. IsFiniteSet(DOMAIN m \ {price})
      BY FS_RemoveElement DEF SideShape
    <2> HIDE DEF n
    <2>4. SideShape(n)
      BY <2>2, <2>3 DEF SideShape
    <2>5. Lists(n, price, ids \ {id})
      BY <1>3, <1>4, <2>2 DEF Lists
    <2>6. \A p : p # price => SameLevel(m, n, p)
      BY <2>2 DEF SameLevel
    <2> QED
      BY <2>4, <2>5, <2>6 DEF n
  <1>5. CASE left # <<>>
    <2> DEFINE new == [order_ids |-> left,
                       total_quantity |-> (m[price].total_quantity - q) % U32]
    <2>1. n = [m EXCEPT ![price] = new]
      BY <1>5 DEF leave_level, left
    <2>2. new \in PriceLevel
      <3>1. (m[price].total_quantity - q) % U32 \in 0 .. (U32 - 1)
        <4>1. m[price].total_quantity - q \in Int
          BY <1>1, U32Assumption
        <4> QED
          BY <4>1, Reduced
      <3> QED
        BY <1>2, <3>1, NewLevel
    <2>3. new.order_ids = left
      OBVIOUS
    <2> HIDE DEF new
    <2>4. DOMAIN n = DOMAIN m /\ n[price] = new
          /\ \A p \in DOMAIN m : p # price => n[p] = m[p]
      BY <2>1
    <2> HIDE DEF n
    <2>5. SideShape(n)
      BY <2>2, <2>4 DEF SideShape
    <2>6. Lists(n, price, ids \ {id})
      BY <1>2, <1>5, <2>3, <2>4 DEF Lists
    <2>7. \A p : p # price => SameLevel(m, n, p)
      BY <2>4 DEF SameLevel
    <2> QED
      BY <2>5, <2>6, <2>7 DEF n
  <1> QED
    BY <1>4, <1>5

\* A level that is given another total keeps its list of ids.
LEMMA RetotalLevel ==
    ASSUME NEW m, SideShape(m), NEW price \in DOMAIN m, NEW q \in 0 .. (U32 - 1)
    PROVE  LET n == [m EXCEPT ![price].total_quantity = q]
           IN  /\ SideShape(n)
               /\ price \in DOMAIN n
               /\ n[price].order_ids = m[price].order_ids
               /\ n[price].total_quantity = q
               /\ \A p : p # price => SameLevel(m, n, p)
  <1> DEFINE n == [m EXCEPT ![price].total_quantity = q]
             new == [order_ids |-> m[price].order_ids, total_quantity |-> q]
  <1>1. m[price] \in PriceLevel
    BY DEF SideShape
  <1>2. /\ new \in PriceLevel /\ new.order_ids = m[price].order_ids
        /\ new.total_quantity = q
    BY <1>1, LevelFields, NewLevel
  <1>3. [m[price] EXCEPT !.total_quantity = q] = new
    BY <1>1 DEF PriceLevel
  <1>4. n = [m EXCEPT ![price] = new]
    BY <1>3
  <1> HIDE DEF new
  <1>5. DOMAIN n = DOMAIN m /\ n[price] = new
        /\ \A p \in DOMAIN m : p # price => n[p] = m[p]
    BY <1>4
  <1> HIDE DEF n
  <1> QED
    BY <1>2, <1>5 DEF SideShape, SameLevel, n

\* A level both of whose lists are the same keeps its order.
LEMMA LevelKeepsOrder ==
    ASSUME NEW m, SideShape(m), NEW p \in DOMAIN m, NEW ids, Lists(m, p, ids)
    PROVE  KeepsOrder(m[p].order_ids, m[p].order_ids)
  <1>1. m[p].order_ids \in Seq(OrderIds) /\ Distinct(m[p].order_ids)
    BY LevelFields DEF SideShape, Lists
  <1> QED
    BY <1>1, SameKeepsOrder

\* Nobody overtakes when an order joins its level.
LEMMA AddKeepsOrder ==
    ASSUME NEW m, SideShape(m), NEW msg \in Message,
           msg.price \in DOMAIN m, NEW ids,
           Lists(m, msg.price, ids), msg.order_id \notin ids
    PROVE  KeepsOrder(m[msg.price].order_ids,
                      add_to_level(m, msg)[msg.price].order_ids)
  <1>1. add_to_level(m, msg)[msg.price].order_ids
          = Append(m[msg.price].order_ids, msg.order_id)
    BY DEF add_to_level
  <1>2. /\ m[msg.price].order_ids \in Seq(OrderIds)
        /\ Distinct(m[msg.price].order_ids)
        /\ ToSet(m[msg.price].order_ids) = ids
    BY LevelFields DEF SideShape, Lists
  <1> QED
    BY <1>1, <1>2, MessageFields, AppendKeepsOrder

\* Nobody overtakes when an order leaves its level.
LEMMA LeaveKeepsOrder ==
    ASSUME NEW m, SideShape(m), NEW price \in DOMAIN m, NEW q \in Int,
           NEW ids, Lists(m, price, ids), NEW id \in ids,
           price \in DOMAIN leave_level(m, price, id, q)
    PROVE  KeepsOrder(m[price].order_ids,
                      leave_level(m, price, id, q)[price].order_ids)
  <1>1. leave_level(m, price, id, q)[price].order_ids
          = RemoveFirst(m[price].order_ids, id)
    BY DEF leave_level, Erase
  <1>2. /\ m[price].order_ids \in Seq(OrderIds)
        /\ Distinct(m[price].order_ids)
        /\ ToSet(m[price].order_ids) = ids
    BY LevelFields DEF SideShape, Lists
  <1> QED
    BY <1>1, <1>2, RemoveKeepsOrder

\* The total of a level an order has joined.
LEMMA AddTotal ==
    ASSUME NEW m, NEW msg \in Message
    PROVE  add_to_level(m, msg)[msg.price].total_quantity
             = IF msg.price \in DOMAIN m
               THEN (m[msg.price].total_quantity + msg.quantity) % U32
               ELSE msg.quantity
  BY DEF add_to_level, Put

\* The total of a level an order has left.
LEMMA LeaveTotal ==
    ASSUME NEW m, NEW price \in DOMAIN m, NEW id, NEW q,
           price \in DOMAIN leave_level(m, price, id, q)
    PROVE  leave_level(m, price, id, q)[price].total_quantity
             = (m[price].total_quantity - q) % U32
  BY DEF leave_level, Erase

-----------------------------------------------------------------------------
\* The smaller of two quantities.
LEMMA MinOfTwo ==
    ASSUME NEW x \in Nat, NEW y \in Nat
    PROVE  /\ Min({x, y}) \in Nat
           /\ Min({x, y}) = IF x <= y THEN x ELSE y
  BY DEF Min

\* Some member of the family T has no proper subset in T.
HasMinimal(T) == \E X \in T : \A Y \in T : Y \subseteq X => Y = X

\* A nonempty family of subsets of a finite set has a minimal member.
LEMMA MinimalMember ==
    ASSUME NEW S, IsFiniteSet(S), NEW T \in SUBSET (SUBSET S), T # {}
    PROVE  HasMinimal(T)
  <1>1. IsWellFoundedOn(StrictSubsetOrdering(S), SUBSET S)
    BY FS_StrictSubsetOrderingWellFounded, FS_FiniteSubsetsOfFinite
  <1>2. PICK X \in T : \A Y \in T : ~ (<<Y, X>> \in StrictSubsetOrdering(S))
    BY <1>1, WFMin
  <1>3. \A Y \in T : Y \subseteq X => Y = X
    BY <1>2 DEF StrictSubsetOrdering
  <1> QED
    BY <1>3 DEF HasMinimal

\* A nonempty finite set of prices has a smallest element.
LEMMA HasMin ==
    ASSUME NEW S, IsFiniteSet(S), S \subseteq Int, S # {}
    PROVE  Min(S) \in S /\ \A y \in S : Min(S) <= y
  <1> DEFINE below(x) == {y \in S : y < x}
             T == {below(x) : x \in S}
  <1>1. PICK X \in T : \A Y \in T : Y \subseteq X => Y = X
    <2>1. T \in SUBSET (SUBSET S) /\ T # {}
      OBVIOUS
    <2> HIDE DEF T
    <2>2. HasMinimal(T)
      BY <2>1, MinimalMember
    <2> QED
      BY <2>2 DEF HasMinimal
  <1>2. PICK x \in S : X = below(x)
    OBVIOUS
  <1>3. ASSUME NEW y \in S, y < x
        PROVE  FALSE
    <2>1. below(y) \in T
      OBVIOUS
    <2>2. ASSUME NEW z \in below(y)
          PROVE  z \in below(x)
      BY <1>3, <2>2
    <2>3. y \in below(x) /\ y \notin below(y)
      BY <1>3
    <2> HIDE DEF T, below
    <2> QED
      BY <1>1, <1>2, <2>1, <2>2, <2>3
  <1>4. \A y \in S : x <= y
    BY <1>3
  <1> QED
    BY <1>4 DEF Min

\* A nonempty finite set of prices has a largest element.
LEMMA HasMax ==
    ASSUME NEW S, IsFiniteSet(S), S \subseteq Int, S # {}
    PROVE  Max(S) \in S /\ \A y \in S : Max(S) >= y
  <1> DEFINE above(x) == {y \in S : y > x}
             T == {above(x) : x \in S}
  <1>1. PICK X \in T : \A Y \in T : Y \subseteq X => Y = X
    <2>1. T \in SUBSET (SUBSET S) /\ T # {}
      OBVIOUS
    <2> HIDE DEF T
    <2>2. HasMinimal(T)
      BY <2>1, MinimalMember
    <2> QED
      BY <2>2 DEF HasMinimal
  <1>2. PICK x \in S : X = above(x)
    OBVIOUS
  <1>3. ASSUME NEW y \in S, y > x
        PROVE  FALSE
    <2>1. above(y) \in T
      OBVIOUS
    <2>2. ASSUME NEW z \in above(y)
          PROVE  z \in above(x)
      BY <1>3, <2>2
    <2>3. y \in above(x) /\ y \notin above(y)
      BY <1>3
    <2> HIDE DEF T, above
    <2> QED
      BY <1>1, <1>2, <2>1, <2>2, <2>3
  <1>4. \A y \in S : x >= y
    BY <1>3
  <1> QED
    BY <1>4 DEF Max

-----------------------------------------------------------------------------
\* The element a sum over the set s takes next.
Pick(s) == CHOOSE x \in s : TRUE

\* g tells the sum of the orders' quantities for each subset of T.
IsSum(g, orders, T) ==
    g = [s \in SUBSET T |->
           IF s = {} THEN 0 ELSE orders[Pick(s)].quantity + g[s \ {Pick(s)}]]

\* The sum of the quantities of the orders with ids in T.
SumOver(orders, T) == (CHOOSE g : IsSum(g, orders, T))[T]

\* The sum the property about the totals speaks of.
LEMMA SumIsSumOver ==
    ASSUME NEW orders, NEW T
    PROVE  MapThenSumSet(LAMBDA id : orders[id].quantity, T) = SumOver(orders, T)
  BY DEF MapThenSumSet, MapThenFoldSet, SumOver, IsSum, Pick

\* A set that is not empty has an element to take.
LEMMA PickElement ==
    ASSUME NEW s, s # {}
    PROVE  Pick(s) \in s
  BY DEF Pick

\* The sums over the subsets of T give those over the subsets of U.
LEMMA SumRestrict ==
    ASSUME NEW orders, NEW T, NEW U \in SUBSET T, NEW g, IsSum(g, orders, T)
    PROVE  IsSum([s \in SUBSET U |-> g[s]], orders, U)
  <1> DEFINE h == [s \in SUBSET U |-> g[s]]
             step(f, s) == IF s = {} THEN 0
                           ELSE orders[Pick(s)].quantity + f[s \ {Pick(s)}]
  <1>1. ASSUME NEW s \in SUBSET U
        PROVE  h[s] = step(h, s)
    <2>1. s \in SUBSET T /\ s \ {Pick(s)} \in SUBSET U
      OBVIOUS
    <2>2. g[s] = step(g, s)
      BY <2>1 DEF IsSum
    <2>3. h[s] = g[s] /\ h[s \ {Pick(s)}] = g[s \ {Pick(s)}]
      BY <2>1
    <2> HIDE DEF h
    <2> QED
      BY <2>2, <2>3
  <1>2. h = [s \in SUBSET U |-> h[s]]
    OBVIOUS
  <1> HIDE DEF h
  <1>3. h = [s \in SUBSET U |-> step(h, s)]
    BY <1>1, <1>2
  <1> QED
    BY <1>3 DEF IsSum, h

\* There is one way at most to sum over the subsets of a finite set.
LEMMA SumUnique ==
    ASSUME NEW orders, NEW T, IsFiniteSet(T),
           NEW g, IsSum(g, orders, T), NEW h, IsSum(h, orders, T)
    PROVE  g = h
  <1> DEFINE Bad == {s \in SUBSET T : g[s] # h[s]}
  <1>1. ASSUME NEW s \in SUBSET T
        PROVE  /\ g[s] = IF s = {} THEN 0
                         ELSE orders[Pick(s)].quantity + g[s \ {Pick(s)}]
               /\ h[s] = IF s = {} THEN 0
                         ELSE orders[Pick(s)].quantity + h[s \ {Pick(s)}]
    BY DEF IsSum
  <1>2. ASSUME Bad # {}
        PROVE  FALSE
    <2>1. HasMinimal(Bad)
      <3>1. Bad \in SUBSET (SUBSET T)
        OBVIOUS
      <3> HIDE DEF Bad
      <3> QED
        BY <1>2, <3>1, MinimalMember
    <2>2. PICK X \in Bad : \A Y \in Bad : Y \subseteq X => Y = X
      BY <2>1 DEF HasMinimal
    <2>3. X \in SUBSET T /\ g[X] # h[X]
      OBVIOUS
    <2>4. X # {}
      BY <1>1, <2>3
    <2> DEFINE Y == X \ {Pick(X)}
    <2>5. Y \in SUBSET T /\ Y \subseteq X /\ Y # X
      BY <2>3, <2>4, PickElement
    <2>6. Y \notin Bad
      BY <2>2, <2>5
    <2>7. g[Y] = h[Y]
      BY <2>5, <2>6
    <2>8. /\ g[X] = orders[Pick(X)].quantity + g[Y]
          /\ h[X] = orders[Pick(X)].quantity + h[Y]
      BY <1>1, <2>3, <2>4
    <2> QED
      BY <2>3, <2>7, <2>8
  <1>3. \A s \in SUBSET T : g[s] = h[s]
    BY <1>2
  <1>4. g = [s \in SUBSET T |-> g[s]] /\ h = [s \in SUBSET T |-> h[s]]
    BY DEF IsSum
  <1> QED
    BY <1>3, <1>4

\* The sum over a subset is the same wherever it is taken.
LEMMA SumOfSubset ==
    ASSUME NEW orders, NEW T, NEW U \in SUBSET T, IsFiniteSet(U),
           NEW g, IsSum(g, orders, T)
    PROVE  g[U] = SumOver(orders, U)
  <1> DEFINE h == [s \in SUBSET U |-> g[s]]
             f == CHOOSE x : IsSum(x, orders, U)
  <1>1. IsSum(h, orders, U)
    BY SumRestrict
  <1>2. IsSum(f, orders, U)
    BY <1>1
  <1>3. h[U] = g[U]
    OBVIOUS
  <1> HIDE DEF h, f
  <1>4. f = h
    BY <1>1, <1>2, SumUnique
  <1>5. SumOver(orders, U) = f[U]
    BY DEF SumOver, f
  <1> QED
    BY <1>3, <1>4, <1>5

\* There is a way to sum over the subsets of a finite set.
LEMMA SumExists ==
    ASSUME NEW orders, NEW S, IsFiniteSet(S)
    PROVE  \A T \in SUBSET S : \E g : IsSum(g, orders, T)
  <1> DEFINE Bad == {T \in SUBSET S : ~ \E g : IsSum(g, orders, T)}
  <1> SUFFICES ASSUME Bad # {}
               PROVE  FALSE
    OBVIOUS
  <1>1. HasMinimal(Bad)
    <2>1. Bad \in SUBSET (SUBSET S) /\ Bad # {}
      OBVIOUS
    <2> HIDE DEF Bad
    <2> QED
      BY <2>1, MinimalMember
  <1>2. PICK T \in Bad : \A Y \in Bad : Y \subseteq T => Y = T
    BY <1>1 DEF HasMinimal
  <1>3. T \in SUBSET S /\ ~ \E g : IsSum(g, orders, T)
    OBVIOUS
  <1>4. ASSUME NEW U \in SUBSET T, U # T
        PROVE  \E g : IsSum(g, orders, U)
    BY <1>2, <1>3, <1>4
  <1> DEFINE G == [s \in SUBSET T |->
                     IF s = {} THEN 0
                     ELSE orders[Pick(s)].quantity + SumOver(orders, s \ {Pick(s)})]
  <1>5. ASSUME NEW U \in SUBSET T, U # T
        PROVE  G[U] = SumOver(orders, U)
    <2>1. PICK g : IsSum(g, orders, U)
      BY <1>4, <1>5
    <2>2. IsFiniteSet(U) /\ IsFiniteSet(U \ {Pick(U)})
      BY <1>3, FS_Subset, FS_RemoveElement
    <2>3. g[U] = SumOver(orders, U)
      BY <2>1, <2>2, SumOfSubset
    <2>4. g[U \ {Pick(U)}] = SumOver(orders, U \ {Pick(U)})
      <3>1. U \ {Pick(U)} \in SUBSET U
        OBVIOUS
      <3> QED
        BY <2>1, <2>2, <3>1, SumOfSubset
    <2>5. g[U] = IF U = {} THEN 0
                 ELSE orders[Pick(U)].quantity + g[U \ {Pick(U)}]
      BY <2>1 DEF IsSum
    <2> QED
      BY <2>3, <2>4, <2>5
  <1>6. ASSUME NEW s \in SUBSET T
        PROVE  G[s] = IF s = {} THEN 0
                      ELSE orders[Pick(s)].quantity + G[s \ {Pick(s)}]
    <2>1. CASE s = {}
      BY <2>1
    <2>2. CASE s # {}
      <3>1. s \ {Pick(s)} \in SUBSET T /\ s \ {Pick(s)} # T
        BY <2>2, PickElement
      <3>2. G[s \ {Pick(s)}] = SumOver(orders, s \ {Pick(s)})
        BY <1>5, <3>1
      <3>3. G[s] = orders[Pick(s)].quantity + SumOver(orders, s \ {Pick(s)})
        BY <2>2
      <3> HIDE DEF G
      <3> QED
        BY <2>2, <3>2, <3>3
    <2> QED
      BY <2>1, <2>2
  <1>7. G = [s \in SUBSET T |-> G[s]]
    OBVIOUS
  <1> HIDE DEF G
  <1>8. IsSum(G, orders, T)
    BY <1>6, <1>7 DEF IsSum
  <1> QED
    BY <1>3, <1>8

\* A sum takes one element and goes on with the rest.
LEMMA SumStep ==
    ASSUME NEW orders, NEW T, IsFiniteSet(T)
    PROVE  SumOver(orders, T)
             = IF T = {} THEN 0
               ELSE orders[Pick(T)].quantity + SumOver(orders, T \ {Pick(T)})
  <1>1. PICK g : IsSum(g, orders, T)
    <2>1. T \in SUBSET T
      OBVIOUS
    <2> QED
      BY <2>1, SumExists
  <1>2. IsFiniteSet(T \ {Pick(T)})
    BY FS_RemoveElement
  <1>3. T \in SUBSET T /\ T \ {Pick(T)} \in SUBSET T
    OBVIOUS
  <1>4. g[T] = SumOver(orders, T)
    BY <1>1, <1>3, SumOfSubset
  <1>5. g[T \ {Pick(T)}] = SumOver(orders, T \ {Pick(T)})
    BY <1>1, <1>2, <1>3, SumOfSubset
  <1>6. g[T] = IF T = {} THEN 0 ELSE orders[Pick(T)].quantity + g[T \ {Pick(T)}]
    BY <1>1, <1>3 DEF IsSum
  <1> QED
    BY <1>4, <1>5, <1>6

\* Which element a sum takes first makes no difference.
SumTakes(orders, T) ==
    /\ SumOver(orders, T) \in Int
    /\ \A x \in T : SumOver(orders, T)
                      = orders[x].quantity + SumOver(orders, T \ {x})

\* The order of a sum does not matter.
LEMMA SumAnyOrder ==
    ASSUME NEW orders, NEW S, IsFiniteSet(S), \A x \in S : orders[x].quantity \in Int
    PROVE  \A T \in SUBSET S : SumTakes(orders, T)
  <1> DEFINE Bad == {T \in SUBSET S : ~ SumTakes(orders, T)}
  <1> SUFFICES ASSUME Bad # {}
               PROVE  FALSE
    OBVIOUS
  <1>1. HasMinimal(Bad)
    <2>1. Bad \in SUBSET (SUBSET S) /\ Bad # {}
      OBVIOUS
    <2> HIDE DEF Bad
    <2> QED
      BY <2>1, MinimalMember
  <1>2. PICK T \in Bad : \A Y \in Bad : Y \subseteq T => Y = T
    BY <1>1 DEF HasMinimal
  <1>3. T \in SUBSET S /\ ~ SumTakes(orders, T)
    OBVIOUS
  <1>4. ASSUME NEW U \in SUBSET T, U # T
        PROVE  SumTakes(orders, U)
    BY <1>2, <1>3, <1>4
  <1>5. IsFiniteSet(T)
    BY <1>3, FS_Subset
  <1>6. T # {}
    <2>1. T = {} => SumOver(orders, T) = 0
      BY <1>5, SumStep
    <2> QED
      BY <1>3, <2>1 DEF SumTakes
  <1> DEFINE y == Pick(T)
             sum(U) == SumOver(orders, U)
             q(x) == orders[x].quantity
  <1>7. y \in T
    BY <1>6, PickElement
  <1>8. sum(T) = q(y) + sum(T \ {y})
    BY <1>5, <1>6, SumStep
  <1>9. \A U \in SUBSET T : U # T => sum(U) \in Int
    BY <1>4 DEF SumTakes
  <1>10. \A x \in T : q(x) \in Int
    BY <1>3
  <1> HIDE DEF y
  <1>11. sum(T) \in Int
    BY <1>7, <1>8, <1>9, <1>10
  <1>12. ASSUME NEW x \in T
         PROVE  sum(T) = q(x) + sum(T \ {x})
    <2>1. CASE x = y
      BY <1>8, <2>1
    <2>2. CASE x # y
      <3>1. sum(T \ {y}) = q(x) + sum((T \ {y}) \ {x})
        <4>1. T \ {y} \in SUBSET T /\ T \ {y} # T /\ x \in T \ {y}
          BY <1>7, <2>2
        <4> QED
          BY <1>4, <4>1 DEF SumTakes
      <3>2. sum(T \ {x}) = q(y) + sum((T \ {x}) \ {y})
        <4>1. T \ {x} \in SUBSET T /\ T \ {x} # T /\ y \in T \ {x}
          BY <1>7, <2>2
        <4> QED
          BY <1>4, <4>1 DEF SumTakes
      <3>3. (T \ {x}) \ {y} = (T \ {y}) \ {x}
        OBVIOUS
      <3>4. sum((T \ {y}) \ {x}) \in Int
        <4>1. (T \ {y}) \ {x} \in SUBSET T /\ (T \ {y}) \ {x} # T
          BY <1>7
        <4> QED
          BY <1>9, <4>1
      <3> DEFINE rest == sum((T \ {y}) \ {x})
      <3>5. q(x) \in Int /\ q(y) \in Int /\ rest \in Int
        BY <1>7, <1>10, <3>4
      <3>6. sum(T) = q(y) + (q(x) + rest) /\ sum(T \ {x}) = q(y) + rest
        BY <1>8, <3>1, <3>2, <3>3
      <3> HIDE DEF rest, sum, q
      <3> QED
        BY <3>5, <3>6
    <2> QED
      BY <2>1, <2>2
  <1> QED
    BY <1>3, <1>11, <1>12 DEF SumTakes

\* The sum looks at the quantities of its own orders only.
LEMMA SumSame ==
    ASSUME NEW orders, NEW others, NEW T, IsFiniteSet(T),
           \A x \in T : orders[x].quantity = others[x].quantity
    PROVE  SumOver(orders, T) = SumOver(others, T)
  <1>1. PICK g : IsSum(g, orders, T)
    <2>1. T \in SUBSET T
      OBVIOUS
    <2> QED
      BY <2>1, SumExists
  <1>2. ASSUME NEW s \in SUBSET T
        PROVE  g[s] = IF s = {} THEN 0
                      ELSE others[Pick(s)].quantity + g[s \ {Pick(s)}]
    <2>1. g[s] = IF s = {} THEN 0
                 ELSE orders[Pick(s)].quantity + g[s \ {Pick(s)}]
      BY <1>1 DEF IsSum
    <2>2. s # {} => Pick(s) \in T
      BY PickElement
    <2> QED
      BY <2>1, <2>2
  <1>3. g = [s \in SUBSET T |-> g[s]]
    BY <1>1 DEF IsSum
  <1>4. IsSum(g, others, T)
    BY <1>2, <1>3 DEF IsSum
  <1>5. T \in SUBSET T
    OBVIOUS
  <1> QED
    BY <1>1, <1>4, <1>5, SumOfSubset

\* The sum of no quantities.
LEMMA SumOfNone ==
    ASSUME NEW orders
    PROVE  SumOver(orders, {}) = 0
  BY SumStep, FS_EmptySet

\* The sum is a number, and any of its orders may be taken off it.
LEMMA SumWithout ==
    ASSUME NEW orders, NEW T, IsFiniteSet(T), \A y \in T : orders[y].quantity \in Int,
           NEW x \in T
    PROVE  /\ SumOver(orders, T) \in Int /\ SumOver(orders, T \ {x}) \in Int
           /\ SumOver(orders, T) = orders[x].quantity + SumOver(orders, T \ {x})
  <1>1. T \in SUBSET T /\ T \ {x} \in SUBSET T
    OBVIOUS
  <1>2. SumTakes(orders, T) /\ SumTakes(orders, T \ {x})
    BY <1>1, SumAnyOrder
  <1> QED
    BY <1>2 DEF SumTakes

\* A sum of quantities is not negative.
LEMMA SumNatural ==
    ASSUME NEW orders, NEW S, IsFiniteSet(S), \A x \in S : orders[x].quantity \in Nat
    PROVE  \A T \in SUBSET S : SumOver(orders, T) \in Nat
  <1> DEFINE bad == {T \in SUBSET S : SumOver(orders, T) \notin Nat}
  <1> SUFFICES ASSUME bad # {}
               PROVE  FALSE
    OBVIOUS
  <1>1. HasMinimal(bad)
    BY MinimalMember
  <1>2. PICK T \in bad : \A Y \in bad : Y \subseteq T => Y = T
    <2> HIDE DEF bad
    <2> QED
      BY <1>1 DEF HasMinimal
  <1>3. T \in SUBSET S /\ IsFiniteSet(T)
    BY FS_Subset
  <1>4. CASE T = {}
    BY <1>4, SumOfNone
  <1>5. CASE T # {}
    <2>1. PICK x : x \in T
      BY <1>5
    <2>2. SumOver(orders, T \ {x}) \in Nat
      BY <1>2, <1>3, <2>1
    <2>3. /\ SumOver(orders, T) = orders[x].quantity + SumOver(orders, T \ {x})
          /\ orders[x].quantity \in Nat
      <3>1. \A y \in T : orders[y].quantity \in Int
        BY <1>3
      <3> HIDE DEF bad
      <3>2. SumOver(orders, T) = orders[x].quantity + SumOver(orders, T \ {x})
        BY <1>3, <2>1, <3>1, SumWithout
      <3> QED
        BY <1>3, <2>1, <3>2
    <2>4. SumOver(orders, T) \in Nat
      <3> HIDE DEF bad
      <3> QED
        BY <2>2, <2>3
    <2> QED
      BY <2>4
  <1> QED
    BY <1>4, <1>5

\* One more order, the others as they were.
LEMMA SumWithNew ==
    ASSUME NEW orders, NEW others, NEW T, IsFiniteSet(T), NEW x, x \notin T,
           \A y \in T : orders[y].quantity \in Int,
           \A y \in T : others[y].quantity = orders[y].quantity,
           others[x].quantity \in Int
    PROVE  /\ SumOver(orders, T) \in Int
           /\ SumOver(others, T \union {x})
                = SumOver(orders, T) + others[x].quantity
  <1> DEFINE U == T \union {x}
  <1>1. IsFiniteSet(U) /\ x \in U /\ U \ {x} = T
    BY FS_AddElement
  <1>2. \A y \in U : others[y].quantity \in Int
    OBVIOUS
  <1> HIDE DEF U
  <1>3. /\ SumOver(others, T) \in Int
        /\ SumOver(others, U) = others[x].quantity + SumOver(others, T)
    BY <1>1, <1>2, SumWithout
  <1>4. SumOver(others, T) = SumOver(orders, T)
    BY SumSame
  <1> QED
    BY <1>3, <1>4 DEF U

\* One order less, the others as they were.
LEMMA SumWithoutOld ==
    ASSUME NEW orders, NEW others, NEW T, IsFiniteSet(T), NEW x \in T,
           \A y \in T : orders[y].quantity \in Int,
           \A y \in T \ {x} : others[y].quantity = orders[y].quantity
    PROVE  /\ SumOver(orders, T) \in Int
           /\ SumOver(others, T \ {x})
                = SumOver(orders, T) - orders[x].quantity
  <1>1. IsFiniteSet(T \ {x})
    BY FS_RemoveElement
  <1>2. SumOver(others, T \ {x}) = SumOver(orders, T \ {x})
    BY <1>1, SumSame
  <1>3. /\ SumOver(orders, T) \in Int /\ SumOver(orders, T \ {x}) \in Int
        /\ SumOver(orders, T) = orders[x].quantity + SumOver(orders, T \ {x})
    BY SumWithout
  <1> QED
    BY <1>2, <1>3

\* One order of another size, the others as they were.
LEMMA SumResized ==
    ASSUME NEW orders, NEW others, NEW T, IsFiniteSet(T), NEW x \in T,
           \A y \in T : orders[y].quantity \in Int,
           \A y \in T \ {x} : others[y].quantity = orders[y].quantity,
           others[x].quantity \in Int
    PROVE  /\ SumOver(orders, T) \in Int
           /\ SumOver(others, T)
                = SumOver(orders, T) + (others[x].quantity - orders[x].quantity)
  <1>1. IsFiniteSet(T \ {x})
    BY FS_RemoveElement
  <1>2. SumOver(others, T \ {x}) = SumOver(orders, T \ {x})
    BY <1>1, SumSame
  <1>3. /\ SumOver(orders, T \ {x})
             = SumOver(orders, T) - orders[x].quantity
        /\ SumOver(orders, T) \in Int
    BY SumWithoutOld
  <1>4. \A y \in T : others[y].quantity \in Int
    OBVIOUS
  <1>5. SumOver(others, T) = others[x].quantity + SumOver(others, T \ {x})
    BY <1>4, SumWithout
  <1> QED
    BY <1>2, <1>3, <1>5

-----------------------------------------------------------------------------
\* Quotient and remainder.
LEMMA DivMod ==
    ASSUME NEW a \in Int, NEW n \in Int, n > 0
    PROVE  /\ a = n * (a \div n) + (a % n)
           /\ a % n \in 0 .. (n - 1) /\ a \div n \in Int
  OBVIOUS

\* A positive multiple of n is at least n, a negative one at most -n.
LEMMA Multiples ==
    ASSUME NEW n \in Int, n > 0, NEW k \in Int
    PROVE  (k >= 1 => n * k >= n) /\ (k <= -1 => n * k <= -n)
  <1>1. ASSUME k >= 1
        PROVE  n * k >= n
    BY <1>1
  <1>2. ASSUME k <= -1
        PROVE  n * k <= -n
    BY <1>2
  <1> QED
    BY <1>1, <1>2

\* The remainder is the only one.
LEMMA ModUnique ==
    ASSUME NEW n \in Int, n > 0, NEW k \in Int, NEW r \in 0 .. (n - 1)
    PROVE  (n * k + r) % n = r
  <1> DEFINE x == n * k + r
             q == x \div n
             s == x % n
  <1>1. x \in Int
    OBVIOUS
  <1>2. x = n * q + s /\ s \in 0 .. (n - 1) /\ q \in Int
    BY <1>1, DivMod
  <1> HIDE DEF q, s
  <1>3. n * (k - q) = s - r
    BY <1>2
  <1>4. k - q \in Int
    BY <1>2
  <1>5. CASE k - q >= 1
    <2>1. n * (k - q) >= n
      BY <1>4, <1>5, Multiples
    <2> QED
      BY <1>2, <1>3, <2>1
  <1>6. CASE k - q <= -1
    <2>1. n * (k - q) <= -n
      BY <1>4, <1>6, Multiples
    <2> QED
      BY <1>2, <1>3, <2>1
  <1>7. CASE k = q
    BY <1>2, <1>3, <1>7 DEF s
  <1> QED
    BY <1>2, <1>5, <1>6, <1>7

\* A running total reduced before each change is the reduced sum.
LEMMA ModAdd ==
    ASSUME NEW n \in Int, n > 0, NEW a \in Int, NEW d \in Int
    PROVE  ((a % n) + d) % n = (a + d) % n
  <1> DEFINE r == a % n
             q == a \div n
             y == r + d
             t == y \div n
             u == y % n
  <1>1. a = n * q + r /\ r \in 0 .. (n - 1) /\ q \in Int
    BY DivMod
  <1> HIDE DEF q, r
  <1>2. y \in Int
    BY <1>1
  <1>3. y = n * t + u /\ u \in 0 .. (n - 1) /\ t \in Int
    <2> HIDE DEF y
    <2> QED
      BY <1>2, DivMod
  <1> HIDE DEF t, u
  <1>4. a + d = n * (q + t) + u
    BY <1>1, <1>3
  <1>5. (n * (q + t) + u) % n = u
    <2>1. q + t \in Int
      BY <1>1, <1>3
    <2> QED
      BY <1>3, <2>1, ModUnique
  <1>6. (a + d) % n = u
    BY <1>4, <1>5
  <1> QED
    BY <1>6 DEF r, u

\* And so for what is taken off.
LEMMA ModSub ==
    ASSUME NEW n \in Int, n > 0, NEW a \in Int, NEW d \in Int
    PROVE  (a - (d % n)) % n = (a - d) % n
  <1> DEFINE r == d % n
             q == d \div n
             y == a - r
             t == y \div n
             u == y % n
  <1>1. d = n * q + r /\ r \in 0 .. (n - 1) /\ q \in Int
    BY DivMod
  <1> HIDE DEF q, r
  <1>2. y \in Int
    BY <1>1
  <1>3. y = n * t + u /\ u \in 0 .. (n - 1) /\ t \in Int
    <2> HIDE DEF y
    <2> QED
      BY <1>2, DivMod
  <1> HIDE DEF t, u
  <1>4. a - d = n * (t - q) + u
    BY <1>1, <1>3
  <1>5. (n * (t - q) + u) % n = u
    <2>1. t - q \in Int
      BY <1>1, <1>3
    <2> QED
      BY <1>3, <2>1, ModUnique
  <1>6. (a - d) % n = u
    BY <1>4, <1>5
  <1> QED
    BY <1>6 DEF r, u

\* A number below the modulus is its own remainder.
LEMMA ModSmall ==
    ASSUME NEW n \in Int, n > 0, NEW r \in 0 .. (n - 1)
    PROVE  r % n = r
  <1>1. (n * 0 + r) % n = r
    BY ModUnique
  <1> QED
    BY <1>1

-----------------------------------------------------------------------------
\* The lookup table files orders under their own ids.
OrdersShape(orders) ==
    /\ DOMAIN orders \subseteq OrderIds
    /\ \A id \in DOMAIN orders : orders[id] \in Order /\ orders[id].order_id = id

BookShape(b) == /\ DOMAIN b = {"order_map", "levels"}
                /\ OrdersShape(b.order_map)
                /\ DOMAIN b.levels = Side
                /\ \A side \in Side : SideShape(b.levels[side])

(***************************************************************************)
(* The inductive invariant: the declared shapes, and every price of either *)
(* side lists exactly the orders that rest there.                          *)
(***************************************************************************)
BookInv(b) ==
    /\ BookShape(b)
    /\ \A side \in Side, p \in Prices :
          Lists(b.levels[side], p, Resting(b, side, p))

\* Nobody overtakes from book b to book c.
BookKeepsOrder(b, c) ==
    \A side \in Side : SideKeepsOrder(b.levels[side], c.levels[side])

\* Every running total is the reduced sum of the quantities resting there.
TotalsInv(b) ==
    \A side \in Side : \A p \in DOMAIN b.levels[side] :
        b.levels[side][p].total_quantity
            = SumOver(b.order_map, Resting(b, side, p)) % U32

\* What a step from b to c keeps, and with exact totals in addition.
IndexStep(b, c) == BookInv(c) /\ BookKeepsOrder(b, c)

StepInv(b, c) == IndexStep(b, c) /\ (TotalsInv(b) => TotalsInv(c))

\* The fields of an order.
LEMMA OrderFields ==
    ASSUME NEW order \in Order
    PROVE  /\ order.order_id \in OrderIds /\ order.price \in Prices
           /\ order.quantity \in 0 .. (U32 - 1) /\ order.side \in Side
  BY DEF Order

\* A message leaves an order of the declared shape.
LEMMA OrderOfMessage ==
    ASSUME NEW msg \in Message
    PROVE  /\ OrderOf(msg) \in Order /\ OrderOf(msg).order_id = msg.order_id
           /\ OrderOf(msg).side = msg.side /\ OrderOf(msg).price = msg.price
           /\ OrderOf(msg).quantity = msg.quantity
  BY MessageFields DEF OrderOf, Order

\* An order whose quantity changes stays what and where it is.
LEMMA Requantify ==
    ASSUME NEW order \in Order, NEW q \in 0 .. (U32 - 1)
    PROVE  LET new == [order EXCEPT !.quantity = q]
           IN  /\ new \in Order /\ new.order_id = order.order_id
               /\ new.side = order.side /\ new.price = order.price
               /\ new.quantity = q
  BY DEF Order

\* An order of the lookup table rests at a level.
LEMMA HasLevel ==
    ASSUME NEW b, BookInv(b), NEW id \in DOMAIN b.order_map
    PROVE  LET order == b.order_map[id]
           IN  /\ order \in Order /\ order.order_id = id
               /\ id \in OrderIds
               /\ order.side \in Side /\ order.price \in Prices
               /\ order.quantity \in 0 .. (U32 - 1)
               /\ order.price \in DOMAIN b.levels[order.side]
               /\ id \in Resting(b, order.side, order.price)
  <1> DEFINE order == b.order_map[id]
  <1>1. order \in Order /\ order.order_id = id /\ id \in OrderIds
    BY DEF BookInv, BookShape, OrdersShape
  <1>2. /\ order.side \in Side /\ order.price \in Prices
        /\ order.quantity \in 0 .. (U32 - 1)
    BY <1>1, OrderFields
  <1>3. id \in Resting(b, order.side, order.price)
    BY DEF Resting
  <1>4. order.price \in DOMAIN b.levels[order.side]
    BY <1>2, <1>3 DEF BookInv, Lists
  <1> QED
    BY <1>1, <1>2, <1>3, <1>4

\* Finitely many orders rest at a price, each with its quantity.
LEMMA RestingFinite ==
    ASSUME NEW b, BookInv(b), NEW side \in Side, NEW p \in Prices
    PROVE  /\ IsFiniteSet(Resting(b, side, p))
           /\ \A x \in Resting(b, side, p) : b.order_map[x].quantity \in Int
  <1>1. Lists(b.levels[side], p, Resting(b, side, p))
    BY DEF BookInv
  <1>2. ASSUME p \in DOMAIN b.levels[side]
        PROVE  IsFiniteSet(Resting(b, side, p))
    <2> DEFINE ids == b.levels[side][p].order_ids
    <2>1. ids \in Seq(OrderIds)
      <3>1. b.levels[side][p] \in PriceLevel
        BY <1>2 DEF BookInv, BookShape, SideShape
      <3> QED
        BY <3>1, LevelFields
    <2>2. Distinct(ids) /\ ToSet(ids) = Resting(b, side, p)
      BY <1>1, <1>2 DEF Lists
    <2> HIDE DEF ids
    <2>3. IsFiniteSet(ToSet(ids))
      BY <2>1, <2>2, DistinctCardinality
    <2> QED
      BY <2>2, <2>3
  <1>3. ASSUME p \notin DOMAIN b.levels[side]
        PROVE  IsFiniteSet(Resting(b, side, p))
    BY <1>1, <1>3, FS_EmptySet DEF Lists
  <1>4. ASSUME NEW x \in Resting(b, side, p)
        PROVE  b.order_map[x].quantity \in Int
    <2>1. b.order_map[x].quantity \in 0 .. (U32 - 1)
      BY HasLevel DEF Resting
    <2> QED
      BY <2>1, U32Assumption
  <1>5. IsFiniteSet(Resting(b, side, p))
    BY <1>2, <1>3
  <1> QED
    BY <1>4, <1>5

\* A book that stays as it is.
LEMMA SameInv ==
    ASSUME NEW b, BookInv(b)
    PROVE  StepInv(b, b)
  <1>1. ASSUME NEW side \in Side, NEW p \in DOMAIN b.levels[side]
        PROVE  KeepsOrder(b.levels[side][p].order_ids, b.levels[side][p].order_ids)
    <2>1. SideShape(b.levels[side]) /\ p \in Prices
      BY DEF BookInv, BookShape, SideShape
    <2>2. Lists(b.levels[side], p, Resting(b, side, p))
      BY <2>1 DEF BookInv
    <2> QED
      BY <2>1, <2>2, LevelKeepsOrder
  <1> QED
    BY <1>1 DEF StepInv, IndexStep, BookKeepsOrder, SideKeepsOrder

\* A step that touches one level, in keeping with the orders that rest there,
\* keeps the two indexes of the book together.
LEMMA OneLevelStep ==
    ASSUME NEW b, BookInv(b), NEW orders, OrdersShape(orders),
           NEW s \in Side, NEW price \in Prices, NEW m, SideShape(m),
           LET c == [order_map |-> orders, levels |-> [b.levels EXCEPT ![s] = m]]
           IN  /\ Lists(m, price, Resting(c, s, price))
               /\ \A p \in Prices : p # price => SameLevel(b.levels[s], m, p)
               /\ \A side \in Side, p \in Prices :
                     side # s \/ p # price =>
                        /\ Resting(c, side, p) = Resting(b, side, p)
                        /\ \A x \in Resting(b, side, p) :
                              orders[x].quantity = b.order_map[x].quantity,
           price \in DOMAIN b.levels[s] \cap DOMAIN m =>
              KeepsOrder(b.levels[s][price].order_ids, m[price].order_ids)
    PROVE  LET c == [order_map |-> orders, levels |-> [b.levels EXCEPT ![s] = m]]
           IN  /\ IndexStep(b, c)
               /\ (TotalsInv(b) /\ price \in DOMAIN m =>
                     m[price].total_quantity
                        = SumOver(orders, Resting(c, s, price)) % U32)
                  => StepInv(b, c)
  <1> DEFINE c == [order_map |-> orders, levels |-> [b.levels EXCEPT ![s] = m]]
  <1>1. /\ DOMAIN c = {"order_map", "levels"} /\ c.order_map = orders
        /\ DOMAIN c.levels = Side /\ c.levels[s] = m
        /\ \A side \in Side : side # s => c.levels[side] = b.levels[side]
    BY DEF BookInv, BookShape
  <1>2. /\ Lists(m, price, Resting(c, s, price))
        /\ \A p \in Prices : p # price => SameLevel(b.levels[s], m, p)
        /\ \A side \in Side, p \in Prices :
              side # s \/ p # price =>
                 /\ Resting(c, side, p) = Resting(b, side, p)
                 /\ \A x \in Resting(b, side, p) :
                       orders[x].quantity = b.order_map[x].quantity
    OBVIOUS
  <1> HIDE DEF c
  <1>3. BookShape(c)
    BY <1>1 DEF BookInv, BookShape
  <1>4. ASSUME NEW side \in Side, NEW p \in Prices
        PROVE  Lists(c.levels[side], p, Resting(c, side, p))
    <2>1. CASE side # s
      BY <1>1, <1>2, <2>1 DEF BookInv
    <2>2. CASE side = s /\ p # price
      <3>1. Lists(b.levels[s], p, Resting(c, s, p))
        BY <1>2, <2>2 DEF BookInv
      <3>2. SameLevel(b.levels[s], m, p)
        BY <1>2, <2>2
      <3> QED
        BY <1>1, <2>2, <3>1, <3>2 DEF Lists, SameLevel
    <2>3. CASE side = s /\ p = price
      BY <1>1, <1>2, <2>3
    <2> QED
      BY <2>1, <2>2, <2>3
  <1>5. ASSUME NEW side \in Side,
               NEW p \in DOMAIN b.levels[side] \cap DOMAIN c.levels[side]
        PROVE  KeepsOrder(b.levels[side][p].order_ids, c.levels[side][p].order_ids)
    <2>1. KeepsOrder(b.levels[side][p].order_ids, b.levels[side][p].order_ids)
      BY SameInv DEF StepInv, IndexStep, BookKeepsOrder, SideKeepsOrder
    <2>2. CASE side # s
      BY <1>1, <2>1, <2>2
    <2>3. CASE side = s /\ p # price
      <3>1. p \in Prices
        BY DEF BookInv, BookShape, SideShape
      <3>2. SameLevel(b.levels[s], m, p)
        BY <1>2, <2>3, <3>1
      <3> QED
        BY <1>1, <2>1, <2>3, <3>2 DEF SameLevel
    <2>4. CASE side = s /\ p = price
      BY <1>1, <2>4
    <2> QED
      BY <2>2, <2>3, <2>4
  <1> DEFINE exact == m[price].total_quantity
                        = SumOver(orders, Resting(c, s, price)) % U32
  <1>6. ASSUME TotalsInv(b), price \in DOMAIN m => exact,
               NEW side \in Side, NEW p \in DOMAIN c.levels[side]
        PROVE  c.levels[side][p].total_quantity
                 = SumOver(c.order_map, Resting(c, side, p)) % U32
    <2>1. p \in Prices
      BY <1>3 DEF BookShape, SideShape
    <2>2. CASE side = s /\ p = price
      BY <1>1, <1>2, <1>6, <2>2
    <2>3. CASE side # s \/ p # price
      <3> DEFINE ids == Resting(b, side, p)
      <3>1. /\ Resting(c, side, p) = ids
            /\ \A x \in ids : orders[x].quantity = b.order_map[x].quantity
        BY <1>2, <2>1, <2>3
      <3>2. IsFiniteSet(ids)
        BY <2>1, RestingFinite
      <3>3. SumOver(orders, ids) = SumOver(b.order_map, ids)
        <4> HIDE DEF ids
        <4> QED
          BY <3>1, <3>2, SumSame
      <3>4. p \in DOMAIN b.levels[side] /\ c.levels[side][p] = b.levels[side][p]
        BY <1>1, <1>2, <2>1, <2>3 DEF SameLevel
      <3>5. b.levels[side][p].total_quantity = SumOver(b.order_map, ids) % U32
        BY <1>6, <3>4 DEF TotalsInv
      <3> QED
        BY <1>1, <3>1, <3>3, <3>4, <3>5
    <2> QED
      BY <2>2, <2>3
  <1>7. ASSUME TotalsInv(b), price \in DOMAIN m => exact
        PROVE  TotalsInv(c)
    BY <1>6, <1>7 DEF TotalsInv
  <1>8. IndexStep(b, c)
    BY <1>3, <1>4, <1>5 DEF BookInv, IndexStep, BookKeepsOrder, SideKeepsOrder
  <1>9. (TotalsInv(b) /\ price \in DOMAIN m => exact) => StepInv(b, c)
    BY <1>7, <1>8 DEF StepInv
  <1> QED
    BY <1>8, <1>9 DEF c

\* A newcomer joins the lookup table and its level, as in an add.
LEMMA JoinInv ==
    ASSUME NEW b, BookInv(b), NEW msg \in Message,
           msg.order_id \notin DOMAIN b.order_map
    PROVE  StepInv(b, [order_map |-> Put(b.order_map, msg.order_id, OrderOf(msg)),
                       levels |-> [b.levels EXCEPT ![msg.side] =
                                     add_to_level(b.levels[msg.side], msg)]])
  <1> DEFINE orders == Put(b.order_map, msg.order_id, OrderOf(msg))
             m == add_to_level(b.levels[msg.side], msg)
             c == [order_map |-> orders, levels |-> [b.levels EXCEPT ![msg.side] = m]]
             ids == Resting(b, msg.side, msg.price)
  <1>1. /\ msg.order_id \in OrderIds /\ msg.price \in Prices /\ msg.side \in Side
    BY MessageFields
  <1>2. /\ DOMAIN orders = DOMAIN b.order_map \union {msg.order_id}
        /\ orders[msg.order_id] = OrderOf(msg)
        /\ \A id \in DOMAIN b.order_map : orders[id] = b.order_map[id]
    BY DEF Put
  <1> HIDE DEF orders
  <1>3. OrdersShape(orders)
    BY <1>1, <1>2, OrderOfMessage DEF OrdersShape, BookInv, BookShape
  <1>4. msg.order_id \notin ids
    BY DEF Resting
  <1>5. /\ SideShape(m)
        /\ Lists(m, msg.price, ids \union {msg.order_id})
        /\ \A p : p # msg.price => SameLevel(b.levels[msg.side], m, p)
    BY <1>1, <1>4, AddToLevel DEF BookInv, BookShape
  <1>6. /\ Resting(c, msg.side, msg.price) = ids \union {msg.order_id}
        /\ \A side \in Side, p \in Prices :
              side # msg.side \/ p # msg.price =>
                 /\ Resting(c, side, p) = Resting(b, side, p)
                 /\ \A x \in Resting(b, side, p) :
                       orders[x].quantity = b.order_map[x].quantity
    BY <1>2, OrderOfMessage DEF Resting
  <1>7. msg.price \in DOMAIN b.levels[msg.side] =>
           KeepsOrder(b.levels[msg.side][msg.price].order_ids,
                      m[msg.price].order_ids)
    <2>1. /\ SideShape(b.levels[msg.side])
          /\ Lists(b.levels[msg.side], msg.price, ids)
      BY <1>1 DEF BookInv, BookShape
    <2> QED
      BY <1>4, <2>1, AddKeepsOrder
  <1>8. ASSUME TotalsInv(b)
        PROVE  m[msg.price].total_quantity
                 = SumOver(orders, ids \union {msg.order_id}) % U32
    <2> DEFINE old == SumOver(b.order_map, ids)
    <2>1. /\ IsFiniteSet(ids)
          /\ \A x \in ids : b.order_map[x].quantity \in Int
      BY <1>1, RestingFinite
    <2>2. msg.quantity \in 0 .. (U32 - 1) /\ U32 \in Int /\ U32 > 0
      BY MessageFields, U32Assumption
    <2>3. /\ \A x \in ids : orders[x].quantity = b.order_map[x].quantity
          /\ orders[msg.order_id].quantity = msg.quantity
          /\ msg.quantity \in Int
      BY <1>2, <2>2, OrderOfMessage DEF Resting
    <2>4. /\ old \in Int
          /\ SumOver(orders, ids \union {msg.order_id}) = old + msg.quantity
      <3> DEFINE before == b.order_map
                 id == msg.order_id
      <3>1. /\ \A x \in ids : before[x].quantity \in Int
            /\ \A x \in ids : orders[x].quantity = before[x].quantity
            /\ orders[id].quantity \in Int /\ id \notin ids
        BY <1>4, <2>1, <2>3
      <3> HIDE DEF ids, before, id
      <3>2. /\ SumOver(before, ids) \in Int
            /\ SumOver(orders, ids \union {id})
                 = SumOver(before, ids) + orders[id].quantity
        BY <2>1, <3>1, SumWithNew
      <3> QED
        BY <2>3, <3>2 DEF before, id
    <2>5. CASE msg.price \in DOMAIN b.levels[msg.side]
      <3>1. b.levels[msg.side][msg.price].total_quantity = old % U32
        BY <1>1, <1>8, <2>5 DEF TotalsInv
      <3>2. m[msg.price].total_quantity
              = (b.levels[msg.side][msg.price].total_quantity + msg.quantity) % U32
        BY <2>5, AddTotal
      <3> HIDE DEF old, m
      <3>3. ((old % U32) + msg.quantity) % U32 = (old + msg.quantity) % U32
        BY <2>2, <2>3, <2>4, ModAdd
      <3> QED
        BY <2>4, <3>1, <3>2, <3>3
    <2>6. CASE msg.price \notin DOMAIN b.levels[msg.side]
      <3>1. ids = {}
        BY <1>1, <2>6 DEF BookInv, Lists
      <3>2. old = 0
        BY <3>1, SumOfNone
      <3>3. m[msg.price].total_quantity = msg.quantity
        BY <2>6, AddTotal
      <3> HIDE DEF old, m
      <3>4. msg.quantity % U32 = msg.quantity
        BY <2>2, ModSmall
      <3>5. old + msg.quantity = msg.quantity
        BY <2>3, <3>2
      <3> QED
        BY <2>4, <3>3, <3>4, <3>5
    <2> QED
      BY <2>5, <2>6
  <1> HIDE DEF m
  <1>9. /\ Lists(m, msg.price, Resting(c, msg.side, msg.price))
         /\ TotalsInv(b) =>
              m[msg.price].total_quantity
                 = SumOver(orders, Resting(c, msg.side, msg.price)) % U32
    BY <1>5, <1>6, <1>8
  <1>10. StepInv(b, c)
    BY <1>1, <1>3, <1>5, <1>6, <1>7, <1>9, OneLevelStep
  <1> QED
    BY <1>10 DEF m, orders

\* An order that leaves its level and the lookup table, as in a cancel and in
\* a filling trade.
LEMMA LeaveInv ==
    ASSUME NEW b, BookInv(b), NEW id \in DOMAIN b.order_map
    PROVE  LET order == b.order_map[id]
           IN  StepInv(b, [order_map |-> Erase(b.order_map, id),
                           levels |-> [b.levels EXCEPT ![order.side] =
                             leave_level(b.levels[order.side], order.price, id,
                                         order.quantity)]])
  <1> DEFINE order  == b.order_map[id]
             q == order.quantity
             orders == Erase(b.order_map, id)
             m == leave_level(b.levels[order.side], order.price, id, q)
             c == [order_map |-> orders, levels |-> [b.levels EXCEPT ![order.side] = m]]
             ids == Resting(b, order.side, order.price)
  <1>1. /\ order.side \in Side /\ order.price \in Prices
        /\ order.price \in DOMAIN b.levels[order.side] /\ id \in ids
        /\ q \in 0 .. (U32 - 1)
    BY HasLevel
  <1>2. q \in Int
    BY <1>1, U32Assumption
  <1>3. /\ DOMAIN orders = DOMAIN b.order_map \ {id}
        /\ \A x \in DOMAIN orders : orders[x] = b.order_map[x]
    BY DEF Erase
  <1> HIDE DEF orders
  <1>4. OrdersShape(orders)
    BY <1>3 DEF OrdersShape, BookInv, BookShape
  <1>5. /\ Resting(c, order.side, order.price) = ids \ {id}
        /\ \A side \in Side, p \in Prices :
              side # order.side \/ p # order.price =>
                 /\ Resting(c, side, p) = Resting(b, side, p)
                 /\ \A x \in Resting(b, side, p) :
                       orders[x].quantity = b.order_map[x].quantity
    BY <1>3 DEF Resting
  <1>6. /\ SideShape(m)
        /\ Lists(m, order.price, ids \ {id})
        /\ \A p : p # order.price => SameLevel(b.levels[order.side], m, p)
    BY <1>2, <1>1, LeaveLevel DEF BookInv, BookShape
  <1>7. order.price \in DOMAIN m =>
           KeepsOrder(b.levels[order.side][order.price].order_ids,
                      m[order.price].order_ids)
    <2>1. /\ SideShape(b.levels[order.side])
          /\ Lists(b.levels[order.side], order.price, ids)
      BY <1>1 DEF BookInv, BookShape
    <2> HIDE DEF order, ids, q
    <2> QED
      BY <1>2, <1>1, <2>1, LeaveKeepsOrder
  <1>8. ASSUME TotalsInv(b), order.price \in DOMAIN m
        PROVE  m[order.price].total_quantity = SumOver(orders, ids \ {id}) % U32
    <2> DEFINE old == SumOver(b.order_map, ids)
    <2>1. IsFiniteSet(ids) /\ \A x \in ids : b.order_map[x].quantity \in Int
      BY <1>1, RestingFinite
    <2>2. \A x \in ids \ {id} : orders[x].quantity = b.order_map[x].quantity
      BY <1>3 DEF Resting
    <2>3. old \in Int /\ SumOver(orders, ids \ {id}) = old - q
      <3> HIDE DEF ids
      <3> QED
        BY <1>1, <2>1, <2>2, SumWithoutOld
    <2>4. b.levels[order.side][order.price].total_quantity = old % U32
      BY <1>1, <1>8 DEF TotalsInv
    <2>5. m[order.price].total_quantity
            = (b.levels[order.side][order.price].total_quantity - q) % U32
      <3> HIDE DEF order, q
      <3> QED
        BY <1>1, <1>8, LeaveTotal
    <2> HIDE DEF old, m, q, order
    <2>6. U32 \in Int /\ U32 > 0 /\ -q \in Int
      BY <1>2, U32Assumption
    <2>7. ((old % U32) + (-q)) % U32 = (old + (-q)) % U32
      BY <2>3, <2>6, ModAdd
    <2>8. old % U32 \in Int
      BY <2>3, <2>6
    <2>9. (old % U32) + (-q) = (old % U32) - q /\ old + (-q) = old - q
      BY <1>2, <2>3, <2>8
    <2> QED
      BY <2>3, <2>4, <2>5, <2>7, <2>9
  <1> HIDE DEF m, order
  <1>9. /\ Lists(m, order.price, Resting(c, order.side, order.price))
        /\ TotalsInv(b) /\ order.price \in DOMAIN m =>
              m[order.price].total_quantity
                 = SumOver(orders, Resting(c, order.side, order.price)) % U32
    BY <1>5, <1>6, <1>8
  <1>10. StepInv(b, c)
    BY <1>1, <1>4, <1>5, <1>6, <1>7, <1>9, OneLevelStep
  <1> QED
    BY <1>10 DEF m, q, order, orders

\* The running total of a level.
LEMMA LevelTotal ==
    ASSUME NEW b, BookInv(b), NEW side \in Side, NEW p \in DOMAIN b.levels[side]
    PROVE  b.levels[side][p].total_quantity \in 0 .. (U32 - 1)
  <1>1. SideShape(b.levels[side])
    BY DEF BookInv, BookShape
  <1>2. b.levels[side][p] \in PriceLevel
    BY <1>1 DEF SideShape
  <1> QED
    BY <1>2, LevelFields

\* An order that keeps its place with another quantity, as in a modify and in
\* a partial trade.
LEMMA ResizeInv ==
    ASSUME NEW b, BookInv(b), NEW id \in DOMAIN b.order_map,
           NEW q \in 0 .. (U32 - 1), NEW total \in 0 .. (U32 - 1)
    PROVE  LET order == b.order_map[id]
               old   == b.levels[order.side][order.price].total_quantity
               c == [order_map |-> [b.order_map EXCEPT ![id].quantity = q],
                     levels |-> [b.levels EXCEPT
                       ![order.side][order.price].total_quantity = total]]
           IN  /\ IndexStep(b, c)
               /\ total = (old + (q - order.quantity)) % U32 => StepInv(b, c)
  <1> DEFINE order  == b.order_map[id]
             old    == b.levels[order.side][order.price].total_quantity
             exact  == total = (old + (q - order.quantity)) % U32
             orders == [b.order_map EXCEPT ![id].quantity = q]
             m == [b.levels[order.side] EXCEPT ![order.price].total_quantity = total]
             c == [order_map |-> orders, levels |-> [b.levels EXCEPT ![order.side] = m]]
             ids == Resting(b, order.side, order.price)
  <1>1. /\ order \in Order /\ order.order_id = id
        /\ order.side \in Side /\ order.price \in Prices
        /\ order.quantity \in 0 .. (U32 - 1)
        /\ order.price \in DOMAIN b.levels[order.side] /\ id \in ids
    BY HasLevel
  <1>2. /\ DOMAIN orders = DOMAIN b.order_map
        /\ orders[id] = [order EXCEPT !.quantity = q]
        /\ \A x \in DOMAIN orders : x # id => orders[x] = b.order_map[x]
    OBVIOUS
  <1> HIDE DEF orders
  <1>3. /\ orders[id] \in Order /\ orders[id].order_id = id
        /\ orders[id].side = order.side /\ orders[id].price = order.price
        /\ orders[id].quantity = q
    BY <1>1, <1>2, Requantify
  <1>4. OrdersShape(orders)
    BY <1>2, <1>3 DEF OrdersShape, BookInv, BookShape
  <1>5. \A side \in Side, p \in Prices :
           /\ Resting(c, side, p) = Resting(b, side, p)
           /\ \A x \in Resting(b, side, p) :
                 x # id => orders[x].quantity = b.order_map[x].quantity
    <2>1. c.order_map = orders
      OBVIOUS
    <2>2. \A x \in DOMAIN orders : /\ orders[x].side = b.order_map[x].side
                                   /\ orders[x].price = b.order_map[x].price
      BY <1>2, <1>3
    <2> HIDE DEF c
    <2> QED
      BY <1>2, <2>1, <2>2 DEF Resting
  <1>6. \A side \in Side, p \in Prices :
           side # order.side \/ p # order.price => id \notin Resting(b, side, p)
    BY DEF Resting
  <1>7. old \in 0 .. (U32 - 1)
    BY <1>1, LevelTotal
  <1>8. /\ old \in Int /\ q \in Int /\ order.quantity \in Int
        /\ q - order.quantity \in Int /\ U32 \in Int /\ U32 > 0
    <2> HIDE DEF old, order
    <2> QED
      BY <1>1, <1>7, U32Assumption
  <1>9. /\ SideShape(m)
         /\ order.price \in DOMAIN m
         /\ m[order.price].order_ids = b.levels[order.side][order.price].order_ids
         /\ m[order.price].total_quantity = total
         /\ \A p : p # order.price => SameLevel(b.levels[order.side], m, p)
    <2>1. SideShape(b.levels[order.side])
      BY <1>1 DEF BookInv, BookShape
    <2> HIDE DEF order
    <2> QED
      BY <1>1, <2>1, RetotalLevel
  <1>10. c.levels = [b.levels EXCEPT ![order.side][order.price].total_quantity = total]
    OBVIOUS
  <1> HIDE DEF m
  <1>11. Lists(m, order.price, Resting(c, order.side, order.price))
    <2>1. Lists(b.levels[order.side], order.price, ids)
      BY <1>1 DEF BookInv
    <2>2. Resting(c, order.side, order.price) = ids
      BY <1>1, <1>5
    <2> HIDE DEF ids, c, order
    <2> QED
      BY <1>1, <1>9, <2>1, <2>2 DEF Lists
  <1>12. KeepsOrder(b.levels[order.side][order.price].order_ids,
                    m[order.price].order_ids)
    <2>1. BookKeepsOrder(b, b)
      BY SameInv DEF StepInv, IndexStep
    <2> HIDE DEF order
    <2> QED
      BY <1>1, <1>9, <2>1 DEF BookKeepsOrder, SideKeepsOrder
  <1>13. ASSUME TotalsInv(b), exact
         PROVE  total = SumOver(orders, ids) % U32
    <2> DEFINE sum == SumOver(b.order_map, ids)
    <2>1. IsFiniteSet(ids) /\ \A x \in ids : b.order_map[x].quantity \in Int
      BY <1>1, RestingFinite
    <2>2. \A x \in ids \ {id} : orders[x].quantity = b.order_map[x].quantity
      BY <1>1, <1>5
    <2>3. sum \in Int /\ SumOver(orders, ids) = sum + (q - order.quantity)
      <3> DEFINE before == b.order_map
      <3>1. /\ \A x \in ids : before[x].quantity \in Int
            /\ \A x \in ids \ {id} : orders[x].quantity = before[x].quantity
            /\ orders[id].quantity \in Int /\ id \in ids
        BY <1>1, <1>3, <1>8, <2>1, <2>2
      <3> HIDE DEF ids, before
      <3>2. /\ SumOver(before, ids) \in Int
            /\ SumOver(orders, ids)
                 = SumOver(before, ids) + (orders[id].quantity - before[id].quantity)
        BY <2>1, <3>1, SumResized
      <3> QED
        BY <1>3, <3>2 DEF before
    <2>4. old = sum % U32
      BY <1>1, <1>13 DEF TotalsInv
    <2> DEFINE d == q - order.quantity
    <2>5. total = (old + d) % U32
      BY <1>13
    <2> HIDE DEF old, sum, d
    <2>6. d \in Int
      BY <1>8 DEF d
    <2>7. ((sum % U32) + d) % U32 = (sum + d) % U32
      BY <1>8, <2>3, <2>6, ModAdd
    <2> QED
      BY <2>3, <2>4, <2>5, <2>7 DEF d
  <1>14. TotalsInv(b) /\ exact =>
            m[order.price].total_quantity
               = SumOver(orders, Resting(c, order.side, order.price)) % U32
    BY <1>1, <1>5, <1>9, <1>13
  <1> HIDE DEF order, exact
  <1>15. IndexStep(b, c) /\ (exact => StepInv(b, c))
    BY <1>1, <1>4, <1>5, <1>6, <1>9, <1>11, <1>12, <1>14, OneLevelStep
  <1>16. c = [order_map |-> orders,
              levels |-> [b.levels EXCEPT
                            ![order.side][order.price].total_quantity = total]]
    BY <1>10
  <1> QED
    BY <1>15, <1>16 DEF orders, exact, old, order

-----------------------------------------------------------------------------
\* handle_add keeps the indexes together.
LEMMA AddInv ==
    ASSUME NEW b, BookInv(b), NEW msg \in Message
    PROVE  StepInv(b, handle_add(b, msg))
  BY SameInv, JoinInv DEF handle_add

\* handle_modify keeps the indexes together.
LEMMA ModifyInv ==
    ASSUME NEW b, BookInv(b), NEW msg \in Message
    PROVE  StepInv(b, handle_modify(b, msg))
  <1>1. CASE msg.order_id \notin DOMAIN b.order_map
    BY <1>1, SameInv DEF handle_modify
  <1>2. CASE msg.order_id \in DOMAIN b.order_map
    <2> DEFINE order == b.order_map[msg.order_id]
               old   == b.levels[order.side][order.price].total_quantity
               total == (old + (msg.quantity - order.quantity)) % U32
               orders == [b.order_map EXCEPT ![msg.order_id].quantity = msg.quantity]
               levels == [b.levels EXCEPT
                            ![order.side][order.price].total_quantity = total]
    <2>1. /\ order.side \in Side /\ order.price \in Prices
          /\ order.quantity \in 0 .. (U32 - 1)
          /\ order.price \in DOMAIN b.levels[order.side]
      BY <1>2, HasLevel
    <2>2. msg.quantity \in 0 .. (U32 - 1)
      BY MessageFields
    <2>3. handle_modify(b, msg) = [order_map |-> orders, levels |-> levels]
      BY <1>2, <2>1 DEF handle_modify
    <2>4. old \in 0 .. (U32 - 1)
      BY <2>1, LevelTotal
    <2>5. total \in 0 .. (U32 - 1)
      <3> HIDE DEF old, order
      <3>1. old + (msg.quantity - order.quantity) \in Int
        BY <2>1, <2>2, <2>4, U32Assumption
      <3> QED
        BY <3>1, Reduced
    <2>6. StepInv(b, [order_map |-> orders, levels |-> levels])
      <3> DEFINE t == total
      <3>1. t \in 0 .. (U32 - 1) /\ t = (old + (msg.quantity - order.quantity)) % U32
        BY <2>5
      <3> HIDE DEF t
      <3>2. StepInv(b, [order_map |-> orders,
                        levels |-> [b.levels EXCEPT
                          ![order.side][order.price].total_quantity = t]])
        BY <1>2, <2>2, <3>1, ResizeInv
      <3> QED
        BY <3>2 DEF t
    <2> QED
      BY <2>3, <2>6
  <1> QED
    BY <1>1, <1>2

\* handle_cancel keeps the indexes together.
LEMMA CancelInv ==
    ASSUME NEW b, BookInv(b), NEW msg \in Message
    PROVE  StepInv(b, handle_cancel(b, msg))
  <1>1. CASE msg.order_id \notin DOMAIN b.order_map
    BY <1>1, SameInv DEF handle_cancel
  <1>2. CASE msg.order_id \in DOMAIN b.order_map
    <2> DEFINE order == b.order_map[msg.order_id]
    <2>1. /\ order.price \in DOMAIN b.levels[order.side]
          /\ order.quantity \in 0 .. (U32 - 1)
      BY <1>2, HasLevel
    <2>2. handle_cancel(b, msg)
            = [order_map |-> Erase(b.order_map, msg.order_id),
               levels |-> [b.levels EXCEPT ![order.side] =
                 leave_level(b.levels[order.side], order.price, msg.order_id,
                             order.quantity)]]
      BY <1>2, <2>1 DEF handle_cancel
    <2> QED
      BY <1>2, <2>2, LeaveInv
  <1> QED
    BY <1>1, <1>2

\* handle_trade keeps the indexes together.
LEMMA TradeInv ==
    ASSUME NEW b, BookInv(b), NEW msg \in Message
    PROVE  StepInv(b, handle_trade(b, msg))
  <1>1. CASE msg.order_id \notin DOMAIN b.order_map
    BY <1>1, SameInv DEF handle_trade
  <1>2. CASE msg.order_id \in DOMAIN b.order_map
    <2> DEFINE order == b.order_map[msg.order_id]
               old   == b.levels[order.side][order.price].total_quantity
               trade_qty == Min({msg.quantity, order.quantity})
               total == (old - trade_qty) % U32
               orders == [b.order_map EXCEPT
                            ![msg.order_id].quantity = order.quantity - trade_qty]
               levels == [b.levels EXCEPT
                            ![order.side][order.price].total_quantity = total]
    <2>1. /\ order.side \in Side /\ order.price \in Prices
          /\ order.quantity \in 0 .. (U32 - 1)
          /\ order.price \in DOMAIN b.levels[order.side]
      BY <1>2, HasLevel
    <2>2. msg.quantity \in Nat /\ order.quantity \in Nat
      BY <2>1, MessageFields, U32Assumption
    <2>3. trade_qty \in Nat /\ trade_qty <= order.quantity
      BY <2>2, MinOfTwo
    <2>4. CASE order.quantity = trade_qty
      <3>1. handle_trade(b, msg)
              = [order_map |-> Erase(b.order_map, msg.order_id),
                 levels |-> [b.levels EXCEPT ![order.side] =
                   leave_level(b.levels[order.side], order.price, msg.order_id,
                               order.quantity)]]
        BY <1>2, <2>1, <2>4 DEF handle_trade
      <3> QED
        BY <1>2, <3>1, LeaveInv
    <2>5. CASE order.quantity # trade_qty
      <3>1. old \in 0 .. (U32 - 1)
        BY <2>1, LevelTotal
      <3> DEFINE left == order.quantity - trade_qty
      <3> HIDE DEF trade_qty
      <3>2. total = (old + (left - order.quantity)) % U32
        <4> HIDE DEF old, order
        <4>1. old - trade_qty = old + (left - order.quantity)
          BY <2>2, <2>3, <3>1, U32Assumption
        <4> QED
          BY <4>1
      <3>3. order.quantity - trade_qty \in 0 .. (U32 - 1)
        BY <2>1, <2>2, <2>3, U32Assumption
      <3>4. handle_trade(b, msg) = [order_map |-> orders, levels |-> levels]
        BY <1>2, <2>1, <2>5 DEF handle_trade, trade_qty
      <3> HIDE DEF total
      <3>5. StepInv(b, [order_map |-> orders, levels |-> levels])
        <4>1. left \in 0 .. (U32 - 1)
          BY <3>3
        <4>2. total \in 0 .. (U32 - 1)
          <5> HIDE DEF old, order, left
          <5>1. old - trade_qty \in Int
            BY <2>3, <3>1, U32Assumption
          <5>2. (old - trade_qty) % U32 \in 0 .. (U32 - 1)
            BY <5>1, Reduced
          <5> QED
            BY <5>2 DEF total
        <4> HIDE DEF left, total
        <4>3. StepInv(b, [order_map |-> [b.order_map EXCEPT
                                           ![msg.order_id].quantity = left],
                          levels |-> levels])
          BY <1>2, <3>2, <4>1, <4>2, ResizeInv
        <4> QED
          BY <4>3 DEF left
      <3> QED
        BY <3>4, <3>5
    <2> QED
      BY <2>4, <2>5
  <1> QED
    BY <1>1, <1>2

\* The empty book satisfies the invariant.
LEMMA EmptyInv == BookInv(EmptyBook)
  <1>1. /\ DOMAIN EmptyBook = {"order_map", "levels"}
        /\ DOMAIN EmptyBook.order_map = {}
        /\ DOMAIN EmptyBook.levels = Side
        /\ \A side \in Side : DOMAIN EmptyBook.levels[side] = {}
    BY DEF EmptyBook, EmptySide
  <1>2. \A side \in Side, p \in Prices : Resting(EmptyBook, side, p) = {}
    BY <1>1 DEF Resting
  <1>3. BookShape(EmptyBook)
    BY <1>1, FS_EmptySet DEF BookShape, OrdersShape, SideShape
  <1> QED
    BY <1>1, <1>2, <1>3 DEF BookInv, Lists

\* Whatever the message, the indexes stay together.
LEMMA MessageInv ==
    ASSUME NEW b, BookInv(b), NEW msg \in Message
    PROVE  StepInv(b, on_message(b, msg))
  <1>1. msg.type \in MessageType
    BY MessageFields
  <1> QED
    BY <1>1, AddInv, ModifyInv, CancelInv, TradeInv DEF on_message, MessageType

\* Every step of the book is one message.
LEMMA NextStep ==
    ASSUME BookInv(book), [Next]_book
    PROVE  StepInv(book, book')
  <1>1. CASE Next
    <2>1. PICK msg \in Message : book' = on_message(book, msg)
      BY <1>1 DEF Next, Add, Modify, Cancel, Trade, MessagesOf
    <2> QED
      BY <2>1, MessageInv
  <1>2. CASE book' = book
    BY <1>2, SameInv
  <1> QED
    BY <1>1, <1>2

\* So the invariant is inductive.
LEMMA NextInv == BookInv(book) /\ [Next]_book => BookInv(book)'
  BY NextStep DEF StepInv, IndexStep

\* And so is what it says of the totals.
LEMMA NextTotals ==
    BookInv(book) /\ TotalsInv(book) /\ [Next]_book => TotalsInv(book)'
  BY NextStep DEF StepInv, IndexStep

\* What the invariant says of the two indexes.
LEMMA InvConsistent ==
    ASSUME NEW b, BookInv(b)
    PROVE  LevelsMatchOrders(b)
  <1> SUFFICES ASSUME NEW side \in Side, NEW p \in Prices
               PROVE  IF p \in DOMAIN b.levels[side]
                      THEN LET ids == b.levels[side][p].order_ids
                           IN  /\ ids # <<>>
                               /\ Cardinality(ToSet(ids)) = Len(ids)
                               /\ ToSet(ids) = Resting(b, side, p)
                      ELSE Resting(b, side, p) = {}
    BY DEF LevelsMatchOrders
  <1>1. Lists(b.levels[side], p, Resting(b, side, p))
    BY DEF BookInv
  <1>2. CASE p \in DOMAIN b.levels[side]
    <2> DEFINE ids == b.levels[side][p].order_ids
    <2>1. ids \in Seq(OrderIds)
      <3>1. b.levels[side][p] \in PriceLevel
        BY <1>2 DEF BookInv, BookShape, SideShape
      <3> QED
        BY <3>1, LevelFields
    <2>2. ids # <<>> /\ Distinct(ids) /\ ToSet(ids) = Resting(b, side, p)
      BY <1>1, <1>2 DEF Lists
    <2> HIDE DEF ids
    <2>3. Cardinality(ToSet(ids)) = Len(ids)
      BY <2>1, <2>2, DistinctCardinality
    <2> QED
      BY <1>2, <2>2, <2>3 DEF ids
  <1>3. CASE p \notin DOMAIN b.levels[side]
    BY <1>1, <1>3 DEF Lists
  <1> QED
    BY <1>2, <1>3

\* What the invariant says of the top of the book.
LEMMA InvTop == BookInv(book) => TopOfBook
  <1> SUFFICES ASSUME BookInv(book), NEW side \in Side
               PROVE  LET resting == {id \in DOMAIN book.order_map :
                                        book.order_map[id].side = side}
                          best == best_price(side, book.levels[side])
                      IN  /\ DOMAIN book.levels[side] = {} <=> resting = {}
                          /\ resting # {} => Resting(book, side, best) # {}
                          /\ \A id \in resting :
                                IF side = "Buy"
                                THEN book.order_map[id].price <= best
                                ELSE book.order_map[id].price >= best
    BY DEF TopOfBook
  <1> DEFINE resting == {id \in DOMAIN book.order_map :
                           book.order_map[id].side = side}
             prices == DOMAIN book.levels[side]
             best == best_price(side, book.levels[side])
  <1>1. /\ IsFiniteSet(prices) /\ prices \subseteq Prices /\ prices \subseteq Int
    BY PricesAssumption DEF BookInv, BookShape, SideShape
  <1>2. \A id \in resting : book.order_map[id].price \in prices
    BY HasLevel
  <1>3. ASSUME NEW p \in prices
        PROVE  Resting(book, side, p) # {}
    <2>1. LevelsMatchOrders(book)
      BY InvConsistent
    <2>2. /\ book.levels[side][p].order_ids # <<>>
          /\ ToSet(book.levels[side][p].order_ids) = Resting(book, side, p)
      BY <1>1, <2>1 DEF LevelsMatchOrders
    <2>3. book.levels[side][p].order_ids \in Seq(OrderIds)
      <3>1. book.levels[side][p] \in PriceLevel
        BY DEF BookInv, BookShape, SideShape
      <3> QED
        BY <3>1, LevelFields
    <2> DEFINE ids == book.levels[side][p].order_ids
    <2> HIDE DEF ids
    <2>4. ids \in Seq(OrderIds) /\ ids # <<>> => ids[1] \in ToSet(ids)
      BY DEF ToSet
    <2> QED
      BY <2>2, <2>3, <2>4 DEF ids
  <1>4. \A p \in prices : \E id \in resting : book.order_map[id].price = p
    BY <1>3 DEF Resting
  <1>5. prices = {} <=> resting = {}
    BY <1>2, <1>4
  <1> HIDE DEF prices
  <1>6. prices # {} => /\ best \in prices
                       /\ \A p \in prices : IF side = "Buy" THEN p <= best
                                                            ELSE p >= best
    <2> SUFFICES ASSUME prices # {}
                 PROVE  /\ best \in prices
                        /\ \A p \in prices : IF side = "Buy" THEN p <= best
                                                             ELSE p >= best
      OBVIOUS
    <2>1. best = IF side = "Buy" THEN Max(prices) ELSE Min(prices)
      BY DEF best_price, prices
    <2>2. /\ Max(prices) \in prices /\ \A p \in prices : Max(prices) >= p
          /\ Min(prices) \in prices /\ \A p \in prices : Min(prices) <= p
      BY <1>1, HasMax, HasMin
    <2> QED
      BY <1>1, <2>1, <2>2
  <1> HIDE DEF best
  <1>7. resting # {} => Resting(book, side, best) # {}
    BY <1>3, <1>5, <1>6
  <1>8. \A id \in resting : IF side = "Buy" THEN book.order_map[id].price <= best
                                            ELSE book.order_map[id].price >= best
    BY <1>2, <1>6
  <1> QED
    BY <1>5, <1>7, <1>8 DEF best, prices

(***************************************************************************)
(* The book keeps its declared shape whatever messages come: every order   *)
(* is filed under its own id, and every level has a price and a 32-bit     *)
(* total.                                                                  *)
(***************************************************************************)
THEOREM BookTypeCorrect == Spec => []TypeOK
  <1>1. BookInv(book) => TypeOK
    BY DEF BookInv, BookShape, OrdersShape, SideShape, TypeOK
  <1>2. Init => BookInv(book)
    BY EmptyInv DEF Init
  <1> QED
    BY <1>1, <1>2, NextInv, PTL DEF Spec

(***************************************************************************)
(* The lookup table and the levels agree in every reachable book.          *)
(***************************************************************************)
THEOREM IndexesAgree == Spec => []BookConsistent
  <1>1. BookInv(book) => BookConsistent
    BY InvConsistent DEF BookConsistent
  <1>2. Init => BookInv(book)
    BY EmptyInv DEF Init
  <1> QED
    BY <1>1, <1>2, NextInv, PTL DEF Spec

(***************************************************************************)
(* Every level's running total is the sum of its orders' quantities modulo *)
(* 2^32, whatever mix of messages the level has seen.                      *)
(***************************************************************************)
THEOREM TotalsCorrect == Spec => []TotalsMatchOrders
  <1>1. TotalsInv(book) => TotalsMatchOrders
    BY SumIsSumOver DEF TotalsInv, TotalsMatchOrders, RestingQuantity
  <1>2. Init => BookInv(book) /\ TotalsInv(book)
    BY EmptyInv DEF Init, TotalsInv, EmptyBook, EmptySide
  <1> QED
    BY <1>1, <1>2, NextInv, NextTotals, PTL DEF Spec

(***************************************************************************)
(* best_bid() and best_ask() report the best price at which an order rests *)
(* and nothing when none does.                                             *)
(***************************************************************************)
THEOREM TopIsBest == Spec => []TopOfBook
  <1>1. Init => BookInv(book)
    BY EmptyInv DEF Init
  <1> QED
    BY <1>1, InvTop, NextInv, PTL DEF Spec

(***************************************************************************)
(* No message lets an order overtake another one at its level.             *)
(***************************************************************************)
THEOREM NobodyOvertakes == Spec => TimePriority
  <1>1. Init => BookInv(book)
    BY EmptyInv DEF Init
  <1>2. BookInv(book) /\ [Next]_book =>
          [\A side \in Side :
             \A p \in DOMAIN book.levels[side] \cap DOMAIN book'.levels[side] :
                KeepsOrder(book.levels[side][p].order_ids,
                           book'.levels[side][p].order_ids)]_book
    BY NextStep DEF StepInv, IndexStep, BookKeepsOrder, SideKeepsOrder
  <1> QED
    BY <1>1, <1>2, NextInv, PTL DEF Spec, TimePriority

=============================================================================
