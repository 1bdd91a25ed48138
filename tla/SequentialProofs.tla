-------------------------- MODULE SequentialProofs --------------------------
(***************************************************************************)
(* Proofs about the programs without a second thread, for every number of  *)
(* messages, every cycle of ids and every feed the generator may draw.     *)
(* The single-thread benchmark: its warm-up can be repeated without a      *)
(* trace, and the program implements one replay of its feed.  The batching *)
(* benchmark: every batch size ends with the book of one replay and one    *)
(* sample per message, and the figures printed of the samples are ordered  *)
(* and interpolate between the samples around their rank.                  *)
(***************************************************************************)
EXTENDS SingleThread, Batching, FiniteSetTheorems, FunctionTheorems, TLAPS

\* The smaller of two numbers.
LEMMA MinOfTwo ==
    ASSUME NEW a \in Nat, NEW b \in Nat
    PROVE  /\ Min({a, b}) \in Nat
           /\ Min({a, b}) = IF a <= b THEN a ELSE b
BY DEF Min

\* The larger of two numbers.
LEMMA MaxOfTwo ==
    ASSUME NEW a \in Nat, NEW b \in Nat
    PROVE  /\ Max({a, b}) \in Nat
           /\ Max({a, b}) = IF a <= b THEN b ELSE a
BY DEF Max

\* An index below the cycle of ids is its own remainder.
LEMMA SmallModulus ==
    ASSUME NEW x \in Nat, NEW n \in Nat \ {0}, x < n
    PROVE  x % n = x
OBVIOUS

-----------------------------------------------------------------------------
\* A message that changes, cancels or trades an order the book does not have
\* is ignored.
LEMMA UnknownIdIgnored ==
    ASSUME NEW b, NEW msg, msg.type \in MessageType \ {"Add"},
           msg.order_id \notin DOMAIN b.order_map
    PROVE  Baseline!on_message(b, msg) = b
BY DEF Baseline!on_message, Baseline!handle_modify, Baseline!handle_cancel,
       Baseline!handle_trade, MessageType

\* An add of an id the book has is ignored.
LEMMA KnownIdNotAdded ==
    ASSUME NEW b, NEW msg, msg.type = "Add",
           msg.order_id \in DOMAIN b.order_map
    PROVE  Baseline!on_message(b, msg) = b
BY DEF Baseline!on_message, Baseline!handle_add

\* An add of a new id enters it in the lookup table.
LEMMA NewIdAdded ==
    ASSUME NEW b, NEW msg, msg.type = "Add",
           msg.order_id \notin DOMAIN b.order_map
    PROVE  DOMAIN Baseline!on_message(b, msg).order_map
             = DOMAIN b.order_map \union {msg.order_id}
BY DEF Baseline!on_message, Baseline!handle_add, Baseline!Put

-----------------------------------------------------------------------------
(***************************************************************************)
(* The inductive invariant: the messages carry the ids of the cycle, the   *)
(* loops stay within their bounds, and until the measured loop has passed  *)
(* the warm-up, the book holds what WarmUpLeavesItsAdds says.              *)
(***************************************************************************)
\* Messages are well formed and carry the id of their iteration.
FeedInv ==
    /\ messages_ \in Seq(Message)
    /\ \A k \in 1 .. Len(messages_) : messages_[k].order_id = id_of(k - 1)

\* The loop variable of each phase is within the phase's bounds.
LoopInv ==
    /\ i \in Nat
    /\ phase \in {"generate", "warm_up", "measure", "done"}
    /\ phase = "generate" => i = 0 /\ book = Baseline!EmptyBook
    /\ phase = "warm_up" => i <= warm_up_end
    /\ phase = "measure" => i <= Len(messages_)
    /\ phase = "done" => i = Len(messages_)

SingleThreadInv == FeedInv /\ LoopInv /\ WarmUpLeavesItsAdds

\* The end of the warm-up is a position of the feed.
LEMMA WarmUpEnd ==
    ASSUME messages_ \in Seq(Message)
    PROVE  /\ warm_up_end \in Nat /\ Len(messages_) \in Nat
           /\ warm_up_end <= Len(messages_) /\ warm_up_end <= IdCycle
BY MinOfTwo, WarmUpAssumption, GeneratorAssumption DEF warm_up_end

\* No two messages of the warm-up have the same id.
LEMMA WarmUpIdsDiffer ==
    ASSUME FeedInv,
           NEW j \in 1 .. warm_up_end, NEW k \in 1 .. warm_up_end, j # k
    PROVE  messages_[j].order_id # messages_[k].order_id
<1>1. warm_up_end \in Nat /\ warm_up_end <= Len(messages_) /\ warm_up_end <= IdCycle
  BY WarmUpEnd DEF FeedInv
<1>2. /\ j - 1 \in Nat /\ k - 1 \in Nat /\ j - 1 < IdCycle /\ k - 1 < IdCycle
      /\ j \in 1 .. Len(messages_) /\ k \in 1 .. Len(messages_)
  BY <1>1, GeneratorAssumption, WarmUpEnd DEF FeedInv
<1>3. (j - 1) % IdCycle = j - 1 /\ (k - 1) % IdCycle = k - 1
  BY <1>2, SmallModulus, GeneratorAssumption
<1>4. messages_[j].order_id = 1000 + (j - 1) /\ messages_[k].order_id = 1000 + (k - 1)
  BY <1>2, <1>3 DEF FeedInv, id_of
<1> QED
  BY <1>1, <1>4

\* A generated message is a message with the id of its place.
LEMMA GeneratedMessage ==
    ASSUME NEW k \in Nat, NEW msg \in generated(k)
    PROVE  msg \in Message /\ msg.order_id = id_of(k)
<1>1. PICK type_rand \in random_bounded(100), price \in random_bounded(PriceRange),
           quantity \in random_bounded(QuantityRange), side \in random_bounded(2) :
         msg = [type |-> type_of(type_rand), order_id |-> id_of(k),
                price |-> 10000 + price, quantity |-> 100 + quantity,
                side |-> IF side = 0 THEN "Buy" ELSE "Sell"]
  BY DEF generated
<1>2. type_of(type_rand) \in MessageType
  <2>1. type_rand \in 0 .. 99
    BY DEF random_bounded
  <2>2. CASE type_rand < 70
    BY <2>1, <2>2 DEF type_of, MessageType
  <2>3. CASE type_rand >= 70 /\ type_rand < 85
    BY <2>1, <2>3 DEF type_of, MessageType
  <2>4. CASE type_rand >= 85 /\ type_rand < 95
    BY <2>1, <2>4 DEF type_of, MessageType
  <2>5. CASE type_rand >= 95
    BY <2>1, <2>5 DEF type_of, MessageType
  <2> QED
    BY <2>1, <2>2, <2>3, <2>4, <2>5
<1>3. id_of(k) \in OrderIds
  <2>1. k % IdCycle \in 0 .. (IdCycle - 1)
    BY GeneratorAssumption
  <2> QED
    BY <2>1, GeneratorAssumption, GeneratedFieldsAssumption DEF id_of
<1>4. 10000 + price \in Prices /\ 100 + quantity \in Quantities
  BY GeneratorAssumption, GeneratedFieldsAssumption DEF random_bounded
<1> QED
  BY <1>1, <1>2, <1>3, <1>4 DEF Message, Side

\* A message of the warm-up other than an add leaves the book alone, and so
\* does any message of the warm-up that comes a second time.
LEMMA WarmUpAgain ==
    ASSUME SingleThreadInv, phase = "measure", i < warm_up_end
    PROVE  Baseline!on_message(book, messages_[i + 1]) = book
<1> DEFINE msg == messages_[i + 1]
           adds == {n \in 1 .. warm_up_end : messages_[n].type = "Add"}
<1>1. /\ i + 1 \in 1 .. warm_up_end /\ i + 1 \in 1 .. Len(messages_)
      /\ messages_ \in Seq(Message)
  BY WarmUpEnd DEF SingleThreadInv, FeedInv, LoopInv
<1>2. DOMAIN book.order_map = {messages_[k].order_id : k \in adds}
  BY DEF SingleThreadInv, WarmUpLeavesItsAdds
<1>3. msg.type \in MessageType
  <2>1. msg \in Message
    BY <1>1
  <2> QED
    BY <2>1 DEF Message
<1>4. CASE msg.type = "Add"
  <2>1. msg.order_id \in DOMAIN book.order_map
    BY <1>1, <1>2, <1>4
  <2> QED
    BY <2>1, <1>4, KnownIdNotAdded
<1>5. CASE msg.type # "Add"
  <2>1. \A k \in adds : messages_[k].order_id # msg.order_id
    BY <1>1, <1>5, WarmUpIdsDiffer DEF SingleThreadInv
  <2>2. msg.order_id \notin DOMAIN book.order_map
    BY <1>2, <2>1
  <2> QED
    BY <2>2, <1>3, <1>5, UnknownIdIgnored
<1> QED
  BY <1>4, <1>5

\* A step of the warm-up enters the id of its message if it is an add.
LEMMA WarmUpStep ==
    ASSUME SingleThreadInv, phase = "warm_up", i < warm_up_end
    PROVE  DOMAIN Baseline!on_message(book, messages_[i + 1]).order_map
             = {messages_[k].order_id :
                  k \in {n \in 1 .. (i + 1) : messages_[n].type = "Add"}}
<1> DEFINE msg == messages_[i + 1]
           adds(m) == {n \in 1 .. m : messages_[n].type = "Add"}
<1>1. /\ i \in Nat /\ i + 1 \in 1 .. warm_up_end /\ i + 1 \in 1 .. Len(messages_)
      /\ \A k \in 1 .. i : k \in 1 .. warm_up_end /\ k # i + 1
      /\ messages_ \in Seq(Message)
  BY WarmUpEnd DEF SingleThreadInv, FeedInv, LoopInv
<1>2. DOMAIN book.order_map = {messages_[k].order_id : k \in adds(i)}
  BY DEF SingleThreadInv, WarmUpLeavesItsAdds
<1>3. msg.type \in MessageType
  <2>1. msg \in Message
    BY <1>1
  <2> QED
    BY <2>1 DEF Message
<1>4. \A k \in adds(i) : messages_[k].order_id # msg.order_id
  BY <1>1, WarmUpIdsDiffer DEF SingleThreadInv
<1>5. msg.order_id \notin DOMAIN book.order_map
  BY <1>2, <1>4
<1>6. 1 .. (i + 1) = (1 .. i) \union {i + 1}
  BY <1>1
<1>7. CASE msg.type = "Add"
  <2>1. adds(i + 1) = adds(i) \union {i + 1}
    BY <1>6, <1>7
  <2>2. DOMAIN Baseline!on_message(book, msg).order_map
          = DOMAIN book.order_map \union {msg.order_id}
    BY <1>5, <1>7, NewIdAdded
  <2> QED
    BY <1>2, <2>1, <2>2
<1>8. CASE msg.type # "Add"
  <2>1. adds(i + 1) = adds(i)
    BY <1>6, <1>8
  <2>2. Baseline!on_message(book, msg) = book
    BY <1>3, <1>5, <1>8, UnknownIdIgnored
  <2> QED
    BY <1>2, <2>1, <2>2
<1> QED
  BY <1>7, <1>8

\* The invariant holds before the first message is generated.
LEMMA InitInv == Init => SingleThreadInv
<1> SUFFICES ASSUME Init PROVE SingleThreadInv
  OBVIOUS
<1>1. FeedInv
  BY DEF Init, FeedInv
<1>2. LoopInv
  BY DEF Init, LoopInv, Baseline!Init
<1>3. WarmUpLeavesItsAdds
  BY DEF Init, WarmUpLeavesItsAdds
<1> QED
  BY <1>1, <1>2, <1>3 DEF SingleThreadInv

\* Every step of main keeps the invariant.
LEMMA NextInv == SingleThreadInv /\ [Next]_vars => SingleThreadInv'
<1> SUFFICES ASSUME SingleThreadInv, [Next]_vars PROVE SingleThreadInv'
  OBVIOUS
<1>0. /\ messages_ \in Seq(Message)
      /\ warm_up_end \in Nat /\ Len(messages_) \in Nat
      /\ warm_up_end <= Len(messages_) /\ i \in Nat
  BY WarmUpEnd DEF SingleThreadInv, FeedInv, LoopInv
<1>1. CASE generate_message
  <2>1. PICK msg \in generated(Len(messages_)) : messages_' = Append(messages_, msg)
    BY <1>1 DEF generate_message, generate
  <2>2. msg \in Message /\ msg.order_id = id_of(Len(messages_))
    BY <1>0, <2>1, GeneratedMessage
  <2>3. FeedInv'
    <3>1. messages_' \in Seq(Message) /\ Len(messages_') = Len(messages_) + 1
      BY <1>0, <2>1, <2>2
    <3>2. ASSUME NEW k \in 1 .. Len(messages_')
          PROVE  messages_'[k].order_id = id_of(k - 1)
      <4>1. CASE k = Len(messages_) + 1
        BY <1>0, <2>1, <2>2, <4>1
      <4>2. CASE k \in 1 .. Len(messages_)
        BY <1>0, <2>1, <4>2 DEF SingleThreadInv, FeedInv
      <4> QED
        BY <1>0, <3>1, <4>1, <4>2
    <3> QED
      BY <3>1, <3>2 DEF FeedInv, id_of
  <2>4. LoopInv' /\ WarmUpLeavesItsAdds'
    BY <1>1 DEF generate_message, SingleThreadInv, LoopInv, WarmUpLeavesItsAdds
  <2> QED
    BY <2>3, <2>4 DEF SingleThreadInv
<1>2. CASE generated_all
  <2>1. FeedInv'
    BY <1>2 DEF generated_all, SingleThreadInv, FeedInv, id_of
  <2>2. i = 0 /\ book = Baseline!EmptyBook /\ phase' = "warm_up" /\ i' = 0
    BY <1>2 DEF generated_all, SingleThreadInv, LoopInv
  <2>3. LoopInv'
    <3>1. warm_up_end' = warm_up_end
      BY <1>2 DEF generated_all, warm_up_end
    <3>2. i' \in Nat /\ phase' = "warm_up" /\ i' <= warm_up_end'
      BY <1>0, <2>2, <3>1
    <3> QED
      BY <3>2 DEF LoopInv
  <2>4. DOMAIN book'.order_map = {}
    BY <1>2, <2>2 DEF generated_all, Baseline!EmptyBook
  <2>5. WarmUpLeavesItsAdds'
    <3>1. 1 .. i' = {}
      BY <2>2
    <3>2. {messages_'[k].order_id :
             k \in {n \in 1 .. i' : messages_'[n].type = "Add"}} = {}
      BY <3>1
    <3> QED
      BY <2>2, <2>4, <3>2 DEF WarmUpLeavesItsAdds
  <2> QED
    BY <2>1, <2>3, <2>5 DEF SingleThreadInv
<1>3. CASE warm_up
  <2>1. FeedInv'
    BY <1>3 DEF warm_up, SingleThreadInv, FeedInv, id_of
  <2>2. LoopInv'
    BY <1>0, <1>3 DEF warm_up, SingleThreadInv, LoopInv, warm_up_end
  <2>3. WarmUpLeavesItsAdds'
    BY <1>3, WarmUpStep DEF warm_up, WarmUpLeavesItsAdds
  <2> QED
    BY <2>1, <2>2, <2>3 DEF SingleThreadInv
<1>4. CASE warm_up_complete
  <2>1. FeedInv'
    BY <1>4 DEF warm_up_complete, SingleThreadInv, FeedInv, id_of
  <2>2. LoopInv'
    BY <1>0, <1>4 DEF warm_up_complete, LoopInv
  <2>3. WarmUpLeavesItsAdds'
    BY <1>4 DEF warm_up_complete, SingleThreadInv, WarmUpLeavesItsAdds, warm_up_end
  <2> QED
    BY <2>1, <2>2, <2>3 DEF SingleThreadInv
<1>5. CASE measure
  <2>1. FeedInv'
    BY <1>5 DEF measure, SingleThreadInv, FeedInv, id_of
  <2>2. LoopInv'
    BY <1>0, <1>5 DEF measure, SingleThreadInv, LoopInv
  <2>3. WarmUpLeavesItsAdds'
    <3>1. CASE i < warm_up_end
      <4>1. book' = book
        BY <1>5, <3>1, WarmUpAgain DEF measure
      <4> QED
        BY <1>5, <3>1, <4>1
        DEF measure, SingleThreadInv, WarmUpLeavesItsAdds, warm_up_end
    <3>2. CASE ~(i < warm_up_end)
      <4>1. phase' = "measure" /\ ~(i' < warm_up_end')
        BY <1>0, <1>5, <3>2 DEF measure, warm_up_end
      <4> QED
        BY <4>1 DEF WarmUpLeavesItsAdds
    <3> QED
      BY <3>1, <3>2
  <2> QED
    BY <2>1, <2>2, <2>3 DEF SingleThreadInv
<1>6. CASE measured_all
  <2>1. FeedInv'
    BY <1>6 DEF measured_all, SingleThreadInv, FeedInv, id_of
  <2>2. LoopInv' /\ WarmUpLeavesItsAdds'
    BY <1>0, <1>6 DEF measured_all, LoopInv, WarmUpLeavesItsAdds
  <2> QED
    BY <2>1, <2>2 DEF SingleThreadInv
<1>7. CASE UNCHANGED vars
  <2>1. FeedInv'
    BY <1>7 DEF vars, SingleThreadInv, FeedInv, id_of
  <2>2. LoopInv'
    BY <1>7 DEF vars, SingleThreadInv, LoopInv, warm_up_end
  <2>3. WarmUpLeavesItsAdds'
    BY <1>7 DEF vars, SingleThreadInv, WarmUpLeavesItsAdds, warm_up_end
  <2> QED
    BY <2>1, <2>2, <2>3 DEF SingleThreadInv
<1> QED
  BY <1>1, <1>2, <1>3, <1>4, <1>5, <1>6, <1>7 DEF Next

(***************************************************************************)
(* The warm-up leaves exactly its adds in the measured book, until the     *)
(* measured loop has passed it.                                            *)
(***************************************************************************)
THEOREM WarmUpLeavesItsAddsAlways == Spec => []WarmUpLeavesItsAdds
<1>1. SingleThreadInv => WarmUpLeavesItsAdds
  BY DEF SingleThreadInv
<1> QED
  BY InitInv, NextInv, <1>1, PTL DEF Spec

-----------------------------------------------------------------------------
\* Every step is a step of one replay, or none.
LEMMA ReplayStep ==
    ASSUME SingleThreadInv, SingleThreadInv', [Next]_vars
    PROVE  [OneReplay!Next]_<<messages_, Applied, book>>
<1>0. /\ messages_ \in Seq(Message)
      /\ warm_up_end \in Nat /\ Len(messages_) \in Nat
      /\ warm_up_end <= Len(messages_) /\ i \in Nat
  BY WarmUpEnd DEF SingleThreadInv, FeedInv, LoopInv
<1>1. CASE generate_message
  <2>1. PICK msg \in generated(Len(messages_)) : messages_' = Append(messages_, msg)
    BY <1>1 DEF generate_message, generate
  <2>2. msg \in Message
    BY <1>0, <2>1, GeneratedMessage
  <2>3. Applied = 0 /\ Applied' = 0 /\ book' = book
    BY <1>1 DEF generate_message, Applied
  <2> QED
    BY <2>1, <2>2, <2>3 DEF OneReplay!Next, OneReplay!Generate
<1>2. CASE generated_all
  <2>1. Applied = 0 /\ Applied' = 0
    BY <1>2 DEF generated_all, Applied, SingleThreadInv, LoopInv
  <2> QED
    BY <1>2, <2>1 DEF generated_all
<1>3. CASE warm_up
  <2>1. Applied = i /\ Applied' = i + 1 /\ i < Len(messages_)
    BY <1>0, <1>3 DEF warm_up, Applied
  <2> QED
    BY <1>3, <2>1 DEF warm_up, OneReplay!Next, OneReplay!Apply
<1>4. CASE warm_up_complete
  <2>1. Applied = i /\ i = warm_up_end /\ warm_up_end' = warm_up_end
    BY <1>4 DEF warm_up_complete, Applied, warm_up_end
  <2>2. Applied' = Max({0, warm_up_end})
    BY <1>4, <2>1 DEF warm_up_complete, Applied
  <2>3. Applied' = Applied
    BY <1>0, <2>1, <2>2, MaxOfTwo
  <2> QED
    BY <1>4, <2>3 DEF warm_up_complete
<1>5. CASE measure
  <2>1. /\ Applied = Max({i, warm_up_end}) /\ Applied' = Max({i + 1, warm_up_end})
        /\ i < Len(messages_) /\ UNCHANGED messages_
        /\ book' = Baseline!on_message(book, messages_[i + 1])
    BY <1>5 DEF measure, Applied, warm_up_end
  <2>2. CASE i < warm_up_end
    <3>1. book' = book
      BY <1>5, <2>1, <2>2, WarmUpAgain DEF measure
    <3>2. Applied' = Applied
      BY <1>0, <2>1, <2>2, MaxOfTwo
    <3> QED
      BY <2>1, <3>1, <3>2
  <2>3. CASE ~(i < warm_up_end)
    <3>1. Applied = i /\ Applied' = i + 1
      BY <1>0, <2>1, <2>3, MaxOfTwo
    <3> QED
      BY <2>1, <3>1 DEF OneReplay!Next, OneReplay!Apply
  <2> QED
    BY <2>2, <2>3
<1>6. CASE measured_all
  BY <1>6 DEF measured_all, Applied, warm_up_end
<1>7. CASE UNCHANGED vars
  BY <1>7 DEF vars, Applied, warm_up_end
<1> QED
  BY <1>1, <1>2, <1>3, <1>4, <1>5, <1>6, <1>7 DEF Next

(***************************************************************************)
(* The single-thread benchmark implements one replay of its feed: warm-up  *)
(* and measured loop together build the book that a program without        *)
(* warm-up builds, whatever messages the generator draws.                  *)
(***************************************************************************)
THEOREM SingleThreadImplementsReplay == Spec => ImplementsReplay
<1>1. Init => OneReplay!Init
  BY DEF Init, OneReplay!Init, Applied, Baseline!Init
<1>2. SingleThreadInv /\ SingleThreadInv' /\ [Next]_vars
        => [OneReplay!Next]_<<messages_, Applied, book>>
  BY ReplayStep
<1> QED
  BY InitInv, NextInv, <1>1, <1>2, PTL DEF Spec, ImplementsReplay, OneReplay!Spec

-----------------------------------------------------------------------------
(***************************************************************************)
(* The recorder's sorted copy.                                             *)
(***************************************************************************)
\* Sample j comes no later than sample k when equal samples keep their order.
NotAfter(s, j, k) == s[j] < s[k] \/ (s[j] = s[k] /\ j <= k)

UpTo(s, k) == {j \in DOMAIN s : NotAfter(s, j, k)}

\* Numbers can be sorted: each goes to the place that is the number of those
\* not after it.
LEMMA CanBeSorted ==
    ASSUME NEW n \in Nat, NEW s \in [1 .. n -> Int]
    PROVE  \E f \in Bijection(1 .. n, 1 .. n) :
              \A j, k \in 1 .. n : j < k => s[f[j]] <= s[f[k]]
<1> DEFINE N == 1 .. n
           g == [k \in N |-> Cardinality(UpTo(s, k))]
<1>1. IsFiniteSet(N) /\ Cardinality(N) = n /\ DOMAIN s = N /\ N \subseteq Nat
  BY FS_Interval
<1>2. \A k \in N : s[k] \in Int
  OBVIOUS
<1> HIDE DEF N
<1>3. ASSUME NEW k \in N
      PROVE  /\ UpTo(s, k) \in SUBSET N /\ k \in UpTo(s, k)
             /\ IsFiniteSet(UpTo(s, k)) /\ g[k] \in 1 .. n
  <2>1. UpTo(s, k) \in SUBSET N /\ k \in UpTo(s, k)
    BY <1>1, <1>2 DEF UpTo, NotAfter
  <2>2. IsFiniteSet(UpTo(s, k)) /\ Cardinality(UpTo(s, k)) <= n
    BY <1>1, <2>1, FS_Subset
  <2>3. Cardinality(UpTo(s, k)) \in Nat /\ Cardinality(UpTo(s, k)) # 0
    BY <2>1, <2>2, FS_CardinalityType, FS_EmptySet
  <2> QED
    BY <2>1, <2>2, <2>3
<1>4. ASSUME NEW j \in N, NEW k \in N, j # k, NotAfter(s, j, k)
      PROVE  g[j] < g[k]
  <2>1. UpTo(s, j) \in SUBSET UpTo(s, k) /\ k \notin UpTo(s, j)
    BY <1>1, <1>2, <1>4 DEF UpTo, NotAfter
  <2>2. /\ Cardinality(UpTo(s, j)) <= Cardinality(UpTo(s, k))
        /\ Cardinality(UpTo(s, j)) # Cardinality(UpTo(s, k))
    BY <1>3, <2>1, FS_Subset
  <2>3. g[j] \in 1 .. n /\ g[k] \in 1 .. n
    BY <1>3
  <2> QED
    BY <2>2, <2>3
<1>5. ASSUME NEW j \in N, NEW k \in N
      PROVE  NotAfter(s, j, k) \/ NotAfter(s, k, j)
  BY <1>1, <1>2 DEF NotAfter
<1>6. \A k \in N : g[k] \in N
  BY <1>3 DEF N
<1>7. ASSUME NEW j \in N, NEW k \in N, g[j] = g[k]
      PROVE  j = k
  BY <1>1, <1>4, <1>5, <1>6, <1>7
<1>8. g \in [N -> N]
  BY <1>6
<1> HIDE DEF g
<1>9. g \in Injection(N, N)
  BY <1>7, <1>8 DEF Injection, IsInjective
<1>10. g \in Surjection(N, N)
  BY <1>1, <1>9, FS_Injection
<1>11. g \in Bijection(N, N)
  BY <1>9, <1>10 DEF Bijection
<1> DEFINE f == Inverse(g, N, N)
<1>12. f \in Bijection(N, N) /\ \A k \in N : f[g[k]] = k
  BY <1>11, Fun_BijInverse
<1> HIDE DEF f
<1>13. f \in [N -> N]
  BY <1>12 DEF Bijection, Injection
<1>14. ASSUME NEW m \in N
       PROVE  g[f[m]] = m
  <2>1. PICK k \in N : g[k] = m
    BY <1>10 DEF Surjection
  <2> QED
    BY <1>12, <2>1
<1>15. ASSUME NEW j \in N, NEW k \in N, j < k
       PROVE  s[f[j]] <= s[f[k]]
  <2>1. f[j] \in N /\ f[k] \in N /\ g[f[j]] = j /\ g[f[k]] = k
    BY <1>13, <1>14
  <2>2. s[f[j]] \in Int /\ s[f[k]] \in Int /\ j \in Nat /\ k \in Nat
    BY <1>1, <1>2, <2>1
  <2>3. CASE s[f[k]] < s[f[j]]
    <3>1. NotAfter(s, f[k], f[j]) /\ f[k] # f[j]
      BY <2>2, <2>3 DEF NotAfter
    <3>2. g[f[k]] < g[f[j]]
      BY <1>4, <2>1, <3>1
    <3> QED
      BY <1>15, <2>1, <2>2, <3>2
  <2> QED
    BY <2>2, <2>3
<1> QED
  BY <1>12, <1>15 DEF N

\* A latency is a number.
LEMMA LatencyIsNumber == \A v \in Latencies : v \in Nat /\ v \in Int
BY LatenciesAssumption

\* The sorted copy is the samples rearranged, without a decrease.
LEMMA SortedCopy ==
    ASSUME samples_ \in Seq(Latencies)
    PROVE  /\ Len(samples_) \in Nat
           /\ sorted \in [1 .. Len(samples_) -> Latencies]
           /\ \A j, k \in 1 .. Len(samples_) : j < k => sorted[j] <= sorted[k]
           /\ \E f \in Bijection(1 .. Len(samples_), 1 .. Len(samples_)) :
                 \A k \in 1 .. Len(samples_) : sorted[k] = samples_[f[k]]
<1> DEFINE n == Len(samples_)
           Sorts(f) == \A j, k \in DOMAIN samples_ :
                          j < k => samples_[f[j]] <= samples_[f[k]]
           place == CHOOSE f \in Bijection(DOMAIN samples_, DOMAIN samples_) : Sorts(f)
<1>1. n \in Nat /\ DOMAIN samples_ = 1 .. n /\ samples_ \in [1 .. n -> Latencies]
  OBVIOUS
<1>2. samples_ \in [1 .. n -> Int]
  <2>1. \A k \in 1 .. n : samples_[k] \in Int
    BY <1>1, LatencyIsNumber
  <2> QED
    BY <1>1, <2>1
<1>3. \E f \in Bijection(DOMAIN samples_, DOMAIN samples_) : Sorts(f)
  BY <1>1, <1>2, CanBeSorted
<1>4. place \in Bijection(DOMAIN samples_, DOMAIN samples_) /\ Sorts(place)
  <2> HIDE DEF Sorts
  <2> QED
    BY <1>3
<1>5. sorted = [k \in DOMAIN samples_ |-> samples_[place[k]]]
  BY DEF sorted
<1> HIDE DEF place
<1>6. place \in [1 .. n -> 1 .. n]
  BY <1>1, <1>4 DEF Bijection, Injection
<1>7. \A k \in 1 .. n : sorted[k] = samples_[place[k]]
  BY <1>1, <1>5
<1>8. sorted \in [1 .. n -> Latencies]
  BY <1>1, <1>5, <1>6
<1>9. \A j, k \in 1 .. n : j < k => sorted[j] <= sorted[k]
  BY <1>1, <1>4, <1>7
<1> QED
  BY <1>1, <1>4, <1>7, <1>8, <1>9

\* Sorting changes nothing about how many samples are at most v.
LEMMA SameCount ==
    ASSUME samples_ \in Seq(Latencies), NEW v \in Int
    PROVE  LET N == 1 .. Len(samples_)
           IN  Cardinality({m \in N : samples_[m] <= v})
                 = Cardinality({m \in N : sorted[m] <= v})
<1> DEFINE N == 1 .. Len(samples_)
           A == {m \in N : samples_[m] <= v}
           B == {m \in N : sorted[m] <= v}
<1>1. PICK f \in Bijection(N, N) : \A k \in N : sorted[k] = samples_[f[k]]
  BY SortedCopy
<1>2. IsFiniteSet(N)
  BY SortedCopy, FS_Interval
<1> HIDE DEF N
<1>3. /\ f \in [N -> N] /\ \A a, b \in N : f[a] = f[b] => a = b
      /\ \A t \in N : \E k \in N : f[k] = t
  BY Fun_BijectionProperties
<1> DEFINE h == [m \in B |-> f[m]]
<1>4. h \in Bijection(B, A)
  <2>1. \A m \in B : h[m] = f[m] /\ h[m] \in A /\ m \in N
    BY <1>1, <1>3
  <2>2. h \in [B -> A]
    BY <2>1
  <2>3. \A a, b \in B : h[a] = h[b] => a = b
    BY <1>3, <2>1
  <2>4. ASSUME NEW t \in A
        PROVE  \E m \in B : h[m] = t
    BY <1>1, <1>3
  <2> HIDE DEF h, A, B
  <2> QED
    BY <2>2, <2>3, <2>4 DEF Bijection, Injection, Surjection, IsInjective
<1>5. ExistsBijection(B, A)
  BY <1>4 DEF ExistsBijection
<1>6. IsFiniteSet(B)
  BY <1>2, FS_Subset
<1> HIDE DEF A, B, h
<1>7. Cardinality(A) = Cardinality(B)
  BY <1>5, <1>6, FS_Bijection
<1> QED
  BY <1>7 DEF A, B, N

\* The k-th smallest sample is the k-th of the sorted copy.
LEMMA KthSmallest ==
    ASSUME samples_ \in Seq(Latencies), NEW k \in 1 .. Len(samples_)
    PROVE  kth_smallest(k) = sorted[k]
<1> DEFINE n == Len(samples_)
           B(v) == {m \in 1 .. n : sorted[m] <= v}
<1>1. /\ n \in Nat /\ k \in 1 .. n /\ DOMAIN samples_ = 1 .. n
      /\ \A m \in 1 .. n : samples_[m] \in Int /\ sorted[m] \in Int
      /\ \A j, m \in 1 .. n : j < m => sorted[j] <= sorted[m]
  <2>1. /\ n \in Nat /\ samples_ \in [1 .. n -> Latencies]
        /\ sorted \in [1 .. n -> Latencies]
        /\ \A j, m \in 1 .. n : j < m => sorted[j] <= sorted[m]
    BY SortedCopy
  <2>2. \A m \in 1 .. n : samples_[m] \in Int /\ sorted[m] \in Int
    BY <2>1, LatencyIsNumber
  <2> QED
    BY <2>1, <2>2
<1> HIDE DEF n
<1>2. ASSUME NEW v \in Int
      PROVE  Cardinality(B(v)) >= k <=> sorted[k] <= v
  <2>1. B(v) \subseteq 1 .. n /\ IsFiniteSet(1 .. n)
    BY <1>1, FS_Interval
  <2>2. IsFiniteSet(B(v)) /\ Cardinality(B(v)) \in Nat
    BY <2>1, FS_Subset, FS_CardinalityType
  <2>3. CASE sorted[k] <= v
    <3>1. \A m \in 1 .. k : m \in 1 .. n /\ sorted[m] <= sorted[k]
      BY <1>1
    <3>2. 1 .. k \in SUBSET B(v)
      BY <1>1, <2>3, <3>1
    <3>3. Cardinality(1 .. k) = k
      BY <1>1, FS_Interval
    <3>4. Cardinality(1 .. k) <= Cardinality(B(v))
      BY <2>2, <3>2, FS_Subset
    <3> QED
      BY <2>3, <3>3, <3>4, <2>2, <1>1
  <2>4. CASE ~(sorted[k] <= v)
    <3>1. B(v) \in SUBSET (1 .. (k - 1))
      <4>1. ASSUME NEW m \in B(v)
            PROVE  m \in 1 .. (k - 1)
        <5>1. m \in 1 .. n /\ sorted[m] <= v
          OBVIOUS
        <5>2. ~(m = k) /\ ~(k < m)
          BY <1>1, <2>4, <5>1
        <5> QED
          BY <1>1, <5>1, <5>2
      <4> QED
        BY <4>1
    <3>2. IsFiniteSet(1 .. (k - 1)) /\ Cardinality(1 .. (k - 1)) = k - 1
      <4>1. k - 1 \in Int /\ (1 > k - 1 => k - 1 = 0) /\ (k - 1) - 1 + 1 = k - 1
        BY <1>1
      <4>2. /\ IsFiniteSet(1 .. (k - 1))
            /\ Cardinality(1 .. (k - 1)) = IF 1 > k - 1 THEN 0 ELSE (k - 1) - 1 + 1
        BY <4>1, FS_Interval
      <4> QED
        BY <4>1, <4>2
    <3>3. Cardinality(B(v)) <= k - 1
      BY <3>1, <3>2, FS_Subset
    <3> QED
      BY <1>1, <2>2, <2>4, <3>3
  <2> QED
    BY <2>3, <2>4
<1> DEFINE S == {v \in ToSet(samples_) :
                   Cardinality({m \in DOMAIN samples_ : samples_[m] <= v}) >= k}
<1>3. ASSUME NEW v \in ToSet(samples_)
      PROVE  v \in Int /\ (v \in S <=> sorted[k] <= v)
  <2>1. v \in Int
    BY <1>1 DEF ToSet
  <2>2. Cardinality({m \in DOMAIN samples_ : samples_[m] <= v}) = Cardinality(B(v))
    BY <1>1, <2>1, SameCount DEF n
  <2> QED
    BY <1>2, <2>1, <2>2
<1>4. sorted[k] \in ToSet(samples_)
  <2>1. PICK f \in Bijection(1 .. n, 1 .. n) : \A m \in 1 .. n : sorted[m] = samples_[f[m]]
    BY SortedCopy DEF n
  <2>2. f[k] \in 1 .. n
    BY <1>1, <2>1 DEF Bijection, Injection
  <2> QED
    BY <1>1, <2>1, <2>2 DEF ToSet
<1>5. sorted[k] \in S /\ \A v \in S : sorted[k] <= v /\ v \in Int
  <2>1. S \subseteq ToSet(samples_) /\ sorted[k] <= sorted[k]
    BY <1>1
  <2> HIDE DEF S
  <2> QED
    BY <1>3, <1>4, <2>1
<1>6. Min(S) = sorted[k]
  <2> HIDE DEF S
  <2> QED
    BY <1>1, <1>5 DEF Min
<1> QED
  BY <1>6 DEF kth_smallest

-----------------------------------------------------------------------------
(***************************************************************************)
(* The interpolation.                                                      *)
(***************************************************************************)
\* The percentages that are printed.
Printed == {0, 500, 900, 990, 999, 1000}

\* They are those of print_summary.
LEMMA PrintedPercentiles == ToSet(printed_percentiles) = Printed
BY DEF ToSet, printed_percentiles, Printed

\* Where the index of a percentile points in a sequence of n elements.
LEMMA Index ==
    ASSUME NEW n \in Nat \ {0}, NEW p \in Printed
    PROVE  LET index == p * (n - 1)
               lower == index \div 1000
               upper == (index + 999) \div 1000
               fraction == index % 1000
           IN  /\ index \in Nat /\ lower \in 0 .. (n - 1) /\ upper \in 0 .. (n - 1)
               /\ fraction \in 0 .. 999 /\ index = 1000 * lower + fraction
               /\ upper = IF fraction = 0 THEN lower ELSE lower + 1
<1> DEFINE index == p * (n - 1)
<1>1. index \in Nat /\ index <= 1000 * (n - 1)
  BY DEF Printed
<1> HIDE DEF index
<1> DEFINE lower == index \div 1000
           upper == (index + 999) \div 1000
           fraction == index % 1000
<1>2. /\ lower \in Int /\ upper \in Int /\ fraction \in 0 .. 999
      /\ index = 1000 * lower + fraction
      /\ 1000 * upper <= index + 999 /\ index + 999 < 1000 * upper + 1000
  BY <1>1
<1> HIDE DEF lower, upper, fraction
<1>3. lower \in 0 .. (n - 1) /\ upper = IF fraction = 0 THEN lower ELSE lower + 1
  BY <1>1, <1>2
<1>4. upper \in 0 .. (n - 1)
  BY <1>1, <1>2
<1> QED
  BY <1>1, <1>2, <1>3, <1>4 DEF index, lower, upper, fraction

\* A weighted mean of a and b lies between them.
LEMMA Weighted ==
    ASSUME NEW a \in Int, NEW b \in Int, a <= b, NEW w \in 0 .. 1000
    PROVE  /\ a * (1000 - w) + b * w = 1000 * a + w * (b - a)
           /\ w * (b - a) \in Int
           /\ 0 <= w * (b - a) /\ w * (b - a) <= 1000 * (b - a)
           /\ a < b /\ 0 < w => 0 < w * (b - a)
<1>1. a * (1000 - w) + b * w = 1000 * a + w * (b - a)
  OBVIOUS
<1> DEFINE d == b - a
<1>2. d \in Nat /\ (a < b => d > 0)
  OBVIOUS
<1> HIDE DEF d
<1>3. w * d \in Int /\ 0 <= w * d
  BY <1>2
<1>4. w * d <= 1000 * d
  BY <1>2
<1>5. d > 0 /\ 0 < w => 0 < w * d
  BY <1>2
<1> QED
  BY <1>1, <1>2, <1>3, <1>4, <1>5 DEF d

\* What a heavier weight on the larger number adds to the mean.
LEMMA WeightsGrow ==
    ASSUME NEW d \in Nat, NEW v \in Nat, NEW w \in Nat, v + 9 <= w
    PROVE  v * d + 9 * d <= w * d
<1> DEFINE e == w - v - 9
<1>1. e \in Nat /\ w = v + 9 + e
  OBVIOUS
<1> HIDE DEF e
<1>2. w * d = v * d + 9 * d + e * d
  BY <1>1
<1>3. e * d \in Nat /\ v * d \in Nat
  BY <1>1
<1> QED
  BY <1>2, <1>3

\* A sequence of numbers without a decrease.
Increasing(s, n) ==
    /\ n \in Nat /\ s \in [1 .. n -> Nat]
    /\ \A j, k \in 1 .. n : j < k => s[j] <= s[k]

\* The two samples around the rank of p, and the weight of the second.
Lower(s, n, p) == s[(p * (n - 1)) \div 1000 + 1]
Upper(s, n, p) == s[(p * (n - 1) + 999) \div 1000 + 1]
Weight(n, p) == (p * (n - 1)) % 1000

\* They are samples, in order.
LEMMA Neighbours ==
    ASSUME NEW n \in Nat \ {0}, NEW s, Increasing(s, n), NEW p \in Printed
    PROVE  /\ Lower(s, n, p) \in Nat /\ Upper(s, n, p) \in Nat
           /\ Lower(s, n, p) <= Upper(s, n, p) /\ Weight(n, p) \in 0 .. 1000
           /\ Weight(n, p) = 0 => Lower(s, n, p) = Upper(s, n, p)
<1> DEFINE lower == (p * (n - 1)) \div 1000
           upper == (p * (n - 1) + 999) \div 1000
<1>1. /\ lower \in 0 .. (n - 1) /\ upper \in 0 .. (n - 1) /\ Weight(n, p) \in 0 .. 999
      /\ upper = IF Weight(n, p) = 0 THEN lower ELSE lower + 1
  BY Index DEF Weight
<1> HIDE DEF lower, upper
<1>2. /\ lower + 1 \in 1 .. n /\ upper + 1 \in 1 .. n
      /\ (upper = lower \/ lower + 1 < upper + 1)
  BY <1>1
<1>3. s[lower + 1] \in Nat /\ s[upper + 1] \in Nat /\ s[lower + 1] <= s[upper + 1]
  BY <1>2 DEF Increasing
<1> QED
  BY <1>1, <1>3 DEF Lower, Upper, lower, upper

\* What the error of the index is worth between two samples that are d apart.
LEMMA ErrorBound ==
    ASSUME NEW d \in Nat
    PROVE  /\ d \div Resolution \in Nat /\ d \div Resolution <= d
           /\ d < 1000 * Resolution => d \div Resolution < 1000
<1> DEFINE k == d \div Resolution
<1>1. Resolution \in Nat \ {0}
  BY ResolutionAssumption
<1>2. k \in Nat /\ Resolution * k <= d
  BY <1>1
<1> HIDE DEF k
<1>3. k <= Resolution * k
  BY <1>1, <1>2
<1>4. ASSUME 1000 <= k
      PROVE  1000 * Resolution <= Resolution * k
  BY <1>1, <1>2, <1>4
<1> QED
  BY <1>1, <1>2, <1>3, <1>4 DEF k

\* The sample after the one below the rank of p.
Following(s, n, p) == s[(p * (n - 1)) \div 1000 + 2]

\* floor and ceil of the double are those of the exact index, except that a
\* whole index may be lifted off.
LEMMA FloorAndCeil ==
    ASSUME NEW n \in Nat \ {0}, NEW p \in Printed,
           NEW e \in index_errors(p, p * (n - 1))
    PROVE  LET index == p * (n - 1)
               lower == (IF e < 0 THEN index - 1 ELSE index) \div 1000
               upper == ((IF e > 0 THEN index + 1 ELSE index) + 999) \div 1000
           IN  /\ lower = index \div 1000
               /\ index - 1000 * lower = index % 1000
               /\ e \in {-1, 0, 1}
               /\ \/ upper = (index + 999) \div 1000 /\ (e # 0 => index % 1000 # 0)
                  \/ /\ p = 999 /\ e = 1 /\ index % 1000 = 0
                     /\ upper = lower + 1 /\ lower + 2 \in 1 .. n
<1> DEFINE index == p * (n - 1)
           lo == index \div 1000
           w == index % 1000
           up == (index + 999) \div 1000
           lower == (IF e < 0 THEN index - 1 ELSE index) \div 1000
           upper == ((IF e > 0 THEN index + 1 ELSE index) + 999) \div 1000
           Claim == /\ lower = lo /\ index - 1000 * lower = w /\ e \in {-1, 0, 1}
                    /\ \/ upper = up /\ (e # 0 => w # 0)
                       \/ /\ p = 999 /\ e = 1 /\ w = 0
                          /\ upper = lower + 1 /\ lower + 2 \in 1 .. n
<1>1. /\ index \in Nat /\ lo \in 0 .. (n - 1) /\ w \in 0 .. 999
      /\ index = 1000 * lo + w /\ up = IF w = 0 THEN lo ELSE lo + 1
  BY Index
<1>2. /\ e \in {-1, 0, 1}
      /\ e # 0 => index # 0 /\ (w = 0 => e = 1 /\ p = 999)
  BY DEF index_errors
<1>3. p = 999 => index = 999 * (n - 1)
  OBVIOUS
<1> HIDE DEF index, lo, w, up
<1>4. ASSUME e = 0
      PROVE  Claim
  <2>1. lower = lo /\ upper = up
    BY <1>4 DEF lo, up
  <2> QED
    BY <1>1, <1>2, <1>4, <2>1
<1>5. ASSUME e = -1
      PROVE  Claim
  <2>1. w # 0
    BY <1>2, <1>5
  <2>2. (index - 1) \div 1000 = lo
    BY <1>1, <2>1
  <2>3. lower = lo /\ upper = up
    BY <1>5, <2>2 DEF up
  <2> QED
    BY <1>1, <1>2, <1>5, <2>1, <2>3
<1>6. ASSUME e = 1
      PROVE  Claim
  <2>1. ((index + 1) + 999) \div 1000 = lo + 1
    BY <1>1
  <2>2. lower = lo /\ upper = lo + 1
    BY <1>6, <2>1 DEF lo
  <2>3. CASE w # 0
    BY <1>1, <1>2, <1>6, <2>2, <2>3
  <2>4. CASE w = 0
    <3>1. p = 999 /\ index # 0
      BY <1>2, <1>6, <2>4
    <3>2. lo + 2 \in 1 .. n
      BY <1>1, <1>3, <2>4, <3>1
    <3> QED
      BY <1>1, <1>6, <2>2, <2>4, <3>1, <3>2
  <2> QED
    BY <2>3, <2>4
<1>7. Claim
  BY <1>2, <1>4, <1>5, <1>6
<1> QED
  BY <1>7 DEF index, lo, w, up

\* The value of a whole index that was lifted off: between its sample and the
\* next one, and no further from it than the error is worth.
LiftedOff(s, n, p, value) ==
    LET a == Lower(s, n, p)
        f == Following(s, n, p)
    IN  /\ p = 999 /\ Weight(n, p) = 0
        /\ (p * (n - 1)) \div 1000 + 2 \in 1 .. n
        /\ a <= value /\ value <= f
        /\ 1000 * value <= 1000 * a + ((f - a) \div Resolution)

\* Whatever percentile returns lies between the two samples around the rank,
\* and no further from their interpolation than truncation and error explain.
LEMMA PercentileValue ==
    ASSUME NEW n \in Nat \ {0}, NEW s, Increasing(s, n), NEW p \in Printed,
           NEW value \in percentile(s, p)
    PROVE  LET a == Lower(s, n, p)
               b == Upper(s, n, p)
               exact == 1000 * a + Weight(n, p) * (b - a)
               error == (b - a) \div Resolution
           IN  /\ value \in Int /\ a <= value
               /\ \/ /\ value <= b /\ 1000 * value <= exact + error
                     /\ exact <= 1000 * (value + 1) + error
                  \/ LiftedOff(s, n, p, value)
<1> DEFINE a == Lower(s, n, p)
           b == Upper(s, n, p)
           f == Following(s, n, p)
           w == Weight(n, p)
           index == p * (n - 1)
           lower == index \div 1000
           upper == (index + 999) \div 1000
           exact == 1000 * a + w * (b - a)
           error == (b - a) \div Resolution
<1>1. Len(s) = n /\ s # <<>>
  BY DEF Increasing
<1>2. PICK e \in index_errors(p, index) : value \in interpolate(s, index, e)
  BY <1>1 DEF percentile
<1>3. /\ a \in Nat /\ b \in Nat /\ a <= b /\ w \in 0 .. 1000
      /\ a = s[lower + 1] /\ b = s[upper + 1]
  BY Neighbours DEF Lower, Upper
<1>4. /\ w * (b - a) \in Int /\ 0 <= w * (b - a) /\ w * (b - a) <= 1000 * (b - a)
  BY <1>3, Weighted
<1>5. error \in Nat
  <2>1. b - a \in Nat
    BY <1>3
  <2> QED
    BY <2>1, ErrorBound
<1>6. exact \in Nat /\ 1000 * a <= exact /\ exact <= 1000 * b
  <2> DEFINE z == w * (b - a)
  <2>1. z \in Int /\ 0 <= z /\ z <= 1000 * (b - a)
    BY <1>4
  <2> HIDE DEF z, a, b
  <2>2. /\ 1000 * a + z \in Nat /\ 1000 * a <= 1000 * a + z
        /\ 1000 * a + z <= 1000 * b
    BY <1>3, <2>1
  <2> QED
    BY <2>2 DEF z
<1> DEFINE lo == (IF e < 0 THEN index - 1 ELSE index) \div 1000
           up == ((IF e > 0 THEN index + 1 ELSE index) + 999) \div 1000
<1>7. /\ lo = lower /\ index - 1000 * lo = w /\ e \in {-1, 0, 1}
      /\ \/ up = upper
         \/ /\ p = 999 /\ e = 1 /\ w = 0 /\ up = lower + 1 /\ lower + 2 \in 1 .. n
  BY <1>2, FloorAndCeil DEF Weight
<1>8. value \in IF e = 0 THEN {(1000 * s[lo + 1] + w * (s[up + 1] - s[lo + 1])) \div 1000}
                ELSE {v \in s[lo + 1] .. s[up + 1] :
                        /\ 1000 * v <= (1000 * s[lo + 1] + w * (s[up + 1] - s[lo + 1]))
                                         + ((s[up + 1] - s[lo + 1]) \div Resolution)
                        /\ (1000 * s[lo + 1] + w * (s[up + 1] - s[lo + 1]))
                             <= 1000 * (v + 1) + ((s[up + 1] - s[lo + 1]) \div Resolution)}
  BY <1>2, <1>7 DEF interpolate
<1> HIDE DEF a, b, f, w, index, lower, upper, lo, up
<1>9. CASE up = upper
  <2>1. value \in IF e = 0 THEN {exact \div 1000}
                  ELSE {v \in a .. b : /\ 1000 * v <= exact + error
                                       /\ exact <= 1000 * (v + 1) + error}
    BY <1>3, <1>7, <1>8, <1>9
  <2> HIDE DEF exact, error
  <2>2. /\ value \in Int /\ a <= value /\ value <= b
        /\ 1000 * value <= exact + error /\ exact <= 1000 * (value + 1) + error
    <3>1. CASE e = 0
      <4>1. value \in Int /\ 1000 * value <= exact /\ exact < 1000 * value + 1000
        BY <2>1, <1>6, <3>1
      <4> QED
        BY <1>3, <1>5, <1>6, <4>1
    <3>2. CASE e # 0
      BY <1>3, <1>5, <2>1, <3>2
    <3> QED
      BY <3>1, <3>2
  <2> QED
    BY <2>2 DEF a, b, w, exact, error
<1>10. CASE /\ p = 999 /\ e = 1 /\ w = 0 /\ up = lower + 1 /\ lower + 2 \in 1 .. n
  <2>1. lower \in Int /\ lower + 1 \in 1 .. n /\ up + 1 = lower + 2
    BY <1>10, Index DEF lower, index
  <2>2. s[up + 1] = f /\ f \in Nat
    BY <1>10, <2>1 DEF f, Following, lower, index, Increasing
  <2>3. /\ value \in a .. f
        /\ 1000 * value <= (1000 * a + w * (f - a)) + ((f - a) \div Resolution)
    BY <1>3, <1>7, <1>8, <1>10, <2>2
  <2>4. w * (f - a) = 0
    BY <1>3, <1>10, <2>2
  <2>5. 1000 * value <= 1000 * a + ((f - a) \div Resolution)
    BY <1>3, <2>3, <2>4
  <2>6. value \in Int /\ a <= value /\ value <= f
    BY <1>3, <2>2, <2>3
  <2>7. LiftedOff(s, n, p, value)
    BY <1>10, <2>5, <2>6 DEF LiftedOff, a, f, w, lower, index
  <2> QED
    BY <2>6, <2>7 DEF a
<1> QED
  BY <1>7, <1>9, <1>10

\* A higher percentage never gives a lower value.
LEMMA PercentilesGrow ==
    ASSUME NEW n \in Nat \ {0}, NEW s, Increasing(s, n),
           NEW p \in Printed, NEW q \in Printed, p < q,
           NEW low \in percentile(s, p), NEW high \in percentile(s, q)
    PROVE  low <= high
<1> DEFINE lp == (p * (n - 1)) \div 1000
           lq == (q * (n - 1)) \div 1000
           up == (p * (n - 1) + 999) \div 1000
           v == Weight(n, p)
           w == Weight(n, q)
<1>1. /\ p * (n - 1) \in Nat /\ q * (n - 1) \in Nat
      /\ lp \in 0 .. (n - 1) /\ lq \in 0 .. (n - 1) /\ up \in 0 .. (n - 1)
      /\ v \in 0 .. 999 /\ w \in 0 .. 999
      /\ p * (n - 1) = 1000 * lp + v /\ q * (n - 1) = 1000 * lq + w
      /\ up = IF v = 0 THEN lp ELSE lp + 1
  BY Index DEF Weight
<1>2. \/ n = 1 /\ p * (n - 1) = 0 /\ q * (n - 1) = 0
      \/ p * (n - 1) + 9 <= q * (n - 1)
      \/ p * (n - 1) < q * (n - 1) /\ q * (n - 1) = 1000 * (n - 1)
  <2> DEFINE m == n - 1
  <2>1. m \in Nat /\ (m = 0 => n = 1)
    OBVIOUS
  <2>2. p \in Nat /\ q \in Nat /\ (p + 9 <= q \/ (p = 999 /\ q = 1000))
    BY DEF Printed
  <2> HIDE DEF m
  <2>3. CASE p + 9 <= q
    <3>1. p * m + 9 * m <= q * m /\ p * m \in Nat /\ q * m \in Nat
      BY <2>1, <2>2, <2>3, WeightsGrow
    <3>2. \/ n = 1 /\ p * m = 0 /\ q * m = 0
          \/ p * m + 9 <= q * m
      BY <2>1, <2>2, <3>1
    <3> QED
      BY <3>2 DEF m
  <2>4. CASE p = 999 /\ q = 1000
    <3>1. \/ n = 1 /\ p * m = 0 /\ q * m = 0
          \/ p * m < q * m /\ q * m = 1000 * m
      BY <2>1, <2>4
    <3> QED
      BY <3>1 DEF m
  <2> QED
    BY <2>2, <2>3, <2>4
<1> DEFINE a == Lower(s, n, p)
           b == Upper(s, n, p)
           c == Lower(s, n, q)
           d == Upper(s, n, q)
<1>3. /\ a \in Nat /\ b \in Nat /\ a <= b /\ (v = 0 => a = b)
      /\ c \in Nat /\ d \in Nat /\ c <= d /\ (w = 0 => c = d)
  BY Neighbours
<1>4. /\ low \in Int /\ a <= low /\ high \in Int /\ c <= high
      /\ \/ low <= b /\ 1000 * low <= (1000 * a + v * (b - a)) + ((b - a) \div Resolution)
         \/ LiftedOff(s, n, p, low)
      /\ \/ 1000 * c + w * (d - c) <= 1000 * (high + 1) + ((d - c) \div Resolution)
         \/ LiftedOff(s, n, q, high)
  BY PercentileValue
<1>5. a = s[lp + 1] /\ b = s[up + 1] /\ c = s[lq + 1]
  BY DEF Lower, Upper
<1>6. lp = lq /\ v # 0 /\ w # 0 => d = b
  BY <1>1, Index DEF Upper, Weight
<1>7. LiftedOff(s, n, q, high) => w = 0
  BY DEF LiftedOff
<1>8. CASE LiftedOff(s, n, p, low)
  <2>1. /\ p = 999 /\ low <= s[lp + 2] /\ lp + 2 \in 1 .. n
    BY <1>8 DEF LiftedOff, Following
  <2>2. q = 1000
    BY <2>1 DEF Printed
  <2>3. lq = n - 1
    <3>1. (1000 * (n - 1)) \div 1000 = n - 1
      OBVIOUS
    <3> QED
      BY <2>2, <3>1
  <2>4. c = s[n]
    BY <1>5, <2>3
  <2> HIDE DEF lp, c
  <2>5. s[lp + 2] \in Nat /\ s[lp + 2] <= s[n]
    <3>1. n \in 1 .. n /\ (lp + 2 = n \/ lp + 2 < n)
      BY <1>1, <2>1
    <3> QED
      BY <2>1, <3>1 DEF Increasing
  <2> QED
    BY <1>3, <1>4, <2>1, <2>4, <2>5
<1> SUFFICES ASSUME ~LiftedOff(s, n, p, low)
             PROVE  low <= high
  BY <1>8
<1>9. low <= b /\ 1000 * low <= (1000 * a + v * (b - a)) + ((b - a) \div Resolution)
  BY <1>4
<1> HIDE DEF lp, lq, up, v, w, a, b, c, d
<1>10. CASE lp = lq /\ (v = 0 \/ v = w)
  <2>1. a = c
    BY <1>5, <1>10
  <2>2. CASE v = 0
    BY <1>3, <1>4, <1>9, <2>1, <2>2
  <2>3. CASE v # 0
    <3>1. n = 1
      BY <1>1, <1>2, <1>10, <2>3
    <3>2. v = 0
      BY <1>1, <1>2, <3>1
    <3> QED
      BY <2>3, <3>2
  <2> QED
    BY <2>2, <2>3
<1>11. CASE lp = lq /\ v # 0 /\ v + 9 <= w
  <2>1. a = c /\ b = d /\ w # 0
    BY <1>1, <1>5, <1>6, <1>11
  <2> DEFINE gap == b - a
             error == gap \div Resolution
  <2>2. gap \in Nat
    BY <1>3
  <2>3. /\ 1000 * low <= (1000 * a + v * gap) + error
        /\ 1000 * a + w * gap <= 1000 * (high + 1) + error
    BY <1>4, <1>7, <1>9, <2>1
  <2> HIDE DEF gap
  <2>4. error \in Nat /\ error <= gap
    BY <2>2, ErrorBound
  <2>5. v * gap + 9 * gap <= w * gap /\ v * gap \in Int /\ w * gap \in Int
    BY <1>1, <1>11, <2>2, WeightsGrow
  <2> HIDE DEF error
  <2>6. CASE gap = 0
    BY <1>3, <1>4, <1>9, <2>1, <2>6 DEF gap
  <2>7. CASE gap # 0
    <3> DEFINE y == v * gap
               z == w * gap
    <3>1. /\ y \in Int /\ z \in Int /\ y + 9 * gap <= z
          /\ 1000 * low <= (1000 * a + y) + error
          /\ 1000 * a + z <= 1000 * (high + 1) + error
      BY <2>3, <2>5
    <3> HIDE DEF y, z
    <3>2. 1000 * low < 1000 * (high + 1)
      BY <1>3, <1>4, <2>2, <2>4, <2>7, <3>1
    <3> QED
      BY <1>4, <3>2
  <2> QED
    BY <2>6, <2>7
<1>12. CASE lp < lq
  <2>1. up + 1 \in 1 .. n /\ lq + 1 \in 1 .. n /\ (up = lq \/ up + 1 < lq + 1)
    BY <1>1, <1>12
  <2>2. b <= c
    BY <1>3, <1>5, <2>1 DEF Increasing
  <2> QED
    BY <1>3, <1>4, <1>9, <2>2
<1>13. \/ lp < lq
       \/ lp = lq /\ (v = 0 \/ v = w)
       \/ lp = lq /\ v # 0 /\ v + 9 <= w
  BY <1>1, <1>2
<1> QED
  BY <1>10, <1>11, <1>12, <1>13

\* The sorted copy has no decrease.
LEMMA SortedIncreases ==
    ASSUME samples_ \in Seq(Latencies)
    PROVE  Increasing(sorted, Len(samples_))
<1> DEFINE n == Len(samples_)
<1>1. /\ n \in Nat /\ sorted \in [1 .. n -> Latencies]
      /\ \A j, k \in 1 .. n : j < k => sorted[j] <= sorted[k]
  BY SortedCopy
<1>2. \A k \in 1 .. n : sorted[k] \in Nat
  BY <1>1, LatencyIsNumber
<1>3. sorted \in [1 .. n -> Nat]
  BY <1>1, <1>2
<1> QED
  BY <1>1, <1>3 DEF Increasing

\* The first and the last percentile are the first and the last sample.
LEMMA Extremes ==
    ASSUME NEW n \in Nat \ {0}, NEW s, Increasing(s, n)
    PROVE  percentile(s, 0) = {s[1]} /\ percentile(s, 1000) = {s[n]}
<1>1. Len(s) = n /\ s # <<>>
  BY DEF Increasing
<1>2. index_errors(0, 0) = {0} /\ index_errors(1000, 1000 * (n - 1)) = {0}
  BY DEF index_errors
<1>3. interpolate(s, 0, 0) = {s[1]}
  <2>1. s[1] \in Nat
    BY DEF Increasing
  <2>2. 0 \div 1000 = 0 /\ (0 + 999) \div 1000 = 0
    OBVIOUS
  <2>3. (1000 * s[1] + 0 * (s[1] - s[1])) \div 1000 = s[1]
    BY <2>1
  <2> QED
    BY <2>2, <2>3 DEF interpolate
<1>4. interpolate(s, 1000 * (n - 1), 0) = {s[n]}
  <2>1. s[n] \in Nat
    BY DEF Increasing
  <2>2. /\ (1000 * (n - 1)) \div 1000 = n - 1
        /\ (1000 * (n - 1) + 999) \div 1000 = n - 1
        /\ (n - 1) + 1 = n /\ 1000 * (n - 1) - 1000 * (n - 1) = 0
    OBVIOUS
  <2>3. (1000 * s[n] + 0 * (s[n] - s[n])) \div 1000 = s[n]
    BY <2>1
  <2> QED
    BY <2>2, <2>3 DEF interpolate
<1>5. 0 * (n - 1) = 0
  OBVIOUS
<1> QED
  BY <1>1, <1>2, <1>3, <1>4, <1>5 DEF percentile

\* The positions of the two samples around a rank.
LEMMA RankInside ==
    ASSUME NEW n \in Nat \ {0}, NEW p \in Printed
    PROVE  LET j == (p * (n - 1)) \div 1000 + 1
               k == (p * (n - 1) + 999) \div 1000 + 1
           IN  /\ j \in 1 .. n /\ k \in 1 .. n /\ (j = k \/ j < k)
               /\ j + 1 = (p * (n - 1)) \div 1000 + 2 /\ j < j + 1
<1> DEFINE lower == (p * (n - 1)) \div 1000
           upper == (p * (n - 1) + 999) \div 1000
<1>1. lower \in 0 .. (n - 1) /\ upper \in 0 .. (n - 1) /\ (upper = lower \/ upper = lower + 1)
  BY Index
<1> HIDE DEF lower, upper
<1>2. /\ lower + 1 \in 1 .. n /\ upper + 1 \in 1 .. n
      /\ (lower + 1 = upper + 1 \/ lower + 1 < upper + 1)
      /\ lower + 1 + 1 = lower + 2 /\ lower + 1 < lower + 1 + 1
  BY <1>1
<1> QED
  BY <1>2 DEF lower, upper

\* Between samples that are d apart the error of the index is worth less than
\* a nanosecond.
SmallError(d) == d \div Resolution \in 0 .. 999

\* That is so for all samples that are close.
LEMMA CloseError ==
    ASSUME NEW n \in Nat \ {0}, Increasing(sorted, n), samples_ # <<>>, Close,
           NEW j \in 1 .. n, NEW k \in 1 .. n, j = k \/ j < k
    PROVE  SmallError(sorted[k] - sorted[j])
<1>1. /\ 1 \in 1 .. n /\ n \in 1 .. n /\ (1 = j \/ 1 < j) /\ (k = n \/ k < n)
      /\ Len(sorted) = n
  BY DEF Increasing
<1>2. \A m \in 1 .. n : sorted[m] \in Nat
  BY DEF Increasing
<1>3. \A l, m \in 1 .. n : l = m \/ l < m => sorted[l] <= sorted[m]
  <2>1. \A l, m \in 1 .. n : l < m => sorted[l] <= sorted[m]
    BY DEF Increasing
  <2> QED
    BY <1>2, <2>1
<1>4. /\ sorted[j] \in Nat /\ sorted[k] \in Nat /\ sorted[j] <= sorted[k]
      /\ sorted[1] \in Nat /\ sorted[n] \in Nat
      /\ sorted[1] <= sorted[j] /\ sorted[k] <= sorted[n]
  BY <1>1, <1>2, <1>3
<1>5. sorted[n] - sorted[1] < 1000 * Resolution
  BY <1>1 DEF Close, min, max
<1>6. 1000 * Resolution \in Nat
  BY ResolutionAssumption
<1>7. sorted[k] - sorted[j] \in Nat /\ sorted[k] - sorted[j] < 1000 * Resolution
  BY <1>4, <1>5, <1>6
<1>8. /\ (sorted[k] - sorted[j]) \div Resolution \in Nat
      /\ (sorted[k] - sorted[j]) \div Resolution < 1000
  BY <1>7, ErrorBound
<1> DEFINE error == (sorted[k] - sorted[j]) \div Resolution
<1>9. error \in Nat /\ error < 1000
  BY <1>8
<1> HIDE DEF error
<1>10. error \in 0 .. 999
  BY <1>9
<1> QED
  BY <1>10 DEF error, SmallError

\* What the recorder promises of its percentiles.
LEMMA InterpolatesInv == samples_ \in Seq(Latencies) => PercentileInterpolates
<1> SUFFICES ASSUME samples_ \in Seq(Latencies), samples_ # <<>>, Close,
                    NEW p \in ToSet(printed_percentiles), NEW value \in percentile(sorted, p)
             PROVE  LET rank == p * (Len(samples_) - 1)
                        below == kth_smallest(rank \div 1000 + 1)
                        above == kth_smallest((rank + 999) \div 1000 + 1)
                        exact == 1000 * below + (rank % 1000) * (above - below)
                    IN  /\ below <= value /\ value <= above
                        /\ 1000 * value < exact + 1000 /\ exact < 1000 * value + 2000
  BY DEF PercentileInterpolates
<1> DEFINE n == Len(samples_)
           j == (p * (n - 1)) \div 1000 + 1
           k == (p * (n - 1) + 999) \div 1000 + 1
           a == Lower(sorted, n, p)
           b == Upper(sorted, n, p)
           f == Following(sorted, n, p)
           w == Weight(n, p)
           z == w * (b - a)
           error == (b - a) \div Resolution
<1>1. n \in Nat \ {0} /\ p \in Printed /\ Increasing(sorted, n)
  BY SortedIncreases, PrintedPercentiles
<1>2. j \in 1 .. n /\ k \in 1 .. n /\ (j = k \/ j < k) /\ j < j + 1
  BY <1>1, RankInside
<1>3. kth_smallest(j) = a /\ kth_smallest(k) = b
  BY <1>2, KthSmallest DEF Lower, Upper
<1>4. /\ a \in Nat /\ b \in Nat /\ a <= b /\ w \in 0 .. 1000 /\ (w = 0 => a = b)
  BY <1>1, Neighbours
<1>5. /\ a = sorted[j] /\ b = sorted[k] /\ f = sorted[j + 1]
      /\ j + 1 = (p * (n - 1)) \div 1000 + 2
  <2>1. j + 1 = (p * (n - 1)) \div 1000 + 2
    BY <1>1, RankInside
  <2> QED
    BY <2>1 DEF Lower, Upper, Following
<1>6. /\ value \in Int /\ a <= value
      /\ \/ /\ value <= b /\ 1000 * value <= (1000 * a + z) + error
            /\ 1000 * a + z <= 1000 * (value + 1) + error
         \/ LiftedOff(sorted, n, p, value)
  BY <1>1, PercentileValue
<1>7. LiftedOff(sorted, n, p, value) =>
        /\ w = 0 /\ 1000 * value <= 1000 * a + ((f - a) \div Resolution)
        /\ j + 1 \in 1 .. n
  BY <1>5 DEF LiftedOff
<1> HIDE DEF n, j, k, a, b, f, w
<1>8. z \in Int /\ (w = 0 => z = 0)
  <2> DEFINE d == b - a
  <2>1. d \in Int
    BY <1>4
  <2> HIDE DEF d
  <2>2. w * d \in Int /\ (w = 0 => w * d = 0)
    BY <1>4, <2>1
  <2> QED
    BY <2>2 DEF d
<1>9. error \in 0 .. 999
  <2>1. SmallError(sorted[k] - sorted[j])
    BY <1>1, <1>2, CloseError
  <2>2. SmallError(b - a)
    BY <1>5, <2>1
  <2> QED
    BY <2>2 DEF SmallError
<1> HIDE DEF z, error
<1>10. LiftedOff(sorted, n, p, value) => w = 0 /\ value = a
  <2> SUFFICES ASSUME LiftedOff(sorted, n, p, value)
               PROVE  w = 0 /\ value = a
    OBVIOUS
  <2> DEFINE g == (f - a) \div Resolution
  <2>1. w = 0 /\ 1000 * value <= 1000 * a + g /\ j + 1 \in 1 .. n
    BY <1>7
  <2>2. g \in 0 .. 999
    <3>1. j \in 1 .. n /\ j + 1 \in 1 .. n /\ j < j + 1
      BY <1>2, <2>1
    <3>2. SmallError(sorted[j + 1] - sorted[j])
      BY <1>1, <3>1, CloseError
    <3>3. SmallError(f - a)
      BY <1>5, <3>2
    <3> QED
      BY <3>3 DEF SmallError
  <2>3. value \in Int /\ a <= value /\ a \in Nat
    BY <1>4, <1>6
  <2> HIDE DEF g
  <2>4. value = a
    BY <2>1, <2>2, <2>3
  <2> QED
    BY <2>1, <2>4
<1>11. /\ a <= value /\ value <= b
       /\ 1000 * value < (1000 * a + z) + 1000 /\ 1000 * a + z < 1000 * value + 2000
  <2>1. CASE LiftedOff(sorted, n, p, value)
    BY <1>4, <1>6, <1>8, <1>10, <2>1
  <2>2. CASE ~LiftedOff(sorted, n, p, value)
    BY <1>4, <1>6, <1>8, <1>9, <2>2
  <2> QED
    BY <2>1, <2>2
<1> QED
  BY <1>3, <1>11 DEF Weight, w, z, j, k, n

-----------------------------------------------------------------------------
(***************************************************************************)
(* The mean.                                                               *)
(***************************************************************************)
Plus(a, b) == a + b

Sums == INSTANCE FoldProofs WITH Op <- Plus

\* A sum of samples is at least the number of samples times the least.
LEMMA TotalBounds ==
    ASSUME samples_ \in Seq(Latencies), NEW lo \in Nat, NEW hi \in Nat,
           \A k \in 1 .. Len(samples_) : lo <= samples_[k] /\ samples_[k] <= hi
    PROVE  /\ total \in Nat
           /\ Len(samples_) * lo <= total /\ total <= Len(samples_) * hi
<1> DEFINE n == Len(samples_)
           Between(k) == {t \in Nat : k * lo <= t /\ t <= k * hi}
           G == [k \in 0 .. n |-> Between(k)]
<1>1. total = Sums!Folded(0, samples_)
  BY DEF total, FoldLeft, MapThenFoldSet, Max, Sums!Folded, Sums!FoldLeft,
         Sums!MapThenFoldSet, Sums!Max, Plus
<1>2. /\ n \in Nat
      /\ \A k \in 1 .. n : samples_[k] \in Nat /\ lo <= samples_[k] /\ samples_[k] <= hi
  BY LatencyIsNumber
<1> HIDE DEF n
<1>3. 0 \in G[0]
  BY <1>2
<1>4. ASSUME NEW k \in 0 .. (n - 1), NEW x \in G[k]
      PROVE  Plus(x, samples_[k + 1]) \in G[k + 1]
  <2>1. k \in 0 .. n /\ k + 1 \in 0 .. n /\ k + 1 \in 1 .. n /\ k \in Nat
    BY <1>2
  <2>2. x \in Nat /\ k * lo <= x /\ x <= k * hi
    BY <2>1
  <2> DEFINE v == samples_[k + 1]
  <2>3. v \in Nat /\ lo <= v /\ v <= hi
    BY <1>2, <2>1
  <2> HIDE DEF v
  <2>4. (k + 1) * lo = k * lo + lo /\ (k + 1) * hi = k * hi + hi
    BY <2>1
  <2>5. k * lo \in Int /\ k * hi \in Int
    BY <2>1
  <2>6. x + v \in Nat /\ (k + 1) * lo <= x + v /\ x + v <= (k + 1) * hi
    BY <2>2, <2>3, <2>4, <2>5
  <2>7. G[k + 1] = Between(k + 1)
    BY <2>1
  <2> QED
    BY <2>6, <2>7 DEF Plus, v
<1>5. Sums!Folded(0, samples_) \in G[Len(samples_)]
  <2> HIDE DEF G
  <2> QED
    BY <1>3, <1>4, Sums!FoldAlong DEF n
<1>6. G[n] = Between(n)
  BY <1>2
<1> QED
  BY <1>1, <1>5, <1>6 DEF n

\* Division by the number of samples.
LEMMA Quotient ==
    ASSUME NEW n \in Nat \ {0}, NEW t \in Nat, NEW lo \in Nat, NEW hi \in Nat,
           n * lo <= t, t <= n * hi
    PROVE  lo <= t \div n /\ t \div n <= hi
<1> DEFINE q == t \div n
<1>1. q \in Nat /\ n * q <= t /\ t < n * q + n
  OBVIOUS
<1> HIDE DEF q
<1>2. ASSUME q < lo
      PROVE  FALSE
  <2>1. n * (q + 1) <= n * lo
    BY <1>1, <1>2, q + 1 <= lo
  <2> QED
    BY <1>1, <2>1
<1>3. ASSUME hi < q
      PROVE  FALSE
  <2>1. n * (hi + 1) <= n * q
    BY <1>1, <1>3, hi + 1 <= q
  <2> QED
    BY <1>1, <2>1
<1> QED
  BY <1>1, <1>2, <1>3 DEF q

\* Every sample is between the first and the last of the sorted copy.
LEMMA SamplesBetween ==
    ASSUME samples_ \in Seq(Latencies), NEW k \in 1 .. Len(samples_)
    PROVE  sorted[1] <= samples_[k] /\ samples_[k] <= sorted[Len(samples_)]
<1> DEFINE n == Len(samples_)
<1>1. PICK f \in Bijection(1 .. n, 1 .. n) : \A m \in 1 .. n : sorted[m] = samples_[f[m]]
  BY SortedCopy
<1>2. PICK m \in 1 .. n : f[m] = k
  BY <1>1, Fun_BijectionProperties
<1>3. /\ n \in Nat /\ \A j \in 1 .. n : sorted[j] \in Nat
      /\ \A j, l \in 1 .. n : j < l => sorted[j] <= sorted[l]
  BY SortedIncreases DEF Increasing
<1>4. samples_[k] = sorted[m]
  BY <1>1, <1>2
<1> HIDE DEF n
<1>5. 1 \in 1 .. n /\ n \in 1 .. n /\ (m = 1 \/ 1 < m) /\ (m = n \/ m < n)
  BY <1>3
<1>6. sorted[1] <= sorted[m] /\ sorted[m] <= sorted[n]
  BY <1>3, <1>5
<1> QED
  BY <1>4, <1>6 DEF n

\* What the recorder promises of the figures it prints.
LEMMA SummaryInv == samples_ \in Seq(Latencies) => SummaryOrdered
<1> SUFFICES ASSUME samples_ \in Seq(Latencies)
             PROVE  SummaryOrdered
  OBVIOUS
<1> DEFINE n == Len(samples_)
           pp == printed_percentiles
<1>1. n \in Nat /\ Increasing(sorted, n) /\ (samples_ = <<>> <=> n = 0)
  BY SortedIncreases
<1>2. \A k \in 1 .. (Len(pp) - 1) : /\ pp[k] \in Printed /\ pp[k + 1] \in Printed
                                    /\ pp[k] < pp[k + 1]
  <2>1. Len(pp) = 6
    BY DEF printed_percentiles
  <2>2. ASSUME NEW k \in 1 .. 5
        PROVE  pp[k] \in Printed /\ pp[k + 1] \in Printed /\ pp[k] < pp[k + 1]
    <3>1. k = 1 \/ k = 2 \/ k = 3 \/ k = 4 \/ k = 5
      OBVIOUS
    <3> QED
      BY <3>1 DEF printed_percentiles, Printed
  <2> QED
    BY <2>1, <2>2
<1>3. CASE n = 0
  <2>1. samples_ = <<>> /\ sorted = <<>>
    BY <1>1, <1>3 DEF Increasing
  <2>2. min = 0 /\ max = 0 /\ mean = 0
    BY <2>1 DEF min, max, mean
  <2>3. \A p : percentile(sorted, p) = {0}
    BY <2>1 DEF percentile
  <2> QED
    BY <2>2, <2>3 DEF SummaryOrdered
<1>4. CASE n # 0
  <2>1. n \in Nat \ {0} /\ Len(sorted) = n /\ 1 \in 1 .. n /\ n \in 1 .. n
    BY <1>1, <1>4 DEF Increasing
  <2>2. min = sorted[1] /\ max = sorted[n] /\ mean = (total % U64) \div n
    BY <1>1, <2>1 DEF min, max, mean
  <2>3. percentile(sorted, 0) = {min} /\ percentile(sorted, 1000) = {max}
    BY <1>1, <2>1, <2>2, Extremes
  <2>4. \A k \in 1 .. (Len(pp) - 1) :
           \A low \in percentile(sorted, pp[k]), high \in percentile(sorted, pp[k + 1]) :
              low <= high
    <3> HIDE DEF pp
    <3> QED
      BY <1>1, <1>2, <2>1, PercentilesGrow
  <2>5. ASSUME total < U64
        PROVE  min <= mean /\ mean <= max
    <3>1. min \in Nat /\ max \in Nat
      BY <1>1, <2>1, <2>2 DEF Increasing
    <3>2. total \in Nat /\ n * min <= total /\ total <= n * max
      BY <2>2, <3>1, SamplesBetween, TotalBounds
    <3>3. total % U64 = total
      BY <2>5, <3>2, LatenciesAssumption
    <3> QED
      BY <2>1, <2>2, <3>1, <3>2, <3>3, Quotient
  <2> QED
    BY <2>3, <2>4, <2>5 DEF SummaryOrdered
<1> QED
  BY <1>3, <1>4

-----------------------------------------------------------------------------
(***************************************************************************)
(* The batches.                                                            *)
(***************************************************************************)
Books == INSTANCE FoldProofs WITH Op <- Baseline!on_message
Records == INSTANCE FoldProofs WITH Op <- record

\* A loop variable, as a number of messages.
Reached(k) == IF k <= Len(messages_) THEN k ELSE Len(messages_)

\* The book of an unbatched replay of the first k messages.
BookAfter(k) == Books!Folded(Baseline!EmptyBook, SubSeq(messages_, 1, k))

\* What every batch size should report.
FullReport == [book |-> Books!Folded(Baseline!EmptyBook, messages_),
               samples |-> Len(messages_)]

(***************************************************************************)
(* The inductive invariant: where the loops have got to, the book is that  *)
(* of an unbatched replay and there is a sample for every message of the   *)
(* batches that are done; all reports so far are the same.                 *)
(***************************************************************************)
BatchInv ==
    /\ messages_ \in Seq(Message) /\ samples_ \in Seq(Latencies)
    /\ batch_start \in Nat /\ message_index \in Nat /\ batch_start <= message_index
    /\ generating => reports = <<>> /\ batch_start = 0 /\ message_index = 0
    /\ reports \in Seq({FullReport})
    /\ Len(samples_) = Reached(batch_start)
    /\ book = BookAfter(Reached(message_index))

\* Before the first message the book is empty.
LEMMA BookAfterNone ==
    ASSUME messages_ \in Seq(Message)
    PROVE  BookAfter(0) = Baseline!EmptyBook
<1>1. SubSeq(messages_, 1, 0) = <<>>
  OBVIOUS
<1> QED
  BY <1>1, Books!FoldNone DEF BookAfter

\* Recording a batch adds a sample for each of its messages.
LEMMA RecordEach ==
    ASSUME samples_ \in Seq(Latencies), NEW m \in Nat, record_for_each(m)
    PROVE  samples_' \in Seq(Latencies) /\ Len(samples_') = Len(samples_) + m
<1>1. PICK x \in Latencies :
         samples_' = FoldLeft(record, samples_, [k \in 1 .. m |-> x])
  BY DEF record_for_each
<1> DEFINE s == [k \in 1 .. m |-> x]
           Longer(k) == {q \in Seq(Latencies) : Len(q) = Len(samples_) + k}
           G == [k \in 0 .. m |-> Longer(k)]
<1>2. s \in Seq(Latencies) /\ Len(s) = m /\ \A k \in 1 .. m : s[k] = x
  OBVIOUS
<1> HIDE DEF s
<1>3. samples_' = Records!Folded(samples_, s)
  BY <1>1 DEF s, FoldLeft, MapThenFoldSet, Max, Records!Folded, Records!FoldLeft,
              Records!MapThenFoldSet, Records!Max
<1>4. samples_ \in G[0]
  OBVIOUS
<1>5. ASSUME NEW k \in 0 .. (m - 1), NEW q \in G[k]
      PROVE  record(q, s[k + 1]) \in G[k + 1]
  <2>1. k \in 0 .. m /\ k + 1 \in 0 .. m /\ s[k + 1] \in Latencies /\ k \in Nat
    BY <1>2
  <2>2. q \in Seq(Latencies) /\ Len(q) = Len(samples_) + k
    BY <2>1
  <2>3. /\ Append(q, s[k + 1]) \in Seq(Latencies)
        /\ Len(Append(q, s[k + 1])) = Len(samples_) + (k + 1)
    BY <2>1, <2>2
  <2>4. G[k + 1] = Longer(k + 1)
    BY <2>1
  <2> QED
    BY <2>3, <2>4 DEF record
<1>6. Records!Folded(samples_, s) \in G[Len(s)]
  <2> HIDE DEF G
  <2> QED
    BY <1>2, <1>4, <1>5, Records!FoldAlong
<1>7. G[m] = Longer(m)
  OBVIOUS
<1> QED
  BY <1>2, <1>3, <1>6, <1>7

\* What holds of the batch the loop is in.
LEMMA BatchBounds ==
    ASSUME BatchInv, Running
    PROVE  /\ batch_size \in Nat \ {0} /\ Len(messages_) \in Nat
           /\ batch_end = Reached(batch_start + batch_size)
           /\ batch_end \in Nat /\ batch_end <= Len(messages_)
           /\ batch_start < Len(messages_) => batch_start < batch_end
<1>1. /\ Len(reports) \in Nat /\ Len(reports) < Len(default_batch_sizes)
      /\ batch_start \in Nat /\ Len(messages_) \in Nat
  BY DEF BatchInv, Running
<1>2. batch_size \in Nat \ {0}
  BY <1>1, BatchSizesAssumption DEF batch_size
<1>3. batch_end = IF batch_start + batch_size <= Len(messages_)
                  THEN batch_start + batch_size ELSE Len(messages_)
  BY <1>1, <1>2, MinOfTwo DEF batch_end
<1> QED
  BY <1>1, <1>2, <1>3 DEF Reached

\* The invariant holds before the first message is generated.
LEMMA BatchInitInv == BatchInit => BatchInv
<1> SUFFICES ASSUME BatchInit
             PROVE  BatchInv
  OBVIOUS
<1>1. /\ messages_ = <<>> /\ samples_ = <<>> /\ reports = <<>>
      /\ batch_start = 0 /\ message_index = 0 /\ book = Baseline!EmptyBook
  BY DEF BatchInit, EmptyRecorder, Baseline!Init
<1>2. messages_ \in Seq(Message) /\ samples_ \in Seq(Latencies) /\ reports \in Seq({FullReport})
  BY <1>1
<1>3. Reached(0) = 0
  BY <1>1 DEF Reached
<1>4. book = BookAfter(0)
  BY <1>1, <1>2, BookAfterNone
<1> QED
  BY <1>1, <1>2, <1>3, <1>4 DEF BatchInv

\* A message is generated.
LEMMA BatchGenerateInv == BatchInv /\ batch_generate => BatchInv'
<1> SUFFICES ASSUME BatchInv, batch_generate
             PROVE  BatchInv'
  OBVIOUS
<1>1. PICK msg \in generated(Len(messages_)) : messages_' = Append(messages_, msg)
  BY DEF batch_generate, generate
<1>2. /\ messages_ \in Seq(Message) /\ samples_ \in Seq(Latencies)
      /\ reports = <<>> /\ batch_start = 0 /\ message_index = 0
      /\ UNCHANGED <<book, generating, batch_start, message_index, samples_, reports>>
  BY DEF BatchInv, batch_generate
<1>3. messages_' \in Seq(Message)
  <2>1. msg \in Message
    BY <1>1, <1>2, GeneratedMessage
  <2> QED
    BY <1>1, <1>2, <2>1
<1>4. Reached(0) = 0 /\ Reached(0)' = 0
  BY <1>2, <1>3 DEF Reached
<1>5. BookAfter(0) = Baseline!EmptyBook /\ BookAfter(0)' = Baseline!EmptyBook
  <2>1. SubSeq(messages_, 1, 0) = <<>> /\ SubSeq(messages_', 1, 0) = <<>>
    BY <1>2, <1>3
  <2> QED
    BY <2>1, Books!FoldNone DEF BookAfter
<1>6. book = Baseline!EmptyBook /\ Len(samples_) = 0
  BY <1>2, <1>4, <1>5 DEF BatchInv
<1>7. reports' \in Seq({FullReport'})
  BY <1>2
<1> QED
  BY <1>2, <1>3, <1>4, <1>5, <1>6, <1>7 DEF BatchInv

\* The last message has been generated.
LEMMA BatchGeneratedInv == BatchInv /\ batch_generated_all => BatchInv'
BY DEF BatchInv, batch_generated_all, Reached, BookAfter, FullReport

\* One message of a batch is applied.
LEMMA BatchProcessInv == BatchInv /\ process_message => BatchInv'
<1> SUFFICES ASSUME BatchInv, process_message
             PROVE  BatchInv'
  OBVIOUS
<1>1. /\ Running /\ message_index < batch_end
      /\ book' = Baseline!on_message(book, messages_[message_index + 1])
      /\ message_index' = message_index + 1
      /\ UNCHANGED <<messages_, generating, batch_start, samples_, reports>>
  BY DEF process_message
<1>2. /\ messages_ \in Seq(Message) /\ message_index \in 0 .. (Len(messages_) - 1)
      /\ message_index \in Nat /\ Len(messages_) \in Nat
  BY <1>1, BatchBounds DEF BatchInv
<1>3. Reached(message_index) = message_index /\ Reached(message_index + 1) = message_index + 1
  BY <1>2 DEF Reached
<1>4. BookAfter(message_index + 1)
        = Baseline!on_message(BookAfter(message_index), messages_[message_index + 1])
  BY <1>2, Books!FoldPrefix DEF BookAfter
<1>5. book' = BookAfter(message_index + 1)
  BY <1>1, <1>3, <1>4 DEF BatchInv
<1>6. book' = BookAfter(Reached(message_index))'
  <2>1. BookAfter(Reached(message_index))' = BookAfter(Reached(message_index + 1))
    BY <1>1 DEF BookAfter, Reached
  <2> QED
    BY <1>3, <1>5, <2>1
<1>7. ~generating
  BY <1>1 DEF Running
<1> QED
  BY <1>1, <1>2, <1>6, <1>7 DEF BatchInv, Reached, FullReport

\* A batch is recorded.
LEMMA BatchRecordInv == BatchInv /\ record_batch => BatchInv'
<1> SUFFICES ASSUME BatchInv, record_batch
             PROVE  BatchInv'
  OBVIOUS
<1>1. /\ Running /\ batch_start < Len(messages_) /\ message_index = batch_end
      /\ record_for_each(batch_end - batch_start)
      /\ batch_start' = batch_start + batch_size /\ message_index' = batch_start'
      /\ UNCHANGED <<messages_, book, generating, reports>>
  BY DEF record_batch
<1>2. /\ batch_size \in Nat \ {0} /\ Len(messages_) \in Nat
      /\ batch_end = Reached(batch_start + batch_size)
      /\ batch_end \in Nat /\ batch_end <= Len(messages_) /\ batch_start < batch_end
      /\ batch_start \in Nat
  BY <1>1, BatchBounds DEF BatchInv
<1>3. Reached(batch_start) = batch_start /\ Reached(batch_end) = batch_end
  BY <1>1, <1>2 DEF Reached
<1>4. samples_' \in Seq(Latencies) /\ Len(samples_') = batch_end
  <2>1. /\ samples_' \in Seq(Latencies)
        /\ Len(samples_') = Len(samples_) + (batch_end - batch_start)
    <3>1. batch_end - batch_start \in Nat /\ samples_ \in Seq(Latencies)
      BY <1>2 DEF BatchInv
    <3> QED
      BY <1>1, <3>1, RecordEach
  <2> QED
    BY <1>2, <1>3, <2>1 DEF BatchInv
<1>5. /\ Reached(batch_start)' = batch_end /\ Reached(message_index)' = batch_end
  BY <1>1, <1>2 DEF Reached
<1>6. book' = BookAfter(Reached(message_index))'
  <2>1. book = BookAfter(batch_end)
    BY <1>1, <1>3 DEF BatchInv
  <2>2. BookAfter(Reached(message_index))' = BookAfter(batch_end)
    BY <1>1, <1>5 DEF BookAfter
  <2> QED
    BY <1>1, <2>1, <2>2
<1>7. batch_start' \in Nat /\ ~generating
  BY <1>1, <1>2 DEF Running
<1> QED
  BY <1>1, <1>4, <1>5, <1>6, <1>7 DEF BatchInv, FullReport

\* A batch size is reported.
LEMMA BatchReportInv == BatchInv /\ report => BatchInv'
<1> SUFFICES ASSUME BatchInv, report
             PROVE  BatchInv'
  OBVIOUS
<1>1. /\ Running /\ batch_start >= Len(messages_)
      /\ reports' = Append(reports, [book |-> book, samples |-> Len(samples_)])
      /\ book' = Baseline!EmptyBook /\ samples_' = <<>>
      /\ batch_start' = 0 /\ message_index' = 0
      /\ UNCHANGED <<messages_, generating>>
  BY DEF report, EmptyRecorder
<1>2. /\ messages_ \in Seq(Message) /\ Len(messages_) \in Nat /\ ~generating
      /\ batch_start \in Nat /\ message_index \in Nat /\ batch_start <= message_index
  BY <1>1 DEF BatchInv, Running
<1>3. Reached(batch_start) = Len(messages_) /\ Reached(message_index) = Len(messages_)
  BY <1>1, <1>2 DEF Reached
<1>4. [book |-> book, samples |-> Len(samples_)] = FullReport
  <2>1. SubSeq(messages_, 1, Len(messages_)) = messages_
    BY <1>2
  <2>2. book = Books!Folded(Baseline!EmptyBook, messages_)
    BY <1>3, <2>1 DEF BatchInv, BookAfter
  <2> QED
    BY <1>3, <2>2 DEF BatchInv, FullReport
<1>5. reports' \in Seq({FullReport'})
  <2>1. reports' \in Seq({FullReport})
    BY <1>1, <1>4 DEF BatchInv
  <2> QED
    BY <1>1, <2>1 DEF FullReport
<1>6. Reached(batch_start)' = 0 /\ Reached(message_index)' = 0
  BY <1>1, <1>2 DEF Reached
<1>7. book' = BookAfter(Reached(message_index))'
  <2>1. BookAfter(Reached(message_index))' = BookAfter(0)
    BY <1>1, <1>6 DEF BookAfter
  <2> QED
    BY <1>1, <1>2, <2>1, BookAfterNone
<1>8. samples_' \in Seq(Latencies) /\ Len(samples_') = 0
  BY <1>1
<1> QED
  BY <1>1, <1>2, <1>5, <1>6, <1>7, <1>8 DEF BatchInv

\* Every step of main keeps the invariant.
LEMMA BatchNextInv == BatchInv /\ [BatchNext]_batchVars => BatchInv'
<1>1. BatchInv /\ UNCHANGED batchVars => BatchInv'
  BY DEF BatchInv, batchVars, Reached, BookAfter, FullReport
<1> QED
  BY <1>1, BatchGenerateInv, BatchGeneratedInv, BatchProcessInv, BatchRecordInv,
     BatchReportInv DEF BatchNext, Done

(***************************************************************************)
(* Every batch size reports the book of an unbatched replay and one sample *)
(* per message, whatever the sizes, whether or not they divide the number  *)
(* of messages.                                                            *)
(***************************************************************************)
THEOREM BatchesAgree == BatchSpec => []ReportsAgree
<1>1. BatchInv => ReportsAgree
  <2>1. FoldLeft(Baseline!on_message, Baseline!EmptyBook, messages_)
          = Books!Folded(Baseline!EmptyBook, messages_)
    BY DEF FoldLeft, MapThenFoldSet, Max, Books!Folded, Books!FoldLeft,
           Books!MapThenFoldSet, Books!Max
  <2>2. BatchInv => \A k \in DOMAIN reports : reports[k] = FullReport
    BY DEF BatchInv
  <2> QED
    BY <2>1, <2>2 DEF ReportsAgree, FullReport
<1> QED
  BY <1>1, BatchInitInv, BatchNextInv, PTL DEF BatchSpec

(***************************************************************************)
(* The figures print_summary prints are ordered from minimum to maximum,   *)
(* whatever was recorded and however the interpolations round, and the     *)
(* mean is between them as long as the sum fits.                           *)
(***************************************************************************)
THEOREM SummaryIsOrdered == BatchSpec => []SummaryOrdered
<1>1. BatchInv => SummaryOrdered
  BY SummaryInv DEF BatchInv
<1> QED
  BY <1>1, BatchInitInv, BatchNextInv, PTL DEF BatchSpec

(***************************************************************************)
(* Each printed percentile lies between the samples around its rank, and   *)
(* less than a nanosecond above or two below their interpolation, for      *)
(* every number of samples that are close and on whichever side of the     *)
(* exact index the doubles end up.                                         *)
(***************************************************************************)
THEOREM PercentilesInterpolate == BatchSpec => []PercentileInterpolates
<1>1. BatchInv => PercentileInterpolates
  BY InterpolatesInv DEF BatchInv
<1> QED
  BY <1>1, BatchInitInv, BatchNextInv, PTL DEF BatchSpec

=============================================================================
