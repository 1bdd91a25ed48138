----------------------- MODULE BoundedMutexQueueProofs -----------------------
(***************************************************************************)
(* Proofs about the mutex queue, for every capacity, every set of items    *)
(* and any finite number of producers and consumers.                       *)
(***************************************************************************)
EXTENDS BoundedMutexQueue, FiniteSetTheorems, TLAPS

-----------------------------------------------------------------------------
\* Taking one thread out of a finite set of threads costs at most one.
LEMMA CardWithout ==
    ASSUME NEW S, IsFiniteSet(S), NEW t
    PROVE  /\ IsFiniteSet(S \ {t})
           /\ Cardinality(S) - 1 <= Cardinality(S \ {t})
  <1>1. /\ IsFiniteSet(S \ {t})
        /\ Cardinality(S \ {t}) = IF t \in S THEN Cardinality(S) - 1
                                             ELSE Cardinality(S)
    BY FS_RemoveElement
  <1>2. Cardinality(S) \in Nat
    BY FS_CardinalityType
  <1>3. Cardinality(S) - 1 <= Cardinality(S \ {t})
    BY <1>1, <1>2
  <1> QED
    BY <1>1, <1>3

\* Adding a new thread to a finite set of threads gains one.
LEMMA CardWith ==
    ASSUME NEW S, IsFiniteSet(S), NEW t, t \notin S
    PROVE  /\ IsFiniteSet(S \union {t})
           /\ Cardinality(S \union {t}) = Cardinality(S) + 1
  BY FS_AddElement

\* The woken threads can be counted.
LEMMA WokenFinite ==
    ASSUME TypeOK
    PROVE  /\ IsFiniteSet(woken \cap Producers)
           /\ IsFiniteSet(woken \cap Consumers)
           /\ Cardinality(woken \cap Producers) \in Nat
           /\ Cardinality(woken \cap Consumers) \in Nat
           /\ Len(queue_) \in Nat
  <1>1. /\ IsFiniteSet(woken \cap Producers)
        /\ IsFiniteSet(woken \cap Consumers)
    BY ThreadsAssumption, FS_Subset
  <1> QED
    BY <1>1, FS_CardinalityType DEF TypeOK

-----------------------------------------------------------------------------
\* The queue starts in a state of the declared shape.
LEMMA InitType == Init => TypeOK
  <1> SUFFICES ASSUME Init
               PROVE  TypeOK
    OBVIOUS
  <1>1. /\ pending \in [Producers -> Items \union {NoItem}]
        /\ \A t \in Producers : t \in not_full_ \union woken <=> pending[t] # NoItem
    BY DEF Init
  <1>2. queue_ \in Seq(Items) /\ accepted \in Seq(Items) /\ delivered \in Seq(Items)
    BY DEF Init
  <1>3. calls \in 0 .. MaxPushes
    BY MaxPushesAssumption DEF Init
  <1>4. /\ closed_ \in BOOLEAN
        /\ closed_ <=> closing # "not_called"
        /\ closing \in {"not_called", "flag_set", "consumers_notified", "returned"}
    BY DEF Init
  <1>5. /\ not_full_ \subseteq Producers /\ not_empty_ \subseteq Consumers
        /\ woken \subseteq (Producers \union Consumers) \ (not_full_ \union not_empty_)
        /\ finished \subseteq Consumers \ (not_empty_ \union woken)
    BY DEF Init
  <1> QED
    BY <1>1, <1>2, <1>3, <1>4, <1>5 DEF TypeOK

\* A push keeps the shape, whichever way it goes.
LEMMA PushType ==
    ASSUME TypeOK, NEW t \in Producers, NEW item \in Items, push(t, item)
    PROVE  TypeOK'
  <1>1. t \notin Consumers /\ item # NoItem
    BY ThreadsAssumption, NoItemAssumption
  <1>2. calls' \in 0 .. MaxPushes
    BY MaxPushesAssumption
    DEF push, push_wait, push_closed, push_item, in_push, TypeOK
  <1>3. CASE push_wait(t, item)
    BY <1>1, <1>2, <1>3 DEF push_wait, in_push, TypeOK
  <1>4. CASE push_closed(t, item)
    BY <1>1, <1>2, <1>4 DEF push_closed, in_push, TypeOK
  <1>5. CASE push_item(t, item)
    <2>1. /\ queue_' \in Seq(Items) /\ accepted' \in Seq(Items)
          /\ delivered' \in Seq(Items)
      BY <1>5 DEF push_item, TypeOK
    <2> QED
      BY <1>1, <1>2, <1>5, <2>1, ThreadsAssumption
      DEF push_item, notify_one, in_push, TypeOK
  <1> QED
    BY <1>3, <1>4, <1>5 DEF push

\* A pop keeps the shape, whichever way it goes.
LEMMA PopType ==
    ASSUME TypeOK, NEW t \in Consumers, pop(t)
    PROVE  TypeOK'
  <1>1. t \notin Producers
    BY ThreadsAssumption
  <1>2. CASE pop_wait(t)
    BY <1>1, <1>2 DEF pop_wait, in_pop, TypeOK
  <1>3. CASE pop_closed(t)
    BY <1>1, <1>3 DEF pop_closed, in_pop, TypeOK
  <1>4. CASE pop_item(t)
    <2>1. /\ queue_' \in Seq(Items) /\ accepted' \in Seq(Items)
          /\ delivered' \in Seq(Items)
      BY <1>4 DEF pop_item, TypeOK
    <2> QED
      BY <1>1, <1>4, <2>1, ThreadsAssumption
      DEF pop_item, notify_one, in_pop, TypeOK
  <1> QED
    BY <1>2, <1>3, <1>4 DEF pop

\* Every step keeps the shape of the state.
LEMMA NextType == TypeOK /\ [Next]_vars => TypeOK'
  <1> SUFFICES ASSUME TypeOK, [Next]_vars
               PROVE  TypeOK'
    OBVIOUS
  <1>1. CASE \E t \in Producers, item \in Items : push(t, item)
    BY <1>1, PushType
  <1>2. CASE \E t \in Consumers : pop(t)
    BY <1>2, PopType
  <1>3. CASE close_flag
    BY <1>3 DEF close_flag, TypeOK
  <1>4. CASE close_notify_not_empty
    BY <1>4, ThreadsAssumption DEF close_notify_not_empty, TypeOK
  <1>5. CASE close_notify_not_full
    BY <1>5, ThreadsAssumption DEF close_notify_not_full, TypeOK
  <1>6. CASE spurious_wakeup
    BY <1>6, ThreadsAssumption DEF spurious_wakeup, TypeOK
  <1>7. CASE UNCHANGED vars
    BY <1>7 DEF vars, TypeOK
  <1> QED
    BY <1>1, <1>2, <1>3, <1>4, <1>5, <1>6, <1>7 DEF Next, close

(***************************************************************************)
(* The state keeps its shape: a thread waits, is woken or runs, and a      *)
(* producer inside push has its item.                                      *)
(***************************************************************************)
THEOREM QueueTypeCorrect == Spec => []TypeOK
  BY InitType, NextType, PTL DEF Spec

-----------------------------------------------------------------------------
\* A push leaves no waiter behind without a wakeup on its way.
LEMMA PushWakeup ==
    ASSUME TypeOK, NoLostWakeup, NEW t \in Producers, NEW item \in Items,
           push(t, item)
    PROVE  NoLostWakeup'
  <1>1. CASE push_wait(t, item)
    <2>1. woken' \cap Consumers = woken \cap Consumers
      BY <1>1, ThreadsAssumption DEF push_wait
    <2>2. Cardinality(woken' \cap Producers) \in Nat
      <3>1. woken' \cap Producers = (woken \cap Producers) \ {t}
        BY <1>1 DEF push_wait
      <3> QED
        BY <3>1, WokenFinite, CardWithout, FS_CardinalityType
    <2>3. Capacity - Len(queue_) <= 0
      BY <1>1, WokenFinite, QueueCapacityAssumption DEF push_wait, has_room
    <2>4. Capacity - Len(queue_) <= Cardinality(woken' \cap Producers)
      BY <2>2, <2>3, WokenFinite, QueueCapacityAssumption
    <2> QED
      BY <1>1, <2>1, <2>4 DEF push_wait, NoLostWakeup
  <1>2. CASE push_closed(t, item)
    BY <1>2 DEF push_closed, NoLostWakeup
  <1>3. CASE push_item(t, item)
    <2>1. Len(queue_') = Len(queue_) + 1
      BY <1>3 DEF push_item, TypeOK
    <2>2. not_full_ # {} =>
            Capacity - Len(queue_') <= Cardinality(woken' \cap Producers)
      <3>1. woken' \cap Producers = (woken \cap Producers) \ {t}
        BY <1>3, ThreadsAssumption DEF push_item, notify_one, TypeOK
      <3>2. Cardinality(woken \cap Producers) - 1
              <= Cardinality(woken' \cap Producers)
        BY <3>1, WokenFinite, CardWithout
      <3>3. Cardinality(woken' \cap Producers) \in Nat
        BY <3>1, WokenFinite, CardWithout, FS_CardinalityType
      <3>4. not_full_ # {} =>
              Capacity - Len(queue_) <= Cardinality(woken \cap Producers)
        BY <1>3 DEF push_item, NoLostWakeup
      <3> QED
        BY <2>1, <3>2, <3>3, <3>4, WokenFinite, QueueCapacityAssumption
    <2>3. not_empty_' # {} =>
            Len(queue_') <= Cardinality(woken' \cap Consumers)
      <3> SUFFICES ASSUME not_empty_' # {}
                   PROVE  Len(queue_') <= Cardinality(woken' \cap Consumers)
        OBVIOUS
      <3>1. PICK u \in not_empty_ : woken' = (woken \ {t}) \union {u}
        BY <1>3 DEF push_item, notify_one
      <3>2. /\ u \notin woken \cap Consumers
            /\ woken' \cap Consumers = (woken \cap Consumers) \union {u}
        BY <3>1, ThreadsAssumption DEF TypeOK
      <3>3. Cardinality(woken' \cap Consumers)
              = Cardinality(woken \cap Consumers) + 1
        BY <3>2, WokenFinite, CardWith
      <3>4. Len(queue_) <= Cardinality(woken \cap Consumers)
        BY <1>3, <3>1 DEF push_item, NoLostWakeup
      <3> QED
        BY <2>1, <3>3, <3>4, WokenFinite
    <2> QED
      BY <1>3, <2>2, <2>3 DEF push_item, NoLostWakeup
  <1> QED
    BY <1>1, <1>2, <1>3 DEF push

\* A pop leaves no waiter behind without a wakeup on its way.
LEMMA PopWakeup ==
    ASSUME TypeOK, NoLostWakeup, NEW t \in Consumers, pop(t)
    PROVE  NoLostWakeup'
  <1>1. CASE pop_wait(t)
    <2>1. woken' \cap Producers = woken \cap Producers
      BY <1>1, ThreadsAssumption DEF pop_wait
    <2>2. Cardinality(woken' \cap Consumers) \in Nat
      <3>1. woken' \cap Consumers = (woken \cap Consumers) \ {t}
        BY <1>1 DEF pop_wait
      <3> QED
        BY <3>1, WokenFinite, CardWithout, FS_CardinalityType
    <2>3. Len(queue_') = 0
      BY <1>1 DEF pop_wait
    <2>4. Len(queue_') <= Cardinality(woken' \cap Consumers)
      BY <2>2, <2>3
    <2> QED
      BY <1>1, <2>1, <2>4 DEF pop_wait, NoLostWakeup
  <1>2. CASE pop_closed(t)
    BY <1>2 DEF pop_closed, NoLostWakeup
  <1>3. CASE pop_item(t)
    <2>1. Len(queue_') = Len(queue_) - 1
      BY <1>3 DEF pop_item, TypeOK
    <2>2. ~closed_ /\ not_empty_ # {} =>
            Len(queue_') <= Cardinality(woken' \cap Consumers)
      <3>1. woken' \cap Consumers = (woken \cap Consumers) \ {t}
        BY <1>3, ThreadsAssumption DEF pop_item, notify_one, TypeOK
      <3>2. Cardinality(woken \cap Consumers) - 1
              <= Cardinality(woken' \cap Consumers)
        BY <3>1, WokenFinite, CardWithout
      <3>3. Cardinality(woken' \cap Consumers) \in Nat
        BY <3>1, WokenFinite, CardWithout, FS_CardinalityType
      <3>4. ~closed_ /\ not_empty_ # {} =>
              Len(queue_) <= Cardinality(woken \cap Consumers)
        BY DEF NoLostWakeup
      <3> QED
        BY <2>1, <3>2, <3>3, <3>4, WokenFinite
    <2>3. ~closed_ /\ not_full_' # {} =>
            Capacity - Len(queue_') <= Cardinality(woken' \cap Producers)
      <3> SUFFICES ASSUME ~closed_, not_full_' # {}
                   PROVE  Capacity - Len(queue_')
                            <= Cardinality(woken' \cap Producers)
        OBVIOUS
      <3>1. PICK u \in not_full_ : woken' = (woken \ {t}) \union {u}
        BY <1>3 DEF pop_item, notify_one
      <3>2. /\ u \notin woken \cap Producers
            /\ woken' \cap Producers = (woken \cap Producers) \union {u}
        BY <3>1, ThreadsAssumption DEF TypeOK
      <3>3. Cardinality(woken' \cap Producers)
              = Cardinality(woken \cap Producers) + 1
        BY <3>2, WokenFinite, CardWith
      <3>4. Capacity - Len(queue_) <= Cardinality(woken \cap Producers)
        BY <3>1 DEF NoLostWakeup
      <3> QED
        BY <2>1, <3>3, <3>4, WokenFinite, QueueCapacityAssumption
    <2>4. not_full_' \subseteq not_full_
      BY <1>3 DEF pop_item, notify_one
    <2> QED
      BY <1>3, <2>2, <2>3, <2>4 DEF pop_item, NoLostWakeup
  <1> QED
    BY <1>1, <1>2, <1>3 DEF pop

\* A thread that wakes up without a notification only adds to the woken ones.
LEMMA SpuriousWakeup ==
    ASSUME TypeOK, NoLostWakeup, spurious_wakeup
    PROVE  NoLostWakeup'
  <1>1. /\ TypeOK' /\ woken \subseteq woken'
        /\ not_full_' \subseteq not_full_ /\ not_empty_' \subseteq not_empty_
        /\ UNCHANGED <<queue_, closed_, closing>>
    BY NextType DEF Next, spurious_wakeup
  <1>2. /\ IsFiniteSet(woken' \cap Producers)
        /\ IsFiniteSet(woken' \cap Consumers)
    BY ThreadsAssumption, FS_Subset
  <1>3. /\ Cardinality(woken \cap Producers) <= Cardinality(woken' \cap Producers)
        /\ Cardinality(woken' \cap Producers) \in Nat
    BY <1>1, <1>2, FS_Subset, FS_CardinalityType
  <1>4. /\ Cardinality(woken \cap Consumers) <= Cardinality(woken' \cap Consumers)
        /\ Cardinality(woken' \cap Consumers) \in Nat
    BY <1>1, <1>2, FS_Subset, FS_CardinalityType
  <1>5. ~closed_ /\ not_full_ # {} =>
          Capacity - Len(queue_) <= Cardinality(woken' \cap Producers)
    BY <1>3, WokenFinite, QueueCapacityAssumption DEF NoLostWakeup
  <1>6. ~closed_ /\ not_empty_ # {} =>
          Len(queue_) <= Cardinality(woken' \cap Consumers)
    BY <1>4, WokenFinite DEF NoLostWakeup
  <1> QED
    BY <1>1, <1>5, <1>6 DEF NoLostWakeup

\* Every step keeps the wakeups.
LEMMA NextWakeup == TypeOK /\ NoLostWakeup /\ [Next]_vars => NoLostWakeup'
  <1> SUFFICES ASSUME TypeOK, NoLostWakeup, [Next]_vars
               PROVE  NoLostWakeup'
    OBVIOUS
  <1>1. CASE \E t \in Producers, item \in Items : push(t, item)
    BY <1>1, PushWakeup
  <1>2. CASE \E t \in Consumers : pop(t)
    BY <1>2, PopWakeup
  <1>3. CASE close_flag
    BY <1>3 DEF close_flag, NoLostWakeup
  <1>4. CASE close_notify_not_empty
    BY <1>4 DEF close_notify_not_empty, NoLostWakeup, TypeOK
  <1>5. CASE close_notify_not_full
    BY <1>5 DEF close_notify_not_full, NoLostWakeup, TypeOK
  <1>6. CASE spurious_wakeup
    BY <1>6, SpuriousWakeup
  <1>7. CASE UNCHANGED vars
    BY <1>7 DEF vars, NoLostWakeup
  <1> QED
    BY <1>1, <1>2, <1>3, <1>4, <1>5, <1>6, <1>7 DEF Next, close

(***************************************************************************)
(* No wakeup of push, pop or close is ever lost, for any number of threads *)
(* and any capacity.                                                       *)
(***************************************************************************)
THEOREM WakeupsKept == Spec => []NoLostWakeup
  <1>1. Init => NoLostWakeup
    BY DEF Init, NoLostWakeup
  <1> QED
    BY <1>1, InitType, NextType, NextWakeup, PTL DEF Spec

-----------------------------------------------------------------------------
(***************************************************************************)
(* What is in the queue is what was accepted and not delivered, in order.  *)
(* Stated item by item, so that no sequence has to be taken apart.         *)
(***************************************************************************)
Contents ==
    /\ Len(queue_) <= Capacity
    /\ Len(accepted) = Len(delivered) + Len(queue_)
    /\ \A k \in 1 .. Len(delivered) : delivered[k] = accepted[k]
    /\ \A k \in 1 .. Len(queue_) : queue_[k] = accepted[Len(delivered) + k]

\* The histories and the queue are sequences of items.
LEMMA LengthsNat ==
    ASSUME TypeOK
    PROVE  /\ Len(queue_) \in Nat /\ Len(accepted) \in Nat /\ Len(delivered) \in Nat
           /\ Capacity \in Nat
  BY QueueCapacityAssumption DEF TypeOK

\* An accepted item goes to the end of the queue.
LEMMA PushContents ==
    ASSUME TypeOK, Contents, NEW t \in Producers, NEW item \in Items,
           push_item(t, item)
    PROVE  Contents'
  <1>1. /\ queue_' = Append(queue_, item)
        /\ accepted' = Append(accepted, item)
        /\ delivered' = delivered
        /\ Len(queue_) < Capacity
    BY DEF push_item, has_room
  <1>2. /\ Len(queue_') = Len(queue_) + 1
        /\ Len(accepted') = Len(accepted) + 1
        /\ queue_'[Len(queue_) + 1] = item
        /\ accepted'[Len(accepted) + 1] = item
        /\ \A k \in 1 .. Len(queue_) : queue_'[k] = queue_[k]
        /\ \A k \in 1 .. Len(accepted) : accepted'[k] = accepted[k]
    BY <1>1 DEF TypeOK
  <1>3. Len(queue_') <= Capacity /\ Len(accepted') = Len(delivered') + Len(queue_')
    BY <1>1, <1>2, LengthsNat DEF Contents
  <1>4. \A k \in 1 .. Len(delivered') : delivered'[k] = accepted'[k]
    BY <1>1, <1>2, LengthsNat DEF Contents
  <1>5. ASSUME NEW k \in 1 .. Len(queue_')
        PROVE  queue_'[k] = accepted'[Len(delivered') + k]
    <2>1. CASE k \in 1 .. Len(queue_)
      <3>1. Len(delivered) + k \in 1 .. Len(accepted)
        BY <2>1, LengthsNat DEF Contents
      <3> QED
        BY <1>1, <1>2, <2>1, <3>1 DEF Contents
    <2>2. CASE k = Len(queue_) + 1
      <3>1. Len(delivered) + k = Len(accepted) + 1
        BY <2>2, LengthsNat DEF Contents
      <3> QED
        BY <1>1, <1>2, <2>2, <3>1
    <2> QED
      BY <1>2, <2>1, <2>2, LengthsNat
  <1> QED
    BY <1>3, <1>4, <1>5 DEF Contents

\* The delivered item is the oldest of the queue.
LEMMA PopContents ==
    ASSUME TypeOK, Contents, NEW t \in Consumers, pop_item(t)
    PROVE  /\ Contents'
           /\ Len(delivered) < Len(accepted)
           /\ delivered' = Append(delivered, accepted[Len(delivered) + 1])
           /\ UNCHANGED accepted
  <1>1. /\ queue_' = Tail(queue_) /\ queue_ # <<>>
        /\ delivered' = Append(delivered, Head(queue_))
        /\ accepted' = accepted
    BY DEF pop_item
  <1>2. /\ Len(queue_) > 0 /\ Len(queue_') = Len(queue_) - 1
        /\ Head(queue_) = queue_[1]
        /\ \A k \in 1 .. Len(queue_) - 1 : queue_'[k] = queue_[k + 1]
        /\ Head(queue_) \in Items
    BY <1>1 DEF TypeOK
  <1>3. /\ Len(delivered') = Len(delivered) + 1
        /\ delivered'[Len(delivered) + 1] = Head(queue_)
        /\ \A k \in 1 .. Len(delivered) : delivered'[k] = delivered[k]
    BY <1>1, <1>2 DEF TypeOK
  <1>4. Head(queue_) = accepted[Len(delivered) + 1]
    BY <1>2, LengthsNat DEF Contents
  <1>5. Len(queue_') <= Capacity /\ Len(accepted') = Len(delivered') + Len(queue_')
    BY <1>1, <1>2, <1>3, LengthsNat DEF Contents
  <1>6. ASSUME NEW k \in 1 .. Len(delivered')
        PROVE  delivered'[k] = accepted'[k]
    <2>1. k \in 1 .. Len(delivered) \/ k = Len(delivered) + 1
      BY <1>3, LengthsNat
    <2> QED
      BY <1>1, <1>3, <1>4, <2>1 DEF Contents
  <1>7. ASSUME NEW k \in 1 .. Len(queue_')
        PROVE  queue_'[k] = accepted'[Len(delivered') + k]
    <2>1. k \in 1 .. Len(queue_) - 1 /\ k + 1 \in 1 .. Len(queue_)
      BY <1>2, LengthsNat
    <2>2. queue_[k + 1] = accepted[Len(delivered) + (k + 1)]
      BY <2>1 DEF Contents
    <2>3. Len(delivered') + k = Len(delivered) + (k + 1)
      BY <1>3, <2>1, LengthsNat
    <2> QED
      BY <1>1, <1>2, <2>1, <2>2, <2>3
  <1>8. Contents'
    BY <1>5, <1>6, <1>7 DEF Contents
  <1> QED
    BY <1>1, <1>2, <1>4, <1>8, LengthsNat DEF Contents

\* Only an accepted push and a delivering pop touch the items.
LEMMA ItemSteps ==
    ASSUME [Next]_vars
    PROVE  \/ \E t \in Producers, item \in Items : push_item(t, item)
           \/ \E t \in Consumers : pop_item(t)
           \/ UNCHANGED <<queue_, accepted, delivered>>
  BY DEF Next, push, pop, close, push_wait, push_closed, pop_wait, pop_closed,
         close_flag, close_notify_not_empty, close_notify_not_full,
         spurious_wakeup, vars

\* Every step keeps the contents.
LEMMA NextContents == TypeOK /\ Contents /\ [Next]_vars => Contents'
  <1> SUFFICES ASSUME TypeOK, Contents, [Next]_vars
               PROVE  Contents'
    OBVIOUS
  <1>1. CASE UNCHANGED <<queue_, accepted, delivered>>
    BY <1>1 DEF Contents
  <1> QED
    BY <1>1, ItemSteps, PushContents, PopContents

\* The queue starts empty.
LEMMA InitContents == Init => Contents
  BY QueueCapacityAssumption DEF Init, Contents

\* Once a consumer was told to stop, nothing comes in and nothing is left.
LEMMA NextDrained ==
    TypeOK /\ Contents /\ DrainedBeforeStop /\ [Next]_vars => DrainedBeforeStop'
  <1> SUFFICES ASSUME TypeOK, Contents, DrainedBeforeStop, [Next]_vars,
                      finished' # {}
               PROVE  closed_' /\ delivered' = accepted'
    BY DEF DrainedBeforeStop
  <1>1. CASE \E t \in Consumers : pop_closed(t)
    <2>1. closed_' /\ queue_ = <<>> /\ UNCHANGED <<accepted, delivered>>
      BY <1>1 DEF pop_closed
    <2>2. Len(accepted) = Len(delivered)
      BY <2>1, LengthsNat DEF Contents
    <2>3. delivered = accepted
      BY <2>2 DEF Contents, TypeOK
    <2> QED
      BY <2>1, <2>3
  <1>2. CASE UNCHANGED finished
    <2>1. closed_ /\ delivered = accepted
      BY <1>2 DEF DrainedBeforeStop
    <2>2. closed_'
      BY <2>1 DEF Next, push, pop, close, push_wait, push_closed, push_item,
                  pop_wait, pop_closed, pop_item, close_flag,
                  close_notify_not_empty, close_notify_not_full,
                  spurious_wakeup, vars
    <2>3. ~ \E t \in Producers, item \in Items : push_item(t, item)
      BY <2>1 DEF push_item
    <2>4. ~ \E t \in Consumers : pop_item(t)
      BY <2>1, PopContents, LengthsNat
    <2> QED
      BY <2>1, <2>2, <2>3, <2>4, ItemSteps
  <1> QED
    BY <1>1, <1>2
    DEF Next, push, pop, close, push_wait, push_closed, push_item, pop_wait,
        pop_item, close_flag, close_notify_not_empty, close_notify_not_full,
        spurious_wakeup, vars

(***************************************************************************)
(* pop returns false only after close, and only once every accepted item   *)
(* has been delivered to some consumer.                                    *)
(***************************************************************************)
THEOREM DrainedAtStop == Spec => []DrainedBeforeStop
  <1>1. Init => DrainedBeforeStop
    BY DEF Init, DrainedBeforeStop
  <1> QED
    BY <1>1, InitType, NextType, InitContents, NextContents, NextDrained, PTL
    DEF Spec

\* An accepted push is an Enqueue, a delivering pop a Dequeue, and every other
\* step is invisible.
LEMMA QueueStepRefines ==
    TypeOK /\ Contents /\ [Next]_vars => [Fifo!Next]_(Fifo!fifoVars)
  <1> SUFFICES ASSUME TypeOK, Contents, [Next]_vars
               PROVE  [Fifo!Next]_(Fifo!fifoVars)
    OBVIOUS
  <1>1. ASSUME NEW t \in Producers, NEW item \in Items, push_item(t, item)
        PROVE  Fifo!Next
    <2>1. Len(accepted) - Len(delivered) < Capacity
      BY <1>1, LengthsNat DEF push_item, has_room, Contents
    <2> QED
      BY <1>1, <2>1 DEF push_item, Fifo!Next, Fifo!Enqueue
  <1>2. ASSUME NEW t \in Consumers, pop_item(t)
        PROVE  Fifo!Next
    BY <1>2, PopContents DEF Fifo!Next, Fifo!Dequeue
  <1>3. CASE UNCHANGED <<queue_, accepted, delivered>>
    BY <1>3 DEF Fifo!fifoVars
  <1> QED
    BY <1>1, <1>2, <1>3, ItemSteps

(***************************************************************************)
(* The mutex queue implements the bounded first-in first-out queue for any *)
(* number of threads: nothing is lost, duplicated, reordered or accepted   *)
(* beyond the capacity.                                                    *)
(***************************************************************************)
THEOREM QueueFifoCorrect == Spec => ImplementsFifo
  <1>1. Init => Fifo!Init
    BY DEF Init, Fifo!Init
  <1> QED
    BY <1>1, InitType, NextType, InitContents, NextContents, QueueStepRefines, PTL
    DEF Spec, ImplementsFifo, Fifo!Spec

-----------------------------------------------------------------------------
(***************************************************************************)
(* A queue of capacity 0, which the constructor accepts, serves nobody:    *)
(* until close is called no item goes in or out, no push returns and no    *)
(* pop returns.  So a producer that closes the queue after its last push,  *)
(* as the benchmark's does, never gets there.                              *)
(***************************************************************************)
OnlyCloseReleases ==
    [][Capacity = 0 /\ ~closed_
         => /\ UNCHANGED <<accepted, delivered, finished>>
            /\ \A t \in Producers : pending[t] # NoItem => pending'[t] = pending[t]]_vars

\* Without room there is no accepted push and nothing to pop.
LEMMA NothingServed ==
    ASSUME TypeOK, Contents, [Next]_vars, Capacity = 0, ~closed_
    PROVE  /\ UNCHANGED <<accepted, delivered, finished>>
           /\ \A t \in Producers : pending[t] # NoItem => pending'[t] = pending[t]
  <1>1. queue_ = <<>> /\ ~has_room
    BY LengthsNat DEF Contents, TypeOK, has_room
  <1>2. CASE UNCHANGED <<accepted, delivered, finished, pending>>
    BY <1>2
  <1>3. ASSUME NEW u \in Producers, NEW item \in Items, push(u, item)
        PROVE  /\ UNCHANGED <<accepted, delivered, finished>>
               /\ \A t \in Producers : pending[t] # NoItem => pending'[t] = pending[t]
    <2>1. push_wait(u, item)
      BY <1>1, <1>3 DEF push, push_closed, push_item
    <2>2. pending' = [pending EXCEPT ![u] = item]
      BY <2>1 DEF push_wait
    <2>3. pending[u] # NoItem => pending[u] = item
      BY <2>1 DEF push_wait, in_push
    <2> QED
      BY <2>1, <2>2, <2>3 DEF push_wait, TypeOK
  <1>4. (\E u \in Producers, item \in Items : push(u, item))
          \/ UNCHANGED <<accepted, delivered, finished, pending>>
    BY <1>1 DEF Next, pop, close, pop_wait, pop_closed, pop_item, close_flag,
                close_notify_not_empty, close_notify_not_full,
                spurious_wakeup, vars
  <1> QED
    BY <1>2, <1>3, <1>4

(***************************************************************************)
(* With capacity 0 nothing but close lets a call of push or pop return.    *)
(***************************************************************************)
THEOREM ZeroCapacityBlocks == Spec => OnlyCloseReleases
  <1>1. TypeOK /\ Contents /\ [Next]_vars
          => [Capacity = 0 /\ ~closed_
                => /\ UNCHANGED <<accepted, delivered, finished>>
                   /\ \A t \in Producers :
                        pending[t] # NoItem => pending'[t] = pending[t]]_vars
    BY NothingServed
  <1> QED
    BY <1>1, InitType, NextType, InitContents, NextContents, PTL
    DEF Spec, OnlyCloseReleases

=============================================================================
