------------------------ MODULE SpscRingBufferProofs ------------------------
(***************************************************************************)
(* Proofs about the SPSC ring, for every capacity, every set of items and  *)
(* every number of pushes.                                                 *)
(***************************************************************************)
EXTENDS SpscRingBuffer, TLAPS

Inv == TypeOK /\ RingInv

-----------------------------------------------------------------------------
\* Every store of an index is an index and a count.
LEMMA StoreType ==
    ASSUME TypeOK
    PROVE  /\ \A i \in 1 .. Len(head_) :
                head_[i].value \in 0 .. Capacity /\ head_[i].view \in Nat
           /\ \A i \in 1 .. Len(tail_) :
                tail_[i].value \in 0 .. Capacity /\ tail_[i].view \in Nat
  <1>1. \A i \in 1 .. Len(head_) : head_[i] \in Store
    BY DEF TypeOK
  <1>2. \A i \in 1 .. Len(tail_) : tail_[i] \in Store
    BY DEF TypeOK
  <1> QED
    BY <1>1, <1>2 DEF Store

\* Two stores of head_ less than a lap apart have different values.
LEMMA DistinctSlots ==
    ASSUME TypeOK, IndexInv,
           NEW i \in 1 .. Len(head_), NEW j \in 1 .. Len(head_),
           i < j, j <= i + Capacity
    PROVE  head_[i].value # head_[j].value
  <1>1. head_[j].value = Wrap(head_[i].value + (j - i))
    BY DEF IndexInv
  <1>2. head_[i].value \in 0 .. Capacity
    BY StoreType
  <1> QED
    BY <1>1, <1>2, CapacityAssumption DEF Wrap, capacity_

\* increment stays among the slots.
LEMMA IncrementType ==
    ASSUME NEW v \in 0 .. Capacity
    PROVE  increment(v) \in 0 .. Capacity
  BY CapacityAssumption DEF increment, capacity_

\* One slot further from v is one increment of the index.
LEMMA WrapStep ==
    ASSUME NEW v \in 0 .. Capacity, NEW d \in Nat, d + 1 <= Capacity
    PROVE  increment(Wrap(v + d)) = Wrap(v + (d + 1))
  BY CapacityAssumption DEF increment, Wrap, capacity_

\* A full lap comes back to the slot it started from.
LEMMA WrapLap ==
    ASSUME NEW v \in 0 .. Capacity
    PROVE  increment(Wrap(v + Capacity)) = v
  <1>1. CASE v = 0
    BY <1>1, CapacityAssumption DEF increment, Wrap, capacity_
  <1>2. CASE v > 0
    <2>1. Wrap(v + Capacity) = v - 1
      BY <1>2, CapacityAssumption DEF Wrap, capacity_
    <2> QED
      BY <1>2, <2>1, CapacityAssumption DEF increment, capacity_
  <1> QED
    BY <1>1, <1>2, CapacityAssumption

\* The values that head and tail abbreviate.
LEMMA CurrentType ==
    ASSUME TypeOK
    PROVE  /\ Len(head_) \in Nat \ {0} /\ Len(head_) \in 1 .. Len(head_)
           /\ Len(tail_) \in Nat \ {0} /\ Len(tail_) \in 1 .. Len(tail_)
           /\ head \in 0 .. Capacity
           /\ tail \in 0 .. Capacity
  <1>1. /\ Len(head_) \in Nat \ {0} /\ Len(head_) \in 1 .. Len(head_)
        /\ Len(tail_) \in Nat \ {0} /\ Len(tail_) \in 1 .. Len(tail_)
    BY DEF TypeOK
  <1> QED
    BY <1>1, StoreType DEF head, tail

\* The initial states satisfy the invariant.
LEMMA InitInv == Init => Inv
  <1> SUFFICES ASSUME Init PROVE Inv
    OBVIOUS
  <1>1. PICK blank \in Items :
          /\ buffer_ = [i \in 0 .. Capacity |->
                          [item |-> blank, write |-> 0, read |-> 0]]
          /\ p = [pc |-> "idle", item |-> blank, seen |-> 1, synced |-> 0]
          /\ c = [pc |-> "idle", item |-> blank, seen |-> 1, synced |-> 0]
    BY DEF Init
  <1>2. TypeOK
    BY <1>1, CapacityAssumption DEF Init, TypeOK
  <1>3. IndexInv
    BY CapacityAssumption DEF Init, IndexInv, Wrap, capacity_
  <1>4. ThreadInv
    BY <1>1, CapacityAssumption DEF Init, ThreadInv
  <1>5. SlotInv
    BY <1>1, CapacityAssumption DEF Init, SlotInv
  <1> QED
    BY <1>2, <1>3, <1>4, <1>5 DEF Inv, RingInv

-----------------------------------------------------------------------------
\* push gives up or goes on to write: no slot and no index changes.
LEMMA PushLoadInv ==
    ASSUME Inv, NEW item \in Items, push_load(item)
    PROVE  Inv'
  <1> USE DEF Inv, RingInv
  <1>1. PICK s \in p.seen .. Len(tail_) :
          LET synced == Learned(push_tail_load, p.synced, tail_[s].view)
          IN  p' = IF is_full(tail_[s].value)
                   THEN [p EXCEPT !.seen = s, !.synced = synced]
                   ELSE [pc |-> "write", item |-> item, seen |-> s,
                         synced |-> synced]
    BY DEF push_load
  <1>2. p.pc = "idle" /\ UNCHANGED <<head_, tail_, buffer_, c, accepted, delivered>>
    BY DEF push_load
  <1>3. /\ s \in 1 .. Len(tail_) /\ s \in Nat /\ s - 1 \in Nat
        /\ p.seen <= s /\ p.seen \in Nat
    BY CurrentType DEF TypeOK
  <1>4. Learned(push_tail_load, p.synced, tail_[s].view) = s - 1
    BY <1>3 DEF Learned, push_tail_load, IndexInv, ThreadInv
  <1>5. /\ p' \in Producer /\ p'.seen = s /\ p'.synced = s - 1
        /\ p'.pc = IF is_full(tail_[s].value) THEN "idle" ELSE "write"
    <2>1. CASE is_full(tail_[s].value)
      <3>1. p' = [p EXCEPT !.seen = s, !.synced = s - 1]
        BY <1>1, <1>4, <2>1
      <3> QED
        BY <1>2, <1>3, <2>1, <3>1 DEF TypeOK, Producer
    <2>2. CASE ~is_full(tail_[s].value)
      <3>1. p' = [pc |-> "write", item |-> item, seen |-> s, synced |-> s - 1]
        BY <1>1, <1>4, <2>2
      <3> QED
        BY <1>3, <2>2, <3>1 DEF Producer
    <2> QED
      BY <2>1, <2>2
  <1>6. ~is_full(tail_[s].value) => Len(head_) - s < Capacity
    <2> SUFFICES ASSUME ~(Len(head_) - s < Capacity)
                 PROVE  is_full(tail_[s].value)
      OBVIOUS
    <2>1. Len(head_) - s = Capacity
      BY <1>3, CurrentType, CapacityAssumption DEF ThreadInv
    <2>2. s \in 1 .. Len(head_) /\ tail_[s].value = head_[s].value
      BY <1>3, CurrentType DEF IndexInv
    <2>3. head = Wrap(head_[s].value + Capacity)
      BY <2>1, <2>2, CurrentType, CapacityAssumption DEF IndexInv, head
    <2>4. head_[s].value \in 0 .. Capacity
      BY <2>2, StoreType
    <2> QED
      BY <2>2, <2>3, <2>4, WrapLap DEF is_full
  <1>7. TypeOK'
    BY <1>2, <1>3, <1>5 DEF TypeOK
  <1>8. IndexInv'
    BY <1>2 DEF IndexInv, Wrap
  <1>9. ThreadInv'
    BY <1>2, <1>3, <1>5, <1>6, CurrentType, CapacityAssumption
    DEF ThreadInv, TypeOK
  <1>10. SlotInv'
    BY <1>2, <1>5 DEF SlotInv, head
  <1> QED
    BY <1>7, <1>8, <1>9, <1>10

\* push writes the slot at head, which no pending item occupies.
LEMMA PushWriteInv ==
    ASSUME Inv, push_write
    PROVE  Inv'
  <1> USE DEF Inv, RingInv
  <1> DEFINE H == Len(head_)
  <1>1. /\ p.pc = "write"
        /\ p' = [p EXCEPT !.pc = "publish"]
        /\ UNCHANGED <<head_, tail_, c, accepted, delivered>>
    BY DEF push_write
  <1>2. buffer_' = [buffer_ EXCEPT ![head] =
                      [item |-> p.item, write |-> H, read |-> buffer_[head].read]]
    BY DEF push_write
  <1>3. /\ buffer_' \in [0 .. Capacity -> Slot]
        /\ buffer_'[head].item = p.item
        /\ buffer_'[head].write = H
        /\ \A i \in 0 .. Capacity : buffer_'[i].read = buffer_[i].read
        /\ \A i \in 0 .. Capacity : i # head => buffer_'[i] = buffer_[i]
    BY <1>2, CurrentType DEF TypeOK, Slot, Producer
  <1>4. p' \in Producer /\ p'.pc = "publish" /\ p'.item = p.item
        /\ p'.seen = p.seen /\ p'.synced = p.synced
    BY <1>1 DEF TypeOK, Producer
  <1>5. TypeOK'
    BY <1>1, <1>3, <1>4 DEF TypeOK
  <1>6. IndexInv' /\ ThreadInv'
    BY <1>1, <1>4 DEF IndexInv, ThreadInv, Wrap
  <1>7. ASSUME NEW k \in Len(tail_) .. (H - 1)
        PROVE  /\ head_[k].value \in 0 .. Capacity
               /\ head_[k].value # head
    <2>1. /\ H - p.seen < Capacity /\ p.seen \in 1 .. Len(tail_)
          /\ H \in Nat \ {0} /\ Len(tail_) \in Nat \ {0} /\ Capacity \in Nat
      <3>1. H - p.seen < Capacity
        BY <1>1 DEF ThreadInv
      <3>2. p.seen \in 1 .. Len(tail_)
        BY DEF TypeOK
      <3> QED
        BY <3>1, <3>2, CurrentType, CapacityAssumption
    <2>2. k \in 1 .. H /\ H \in 1 .. H /\ k < H /\ H <= k + Capacity
      <3> HIDE DEF Inv, RingInv, H
      <3> QED
        BY <2>1
    <2> QED
      BY <2>2, DistinctSlots, StoreType DEF head
  <1>8. head' = head
    BY <1>1 DEF head
  <1>9. SlotInv'
    BY <1>1, <1>3, <1>4, <1>7, <1>8, CurrentType DEF SlotInv
  <1> QED
    BY <1>5, <1>6, <1>9

\* push stores the next head: one more item lies between the indexes.
LEMMA PushPublishInv ==
    ASSUME Inv, push_publish
    PROVE  Inv'
  <1> USE DEF Inv, RingInv
  <1> DEFINE H == Len(head_)
             new == [value |-> increment(head), view |-> H]
  <1>1. /\ p.pc = "publish"
        /\ head_' = Append(head_, new)
        /\ accepted' = Append(accepted, p.item)
        /\ p' = [p EXCEPT !.pc = "idle"]
        /\ UNCHANGED <<tail_, buffer_, c, delivered>>
    BY DEF push_publish, Published, push_head_store
  <1>2. new \in Store
    BY IncrementType, CurrentType DEF Store
  <1>3. p' \in Producer /\ p'.pc = "idle" /\ p'.seen = p.seen
        /\ p'.synced = p.synced /\ p.item \in Items
    BY <1>1 DEF TypeOK, Producer
  <1>4. /\ head_' \in Seq(Store)
        /\ Len(head_') = H + 1
        /\ head_'[H + 1] = new
        /\ \A k \in 1 .. H : head_'[k] = head_[k]
    <2> HIDE DEF new
    <2> QED
      BY <1>1, <1>2 DEF TypeOK
  <1>5. /\ accepted' \in Seq(Items)
        /\ Len(accepted') = H
        /\ accepted'[H] = p.item
        /\ \A k \in 1 .. H - 1 : accepted'[k] = accepted[k]
    BY <1>1, <1>3, CurrentType DEF TypeOK, IndexInv
  <1>6. TypeOK'
    BY <1>1, <1>3, <1>4, <1>5, CurrentType DEF TypeOK
  <1>7. IndexInv'
    <2>1. ASSUME NEW i \in 1 .. H, H + 1 <= i + Capacity
          PROVE  increment(head) = Wrap(head_[i].value + (H + 1 - i))
      <3>1. head = Wrap(head_[i].value + (H - i))
        BY <2>1, CurrentType, CapacityAssumption DEF IndexInv, head
      <3>2. head_[i].value \in 0 .. Capacity
        BY StoreType
      <3>3. H - i \in Nat /\ (H - i) + 1 <= Capacity /\ H + 1 - i = (H - i) + 1
        BY <2>1, CurrentType, CapacityAssumption
      <3> QED
        BY <3>1, <3>2, <3>3, WrapStep
    <2>2. \A i, j \in 1 .. H + 1 :
            i <= j /\ j <= i + Capacity
              => head_'[j].value = Wrap(head_'[i].value + (j - i))
      <3> SUFFICES ASSUME NEW i \in 1 .. H + 1, NEW j \in 1 .. H + 1,
                          i <= j, j <= i + Capacity
                   PROVE  head_'[j].value = Wrap(head_'[i].value + (j - i))
        OBVIOUS
      <3>1. CASE i \in 1 .. H /\ j \in 1 .. H
        BY <1>4, <3>1 DEF IndexInv
      <3>2. CASE i \in 1 .. H /\ j = H + 1
        BY <1>4, <2>1, <3>2, CurrentType
      <3>3. CASE i = H + 1 /\ j = H + 1
        BY <1>2, <1>4, <3>3, CurrentType, CapacityAssumption
        DEF Wrap, capacity_, Store
      <3> QED
        BY <3>1, <3>2, <3>3, CurrentType
    <2>3. \A k \in 1 .. H + 1 : head_'[k].view = k - 1
      <3>1. \A k \in 1 .. H : head_'[k].view = k - 1
        BY <1>4 DEF IndexInv
      <3>2. head_'[H + 1].view = (H + 1) - 1
        BY <1>4, CurrentType
      <3>3. \A k \in 1 .. H + 1 : k \in 1 .. H \/ k = H + 1
        BY CurrentType
      <3> QED
        BY <3>1, <3>2, <3>3
    <2>4. Len(accepted') = Len(head_') - 1 /\ Len(delivered') = Len(tail_') - 1
      BY <1>1, <1>4, <1>5, CurrentType DEF IndexInv
    <2>5. /\ Len(tail_) <= H + 1 /\ \A k \in 1 .. Len(tail_) : k \in 1 .. H
      BY CurrentType DEF IndexInv
    <2>6. \A k \in 1 .. Len(tail_) :
            tail_[k].value = head_'[k].value /\ tail_[k].view = k - 1
      BY <1>4, <2>5 DEF IndexInv
    <2>7. \A i, j \in 1 .. Len(head_') :
            i <= j /\ j <= i + Capacity
              => head_'[j].value = Wrap(head_'[i].value + (j - i))
      BY <1>4, <2>2
    <2> QED
      BY <1>1, <1>4, <2>3, <2>4, <2>5, <2>6, <2>7 DEF IndexInv, Wrap
  <1>8. ThreadInv'
    BY <1>1, <1>3, <1>4, CurrentType, CapacityAssumption DEF ThreadInv, TypeOK
  <1>9. SlotInv'
    <2>1. \A k \in Len(tail_) .. H :
            /\ buffer_[head_'[k].value].item = accepted'[k]
            /\ buffer_[head_'[k].value].write = k
      <3> SUFFICES ASSUME NEW k \in Len(tail_) .. H
                   PROVE  /\ buffer_[head_'[k].value].item = accepted'[k]
                          /\ buffer_[head_'[k].value].write = k
        OBVIOUS
      <3>1. CASE k < H
        <4>1. k \in Len(tail_) .. H - 1 /\ k \in 1 .. H /\ k \in 1 .. H - 1
          BY <3>1, CurrentType
        <4>2. head_'[k] = head_[k] /\ accepted'[k] = accepted[k]
          BY <1>4, <1>5, <4>1
        <4> QED
          BY <4>1, <4>2 DEF SlotInv
      <3>2. CASE k = H
        BY <1>1, <1>4, <1>5, <3>2, CurrentType DEF SlotInv, head
      <3> QED
        BY <3>1, <3>2, CurrentType
    <2>2. \A i \in 0 .. Capacity : buffer_[i].read # 0 =>
             /\ buffer_[i].read <= Len(tail_)
             /\ head_'[buffer_[i].read].value = i
             /\ buffer_[i].read = Len(tail_) => c.pc = "release"
      <3> SUFFICES ASSUME NEW i \in 0 .. Capacity, buffer_[i].read # 0
                   PROVE  /\ buffer_[i].read <= Len(tail_)
                          /\ head_'[buffer_[i].read].value = i
                          /\ buffer_[i].read = Len(tail_) => c.pc = "release"
        OBVIOUS
      <3>1. /\ buffer_[i].read <= Len(tail_)
            /\ head_[buffer_[i].read].value = i
            /\ buffer_[i].read = Len(tail_) => c.pc = "release"
        BY DEF SlotInv
      <3>2. buffer_[i].read \in Nat
        BY DEF TypeOK, Slot
      <3>3. buffer_[i].read \in 1 .. H
        BY <3>1, <3>2, CurrentType DEF IndexInv
      <3> QED
        BY <1>4, <3>1, <3>3
    <2>3. c.pc = "release" => c.item = accepted'[Len(tail_)]
      BY <1>5, CurrentType DEF SlotInv, ThreadInv, TypeOK
    <2>4. \A k \in 1 .. Len(delivered) : delivered[k] = accepted'[k]
      BY <1>5, CurrentType DEF SlotInv, IndexInv
    <2>5. Len(head_') - 1 = H
      BY <1>4, CurrentType
    <2> QED
      BY <1>1, <1>3, <2>1, <2>2, <2>3, <2>4, <2>5 DEF SlotInv
  <1> QED
    BY <1>6, <1>7, <1>8, <1>9

\* pop gives up or goes on to read: no slot and no index changes.
LEMMA PopLoadInv ==
    ASSUME Inv, pop_load
    PROVE  Inv'
  <1> USE DEF Inv, RingInv
  <1>1. PICK s \in c.seen .. Len(head_) :
          c' = [c EXCEPT
                  !.pc = IF is_empty(s) THEN "idle" ELSE "read",
                  !.seen = s,
                  !.synced = Learned(pop_head_load, c.synced, head_[s].view)]
    BY DEF pop_load
  <1>2. c.pc = "idle" /\ UNCHANGED <<head_, tail_, buffer_, p, accepted, delivered>>
    BY DEF pop_load
  <1>3. /\ s \in 1 .. Len(head_) /\ s \in Nat /\ s - 1 \in Nat
        /\ c.seen <= s /\ c.seen \in Nat
    BY CurrentType DEF TypeOK
  <1>4. Learned(pop_head_load, c.synced, head_[s].view) = s - 1
    BY <1>3 DEF Learned, pop_head_load, IndexInv, ThreadInv
  <1>5. /\ c' \in Consumer /\ c'.seen = s /\ c'.synced = s - 1
        /\ c'.pc = IF is_empty(s) THEN "idle" ELSE "read"
    BY <1>1, <1>3, <1>4 DEF TypeOK, Consumer
  <1>6. ~is_empty(s) => Len(tail_) < s
    BY <1>3, CurrentType DEF IndexInv, ThreadInv, tail, is_empty
  <1>7. TypeOK'
    BY <1>2, <1>3, <1>5 DEF TypeOK
  <1>8. IndexInv'
    BY <1>2 DEF IndexInv, Wrap
  <1>9. ThreadInv'
    BY <1>2, <1>3, <1>5, <1>6, CurrentType DEF ThreadInv
  <1>10. SlotInv'
    BY <1>2, <1>5 DEF SlotInv, head
  <1> QED
    BY <1>7, <1>8, <1>9, <1>10

\* empty only moves what the consumer knows of head_.
LEMMA EmptyInv ==
    ASSUME Inv, empty
    PROVE  Inv'
  <1> USE DEF Inv, RingInv
  <1>1. PICK s \in c.seen .. Len(head_) :
          c' = [c EXCEPT
                  !.seen = s,
                  !.synced = Learned(pop_head_load, c.synced, head_[s].view)]
    BY DEF empty
  <1>2. c.pc = "idle" /\ UNCHANGED <<head_, tail_, buffer_, p, accepted, delivered>>
    BY DEF empty
  <1>3. /\ s \in 1 .. Len(head_) /\ s \in Nat /\ s - 1 \in Nat
        /\ c.seen <= s /\ c.seen \in Nat
    BY CurrentType DEF TypeOK
  <1>4. Learned(pop_head_load, c.synced, head_[s].view) = s - 1
    BY <1>3 DEF Learned, pop_head_load, IndexInv, ThreadInv
  <1>5. c' \in Consumer /\ c'.seen = s /\ c'.synced = s - 1 /\ c'.pc = "idle"
    BY <1>1, <1>2, <1>3, <1>4 DEF TypeOK, Consumer
  <1>6. TypeOK'
    BY <1>2, <1>3, <1>5 DEF TypeOK
  <1>7. IndexInv'
    BY <1>2 DEF IndexInv, Wrap
  <1>8. ThreadInv'
    BY <1>2, <1>3, <1>5, CurrentType DEF ThreadInv
  <1>9. SlotInv'
    BY <1>2, <1>5 DEF SlotInv, head
  <1> QED
    BY <1>6, <1>7, <1>8, <1>9

\* A slot that pop is about to read was written before, and holds the next
\* item to deliver.
LEMMA NextSlot ==
    ASSUME Inv, c.pc # "idle"
    PROVE  /\ Len(tail_) \in Len(tail_) .. (Len(head_) - 1)
           /\ tail = head_[Len(tail_)].value
           /\ buffer_[tail].item = accepted[Len(tail_)]
           /\ buffer_[tail].write = Len(tail_)
           /\ buffer_[tail].write <= c.synced
  <1> USE DEF Inv, RingInv
  <1>1. Len(tail_) < c.seen /\ c.seen <= Len(head_) /\ c.seen \in Nat
    BY CurrentType DEF ThreadInv, TypeOK
  <1>2. Len(tail_) \in Len(tail_) .. (Len(head_) - 1)
    BY <1>1, CurrentType
  <1>3. tail = head_[Len(tail_)].value
    BY CurrentType DEF IndexInv, tail
  <1>4. /\ buffer_[tail].item = accepted[Len(tail_)]
        /\ buffer_[tail].write = Len(tail_)
    BY <1>2, <1>3 DEF SlotInv
  <1> QED
    BY <1>1, <1>2, <1>3, <1>4, CurrentType DEF ThreadInv

\* pop reads the item of the slot at tail and nothing else.
LEMMA PopReadInv ==
    ASSUME Inv, pop_read
    PROVE  Inv'
  <1> USE DEF Inv, RingInv
  <1> DEFINE T == Len(tail_)
  <1>1. /\ c.pc = "read"
        /\ buffer_' = [buffer_ EXCEPT ![tail] = [@ EXCEPT !.read = T]]
        /\ UNCHANGED <<head_, tail_, p, accepted, delivered>>
    BY DEF pop_read
  <1>2. c' = [c EXCEPT !.pc = "release", !.item = accepted[T]]
    BY <1>1, NextSlot DEF pop_read
  <1>3. accepted[T] \in Items
    BY <1>1, NextSlot, CurrentType DEF TypeOK, IndexInv
  <1>4. /\ c' \in Consumer /\ c'.pc = "release" /\ c'.item = accepted[T]
        /\ c'.seen = c.seen /\ c'.synced = c.synced
    BY <1>2, <1>3 DEF TypeOK, Consumer
  <1>5. /\ buffer_' \in [0 .. Capacity -> Slot]
        /\ buffer_'[tail].read = T
        /\ \A i \in 0 .. Capacity : i # tail => buffer_'[i] = buffer_[i]
        /\ \A i \in 0 .. Capacity : /\ buffer_'[i].item = buffer_[i].item
                                    /\ buffer_'[i].write = buffer_[i].write
    BY <1>1, CurrentType DEF TypeOK, Slot
  <1>6. TypeOK'
    BY <1>1, <1>4, <1>5 DEF TypeOK
  <1>7. IndexInv' /\ ThreadInv'
    BY <1>1, <1>4 DEF IndexInv, ThreadInv, Wrap
  <1>8. SlotInv'
    <2>1. \A k \in T .. (Len(head_) - 1) :
            /\ buffer_'[head_[k].value].item = accepted[k]
            /\ buffer_'[head_[k].value].write = k
      <3>1. \A k \in T .. (Len(head_) - 1) : head_[k].value \in 0 .. Capacity
        BY StoreType, CurrentType
      <3> QED
        BY <1>5, <3>1 DEF SlotInv
    <2>2. p.pc = "publish" => /\ buffer_'[head].item = p.item
                              /\ buffer_'[head].write = Len(head_)
      BY <1>5, CurrentType DEF SlotInv
    <2>3. \A i \in 0 .. Capacity : buffer_'[i].read # 0 =>
             /\ buffer_'[i].read <= T
             /\ head_[buffer_'[i].read].value = i
             /\ buffer_'[i].read = T => c'.pc = "release"
      <3> SUFFICES ASSUME NEW i \in 0 .. Capacity, buffer_'[i].read # 0
                   PROVE  /\ buffer_'[i].read <= T
                          /\ head_[buffer_'[i].read].value = i
        BY <1>4
      <3>1. CASE i = tail
        BY <1>1, <1>5, <3>1, NextSlot, CurrentType
      <3>2. CASE i # tail
        BY <1>5, <3>2 DEF SlotInv
      <3> QED
        BY <3>1, <3>2
    <2>4. head' = head
      BY <1>1 DEF head
    <2> QED
      BY <1>1, <1>4, <2>1, <2>2, <2>3, <2>4 DEF SlotInv
  <1> QED
    BY <1>6, <1>7, <1>8

\* pop stores the next tail: the oldest item has left the ring.
LEMMA PopReleaseInv ==
    ASSUME Inv, pop_release
    PROVE  Inv'
  <1> USE DEF Inv, RingInv
  <1> DEFINE T == Len(tail_)
             new == [value |-> increment(tail), view |-> T]
  <1>1. /\ c.pc = "release"
        /\ tail_' = Append(tail_, new)
        /\ delivered' = Append(delivered, c.item)
        /\ c' = [c EXCEPT !.pc = "idle"]
        /\ UNCHANGED <<head_, buffer_, p, accepted>>
    BY DEF pop_release, Published, pop_tail_store
  <1>2. new \in Store
    BY IncrementType, CurrentType DEF Store
  <1>3. c' \in Consumer /\ c'.pc = "idle" /\ c'.seen = c.seen
        /\ c'.synced = c.synced /\ c.item \in Items
    BY <1>1 DEF TypeOK, Consumer
  <1>4. /\ tail_' \in Seq(Store)
        /\ Len(tail_') = T + 1
        /\ tail_'[T + 1] = new
        /\ \A k \in 1 .. T : tail_'[k] = tail_[k]
    <2> HIDE DEF new
    <2> QED
      BY <1>1, <1>2 DEF TypeOK
  <1>5. /\ delivered' \in Seq(Items)
        /\ Len(delivered') = T
        /\ delivered'[T] = c.item
        /\ \A k \in 1 .. T - 1 : delivered'[k] = delivered[k]
    BY <1>1, <1>3, CurrentType DEF TypeOK, IndexInv
  <1>6. T < c.seen /\ c.seen <= Len(head_) /\ c.seen \in Nat
    BY <1>1, CurrentType DEF ThreadInv, TypeOK
  <1>7. TypeOK'
    BY <1>1, <1>3, <1>4, <1>5, CurrentType DEF TypeOK
  <1>8. IndexInv'
    <2>1. head_[T + 1].value = increment(tail)
      <3>1. CASE Capacity = 0
        <4>1. T + 1 \in 1 .. Len(head_)
          BY <1>6, CurrentType
        <4> QED
          BY <3>1, <4>1, StoreType, IncrementType, CurrentType
      <3>2. CASE Capacity > 0
        <4>1. /\ T \in 1 .. Len(head_) /\ T + 1 \in 1 .. Len(head_)
              /\ T + 1 <= T + Capacity /\ (T + 1) - T = 1
          BY <1>6, <3>2, CurrentType, CapacityAssumption
        <4>2. head_[T + 1].value = Wrap(tail + 1)
          BY <1>1, <4>1, NextSlot DEF IndexInv
        <4> QED
          BY <4>2, CurrentType, CapacityAssumption DEF increment, Wrap, capacity_
      <3> QED
        BY <3>1, <3>2, CapacityAssumption
    <2>2. \A k \in 1 .. T + 1 :
            tail_'[k].value = head_[k].value /\ tail_'[k].view = k - 1
      <3>1. \A k \in 1 .. T :
              tail_'[k].value = head_[k].value /\ tail_'[k].view = k - 1
        BY <1>4 DEF IndexInv
      <3>2. tail_'[T + 1].value = head_[T + 1].value
            /\ tail_'[T + 1].view = (T + 1) - 1
        BY <1>4, <2>1, CurrentType
      <3>3. \A k \in 1 .. T + 1 : k \in 1 .. T \/ k = T + 1
        BY CurrentType
      <3> QED
        BY <3>1, <3>2, <3>3
    <2> QED
      BY <1>1, <1>4, <1>5, <1>6, <2>2, CurrentType DEF IndexInv, Wrap, capacity_
  <1>9. ThreadInv'
    BY <1>1, <1>3, <1>4, <1>6, CurrentType DEF ThreadInv
  <1>10. SlotInv'
    <2>1. \A k \in T + 1 .. (Len(head_) - 1) :
            /\ buffer_[head_[k].value].item = accepted[k]
            /\ buffer_[head_[k].value].write = k
      BY CurrentType DEF SlotInv
    <2>2. \A i \in 0 .. Capacity : buffer_[i].read # 0 =>
             /\ buffer_[i].read <= T + 1
             /\ head_[buffer_[i].read].value = i
             /\ buffer_[i].read # T + 1
      <3>1. \A i \in 0 .. Capacity : buffer_[i].read \in Nat
        BY DEF TypeOK, Slot
      <3> QED
        BY <3>1, CurrentType DEF SlotInv
    <2>3. \A k \in 1 .. T : delivered'[k] = accepted[k]
      <3>1. \A k \in 1 .. T - 1 : delivered'[k] = accepted[k]
        BY <1>5 DEF SlotInv, IndexInv
      <3>2. delivered'[T] = accepted[T]
        BY <1>1, <1>5 DEF SlotInv
      <3>3. \A k \in 1 .. T : k \in 1 .. T - 1 \/ k = T
        BY CurrentType
      <3> QED
        BY <3>1, <3>2, <3>3
    <2>4. head' = head
      BY <1>1 DEF head
    <2> QED
      BY <1>1, <1>3, <1>4, <1>5, <2>1, <2>2, <2>3, <2>4 DEF SlotInv
  <1> QED
    BY <1>7, <1>8, <1>9, <1>10

-----------------------------------------------------------------------------
\* Every step, and stuttering, preserves the invariant.
LEMMA NextInv == Inv /\ [Next]_vars => Inv'
  <1> SUFFICES ASSUME Inv, [Next]_vars PROVE Inv'
    OBVIOUS
  <1>1. CASE \E item \in Items : push_load(item)
    BY <1>1, PushLoadInv
  <1>2. CASE push_write
    BY <1>2, PushWriteInv
  <1>3. CASE push_publish
    BY <1>3, PushPublishInv
  <1>4. CASE pop_load
    BY <1>4, PopLoadInv
  <1>5. CASE pop_read
    BY <1>5, PopReadInv
  <1>6. CASE pop_release
    BY <1>6, PopReleaseInv
  <1>7. CASE empty
    BY <1>7, EmptyInv
  <1>8. CASE UNCHANGED vars
    BY <1>8 DEF Inv, RingInv, TypeOK, IndexInv, ThreadInv, SlotInv, vars, head
  <1> QED
    BY <1>1, <1>2, <1>3, <1>4, <1>5, <1>6, <1>7, <1>8 DEF Next, Push, Pop

(***************************************************************************)
(* The state of the ring always has its declared shape: in particular both *)
(* indexes stay within buffer_.                                            *)
(***************************************************************************)
THEOREM TypeCorrect == Spec => []TypeOK
  <1>1. Inv => TypeOK
    BY DEF Inv
  <1> QED
    BY <1>1, InitInv, NextInv, PTL DEF Spec

(***************************************************************************)
(* The inductive invariant holds of push and pop.                          *)
(***************************************************************************)
THEOREM RingCorrect == Spec => []RingInv
  <1>1. Inv => RingInv
    BY DEF Inv
  <1> QED
    BY <1>1, InitInv, NextInv, PTL DEF Spec

\* Why the invariant rules out a race: the slot at head was last read a full
\* lap ago, and the producer has seen the tail store that followed.
LEMMA InvRaceFree == Inv => NoDataRace
  <1> SUFFICES ASSUME Inv PROVE NoDataRace
    OBVIOUS
  <1> USE DEF Inv, RingInv
  <1>1. ASSUME p.pc = "write" PROVE buffer_[head].read <= p.synced
    <2> DEFINE r == buffer_[head].read
    <2>1. r \in Nat /\ p.seen \in Nat /\ c.seen \in Nat
      BY CurrentType DEF TypeOK, Slot, Producer, Consumer
    <2>2. Len(head_) - p.seen < Capacity /\ p.synced = p.seen - 1
      BY <1>1 DEF ThreadInv
    <2>3. CASE r = 0
      BY <2>1, <2>2, <2>3, CurrentType DEF TypeOK
    <2>4. CASE r # 0
      <3>1. /\ r <= Len(tail_) /\ head_[r].value = head
            /\ r = Len(tail_) => c.pc = "release"
        BY <2>4, CurrentType DEF SlotInv
      <3>2. r \in 1 .. Len(head_) /\ r < Len(head_)
        BY <2>1, <2>4, <3>1, CurrentType DEF ThreadInv, TypeOK
      <3>3. ~(Len(head_) <= r + Capacity)
        BY <3>1, <3>2, DistinctSlots, CurrentType DEF head
      <3> QED
        BY <2>1, <2>2, <3>2, <3>3, CurrentType, CapacityAssumption
    <2> QED
      BY <2>3, <2>4
  <1>2. ASSUME c.pc = "read" PROVE buffer_[tail].write <= c.synced
    BY <1>2, NextSlot
  <1> QED
    BY <1>1, <1>2 DEF NoDataRace

(***************************************************************************)
(* No plain access of push to a slot ever races with one of pop, for any   *)
(* capacity and however stale the indexes the threads load.                *)
(***************************************************************************)
THEOREM RaceFree == Spec => []NoDataRace
  BY InitInv, NextInv, InvRaceFree, PTL DEF Spec

\* A step of the ring is a step of the bounded queue or invisible to it.
LEMMA StepRefines == Inv /\ [Next]_vars => [Fifo!Next]_(Fifo!fifoVars)
  <1> SUFFICES ASSUME Inv, [Next]_vars
               PROVE  [Fifo!Next]_(Fifo!fifoVars)
    OBVIOUS
  <1> USE DEF Inv, RingInv
  <1>1. CASE push_publish
    <2>1. Len(accepted) - Len(delivered) < Capacity
      BY <1>1, CurrentType, CapacityAssumption
      DEF push_publish, IndexInv, ThreadInv, TypeOK
    <2>2. Fifo!Enqueue(p.item) /\ p.item \in Items
      BY <1>1, <2>1 DEF push_publish, Fifo!Enqueue, TypeOK, Producer
    <2> QED
      BY <2>2 DEF Fifo!Next
  <1>2. CASE pop_release
    <2>1. Len(delivered) = Len(tail_) - 1 /\ c.item = accepted[Len(tail_)]
      BY <1>2 DEF pop_release, IndexInv, SlotInv
    <2>2. Len(delivered) < Len(accepted)
      BY <1>2, <2>1, NextSlot, CurrentType DEF pop_release, IndexInv
    <2>3. Len(delivered) + 1 = Len(tail_)
      BY <2>1, CurrentType
    <2>4. Fifo!Dequeue
      BY <1>2, <2>1, <2>2, <2>3 DEF pop_release, Fifo!Dequeue
    <2> QED
      BY <2>4 DEF Fifo!Next
  <1>3. CASE UNCHANGED <<accepted, delivered>>
    BY <1>3 DEF Fifo!fifoVars
  <1>4. push_publish \/ pop_release \/ UNCHANGED <<accepted, delivered>>
    BY DEF Next, Push, Pop, push_load, push_write, pop_load, pop_read, empty, vars
  <1> QED
    BY <1>1, <1>2, <1>3, <1>4

(***************************************************************************)
(* The ring implements the bounded first-in first-out queue: nothing is    *)
(* lost, duplicated, reordered or accepted beyond the capacity.            *)
(***************************************************************************)
THEOREM FifoCorrect == Spec => ImplementsFifo
  <1>1. Init => Fifo!Init
    BY DEF Init, Fifo!Init
  <1> QED
    BY <1>1, InitInv, NextInv, StepRefines, PTL DEF Spec, ImplementsFifo, Fifo!Spec

=============================================================================
