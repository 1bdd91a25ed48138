--------------------------- MODULE SpscRingBuffer ---------------------------
(***************************************************************************)
(* The lock-free single-producer single-consumer ring                      *)
(* (include/latency_lab/spsc_ring_buffer.hpp), one producer thread and one *)
(* consumer thread, under the C++ memory model.                            *)
(*                                                                         *)
(* An atomic index is its modification order: the sequence of the stores   *)
(* made to it.  A load may return any store that is not older than the     *)
(* last one its thread has seen, so a thread works with stale indexes for  *)
(* as long as it likes.  A release store carries how many plain accesses   *)
(* to buffer_ its thread made before it; an acquire load that returns it   *)
(* makes those accesses happen before whatever the loading thread does     *)
(* next.  Two plain accesses to one slot, one of them a write, that are    *)
(* not ordered in this way are a data race, and a racing read returns      *)
(* anything.                                                               *)
(*                                                                         *)
(* The k-th write of a slot belongs to the k-th accepted push and the k-th *)
(* read to the k-th pop; each slot remembers the last of either kind.      *)
(***************************************************************************)
EXTENDS Integers, Sequences

CONSTANTS Items,      \* what the ring carries
          Capacity,   \* the constructor's argument
          MaxPushes   \* bound: how many pushes the environment gets accepted

ASSUME CapacityAssumption == Capacity \in Nat
ASSUME ItemsAssumption == Items # {}
ASSUME MaxPushesAssumption == MaxPushes \in Nat

VARIABLES head_,      \* modification order of head_.value, latest store last
          tail_,      \* modification order of tail_.value, latest store last
          buffer_,    \* slot -> [item, write, read]
          p,          \* the producer thread inside push
          c,          \* the consumer thread inside pop
          accepted,   \* history: items published by push
          delivered   \* history: items released by pop

vars == <<head_, tail_, buffer_, p, c, accepted, delivered>>

\* capacity_: one slot more than the caller asked for, so that a full ring
\* can be told from an empty one.
capacity_ == Capacity + 1

\* Mutated form of increment: the index runs one past the last slot.
increment_OffByOne(value) == IF value = capacity_ THEN 0 ELSE value + 1

increment(value) == IF value + 1 = capacity_ THEN 0 ELSE value + 1

-----------------------------------------------------------------------------
\* Mutated form of push_head_store: the new head is stored without release.
push_head_store_Relaxed == "relaxed"

\* Mutated form of pop_tail_store: the new tail is stored without release.
pop_tail_store_Relaxed == "relaxed"

\* The memory order push and pop give to each access of the indexes.
push_tail_load  == "acquire"
push_head_store == "release"
pop_head_load   == "acquire"
pop_tail_store  == "release"

\* The accesses a store publishes, out of the n its thread has made.
Published(order, n) == IF order = "release" THEN n ELSE 0

\* What a thread that knows of the first n accesses knows after a load.
Learned(order, n, view) == IF order = "acquire" /\ view > n THEN view ELSE n

\* The latest stores; each index is written by one thread, which reads its
\* own last store back (a relaxed load suffices for that).
head == head_[Len(head_)].value
tail == tail_[Len(tail_)].value

-----------------------------------------------------------------------------
Init ==
    /\ head_ = <<[value |-> 0, view |-> 0]>>
    /\ tail_ = <<[value |-> 0, view |-> 0]>>
    /\ \E blank \in Items :
          /\ buffer_ = [i \in 0 .. Capacity |->
                          [item |-> blank, write |-> 0, read |-> 0]]
          /\ p = [pc |-> "idle", item |-> blank, seen |-> 1, synced |-> 0]
          /\ c = [pc |-> "idle", item |-> blank, seen |-> 1, synced |-> 0]
    /\ accepted = <<>>
    /\ delivered = <<>>

\* Mutated form of is_full: push never refuses.
is_full_Never(tail_value) == FALSE

\* The test of push: the slot after head is the one tail points at.
is_full(tail_value) == increment(head) = tail_value

\* push, up to its early return: read both indexes, give up if full.
push_load(item) ==
    /\ p.pc = "idle"
    /\ Len(accepted) < MaxPushes
    /\ \E s \in p.seen .. Len(tail_) :
          LET synced == Learned(push_tail_load, p.synced, tail_[s].view)
          IN  p' = IF is_full(tail_[s].value)
                   THEN [p EXCEPT !.seen = s, !.synced = synced]
                   ELSE [pc |-> "write", item |-> item, seen |-> s,
                         synced |-> synced]
    /\ UNCHANGED <<head_, tail_, buffer_, c, accepted, delivered>>

\* push: buffer_[head] = item.
push_write ==
    /\ p.pc = "write"
    /\ buffer_' = [buffer_ EXCEPT ![head] =
                   [item |-> p.item, write |-> Len(head_), read |-> @.read]]
    /\ p' = [p EXCEPT !.pc = "publish"]
    /\ UNCHANGED <<head_, tail_, c, accepted, delivered>>

\* push: store next_head and return true.
push_publish ==
    /\ p.pc = "publish"
    /\ head_' = Append(head_, [value |-> increment(head),
                               view  |-> Published(push_head_store, Len(head_))])
    /\ accepted' = Append(accepted, p.item)
    /\ p' = [p EXCEPT !.pc = "idle"]
    /\ UNCHANGED <<tail_, buffer_, c, delivered>>

\* The test of pop and of empty, on the store of head_ that was loaded.
is_empty(s) == tail = head_[s].value

\* pop, up to its early return: read both indexes, give up if empty.
pop_load ==
    /\ c.pc = "idle"
    /\ \E s \in c.seen .. Len(head_) :
          c' = [c EXCEPT
                  !.pc = IF is_empty(s) THEN "idle" ELSE "read",
                  !.seen = s,
                  !.synced = Learned(pop_head_load, c.synced, head_[s].view)]
    /\ UNCHANGED <<head_, tail_, buffer_, p, accepted, delivered>>

\* pop: item = buffer_[tail].  A read that races with a write sees anything.
pop_read ==
    /\ c.pc = "read"
    /\ \E item \in Items :
          /\ buffer_[tail].write <= c.synced => item = buffer_[tail].item
          /\ c' = [c EXCEPT !.pc = "release", !.item = item]
    /\ buffer_' = [buffer_ EXCEPT ![tail] = [@ EXCEPT !.read = Len(tail_)]]
    /\ UNCHANGED <<head_, tail_, p, accepted, delivered>>

\* pop: store the next tail and return true.
pop_release ==
    /\ c.pc = "release"
    /\ tail_' = Append(tail_, [value |-> increment(tail),
                               view  |-> Published(pop_tail_store, Len(tail_))])
    /\ delivered' = Append(delivered, c.item)
    /\ c' = [c EXCEPT !.pc = "idle"]
    /\ UNCHANGED <<head_, buffer_, p, accepted>>

\* empty, called by the consumer between two pops.
empty ==
    /\ c.pc = "idle"
    /\ \E s \in c.seen .. Len(head_) :
          c' = [c EXCEPT
                  !.seen = s,
                  !.synced = Learned(pop_head_load, c.synced, head_[s].view)]
    /\ UNCHANGED <<head_, tail_, buffer_, p, accepted, delivered>>

Push == (\E item \in Items : push_load(item)) \/ push_write \/ push_publish

Pop == pop_load \/ pop_read \/ pop_release

Next == Push \/ Pop \/ empty

Spec == Init /\ [][Next]_vars

-----------------------------------------------------------------------------
\* A store of an index, a slot, and the state of either thread.
Store == [value : 0 .. Capacity, view : Nat]

Slot == [item : Items, write : Nat, read : Nat]

Producer == [pc : {"idle", "write", "publish"}, item : Items,
             seen : Nat, synced : Nat]

Consumer == [pc : {"idle", "read", "release"}, item : Items,
             seen : Nat, synced : Nat]

\* Every part of the state has its declared shape, both indexes stay within
\* the slots, and each thread's last seen store exists.
TypeOK ==
    /\ head_ \in Seq(Store) /\ Len(head_) > 0
    /\ tail_ \in Seq(Store) /\ Len(tail_) > 0
    /\ buffer_ \in [0 .. Capacity -> Slot]
    /\ p \in Producer /\ p.seen \in 1 .. Len(tail_)
    /\ c \in Consumer /\ c.seen \in 1 .. Len(head_)
    /\ accepted \in Seq(Items)
    /\ delivered \in Seq(Items)

(***************************************************************************)
(* Whenever push is about to overwrite a slot, the last read of that slot  *)
(* happens before the write, and whenever pop is about to read a slot, the *)
(* last write of it happens before the read: with the indexes as stale as  *)
(* C++ allows, the plain accesses to buffer_ never race.                   *)
(***************************************************************************)
NoDataRace ==
    /\ p.pc = "write" => buffer_[head].read <= p.synced
    /\ c.pc = "read" => buffer_[tail].write <= c.synced

-----------------------------------------------------------------------------
\* An index or a sum of two indexes, reduced to an index.
Wrap(value) == IF value >= capacity_ THEN value - capacity_ ELSE value

(***************************************************************************)
(* Both indexes go through the slots one by one, tail_ along the values    *)
(* head_ has taken, and each store carries all earlier accesses.  Stated   *)
(* by the distance of two stores, which never exceeds one lap, so that no  *)
(* division is needed.                                                     *)
(***************************************************************************)
IndexInv ==
    /\ Len(accepted) = Len(head_) - 1
    /\ Len(delivered) = Len(tail_) - 1
    /\ \A k \in 1 .. Len(head_) : head_[k].view = k - 1
    /\ \A i, j \in 1 .. Len(head_) :
          i <= j /\ j <= i + Capacity
            => head_[j].value = Wrap(head_[i].value + (j - i))
    /\ Len(tail_) <= Len(head_)
    /\ \A k \in 1 .. Len(tail_) :
          tail_[k].value = head_[k].value /\ tail_[k].view = k - 1

\* A thread knows of exactly the accesses behind the store it has seen; the
\* producer stays less than a lap ahead of it and the consumer behind it.
ThreadInv ==
    /\ p.synced = p.seen - 1
    /\ c.synced = c.seen - 1
    /\ Len(head_) - p.seen <= Capacity
    /\ p.pc # "idle" => Len(head_) - p.seen < Capacity
    /\ Len(tail_) <= c.seen
    /\ c.pc # "idle" => Len(tail_) < c.seen

\* The slots between the indexes hold the items accepted and not delivered,
\* and a slot's last read belongs to a store of tail_ or to the pending pop.
SlotInv ==
    /\ \A k \in Len(tail_) .. (Len(head_) - 1) :
          /\ buffer_[head_[k].value].item = accepted[k]
          /\ buffer_[head_[k].value].write = k
    /\ p.pc = "publish" => /\ buffer_[head].item = p.item
                           /\ buffer_[head].write = Len(head_)
    /\ \A i \in 0 .. Capacity :
          buffer_[i].read # 0 =>
             /\ buffer_[i].read <= Len(tail_)
             /\ head_[buffer_[i].read].value = i
             /\ buffer_[i].read = Len(tail_) => c.pc = "release"
    /\ c.pc = "release" => c.item = accepted[Len(tail_)]
    /\ \A k \in 1 .. Len(delivered) : delivered[k] = accepted[k]

(***************************************************************************)
(* The inductive invariant of the ring: why push and pop, each trusting    *)
(* only its own index and a stale copy of the other's, never meet in a     *)
(* slot.                                                                   *)
(***************************************************************************)
RingInv == IndexInv /\ ThreadInv /\ SlotInv

(***************************************************************************)
(* The ring implements the bounded queue: a publish is an Enqueue that     *)
(* finds room, a release is a Dequeue of the oldest item, every other step *)
(* is invisible.  So no interleaving of push and pop loses, duplicates,    *)
(* reorders or overwrites an item, or holds more than Capacity of them.    *)
(***************************************************************************)
Fifo == INSTANCE BoundedFifo

ImplementsFifo == Fifo!Spec

=============================================================================
