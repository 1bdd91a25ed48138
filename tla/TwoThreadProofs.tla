--------------------------- MODULE TwoThreadProofs ---------------------------
(***************************************************************************)
(* Proofs about the programs of two threads: the pipelines around the      *)
(* mutex queue and the SPSC ring, for every feed, every book and every     *)
(* capacity, and the false sharing benchmark.  What the queues promise     *)
(* comes from their own proofs.                                            *)
(***************************************************************************)
EXTENDS MutexPipeline, SpscPooledPipeline, FalseSharing, TLAPS

\* The length of the feed and its messages.
LEMMA FeedType ==
    /\ Len(Messages) \in Nat \ {0}
    /\ \A i \in 1 .. Len(Messages) : Messages[i] \in Range(Messages)
  BY FeedAssumption DEF Range

-----------------------------------------------------------------------------
\* What is proved about the mutex queue, for these two threads.
QueueFacts == INSTANCE BoundedMutexQueueProofs
                WITH Items <- Range(Messages), MaxPushes <- Len(Messages),
                     Producers <- {"producer"}, Consumers <- {"consumer"}

\* The state of the queue is one its own proofs speak of.
QueueInv == /\ QueueFacts!TypeOK /\ QueueFacts!Contents
            /\ QueueFacts!DrainedBeforeStop

\* The assumptions of the queue hold for this program.
LEMMA QueueAssumptions ==
    /\ Capacity \in Nat /\ Len(Messages) \in Nat
    /\ NoItem \notin Range(Messages)
    /\ QueueFacts!IsFiniteSet({"producer"}) /\ QueueFacts!IsFiniteSet({"consumer"})
    /\ {"producer"} \cap {"consumer"} = {}
  <1>1. ASSUME NEW x
        PROVE  QueueFacts!IsFiniteSet({x})
    <2>1. <<x>> \in Seq({x}) /\ Len(<<x>>) = 1 /\ <<x>>[1] = x
      OBVIOUS
    <2>2. 1 \in 1 .. 1
      OBVIOUS
    <2> QED
      BY <2>1, <2>2 DEF QueueFacts!IsFiniteSet
  <1> QED
    BY <1>1, FeedType, QueueCapacityAssumption, NoItemAssumption

\* The queue starts as its proofs ask.
LEMMA QueueInitInv == Queue!Init => QueueInv
  <1> SUFFICES ASSUME Queue!Init PROVE QueueInv
    OBVIOUS
  <1>1. QueueFacts!Init
    BY DEF Queue!Init, QueueFacts!Init
  <1>2. QueueFacts!TypeOK
    BY <1>1, QueueAssumptions, QueueFacts!InitType
  <1>3. QueueFacts!Contents
    BY <1>1, QueueAssumptions, QueueFacts!InitContents
  <1>4. QueueFacts!DrainedBeforeStop
    BY <1>1 DEF QueueFacts!Init, QueueFacts!DrainedBeforeStop
  <1> QED
    BY <1>2, <1>3, <1>4 DEF QueueInv

\* Every step of the queue is one its proofs speak of.
LEMMA QueueNextInv == QueueInv /\ [QueueFacts!Next]_(QueueFacts!vars) => QueueInv'
  <1> SUFFICES ASSUME QueueInv, [QueueFacts!Next]_(QueueFacts!vars) PROVE QueueInv'
    OBVIOUS
  <1>1. QueueFacts!TypeOK'
    BY QueueAssumptions, QueueFacts!NextType DEF QueueInv
  <1>2. QueueFacts!Contents'
    BY QueueAssumptions, QueueFacts!NextContents DEF QueueInv
  <1>3. QueueFacts!DrainedBeforeStop'
    BY QueueAssumptions, QueueFacts!NextDrained DEF QueueInv
  <1> QED
    BY <1>1, <1>2, <1>3 DEF QueueInv

-----------------------------------------------------------------------------
\* The counters are numbers.
MutexTypes ==
    /\ popped \in BOOLEAN
    /\ produced \in 0 .. Len(Messages) /\ consumed \in Nat

\* The queue has accepted exactly the messages counted as produced: none was
\* dropped by a closed queue, which is closed only after the last one.
ProducedInv ==
    /\ Len(accepted) = produced
    /\ \A k \in 1 .. produced : accepted[k] = Messages[k]
    /\ closed_ => produced = Len(Messages)

\* The consumer has applied what was delivered to it, but for a message it
\* has just popped; it leaves its loop with none.
ConsumedInv ==
    /\ Len(delivered) = consumed + (IF popped THEN 1 ELSE 0)
    /\ finished # {} => ~popped

MutexInv == QueueInv /\ MutexTypes /\ ProducedInv /\ ConsumedInv

\* The lengths of the queue's histories are numbers.
LEMMA QueueLengths ==
    ASSUME QueueInv
    PROVE  /\ Len(accepted) \in Nat /\ Len(delivered) \in Nat
           /\ Len(delivered) <= Len(accepted)
           /\ \A k \in 1 .. Len(delivered) : delivered[k] = accepted[k]
           /\ accepted \in Seq(Range(Messages)) /\ delivered \in Seq(Range(Messages))
  <1>1. /\ queue_ \in Seq(Range(Messages))
        /\ accepted \in Seq(Range(Messages)) /\ delivered \in Seq(Range(Messages))
    BY DEF QueueInv, QueueFacts!TypeOK
  <1>2. /\ Len(queue_) \in Nat /\ Len(accepted) \in Nat /\ Len(delivered) \in Nat
    BY <1>1
  <1>3. /\ Len(accepted) = Len(delivered) + Len(queue_)
        /\ \A k \in 1 .. Len(delivered) : delivered[k] = accepted[k]
    BY DEF QueueInv, QueueFacts!Contents
  <1> QED
    BY <1>1, <1>2, <1>3

\* The initial states satisfy the invariant.
LEMMA MutexInitInv == Init => MutexInv
  <1> SUFFICES ASSUME Init PROVE MutexInv
    OBVIOUS
  <1>1. QueueInv
    BY QueueInitInv DEF Init
  <1>2. MutexTypes
    <2>1. popped \in BOOLEAN
      BY DEF Init
    <2>2. produced \in 0 .. Len(Messages) /\ consumed \in Nat
      BY FeedType DEF Init
    <2> QED
      BY <2>1, <2>2 DEF MutexTypes
  <1>3. ProducedInv
    BY DEF Init, Queue!Init, ProducedInv
  <1>4. ConsumedInv
    BY DEF Init, Queue!Init, ConsumedInv
  <1> QED
    BY <1>1, <1>2, <1>3, <1>4 DEF MutexInv

\* A call of push, whether it waits, goes on or returns.
LEMMA ProducerPushInv ==
    ASSUME MutexInv, producer_push
    PROVE  MutexInv'
  <1>1. /\ produced < Len(Messages)
        /\ Queue!push("producer", Messages[produced + 1])
        /\ produced' = produced + (IF pending'["producer"] = NoItem THEN 1 ELSE 0)
        /\ UNCHANGED <<popped, consumed, book>>
    BY DEF producer_push
  <1>2. produced \in Nat /\ Len(Messages) \in Nat /\ produced \in 0 .. Len(Messages)
    BY FeedType DEF MutexInv, MutexTypes
  <1>3. PICK item \in Range(Messages) : item = Messages[produced + 1] /\ item # NoItem
    <2>1. produced + 1 \in 1 .. Len(Messages)
      BY <1>1, <1>2
    <2> QED
      BY <2>1, FeedType, QueueCapacityAssumption, NoItemAssumption
  <1>4. ~closed_
    BY <1>1, <1>2 DEF MutexInv, ProducedInv
  <1>5. /\ accepted \in Seq(Range(Messages)) /\ Len(accepted) = produced
        /\ \A k \in 1 .. produced : accepted[k] = Messages[k]
        /\ pending \in [{"producer"} -> Range(Messages) \union {NoItem}]
    BY QueueLengths DEF MutexInv, ProducedInv, QueueInv, QueueFacts!TypeOK
  <1>6. QueueInv'
    <2>1. QueueFacts!push("producer", item)
      BY <1>1, <1>3 DEF Queue!push, QueueFacts!push, Queue!push_wait,
             QueueFacts!push_wait, Queue!push_closed, QueueFacts!push_closed,
             Queue!push_item, QueueFacts!push_item, Queue!in_push,
             QueueFacts!in_push, Queue!has_room, QueueFacts!has_room,
             Queue!notify_one, QueueFacts!notify_one
    <2>2. \E t \in {"producer"}, x \in Range(Messages) : QueueFacts!push(t, x)
      BY <1>3, <2>1
    <2>3. QueueFacts!Next
      BY <2>2 DEF QueueFacts!Next
    <2> QED
      BY <2>3, QueueNextInv DEF MutexInv
  <1>7. /\ UNCHANGED <<closed_, delivered, finished>>
        /\ \/ pending'["producer"] = item /\ accepted' = accepted
           \/ pending'["producer"] = NoItem /\ accepted' = Append(accepted, item)
    <2>1. ~ Queue!push_closed("producer", Messages[produced + 1])
      BY <1>4 DEF Queue!push_closed
    <2>2. CASE Queue!push_wait("producer", Messages[produced + 1])
      BY <1>3, <1>5, <2>2 DEF Queue!push_wait
    <2>3. CASE Queue!push_item("producer", Messages[produced + 1])
      BY <1>3, <1>5, <2>3 DEF Queue!push_item
    <2> QED
      BY <1>1, <2>1, <2>2, <2>3 DEF Queue!push
  <1>8. /\ Len(Append(accepted, item)) = produced + 1
        /\ \A k \in 1 .. produced : Append(accepted, item)[k] = accepted[k]
        /\ Append(accepted, item)[produced + 1] = item
    BY <1>3, <1>5
  <1>9. \/ produced' = produced /\ accepted' = accepted
        \/ produced' = produced + 1 /\ accepted' = Append(accepted, item)
    BY <1>1, <1>2, <1>3, <1>7
  <1>10. MutexTypes'
    BY <1>1, <1>2, <1>9 DEF MutexInv, MutexTypes
  <1>11. ProducedInv'
    <2>1. CASE produced' = produced /\ accepted' = accepted
      BY <1>4, <1>5, <1>7, <2>1 DEF ProducedInv
    <2>2. CASE produced' = produced + 1 /\ accepted' = Append(accepted, item)
      <3>1. ASSUME NEW k \in 1 .. (produced + 1)
            PROVE  Append(accepted, item)[k] = Messages[k]
        <4>1. k \in 1 .. produced \/ k = produced + 1
          BY <1>2
        <4>2. CASE k \in 1 .. produced
          BY <1>5, <1>8, <4>2
        <4>3. CASE k = produced + 1
          BY <1>3, <1>8, <4>3
        <4> QED
          BY <4>1, <4>2, <4>3
      <3> QED
        BY <1>4, <1>7, <1>8, <2>2, <3>1 DEF ProducedInv
    <2> QED
      BY <1>9, <2>1, <2>2
  <1>12. ConsumedInv'
    BY <1>1, <1>7 DEF MutexInv, ConsumedInv
  <1> QED
    BY <1>6, <1>10, <1>11, <1>12 DEF MutexInv

\* A call of pop, whether it waits, delivers or tells the consumer to stop.
LEMMA ConsumerPopInv ==
    ASSUME MutexInv, consumer_pop
    PROVE  MutexInv'
  <1>1. /\ ~popped /\ Queue!pop("consumer")
        /\ popped' = (delivered' # delivered)
        /\ UNCHANGED <<produced, consumed, book>>
    BY DEF consumer_pop
  <1>2. /\ delivered \in Seq(Range(Messages)) /\ Len(delivered) \in Nat
        /\ Len(delivered) = consumed
        /\ consumed \in Nat /\ queue_ \in Seq(Range(Messages))
    BY <1>1, QueueLengths DEF MutexInv, ConsumedInv, MutexTypes, QueueInv,
           QueueFacts!TypeOK
  <1>3. QueueInv'
    <2>1. QueueFacts!pop("consumer")
      BY <1>1 DEF Queue!pop, QueueFacts!pop, Queue!pop_wait,
             QueueFacts!pop_wait, Queue!pop_closed, QueueFacts!pop_closed,
             Queue!pop_item, QueueFacts!pop_item, Queue!in_pop,
             QueueFacts!in_pop, Queue!notify_one, QueueFacts!notify_one
    <2>2. QueueFacts!Next
      BY <2>1 DEF QueueFacts!Next
    <2> QED
      BY <2>2, QueueNextInv DEF MutexInv
  <1>4. UNCHANGED <<closed_, accepted>>
    BY <1>1 DEF Queue!pop, Queue!pop_wait, Queue!pop_closed, Queue!pop_item
  <1>5. \/ delivered' = delivered
        \/ /\ Len(delivered') = Len(delivered) + 1
           /\ UNCHANGED finished /\ "consumer" \notin finished
    <2>1. CASE Queue!pop_wait("consumer") \/ Queue!pop_closed("consumer")
      BY <2>1 DEF Queue!pop_wait, Queue!pop_closed
    <2>2. CASE Queue!pop_item("consumer")
      <3>1. /\ delivered' = Append(delivered, Head(queue_)) /\ queue_ # <<>>
            /\ UNCHANGED finished /\ "consumer" \notin finished
        BY <2>2 DEF Queue!pop_item, Queue!in_pop
      <3>2. Len(Append(delivered, Head(queue_))) = Len(delivered) + 1
        BY <1>2
      <3> QED
        BY <3>1, <3>2
    <2> QED
      BY <1>1, <2>1, <2>2 DEF Queue!pop
  <1>6. MutexTypes'
    BY <1>1, <1>2 DEF MutexInv, MutexTypes
  <1>7. ProducedInv'
    BY <1>1, <1>4 DEF MutexInv, ProducedInv
  <1>8. ConsumedInv'
    <2>1. CASE delivered' = delivered
      <3>1. ~popped'
        BY <1>1, <2>1
      <3> QED
        BY <1>1, <1>2, <2>1, <3>1 DEF ConsumedInv
    <2>2. CASE /\ Len(delivered') = Len(delivered) + 1
               /\ UNCHANGED finished /\ "consumer" \notin finished
      <3>1. popped'
        <4>1. delivered' # delivered
          BY <1>2, <2>2
        <4> QED
          BY <1>1, <4>1
      <3>2. finished' = {}
        BY <2>2 DEF MutexInv, QueueInv, QueueFacts!TypeOK
      <3> QED
        BY <1>1, <1>2, <2>2, <3>1, <3>2 DEF ConsumedInv
    <2> QED
      BY <1>5, <2>1, <2>2
  <1> QED
    BY <1>3, <1>6, <1>7, <1>8 DEF MutexInv

\* close and a spurious wakeup move no message.
LEMMA CloseInv ==
    ASSUME MutexInv, producer_close \/ spurious_wakeup
    PROVE  MutexInv'
  <1>1. UNCHANGED <<popped, produced, consumed, accepted, delivered, finished>>
    BY DEF producer_close, spurious_wakeup, Queue!close, Queue!close_flag,
           Queue!close_notify_not_empty, Queue!close_notify_not_full,
           Queue!spurious_wakeup
  <1>2. closed_' => produced = Len(Messages)
    BY DEF producer_close, spurious_wakeup, Queue!close, Queue!close_flag,
           Queue!close_notify_not_empty, Queue!close_notify_not_full,
           Queue!spurious_wakeup, MutexInv, ProducedInv
  <1>3. QueueInv'
    <2>1. QueueFacts!Next
      <3>1. CASE Queue!close
        BY <3>1 DEF Queue!close, Queue!close_flag, Queue!close_notify_not_empty,
               Queue!close_notify_not_full, QueueFacts!Next, QueueFacts!close,
               QueueFacts!close_flag, QueueFacts!close_notify_not_empty,
               QueueFacts!close_notify_not_full
      <3>2. CASE Queue!spurious_wakeup
        BY <3>2 DEF Queue!spurious_wakeup, QueueFacts!Next,
               QueueFacts!spurious_wakeup
      <3> QED
        BY <3>1, <3>2 DEF producer_close, spurious_wakeup
    <2> QED
      BY <2>1, QueueNextInv DEF MutexInv
  <1> QED
    BY <1>1, <1>2, <1>3 DEF MutexInv, MutexTypes, ProducedInv, ConsumedInv

\* The message about to be applied is the next one of the feed.
LEMMA PoppedMessage ==
    ASSUME MutexInv, popped
    PROVE  /\ consumed < Len(Messages)
           /\ Last(delivered) = Messages[consumed + 1]
  <1>1. /\ Len(delivered) = consumed + 1 /\ consumed \in Nat
        /\ Len(accepted) = produced /\ produced \in 0 .. Len(Messages)
        /\ \A k \in 1 .. produced : accepted[k] = Messages[k]
    BY DEF MutexInv, ConsumedInv, MutexTypes, ProducedInv
  <1>2. consumed + 1 \in 1 .. produced /\ consumed < Len(Messages)
    BY <1>1, FeedType, QueueLengths DEF MutexInv
  <1>3. consumed + 1 \in 1 .. Len(delivered)
    BY <1>1
  <1>4. delivered[consumed + 1] = Messages[consumed + 1]
    BY <1>1, <1>2, <1>3, QueueLengths DEF MutexInv
  <1> QED
    BY <1>1, <1>2, <1>4 DEF Last

\* Applying a message leaves the queue alone.
LEMMA ConsumerProcessInv ==
    ASSUME MutexInv, consumer_process
    PROVE  MutexInv'
  <1>1. /\ popped /\ popped' = FALSE /\ consumed' = consumed + 1
        /\ UNCHANGED queueVars /\ UNCHANGED produced
    BY DEF consumer_process
  <1>2. QueueInv'
    <2>1. UNCHANGED QueueFacts!vars
      BY <1>1 DEF queueVars, QueueFacts!vars
    <2> QED
      BY <2>1, QueueNextInv DEF MutexInv
  <1>3. ~popped' /\ popped' \in BOOLEAN
    BY <1>1
  <1>4. MutexTypes'
    BY <1>1, <1>3 DEF MutexInv, MutexTypes
  <1>5. ProducedInv'
    BY <1>1 DEF MutexInv, ProducedInv, queueVars
  <1>6. ConsumedInv'
    <2>1. Len(delivered) = consumed + 1 /\ consumed \in Nat
      BY <1>1 DEF MutexInv, MutexTypes, ConsumedInv
    <2>2. delivered' = delivered
      BY <1>1 DEF queueVars
    <2> QED
      BY <1>1, <1>3, <2>1, <2>2 DEF ConsumedInv
  <1> QED
    BY <1>2, <1>4, <1>5, <1>6 DEF MutexInv

\* Every step keeps the invariant.
LEMMA MutexNextInv == MutexInv /\ [Next]_vars => MutexInv'
  <1> SUFFICES ASSUME MutexInv, [Next]_vars PROVE MutexInv'
    OBVIOUS
  <1>1. CASE UNCHANGED vars
    <2>1. UNCHANGED QueueFacts!vars
      BY <1>1 DEF vars, queueVars, QueueFacts!vars
    <2>2. QueueInv'
      BY <2>1, QueueNextInv DEF MutexInv
    <2> QED
      BY <1>1, <2>2 DEF vars, queueVars, MutexInv, MutexTypes, ProducedInv,
             ConsumedInv
  <1> QED
    BY <1>1, ProducerPushInv, ConsumerPopInv, CloseInv, ConsumerProcessInv
       DEF Next, Producer, Consumer, Joined

(***************************************************************************)
(* Once the consumer was told to stop and close has returned, every        *)
(* message was produced and consumed.                                      *)
(***************************************************************************)
THEOREM MutexAllConsumed == Spec => []AllConsumedAtExit
  <1>1. ASSUME MutexInv, Finished
        PROVE  produced = Len(Messages) /\ consumed = Len(Messages)
    <2>1. closed_ /\ delivered = accepted
      BY <1>1 DEF Finished, MutexInv, QueueInv, QueueFacts!DrainedBeforeStop
    <2>2. ~popped
      BY <1>1 DEF Finished, MutexInv, ConsumedInv
    <2> QED
      BY <1>1, <2>1, <2>2
         DEF MutexInv, MutexTypes, ProducedInv, ConsumedInv
  <1>2. MutexInv => AllConsumedAtExit
    BY <1>1 DEF AllConsumedAtExit
  <1> QED
    BY <1>2, MutexInitInv, MutexNextInv, PTL DEF Spec

\* A step of the program is a step of the replay, or invisible to it.
LEMMA MutexStepReplays ==
    MutexInv /\ [Next]_vars => [OneReplay!Next]_<<Messages, consumed, book>>
  <1> SUFFICES ASSUME MutexInv, [Next]_vars
               PROVE  [OneReplay!Next]_<<Messages, consumed, book>>
    OBVIOUS
  <1>1. CASE consumer_process
    <2>1. /\ popped /\ book' = ApplyMessage(book, Last(delivered))
          /\ consumed' = consumed + 1
      BY <1>1 DEF consumer_process
    <2>2. OneReplay!Apply
      BY <2>1, PoppedMessage DEF OneReplay!Apply
    <2> QED
      BY <2>2 DEF OneReplay!Next
  <1>2. CASE ~consumer_process
    BY <1>2 DEF Next, Producer, Consumer, Joined, vars, producer_push,
           producer_close, consumer_pop, spurious_wakeup
  <1> QED
    BY <1>1, <1>2

(***************************************************************************)
(* The threads around the mutex queue implement one replay of the feed.    *)
(***************************************************************************)
THEOREM MutexImplementsReplay == Spec => ImplementsReplay
  <1>1. Init => OneReplay!Init
    BY FeedAssumption DEF Init, OneReplay!Init
  <1> QED
    BY <1>1, MutexInitInv, MutexNextInv, MutexStepReplays, PTL
       DEF Spec, ImplementsReplay, OneReplay!Spec

-----------------------------------------------------------------------------
\* The program around the SPSC ring, with the same feed and any book.
Spsc == INSTANCE SpscPipeline

\* What is proved about the ring, for these two threads.
RingFacts == INSTANCE SpscRingBufferProofs
               WITH Items <- Range(Messages), MaxPushes <- Len(Messages)

\* The assumptions of the ring hold for this program.
LEMMA RingAssumptions ==
    /\ Capacity \in Nat /\ Len(Messages) \in Nat /\ Range(Messages) # {}
    /\ Spsc!Range(Messages) = Range(Messages)
  <1>1. Messages[1] \in Range(Messages)
    BY FeedType
  <1>2. Spsc!Range(Messages) = Range(Messages)
    BY DEF Spsc!Range, Range
  <1> QED
    BY <1>1, <1>2, FeedType, QueueCapacityAssumption, NoItemAssumption

\* Each call the threads make is a step of the ring.
LEMMA RingSteps ==
    /\ \A item \in Range(Messages) : Spsc!Ring!push_load(item) => RingFacts!Next
    /\ Spsc!Ring!push_write => RingFacts!Next
    /\ Spsc!Ring!push_publish => RingFacts!Next
    /\ Spsc!Ring!pop_load => RingFacts!Next
    /\ Spsc!Ring!pop_read => RingFacts!Next
    /\ Spsc!Ring!pop_release => RingFacts!Next
    /\ Spsc!Ring!empty => RingFacts!Next
  <1> USE DEF RingFacts!Next, RingFacts!Push, RingFacts!Pop,
          Spsc!Ring!Learned, RingFacts!Learned, Spsc!Ring!Published,
          RingFacts!Published, Spsc!Ring!head, RingFacts!head, Spsc!Ring!tail,
          RingFacts!tail
  <1>1. ASSUME NEW item \in Range(Messages), Spsc!Ring!push_load(item)
        PROVE  RingFacts!Next
    <2>1. RingFacts!push_load(item)
      BY <1>1 DEF Spsc!Ring!push_load, RingFacts!push_load,
             Spsc!Ring!push_tail_load, RingFacts!push_tail_load,
             Spsc!Ring!is_full, RingFacts!is_full, Spsc!Ring!increment,
             RingFacts!increment, Spsc!Ring!capacity_, RingFacts!capacity_
    <2> QED
      BY <2>1
  <1>2. Spsc!Ring!push_write => RingFacts!push_write
    BY DEF Spsc!Ring!push_write, RingFacts!push_write
  <1>3. Spsc!Ring!push_publish => RingFacts!push_publish
    BY DEF Spsc!Ring!push_publish, RingFacts!push_publish,
           Spsc!Ring!push_head_store, RingFacts!push_head_store,
           Spsc!Ring!increment, RingFacts!increment, Spsc!Ring!capacity_,
           RingFacts!capacity_
  <1>4. Spsc!Ring!pop_load => RingFacts!pop_load
    BY DEF Spsc!Ring!pop_load, RingFacts!pop_load, Spsc!Ring!pop_head_load,
           RingFacts!pop_head_load, Spsc!Ring!is_empty, RingFacts!is_empty
  <1>5. Spsc!Ring!pop_read => RingFacts!pop_read
    BY RingAssumptions DEF Spsc!Ring!pop_read, RingFacts!pop_read
  <1>6. Spsc!Ring!pop_release => RingFacts!pop_release
    BY DEF Spsc!Ring!pop_release, RingFacts!pop_release,
           Spsc!Ring!pop_tail_store, RingFacts!pop_tail_store,
           Spsc!Ring!increment, RingFacts!increment, Spsc!Ring!capacity_,
           RingFacts!capacity_
  <1>7. Spsc!Ring!empty => RingFacts!empty
    BY DEF Spsc!Ring!empty, RingFacts!empty, Spsc!Ring!pop_head_load,
           RingFacts!pop_head_load
  <1> QED
    BY <1>1, <1>2, <1>3, <1>4, <1>5, <1>6, <1>7

\* What the ring's invariant says of the histories and of the consumer.
LEMMA RingShape ==
    ASSUME RingFacts!Inv
    PROVE  /\ Len(head_) \in Nat \ {0} /\ Len(tail_) \in Nat \ {0}
           /\ c.seen \in Nat /\ c.synced = c.seen - 1
           /\ Len(tail_) <= c.seen /\ c.seen <= Len(head_)
           /\ Len(head_) - Len(tail_) <= Capacity
           /\ \A k \in 1 .. Len(head_) : head_[k].view = k - 1
           /\ Len(accepted) = Len(head_) - 1 /\ Len(delivered) = Len(tail_) - 1
           /\ accepted \in Seq(Range(Messages)) /\ delivered \in Seq(Range(Messages))
           /\ \A k \in 1 .. Len(delivered) : delivered[k] = accepted[k]
           /\ p \in RingFacts!Producer /\ c \in RingFacts!Consumer
  <1>1. /\ RingFacts!TypeOK /\ RingFacts!IndexInv /\ RingFacts!ThreadInv
        /\ RingFacts!SlotInv
    BY DEF RingFacts!Inv, RingFacts!RingInv
  <1>2. /\ Len(head_) \in Nat \ {0} /\ Len(tail_) \in Nat \ {0}
        /\ p.seen \in 1 .. Len(tail_) /\ c.seen \in 1 .. Len(head_)
        /\ accepted \in Seq(Range(Messages)) /\ delivered \in Seq(Range(Messages))
        /\ p \in RingFacts!Producer /\ c \in RingFacts!Consumer
    BY <1>1 DEF RingFacts!TypeOK
  <1>3. /\ Len(accepted) = Len(head_) - 1 /\ Len(delivered) = Len(tail_) - 1
        /\ \A k \in 1 .. Len(head_) : head_[k].view = k - 1
    BY <1>1 DEF RingFacts!IndexInv
  <1>4. /\ c.synced = c.seen - 1 /\ Len(tail_) <= c.seen
        /\ Len(head_) - p.seen <= Capacity
    BY <1>1 DEF RingFacts!ThreadInv
  <1>5. \A k \in 1 .. Len(delivered) : delivered[k] = accepted[k]
    BY <1>1 DEF RingFacts!SlotInv
  <1>6. /\ c.seen \in Nat /\ c.seen <= Len(head_)
        /\ Len(head_) - Len(tail_) <= Capacity
    BY <1>2, <1>4, RingAssumptions
  <1> QED
    BY <1>2, <1>3, <1>4, <1>5, <1>6

\* The ring's invariant survives each of its steps.
LEMMA RingNextInv ==
    RingFacts!Inv /\ [RingFacts!Next]_(RingFacts!vars) => RingFacts!Inv'
  BY RingAssumptions, RingFacts!NextInv

\* A consumer that has seen the latest store of head_ and finds it equal to
\* tail_ has taken everything.
LEMMA EmptyMeansDrained ==
    ASSUME RingFacts!Inv,
           tail_[Len(tail_)].value = head_[Len(head_)].value
    PROVE  Len(tail_) = Len(head_)
  <1>1. RingFacts!TypeOK /\ RingFacts!IndexInv
    BY DEF RingFacts!Inv, RingFacts!RingInv
  <1>2. /\ Len(tail_) \in 1 .. Len(tail_) /\ Len(tail_) \in 1 .. Len(head_)
        /\ Len(head_) \in 1 .. Len(head_)
        /\ Len(head_) <= Len(tail_) + Capacity
    BY RingShape, RingAssumptions
  <1>3. tail_[Len(tail_)].value = head_[Len(tail_)].value
    BY <1>1, <1>2 DEF RingFacts!IndexInv
  <1>4. ~(Len(tail_) < Len(head_))
    BY <1>1, <1>2, <1>3, RingAssumptions, RingFacts!DistinctSlots
  <1> QED
    BY <1>2, <1>4

-----------------------------------------------------------------------------
\* The counters are numbers and the flags Booleans.
SpscTypes ==
    /\ produced \in 0 .. Len(Messages) /\ consumed \in Nat
    /\ done_seen \in BOOLEAN /\ producer_done.stored \in BOOLEAN

\* The ring has accepted exactly the messages counted as produced, and push
\* is about the next one.
SpscProduced ==
    /\ Len(accepted) = produced
    /\ \A k \in 1 .. produced : accepted[k] = Messages[k]
    /\ p.pc # "idle" => produced < Len(Messages) /\ p.item = Messages[produced + 1]

\* producer_done publishes every store of head_, and whoever has loaded it
\* knows them all.
DoneInv ==
    /\ producer_done.stored => /\ produced = Len(Messages)
                               /\ producer_done.view = Len(head_)
    /\ done_seen => producer_done.stored /\ Len(head_) <= c.seen

\* The consumer has applied what was delivered to it, but for a message it
\* has just popped; it leaves its loop when the ring is drained.
SpscConsumed ==
    /\ loop # "pop" => c.pc = "idle"
    /\ loop = "check_empty" => done_seen
    /\ Len(delivered) = consumed + (IF loop = "process" THEN 1 ELSE 0)
    /\ loop = "process" => c.item = delivered[Len(delivered)]
    /\ loop = "finished" => done_seen /\ Len(tail_) = Len(head_)

SpscInv == RingFacts!Inv /\ SpscTypes /\ SpscProduced /\ DoneInv /\ SpscConsumed

\* The threads as they start, whatever their book.
SpscStart ==
    /\ Spsc!Ring!Init
    /\ producer_done = [stored |-> FALSE, view |-> 0] /\ done_seen = FALSE
    /\ loop = "check_done" /\ produced = 0 /\ consumed = 0

\* The initial states satisfy the invariant.
LEMMA SpscStartInv == SpscStart => SpscInv
  <1> SUFFICES ASSUME SpscStart PROVE SpscInv
    OBVIOUS
  <1>1. /\ producer_done = [stored |-> FALSE, view |-> 0] /\ done_seen = FALSE
        /\ loop = "check_done" /\ produced = 0 /\ consumed = 0
        /\ accepted = <<>> /\ delivered = <<>>
        /\ p.pc = "idle" /\ c.pc = "idle"
    BY DEF SpscStart, Spsc!Ring!Init
  <1>2. RingFacts!Inv
    <2>1. RingFacts!Init
      BY RingAssumptions DEF SpscStart, Spsc!Ring!Init, RingFacts!Init
    <2> QED
      BY <2>1, RingAssumptions, RingFacts!InitInv
  <1>3. SpscTypes
    <2>1. produced \in 0 .. Len(Messages) /\ consumed \in Nat
      BY <1>1, FeedType
    <2>2. producer_done.stored = FALSE
      BY <1>1
    <2>3. done_seen \in BOOLEAN /\ producer_done.stored \in BOOLEAN
      BY <1>1, <2>2
    <2> QED
      BY <2>1, <2>3 DEF SpscTypes
  <1>4. SpscProduced
    BY <1>1 DEF SpscProduced
  <1>5. DoneInv
    BY <1>1 DEF DoneInv
  <1>6. SpscConsumed
    BY <1>1 DEF SpscConsumed
  <1> QED
    BY <1>2, <1>3, <1>4, <1>5, <1>6 DEF SpscInv

\* push, up to its return: the ring may fill a slot, the feed does not move.
LEMMA SpscPushInv ==
    ASSUME SpscInv, Spsc!producer_push
    PROVE  SpscInv'
  <1>1. /\ produced < Len(Messages)
        /\ UNCHANGED <<producer_done, done_seen, loop, consumed, book>>
    BY DEF Spsc!producer_push
  <1>2. /\ produced \in 0 .. Len(Messages) /\ produced \in Nat
        /\ Len(Messages) \in Nat /\ produced + 1 \in 1 .. Len(Messages)
    BY <1>1, FeedType DEF SpscInv, SpscTypes
  <1>3. PICK item \in Range(Messages) : item = Messages[produced + 1]
    BY <1>2, FeedType
  <1>4. ~producer_done.stored /\ ~done_seen
    BY <1>1, <1>2 DEF SpscInv, DoneInv
  <1>5. loop # "finished"
    BY <1>4 DEF SpscInv, SpscConsumed
  <1>6. /\ Len(accepted) = produced /\ accepted \in Seq(Range(Messages))
        /\ \A k \in 1 .. produced : accepted[k] = Messages[k]
        /\ p \in RingFacts!Producer
    BY RingShape DEF SpscInv, SpscProduced
  <1>7. /\ RingFacts!Next
        /\ UNCHANGED <<c, tail_, delivered>>
        /\ produced' \in 0 .. Len(Messages)
        /\ SpscProduced'
    <2>1. CASE Spsc!Ring!push_load(item) /\ UNCHANGED produced
      <3>1. /\ UNCHANGED <<head_, tail_, buffer_, c, accepted, delivered>>
            /\ p'.pc # "idle" => p'.item = item
        <4>1. PICK s, n : s \in p.seen .. Len(tail_) /\
                p' = IF Spsc!Ring!is_full(tail_[s].value)
                     THEN [p EXCEPT !.seen = s, !.synced = n]
                     ELSE [pc |-> "write", item |-> item, seen |-> s, synced |-> n]
          BY <2>1 DEF Spsc!Ring!push_load
        <4>2. p.pc = "idle"
          BY <2>1 DEF Spsc!Ring!push_load
        <4>3. UNCHANGED <<head_, tail_, buffer_, c, accepted, delivered>>
          BY <2>1 DEF Spsc!Ring!push_load
        <4> QED
          BY <1>6, <4>1, <4>2, <4>3 DEF RingFacts!Producer
      <3>2. SpscProduced'
        BY <1>1, <1>3, <1>6, <2>1, <3>1 DEF SpscProduced
      <3> QED
        BY <1>2, <2>1, <3>1, <3>2, RingSteps
    <2>2. CASE Spsc!Ring!push_write /\ UNCHANGED produced
      <3>1. /\ UNCHANGED <<head_, tail_, c, accepted, delivered>>
            /\ p' = [p EXCEPT !.pc = "publish"] /\ p.pc = "write"
        BY <2>2 DEF Spsc!Ring!push_write
      <3>2. p'.item = p.item
        BY <1>6, <3>1 DEF RingFacts!Producer
      <3>3. p.item = Messages[produced + 1]
        BY <3>1 DEF SpscInv, SpscProduced
      <3>4. SpscProduced'
        BY <1>1, <1>6, <2>2, <3>1, <3>2, <3>3 DEF SpscProduced
      <3> QED
        BY <1>2, <2>2, <3>1, <3>4, RingSteps
    <2>3. CASE Spsc!Ring!push_publish /\ produced' = produced + 1
      <3>1. /\ UNCHANGED <<tail_, buffer_, c, delivered>>
            /\ accepted' = Append(accepted, p.item)
            /\ p' = [p EXCEPT !.pc = "idle"] /\ p.pc = "publish"
        BY <2>3 DEF Spsc!Ring!push_publish
      <3>2. p'.pc = "idle" /\ p.item \in Range(Messages)
        BY <1>6, <3>1 DEF RingFacts!Producer
      <3>3. p.item = Messages[produced + 1]
        BY <3>1 DEF SpscInv, SpscProduced
      <3>4. /\ Len(accepted') = produced + 1
            /\ accepted'[produced + 1] = p.item
            /\ \A k \in 1 .. produced : accepted'[k] = accepted[k]
        BY <1>2, <1>6, <3>1, <3>2
      <3>5. \A k \in 1 .. produced + 1 : accepted'[k] = Messages[k]
        <4>1. \A k \in 1 .. produced + 1 : k \in 1 .. produced \/ k = produced + 1
          BY <1>2
        <4> QED
          BY <1>6, <3>3, <3>4, <4>1
      <3>6. SpscProduced'
        BY <2>3, <3>2, <3>4, <3>5 DEF SpscProduced
      <3>7. produced' \in 0 .. Len(Messages)
        BY <1>1, <1>2, <2>3
      <3> QED
        BY <2>3, <3>1, <3>6, <3>7, RingSteps
    <2>4. \/ Spsc!Ring!push_load(item) /\ UNCHANGED produced
          \/ Spsc!Ring!push_write /\ UNCHANGED produced
          \/ Spsc!Ring!push_publish /\ produced' = produced + 1
      BY <1>3 DEF Spsc!producer_push
    <2> QED
      BY <2>1, <2>2, <2>3, <2>4
  <1>8. RingFacts!Inv'
    BY <1>7, RingNextInv DEF SpscInv
  <1>9. SpscTypes'
    BY <1>1, <1>7 DEF SpscInv, SpscTypes
  <1>10. DoneInv'
    BY <1>1, <1>4 DEF DoneInv
  <1>11. SpscConsumed'
    BY <1>1, <1>5, <1>7 DEF SpscInv, SpscConsumed
  <1> QED
    BY <1>7, <1>8, <1>9, <1>10, <1>11 DEF SpscInv

\* The flag publishes the stores of head_ made before it.
LEMMA SpscFinishInv ==
    ASSUME SpscInv, Spsc!producer_finish
    PROVE  SpscInv'
  <1>1. /\ produced = Len(Messages) /\ ~producer_done.stored
        /\ producer_done' = [stored |-> TRUE, view |-> Len(head_)]
        /\ UNCHANGED <<head_, tail_, buffer_, p, c, accepted, delivered>>
        /\ UNCHANGED <<done_seen, loop, produced, consumed>>
    BY DEF Spsc!producer_finish, Spsc!ringVars, Spsc!Ring!Published, Spsc!done_store
  <1>2. producer_done'.stored = TRUE /\ producer_done'.view = Len(head_)
    BY <1>1
  <1>3. producer_done'.stored \in BOOLEAN
    BY <1>2
  <1>4. ~done_seen
    BY <1>1 DEF SpscInv, DoneInv
  <1>5. RingFacts!Inv'
    BY <1>1, RingNextInv DEF SpscInv, RingFacts!vars
  <1>6. SpscTypes'
    BY <1>1, <1>3 DEF SpscInv, SpscTypes
  <1>7. SpscProduced'
    BY <1>1 DEF SpscInv, SpscProduced
  <1>8. DoneInv'
    BY <1>1, <1>2, <1>4 DEF DoneInv
  <1>9. SpscConsumed'
    BY <1>1 DEF SpscInv, SpscConsumed
  <1> QED
    BY <1>5, <1>6, <1>7, <1>8, <1>9 DEF SpscInv

-----------------------------------------------------------------------------
\* What a step of the consumer inside the ring keeps of the invariant, as
\* long as it forgets no store it has seen.
LEMMA ConsumerKeeps ==
    ASSUME SpscInv, RingFacts!Next,
           UNCHANGED <<head_, p, accepted, producer_done, done_seen, produced,
                       consumed>>,
           c'.seen \in Nat, c.seen <= c'.seen
    PROVE  RingFacts!Inv' /\ SpscTypes' /\ SpscProduced' /\ DoneInv'
  <1>1. RingFacts!Inv'
    BY RingNextInv DEF SpscInv
  <1>2. SpscTypes'
    BY DEF SpscInv, SpscTypes
  <1>3. SpscProduced'
    BY DEF SpscInv, SpscProduced
  <1>4. DoneInv'
    <2>1. c.seen \in Nat /\ Len(head_) \in Nat
      BY RingShape DEF SpscInv
    <2>2. done_seen => producer_done.stored /\ Len(head_) <= c'.seen
      <3>1. done_seen => producer_done.stored /\ Len(head_) <= c.seen
        BY DEF SpscInv, DoneInv
      <3>2. Len(head_) <= c.seen => Len(head_) <= c'.seen
        BY <2>1
      <3> QED
        BY <3>1, <3>2
    <2> QED
      BY <2>2 DEF SpscInv, DoneInv
  <1> QED
    BY <1>1, <1>2, <1>3, <1>4

\* The consumer loads producer_done: its acquire makes it know every store
\* of head_, as if it had looked at the latest one itself.
LEMMA DoneLoadedInv ==
    ASSUME SpscInv, Spsc!done_loaded
    PROVE  SpscInv'
  <1>1. /\ loop = "check_done" /\ producer_done.stored
        /\ done_seen' = TRUE /\ loop' = "check_empty"
        /\ UNCHANGED <<head_, tail_, buffer_, p, accepted, delivered>>
        /\ UNCHANGED <<producer_done, produced, consumed>>
    BY DEF Spsc!done_loaded
  <1>2. /\ c.pc = "idle" /\ producer_done.view = Len(head_)
        /\ produced = Len(Messages)
    BY <1>1 DEF SpscInv, SpscConsumed, DoneInv
  <1>3. /\ Len(head_) \in Nat \ {0} /\ c.seen \in Nat /\ c.synced = c.seen - 1
        /\ c.seen <= Len(head_) /\ Len(head_) \in c.seen .. Len(head_)
        /\ head_[Len(head_)].view = Len(head_) - 1
        /\ c \in RingFacts!Consumer
    BY RingShape DEF SpscInv
  <1>4. Spsc!Ring!Learned(Spsc!done_load, c.seen, producer_done.view) = Len(head_)
    BY <1>2, <1>3 DEF Spsc!Ring!Learned, Spsc!done_load
  <1>5. Spsc!Ring!Learned(Spsc!done_load, c.synced, Len(head_) - 1)
          = RingFacts!Learned(RingFacts!pop_head_load, c.synced,
                              head_[Len(head_)].view)
    BY <1>3 DEF Spsc!Ring!Learned, Spsc!done_load, RingFacts!Learned,
           RingFacts!pop_head_load
  <1>6. c' = [c EXCEPT !.seen = Len(head_),
                       !.synced = RingFacts!Learned(RingFacts!pop_head_load,
                                    c.synced, head_[Len(head_)].view)]
    BY <1>4, <1>5 DEF Spsc!done_loaded
  <1>7. RingFacts!empty
    BY <1>1, <1>2, <1>3, <1>6 DEF RingFacts!empty
  <1>8. c'.seen = Len(head_) /\ c'.pc = "idle"
    BY <1>2, <1>3, <1>6 DEF RingFacts!Consumer
  <1>9. RingFacts!Inv'
    BY <1>7, RingNextInv DEF SpscInv, RingFacts!Next
  <1>10. SpscTypes'
    <2>1. done_seen' \in BOOLEAN
      BY <1>1
    <2> QED
      BY <1>1, <2>1 DEF SpscInv, SpscTypes
  <1>11. SpscProduced'
    BY <1>1 DEF SpscInv, SpscProduced
  <1>12. DoneInv'
    BY <1>1, <1>2, <1>3, <1>8 DEF DoneInv
  <1>13. SpscConsumed'
    BY <1>1, <1>8 DEF SpscInv, SpscConsumed
  <1> QED
    BY <1>9, <1>10, <1>11, <1>12, <1>13 DEF SpscInv

\* A load that misses the flag changes nothing but the place in the loop.
LEMMA DoneNotLoadedInv ==
    ASSUME SpscInv, Spsc!done_not_loaded
    PROVE  SpscInv'
  <1>1. /\ loop = "check_done" /\ loop' = "pop"
        /\ UNCHANGED <<head_, tail_, buffer_, p, c, accepted, delivered>>
        /\ UNCHANGED <<producer_done, done_seen, produced, consumed>>
    BY DEF Spsc!done_not_loaded, Spsc!ringVars
  <1>2. RingFacts!Inv'
    BY <1>1, RingNextInv DEF SpscInv, RingFacts!vars
  <1> QED
    BY <1>1, <1>2
       DEF SpscInv, SpscTypes, SpscProduced, DoneInv, SpscConsumed

\* The ring is found empty only when it is drained: after producer_done no
\* stale store of head_ can be loaded any more.
LEMMA CheckEmptyInv ==
    ASSUME SpscInv, Spsc!check_empty
    PROVE  SpscInv'
  <1>1. /\ loop = "check_empty" /\ Spsc!Ring!empty
        /\ loop' = IF Spsc!Ring!is_empty(c'.seen) THEN "finished" ELSE "pop"
        /\ UNCHANGED <<producer_done, done_seen, produced, consumed>>
    BY DEF Spsc!check_empty
  <1>2. PICK s, n : /\ s \in c.seen .. Len(head_)
                    /\ c' = [c EXCEPT !.seen = s, !.synced = n]
    BY <1>1 DEF Spsc!Ring!empty
  <1>3. /\ c.pc = "idle"
        /\ UNCHANGED <<head_, tail_, buffer_, p, accepted, delivered>>
    BY <1>1 DEF Spsc!Ring!empty
  <1>4. /\ c.seen \in Nat /\ Len(head_) \in Nat /\ c.seen <= Len(head_)
        /\ c \in RingFacts!Consumer
    BY RingShape DEF SpscInv
  <1>5. /\ done_seen /\ Len(head_) <= c.seen
    BY <1>1 DEF SpscInv, SpscConsumed, DoneInv
  <1>6. /\ c'.seen = s /\ s \in Nat /\ c.seen <= s /\ s = Len(head_)
        /\ c'.pc = "idle"
    BY <1>2, <1>3, <1>4, <1>5 DEF RingFacts!Consumer
  <1>7. RingFacts!Inv' /\ SpscTypes' /\ SpscProduced' /\ DoneInv'
    BY <1>1, <1>3, <1>6, RingSteps, ConsumerKeeps
  <1>8. loop' = "finished" => Len(tail_) = Len(head_)
    <2>1. loop' = "finished"
            => tail_[Len(tail_)].value = head_[Len(head_)].value
      BY <1>1, <1>6 DEF Spsc!Ring!is_empty, Spsc!Ring!tail
    <2> QED
      BY <2>1, EmptyMeansDrained DEF SpscInv
  <1>9. loop' = "finished" \/ loop' = "pop"
    BY <1>1
  <1>10. SpscConsumed'
    <2>1. Len(delivered) = consumed
      BY <1>1, RingShape DEF SpscInv, SpscConsumed, SpscTypes
    <2>2. consumed \in Nat
      BY DEF SpscInv, SpscTypes
    <2>3. consumed + 0 = consumed
      BY <2>2
    <2> QED
      BY <1>1, <1>3, <1>5, <1>6, <1>8, <1>9, <2>1, <2>3 DEF SpscConsumed
  <1> QED
    BY <1>7, <1>10 DEF SpscInv

\* pop, up to its return; the message it delivers is about to be applied.
LEMMA SpscPopInv ==
    ASSUME SpscInv, Spsc!consumer_pop
    PROVE  SpscInv'
  <1>1. /\ loop = "pop"
        /\ UNCHANGED <<producer_done, done_seen, produced, consumed>>
    BY DEF Spsc!consumer_pop
  <1>2. /\ c.seen \in Nat /\ Len(head_) \in Nat /\ c \in RingFacts!Consumer
        /\ delivered \in Seq(Range(Messages)) /\ Len(delivered) \in Nat
    BY RingShape DEF SpscInv
  <1>3. Len(delivered) = consumed /\ consumed \in Nat
    BY <1>1 DEF SpscInv, SpscConsumed, SpscTypes
  <1>4. CASE /\ Spsc!Ring!pop_load
             /\ loop' = IF c'.pc = "read" THEN "pop" ELSE "check_done"
    <2>1. PICK s, n :
            /\ s \in c.seen .. Len(head_)
            /\ c' = [c EXCEPT !.pc = IF Spsc!Ring!is_empty(s) THEN "idle" ELSE "read",
                              !.seen = s, !.synced = n]
      BY <1>4 DEF Spsc!Ring!pop_load
    <2>2. UNCHANGED <<head_, tail_, buffer_, p, accepted, delivered>>
      BY <1>4 DEF Spsc!Ring!pop_load
    <2>3. c'.seen = s /\ (c'.pc = "idle" \/ c'.pc = "read")
      BY <1>2, <2>1 DEF RingFacts!Consumer
    <2>4. s \in Nat /\ c.seen <= s
      BY <1>2, <2>1
    <2>5. RingFacts!Inv' /\ SpscTypes' /\ SpscProduced' /\ DoneInv'
      BY <1>1, <1>4, <2>2, <2>3, <2>4, RingSteps, ConsumerKeeps
    <2>6. SpscConsumed'
      BY <1>1, <1>3, <1>4, <2>2, <2>3 DEF SpscConsumed
    <2> QED
      BY <2>5, <2>6 DEF SpscInv
  <1>5. CASE Spsc!Ring!pop_read /\ UNCHANGED loop
    <2>1. PICK item : c' = [c EXCEPT !.pc = "release", !.item = item]
      BY <1>5 DEF Spsc!Ring!pop_read
    <2>2. UNCHANGED <<head_, tail_, p, accepted, delivered>>
      BY <1>5 DEF Spsc!Ring!pop_read
    <2>3. c'.seen = c.seen
      BY <1>2, <2>1 DEF RingFacts!Consumer
    <2>4. RingFacts!Inv' /\ SpscTypes' /\ SpscProduced' /\ DoneInv'
      BY <1>1, <1>2, <1>5, <2>2, <2>3, RingSteps, ConsumerKeeps
    <2>5. SpscConsumed'
      BY <1>1, <1>3, <1>5, <2>2 DEF SpscConsumed
    <2> QED
      BY <2>4, <2>5 DEF SpscInv
  <1>6. CASE Spsc!Ring!pop_release /\ loop' = "process"
    <2>1. /\ c' = [c EXCEPT !.pc = "idle"]
          /\ delivered' = Append(delivered, c.item)
          /\ UNCHANGED <<head_, buffer_, p, accepted>>
      BY <1>6 DEF Spsc!Ring!pop_release
    <2>2. /\ c'.seen = c.seen /\ c'.pc = "idle" /\ c'.item = c.item
          /\ c.item \in Range(Messages)
      BY <1>2, <2>1 DEF RingFacts!Consumer
    <2>3. RingFacts!Inv' /\ SpscTypes' /\ SpscProduced' /\ DoneInv'
      BY <1>1, <1>2, <1>6, <2>1, <2>2, RingSteps, ConsumerKeeps
    <2>4. /\ Len(delivered') = consumed + 1
          /\ delivered'[Len(delivered')] = c.item
      BY <1>2, <1>3, <2>1, <2>2
    <2>5. SpscConsumed'
      BY <1>1, <1>6, <2>2, <2>4 DEF SpscConsumed
    <2> QED
      BY <2>3, <2>5 DEF SpscInv
  <1> QED
    BY <1>4, <1>5, <1>6 DEF Spsc!consumer_pop

\* The message about to be applied is the next one of the feed.
LEMMA SpscPopped ==
    ASSUME SpscInv, loop = "process"
    PROVE  /\ consumed < Len(Messages)
           /\ c.item = Messages[consumed + 1]
  <1>1. /\ Len(delivered) = consumed + 1 /\ consumed \in Nat
        /\ c.item = delivered[Len(delivered)]
        /\ Len(accepted) = produced /\ produced \in 0 .. Len(Messages)
        /\ \A k \in 1 .. produced : accepted[k] = Messages[k]
    BY DEF SpscInv, SpscConsumed, SpscTypes, SpscProduced
  <1>2. Len(delivered) <= Len(accepted)
    BY RingShape DEF SpscInv
  <1>3. consumed + 1 \in 1 .. produced /\ consumed < Len(Messages)
    BY <1>1, <1>2, FeedType
  <1>4. consumed + 1 \in 1 .. Len(delivered)
    BY <1>1
  <1>5. delivered[consumed + 1] = Messages[consumed + 1]
    BY <1>1, <1>3, <1>4, RingShape DEF SpscInv
  <1> QED
    BY <1>1, <1>3, <1>5

\* The consumer has applied its message, to whatever book.
SpscProcessed ==
    /\ loop = "process" /\ loop' = "check_done" /\ consumed' = consumed + 1
    /\ UNCHANGED <<head_, tail_, buffer_, p, c, accepted, delivered>>
    /\ UNCHANGED <<producer_done, done_seen, produced>>

\* Applying a message leaves the ring alone.
LEMMA SpscProcessInv ==
    ASSUME SpscInv, SpscProcessed
    PROVE  SpscInv'
  <1>1. /\ loop = "process" /\ loop' = "check_done" /\ consumed' = consumed + 1
        /\ UNCHANGED <<head_, tail_, buffer_, p, c, accepted, delivered>>
        /\ UNCHANGED <<producer_done, done_seen, produced>>
    BY DEF SpscProcessed
  <1>2. RingFacts!Inv'
    BY <1>1, RingNextInv DEF SpscInv, RingFacts!vars
  <1>3. SpscTypes'
    BY <1>1 DEF SpscInv, SpscTypes
  <1>4. SpscProduced' /\ DoneInv'
    BY <1>1 DEF SpscInv, SpscProduced, DoneInv
  <1>5. SpscConsumed'
    <2>1. Len(delivered) = consumed + 1 /\ consumed \in Nat /\ c.pc = "idle"
      BY <1>1 DEF SpscInv, SpscConsumed, SpscTypes
    <2>2. Len(delivered') = consumed' + 0
      BY <1>1, <2>1
    <2> QED
      BY <1>1, <2>1, <2>2 DEF SpscConsumed
  <1> QED
    BY <1>2, <1>3, <1>4, <1>5 DEF SpscInv

\* A step of the threads that does not touch the book, or none.
SpscBookless ==
    \/ UNCHANGED <<head_, tail_, buffer_, p, c, accepted, delivered,
                   producer_done, done_seen, loop, produced, consumed>>
    \/ Spsc!producer_push \/ Spsc!producer_finish
    \/ Spsc!done_loaded \/ Spsc!done_not_loaded
    \/ Spsc!check_empty \/ Spsc!consumer_pop

\* Such a step keeps the invariant.
LEMMA SpscBooklessInv ==
    ASSUME SpscInv, SpscBookless
    PROVE  SpscInv'
  <1>1. CASE UNCHANGED <<head_, tail_, buffer_, p, c, accepted, delivered,
                         producer_done, done_seen, loop, produced, consumed>>
    <2>1. RingFacts!Inv'
      BY <1>1, RingNextInv DEF SpscInv, RingFacts!vars
    <2> QED
      BY <1>1, <2>1
         DEF SpscInv, SpscTypes, SpscProduced, DoneInv, SpscConsumed
  <1> QED
    BY <1>1, SpscPushInv, SpscFinishInv, DoneLoadedInv, DoneNotLoadedInv,
       CheckEmptyInv, SpscPopInv DEF SpscBookless

\* The program's steps are of these two kinds.
LEMMA SpscSteps ==
    ASSUME [Spsc!Next]_(Spsc!vars)
    PROVE  \/ SpscBookless /\ UNCHANGED <<consumed, book>>
           \/ SpscProcessed /\ Spsc!consumer_process
  <1>1. Spsc!consumer_process => SpscProcessed
    BY DEF SpscProcessed, Spsc!consumer_process, Spsc!ringVars
  <1>2. CASE UNCHANGED Spsc!vars
    BY <1>2 DEF SpscBookless, Spsc!vars, Spsc!ringVars
  <1>3. /\ Spsc!producer_push => SpscBookless /\ UNCHANGED <<consumed, book>>
        /\ Spsc!producer_finish => SpscBookless /\ UNCHANGED <<consumed, book>>
    BY DEF SpscBookless, Spsc!producer_push, Spsc!producer_finish
  <1>4. /\ Spsc!done_loaded => SpscBookless /\ UNCHANGED <<consumed, book>>
        /\ Spsc!done_not_loaded => SpscBookless /\ UNCHANGED <<consumed, book>>
    BY DEF SpscBookless, Spsc!done_loaded, Spsc!done_not_loaded
  <1>5. /\ Spsc!check_empty => SpscBookless /\ UNCHANGED <<consumed, book>>
        /\ Spsc!consumer_pop => SpscBookless /\ UNCHANGED <<consumed, book>>
    BY DEF SpscBookless, Spsc!check_empty, Spsc!consumer_pop
  <1> QED
    BY <1>1, <1>2, <1>3, <1>4, <1>5
       DEF Spsc!Next, Spsc!Producer, Spsc!Consumer, Spsc!Joined

\* The invariant holds from the start and every step keeps it.
LEMMA SpscInductive ==
    /\ Spsc!Init => SpscInv
    /\ SpscInv /\ [Spsc!Next]_(Spsc!vars) => SpscInv'
  <1>1. Spsc!Init => SpscInv
    BY SpscStartInv DEF SpscStart, Spsc!Init
  <1>2. SpscInv /\ [Spsc!Next]_(Spsc!vars) => SpscInv'
    BY SpscSteps, SpscBooklessInv, SpscProcessInv
  <1> QED
    BY <1>1, <1>2

\* A consumer that has left its loop has consumed the feed.
LEMMA SpscAtExit ==
    ASSUME SpscInv, loop = "finished"
    PROVE  produced = Len(Messages) /\ consumed = Len(Messages)
  <1>1. /\ producer_done.stored /\ Len(tail_) = Len(head_)
        /\ Len(delivered) = consumed + 0 /\ consumed \in Nat
    BY DEF SpscInv, SpscConsumed, SpscTypes, DoneInv
  <1>2. produced = Len(Messages) /\ Len(accepted) = produced
    BY <1>1 DEF SpscInv, DoneInv, SpscProduced
  <1>3. Len(delivered) = Len(accepted)
    BY <1>1, RingShape DEF SpscInv
  <1> QED
    BY <1>1, <1>2, <1>3

(***************************************************************************)
(* The consumer of the SPSC ring leaves its loop only after the last       *)
(* message was produced and consumed, however stale the indexes it loads:  *)
(* the release and the acquire of producer_done see to it.                 *)
(***************************************************************************)
THEOREM SpscAllConsumed == Spsc!Spec => []Spsc!AllConsumedAtExit
  <1>1. SpscInv => Spsc!AllConsumedAtExit
    BY SpscAtExit DEF Spsc!AllConsumedAtExit
  <1> QED
    BY <1>1, SpscInductive, PTL DEF Spsc!Spec

\* A step of the program is a step of the replay, or invisible to it.
LEMMA SpscStepReplays ==
    SpscInv /\ [Spsc!Next]_(Spsc!vars)
      => [Spsc!OneReplay!Next]_<<Messages, consumed, book>>
  <1> SUFFICES ASSUME SpscInv, [Spsc!Next]_(Spsc!vars)
               PROVE  [Spsc!OneReplay!Next]_<<Messages, consumed, book>>
    OBVIOUS
  <1>1. CASE Spsc!consumer_process
    <2>1. /\ loop = "process" /\ book' = ApplyMessage(book, c.item)
          /\ consumed' = consumed + 1
      BY <1>1 DEF Spsc!consumer_process
    <2>2. Spsc!OneReplay!Apply
      BY <2>1, SpscPopped DEF Spsc!OneReplay!Apply
    <2> QED
      BY <2>2 DEF Spsc!OneReplay!Next
  <1>2. CASE UNCHANGED <<consumed, book>>
    BY <1>2
  <1> QED
    BY <1>1, <1>2, SpscSteps

(***************************************************************************)
(* The threads around the SPSC ring implement one replay of the feed, with *)
(* any book: no message is dropped, repeated, reordered or corrupted.      *)
(***************************************************************************)
THEOREM SpscImplementsReplay == Spsc!Spec => Spsc!ImplementsReplay
  <1>1. Spsc!Init => Spsc!OneReplay!Init
    BY FeedAssumption, RingAssumptions DEF Spsc!Init, Spsc!OneReplay!Init
  <1> QED
    BY <1>1, SpscInductive, SpscStepReplays, PTL
       DEF Spsc!Spec, Spsc!ImplementsReplay, Spsc!OneReplay!Spec

-----------------------------------------------------------------------------
(***************************************************************************)
(* The same threads with the pooled book.  Their steps that do not touch   *)
(* the book are those above.                                               *)
(***************************************************************************)
\* The calls of the ring do not depend on the book.
LEMMA PooledRingCalls ==
    /\ \A item : SpscThreads!Ring!push_load(item) <=> Spsc!Ring!push_load(item)
    /\ SpscThreads!Ring!push_write <=> Spsc!Ring!push_write
    /\ SpscThreads!Ring!push_publish <=> Spsc!Ring!push_publish
    /\ SpscThreads!Ring!pop_load <=> Spsc!Ring!pop_load
    /\ SpscThreads!Ring!pop_read <=> Spsc!Ring!pop_read
    /\ SpscThreads!Ring!pop_release <=> Spsc!Ring!pop_release
    /\ SpscThreads!Ring!empty <=> Spsc!Ring!empty
    /\ SpscThreads!Ring!Init <=> Spsc!Ring!Init
    /\ \A k : SpscThreads!Ring!is_empty(k) <=> Spsc!Ring!is_empty(k)
  <1> USE DEF SpscThreads!Ring!Learned, Spsc!Ring!Learned,
          SpscThreads!Ring!Published, Spsc!Ring!Published, SpscThreads!Ring!head,
          Spsc!Ring!head, SpscThreads!Ring!tail, Spsc!Ring!tail
  <1>1. ASSUME NEW item
        PROVE  SpscThreads!Ring!push_load(item) <=> Spsc!Ring!push_load(item)
    BY DEF SpscThreads!Ring!push_load, Spsc!Ring!push_load,
           SpscThreads!Ring!push_tail_load, Spsc!Ring!push_tail_load,
           SpscThreads!Ring!is_full, Spsc!Ring!is_full, SpscThreads!Ring!increment,
           Spsc!Ring!increment, SpscThreads!Ring!capacity_, Spsc!Ring!capacity_
  <1>2. SpscThreads!Ring!push_write <=> Spsc!Ring!push_write
    BY DEF SpscThreads!Ring!push_write, Spsc!Ring!push_write
  <1>3. SpscThreads!Ring!push_publish <=> Spsc!Ring!push_publish
    BY DEF SpscThreads!Ring!push_publish, Spsc!Ring!push_publish,
           SpscThreads!Ring!push_head_store, Spsc!Ring!push_head_store,
           SpscThreads!Ring!increment, Spsc!Ring!increment,
           SpscThreads!Ring!capacity_, Spsc!Ring!capacity_
  <1>4. SpscThreads!Ring!pop_load <=> Spsc!Ring!pop_load
    BY DEF SpscThreads!Ring!pop_load, Spsc!Ring!pop_load,
           SpscThreads!Ring!pop_head_load, Spsc!Ring!pop_head_load,
           SpscThreads!Ring!is_empty, Spsc!Ring!is_empty
  <1>5. SpscThreads!Range(Messages) = Spsc!Range(Messages)
    BY DEF SpscThreads!Range, Spsc!Range
  <1>6. SpscThreads!Ring!pop_read <=> Spsc!Ring!pop_read
    BY <1>5 DEF SpscThreads!Ring!pop_read, Spsc!Ring!pop_read
  <1>7. SpscThreads!Ring!pop_release <=> Spsc!Ring!pop_release
    BY DEF SpscThreads!Ring!pop_release, Spsc!Ring!pop_release,
           SpscThreads!Ring!pop_tail_store, Spsc!Ring!pop_tail_store,
           SpscThreads!Ring!increment, Spsc!Ring!increment,
           SpscThreads!Ring!capacity_, Spsc!Ring!capacity_
  <1>8. SpscThreads!Ring!empty <=> Spsc!Ring!empty
    BY DEF SpscThreads!Ring!empty, Spsc!Ring!empty,
           SpscThreads!Ring!pop_head_load, Spsc!Ring!pop_head_load
  <1>9. SpscThreads!Ring!Init <=> Spsc!Ring!Init
    BY <1>5 DEF SpscThreads!Ring!Init, Spsc!Ring!Init
  <1>10. \A k : SpscThreads!Ring!is_empty(k) <=> Spsc!Ring!is_empty(k)
    BY DEF SpscThreads!Ring!is_empty, Spsc!Ring!is_empty
  <1> QED
    BY <1>1, <1>2, <1>3, <1>4, <1>6, <1>7, <1>8, <1>9, <1>10

\* The steps of the program with the pooled book.
LEMMA PooledSteps ==
    ASSUME [PooledNext]_pooledVars
    PROVE  \/ SpscBookless /\ UNCHANGED <<consumed, book>>
           \/ SpscProcessed /\ book' = Pooled!on_message(book, c.item)
  <1>1. CASE UNCHANGED pooledVars
    BY <1>1 DEF SpscBookless, pooledVars, SpscThreads!vars, SpscThreads!ringVars
  <1>2. CASE SpscThreads!producer_push
    <2>1. Spsc!producer_push
      BY <1>2, PooledRingCalls DEF SpscThreads!producer_push, Spsc!producer_push
    <2> QED
      BY <1>2, <2>1 DEF SpscBookless, SpscThreads!producer_push
  <1>3. CASE SpscThreads!producer_finish
    <2>1. Spsc!producer_finish
      BY <1>3 DEF SpscThreads!producer_finish, Spsc!producer_finish,
             SpscThreads!ringVars, Spsc!ringVars, SpscThreads!done_store,
             Spsc!done_store, SpscThreads!Ring!Published, Spsc!Ring!Published
    <2> QED
      BY <1>3, <2>1 DEF SpscBookless, SpscThreads!producer_finish
  <1>4. CASE SpscThreads!done_loaded
    <2>1. Spsc!done_loaded
      BY <1>4 DEF SpscThreads!done_loaded, Spsc!done_loaded, SpscThreads!done_load,
             Spsc!done_load, SpscThreads!Ring!Learned, Spsc!Ring!Learned
    <2> QED
      BY <1>4, <2>1 DEF SpscBookless, SpscThreads!done_loaded
  <1>5. CASE SpscThreads!done_not_loaded
    <2>1. Spsc!done_not_loaded
      BY <1>5 DEF SpscThreads!done_not_loaded, Spsc!done_not_loaded,
             SpscThreads!ringVars, Spsc!ringVars
    <2> QED
      BY <1>5, <2>1 DEF SpscBookless, SpscThreads!done_not_loaded
  <1>6. CASE SpscThreads!check_empty
    <2>1. Spsc!check_empty
      BY <1>6, PooledRingCalls DEF SpscThreads!check_empty, Spsc!check_empty
    <2> QED
      BY <1>6, <2>1 DEF SpscBookless, SpscThreads!check_empty
  <1>7. CASE SpscThreads!consumer_pop
    <2>1. Spsc!consumer_pop
      BY <1>7, PooledRingCalls DEF SpscThreads!consumer_pop, Spsc!consumer_pop
    <2> QED
      BY <1>7, <2>1 DEF SpscBookless, SpscThreads!consumer_pop
  <1>8. CASE SpscThreads!consumer_process
    BY <1>8 DEF SpscProcessed, SpscThreads!consumer_process, SpscThreads!ringVars
  <1>9. CASE SpscThreads!Joined
    BY <1>1, <1>9 DEF SpscThreads!Joined, pooledVars
  <1> QED
    BY <1>1, <1>2, <1>3, <1>4, <1>5, <1>6, <1>7, <1>8, <1>9
       DEF PooledNext, PooledProducer, PooledConsumer, PooledJoined,
           SpscThreads!Producer, SpscThreads!Consumer

\* The threads' invariant holds with the pooled book too.
LEMMA PooledInductive ==
    /\ PooledInit => SpscInv
    /\ SpscInv /\ [PooledNext]_pooledVars => SpscInv'
  <1>1. PooledInit => SpscInv
    BY SpscStartInv, PooledRingCalls DEF SpscStart, PooledInit, SpscThreads!Init
  <1>2. SpscInv /\ [PooledNext]_pooledVars => SpscInv'
    BY PooledSteps, SpscBooklessInv, SpscProcessInv
  <1> QED
    BY <1>1, <1>2

(***************************************************************************)
(* The consumer with the pooled book, too, leaves its loop only after the  *)
(* last message was produced and consumed.                                 *)
(***************************************************************************)
THEOREM PooledAllConsumed == PooledSpec => []PooledAllConsumedAtExit
  <1>1. SpscInv => PooledAllConsumedAtExit
    BY SpscAtExit DEF PooledAllConsumedAtExit, SpscThreads!AllConsumedAtExit
  <1> QED
    BY <1>1, PooledInductive, PTL DEF PooledSpec

(***************************************************************************)
(* The threads with the pooled book implement one replay of the feed on    *)
(* it, whether or not its pool is large enough.                            *)
(***************************************************************************)
THEOREM PooledReplays == PooledSpec => PooledImplementsReplay
  <1>1. PooledInit => SpscThreads!OneReplay!Init
    <2>1. SpscThreads!Range(Messages) = Range(Messages)
      BY DEF SpscThreads!Range, Range
    <2> QED
      BY <2>1, FeedAssumption DEF PooledInit, SpscThreads!Init, SpscThreads!OneReplay!Init
  <1>2. SpscInv /\ [PooledNext]_pooledVars
          => [SpscThreads!OneReplay!Next]_<<Messages, consumed, book>>
    <2> SUFFICES ASSUME SpscInv, [PooledNext]_pooledVars
                 PROVE  [SpscThreads!OneReplay!Next]_<<Messages, consumed, book>>
      OBVIOUS
    <2>1. CASE UNCHANGED <<consumed, book>>
      BY <2>1
    <2>2. CASE SpscProcessed /\ book' = Pooled!on_message(book, c.item)
      <3>1. SpscThreads!OneReplay!Apply
        BY <2>2, SpscPopped DEF SpscThreads!OneReplay!Apply, SpscProcessed
      <3> QED
        BY <3>1 DEF SpscThreads!OneReplay!Next
    <2> QED
      BY <2>1, <2>2, PooledSteps
  <1> QED
    BY <1>1, <1>2, PooledInductive, PTL
       DEF PooledSpec, PooledImplementsReplay, SpscThreads!ImplementsReplay,
           SpscThreads!OneReplay!Spec

-----------------------------------------------------------------------------
\* Every thread runs where it may run, and its counts are numbers.
SharingTypes ==
    /\ counters \in [Threads -> Nat] /\ migrations \in [Threads -> Nat]
    /\ iteration \in [Threads -> Nat] /\ moves \in [Threads -> Nat]
    /\ pc \in [Threads -> {"pin", "first_reading", "increment", "sample"}]
    /\ last_cpu \in [Threads -> Cpus \union {-1}]
    /\ cpu \in [Threads -> Cpus]
    /\ affinity \in [Threads -> SUBSET Cpus]

\* A thread is ahead of its iterations only between an increment and the
\* sample that belongs to it.
CountsInv(t) ==
    counters[t] = iteration[t] + (IF pc[t] = "sample" THEN 1 ELSE 0)

\* A move that is not counted yet is one the next sample may find.
MovesInv(t) ==
    /\ pc[t] \in {"pin", "first_reading"} => last_cpu[t] = -1
    /\ migrations[t] + (IF last_cpu[t] \notin {-1, cpu[t]} THEN 1 ELSE 0) <= moves[t]

SharingInv == /\ SharingTypes
              /\ \A t \in Threads : CountsInv(t) /\ MovesInv(t)

\* The initial states satisfy the invariant.
LEMMA SharingInitInv == FSInit => SharingInv
  <1> SUFFICES ASSUME FSInit PROVE SharingInv
    OBVIOUS
  <1>1. SharingTypes
    BY DEF FSInit, SharingTypes
  <1>2. ASSUME NEW t \in Threads
        PROVE  CountsInv(t) /\ MovesInv(t)
    BY DEF FSInit, CountsInv, MovesInv
  <1> QED
    BY <1>1, <1>2 DEF SharingInv

\* A step changes the state of one thread only.
LEMMA OthersKeep ==
    ASSUME SharingInv, NEW t \in Threads, SharingTypes',
           \A u \in Threads : u # t =>
              /\ counters'[u] = counters[u] /\ migrations'[u] = migrations[u]
              /\ iteration'[u] = iteration[u] /\ pc'[u] = pc[u]
              /\ last_cpu'[u] = last_cpu[u] /\ cpu'[u] = cpu[u]
              /\ moves'[u] = moves[u],
           CountsInv(t)', MovesInv(t)'
    PROVE  SharingInv'
  <1>1. ASSUME NEW u \in Threads
        PROVE  CountsInv(u)' /\ MovesInv(u)'
    <2>1. CASE u = t
      BY <2>1
    <2>2. CASE u # t
      BY <2>2 DEF SharingInv, CountsInv, MovesInv
    <2> QED
      BY <2>1, <2>2
  <1> QED
    BY <1>1 DEF SharingInv

\* Pinning moves a thread that has no reading yet.
LEMMA PinInv ==
    ASSUME SharingInv, NEW t \in Threads, pin(t)
    PROVE  SharingInv'
  <1>1. /\ pc[t] = "pin" /\ pc' = [pc EXCEPT ![t] = "first_reading"]
        /\ UNCHANGED <<cpu_id, counters, migrations, iteration, last_cpu>>
    BY DEF pin
  <1>2. \/ UNCHANGED <<cpu, affinity, moves>>
        \/ /\ cpu_id[t] \in Cpus
           /\ affinity' = [affinity EXCEPT ![t] = {cpu_id[t]}]
           /\ cpu' = [cpu EXCEPT ![t] = cpu_id[t]]
           /\ UNCHANGED moves
    BY DEF pin, pin_thread_to_cpu, schedule
  <1>3. SharingTypes'
    BY <1>1, <1>2 DEF SharingInv, SharingTypes
  <1>4. CountsInv(t)'
    BY <1>1 DEF SharingInv, SharingTypes, CountsInv
  <1>5. MovesInv(t)'
    <2>1. last_cpu[t] = -1 /\ migrations[t] + 0 <= moves[t]
      BY <1>1 DEF SharingInv, MovesInv
    <2> QED
      BY <1>1, <1>2, <2>1 DEF MovesInv
  <1> QED
    BY <1>1, <1>2, <1>3, <1>4, <1>5, OthersKeep DEF SharingInv, SharingTypes

\* The first reading is where the thread runs, or none.
LEMMA FirstReadingInv ==
    ASSUME SharingInv, NEW t \in Threads, first_reading(t)
    PROVE  SharingInv'
  <1>1. PICK now \in {cpu[t], -1} : last_cpu' = [last_cpu EXCEPT ![t] = now]
    BY DEF first_reading, get_current_cpu
  <1>2. /\ pc[t] = "first_reading" /\ pc' = [pc EXCEPT ![t] = "increment"]
        /\ UNCHANGED <<cpu_id, counters, migrations, iteration>>
        /\ UNCHANGED <<cpu, affinity, moves>>
    BY DEF first_reading, schedule
  <1>3. SharingTypes'
    BY <1>1, <1>2 DEF SharingInv, SharingTypes
  <1>4. CountsInv(t)'
    BY <1>2 DEF SharingInv, SharingTypes, CountsInv
  <1>5. MovesInv(t)'
    <2>1. migrations[t] + 0 <= moves[t]
      BY <1>2 DEF SharingInv, MovesInv
    <2>2. last_cpu'[t] = now /\ pc'[t] = "increment"
      BY <1>1, <1>2 DEF SharingInv, SharingTypes
    <2> QED
      BY <1>1, <1>2, <2>1, <2>2 DEF MovesInv
  <1> QED
    BY <1>1, <1>2, <1>3, <1>4, <1>5, OthersKeep DEF SharingInv, SharingTypes

\* fetch_add and the count of the iteration go together, except that a
\* sample comes in between.
LEMMA IncrementInv ==
    ASSUME SharingInv, NEW t \in Threads, increment(t)
    PROVE  SharingInv'
  <1>1. /\ pc[t] = "increment"
        /\ counters' = [counters EXCEPT ![t] = counters[t] + 1]
        /\ UNCHANGED <<cpu_id, migrations, last_cpu>>
        /\ UNCHANGED <<cpu, affinity, moves>>
    BY DEF increment, accessor, schedule
  <1>2. \/ iteration' = [iteration EXCEPT ![t] = iteration[t] + 1] /\ UNCHANGED pc
        \/ pc' = [pc EXCEPT ![t] = "sample"] /\ UNCHANGED iteration
    BY DEF increment
  <1>3. SharingTypes'
    BY <1>1, <1>2 DEF SharingInv, SharingTypes
  <1>4. CountsInv(t)'
    BY <1>1, <1>2 DEF SharingInv, SharingTypes, CountsInv
  <1>5. MovesInv(t)'
    BY <1>1, <1>2 DEF SharingInv, SharingTypes, MovesInv
  <1> QED
    BY <1>1, <1>2, <1>3, <1>4, <1>5, OthersKeep DEF SharingInv, SharingTypes

\* A sample counts a move only once, and only one it can see.
LEMMA SampleInv ==
    ASSUME SharingInv, NEW t \in Threads, sample(t)
    PROVE  SharingInv'
  <1>1. PICK now \in {cpu[t], -1} :
          /\ migrations' = IF last_cpu[t] >= 0 /\ now >= 0 /\ now # last_cpu[t]
                           THEN [migrations EXCEPT ![t] = migrations[t] + 1]
                           ELSE migrations
          /\ last_cpu' = [last_cpu EXCEPT ![t] = now]
    BY DEF sample, get_current_cpu
  <1>2. /\ pc[t] = "sample" /\ pc' = [pc EXCEPT ![t] = "increment"]
        /\ iteration' = [iteration EXCEPT ![t] = iteration[t] + 1]
        /\ UNCHANGED <<cpu_id, counters>> /\ UNCHANGED <<cpu, affinity, moves>>
    BY DEF sample, schedule
  <1>3. SharingTypes'
    BY <1>1, <1>2 DEF SharingInv, SharingTypes
  <1>4. CountsInv(t)'
    BY <1>2 DEF SharingInv, SharingTypes, CountsInv
  <1>5. MovesInv(t)'
    <2>1. /\ last_cpu'[t] = now /\ pc'[t] = "increment"
          /\ migrations[t] \in Nat /\ moves[t] \in Nat
          /\ last_cpu[t] \in Cpus \union {-1} /\ cpu[t] \in Nat
      BY <1>1, <1>2, FalseSharingAssumption DEF SharingInv, SharingTypes
    <2>2. migrations[t] + (IF last_cpu[t] \notin {-1, cpu[t]} THEN 1 ELSE 0) <= moves[t]
      BY DEF SharingInv, MovesInv
    <2>3. migrations'[t] <= moves[t]
      <3>1. CASE last_cpu[t] >= 0 /\ now >= 0 /\ now # last_cpu[t]
        <4>1. migrations'[t] = migrations[t] + 1
          BY <1>1, <3>1 DEF SharingInv, SharingTypes
        <4>2. last_cpu[t] \notin {-1, cpu[t]}
          BY <3>1, <2>1
        <4> QED
          BY <2>2, <4>1, <4>2
      <3>2. CASE ~(last_cpu[t] >= 0 /\ now >= 0 /\ now # last_cpu[t])
        BY <1>1, <2>1, <2>2, <3>2
      <3> QED
        BY <3>1, <3>2
    <2>4. migrations'[t] \in Nat
      BY <1>3 DEF SharingTypes
    <2> QED
      BY <1>2, <2>1, <2>3, <2>4 DEF MovesInv
  <1> QED
    BY <1>1, <1>2, <1>3, <1>4, <1>5, OthersKeep DEF SharingInv, SharingTypes

\* A move by the scheduler is counted as one unless nothing was read yet.
LEMMA MigrateInv ==
    ASSUME SharingInv, NEW t \in Threads, migrate(t)
    PROVE  SharingInv'
  <1>1. PICK to \in affinity[t] \ {cpu[t]} : cpu' = [cpu EXCEPT ![t] = to]
    BY DEF migrate
  <1>2. /\ moves' = [moves EXCEPT ![t] = IF pc[t] = "pin" THEN moves[t]
                                         ELSE moves[t] + 1]
        /\ UNCHANGED <<cpu_id, counters, migrations, pc, iteration, last_cpu,
                       affinity>>
    BY DEF migrate
  <1>3. SharingTypes'
    BY <1>1, <1>2 DEF SharingInv, SharingTypes
  <1>4. CountsInv(t)'
    BY <1>2 DEF SharingInv, SharingTypes, CountsInv
  <1>5. MovesInv(t)'
    <2>1. /\ pc[t] \in {"pin", "first_reading"} => last_cpu[t] = -1
          /\ migrations[t] + (IF last_cpu[t] \notin {-1, cpu[t]} THEN 1 ELSE 0)
               <= moves[t]
          /\ migrations[t] \in Nat /\ moves[t] \in Nat
      BY DEF SharingInv, SharingTypes, MovesInv
    <2>2. moves'[t] = IF pc[t] = "pin" THEN moves[t] ELSE moves[t] + 1
      BY <1>2 DEF SharingInv, SharingTypes
    <2> QED
      BY <1>2, <2>1, <2>2 DEF MovesInv
  <1> QED
    BY <1>1, <1>2, <1>3, <1>4, <1>5, OthersKeep DEF SharingInv, SharingTypes

\* Every step keeps the invariant.
LEMMA SharingNextInv == SharingInv /\ [FSNext]_fsVars => SharingInv'
  <1> SUFFICES ASSUME SharingInv, [FSNext]_fsVars PROVE SharingInv'
    OBVIOUS
  <1>1. CASE UNCHANGED fsVars
    BY <1>1 DEF fsVars, schedule, SharingInv, SharingTypes,
           CountsInv, MovesInv
  <1> QED
    BY <1>1, PinInv, FirstReadingInv, IncrementInv, SampleInv, MigrateInv
       DEF FSNext, run, BothJoined

(***************************************************************************)
(* When both threads of the false sharing benchmark are joined, each       *)
(* counter is the number of iterations, for any sampling interval.         *)
(***************************************************************************)
THEOREM SharingCountersExact == FSSpec => []CountersExact
  <1>1. SharingInv => CountersExact
    <2> SUFFICES ASSUME SharingInv, NEW t \in Threads, Ended(t)
                 PROVE  counters[t] = iterations
      BY DEF CountersExact
    <2> QED
      BY FalseSharingAssumption DEF SharingInv, CountsInv, Ended
  <1> QED
    BY <1>1, SharingInitInv, SharingNextInv, PTL DEF FSSpec

(***************************************************************************)
(* A thread never counts more migrations than the scheduler made while it  *)
(* ran, whatever CPUs there are and however often the CPU cannot be told.  *)
(***************************************************************************)
THEOREM SharingMigrationsHappened == FSSpec => []MigrationsHappened
  <1>1. SharingInv => MigrationsHappened
    <2> SUFFICES ASSUME SharingInv, NEW t \in Threads
                 PROVE  migrations[t] <= moves[t]
      BY DEF MigrationsHappened
    <2> QED
      BY DEF SharingInv, SharingTypes, MovesInv
  <1> QED
    BY <1>1, SharingInitInv, SharingNextInv, PTL DEF FSSpec

-----------------------------------------------------------------------------
\* What is proved about the pooled book, and about a fold of messages into the
\* baseline book.
PooledFacts == INSTANCE PooledOrderBookProofs WITH pbook <- book
Replays == INSTANCE FoldProofs WITH Op <- Baseline!on_message

\* What those proofs assume of the constants.
LEMMA PooledAssumptions ==
    /\ Prices \subseteq Int /\ U32 \in Nat \ {0} /\ Quantities \subseteq 0 .. (U32 - 1)
    /\ PoolCapacity \in Nat /\ U64 \in Nat \ {0}
    /\ 1 < U64
  <1>1. Len(Messages) \in Nat \ {0}
    BY FeedType
  <1> QED
    BY <1>1, PricesAssumption, U32Assumption, QuantitiesAssumption, PoolAssumption,
       FeedLengthAssumption

\* The two modules speak of the same pooled book.
LEMMA SamePooledBook ==
    /\ PooledFacts!Message = Message
    /\ \A b, msg : PooledFacts!on_message(b, msg) = Pooled!on_message(b, msg)
    /\ \A b : PooledFacts!AsBook(b) = Pooled!AsBook(b)
    /\ PooledFacts!EmptyPooledBook = Pooled!EmptyPooledBook
  <1> USE DEF PooledFacts!Put, Pooled!Put, PooledFacts!Erase, Pooled!Erase,
          PooledFacts!OrderOf, Pooled!OrderOf, PooledFacts!Min, Pooled!Min,
          PooledFacts!next_slot, Pooled!next_slot, PooledFacts!nullptr,
          Pooled!nullptr, PooledFacts!Last, Pooled!Last, PooledFacts!Front,
          Pooled!Front, PooledFacts!allocate, Pooled!allocate,
          PooledFacts!deallocate, Pooled!deallocate, PooledFacts!order_at,
          Pooled!order_at, PooledFacts!RemoveFirst, Pooled!RemoveFirst,
          PooledFacts!SelectInSeq, Pooled!SelectInSeq, PooledFacts!RemoveAt,
          Pooled!RemoveAt, PooledFacts!add_to_level, Pooled!add_to_level,
          PooledFacts!leave_level, Pooled!leave_level
  <1>1. PooledFacts!Message = Message
    BY DEF PooledFacts!Message, Message, PooledFacts!MessageType, MessageType,
           PooledFacts!Side, Side
  <1>2. \A b, msg : PooledFacts!handle_add(b, msg) = Pooled!handle_add(b, msg)
    BY DEF PooledFacts!handle_add, Pooled!handle_add
  <1>3. \A b, msg : PooledFacts!handle_modify(b, msg) = Pooled!handle_modify(b, msg)
    BY DEF PooledFacts!handle_modify, Pooled!handle_modify
  <1>4. \A b, msg : PooledFacts!handle_cancel(b, msg) = Pooled!handle_cancel(b, msg)
    BY DEF PooledFacts!handle_cancel, Pooled!handle_cancel,
           PooledFacts!remove_order, Pooled!remove_order
  <1>5. \A b, msg : PooledFacts!handle_trade(b, msg) = Pooled!handle_trade(b, msg)
    BY DEF PooledFacts!handle_trade, Pooled!handle_trade,
           PooledFacts!remove_order, Pooled!remove_order
  <1>6. \A b, msg : PooledFacts!on_message(b, msg) = Pooled!on_message(b, msg)
    BY <1>2, <1>3, <1>4, <1>5 DEF PooledFacts!on_message, Pooled!on_message
  <1>7. \A b : PooledFacts!AsBook(b) = Pooled!AsBook(b)
    BY DEF PooledFacts!AsBook, Pooled!AsBook
  <1>8. PooledFacts!EmptyPooledBook = Pooled!EmptyPooledBook
    BY DEF PooledFacts!EmptyPooledBook, Pooled!EmptyPooledBook, PooledFacts!NewPool,
           Pooled!NewPool, PooledFacts!PoolSlots, Pooled!PoolSlots, PooledFacts!Side,
           Pooled!Side, PooledFacts!EmptySide, Pooled!EmptySide
  <1> QED
    BY <1>1, <1>6, <1>7, <1>8

\* They speak of the same baseline book.
LEMMA SameBaseline ==
    /\ \A b, msg :
          PooledFacts!Baseline!on_message(b, msg) = Baseline!on_message(b, msg)
    /\ PooledFacts!Baseline!EmptyBook = Baseline!EmptyBook
    /\ \A b, side, price : PooledFacts!Baseline!RestingQuantity(b, side, price)
                             = Baseline!RestingQuantity(b, side, price)
  <1>1. \A b, msg :
           PooledFacts!Baseline!on_message(b, msg) = Baseline!on_message(b, msg)
    BY DEF PooledFacts!Baseline!Put, Baseline!Put, PooledFacts!Baseline!Erase,
           Baseline!Erase, PooledFacts!Baseline!OrderOf, Baseline!OrderOf,
           PooledFacts!Baseline!Min, Baseline!Min,
           PooledFacts!Baseline!RemoveFirst, Baseline!RemoveFirst,
           PooledFacts!Baseline!SelectInSeq, Baseline!SelectInSeq,
           PooledFacts!Baseline!RemoveAt, Baseline!RemoveAt,
           PooledFacts!Baseline!add_to_level, Baseline!add_to_level,
           PooledFacts!Baseline!leave_level, Baseline!leave_level,
           PooledFacts!Baseline!handle_add, Baseline!handle_add,
           PooledFacts!Baseline!handle_modify, Baseline!handle_modify,
           PooledFacts!Baseline!handle_cancel, Baseline!handle_cancel,
           PooledFacts!Baseline!handle_trade, Baseline!handle_trade,
           PooledFacts!Baseline!on_message, Baseline!on_message
  <1>2. PooledFacts!Baseline!EmptyBook = Baseline!EmptyBook
    BY DEF PooledFacts!Baseline!EmptyBook, Baseline!EmptyBook,
           PooledFacts!Baseline!EmptySide, Baseline!EmptySide,
           PooledFacts!Baseline!Side, Baseline!Side
  <1>3. \A b, side, price : PooledFacts!Baseline!RestingQuantity(b, side, price)
                              = Baseline!RestingQuantity(b, side, price)
    BY DEF PooledFacts!Baseline!RestingQuantity, Baseline!RestingQuantity,
           PooledFacts!Baseline!Resting, Baseline!Resting,
           PooledFacts!Baseline!MapThenSumSet, Baseline!MapThenSumSet,
           PooledFacts!Baseline!MapThenFoldSet, Baseline!MapThenFoldSet
  <1> QED
    BY <1>1, <1>2, <1>3

\* The baseline book before any message, and after one message more.
LEMMA BaselineReplays ==
    /\ BaselineReplay(0) = Baseline!EmptyBook
    /\ \A n \in 0 .. (Len(Messages) - 1) :
          BaselineReplay(n + 1)
            = Baseline!on_message(BaselineReplay(n), Messages[n + 1])
  <1> DEFINE upto(n) == SubSeq(Messages, 1, n)
  <1>1. \A n : BaselineReplay(n) = Replays!Folded(Baseline!EmptyBook, upto(n))
    BY DEF BaselineReplay, FoldLeft, MapThenFoldSet, Max, Replays!Folded,
           Replays!FoldLeft, Replays!MapThenFoldSet, Replays!Max
  <1>2. upto(0) = <<>>
    BY FeedAssumption
  <1>3. BaselineReplay(0) = Baseline!EmptyBook
    <2>1. Replays!Folded(Baseline!EmptyBook, <<>>) = Baseline!EmptyBook
      BY Replays!FoldNone
    <2> QED
      BY <1>1, <1>2, <2>1
  <1>4. ASSUME NEW n \in 0 .. (Len(Messages) - 1)
        PROVE  BaselineReplay(n + 1)
                 = Baseline!on_message(BaselineReplay(n), Messages[n + 1])
    <2>1. Replays!Folded(Baseline!EmptyBook, upto(n + 1))
            = Baseline!on_message(Replays!Folded(Baseline!EmptyBook, upto(n)),
                                  Messages[n + 1])
      BY FeedAssumption, Replays!FoldPrefix
    <2> HIDE DEF upto
    <2> QED
      BY <1>1, <2>1
  <1> QED
    BY <1>3, <1>4


\* The baseline book never held more orders than the pool has slots.
EnoughSlots(n) ==
    \A k \in 0 .. n : Cardinality(DOMAIN BaselineReplay(k).order_map) <= PoolCapacity

(***************************************************************************)
(* The invariant of the consumer's book: exhaustions, counted at most once *)
(* per message, tell that the baseline book has been too large; without    *)
(* one the pooled book is the baseline book, with totals that match.       *)
(***************************************************************************)
ConsumerBookInv ==
    /\ PooledFacts!PooledInv(book)
    /\ book.pool_exhaustions_ <= consumed
    /\ book.pool_exhaustions_ = 0
         => /\ Pooled!AsBook(book) = BaselineReplay(consumed)
            /\ PooledFacts!Book!TotalsInv(Pooled!AsBook(book))
            /\ EnoughSlots(consumed)
    /\ book.pool_exhaustions_ # 0 => ~EnoughSlots(consumed)

\* What is known of the pooled book applies here.
LEMMA PooledBookStep ==
    ASSUME NEW b, PooledFacts!PooledInv(b), NEW msg \in Message
    PROVE  PooledFacts!PooledStep(b, Pooled!on_message(b, msg),
                                  Baseline!on_message(Pooled!AsBook(b), msg))
  <1>1. PooledFacts!PooledStep(b, PooledFacts!on_message(b, msg),
             PooledFacts!Baseline!on_message(PooledFacts!AsBook(b), msg))
    BY PooledAssumptions, SamePooledBook, PooledFacts!PooledMessage
  <1> QED
    BY <1>1, SamePooledBook, SameBaseline

\* A pooled book has as many orders as its slots at most.
LEMMA PooledBookSize ==
    ASSUME NEW b, PooledFacts!PooledInv(b)
    PROVE  /\ b.pool_exhaustions_ \in 0 .. (U64 - 1)
           /\ Cardinality(DOMAIN Pooled!AsBook(b).order_map) <= PoolCapacity
  <1>1. DOMAIN Pooled!AsBook(b).order_map = DOMAIN b.order_map_
    BY DEF Pooled!AsBook
  <1>2. PooledFacts!Cardinality(DOMAIN b.order_map_) <= PoolCapacity
    BY PooledAssumptions, PooledFacts!NoMoreThanSlots
  <1>3. Cardinality(DOMAIN b.order_map_) <= PoolCapacity
    BY <1>2 DEF Cardinality, PooledFacts!Cardinality
  <1> QED
    BY <1>1, <1>3 DEF PooledFacts!PooledInv

\* In a feed that fits, so do the totals of every baseline book but the last.
LEMMA ReplayFits ==
    ASSUME FeedFits, NEW n \in 0 .. (Len(Messages) - 1)
    PROVE  PooledFacts!Fits(BaselineReplay(n))
  <1>1. PooledFacts!Side = Side
    BY DEF PooledFacts!Side, Side
  <1>2. \A side \in PooledFacts!Side : \A price \in DOMAIN BaselineReplay(n).levels[side] :
           PooledFacts!Baseline!RestingQuantity(BaselineReplay(n), side, price) < U32
    BY <1>1, SameBaseline DEF FeedFits
  <1> HIDE DEF BaselineReplay
  <1> QED
    BY <1>2, PooledAssumptions, PooledFacts!SumsFit

\* One message more fits in the slots if its book does.
LEMMA OneMoreReplay ==
    ASSUME NEW n \in Nat
    PROVE  EnoughSlots(n + 1)
             <=> /\ EnoughSlots(n)
                 /\ Cardinality(DOMAIN BaselineReplay(n + 1).order_map) <= PoolCapacity
  <1>1. 0 .. (n + 1) = (0 .. n) \union {n + 1}
    OBVIOUS
  <1> QED
    BY <1>1 DEF EnoughSlots

\* The invariant holds before the first message.
LEMMA ConsumerBookInit == PooledInit => ConsumerBookInv
  <1> SUFFICES ASSUME PooledInit
               PROVE  ConsumerBookInv
    OBVIOUS
  <1>1. book = Pooled!EmptyPooledBook /\ consumed = 0
    BY DEF PooledInit, SpscThreads!Init
  <1>2. /\ PooledFacts!PooledInv(book)
        /\ PooledFacts!Book!TotalsInv(Pooled!AsBook(book))
        /\ Pooled!AsBook(book) = Baseline!EmptyBook
    BY <1>1, PooledAssumptions, SamePooledBook, SameBaseline, PooledFacts!PooledEmpty
  <1>3. book.pool_exhaustions_ = 0
    BY <1>1 DEF Pooled!EmptyPooledBook
  <1>4. Pooled!AsBook(book) = BaselineReplay(consumed)
    BY <1>1, <1>2, BaselineReplays
  <1>5. EnoughSlots(consumed)
    <2>1. 0 .. consumed = {consumed}
      BY <1>1
    <2> QED
      BY <1>2, <1>4, <2>1, PooledBookSize DEF EnoughSlots
  <1> QED
    BY <1>1, <1>2, <1>3, <1>4, <1>5 DEF ConsumerBookInv

\* Applying a message keeps it.
LEMMA ConsumerBookStep ==
    ASSUME FeedFits, SpscInv, ConsumerBookInv, SpscProcessed,
           book' = Pooled!on_message(book, c.item)
    PROVE  ConsumerBookInv'
  <1> DEFINE n    == consumed
             msg  == Messages[n + 1]
             old  == book.pool_exhaustions_
             new  == Pooled!on_message(book, msg)
             base == Baseline!on_message(Pooled!AsBook(book), msg)
  <1>1. /\ n \in 0 .. (Len(Messages) - 1) /\ n \in Nat /\ c.item = msg
        /\ Len(Messages) \in Nat /\ consumed' = n + 1 /\ msg \in Message
    <2>1. consumed \in Nat
      BY DEF SpscInv, SpscConsumed, SpscTypes
    <2>2. consumed < Len(Messages) /\ c.item = Messages[consumed + 1]
      BY SpscPopped DEF SpscProcessed
    <2>3. Messages[consumed + 1] \in Message
      BY <2>1, <2>2, FeedTypeAssumption
    <2> QED
      BY <2>1, <2>2, <2>3, FeedType DEF SpscProcessed
  <1>2. book' = new
    BY <1>1
  <1>3. PooledFacts!PooledInv(book) /\ PooledFacts!PooledStep(book, new, base)
    BY <1>1, PooledBookStep DEF ConsumerBookInv
  <1>4. /\ PooledFacts!PooledInv(new)
        /\ new.pool_exhaustions_ \in 0 .. (U64 - 1)
        /\ old \in 0 .. (U64 - 1) /\ old <= n
    BY <1>3, PooledBookSize DEF ConsumerBookInv, PooledFacts!PooledStep
  <1>5. BaselineReplay(n + 1) = Baseline!on_message(BaselineReplay(n), msg)
    BY <1>1, BaselineReplays
  <1>6. CASE PooledFacts!Refused(book, new, base)
    <2>1. /\ new.pool_exhaustions_ = (old + 1) % U64
          /\ PooledFacts!Cardinality(DOMAIN base.order_map) = PoolCapacity + 1
      BY <1>6 DEF PooledFacts!Refused
    <2>2. new.pool_exhaustions_ = old + 1
      <3>1. old + 1 < U64 /\ old + 1 \in Nat
        BY <1>1, <1>4, FeedLengthAssumption, PooledAssumptions
      <3> QED
        BY <2>1, <3>1, PooledAssumptions
    <2>3. old = 0 => base = BaselineReplay(n + 1)
      BY <1>5 DEF ConsumerBookInv
    <2>4. Cardinality(DOMAIN base.order_map) = PoolCapacity + 1
      BY <2>1 DEF Cardinality, PooledFacts!Cardinality
    <2>5. ~EnoughSlots(n + 1)
      <3>1. CASE old = 0
        <4>1. Cardinality(DOMAIN BaselineReplay(n + 1).order_map) = PoolCapacity + 1
          BY <2>3, <2>4, <3>1
        <4>2. ~(Cardinality(DOMAIN BaselineReplay(n + 1).order_map) <= PoolCapacity)
          BY <4>1, PooledAssumptions
        <4> QED
          BY <4>2, <1>1, OneMoreReplay
      <3>2. CASE old # 0
        BY <3>2, <1>1, OneMoreReplay DEF ConsumerBookInv
      <3> QED
        BY <3>1, <3>2
    <2>6. new.pool_exhaustions_ # 0 /\ new.pool_exhaustions_ <= n + 1
      BY <1>1, <1>4, <2>2
    <2> HIDE DEF new
    <2> QED
      BY <1>1, <1>2, <1>4, <2>5, <2>6 DEF ConsumerBookInv, EnoughSlots
  <1>7. CASE PooledFacts!Applied(book, new, base)
    <2>1. new.pool_exhaustions_ = old
      BY <1>7 DEF PooledFacts!Applied
    <2>2. ASSUME old = 0
          PROVE  /\ Pooled!AsBook(new) = BaselineReplay(n + 1)
                 /\ PooledFacts!Book!TotalsInv(Pooled!AsBook(new))
                 /\ EnoughSlots(n + 1)
      <3>1. /\ Pooled!AsBook(book) = BaselineReplay(n)
            /\ PooledFacts!Book!TotalsInv(Pooled!AsBook(book))
            /\ EnoughSlots(n)
        BY <2>2 DEF ConsumerBookInv
      <3>2. PooledFacts!Fits(Pooled!AsBook(book))
        BY <3>1, <1>1, ReplayFits
      <3>3. /\ PooledFacts!Book!TotalsInv(Pooled!AsBook(new))
            /\ Pooled!AsBook(new) = base
        BY <1>7, <3>1, <3>2, SamePooledBook DEF PooledFacts!Applied
      <3>4. Pooled!AsBook(new) = BaselineReplay(n + 1)
        BY <3>1, <3>3, <1>5
      <3>5. Cardinality(DOMAIN BaselineReplay(n + 1).order_map) <= PoolCapacity
        BY <3>4, <1>4, PooledBookSize
      <3> QED
        BY <1>1, <3>1, <3>3, <3>4, <3>5, OneMoreReplay
    <2>3. old # 0 => ~EnoughSlots(n + 1)
      BY <1>1, OneMoreReplay DEF ConsumerBookInv
    <2>4. new.pool_exhaustions_ <= n + 1
      BY <1>1, <1>4, <2>1
    <2> HIDE DEF new
    <2> QED
      BY <1>1, <1>2, <1>4, <2>1, <2>2, <2>3, <2>4 DEF ConsumerBookInv, EnoughSlots
  <1> QED
    BY <1>3, <1>6, <1>7 DEF PooledFacts!PooledStep

\* The invariant holds from the start and every step keeps it, on a feed whose
\* totals fit.
LEMMA ConsumerBookInductive ==
    ASSUME FeedFits, SpscInv, ConsumerBookInv, [PooledNext]_pooledVars
    PROVE  ConsumerBookInv'
  <1>1. CASE UNCHANGED <<consumed, book>>
    BY <1>1 DEF ConsumerBookInv, EnoughSlots
  <1> QED
    BY <1>1, PooledSteps, ConsumerBookStep

(***************************************************************************)
(* On a feed whose levels never add up to more than a uint32_t, the        *)
(* consumer's pooled book is the baseline book of the messages consumed as *)
(* long as no exhaustion is counted, however the threads interleave.       *)
(***************************************************************************)
THEOREM PooledBookIsBaseline ==
    ASSUME FeedFits
    PROVE  PooledSpec => []BaselineBookUnlessExhausted
  <1>1. ConsumerBookInv => BaselineBookUnlessExhausted
    BY DEF ConsumerBookInv, BaselineBookUnlessExhausted
  <1>2. SpscInv /\ ConsumerBookInv /\ [PooledNext]_pooledVars => ConsumerBookInv'
    BY FeedFits, ConsumerBookInductive
  <1> QED
    BY <1>1, <1>2, ConsumerBookInit, PooledInductive, PTL DEF PooledSpec

(***************************************************************************)
(* On such a feed the exhaustion count is 0 exactly if the baseline book   *)
(* never held more orders than the pool has slots.                         *)
(***************************************************************************)
THEOREM ExhaustionsTell ==
    ASSUME FeedFits
    PROVE  PooledSpec => []ExhaustionsTellTooSmall
  <1>1. ConsumerBookInv => ExhaustionsTellTooSmall
    BY DEF ConsumerBookInv, ExhaustionsTellTooSmall, EnoughSlots
  <1>2. SpscInv /\ ConsumerBookInv /\ [PooledNext]_pooledVars => ConsumerBookInv'
    BY FeedFits, ConsumerBookInductive
  <1> QED
    BY <1>1, <1>2, ConsumerBookInit, PooledInductive, PTL DEF PooledSpec

=============================================================================
