---------------------------- MODULE MutexPipeline ----------------------------
(***************************************************************************)
(* The two threads of apps/benchmark_producer_consumer.cpp around the      *)
(* mutex queue: the producer pushes every generated message with           *)
(* push_with_mutation and then closes the queue; the consumer pops and     *)
(* applies messages to the book until pop returns false.  Timestamps,      *)
(* migration counters and CPU pinning are left out: no decision depends on *)
(* them.                                                                   *)
(***************************************************************************)
EXTENDS TwoThreads

CONSTANTS NoItem,
          InitialBook,         \* the book before any message
          ApplyMessage(_, _)   \* on_message of that book

ASSUME NoItemAssumption == NoItem \notin Range(Messages)

VARIABLES queue_, closed_, not_full_, not_empty_, woken, pending, closing,
          finished, calls,   \* the queue
          popped   \* the consumer holds a message it has not applied yet

queueVars == <<queue_, closed_, not_full_, not_empty_, woken, pending, closing,
               finished, calls, accepted, delivered>>
vars == <<queueVars, popped, produced, consumed, book>>

Queue == INSTANCE BoundedMutexQueue
           WITH Items <- Range(Messages), MaxPushes <- Len(Messages),
                Producers <- {"producer"}, Consumers <- {"consumer"}

Init ==
    /\ Queue!Init
    /\ popped = FALSE
    /\ produced = 0
    /\ consumed = 0
    /\ book = InitialBook

\* One call of push_with_mutation; produced counts it when it returns.
producer_push ==
    /\ produced < Len(Messages)
    /\ Queue!push("producer", Messages[produced + 1])
    /\ produced' = produced + (IF pending'["producer"] = NoItem THEN 1 ELSE 0)
    /\ UNCHANGED <<popped, consumed, book>>

\* Mutated form of producer_close: the queue is closed one message early.
producer_close_Early ==
    /\ produced >= Len(Messages) - 1
    /\ Queue!close
    /\ UNCHANGED <<popped, produced, consumed, book>>

\* After the last message: queue.close().
producer_close ==
    /\ produced = Len(Messages)
    /\ Queue!close
    /\ UNCHANGED <<popped, produced, consumed, book>>

\* The loop condition of the consumer.
consumer_pop ==
    /\ ~popped
    /\ Queue!pop("consumer")
    /\ popped' = (delivered' # delivered)
    /\ UNCHANGED <<produced, consumed, book>>

\* Mutated form of consumer_process: the message popped before the last one
\* is applied.
consumer_process_Stale ==
    /\ popped
    /\ book' = ApplyMessage(book, delivered[IF consumed = 0 THEN 1 ELSE consumed])
    /\ consumed' = consumed + 1
    /\ popped' = FALSE
    /\ UNCHANGED <<queueVars, produced>>

\* The body of the consumer's loop.
consumer_process ==
    /\ popped
    /\ book' = ApplyMessage(book, Last(delivered))
    /\ consumed' = consumed + 1
    /\ popped' = FALSE
    /\ UNCHANGED <<queueVars, produced>>

spurious_wakeup ==
    Queue!spurious_wakeup /\ UNCHANGED <<popped, produced, consumed, book>>

Producer == producer_push \/ producer_close

Consumer == consumer_pop \/ consumer_process

\* Both threads have been joined.
Finished == finished = {"consumer"} /\ closing = "returned"

Joined == Finished /\ UNCHANGED vars

Next == Producer \/ Consumer \/ spurious_wakeup \/ Joined

\* Both threads keep being scheduled and get the mutex when they ask for it.
Fairness == WF_vars(Producer) /\ WF_vars(Consumer)

Spec == Init /\ [][Next]_vars /\ Fairness

-----------------------------------------------------------------------------
OneReplay == INSTANCE FeedReplay
               WITH Message <- Range(Messages), messages <- Messages,
                    applied <- consumed

(***************************************************************************)
(* The threads implement one replay of the feed: the book is always what a *)
(* single thread would have built from the messages consumed so far.       *)
(***************************************************************************)
ImplementsReplay == OneReplay!Spec

(***************************************************************************)
(* When both threads have ended, every message was produced and consumed:  *)
(* close neither drops an item in the queue nor one still being pushed.    *)
(***************************************************************************)
AllConsumedAtExit == Finished => /\ produced = Len(Messages)
                                 /\ consumed = Len(Messages)

(***************************************************************************)
(* Both threads end: neither waits forever for a notification.             *)
(***************************************************************************)
Termination == <>Finished

=============================================================================
