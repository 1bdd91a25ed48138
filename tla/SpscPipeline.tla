---------------------------- MODULE SpscPipeline ----------------------------
(***************************************************************************)
(* The two threads of apps/benchmark_spsc_queue.cpp around the SPSC ring:  *)
(* the producer pushes every generated message and then raises             *)
(* producer_done; the consumer pops and applies messages to the book until *)
(* it has seen producer_done and then an empty ring.  The book is a        *)
(* parameter, since benchmark_spsc_queue_pooled.cpp runs the same threads  *)
(* on the pooled book.                                                     *)
(*                                                                         *)
(* producer_done is written once, so its store is TRUE or not there yet; a *)
(* load may miss it for a while, but not after having returned it.         *)
(* Timestamps, spin and migration counters and the CPU pinning are left    *)
(* out: no decision depends on them.                                       *)
(***************************************************************************)
EXTENDS Integers, Sequences, SequencesExt

CONSTANTS Messages,            \* generator.messages()
          Capacity,            \* queue_capacity
          InitialBook,         \* the book before any message
          ApplyMessage(_, _)   \* on_message of that book

VARIABLES head_, tail_, buffer_, p, c, accepted, delivered,   \* the ring
          producer_done,   \* [stored, view]: view is what the store publishes
          done_seen,       \* the consumer has loaded TRUE
          loop,            \* where the consumer's loop is
          produced, consumed, book

ringVars == <<head_, tail_, buffer_, p, c, accepted, delivered>>
vars == <<ringVars, producer_done, done_seen, loop, produced, consumed, book>>

Ring == INSTANCE SpscRingBuffer
          WITH Items <- Range(Messages), MaxPushes <- Len(Messages)

-----------------------------------------------------------------------------
Init ==
    /\ Ring!Init
    /\ producer_done = [stored |-> FALSE, view |-> 0]
    /\ done_seen = FALSE
    /\ loop = "check_done"
    /\ produced = 0
    /\ consumed = 0
    /\ book = InitialBook

\* The spinning push loop; a refused push only moves what the thread knows.
producer_push ==
    /\ produced < Len(Messages)
    /\ \/ Ring!push_load(Messages[produced + 1]) /\ UNCHANGED produced
       \/ Ring!push_write /\ UNCHANGED produced
       \/ Ring!push_publish /\ produced' = produced + 1
    /\ UNCHANGED <<producer_done, done_seen, loop, consumed, book>>

\* Mutated form of done_store: producer_done is stored without release.
done_store_Relaxed == "relaxed"

\* The memory orders of producer_done.
done_store == "release"
done_load  == "acquire"

\* Mutated form of producer_finish: the thread ends without raising the flag.
producer_finish_NoFlag ==
    /\ produced = Len(Messages)
    /\ UNCHANGED vars

\* After the last message: producer_done.store(true).  The stores of head_
\* made so far are what a release publishes.
producer_finish ==
    /\ produced = Len(Messages)
    /\ ~producer_done.stored
    /\ producer_done' = [stored |-> TRUE,
                         view |-> Ring!Published(done_store, Len(head_))]
    /\ UNCHANGED <<ringVars, done_seen, loop, produced, consumed, book>>

-----------------------------------------------------------------------------
\* The first half of the loop condition.  Having loaded TRUE, the thread can
\* no longer load a store of head_ older than the published ones.
done_loaded ==
    LET seen == Ring!Learned(done_load, c.seen, producer_done.view)
    IN  /\ loop = "check_done"
        /\ producer_done.stored
        /\ done_seen' = TRUE
        /\ c' = [c EXCEPT !.seen = seen,
                          !.synced = Ring!Learned(done_load, @, seen - 1)]
        /\ loop' = "check_empty"
        /\ UNCHANGED <<head_, tail_, buffer_, p, accepted, delivered,
                       producer_done, produced, consumed, book>>

done_not_loaded ==
    /\ loop = "check_done"
    /\ ~done_seen
    /\ loop' = "pop"
    /\ UNCHANGED <<ringVars, producer_done, done_seen, produced, consumed, book>>

\* The second half: leave the loop when the ring is empty.
check_empty ==
    /\ loop = "check_empty"
    /\ Ring!empty
    /\ loop' = IF Ring!is_empty(c'.seen) THEN "finished" ELSE "pop"
    /\ UNCHANGED <<producer_done, done_seen, produced, consumed, book>>

\* The body: a failed pop goes back to the condition, a successful one on to
\* the book.
consumer_pop ==
    /\ loop = "pop"
    /\ \/ Ring!pop_load /\ loop' = IF c'.pc = "read" THEN "pop" ELSE "check_done"
       \/ Ring!pop_read /\ UNCHANGED loop
       \/ Ring!pop_release /\ loop' = "process"
    /\ UNCHANGED <<producer_done, done_seen, produced, consumed, book>>

consumer_process ==
    /\ loop = "process"
    /\ book' = ApplyMessage(book, c.item)
    /\ consumed' = consumed + 1
    /\ loop' = "check_done"
    /\ UNCHANGED <<ringVars, producer_done, done_seen, produced>>

Producer == producer_push \/ producer_finish

Consumer == \/ done_loaded \/ done_not_loaded \/ check_empty
            \/ consumer_pop \/ consumer_process

\* Both threads have been joined.
Joined == loop = "finished" /\ producer_done.stored /\ UNCHANGED vars

Next == Producer \/ Consumer \/ Joined

\* A load that returns the latest store of the other thread's index.
FreshPush == producer_push /\ p'.seen = Len(tail_)
FreshPop == consumer_pop /\ c'.seen = Len(head_)

(***************************************************************************)
(* Both threads keep being scheduled (each loop that waits yields), and a  *)
(* store becomes visible to a thread that keeps loading, as C++ asks of    *)
(* implementations: a thread does not load stale values forever.           *)
(***************************************************************************)
Fairness ==
    /\ WF_vars(Producer) /\ WF_vars(FreshPush)
    /\ WF_vars(Consumer) /\ SF_vars(FreshPop) /\ SF_vars(done_loaded)

Spec == Init /\ [][Next]_vars /\ Fairness

-----------------------------------------------------------------------------
OneReplay == INSTANCE FeedReplay
               WITH Message <- Range(Messages), messages <- Messages,
                    applied <- consumed

(***************************************************************************)
(* The threads implement one replay of the feed: the book is always what a *)
(* single thread would have built from the messages consumed so far, and   *)
(* the ring neither drops, repeats, reorders nor corrupts a message.       *)
(***************************************************************************)
ImplementsReplay == OneReplay!Spec

(***************************************************************************)
(* The consumer leaves its loop only after the last message: when both     *)
(* threads are joined, every message was produced and consumed.  A message *)
(* published just before producer_done is never left in the ring by a      *)
(* consumer that takes a stale ring for an empty one.                      *)
(***************************************************************************)
AllConsumedAtExit ==
    loop = "finished" => /\ produced = Len(Messages)
                         /\ consumed = Len(Messages)

(***************************************************************************)
(* Both threads finish: neither spins forever on a full or an empty ring.  *)
(***************************************************************************)
Termination == <>(loop = "finished" /\ producer_done.stored)

=============================================================================
