------------------------- MODULE SpscPooledPipeline -------------------------
(***************************************************************************)
(* apps/benchmark_spsc_queue_pooled.cpp: the producer and consumer threads *)
(* of the SPSC benchmark around a ring, with the pooled book in place of   *)
(* the baseline one.  The pool may be smaller than the feed needs: adds    *)
(* are then dropped, and only pool_exhaustions tells.                      *)
(***************************************************************************)
EXTENDS TwoThreads, MarketMessage, FiniteSets

CONSTANTS PoolCapacity, NoObject, U64   \* of the book's pool

ASSUME PoolAssumption == PoolCapacity \in Nat /\ U64 \in Nat \ {0}

ASSUME FeedTypeAssumption == Messages \in Seq(Message)

\* The feed is a vector: it has fewer elements than its size_type has values.
ASSUME FeedLengthAssumption == Len(Messages) < U64

VARIABLES head_, tail_, buffer_, p, c,   \* the ring
          producer_done, done_seen, loop

Pooled == INSTANCE PooledOrderBook WITH pbook <- book
Baseline == INSTANCE OrderBook

SpscThreads == INSTANCE SpscPipeline
                 WITH InitialBook <- Pooled!EmptyPooledBook,
                      ApplyMessage <- Pooled!on_message

pooledVars == SpscThreads!vars

PooledInit == SpscThreads!Init

PooledProducer == SpscThreads!Producer

PooledConsumer == SpscThreads!Consumer

PooledJoined == SpscThreads!Joined

PooledNext == PooledProducer \/ PooledConsumer \/ PooledJoined

PooledSpec == PooledInit /\ [][PooledNext]_pooledVars /\ SpscThreads!Fairness

-----------------------------------------------------------------------------
\* The baseline book after the first n messages.
BaselineReplay(n) ==
    FoldLeft(Baseline!on_message, Baseline!EmptyBook, SubSeq(Messages, 1, n))

\* While the feed is applied, no level's quantities add up to more than a
\* uint32_t can count.
FeedFits ==
    \A n \in 0 .. (Len(Messages) - 1) : \A side \in Side :
        \A price \in DOMAIN BaselineReplay(n).levels[side] :
            Baseline!RestingQuantity(BaselineReplay(n), side, price) < U32

(***************************************************************************)
(* As long as no exhaustion is counted, the consumer's pooled book is the  *)
(* baseline book of the messages consumed so far: ring, slots and levels   *)
(* together change nothing a user of the book could see.                   *)
(***************************************************************************)
BaselineBookUnlessExhausted ==
    book.pool_exhaustions_ = 0 => Pooled!AsBook(book) = BaselineReplay(consumed)

(***************************************************************************)
(* The printed number of exhaustions tells whether the pool was too small: *)
(* it is 0 exactly if the baseline book never held more orders than the    *)
(* pool has slots.  A slot that were not given back would count exhaustion *)
(* where there is room; an add dropped silently would not count it.        *)
(***************************************************************************)
ExhaustionsTellTooSmall ==
    book.pool_exhaustions_ = 0
      <=> \A n \in 0 .. consumed :
            Cardinality(DOMAIN BaselineReplay(n).order_map) <= PoolCapacity

(***************************************************************************)
(* The threads implement one replay of the feed on the pooled book, also   *)
(* beyond the exhaustion of its pool.                                      *)
(***************************************************************************)
PooledImplementsReplay == SpscThreads!ImplementsReplay

(***************************************************************************)
(* The consumer leaves its loop only after the last message: none that was *)
(* published just before producer_done is left in the ring by a consumer   *)
(* that takes a stale ring for an empty one.                               *)
(***************************************************************************)
PooledAllConsumedAtExit == SpscThreads!AllConsumedAtExit

(***************************************************************************)
(* Both threads finish, with an exhausted pool too.                        *)
(***************************************************************************)
PooledTermination == SpscThreads!Termination

=============================================================================
