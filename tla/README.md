# latency-lab: a TLA+ development

latency-lab is a C++ study of low-latency market-data processing: a synthetic
feed of order messages is handed from a producer to a consumer thread over
different channels and applied to a limit order book.  This directory holds
TLA+ models of the parts whose correctness is hard to test, the TLC runs that
check them on small instances, and TLAPS proofs of the theorems that matter for
every size.  Paths below are relative to the repository.

Contents: [inventory](#inventory) · [modules](#modules) · [runs](#runs) ·
[fairness](#fairness) · [proofs](#proofs) · [the disagreement found](#the-disagreement-found) ·
[what is left out](#what-is-left-out) · [plan](#plan).

## Inventory

| component | state | operations | interacts with |
|---|---|---|---|
| `OrderBook` (`src/order_book.cpp`) | lookup table id -> order; per side a price-ordered map of levels (ids in arrival order, 32-bit total) | `on_message` -> add, modify, cancel, trade; `best_bid`, `best_ask` | fed by every benchmark |
| `ObjectPool` (`object_pool.hpp`) | storage, LIFO free list, in-use flags, two 64-bit counters | `allocate`, `deallocate` | owned by the pooled book, which keeps raw pointers into it |
| `PooledOrderBook` (`src/pooled_order_book.cpp`) | lookup table id -> slot, levels, pool, exhaustion counter | as `OrderBook` | must behave like the baseline |
| `SpscRingBuffer` (`spsc_ring_buffer.hpp`) | two atomic indexes, each written by one thread; a slot array accessed without synchronisation of its own | `push`, `pop`, `empty` | shared by two threads |
| `BoundedMutexQueue` (`mutex_queue.hpp`) | queue, closed flag, mutex, two condition variables | `push`, `push_with_mutation`, `pop`, `close`, `size` | shared by any number of threads |
| SPSC benchmarks (`benchmark_spsc_queue*.cpp`) | ring, `producer_done` flag, counters, book | producer loop, consumer loop, join | ring + book |
| Producer-consumer benchmark | mutex queue, counters, book | producer loop + `close`, consumer loop, join | mutex queue + book |
| Memory-pool benchmark | the two books | same messages into each | both books |
| TCP and UDP feeds, `socket_utils` | socket buffers, flags, counters, book | send/receive loops, timeouts | sockets + book |
| Generator (`src/generator.cpp`) | message vector, seed, id cycle | `generate` | feeds every benchmark |
| Latency recorder (`src/metrics.cpp`) | samples | `record`, `clear`, percentiles, `print_summary` | owned by one thread each |
| Single-thread benchmark | messages, one book | warm-up loop, measured loop on the same book | its book is the baseline the documents compare to |
| Batching benchmark | messages, a book per batch size | batches, samples per batch | sequential |
| False-sharing benchmark, `thread_utils` | two counters, two migration counters, affinity | pin, increment, sample the CPU | two threads and the scheduler |

What is hard here, and therefore what the properties are about (the list with
lines is `hazards` in `PROJECT.json`):

* **the ring without locks**: each thread decides with an arbitrarily old copy
  of the other's index and then touches a slot with plain accesses.  Tests on
  x86 cannot show a missing release or acquire;
* **leaving the consumer loop**: `producer_done` and the emptiness of the ring
  are read one after the other, while the producer is still running;
* **condition variables**: `notify_one` wakes one thread, another may take the
  place first, threads wake without reason, and `close` notifies after it has
  unlocked;
* **two representations of one book**: the lookup table and the levels must
  agree after every sequence of messages, the levels' totals are kept by
  differences in wrapping arithmetic, and the pooled book adds raw pointers, a
  free list and a limit;
* **two books that must agree**: the repository notes record one divergence
  that was found and fixed (`docs/P4notes.txt:2`);
* **a warm-up on the measured book**: the single-thread benchmark applies its
  first 1000 messages twice, and partial trades and resizes are not idempotent;
* **a pool with a size of its own**: with too few slots adds disappear in the
  middle of a feed, and only a counter tells;
* **figures computed in doubles**: percentiles interpolate between samples, and
  truncation meets rounding.

Nothing is persisted, so there is no crash recovery to speak of.

## Modules

| module | models | composed with |
|---|---|---|
| `MarketMessage` | the message and order types, reduced to the fields the books read | |
| `PriceLevels` | one side of a book and the steps both books share on it | `MarketMessage` |
| `OrderBook` | the baseline book; each handler is a function from a book to a book, each message type an action | `PriceLevels` |
| `OrderBookProofs` | the theorems of the baseline book, on lemmas about levels, sums and wrapping arithmetic | `OrderBook`, `TLAPS` |
| `ObjectPool` | the pool, as operators on the record its owner keeps | |
| `PooledOrderBook` | the pooled book, with the refinement to `OrderBook` | `PriceLevels`, `ObjectPool`, `OrderBook` |
| `PooledOrderBookProofs` | the theorems of the pooled book and its pool | `PooledOrderBook`, `OrderBookProofs` |
| `BookComparison` | both books fed with the same messages | `OrderBook`, `PooledOrderBook` |
| `BoundedFifo` | **abstract**: what either queue promises | |
| `FeedReplay` | **abstract**: what every program promises of its book: the messages of the feed, one after the other, each once | |
| `MarketDataGenerator` | `generate()`, message by message | `MarketMessage` |
| `OneThread` | what the sequential programs have in common: the generated feed and the baseline book | `MarketDataGenerator`, `OrderBook` |
| `SingleThread` | the single-thread benchmark: generation, warm-up, measured loop | `OneThread`, `FeedReplay` |
| `Batching` | the batching benchmark with its recorder | `OneThread`, `LatencyRecorder` |
| `LatencyRecorder` | the recorder and what it prints | |
| `FoldProofs` | lemmas about folding a sequence with any operator | `TLAPS` |
| `SequentialProofs` | the theorems of both sequential programs and of the recorder | `SingleThread`, `Batching`, `FoldProofs`, `TLAPS` |
| `SpscRingBuffer` | the ring, access by access, under release/acquire | `BoundedFifo` |
| `SpscRingBufferProofs` | its theorems | `SpscRingBuffer`, `TLAPS` |
| `TwoThreads` | what the pipelines' programs have in common: feed, capacity, progress of the threads, book | |
| `SpscPipeline` | the two threads of the SPSC benchmark, the book a parameter | `SpscRingBuffer`, a book, `FeedReplay` |
| `SpscPooledPipeline` | the same threads around the pooled book | `TwoThreads`, `SpscPipeline`, `PooledOrderBook`, `OrderBook` |
| `BoundedMutexQueue` | the queue, critical section by critical section | `BoundedFifo` |
| `BoundedMutexQueueProofs` | its theorems | `BoundedMutexQueue`, `TLAPS` |
| `MutexPipeline` | the two threads of the producer-consumer benchmark | `TwoThreads`, `BoundedMutexQueue`, a book, `FeedReplay` |
| `SocketFeed` | what the two feeds have in common: messages, threads' places, book | |
| `TcpFeed` | the two threads of the TCP benchmark with `send_all` and `recv_all`, byte by byte | `SocketFeed`, a book, `FeedReplay` |
| `UdpFeed` | the two threads of the UDP benchmark over a lossy socket | `SocketFeed`, a book |
| `FalseSharing` | the two threads of the false-sharing benchmark and the thread utilities | |
| `SocketFeedProofs` | the theorems of the two feeds | `TcpFeed`, `UdpFeed`, `FoldProofs`, `TLAPS` |
| `TwoThreadProofs` | the theorems of the three pipelines and of the false-sharing benchmark | `MutexPipeline`, `SpscPipeline`, `SpscPooledPipeline`, `FalseSharing`, and the proofs of both queues, the pooled book and folds |
| `SampleFeed` | the messages and the book the runs of the pipelines and feeds use | `OrderBook` |
| `MC*` | constants and symmetries for TLC | |

Names are the source's.  Operators ending in `_Something` after a source name
(`is_full_Never`, `handle_trade_Dangling`) are the mutated forms `PROJECT.json`
lists: what a plausible bug would turn the definition into.  No specification
uses them.  Programs whose theorems share a module are extended by it side by
side; where both would use one name, one of them has a prefix: `Pooled`
(`SpscPooledPipeline`), `Batch` (`Batching`), `Udp` (`UdpFeed`), `FS`
(`FalseSharing`).

**Books.**  A book is one record.  Ids, prices and quantities come from small
sets that include quantity 0 and numbers that make a total wrap: `U32` is the
modulus of `total_quantity` (2^32 in the code) and `U64` that of the pool's
counters.  A pointer into the pool is the index of its slot, and a slot without
a live object holds `NoObject`, so a dangling pointer is visible as a table
entry whose slot is free.  `handle_modify` of the baseline computes its delta in
`int32_t`; where that overflows, every build of `CMakeLists.txt` wraps, which
after the cast back to `uint32_t` is the modular sum, and the model says so.
`PooledOrderBook::handle_modify` computes in `int64_t` and clamps at zero, and
the model does that.

**Ring.**  An atomic index is the sequence of stores made to it.  A load returns
any store not older than the last one its thread has seen; a release store
carries the number of plain accesses its thread has made, and an acquire load
that returns it learns that number.  `push` and `pop` are three steps each (read
both indexes and maybe give up; access the slot; store the own index), `empty`
is one.  A slot remembers the number of its last write and read; a read whose
write the reader has not learned of is a data race and returns any item.  The
memory orders are definitions of their own (`push_head_store == "release"`), so
that a weaker order is a mutant.

**Mutex queue.**  A step is what a thread does between getting the mutex and
giving it up, by returning or by waiting.  A condition variable is the set of
its waiters; a notified or spuriously woken thread moves to `woken` and competes
for the mutex with everyone else.  The three steps of `close` (flag, notify
consumers, notify producers) are separate, since only the first holds the mutex.

**Pipelines and feeds.**  All four take the message sequence and the book (`InitialBook`,
`ApplyMessage`) as constants.  `SpscPooledPipeline` gives `SpscPipeline` the pooled
book; the threads never look into their book, and the run compares it with the
baseline's replay at every step, so it stands for both SPSC programs.  The other
runs give them `OrderBook`.  In `SpscPipeline`
the flag `producer_done` has its own memory order: loading it with acquire
teaches the consumer the stores of `head_` before it, which is what the exit
test relies on.

**Feeds.**  In `TcpFeed` a byte is a message number and an offset, the
connection the bytes written and not yet read, and each `send` and `recv` moves
any number of bytes from one to what is asked.  The consumer's `message` is
memory that keeps its old bytes, so a receive loop that stopped early would mix
two messages; mixed bytes decode to any message.  `accept`, `connect`, `send`
and `recv` may fail at any time, and an exception in a thread ends the process
(`aborted`), as `std::terminate` does.  `fault` remembers that something failed,
so that the promise of a run without failures can be stated beside the one with
them.  In `UdpFeed` the receiving socket is a bounded sequence that drops what
does not fit, which is what a loopback socket does; `recv` fails only on an
empty socket, after its timeout, and the load of `producer_done` that follows
may still miss the store.

**Sequential programs.**  The generator's congruential sequence is a free draw
below the bound, so that a run covers every seed; the order ids, which are not
drawn, go round a cycle of `IdCycle` (10000 in the code).  `SingleThread` has a
step per message of each loop.  `Applied`, the progress of the replay that it
implements, grows with the warm-up, rests while the measured loop repeats the
warm-up, and grows again from there.  `Batching` fills a recorder per
batch size.

**Recorder.**  The sorted copy is a rearrangement of the samples in which none
comes before a smaller one; `std::sort` promises no more, and of numbers there
is only one.  Percentages are thousandths, and `percentile` is the *set* of
values the build may return.  `index_errors` says on which side of the exact index
the double `(p / 100.0) * (size - 1)` may lie: it is exact for P50 and the ends; for
P90 and P99 a whole index is met, because 0.9 and 0.99 are closer to their doubles
than a rounding of the product; 99.9 / 100.0 comes out above 0.999, so P99.9 may be
lifted off a whole index, and never falls below one.  Floor and ceil are taken of that
double.  `interpolate` allows every value that the error of the index, at most
1 / (1000 * `Resolution`), can lead to.  `Resolution` is 5000000 for the code, up to a
million samples: the largest error over all those sizes is 1.68e-10, measured on the
compiled expression with and without fused multiplication.  Below gaps of 5 ms
between two samples the only trace of an error is then that a whole number may be
missed by one; beyond, a value that is just short of a whole number may also reach
it.  The error grows with the number of samples, and a longer run is covered by a
smaller `Resolution`.  The roundings of the interpolation itself are below 2.3e-7 for
samples below a second, and never take a value out of the interval between its
samples, since rounding keeps the order of numbers.  The mean is shown without its fraction, as
`print_summary` shows it, and its sum wraps at `U64`.

**False sharing.**  A thread is at some CPU, may run on the CPUs of its affinity,
and the scheduler moves it at any moment; `get_current_cpu` returns where it is,
or -1 for a platform that cannot tell.  The two threads run the same code, which
is written out twice in the source and once in the model.  The other threaded
programs count migrations by the same three statements, per message instead of
every 4096 iterations; there the counters are left out.

Timestamps and spin counters are left out everywhere: nothing is decided by
them.

## Runs

| run | shows | bounds |
|---|---|---|
| `order_book` | the lookup table and the levels describe the same orders (`BookConsistent`), totals are the sums modulo 2^w (`TotalsMatchOrders`), the top of the book is the best resting price and never an emptied level (`TopOfBook`), nobody overtakes at a level (`TimePriority`) | 3 ids, 2 prices, quantities 0 to a value whose triple wraps |
| `pooled_order_book` | slots are never leaked, shared, freed twice or left dangling (`PoolPartition`), the counters add up even after wrapping (`PoolCountersMatch`), an add is refused only by a full book and then changes nothing (`ExhaustedOnlyWhenFull`), every step is a step of the baseline (`ImplementsOrderBook`) | 3 ids on 2 slots, counters modulo 3, no total wraps |
| `books_disagree_after_wrap` | *violation*: the two books, equal after the same messages otherwise, are not once a total has wrapped (`BooksAgree`) | 2 ids, 1 price |
| `spsc_ring` | no data race with loads as stale as C++ allows (`NoDataRace`), the inductive invariant (`RingInv`), the ring is a bounded FIFO (`ImplementsFifo`) | capacity 2 (3 slots), 7 pushes |
| `spsc_pooled_pipeline` | the threads of the SPSC benchmarks implement one replay of the feed (`PooledImplementsReplay`), the consumer leaves only after the last message (`PooledAllConsumedAtExit`), both threads end (`PooledTermination`); the pooled book is the baseline book unless exhaustions are counted (`BaselineBookUnlessExhausted`), and they are counted exactly if the baseline book outgrows the pool (`ExhaustionsTellTooSmall`) | 9 messages, ring of 2, pool of 2 |
| `mutex_queue` | no wakeup is lost (`NoLostWakeup`), everything accepted is delivered before any `pop` returns false (`DrainedBeforeStop`), bounded FIFO (`ImplementsFifo`), everyone returns after `close` (`EveryoneReturns`) | 3 producers, 2 consumers, capacity 2, 5 pushes, close at any moment |
| `mutex_pipeline` | `ImplementsReplay`, `AllConsumedAtExit` and `Termination` for the mutex benchmark | 8 messages, capacity 2 |
| `tcp_feed` | only whole messages reach the book, in order, wherever the stream is cut or breaks off (`ImplementsReplay`), a run without failures is not aborted and consumes everything (`AllConsumedAtExit`), both threads or the process end whatever fails (`Termination`) | 4 messages of 3 bytes, 4 bytes of buffer |
| `udp_feed` | the book is the replay of as many messages as were consumed, in order (`BookIsReplayOfSome`), the printed loss does not wrap and is exact (`DroppedFigure`), the socket outlives the last send (`OpenWhileSending`), both threads end, unless there is no timeout and a message was lost: then the consumer waits with all others applied (`UdpTermination`) | 4 messages, room for 2 datagrams, with and without a receive timeout |
| `single_thread` | the warm-up leaves exactly its adds in the book (`WarmUpLeavesItsAdds`), warm-up and measured loop are one replay (`ImplementsReplay`) | all feeds of 4 messages, cycle and warm-up of 3 |
| `batching` | every batch size ends with the same book and one sample per message (`ReportsAgree`), the printed figures are ordered and the mean is in range unless its sum wraps (`SummaryOrdered`), percentiles lie between the samples around their rank, close to the interpolation, whatever the doubles do (`PercentileInterpolates`) | all feeds of 3 messages, batches of 1, 2 and 4, 4 latencies, sums past `U64`, `Resolution` 10 |
| `false_sharing` | the counters are exact at the join (`CountersExact`), no move is counted twice and none that pinning causes (`MigrationsHappened`) | 4 iterations, sample every 2nd, 2 CPUs, 2 moves per thread; unpinned, pinned, or pinned to a missing CPU |

Why the bounds are enough to be interesting.  Two prices and three ids give
levels that are joined, emptied and reopened, orders of both sides, and orders in
the middle of a level.  With fewer slots than ids the pool is exhausted and its
slots change owner.  Seven pushes take both indexes of a three-slot ring twice
around, so a stale index can be a whole lap old, and two items tell a wrong item
from a right one.  Five pushes against two places let all three producers wait
at once, one more than the items in the queue, so that after `close` the
notifications of `pop` alone would not reach everyone, while two consumers
compete for one item.  The feed of the mutex pipeline has a duplicate add, a resize, a partial and a filling trade and a
cancel, and is four times as long as the queue.  In the TCP run the buffer holds
the end of one message together with the beginning of the next, and every
message can be cut at every place; in the UDP run the socket overflows, runs
empty, and still holds datagrams when it is closed.  The feed of the pooled
pipeline fills the pool, gives both slots back by a fill and by a cancel, takes
them again, and only then needs one more.  In the single-thread run the fourth
message is the first one that meets an order of the warm-up, in both passes of
the feed; one batch size leaves a short last batch and another makes the only
batch short.  Two and three samples put the P50 between two samples and on one,
and the other percentiles between the same two.  `Resolution` is so small that
values both gain and lose a nanosecond (gaps of 101 and 10).  A whole index that is
lifted off takes 1001 samples: that case is left to the theorems.

Symmetry is used only over order ids, which the books compare for equality
alone, and never with a liveness property.  `mutex_queue` turns
the deadlock check off: once everyone has returned the queue is allowed to rest,
and `EveryoneReturns` is the property that says nobody is left waiting.  So does
`udp_feed`: without a timeout the consumer may wait in `recv` for good, and
`UdpTermination` says when.  The other pipelines and feeds keep the check on; their
end is an explicit step.

Where a theorem assumes more than the constants' `ASSUME`s, the run's module
checks that its instance satisfies it: the feed of the pooled pipeline keeps
every level's sum below `U32` (`ReusingMessagesFit`).

Every property has a mutant in `PROJECT.json` under which the same run fails.

## Fairness

* `SpscPipeline`: weak fairness of each thread is scheduling (each loop that
  waits calls `std::this_thread::yield`).  A thread that keeps loading an atomic
  eventually gets a later store (C++ asks implementations to make stores visible
  in finite time); this is the fairness of `FreshPush`, `FreshPop` and
  `done_loaded`.  The latter two are strong: the consumer's loop alternates
  between the flag and the ring, so neither load stays enabled continuously.
* `BoundedMutexQueue`: a woken thread and a consumer calling `pop` get the mutex
  eventually, and `close` is called and finishes.  Nobody is assumed to call
  `push`, and no spurious wakeup is assumed.
* `MutexPipeline`: each thread keeps being scheduled and gets the mutex.
* `TcpFeed`: each thread keeps being scheduled and a call that can return does;
  no call is assumed to fail.
* `UdpFeed`: likewise, a `recv` with a timeout returns, and the store of
  `producer_done` becomes visible to a consumer that keeps loading it (strong
  fairness of `done_loaded`, since the loop alternates between `recv` and the
  flag).  With timeout 0 no timeout is assumed.
* `SpscPooledPipeline` has the fairness of `SpscPipeline`.

Safety properties and refinements use no fairness.

## Proofs

All theorems hold for every value of the constants allowed by the `ASSUME`s of
the module.

**Ring** (`SpscRingBufferProofs`).  `TypeCorrect`, `RingCorrect`, `RaceFree` and
`FifoCorrect`: type correctness, the inductive invariant, freedom from data
races and refinement of `BoundedFifo`.  Assumptions: `Capacity` and `MaxPushes`
are naturals and `Items` is not empty.  Neither `NoDataRace` nor the refinement
is inductive, since they say nothing of *why* a stale index is safe.  `RingInv`
does, in three parts:

* `IndexInv`: the stores of `tail_` repeat the stores of `head_`, each store
  carries all accesses before it, and two stores at most one lap apart differ by
  their distance, wrapped once.  Saying it by distance avoids division, which
  the provers do not handle, and is exactly what makes two stores less than a
  lap apart point to different slots (`DistinctSlots`);
* `ThreadInv`: what a thread knows is what the store it has seen carries; the
  producer is less than a lap ahead of the tail it has seen, the consumer behind
  the head it has seen;
* `SlotInv`: the slots between the indexes hold the accepted items not yet
  delivered, and a slot's last read belongs to a released pop or to the one in
  progress.

The step from `RingInv` to the next is one lemma per action (`PushLoadInv` to
`EmptyInv`); `InvRaceFree` reads the race freedom off it, and `StepRefines` maps
`push_publish` to `Enqueue`, `pop_release` to `Dequeue` and everything else to a
stutter.

**Mutex queue** (`BoundedMutexQueueProofs`).  `QueueTypeCorrect`, `WakeupsKept`,
`DrainedAtStop`, `QueueFifoCorrect` and `ZeroCapacityBlocks`.  `TypeOK` carries the facts about
threads the other proofs need: a thread waits, is woken, or runs, and a producer
inside `push` has its item.  `NoLostWakeup` is inductive with it: a waiter can
only appear when there is no free place (no item), and from then on every place
that becomes free wakes a producer, so the free places never outnumber the
woken ones.  That counts threads, hence the finiteness assumption.
`DrainedBeforeStop` and the refinement rest on `Contents`, that the accepted
items are the delivered ones followed by the queue.  With capacity 0 that makes
the queue empty for good, and nothing but `close` lets a call return.

**Single-thread benchmark** (`SequentialProofs`).  `WarmUpLeavesItsAddsAlways`
and `SingleThreadImplementsReplay`, for every number of messages, every cycle of
ids, every range of prices and quantities and every warm-up that is not longer
than the cycle (`WarmUpAssumption`; 1000 and 10000 in the code).  The refinement
is not inductive: while the measured loop repeats the warm-up, the replay rests,
so the book must not change, and nothing in the refinement says that it does
not.  `SingleThreadInv` does: the k-th message has the id of its iteration
(`FeedInv`), hence no two messages of the warm-up have the same id
(`WarmUpIdsDiffer`); the loops stay in their bounds (`LoopInv`); and the ids in
the book are those of the warm-up's adds (`WarmUpLeavesItsAdds`).  A modify,
cancel or trade of the warm-up thus meets no order in either pass, and an add
meets its own order in the second (`WarmUpAgain`, from `UnknownIdIgnored` and
`KnownIdNotAdded` about the book).  `ReplayStep` maps each step to an `Apply`, a
`Generate` or a stutter.

**Batches** (`SequentialProofs`).  `BatchesAgree`: for every feed and every list
of batch sizes, dividing the number of messages or not, each report has the book
of the unbatched replay and one sample per message.  `ReportsAgree` says nothing
of a batch in progress.  `BatchInv` does: the book is the fold of the messages
reached, the samples are as many as the messages of the batches recorded, and a
batch stops at the end of the feed (`Reached`).

**Recorder** (`SequentialProofs`).  `SummaryIsOrdered` and
`PercentilesInterpolate`, for every number of samples and whichever of the values
`percentile` allows is returned.  That a sorted copy exists is itself proved
(`CanBeSorted`): ranking each sample by the number of samples not after it is a
bijection, and its inverse sorts.  `KthSmallest` says that the k-th element of the
sorted copy is the k-th smallest by counting, which ties `percentile` to its
reference definition.  Floor and ceil of the double are
those of the exact index, except where P99.9 is lifted off (`FloorAndCeil`); what
`percentile` returns is then within truncation and error of the interpolation
(`PercentileValue`).  Two printed percentages differ by at least nine thousandths, or
the higher one is the maximum, so between the same two samples their
interpolations are at least nine thousandths of the gap apart (`WeightsGrow`), while
each error is worth at most one, whatever the `Resolution` (`ErrorBound`): neither a
gained nor a lost nanosecond puts two printed figures in the wrong order
(`PercentilesGrow`).  `PercentileInterpolates` has the condition `Close`: within
1000 * `Resolution` nanoseconds, five seconds for the code, the error of the index
is worth less than one.  The mean lies between minimum and
maximum because the sum lies between as many times either (`TotalBounds`,
`Quotient`).

**Folds** (`FoldProofs`).  Books and sums are folds, and `FoldLeft` is defined by
a choice of a recursive function, of which the provers know nothing.
`FoldOneMore` shows that the fold of one element more is one application more,
by taking a least set of positions where two such functions differ; `FoldPrefix`
says the same of the prefixes of a sequence.  `FoldAlong` turns this into the
induction the other modules need: given a set for each length that holds the
base and is kept by each application, the fold lies in the set for its length.
The modules instantiate it with `on_message`, `record` and addition.

**Baseline book** (`OrderBookProofs`).  `BookTypeCorrect`,
`IndexesAgree`, `TotalsCorrect`, `TopIsBest` and `NobodyOvertakes`, for every set
of ids and quantities, every set of integer prices and every modulus.
`BookConsistent` is nearly inductive: `BookInv` adds the shapes and says price by
price which ids a side lists (`Lists`), none twice, and that a price is there
exactly if an order rests at it.  Each handler is an order that joins a level,
leaves one or is resized (`JoinInv`, `LeaveInv`, `ResizeInv`), and each of these
lemmas also says what becomes of the totals (`TotalsInv`) and of the order of
arrival (`BookKeepsOrder`); that is how one induction carries four properties.
`TimePriority` compares the ids of a level pairwise, before and after a step.
Two things the provers do not know are built up from nothing: sums over a finite set (`SumUnique`, `SumExists`,
`SumAnyOrder`, `SumWithNew`, `SumWithoutOld`), each by taking a least set for
which the claim fails, since finite sets are well-founded under inclusion; and
sums and differences modulo a number (`ModUnique`, `ModAdd`, `ModSub`).

**Pooled book** (`PooledOrderBookProofs`).  `PoolIsPartitioned`, `CountersAddUp`,
`RefusedOnlyWhenFull` and `ImplementsUnlessWrapped`, for every capacity
including 0.  `PooledInv` joins three invariants: of the pool (`PoolInv`: the
free list lists each free slot once), of the lookup table (`TableInv`: one id per
held slot, and the counters' difference is their number modulo `U64`) and
`BookInv` of the book the table stands for.  The last one is needed even for the
pool: a trade or a cancel gives a slot back only if it finds the order's level.
The refinement has the condition `[]TotalsFit`: no level ever holds more than
`U32 - 1` in all.  Without it the theorem is false, as
`books_disagree_after_wrap` shows; with it a level's total covers each of its
orders, so the clamp of `handle_modify` never acts (`TotalCovers`).  What the
proofs of the baseline book say of a level is not proved again: the module
instantiates `OrderBookProofs` for the book `AsBook` stands for, shows that both
modules speak of the same terms (`SameTerms`, `SameSideSteps`) and cites its
lemmas.  `PooledStep` sums up what a message does, for the pooled pipeline: it
keeps `PooledInv`, and either it is refused for want of a slot, which is counted
and changes nothing else, or it is applied as the baseline book applies it.

**Feeds** (`SocketFeedProofs`).  `TcpAllConsumed` and `TcpImplementsReplay` hold
for every feed, size of message and size of buffer.  `TcpInv` counts the bytes
`Written` and `Read` since the beginning and the `Place` of a byte in the whole
stream: the connection holds the places from `Read + 1` to `Written`, in order,
so the bytes of a received message are those of the next message and no others
(`WholeMessage`), wherever a `send` or `recv` stopped.  `NoFaultInv` says what the
threads may rely on while nothing has failed.  `UdpOpenWhileSending`,
`UdpDroppedFigure` and `UdpBookIsReplayOfSome` rest on `UdpInv`: every datagram
sent is processed, in process, waiting or dropped, and the positions the book
was built from all lie before the one in process, which lies before those that
wait, which increase.  The book is a fold over the feed, and
`FoldProofs` says that one message more is one `ApplyMessage` more.

**Pipelines** (`TwoThreadProofs`).  `MutexAllConsumed`, `MutexImplementsReplay`,
`SpscAllConsumed` and `SpscImplementsReplay`, for every feed, capacity and book.
The invariants of the two queues are not proved again: the module instantiates
`BoundedMutexQueueProofs` and `SpscRingBufferProofs`, shows that what the threads
call are steps of the queue, and cites their lemmas.  `MutexInv` adds that the
queue has accepted exactly the messages counted as produced and that `close`
comes after the last; the rest follows from `DrainedBeforeStop`.  `SpscInv` adds
what `producer_done` stands for (`DoneInv`): it is stored after the last store of
`head_` and carries it, so a consumer that has loaded it has seen every store of
`head_`.  An empty ring then really is one, because two different stores of
`head_` at most a lap apart are different slots (`EmptyMeansDrained`).  Loading the
flag is, for the ring, a look at its latest head.  Assumptions: the feed is a
non-empty sequence (`FeedAssumption`), the capacity a natural number
(`QueueCapacityAssumption`), and `NoItem` no message (`NoItemAssumption`).

**Pooled pipeline** (`TwoThreadProofs`).  The threads never look into their book,
so `PooledAllConsumed` and `PooledReplays` follow from `SpscInv`.
`PooledBookIsBaseline` and `ExhaustionsTell` are about the book they build:
`ConsumerBookInv` says that it satisfies `PooledInv` and that there were at most as
many exhaustions as messages; that without an exhaustion it is the baseline book
of the messages consumed, its totals match and the slots have been enough; and
that with one they have not.  The middle part is needed because an add is
refused by the pooled book's *own* fullness, while the claim counts the orders of
the baseline book: they are the same book up to the first refusal
(`NoMoreThanSlots`).  The number of exhaustions is bounded because it is a
counter modulo `U64`: were it to wrap, 0 would no longer mean that none happened.
`FeedLengthAssumption`, that a vector has fewer elements than `size_t` has values,
excludes that.  Both theorems have the hypothesis `FeedFits`: no level's sum
exceeds a `uint32_t` while the feed is applied.  The first is false without it,
since past that the clamp of `handle_modify` parts the books, as
`books_disagree_after_wrap` shows.

**False sharing** (`TwoThreadProofs`).  `SharingCountersExact` and
`SharingMigrationsHappened`, from what `FalseSharing` assumes of its constants
(`FalseSharingAssumption`).  `CountsInv`: a counter is ahead of the iterations only
between an increment and its sample.  `MovesInv`: migrations counted, plus one if
the last reading is not where the thread is, never exceed its moves.

**Only model-checked.**  `Termination`, `PooledTermination`, `UdpTermination` and
`EveryoneReturns`: liveness under fairness is outside TLAPS.  `BooksAgree` is the
property that fails.  Every invariant and every refinement that a passing run
checks is proved.

## The disagreement found

`OrderBook` and `PooledOrderBook` are meant to agree: the memory-pool benchmark
exists to compare them on one message stream, and `docs/P4notes.txt` treats an
earlier difference as a correctness bug.  They do not agree once a level's
total has passed 2^32 - 1.  Adds, cancels and trades let the total wrap in both
books, and so does the baseline's modify; the pooled book's modify computes in
`int64_t` and clamps a negative result to zero
(`src/pooled_order_book.cpp:85`).  After two adds that wrap the total, shrinking
one order gives the right sum again in the baseline and 0 in the pooled book
(run `books_disagree_after_wrap`).  The generator's quantities are far too small
to reach this; a caller of the library can.

## What is left out

* **Capacity `SIZE_MAX`** of the ring makes its slot count wrap to 0.  The
  runs of the pipelines use a capacity of at least 1, without which they do not
  end; capacity 0, which the programs pass on unchecked, is covered by the
  theorems (no push succeeds, so the SPSC producer spins forever) and by
  `ZeroCapacityBlocks`.
* **`size`, `available`, `capacity`** and the other readers change nothing, and no program calls the recorder's
  `clear`, which empties it.
* **Destructors** of the pool and the books run after everything modelled here.
* **Moved and copied items**: an item is one value, copied whole.  The torn copy
  a data race could produce is covered by "any item".
* **Cache lines, timestamps and the clock**: no decision depends on them.
  `ScopedTimer` is a clock around `record`; `format_duration` is wording.
* **The congruential generator**: its draws are free, so nothing is said about
  their distribution or about the fixed seed.
* **Option wrappers of `socket_utils`** (buffer sizes, `TCP_NODELAY`, timeouts)
  call the system once; what they set is a constant of the feeds.
* **Branch-prediction and prefetch benchmarks** are named by `CMakeLists.txt`
  but their sources are not in the repository.
* **Foreign datagrams**: the UDP consumer skips datagrams of another size, which
  only another process could send.

## Plan

In order of importance.

1. *(done)* the books and their pool; the ring and the mutex queue with their
   proofs; the pipelines and feeds.
2. *(done)* the generator, the single-thread benchmark with its proofs, the
   batches, the recorder, the pooled pipeline, false sharing; `FeedReplay` as
   the specification the programs implement; capacity 0 and timeout 0.
3. *(done)* proofs: both books and the pool, with the conditional refinement;
   the TCP and UDP feeds; both pipelines; false sharing.
4. *(done)* proofs: the batches, the recorder's figures, and the pooled pipeline
   with the book it builds.
5. Open: `ExhaustionsTell` without its hypothesis `FeedFits`.  Which orders rest
   does not depend on the totals, so the claim should hold for feeds that wrap a
   total too; the proof would compare the two books without their totals instead
   of through `AsBook`.
