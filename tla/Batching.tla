------------------------------ MODULE Batching ------------------------------
(***************************************************************************)
(* apps/benchmark_batching.cpp: the same generated messages are applied to *)
(* a new book for each batch size, in batches that are timed as a whole.   *)
(* A batch's time per message is recorded once for each of its messages;   *)
(* samples_ is that of amortized_latency_recorder.                         *)
(***************************************************************************)
EXTENDS OneThread, LatencyRecorder

CONSTANT default_batch_sizes   \* <<1, 8, 32, 64>> in the code

ASSUME BatchSizesAssumption == default_batch_sizes \in Seq(Nat \ {0})

VARIABLES generating,      \* main has not yet left generate()
          batch_start, message_index,
          reports          \* what was printed for the batch sizes done so far

batchVars == <<messages_, book, generating, batch_start, message_index,
               samples_, reports>>

batch_size == default_batch_sizes[Len(reports) + 1]

batch_end == Min({batch_start + batch_size, Len(messages_)})

Running == ~generating /\ Len(reports) < Len(default_batch_sizes)

BatchInit ==
    /\ messages_ = <<>>
    /\ generating = TRUE
    /\ Baseline!Init
    /\ batch_start = 0 /\ message_index = 0
    /\ samples_ = EmptyRecorder
    /\ reports = <<>>

batch_generate ==
    /\ generating
    /\ generate
    /\ UNCHANGED <<book, generating, batch_start, message_index, samples_, reports>>

batch_generated_all ==
    /\ generating
    /\ Len(messages_) = num_messages_
    /\ generating' = FALSE
    /\ UNCHANGED <<messages_, book, batch_start, message_index, samples_, reports>>

\* The inner loop: the next message of the batch.
process_message ==
    /\ Running
    /\ message_index < batch_end
    /\ book' = Baseline!on_message(book, messages_[message_index + 1])
    /\ message_index' = message_index + 1
    /\ UNCHANGED <<messages_, generating, batch_start, samples_, reports>>

\* The amortized latency of a batch, once per message.
record_for_each(processed_in_batch) ==
    \E amortized_latency_ns \in Latencies :
        samples_' = FoldLeft(record, samples_,
                             [k \in 1 .. processed_in_batch |-> amortized_latency_ns])

\* Mutated form of record_batch: the last batch is taken for a full one.
record_batch_FullSize ==
    /\ Running
    /\ batch_start < Len(messages_)
    /\ message_index = batch_end
    /\ record_for_each(batch_size)
    /\ batch_start' = batch_start + batch_size
    /\ message_index' = batch_start'
    /\ UNCHANGED <<messages_, book, generating, reports>>

\* The batch is done: a sample per message, and on to the next batch.
record_batch ==
    /\ Running
    /\ batch_start < Len(messages_)
    /\ message_index = batch_end
    /\ record_for_each(batch_end - batch_start)
    /\ batch_start' = batch_start + batch_size
    /\ message_index' = batch_start'
    /\ UNCHANGED <<messages_, book, generating, reports>>

\* The results of a batch size, and a new book and recorder for the next.
report ==
    /\ Running
    /\ batch_start >= Len(messages_)
    /\ reports' = Append(reports, [book |-> book, samples |-> Len(samples_)])
    /\ book' = Baseline!EmptyBook
    /\ samples_' = EmptyRecorder
    /\ batch_start' = 0 /\ message_index' = 0
    /\ UNCHANGED <<messages_, generating>>

Done == ~generating /\ ~Running /\ UNCHANGED batchVars

BatchNext == \/ batch_generate \/ batch_generated_all
             \/ process_message \/ record_batch \/ report \/ Done

BatchSpec == BatchInit /\ [][BatchNext]_batchVars

-----------------------------------------------------------------------------
(***************************************************************************)
(* Every batch size ends with the book of an unbatched replay and with one *)
(* sample per message, also when the last batch is a short one or all      *)
(* messages fit in one batch: no message is left out or applied twice      *)
(* where batches meet, and the throughput of all sizes is comparable.      *)
(***************************************************************************)
ReportsAgree ==
    \A k \in DOMAIN reports :
        reports[k] = [book |-> FoldLeft(Baseline!on_message,
                                        Baseline!EmptyBook, messages_),
                      samples |-> Len(messages_)]

=============================================================================
