----------------------------- MODULE TwoThreads -----------------------------
(***************************************************************************)
(* What the programs with a queue between two threads have in common: a    *)
(* producer thread pushes the generated messages, a consumer thread pops   *)
(* them and applies them to the book.                                      *)
(***************************************************************************)
EXTENDS Integers, Sequences, SequencesExt

CONSTANTS Messages,   \* generator.messages()
          Capacity    \* queue_capacity

ASSUME FeedAssumption == Messages \in Seq(Range(Messages)) /\ Messages # <<>>
ASSUME QueueCapacityAssumption == Capacity \in Nat

VARIABLES accepted, delivered,   \* history: what went in and out of the queue
          produced, consumed,    \* how many messages each thread has done
          book

=============================================================================
