--------------------------- MODULE MCMutexPipeline ---------------------------
(***************************************************************************)
(* The mutex pipeline on the baseline book, with four times as many        *)
(* messages as the queue has places.                                       *)
(***************************************************************************)
EXTENDS MutexPipeline, SampleFeed

=============================================================================
