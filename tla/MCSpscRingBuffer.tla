-------------------------- MODULE MCSpscRingBuffer --------------------------
(***************************************************************************)
(* A ring of two items and three slots, with enough pushes for both        *)
(* indexes to go round it and for the producer to reuse every slot.        *)
(***************************************************************************)
EXTENDS SpscRingBuffer

=============================================================================
