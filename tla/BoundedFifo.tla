----------------------------- MODULE BoundedFifo -----------------------------
(***************************************************************************)
(* What both queues of the system promise: a bounded first-in first-out    *)
(* channel.  The channel is the part of the accepted items that has not    *)
(* been delivered yet; items leave in the order in which they came, each   *)
(* exactly once, and never more than Capacity of them are inside.          *)
(*                                                                         *)
(* SpscRingBuffer and BoundedMutexQueue are both shown to implement this   *)
(* specification.                                                          *)
(***************************************************************************)
EXTENDS Integers, Sequences

CONSTANTS Items, Capacity

VARIABLES accepted,   \* every item a push has accepted, in order
          delivered   \* every item a pop has returned, in order

fifoVars == <<accepted, delivered>>

Init == accepted = <<>> /\ delivered = <<>>

Enqueue(item) ==
    /\ Len(accepted) - Len(delivered) < Capacity
    /\ accepted' = Append(accepted, item)
    /\ UNCHANGED delivered

Dequeue ==
    /\ Len(delivered) < Len(accepted)
    /\ delivered' = Append(delivered, accepted[Len(delivered) + 1])
    /\ UNCHANGED accepted

Next == (\E item \in Items : Enqueue(item)) \/ Dequeue

Spec == Init /\ [][Next]_fifoVars

=============================================================================
