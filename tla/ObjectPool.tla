----------------------------- MODULE ObjectPool -----------------------------
(***************************************************************************)
(* The fixed-capacity object pool (include/latency_lab/object_pool.hpp) as *)
(* operators on a pool record, for the component that owns one.            *)
(*                                                                         *)
(* A pointer into storage_ is the slot it points at.  A slot without a     *)
(* live object holds NoObject: its bytes are indeterminate.  The counters  *)
(* are uint64_t and count modulo U64.                                      *)
(***************************************************************************)
EXTENDS Integers, Sequences, SequencesExt

CONSTANTS PoolCapacity,   \* the constructor's argument
          NoObject,       \* what a slot holds before and after an object
          U64             \* the modulus of the counters: 2^64 in the code

ASSUME PoolCapacityAssumption == PoolCapacity \in Nat
ASSUME U64Assumption == U64 \in Nat \ {0}

PoolSlots == 0 .. (PoolCapacity - 1)

\* What allocate returns from an exhausted pool.
nullptr == -1

\* The constructor fills the free list so that slot 0 is on top.
NewPool ==
    [storage_       |-> [i \in PoolSlots |-> NoObject],
     free_list_     |-> [k \in 1 .. PoolCapacity |-> PoolCapacity - k],
     in_use_        |-> [i \in PoolSlots |-> FALSE],
     allocations_   |-> 0,
     deallocations_ |-> 0]

\* The slot the next allocate hands out.
next_slot(pool) ==
    IF pool.free_list_ = <<>> THEN nullptr ELSE Last(pool.free_list_)

\* The pool after allocate(object).
allocate(pool, object) ==
    IF pool.free_list_ = <<>>
    THEN pool
    ELSE [pool EXCEPT !.storage_[next_slot(pool)] = object,
                      !.free_list_ = Front(@),
                      !.in_use_[next_slot(pool)] = TRUE,
                      !.allocations_ = (@ + 1) % U64]

\* Mutated form of deallocate: the slot is not put back on the free list.
deallocate_Leaks(pool, slot) ==
    IF slot = nullptr
    THEN pool
    ELSE [pool EXCEPT !.storage_[slot] = NoObject,
                      !.in_use_[slot] = FALSE,
                      !.deallocations_ = (@ + 1) % U64]

\* The pool after deallocate(slot); it trusts its caller not to free a slot
\* twice.
deallocate(pool, slot) ==
    IF slot = nullptr
    THEN pool
    ELSE [pool EXCEPT !.storage_[slot] = NoObject,
                      !.in_use_[slot] = FALSE,
                      !.free_list_ = Append(@, slot),
                      !.deallocations_ = (@ + 1) % U64]

available(pool) == Len(pool.free_list_)

in_use(pool) == PoolCapacity - available(pool)

=============================================================================
