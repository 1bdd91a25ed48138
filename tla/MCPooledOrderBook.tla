-------------------------- MODULE MCPooledOrderBook --------------------------
(***************************************************************************)
(* Three order ids on a pool of two slots, so that adds are refused and    *)
(* slots are reused by other ids.  U32 leaves room for every total: a      *)
(* level never holds more than two orders of quantity two.                 *)
(***************************************************************************)
EXTENDS PooledOrderBook

\* Order ids are only compared with each other.
IdSymmetry == Permutations(OrderIds)

=============================================================================
