-------------------------- MODULE MCBookComparison --------------------------
(***************************************************************************)
(* Both books on a pool with a slot for every order, and totals so narrow  *)
(* that two adds make one wrap.                                            *)
(***************************************************************************)
EXTENDS BookComparison

=============================================================================
