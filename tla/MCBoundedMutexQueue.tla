------------------------ MODULE MCBoundedMutexQueue ------------------------
(***************************************************************************)
(* Three producers and two consumers on a queue of two places, with more   *)
(* pushes than places: waiting on both sides, wakeups overtaken by         *)
(* newcomers, a close at any moment, and more waiting producers than items *)
(* whose removal could wake them.                                          *)
(***************************************************************************)
EXTENDS BoundedMutexQueue

=============================================================================
