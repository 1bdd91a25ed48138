--------------------------- MODULE MCFalseSharing ---------------------------
(***************************************************************************)
(* Two threads with four iterations and a sample in every second one, on   *)
(* two CPUs, each thread unpinned, pinned, or pinned to a CPU there is not.*)
(***************************************************************************)
EXTENDS FalseSharing

MCPinArguments == {-1, 1, 7}

=============================================================================
