----------------------------- MODULE MCUdpFeed -----------------------------
(***************************************************************************)
(* Four messages over a socket with room for two datagrams: the socket     *)
(* overflows, runs empty, and still holds datagrams when it is closed.     *)
(* recv has a timeout or, with the argument 0, has none.                   *)
(***************************************************************************)
EXTENDS UdpFeed, SampleFeed

=============================================================================
