----------------------------- MODULE MCTcpFeed -----------------------------
(***************************************************************************)
(* Four messages of three bytes over a connection that holds four bytes:   *)
(* a send or a receive may end inside a message, and the buffer may hold   *)
(* the end of one message and the beginning of the next.                   *)
(***************************************************************************)
EXTENDS TcpFeed, SampleFeed

=============================================================================
