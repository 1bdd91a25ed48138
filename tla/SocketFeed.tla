----------------------------- MODULE SocketFeed -----------------------------
(***************************************************************************)
(* What the TCP and the UDP feed benchmark have in common: a producer      *)
(* thread sends the generated messages over a loopback socket, a consumer  *)
(* thread receives them and applies them to the book.  An exception in a   *)
(* thread ends the process.                                                *)
(***************************************************************************)
EXTENDS Integers, Sequences, SequencesExt

CONSTANTS Messages,            \* generator.messages()
          InitialBook,         \* the book before any message
          ApplyMessage(_, _)   \* on_message of that book

ASSUME SocketMessagesAssumption ==
    Messages \in Seq(Range(Messages)) /\ Messages # <<>>

VARIABLES producer,   \* where the producer thread is
          consumer,   \* where the consumer thread is
          message,    \* the consumer's message
          produced, consumed, book,
          aborted     \* std::terminate was called

\* Both threads have been joined.
Finished == producer = "closed" /\ consumer = "closed"

Ended == aborted \/ Finished

=============================================================================
