----------------------------- MODULE FeedReplay -----------------------------
(***************************************************************************)
(* What every program of the repository promises about its order book: it  *)
(* is built by applying the generated messages one after the other, each   *)
(* once.  Only the book and how far it has come are visible; threads,      *)
(* queues, sockets, batches and warm-ups are not.                          *)
(***************************************************************************)
EXTENDS Integers, Sequences

CONSTANTS Message,             \* the messages a feed is made of
          InitialBook,         \* the book before any message
          ApplyMessage(_, _)   \* on_message of that book

VARIABLES messages,   \* the feed
          applied,    \* how many of its messages the book has seen
          book

Init == messages \in Seq(Message) /\ applied = 0 /\ book = InitialBook

\* The feed is generated before it is used.
Generate ==
    /\ applied = 0
    /\ \E msg \in Message : messages' = Append(messages, msg)
    /\ UNCHANGED <<applied, book>>

Apply ==
    /\ applied < Len(messages)
    /\ applied' = applied + 1
    /\ book' = ApplyMessage(book, messages[applied + 1])
    /\ UNCHANGED messages

Next == Generate \/ Apply

Spec == Init /\ [][Next]_<<messages, applied, book>>

=============================================================================
