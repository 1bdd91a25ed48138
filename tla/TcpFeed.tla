------------------------------ MODULE TcpFeed ------------------------------
(***************************************************************************)
(* apps/benchmark_tcp_feed.cpp: the producer thread writes the generated   *)
(* messages to a loopback TCP connection, the consumer thread accepts the  *)
(* connection, reads messages from the byte stream and applies them to the *)
(* book.  send_all and recv_all (src/socket_utils.cpp) are modelled call   *)
(* by call of send and recv, each of which may move fewer bytes than       *)
(* asked; a call interrupted by a signal (EINTR) is repeated and changes   *)
(* nothing.                                                                *)
(*                                                                         *)
(* A byte is <<i, b>>, the b-th byte of the i-th message.  The connection  *)
(* is the sequence of bytes written and not yet read.  accept, connect,    *)
(* send and recv may fail at any time; an exception in a thread ends the   *)
(* process.  Init is the state main has reached when it starts the         *)
(* threads: the listener is open.  Timestamps, pinning and socket options  *)
(* are left out: no decision depends on them.                              *)
(***************************************************************************)
EXTENDS SocketFeed

CONSTANTS MessageBytes,   \* sizeof(MarketMessage)
          SocketBytes     \* what the socket buffers hold together

ASSUME TcpBytesAssumption ==
    MessageBytes \in Nat \ {0} /\ SocketBytes \in Nat \ {0}

\* The consumer's message is kept byte by byte; a closed producer has closed
\* its fd, a closed consumer has no socket left.
VARIABLES accept_ready,
          stream,     \* the bytes on their way
          sent,       \* send_all: bytes of the current message written
          received,   \* recv_all: bytes of the current message read
          fault       \* history: some call of the system has failed

producerVars == <<producer, sent, produced>>
consumerVars == <<accept_ready, consumer, received, message, consumed, book>>
vars == <<producerVars, consumerVars, stream, aborted, fault>>

Init ==
    /\ accept_ready = FALSE
    /\ producer = "wait_ready" /\ consumer = "start"
    /\ stream = <<>>
    /\ sent = 0 /\ received = 0
    /\ message = [b \in 1 .. MessageBytes |-> <<0, b>>]
    /\ produced = 0 /\ consumed = 0 /\ book = InitialBook
    /\ aborted = FALSE /\ fault = FALSE

\* The listening socket is open until accept has returned.
listening == consumer \in {"start", "accept"}

-----------------------------------------------------------------------------
\* The producer has seen accept_ready.
producer_ready ==
    /\ producer = "wait_ready"
    /\ accept_ready
    /\ producer' = "connect"
    /\ UNCHANGED <<sent, produced, consumerVars, stream, aborted, fault>>

\* connect succeeds as soon as the listener's backlog has the connection.
connect_tcp_client ==
    /\ producer = "connect"
    /\ listening
    /\ producer' = "send"
    /\ UNCHANGED <<sent, produced, consumerVars, stream, aborted, fault>>

\* A failed connect throws, and nothing in the thread catches it.  A closed
\* listener refuses; other failures may come at any time.
connect_throws(failure) ==
    /\ producer = "connect"
    /\ failure \/ ~listening
    /\ aborted' = TRUE
    /\ fault' = (fault \/ failure)
    /\ UNCHANGED <<producerVars, consumerVars, stream>>

\* One send of send_all: between one byte and all that are left of the
\* message, as far as there is room.  What is sent to a closed socket is lost.
send_some ==
    /\ producer = "send"
    /\ produced < Len(Messages)
    /\ \E k \in 1 .. (MessageBytes - sent) :
          LET bytes == [b \in 1 .. k |-> <<produced + 1, sent + b>>]
          IN  /\ IF consumer = "closed"
                 THEN UNCHANGED stream
                 ELSE /\ Len(stream) + k <= SocketBytes
                      /\ stream' = stream \o bytes
              /\ IF sent + k = MessageBytes
                 THEN sent' = 0 /\ produced' = produced + 1
                 ELSE sent' = sent + k /\ UNCHANGED produced
    /\ UNCHANGED <<producer, consumerVars, aborted, fault>>

\* send_all returns false: the consumer's socket is gone, or send failed for
\* another reason.  The loop is left, the socket shut down and closed.
send_fails(failure) ==
    /\ producer = "send"
    /\ produced < Len(Messages)
    /\ failure \/ consumer = "closed"
    /\ producer' = "closed"
    /\ fault' = (fault \/ failure)
    /\ UNCHANGED <<sent, produced, consumerVars, stream, aborted>>

\* After the last message: shutdown and close.
producer_close ==
    /\ producer = "send"
    /\ produced = Len(Messages)
    /\ producer' = "closed"
    /\ UNCHANGED <<sent, produced, consumerVars, stream, aborted, fault>>

-----------------------------------------------------------------------------
\* The consumer announces that it is about to accept.
consumer_start ==
    /\ consumer = "start"
    /\ accept_ready' = TRUE
    /\ consumer' = "accept"
    /\ UNCHANGED <<received, message, consumed, book, producerVars, stream,
                   aborted, fault>>

\* accept returns the connection, and the listener is closed.
accept_connection ==
    /\ consumer = "accept"
    /\ producer \in {"send", "closed"}
    /\ consumer' = "recv"
    /\ UNCHANGED <<accept_ready, received, message, consumed, book,
                   producerVars, stream, aborted, fault>>

\* accept fails: the listener is closed, with it a connection that was made,
\* and the thread returns.
accept_fails ==
    /\ consumer = "accept"
    /\ consumer' = "closed"
    /\ fault' = TRUE
    /\ UNCHANGED <<accept_ready, received, message, consumed, book,
                   producerVars, stream, aborted>>

\* Mutated form of recv_some: recv_all is content with what one recv brings.
recv_some_Once ==
    /\ consumer = "recv"
    /\ \E k \in 1 .. MessageBytes :
          /\ k <= Len(stream)
          /\ message' = [b \in 1 .. MessageBytes |->
                           IF b <= k THEN stream[b] ELSE message[b]]
          /\ stream' = SubSeq(stream, k + 1, Len(stream))
    /\ received' = MessageBytes
    /\ consumer' = "process"
    /\ UNCHANGED <<accept_ready, consumed, book, producerVars, aborted, fault>>

\* One recv of recv_all: between one byte and all that the message lacks.
recv_some ==
    /\ consumer = "recv"
    /\ \E k \in 1 .. (MessageBytes - received) :
          /\ k <= Len(stream)
          /\ message' = [b \in 1 .. MessageBytes |->
                           IF b - received \in 1 .. k
                           THEN stream[b - received] ELSE message[b]]
          /\ stream' = SubSeq(stream, k + 1, Len(stream))
          /\ received' = received + k
    /\ consumer' = IF received' = MessageBytes THEN "process" ELSE "recv"
    /\ UNCHANGED <<accept_ready, consumed, book, producerVars, aborted, fault>>

\* Mutated form of recv_fails: a socket without data is taken for a closed
\* one, as a non-blocking recv would make recv_all do.
recv_fails_NoData(failure) ==
    /\ consumer = "recv"
    /\ failure \/ stream = <<>>
    /\ consumer' = "closed"
    /\ fault' = (fault \/ failure)
    /\ UNCHANGED <<accept_ready, received, message, consumed, book,
                   producerVars, stream, aborted>>

\* Mutated form of recv_fails: the end of the stream is retried like EINTR.
recv_fails_RetriesAtEnd(failure) ==
    /\ consumer = "recv"
    /\ failure
    /\ consumer' = "closed"
    /\ fault' = TRUE
    /\ UNCHANGED <<accept_ready, received, message, consumed, book,
                   producerVars, stream, aborted>>

\* recv_all returns false, at the end of the stream or because recv failed:
\* the loop is left and the socket closed.
recv_fails(failure) ==
    /\ consumer = "recv"
    /\ failure \/ (stream = <<>> /\ producer = "closed")
    /\ consumer' = "closed"
    /\ fault' = (fault \/ failure)
    /\ UNCHANGED <<accept_ready, received, message, consumed, book,
                   producerVars, stream, aborted>>

\* The message in memory goes to the book.  Bytes of different messages, or in
\* the wrong places, make up any message.  The loop ends with the last one.
consumer_process ==
    /\ consumer = "process"
    /\ \E msg \in Range(Messages) :
          /\ \A i \in 1 .. Len(Messages) :
                message = [b \in 1 .. MessageBytes |-> <<i, b>>]
                  => msg = Messages[i]
          /\ book' = ApplyMessage(book, msg)
    /\ consumed' = consumed + 1
    /\ received' = 0
    /\ consumer' = IF consumed' < Len(Messages) THEN "recv" ELSE "closed"
    /\ UNCHANGED <<accept_ready, message, producerVars, stream, aborted, fault>>

-----------------------------------------------------------------------------
Producer == \/ producer_ready \/ connect_tcp_client \/ connect_throws(FALSE)
            \/ send_some \/ send_fails(FALSE) \/ producer_close

Consumer == \/ consumer_start \/ accept_connection
            \/ recv_some \/ recv_fails(FALSE) \/ consumer_process

Failure == \/ connect_throws(TRUE) \/ send_fails(TRUE)
           \/ accept_fails \/ recv_fails(TRUE)

Next == \/ ~aborted /\ (Producer \/ Consumer \/ Failure)
        \/ Ended /\ UNCHANGED vars

\* Both threads keep being scheduled, and a call that can return does so in
\* the end; nothing has to fail.
Fairness == WF_vars(~aborted /\ Producer) /\ WF_vars(~aborted /\ Consumer)

Spec == Init /\ [][Next]_vars /\ Fairness

-----------------------------------------------------------------------------
OneReplay == INSTANCE FeedReplay
               WITH Message <- Range(Messages), messages <- Messages,
                    applied <- consumed

(***************************************************************************)
(* Only whole messages reach the book, each once and in order, however the *)
(* stream is cut into sends and receives and wherever it breaks off: a     *)
(* message of which only a part arrived is never applied, nor do the bytes *)
(* of two messages get mixed.                                              *)
(***************************************************************************)
ImplementsReplay == OneReplay!Spec

(***************************************************************************)
(* When nothing fails, the process is not ended by an exception and, when  *)
(* both threads have been joined, all messages were produced and consumed. *)
(* When something fails, no more were consumed than produced.              *)
(***************************************************************************)
AllConsumedAtExit ==
    /\ ~fault => /\ ~aborted
                 /\ Finished => /\ produced = Len(Messages)
                                /\ consumed = Len(Messages)
    /\ Finished => consumed <= produced

(***************************************************************************)
(* Whatever fails on either side, both threads end or the process does:    *)
(* neither waits forever for a connection, for room or for bytes.          *)
(***************************************************************************)
Termination == <>Ended

=============================================================================
