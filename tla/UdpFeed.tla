------------------------------ MODULE UdpFeed ------------------------------
(***************************************************************************)
(* apps/benchmark_udp_feed.cpp: the producer thread sends each generated   *)
(* message in a datagram of its own to a loopback UDP socket, the consumer *)
(* thread receives datagrams and applies them to the book until it has had *)
(* as many as there are messages, or until a recv has timed out and the    *)
(* producer is done.                                                       *)
(*                                                                         *)
(* The receiving socket keeps datagrams in order and drops what does not   *)
(* fit.  A datagram is the position of its message.  recv returns an error *)
(* only from an empty socket, after its timeout.  Every datagram comes     *)
(* from the producer, so none has another size than a message.  Init is    *)
(* the state main has reached when it starts the threads: the receiving    *)
(* socket is bound.  Timestamps, pinning and socket options other than the *)
(* timeout are left out: no decision depends on them.                      *)
(***************************************************************************)
EXTENDS SocketFeed, FiniteSets

CONSTANTS SocketDatagrams,   \* how many datagrams SO_RCVBUF has room for
          ReceiveTimeouts    \* the arguments given for receive_timeout_ms

ASSUME UdpSocketAssumption ==
    SocketDatagrams \in Nat \ {0} /\ ReceiveTimeouts \subseteq Nat

\* The consumer's message is a position, 0 before the first; a closed consumer
\* has closed receive_fd.
VARIABLES receive_timeout_ms,   \* 0: recv waits without a limit
          receiver_ready, producer_done,
          socket,     \* the datagrams received and not yet read
          next,       \* the message the producer sends next
          dropped     \* history: datagrams for which the socket had no room

udpProducerVars == <<producer_done, producer, next, produced, dropped>>
udpConsumerVars ==
    <<receive_timeout_ms, receiver_ready, consumer, message, consumed, book>>
udpVars == <<udpProducerVars, udpConsumerVars, socket, aborted>>

UdpInit ==
    /\ receive_timeout_ms \in ReceiveTimeouts
    /\ receiver_ready = FALSE /\ producer_done = FALSE
    /\ producer = "wait_ready" /\ consumer = "start"
    /\ socket = <<>>
    /\ next = 1 /\ message = 0
    /\ produced = 0 /\ consumed = 0 /\ book = InitialBook
    /\ dropped = 0
    /\ aborted = FALSE

-----------------------------------------------------------------------------
\* The producer has seen receiver_ready.
udp_producer_ready ==
    /\ producer = "wait_ready"
    /\ receiver_ready
    /\ producer' = "create"
    /\ UNCHANGED <<producer_done, next, produced, dropped, udpConsumerVars,
                   socket, aborted>>

\* The sending socket is created, or the thread throws and nothing catches it.
create_udp_sender ==
    /\ producer = "create"
    /\ \/ producer' = "send" /\ UNCHANGED aborted
       \/ aborted' = TRUE /\ UNCHANGED producer
    /\ UNCHANGED <<producer_done, next, produced, dropped, udpConsumerVars, socket>>

\* What becomes of a datagram on its way to the receiving socket.
deliver(datagram) ==
    IF consumer # "closed" /\ Len(socket) < SocketDatagrams
    THEN socket' = Append(socket, datagram) /\ UNCHANGED dropped
    ELSE dropped' = dropped + 1 /\ UNCHANGED socket

\* Mutated form of send_datagram: a failed sendto is counted as well.
send_datagram_CountsFailures ==
    /\ producer = "send"
    /\ next <= Len(Messages)
    /\ deliver(next) \/ UNCHANGED <<socket, dropped>>
    /\ produced' = produced + 1
    /\ next' = next + 1
    /\ UNCHANGED <<producer_done, producer, udpConsumerVars, aborted>>

\* sendto: it succeeds, which says nothing of the receiver, or it fails and
\* the message is skipped.
send_datagram ==
    /\ producer = "send"
    /\ next <= Len(Messages)
    /\ \/ deliver(next) /\ produced' = produced + 1
       \/ UNCHANGED <<socket, dropped, produced>>
    /\ next' = next + 1
    /\ UNCHANGED <<producer_done, producer, udpConsumerVars, aborted>>

\* After the last message: producer_done.
producer_finish ==
    /\ producer = "send"
    /\ next > Len(Messages)
    /\ producer_done' = TRUE
    /\ producer' = "closed"
    /\ UNCHANGED <<next, produced, dropped, udpConsumerVars, socket, aborted>>

-----------------------------------------------------------------------------
udp_consumer_start ==
    /\ consumer = "start"
    /\ receiver_ready' = TRUE
    /\ consumer' = "recv"
    /\ UNCHANGED <<receive_timeout_ms, message, consumed, book, udpProducerVars,
                   socket, aborted>>

recv_datagram ==
    /\ consumer = "recv"
    /\ socket # <<>>
    /\ message' = Head(socket)
    /\ socket' = Tail(socket)
    /\ consumer' = "process"
    /\ UNCHANGED <<receive_timeout_ms, receiver_ready, consumed, book,
                   udpProducerVars, aborted>>

\* Mutated form of recv_timeout: the result of recv is not looked at, and the
\* message of the last datagram is processed again.
recv_timeout_Ignored ==
    /\ consumer = "recv"
    /\ socket = <<>>
    /\ receive_timeout_ms > 0
    /\ consumer' = IF message = 0 THEN "check_done" ELSE "process"
    /\ UNCHANGED <<receive_timeout_ms, receiver_ready, message, consumed, book,
                   udpProducerVars, socket, aborted>>

\* recv gives up on an empty socket.
recv_timeout ==
    /\ consumer = "recv"
    /\ socket = <<>>
    /\ receive_timeout_ms > 0
    /\ consumer' = "check_done"
    /\ UNCHANGED <<receive_timeout_ms, receiver_ready, message, consumed, book,
                   udpProducerVars, socket, aborted>>

\* Mutated form of done_loaded: a timeout alone ends the loop.
done_loaded_Unchecked ==
    /\ consumer = "check_done"
    /\ consumer' = "closed"
    /\ UNCHANGED <<receive_timeout_ms, receiver_ready, message, consumed, book,
                   udpProducerVars, socket, aborted>>

\* Mutated form of done_loaded: the loop goes on although the producer is done.
done_loaded_Continues ==
    /\ consumer = "check_done"
    /\ producer_done
    /\ consumer' = "recv"
    /\ UNCHANGED <<receive_timeout_ms, receiver_ready, message, consumed, book,
                   udpProducerVars, socket, aborted>>

\* After the timeout: producer_done is seen, the loop ends and the socket is
\* closed with whatever arrived since the timeout.
done_loaded ==
    /\ consumer = "check_done"
    /\ producer_done
    /\ consumer' = "closed"
    /\ UNCHANGED <<receive_timeout_ms, receiver_ready, message, consumed, book,
                   udpProducerVars, socket, aborted>>

\* producer_done is not set, or its store is not visible yet.
done_not_loaded ==
    /\ consumer = "check_done"
    /\ consumer' = "recv"
    /\ UNCHANGED <<receive_timeout_ms, receiver_ready, message, consumed, book,
                   udpProducerVars, socket, aborted>>

\* The message goes to the book; the loop ends with the last one.
udp_consumer_process ==
    /\ consumer = "process"
    /\ book' = ApplyMessage(book, Messages[message])
    /\ consumed' = consumed + 1
    /\ consumer' = IF consumed' < Len(Messages) THEN "recv" ELSE "closed"
    /\ UNCHANGED <<receive_timeout_ms, receiver_ready, message, udpProducerVars,
                   socket, aborted>>

-----------------------------------------------------------------------------
UdpProducer == \/ udp_producer_ready \/ create_udp_sender
               \/ send_datagram \/ producer_finish

UdpConsumer == \/ udp_consumer_start \/ recv_datagram \/ recv_timeout
               \/ done_loaded \/ done_not_loaded \/ udp_consumer_process

UdpNext == \/ ~aborted /\ (UdpProducer \/ UdpConsumer)
           \/ Ended /\ UNCHANGED udpVars

\* Both threads keep being scheduled, a recv with a timeout returns, and the
\* store of producer_done becomes visible in the end.
UdpFairness ==
    /\ WF_udpVars(~aborted /\ UdpProducer) /\ WF_udpVars(~aborted /\ UdpConsumer)
    /\ SF_udpVars(~aborted /\ done_loaded)

UdpSpec == UdpInit /\ [][UdpNext]_udpVars /\ UdpFairness

-----------------------------------------------------------------------------
\* The messages at a set of positions, in order.
MessagesAt(positions) ==
    [k \in 1 .. Cardinality(positions) |->
       Messages[CHOOSE i \in positions :
                  Cardinality({j \in positions : j <= i}) = k]]

(***************************************************************************)
(* The book is what a single thread would have built from some of the      *)
(* messages sent so far, as many as were consumed, in the order of the     *)
(* feed: datagrams get lost, but none is applied twice, out of order or    *)
(* made up from an earlier one.                                            *)
(***************************************************************************)
BookIsReplayOfSome ==
    \E positions \in SUBSET (1 .. (next - 1)) :
        /\ Cardinality(positions) = consumed
        /\ book = FoldLeft(ApplyMessage, InitialBook, MessagesAt(positions))

(***************************************************************************)
(* The figure printed as "Dropped/Unreceived", produced - consumed, does   *)
(* not wrap below zero, and it is exactly the datagrams the socket dropped *)
(* and those left in it when the consumer closed it.                       *)
(***************************************************************************)
DroppedFigure ==
    Finished => /\ consumed <= produced
                /\ produced - consumed = dropped + Len(socket)

(***************************************************************************)
(* The receiving socket stays open until the last datagram has been sent:  *)
(* the consumer leaves only with all messages or after producer_done, so a *)
(* pause of the producer longer than the timeout costs nothing.            *)
(***************************************************************************)
OpenWhileSending == consumer = "closed" => next > Len(Messages)

\* The messages that will never be received.
lost == dropped + (next - 1 - produced)

(***************************************************************************)
(* With a timeout, both threads end however many datagrams are lost.  With *)
(* a timeout of 0, which is none, only a loss keeps the program from       *)
(* ending: the consumer then waits in recv for good, with every message    *)
(* that was not lost in its book.                                          *)
(***************************************************************************)
UdpTermination ==
    <>[](Ended \/ /\ receive_timeout_ms = 0
                  /\ consumer = "recv" /\ socket = <<>>
                  /\ lost > 0 /\ consumed + lost = Len(Messages))

=============================================================================
