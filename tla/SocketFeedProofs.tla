-------------------------- MODULE SocketFeedProofs --------------------------
(***************************************************************************)
(* Proofs about the two socket benchmarks, for every feed, every book and  *)
(* every size of a message and of the sockets.  The TCP stream keeps the   *)
(* messages whole and in order, and its two threads implement one replay.  *)
(* UDP datagrams get lost, but the book is the replay of those that were   *)
(* not, and the printed figure counts them.                                *)
(***************************************************************************)
EXTENDS TcpFeed, UdpFeed, FiniteSetTheorems, SequenceTheorems, TLAPS

-----------------------------------------------------------------------------
\* The length of the feed and its messages.
LEMMA FeedType ==
    /\ Len(Messages) \in Nat \ {0}
    /\ \A i \in 1 .. Len(Messages) : Messages[i] \in Range(Messages)
  BY SocketMessagesAssumption DEF Range

-----------------------------------------------------------------------------
\* The bytes written to the connection and the bytes taken from it.
Written == produced * MessageBytes + sent
Read == consumed * MessageBytes + received

\* Where a byte stands in the stream of all messages, counted from 1.
Byte == Nat \X (1 .. MessageBytes)
Place(byte) == byte[1] * MessageBytes - MessageBytes + byte[2]

\* The counters stay within a message and within the feed, and a whole
\* message has been received exactly when it is about to be processed.
TcpTypes ==
    /\ producer \in {"wait_ready", "connect", "send", "closed"}
    /\ consumer \in {"start", "accept", "recv", "process", "closed"}
    /\ produced \in 0 .. Len(Messages) /\ consumed \in 0 .. Len(Messages)
    /\ sent \in 0 .. (MessageBytes - 1) /\ received \in 0 .. MessageBytes
    /\ produced = Len(Messages) => sent = 0
    /\ received = MessageBytes <=> consumer = "process"
    /\ aborted \in BOOLEAN /\ fault \in BOOLEAN
    /\ stream \in Seq(Byte)
    /\ message \in [1 .. MessageBytes -> Nat \X Nat]

\* While the consumer's socket is open, the connection holds exactly the bytes
\* written and not yet read, in order.
StreamInv ==
    /\ Read <= Written
    /\ consumer # "closed" =>
          /\ Len(stream) = Written - Read
          /\ \A j \in 1 .. Len(stream) : Place(stream[j]) = Read + j

\* What has been received of a message is the beginning of the next one.
ReceivedInv ==
    \A b \in 1 .. received : message[b] = <<consumed + 1, b>>

\* As long as nothing fails, the producer finds the listener, and each thread
\* ends only after its last message.
NoFaultInv ==
    ~fault => /\ ~aborted
              /\ producer \in {"wait_ready", "connect"} => listening
              /\ producer = "closed" => produced = Len(Messages)
              /\ consumer = "closed" => consumed = Len(Messages)

TcpInv == TcpTypes /\ StreamInv /\ ReceivedInv /\ NoFaultInv

-----------------------------------------------------------------------------
\* The size of a message.
LEMMA SizeType == MessageBytes \in Int /\ MessageBytes > 0
  BY TcpBytesAssumption

\* One message more is MessageBytes bytes more.
LEMMA OneMore ==
    ASSUME NEW x \in Int
    PROVE  /\ (x + 1) * MessageBytes = x * MessageBytes + MessageBytes
           /\ x * MessageBytes \in Int
  BY SizeType

\* A positive number of messages takes at least the bytes of one.
LEMMA SomeMessages ==
    ASSUME NEW k \in Int, k >= 1
    PROVE  k * MessageBytes >= MessageBytes
  BY SizeType

\* Fewer messages take fewer bytes, by the bytes of a message at least.
LEMMA FewerMessages ==
    ASSUME NEW x \in Int, NEW y \in Int, x < y
    PROVE  x * MessageBytes + MessageBytes <= y * MessageBytes
  <1>1. (y - x) * MessageBytes >= MessageBytes
    BY SomeMessages
  <1>2. (y - x) * MessageBytes = y * MessageBytes - x * MessageBytes
    BY SizeType
  <1> QED
    BY <1>1, <1>2, OneMore, SizeType

\* A place in the stream determines the message and the byte.
LEMMA PlaceUnique ==
    ASSUME NEW byte \in Byte, NEW i \in Nat, NEW b \in 1 .. MessageBytes,
           Place(byte) = i * MessageBytes - MessageBytes + b
    PROVE  byte = <<i, b>>
  <1> DEFINE j == byte[1]
             d == byte[2]
             jm == j * MessageBytes
             im == i * MessageBytes
  <1>1. j \in Nat /\ d \in 1 .. MessageBytes /\ byte = <<j, d>>
    BY DEF Byte
  <1>2. jm - MessageBytes + d = im - MessageBytes + b
    BY DEF Place
  <1>3. jm \in Int /\ im \in Int
    BY <1>1, OneMore
  <1>4. j < i => jm + MessageBytes <= im
    BY <1>1, FewerMessages
  <1>5. i < j => im + MessageBytes <= jm
    BY <1>1, FewerMessages
  <1>6. j = i => jm = im
    OBVIOUS
  <1> HIDE DEF j, d, jm, im
  <1>7. j = i
    BY <1>1, <1>2, <1>3, <1>4, <1>5, SizeType
  <1>8. d = b
    BY <1>1, <1>2, <1>3, <1>6, <1>7, SizeType
  <1> QED
    BY <1>1, <1>7, <1>8

\* The counts of bytes are numbers, and read bytes make up no more messages
\* than written ones.
LEMMA Counts ==
    ASSUME TcpTypes
    PROVE  /\ Written \in Int /\ Read \in Int
           /\ Read <= Written => consumed <= produced
           /\ Read <= Written /\ received = MessageBytes => consumed < produced
  <1> DEFINE w == produced * MessageBytes
             r == consumed * MessageBytes
  <1>1. /\ produced \in Int /\ consumed \in Int
        /\ sent \in 0 .. (MessageBytes - 1) /\ received \in 0 .. MessageBytes
    BY FeedType DEF TcpTypes
  <1>2. w \in Int /\ r \in Int
    BY <1>1, OneMore
  <1>3. produced < consumed => w + MessageBytes <= r
    BY <1>1, FewerMessages
  <1>4. Written = w + sent /\ Read = r + received
    BY DEF Written, Read
  <1>5. consumed = produced => r = w
    OBVIOUS
  <1> HIDE DEF w, r
  <1> QED
    BY <1>1, <1>2, <1>3, <1>4, <1>5, SizeType

-----------------------------------------------------------------------------
\* The initial states satisfy the invariant.
LEMMA TcpInitInv == Init => TcpInv
  <1> SUFFICES ASSUME Init PROVE TcpInv
    OBVIOUS
  <1>1. TcpTypes
    <2>1. message \in [1 .. MessageBytes -> Nat \X Nat]
      BY DEF Init
    <2>2. stream \in Seq(Byte)
      BY DEF Init
    <2>3. /\ produced \in 0 .. Len(Messages) /\ consumed \in 0 .. Len(Messages)
          /\ sent \in 0 .. (MessageBytes - 1) /\ received \in 0 .. MessageBytes
          /\ received # MessageBytes
      BY FeedType, SizeType DEF Init
    <2> QED
      BY <2>1, <2>2, <2>3 DEF Init, TcpTypes
  <1>2. StreamInv
    BY SizeType DEF Init, StreamInv, Written, Read
  <1>3. ReceivedInv
    BY DEF Init, ReceivedInv
  <1>4. NoFaultInv
    BY DEF Init, NoFaultInv, listening
  <1> QED
    BY <1>1, <1>2, <1>3, <1>4 DEF TcpInv

\* A step that moves no byte and no counter keeps what the stream holds.
LEMMA NoByteMoves ==
    ASSUME TcpInv, UNCHANGED <<sent, produced, received, message, consumed, stream>>,
           consumer' # "closed" => consumer # "closed"
    PROVE  StreamInv' /\ ReceivedInv'
  <1>1. StreamInv'
    BY DEF TcpInv, StreamInv, Written, Read, Place
  <1> QED
    BY <1>1 DEF TcpInv, ReceivedInv

\* A send appends the next bytes of the feed.
LEMMA SendInv ==
    ASSUME TcpInv, send_some
    PROVE  TcpInv'
  <1> USE DEF TcpInv
  <1>1. PICK k \in 1 .. (MessageBytes - sent) :
          LET bytes == [b \in 1 .. k |-> <<produced + 1, sent + b>>]
          IN  /\ IF consumer = "closed"
                 THEN UNCHANGED stream
                 ELSE /\ Len(stream) + k <= SocketBytes
                      /\ stream' = stream \o bytes
              /\ IF sent + k = MessageBytes
                 THEN sent' = 0 /\ produced' = produced + 1
                 ELSE sent' = sent + k /\ UNCHANGED produced
    BY DEF send_some
  <1> DEFINE bytes == [b \in 1 .. k |-> <<produced + 1, sent + b>>]
             w == produced * MessageBytes
  <1>2. /\ producer = "send" /\ produced < Len(Messages)
        /\ UNCHANGED <<producer, consumerVars, aborted, fault>>
    BY DEF send_some
  <1>3. UNCHANGED <<consumer, received, message, consumed>>
    BY <1>2 DEF consumerVars
  <1>4. /\ produced \in Nat /\ sent \in 0 .. (MessageBytes - 1) /\ k \in Nat \ {0}
        /\ k <= MessageBytes - sent
    BY FeedType, SizeType DEF TcpTypes
  <1>5. w \in Int /\ (produced + 1) * MessageBytes = w + MessageBytes
    BY <1>4, OneMore
  <1>6. Written' = Written + k /\ Written = w + sent
    <2>1. CASE sent + k = MessageBytes
      <3>1. Written' = (produced + 1) * MessageBytes + 0
        BY <1>1, <2>1 DEF Written
      <3> QED
        BY <1>4, <1>5, <2>1, <3>1, SizeType DEF Written
    <2>2. CASE sent + k # MessageBytes
      <3>1. Written' = w + (sent + k)
        BY <1>1, <2>2 DEF Written
      <3> QED
        BY <1>4, <1>5, <3>1, SizeType DEF Written
    <2> QED
      BY <2>1, <2>2
  <1>7. Read' = Read /\ Read \in Int /\ Written \in Int
    BY <1>3, Counts DEF Read
  <1>8. bytes \in Seq(Byte) /\ Len(bytes) = k
    <2>1. \A b \in 1 .. k : bytes[b] \in Byte
      BY <1>4, SizeType DEF Byte
    <2> QED
      BY <1>4, <2>1
  <1>9. \A b \in 1 .. k : Place(bytes[b]) = Written + b
    <2> SUFFICES ASSUME NEW b \in 1 .. k
                 PROVE  Place(bytes[b]) = Written + b
      OBVIOUS
    <2>1. bytes[b][1] = produced + 1 /\ bytes[b][2] = sent + b
      OBVIOUS
    <2>2. Place(bytes[b]) = (produced + 1) * MessageBytes - MessageBytes + (sent + b)
      BY <2>1 DEF Place
    <2> HIDE DEF bytes, w
    <2> QED
      BY <1>4, <1>5, <1>6, <2>2, SizeType
  <1>10. stream \in Seq(Byte) /\ stream' \in Seq(Byte)
    <2> HIDE DEF bytes
    <2>1. stream \in Seq(Byte)
      BY DEF TcpTypes
    <2>2. stream' = stream \/ stream' = stream \o bytes
      BY <1>1 DEF bytes
    <2> QED
      BY <1>8, <2>1, <2>2, ConcatProperties
  <1>11. TcpTypes'
    <2>1. /\ produced' \in 0 .. Len(Messages) /\ sent' \in 0 .. (MessageBytes - 1)
          /\ produced' = Len(Messages) => sent' = 0
      <3>1. produced \in 0 .. Len(Messages) /\ Len(Messages) \in Nat
        BY FeedType DEF TcpTypes
      <3> QED
        BY <1>1, <1>2, <1>4, <3>1, SizeType
    <2> QED
      BY <1>2, <1>3, <1>10, <2>1 DEF TcpTypes
  <1>12. StreamInv'
    <2>1. Read' <= Written'
      BY <1>4, <1>6, <1>7 DEF StreamInv
    <2>2. ASSUME consumer' # "closed"
          PROVE  /\ Len(stream') = Written' - Read'
                 /\ \A j \in 1 .. Len(stream') : Place(stream'[j]) = Read' + j
      <3> DEFINE n == Len(stream)
      <3>1. stream' = stream \o bytes
        BY <1>1, <1>3, <2>2
      <3>2. n = Written - Read /\ \A j \in 1 .. n : Place(stream[j]) = Read + j
        BY <1>3, <2>2 DEF StreamInv
      <3>3. n \in Nat
        BY <1>10
      <3> HIDE DEF bytes
      <3>4. /\ Len(stream') = n + k
            /\ \A j \in 1 .. n : stream'[j] = stream[j]
            /\ \A j \in (n + 1) .. (n + k) : stream'[j] = bytes[j - n]
        <4>1. /\ Len(stream \o bytes) = Len(stream) + Len(bytes)
              /\ \A i \in 1 .. Len(stream) + Len(bytes) : (stream \o bytes)[i] =
                    IF i <= Len(stream) THEN stream[i] ELSE bytes[i - Len(stream)]
          BY <1>8, <1>10, ConcatProperties
        <4>2. /\ Len(stream') = n + k
              /\ \A i \in 1 .. n + k :
                    stream'[i] = IF i <= n THEN stream[i] ELSE bytes[i - n]
          BY <1>8, <3>1, <4>1
        <4> HIDE DEF n
        <4> QED
          BY <1>4, <3>3, <4>2
      <3> HIDE DEF n
      <3>5. ASSUME NEW j \in 1 .. (n + k)
            PROVE  Place(stream'[j]) = Read + j
        <4>1. CASE j \in 1 .. n
          BY <3>2, <3>4, <4>1
        <4>2. CASE j \in (n + 1) .. (n + k)
          <5>1. j - n \in 1 .. k
            BY <1>4, <3>3, <4>2
          <5>2. Place(stream'[j]) = Written + (j - n)
            BY <1>9, <3>4, <4>2, <5>1
          <5> QED
            BY <1>7, <3>2, <3>3, <4>2, <5>2
        <4> QED
          BY <1>4, <3>3, <3>5, <4>1, <4>2
      <3>6. Len(stream') = Written' - Read'
        BY <1>4, <1>6, <1>7, <3>2, <3>3, <3>4
      <3> QED
        BY <1>7, <3>4, <3>5, <3>6
    <2> QED
      BY <2>1, <2>2 DEF StreamInv
  <1>13. ReceivedInv'
    BY <1>3 DEF ReceivedInv
  <1>14. NoFaultInv'
    BY <1>1, <1>2, <1>3 DEF NoFaultInv, listening
  <1> QED
    BY <1>11, <1>12, <1>13, <1>14

\* A receive takes the first bytes of the stream to where they belong.
LEMMA ReceiveInv ==
    ASSUME TcpInv, recv_some
    PROVE  TcpInv'
  <1> USE DEF TcpInv
  <1>1. PICK k \in 1 .. (MessageBytes - received) :
          /\ k <= Len(stream)
          /\ message' = [b \in 1 .. MessageBytes |->
                           IF b - received \in 1 .. k
                           THEN stream[b - received] ELSE message[b]]
          /\ stream' = SubSeq(stream, k + 1, Len(stream))
          /\ received' = received + k
    BY DEF recv_some
  <1> DEFINE n == Len(stream)
             r == consumed * MessageBytes
  <1>2. /\ consumer = "recv"
        /\ consumer' = IF received' = MessageBytes THEN "process" ELSE "recv"
        /\ UNCHANGED <<accept_ready, consumed, book, aborted, fault>>
        /\ UNCHANGED <<producer, sent, produced>>
    BY DEF recv_some, producerVars
  <1>3. /\ consumed \in Nat /\ received \in 0 .. MessageBytes /\ k \in Nat \ {0}
        /\ k <= MessageBytes - received
        /\ stream \in Seq(Byte) /\ n \in Nat /\ k <= n
        /\ message \in [1 .. MessageBytes -> Nat \X Nat]
    BY <1>1, FeedType, SizeType DEF TcpTypes
  <1>4. r \in Int /\ (consumed + 1) * MessageBytes = r + MessageBytes
    <2>1. consumed \in Int
      BY <1>3
    <2> QED
      BY <2>1, OneMore
  <1>5. Read' = Read + k /\ Read = r + received /\ Written' = Written
    BY <1>1, <1>2, <1>3, <1>4, SizeType DEF Read, Written
  <1>6. Read \in Int /\ Written \in Int
    BY Counts
  <1>7. n = Written - Read /\ \A j \in 1 .. n : Place(stream[j]) = Read + j
    BY <1>2 DEF StreamInv
  <1>8. /\ stream' \in Seq(Byte) /\ Len(stream') = n - k
        /\ \A j \in 1 .. (n - k) : stream'[j] = stream[k + j]
    <2>1. \A i \in (k + 1) .. n : stream[i] \in Byte
      BY <1>3
    <2> HIDE DEF n
    <2>2. /\ SubSeq(stream, k + 1, n) \in Seq(Byte)
          /\ Len(SubSeq(stream, k + 1, n)) =
               IF k + 1 <= n THEN n - (k + 1) + 1 ELSE 0
          /\ \A i \in 1 .. n - (k + 1) + 1 :
               SubSeq(stream, k + 1, n)[i] = stream[(k + 1) + i - 1]
      <3>1. k + 1 \in Int /\ n \in Int
        BY <1>3
      <3> QED
        BY <2>1, <3>1, SubSeqProperties
    <2>3. stream' = SubSeq(stream, k + 1, n)
      BY <1>1 DEF n
    <2>4. \A i \in 1 .. (n - k) : (k + 1) + i - 1 = k + i
      BY <1>3
    <2> QED
      BY <1>3, <2>2, <2>3, <2>4
  <1>9. \A j \in 1 .. k : stream[j] = <<consumed + 1, received + j>>
    <2> SUFFICES ASSUME NEW j \in 1 .. k
                 PROVE  stream[j] = <<consumed + 1, received + j>>
      OBVIOUS
    <2>1. j \in 1 .. n /\ received + j \in 1 .. MessageBytes /\ consumed + 1 \in Nat
      BY <1>3, SizeType
    <2>2. stream[j] \in Byte
      BY <1>3, <2>1
    <2>3. Place(stream[j]) = Read + j
      BY <1>7, <2>1
    <2> HIDE DEF n, r
    <2>4. Place(stream[j]) =
            (consumed + 1) * MessageBytes - MessageBytes + (received + j)
      BY <1>3, <1>4, <1>5, <2>3, SizeType
    <2> QED
      BY <2>1, <2>2, <2>4, PlaceUnique
  <1>10. \A b \in 1 .. MessageBytes :
            message'[b] = IF b - received \in 1 .. k
                          THEN stream[b - received] ELSE message[b]
    BY <1>1
  <1>11. message' \in [1 .. MessageBytes -> Nat \X Nat]
    <2>1. ASSUME NEW b \in 1 .. MessageBytes
          PROVE  (IF b - received \in 1 .. k
                  THEN stream[b - received] ELSE message[b]) \in Nat \X Nat
      <3>1. CASE b - received \in 1 .. k
        <4>1. stream[b - received] = <<consumed + 1, received + (b - received)>>
          BY <1>9, <3>1
        <4> QED
          BY <1>3, <3>1, <4>1
      <3>2. CASE b - received \notin 1 .. k
        BY <1>3, <3>2
      <3> QED
        BY <3>1, <3>2
    <2> QED
      BY <1>1, <2>1
  <1>12. TcpTypes'
    <2>1. /\ received' \in 0 .. MessageBytes
          /\ received' = MessageBytes <=> consumer' = "process"
          /\ consumer' \in {"start", "accept", "recv", "process", "closed"}
      BY <1>1, <1>2, <1>3, SizeType
    <2> QED
      BY <1>2, <1>8, <1>11, <2>1 DEF TcpTypes
  <1>13. StreamInv'
    <2> HIDE DEF n, r
    <2>1. ASSUME NEW j \in 1 .. (n - k)
          PROVE  Place(stream'[j]) = Read' + j
      <3>1. k + j \in 1 .. n
        BY <1>3
      <3>2. Place(stream'[j]) = Read + (k + j)
        BY <1>7, <1>8, <3>1
      <3> QED
        BY <1>3, <1>5, <1>6, <3>2
    <2>2. Len(stream') = Written' - Read' /\ Read' <= Written'
      BY <1>3, <1>5, <1>6, <1>7, <1>8
    <2> QED
      BY <1>8, <2>1, <2>2 DEF StreamInv, Place
  <1>14. ReceivedInv'
    <2> SUFFICES ASSUME NEW b \in 1 .. (received + k)
                 PROVE  message'[b] = <<consumed + 1, b>>
      BY <1>1, <1>2 DEF ReceivedInv
    <2>1. b \in 1 .. MessageBytes
      BY <1>3, SizeType
    <2>2. CASE b <= received
      <3>1. b - received \notin 1 .. k /\ b \in 1 .. received
        BY <1>3, <2>2
      <3> QED
        BY <1>10, <2>1, <3>1 DEF ReceivedInv
    <2>3. CASE b > received
      <3>1. b - received \in 1 .. k /\ received + (b - received) = b
        BY <1>3, <2>3
      <3> QED
        BY <1>9, <1>10, <2>1, <3>1
    <2> QED
      BY <1>3, <2>2, <2>3
  <1>15. NoFaultInv'
    BY <1>2 DEF NoFaultInv, listening
  <1> QED
    BY <1>12, <1>13, <1>14, <1>15

\* The message about to be processed is the next one of the feed, and has all
\* its bytes.
LEMMA WholeMessage ==
    ASSUME TcpInv, consumer = "process"
    PROVE  /\ consumed < produced /\ consumed + 1 \in 1 .. Len(Messages)
           /\ message = [b \in 1 .. MessageBytes |-> <<consumed + 1, b>>]
  <1>1. received = MessageBytes
    BY DEF TcpInv, TcpTypes
  <1>2. consumed < produced
    BY <1>1, Counts DEF TcpInv, StreamInv
  <1>3. consumed + 1 \in 1 .. Len(Messages)
    BY <1>2, FeedType DEF TcpInv, TcpTypes
  <1>4. /\ message \in [1 .. MessageBytes -> Nat \X Nat]
        /\ \A b \in 1 .. MessageBytes : message[b] = <<consumed + 1, b>>
    BY <1>1 DEF TcpInv, TcpTypes, ReceivedInv
  <1> QED
    BY <1>2, <1>3, <1>4

\* Processing a message leaves the stream where it was.
LEMMA ProcessInv ==
    ASSUME TcpInv, consumer_process
    PROVE  TcpInv'
  <1> USE DEF TcpInv
  <1>1. /\ consumer = "process" /\ consumed' = consumed + 1 /\ received' = 0
        /\ consumer' = IF consumed' < Len(Messages) THEN "recv" ELSE "closed"
        /\ UNCHANGED <<accept_ready, message, stream, aborted, fault>>
        /\ UNCHANGED <<producer, sent, produced>>
    BY DEF consumer_process, producerVars
  <1>2. consumed + 1 \in 1 .. Len(Messages) /\ consumed \in Nat
    BY <1>1, WholeMessage, FeedType DEF TcpTypes
  <1>3. Read' = Read /\ Written' = Written
    <2>1. received = MessageBytes
      BY <1>1 DEF TcpTypes
    <2>2. Read' = (consumed + 1) * MessageBytes + 0
      BY <1>1 DEF Read
    <2>3. /\ consumed * MessageBytes \in Int
          /\ (consumed + 1) * MessageBytes = consumed * MessageBytes + MessageBytes
      <3>1. consumed \in Int
        BY <1>2
      <3> QED
        BY <3>1, OneMore
    <2>4. Read = consumed * MessageBytes + MessageBytes
      BY <2>1 DEF Read
    <2> QED
      BY <1>1, <2>2, <2>3, <2>4, SizeType DEF Written
  <1>4. TcpTypes'
    <2>1. /\ consumed' \in 0 .. Len(Messages) /\ received' \in 0 .. MessageBytes
          /\ received' # MessageBytes /\ consumer' \in {"recv", "closed"}
      BY <1>1, <1>2, FeedType, SizeType
    <2> QED
      BY <1>1, <2>1 DEF TcpTypes
  <1>5. StreamInv'
    BY <1>1, <1>3 DEF StreamInv, Place
  <1>6. ReceivedInv'
    BY <1>1 DEF ReceivedInv
  <1>7. NoFaultInv'
    <2>1. consumer' = "closed" => consumed' = Len(Messages)
      BY <1>1, <1>2, FeedType
    <2> QED
      BY <1>1, <2>1 DEF NoFaultInv, listening
  <1> QED
    BY <1>4, <1>5, <1>6, <1>7

\* The end of the stream comes after the last message, unless a call failed.
LEMMA EndOfStream ==
    ASSUME TcpInv, ~fault, consumer = "recv", stream = <<>>, producer = "closed"
    PROVE  consumed = Len(Messages)
  <1> USE DEF TcpInv
  <1> DEFINE w == produced * MessageBytes
             r == consumed * MessageBytes
  <1>1. produced = Len(Messages) /\ sent = 0
    BY DEF NoFaultInv, TcpTypes
  <1>2. received \in 0 .. (MessageBytes - 1)
    BY SizeType DEF TcpTypes
  <1>3. w + sent = r + received
    <2>1. Len(stream) = 0 /\ Len(stream) = Written - Read
      BY DEF StreamInv
    <2>2. Written = Read
      BY <2>1, Counts
    <2> QED
      BY <2>2 DEF Written, Read
  <1>4. /\ consumed \in Int /\ produced \in Int /\ w \in Int /\ r \in Int
        /\ consumed <= produced
    BY FeedType, OneMore, Counts DEF TcpTypes, StreamInv
  <1>5. consumed < produced => r + MessageBytes <= w
    BY <1>4, FewerMessages
  <1> HIDE DEF w, r
  <1> QED
    BY <1>1, <1>2, <1>3, <1>4, <1>5, SizeType

\* The steps that open, close or lose the connection.
LEMMA ConnectionInv ==
    ASSUME TcpInv, NEW failure \in BOOLEAN,
           \/ producer_ready \/ connect_tcp_client \/ connect_throws(failure)
           \/ send_fails(failure) \/ producer_close
           \/ consumer_start \/ accept_connection \/ accept_fails
           \/ recv_fails(failure)
    PROVE  TcpInv'
  <1> USE DEF TcpInv
  <1>1. /\ UNCHANGED <<sent, produced, received, message, consumed, stream>>
        /\ consumer' # "closed" => consumer # "closed"
    BY DEF producer_ready, connect_tcp_client, connect_throws, send_fails,
           producer_close, consumer_start, accept_connection, accept_fails,
           recv_fails, producerVars, consumerVars
  <1>2. StreamInv' /\ ReceivedInv'
    BY <1>1, NoByteMoves
  <1>3. TcpTypes'
    BY <1>1 DEF TcpTypes, producer_ready, connect_tcp_client, connect_throws,
           send_fails, producer_close, consumer_start, accept_connection,
           accept_fails, recv_fails, producerVars, consumerVars
  <1>4. NoFaultInv'
    <2>1. CASE producer_ready \/ connect_tcp_client \/ producer_close
      BY <2>1 DEF NoFaultInv, listening, producer_ready, connect_tcp_client,
             producer_close, consumerVars
    <2>2. CASE connect_throws(failure)
      BY <2>2 DEF NoFaultInv, connect_throws
    <2>3. CASE send_fails(failure)
      <3>1. produced < Len(Messages) /\ (failure \/ consumer = "closed")
        BY <2>3 DEF send_fails
      <3>2. consumed <= produced /\ consumed \in Nat /\ produced \in Nat
        BY Counts, FeedType DEF TcpTypes, StreamInv
      <3>3. fault' \in BOOLEAN /\ (~fault' => ~fault /\ ~failure)
        BY <2>3 DEF send_fails, TcpTypes
      <3>4. fault'
        BY <3>1, <3>2, <3>3, FeedType DEF NoFaultInv
      <3> QED
        BY <3>4 DEF NoFaultInv
    <2>4. CASE consumer_start \/ accept_connection
      BY <2>4 DEF NoFaultInv, listening, consumer_start, accept_connection,
             producerVars
    <2>5. CASE accept_fails
      BY <2>5 DEF NoFaultInv, accept_fails
    <2>6. CASE recv_fails(failure)
      <3>1. /\ consumer = "recv" /\ (failure \/ (stream = <<>> /\ producer = "closed"))
            /\ fault' = (fault \/ failure)
            /\ UNCHANGED <<aborted, consumed, producer, produced>>
        BY <2>6 DEF recv_fails, producerVars
      <3>2. ASSUME ~fault'
            PROVE  consumed = Len(Messages) /\ ~fault /\ producer = "closed"
        BY <3>1, <3>2, EndOfStream
      <3> QED
        BY <3>1, <3>2 DEF NoFaultInv, listening
    <2> QED
      BY <2>1, <2>2, <2>3, <2>4, <2>5, <2>6
  <1> QED
    BY <1>2, <1>3, <1>4

\* Every step keeps the invariant.
LEMMA TcpNextInv == TcpInv /\ [Next]_vars => TcpInv'
  <1> SUFFICES ASSUME TcpInv, [Next]_vars PROVE TcpInv'
    OBVIOUS
  <1>1. CASE UNCHANGED vars
    BY <1>1 DEF vars, producerVars, consumerVars, TcpInv, TcpTypes, StreamInv,
           ReceivedInv, NoFaultInv, listening, Written, Read, Place
  <1>2. CASE Producer
    BY <1>2, ConnectionInv, SendInv DEF Producer
  <1>3. CASE Consumer
    BY <1>3, ConnectionInv, ReceiveInv, ProcessInv DEF Consumer
  <1>4. CASE Failure
    BY <1>4, ConnectionInv DEF Failure
  <1> QED
    BY <1>1, <1>2, <1>3, <1>4 DEF Next

(***************************************************************************)
(* Without a failing call nothing is thrown and everything is consumed     *)
(* when both threads have ended, and never more is consumed than produced. *)
(***************************************************************************)
THEOREM TcpAllConsumed == Spec => []AllConsumedAtExit
  <1>1. TcpInv => AllConsumedAtExit
    <2>1. TcpInv => consumed <= produced
      BY Counts DEF TcpInv, StreamInv
    <2> QED
      BY <2>1 DEF TcpInv, NoFaultInv, AllConsumedAtExit, Finished
  <1> QED
    BY <1>1, TcpInitInv, TcpNextInv, PTL DEF Spec

\* A step of the program is a step of the replay, or invisible to it.
LEMMA TcpStepReplays ==
    TcpInv /\ [Next]_vars => [OneReplay!Next]_<<Messages, consumed, book>>
  <1> SUFFICES ASSUME TcpInv, [Next]_vars
               PROVE  [OneReplay!Next]_<<Messages, consumed, book>>
    OBVIOUS
  <1>1. CASE consumer_process
    <2>1. PICK msg \in Range(Messages) :
            /\ \A i \in 1 .. Len(Messages) :
                 message = [b \in 1 .. MessageBytes |-> <<i, b>>]
                   => msg = Messages[i]
            /\ book' = ApplyMessage(book, msg)
      BY <1>1 DEF consumer_process
    <2>2. msg = Messages[consumed + 1] /\ consumed < Len(Messages)
      <3>1. consumer = "process"
        BY <1>1 DEF consumer_process
      <3>2. /\ consumed + 1 \in 1 .. Len(Messages)
            /\ message = [b \in 1 .. MessageBytes |-> <<consumed + 1, b>>]
        BY <3>1, WholeMessage
      <3>3. consumed \in Nat
        BY FeedType DEF TcpInv, TcpTypes
      <3>4. consumed < Len(Messages)
        BY <3>2, <3>3, FeedType
      <3> QED
        BY <2>1, <3>2, <3>4
    <2>3. consumed' = consumed + 1
      BY <1>1 DEF consumer_process
    <2>4. OneReplay!Apply
      BY <2>1, <2>2, <2>3 DEF OneReplay!Apply
    <2> QED
      BY <2>4 DEF OneReplay!Next
  <1>2. CASE ~consumer_process
    <2>1. UNCHANGED <<consumed, book>>
      BY <1>2 DEF Next, vars, Producer, Consumer, Failure, producer_ready,
             connect_tcp_client, connect_throws, send_some, send_fails,
             producer_close, consumer_start, accept_connection, accept_fails,
             recv_some, recv_fails, producerVars, consumerVars
    <2> QED
      BY <2>1
  <1> QED
    BY <1>1, <1>2

(***************************************************************************)
(* However the stream is cut into sends and receives, and wherever it      *)
(* breaks off, the book is built by one replay of the feed: whole messages *)
(* in order, each once.                                                    *)
(***************************************************************************)
THEOREM TcpImplementsReplay == Spec => ImplementsReplay
  <1>1. Init => OneReplay!Init
    BY SocketMessagesAssumption DEF Init, OneReplay!Init
  <1> QED
    BY <1>1, TcpInitInv, TcpNextInv, TcpStepReplays, PTL
       DEF Spec, ImplementsReplay, OneReplay!Spec

-----------------------------------------------------------------------------
\* What a fold of messages into the book computes.
Folds == INSTANCE FoldProofs WITH Op <- ApplyMessage

\* The books the properties speak of are such folds.
LEMMA ReplayFolds ==
    ASSUME NEW s
    PROVE  FoldLeft(ApplyMessage, InitialBook, s) = Folds!Folded(InitialBook, s)
  BY DEF FoldLeft, MapThenFoldSet, Max, Folds!Folded, Folds!FoldLeft,
         Folds!MapThenFoldSet, Folds!Max

\* One message more at the end of a feed is one more call of on_message.
LEMMA ReplayOneMore ==
    ASSUME NEW n \in Nat, NEW s, NEW t, DOMAIN s = 1 .. n, DOMAIN t = 1 .. (n + 1),
           \A i \in 1 .. n : t[i] = s[i]
    PROVE  FoldLeft(ApplyMessage, InitialBook, t)
             = ApplyMessage(FoldLeft(ApplyMessage, InitialBook, s), t[n + 1])
  <1>1. Folds!Folded(InitialBook, t)
          = ApplyMessage(Folds!Folded(InitialBook, s), t[n + 1])
    BY Folds!FoldOneMore
  <1> QED
    BY <1>1, ReplayFolds

\* Before the first message the book is the initial one.
LEMMA ReplayNone == FoldLeft(ApplyMessage, InitialBook, <<>>) = InitialBook
  <1>1. Folds!Folded(InitialBook, <<>>) = InitialBook
    BY Folds!FoldNone
  <1> QED
    BY <1>1, ReplayFolds

-----------------------------------------------------------------------------
\* The counters are numbers, and the producer is at a message or past the last.
UdpTypes ==
    /\ producer \in {"wait_ready", "create", "send", "closed"}
    /\ consumer \in {"start", "recv", "check_done", "process", "closed"}
    /\ next \in 1 .. (Len(Messages) + 1)
    /\ produced \in Nat /\ consumed \in Nat /\ dropped \in Nat
    /\ socket \in Seq(1 .. (next - 1))
    /\ consumer = "process" => message \in 1 .. (next - 1)

\* Every datagram that was sent has been processed, is being processed, waits
\* in the socket or was dropped, and nobody leaves before the last is sent.
UdpCounts ==
    /\ produced = consumed + Len(socket) + dropped
                    + (IF consumer = "process" THEN 1 ELSE 0)
    /\ produced <= next - 1
    /\ producer_done => producer = "closed"
    /\ producer = "closed" => next > Len(Messages)
    /\ consumer = "closed" => next > Len(Messages)

\* positions are those the book was built from, all before the ones to come.
BuiltFrom(positions) ==
    /\ Cardinality(positions) = consumed
    /\ book = FoldLeft(ApplyMessage, InitialBook, MessagesAt(positions))
    /\ \A q \in positions :
          /\ consumer = "process" => q < message
          /\ \A j \in 1 .. Len(socket) : q < socket[j]

\* Datagrams wait in the order of the feed, behind the one in process and
\* those the book was built from.
UdpOrder ==
    /\ \A i, j \in 1 .. Len(socket) : i < j => socket[i] < socket[j]
    /\ consumer = "process" => \A j \in 1 .. Len(socket) : message < socket[j]
    /\ \E positions \in SUBSET (1 .. (next - 1)) : BuiltFrom(positions)

UdpInv == UdpTypes /\ UdpCounts /\ UdpOrder

-----------------------------------------------------------------------------
\* How many of the positions are not after i.
Rank(positions, i) == Cardinality({j \in positions : j <= i})

\* The messages at a set of positions are in the order of the ranks.
LEMMA MessagesAtRanks ==
    ASSUME NEW R
    PROVE  MessagesAt(R) =
             [i \in 1 .. Cardinality(R) |->
                Messages[CHOOSE x \in R : Rank(R, x) = i]]
  <1> DEFINE at(i) == CHOOSE x \in R : Rank(R, x) = i
             rank(i) == CHOOSE x \in R : Cardinality({j \in R : j <= x}) = i
  <1>1. \A i : at(i) = rank(i)
    BY DEF Rank
  <1>2. MessagesAt(R) = [i \in 1 .. Cardinality(R) |-> Messages[rank(i)]]
    BY DEF MessagesAt, Cardinality
  <1> HIDE DEF at, rank
  <1>3. MessagesAt(R) = [i \in 1 .. Cardinality(R) |-> Messages[at(i)]]
    BY <1>1, <1>2
  <1> QED
    BY <1>3 DEF at

\* The messages at P and m are those at P and then that of m.
MoreByOne(P, m) ==
    LET s == MessagesAt(P)
        t == MessagesAt(P \union {m})
        k == Cardinality(P)
    IN  /\ k \in Nat /\ Cardinality(P \union {m}) = k + 1
        /\ DOMAIN s = 1 .. k /\ DOMAIN t = 1 .. (k + 1)
        /\ \A i \in 1 .. k : t[i] = s[i]
        /\ t[k + 1] = Messages[m]

\* A position behind all others adds its message at the end.
LEMMA MessagesAtMore ==
    ASSUME NEW n \in Nat, NEW P \in SUBSET (1 .. n), NEW m \in 1 .. n,
           \A q \in P : q < m
    PROVE  MoreByOne(P, m)
  <1> DEFINE Q == P \union {m}
             k == Cardinality(P)
             at(R, i) == CHOOSE x \in R : Rank(R, x) = i
  <1>1. IsFiniteSet(P) /\ IsFiniteSet(Q) /\ k \in Nat /\ Cardinality(Q) = k + 1
    <2>1. IsFiniteSet(P)
      <3>1. IsFiniteSet(1 .. n)
        BY FS_Interval
      <3> QED
        BY <3>1, FS_Subset
    <2>2. m \notin P
      OBVIOUS
    <2> QED
      BY <2>1, <2>2, FS_AddElement, FS_CardinalityType
  <1>2. Rank(Q, m) = k + 1
    <2>1. \A j \in Q : j <= m
      OBVIOUS
    <2> HIDE DEF Q
    <2>2. {j \in Q : j <= m} = Q
      BY <2>1
    <2> QED
      BY <1>1, <2>2 DEF Rank
  <1>3. ASSUME NEW x \in P
        PROVE  Rank(Q, x) = Rank(P, x) /\ Rank(P, x) \in Nat /\ Rank(P, x) <= k
    <2>1. {j \in Q : j <= x} = {j \in P : j <= x}
      OBVIOUS
    <2>2. {j \in P : j <= x} \in SUBSET P
      OBVIOUS
    <2> QED
      BY <1>1, <2>1, <2>2, FS_Subset, FS_CardinalityType DEF Rank
  <1>4. ASSUME NEW i \in 1 .. k
        PROVE  at(Q, i) = at(P, i)
    <2>1. \A x : (x \in Q /\ Rank(Q, x) = i) <=> (x \in P /\ Rank(P, x) = i)
      <3>1. Rank(Q, m) # i
        BY <1>1, <1>2
      <3>2. \A x : x \in Q <=> x \in P \/ x = m
        OBVIOUS
      <3>3. m \notin P
        OBVIOUS
      <3> HIDE DEF Q, k
      <3> QED
        BY <1>3, <3>1, <3>2, <3>3
    <2> QED
      BY <2>1
  <1>5. at(Q, k + 1) = m
    <2>1. \A x \in Q : Rank(Q, x) = k + 1 => x = m
      BY <1>1, <1>3
    <2>2. m \in Q
      OBVIOUS
    <2> HIDE DEF Q, k
    <2> QED
      BY <1>2, <2>1, <2>2
  <1>6. /\ MessagesAt(P) = [i \in 1 .. k |-> Messages[at(P, i)]]
        /\ MessagesAt(Q) = [i \in 1 .. Cardinality(Q) |-> Messages[at(Q, i)]]
    BY MessagesAtRanks
  <1> HIDE DEF at, Q, k
  <1>7. MessagesAt(Q) = [i \in 1 .. (k + 1) |-> Messages[at(Q, i)]]
    BY <1>1, <1>6
  <1>8. k + 1 \in 1 .. (k + 1) /\ \A i \in 1 .. k : i \in 1 .. (k + 1)
    BY <1>1
  <1> QED
    BY <1>1, <1>4, <1>5, <1>6, <1>7, <1>8 DEF MoreByOne, Q, k

-----------------------------------------------------------------------------
\* The initial states satisfy the invariant.
LEMMA UdpInitInv == UdpInit => UdpInv
  <1> SUFFICES ASSUME UdpInit PROVE UdpInv
    OBVIOUS
  <1> USE DEF UdpInit
  <1>1. UdpTypes
    <2>1. next \in 1 .. (Len(Messages) + 1)
      BY FeedType
    <2>2. socket \in Seq(1 .. (next - 1))
      OBVIOUS
    <2> QED
      BY <2>1, <2>2 DEF UdpTypes
  <1>2. UdpCounts
    BY DEF UdpCounts
  <1>3. BuiltFrom({})
    <2>1. Cardinality({}) = 0
      BY FS_EmptySet
    <2>2. MessagesAt({}) = <<>>
      BY <2>1, MessagesAtRanks
    <2> QED
      BY <2>1, <2>2, ReplayNone DEF BuiltFrom
  <1>4. UdpOrder
    BY <1>3 DEF UdpOrder
  <1> QED
    BY <1>1, <1>2, <1>4 DEF UdpInv

\* The lengths of the feed and of the socket are numbers.
LEMMA UdpLengths ==
    ASSUME UdpTypes
    PROVE  /\ Len(Messages) \in Nat /\ Len(socket) \in Nat /\ next \in Nat
           /\ next >= 1
  BY FeedType DEF UdpTypes

\* A step that touches no datagram keeps the order.
LEMMA QuietOrder ==
    ASSUME UdpInv, UNCHANGED <<next, consumed, socket, message, book>>,
           consumer' = "process" <=> consumer = "process"
    PROVE  UdpOrder'
  <1>1. PICK P \in SUBSET (1 .. (next - 1)) : BuiltFrom(P)
    BY DEF UdpInv, UdpOrder
  <1>2. BuiltFrom(P)'
    <2>1. MessagesAt(P)' = MessagesAt(P)
      BY DEF MessagesAt
    <2> QED
      BY <1>1, <2>1 DEF BuiltFrom
  <1>3. \E Q \in SUBSET (1 .. (next' - 1)) : BuiltFrom(Q)'
    BY <1>1, <1>2
  <1> QED
    BY <1>3 DEF UdpInv, UdpOrder

\* The steps that touch no datagram.
LEMMA UdpQuietInv ==
    ASSUME UdpInv,
           \/ udp_producer_ready \/ create_udp_sender \/ producer_finish
           \/ udp_consumer_start \/ recv_timeout
           \/ done_loaded \/ done_not_loaded
    PROVE  UdpInv'
  <1> USE DEF udp_producer_ready, create_udp_sender, producer_finish,
              udp_consumer_start, recv_timeout, done_loaded,
              done_not_loaded, udpProducerVars, udpConsumerVars
  <1>1. /\ UNCHANGED <<next, consumed, socket, message, book>>
        /\ UNCHANGED <<produced, dropped>>
        /\ \/ consumer' # "process" /\ consumer # "process"
           \/ UNCHANGED consumer
    OBVIOUS
  <1>2. UdpOrder'
    BY <1>1, QuietOrder
  <1>3. UdpTypes'
    <2>1. /\ producer' \in {"wait_ready", "create", "send", "closed"}
          /\ consumer' \in {"start", "recv", "check_done", "process", "closed"}
      BY DEF UdpInv, UdpTypes
    <2> QED
      BY <1>1, <2>1 DEF UdpInv, UdpTypes
  <1>4. UdpCounts'
    <2>1. /\ producer_done' => producer' = "closed"
          /\ producer' = "closed" => next > Len(Messages)
          /\ consumer' = "closed" => next > Len(Messages)
      BY DEF UdpInv, UdpTypes, UdpCounts
    <2>2. (IF consumer' = "process" THEN 1 ELSE 0)
            = (IF consumer = "process" THEN 1 ELSE 0)
      BY <1>1
    <2> QED
      BY <1>1, <2>1, <2>2 DEF UdpInv, UdpCounts
  <1> QED
    BY <1>2, <1>3, <1>4 DEF UdpInv

\* A datagram joins the socket behind all others, or it is lost.
LEMMA UdpSendInv ==
    ASSUME UdpInv, send_datagram
    PROVE  UdpInv'
  <1> USE DEF UdpInv
  <1> DEFINE n == Len(socket)
  <1>1. /\ producer = "send" /\ next <= Len(Messages) /\ next' = next + 1
        /\ UNCHANGED <<producer_done, producer, aborted>>
        /\ UNCHANGED <<consumer, message, consumed, book>>
    BY DEF send_datagram, udpConsumerVars
  <1>2. \/ /\ socket' = Append(socket, next) /\ dropped' = dropped
           /\ produced' = produced + 1
        \/ /\ socket' = socket /\ dropped' = dropped + 1
           /\ produced' = produced + 1
        \/ socket' = socket /\ dropped' = dropped /\ produced' = produced
    BY DEF send_datagram, deliver
  <1>3. /\ Len(Messages) \in Nat /\ n \in Nat /\ next \in Nat /\ next >= 1
        /\ produced \in Nat /\ consumed \in Nat /\ dropped \in Nat
    BY UdpLengths DEF UdpTypes
  <1>4. /\ socket \in Seq(1 .. (next - 1))
        /\ \A j \in 1 .. n : socket[j] \in 1 .. (next - 1)
    BY DEF UdpTypes
  <1>5. /\ Len(Append(socket, next)) = n + 1
        /\ \A j \in 1 .. n : Append(socket, next)[j] = socket[j]
        /\ Append(socket, next)[n + 1] = next
    BY <1>3, <1>4
  <1>6. socket' \in Seq(1 .. (next' - 1))
    <2> DEFINE S == 1 .. next
    <2>1. socket \in Seq(S) /\ next \in S /\ next' - 1 = next
      BY <1>1, <1>3, <1>4
    <2> HIDE DEF S
    <2>2. Append(socket, next) \in Seq(S)
      BY <2>1, AppendProperties
    <2>3. socket' \in Seq(S)
      BY <1>2, <2>1, <2>2
    <2> QED
      BY <2>1, <2>3 DEF S
  <1>7. UdpTypes'
    <2>1. /\ next' \in 1 .. (Len(Messages) + 1)
          /\ produced' \in Nat /\ dropped' \in Nat
          /\ consumer' = "process" => message' \in 1 .. (next' - 1)
      <3>1. consumer = "process" => message \in 1 .. (next - 1)
        BY DEF UdpTypes
      <3> QED
        BY <1>1, <1>2, <1>3, <3>1
    <2> QED
      BY <1>1, <1>6, <2>1 DEF UdpTypes
  <1>8. UdpCounts'
    <2> DEFINE c == IF consumer = "process" THEN 1 ELSE 0
    <2>1. produced = consumed + n + dropped + c /\ produced <= next - 1 /\ c \in Nat
      BY DEF UdpCounts
    <2>2. \/ Len(socket') = n + 1 /\ dropped' = dropped /\ produced' = produced + 1
          \/ Len(socket') = n /\ dropped' = dropped + 1 /\ produced' = produced + 1
          \/ Len(socket') = n /\ dropped' = dropped /\ produced' = produced
      BY <1>2, <1>5
    <2>3. c' = c
      BY <1>1
    <2> HIDE DEF c, n
    <2>4. produced' = consumed' + Len(socket') + dropped' + c' /\ produced' <= next' - 1
      BY <1>1, <1>3, <2>1, <2>2, <2>3
    <2>5. /\ producer_done' => producer' = "closed"
          /\ producer' # "closed" /\ consumer' # "closed"
      BY <1>1, <1>3 DEF UdpCounts
    <2> QED
      BY <2>4, <2>5 DEF UdpCounts, c
  <1>9. UdpOrder'
    <2>1. PICK P \in SUBSET (1 .. (next - 1)) : BuiltFrom(P)
      BY DEF UdpOrder
    <2>2. \/ socket' = socket
          \/ /\ Len(socket') = n + 1 /\ socket'[n + 1] = next
             /\ \A j \in 1 .. n : socket'[j] = socket[j]
      BY <1>2, <1>5
    <2>3. ASSUME NEW x \in 1 .. (next - 1), \A j \in 1 .. n : x < socket[j]
          PROVE  \A j \in 1 .. Len(socket') : x < socket'[j]
      <3> HIDE DEF n
      <3>1. CASE socket' = socket
        BY <2>3, <3>1 DEF n
      <3>2. CASE /\ Len(socket') = n + 1 /\ socket'[n + 1] = next
                 /\ \A j \in 1 .. n : socket'[j] = socket[j]
        <4>1. ASSUME NEW j \in 1 .. (n + 1)
              PROVE  x < socket'[j]
          <5>1. CASE j \in 1 .. n
            BY <2>3, <3>2, <5>1
          <5>2. CASE j = n + 1
            BY <1>3, <3>2, <5>2
          <5> QED
            BY <1>3, <5>1, <5>2
        <4> QED
          BY <3>2, <4>1
      <3> QED
        BY <2>2, <3>1, <3>2
    <2>4. ASSUME NEW i \in 1 .. Len(socket'), NEW j \in 1 .. Len(socket'), i < j
          PROVE  socket'[i] < socket'[j]
      <3> HIDE DEF n
      <3>1. CASE socket' = socket
        BY <2>4, <3>1 DEF UdpOrder
      <3>2. CASE /\ Len(socket') = n + 1 /\ socket'[n + 1] = next
                 /\ \A k \in 1 .. n : socket'[k] = socket[k]
        <4>1. i \in 1 .. n /\ (j \in 1 .. n \/ j = n + 1)
          BY <1>3, <2>4, <3>2
        <4>2. CASE j \in 1 .. n
          BY <2>4, <3>2, <4>1, <4>2 DEF UdpOrder, n
        <4>3. CASE j = n + 1
          BY <1>3, <1>4, <3>2, <4>1, <4>3
        <4> QED
          BY <4>1, <4>2, <4>3
      <3> QED
        BY <2>2, <3>1, <3>2
    <2>5. consumer' = "process" => \A j \in 1 .. Len(socket') : message' < socket'[j]
      <3>1. ASSUME consumer = "process"
            PROVE  message \in 1 .. (next - 1) /\ \A j \in 1 .. n : message < socket[j]
        BY <3>1 DEF UdpTypes, UdpOrder
      <3> HIDE DEF n
      <3> QED
        BY <1>1, <2>3, <3>1
    <2>6. P \in SUBSET (1 .. (next' - 1))
      BY <1>1, <1>3
    <2>7. BuiltFrom(P)'
      <3>1. MessagesAt(P)' = MessagesAt(P)
        BY DEF MessagesAt
      <3>2. \A q \in P : \A j \in 1 .. Len(socket') : q < socket'[j]
        BY <2>1, <2>3 DEF BuiltFrom
      <3> QED
        BY <1>1, <2>1, <3>1, <3>2 DEF BuiltFrom
    <2> QED
      BY <2>4, <2>5, <2>6, <2>7 DEF UdpOrder
  <1> QED
    BY <1>7, <1>8, <1>9

\* The datagram taken from the socket comes before those left in it.
LEMMA UdpReceiveInv ==
    ASSUME UdpInv, recv_datagram
    PROVE  UdpInv'
  <1> USE DEF UdpInv
  <1> DEFINE n == Len(socket)
  <1>1. /\ consumer = "recv" /\ consumer' = "process"
        /\ socket # <<>> /\ message' = Head(socket) /\ socket' = Tail(socket)
        /\ UNCHANGED <<consumed, book>>
        /\ UNCHANGED <<producer_done, producer, next, produced, dropped>>
    BY DEF recv_datagram, udpProducerVars
  <1>2. /\ Len(Messages) \in Nat /\ n \in Nat /\ next \in Nat /\ next >= 1
        /\ produced \in Nat /\ consumed \in Nat /\ dropped \in Nat
        /\ socket \in Seq(1 .. (next - 1))
    BY UdpLengths DEF UdpTypes
  <1>3. /\ socket' \in Seq(1 .. (next - 1)) /\ Len(socket') = n - 1
        /\ message' \in 1 .. (next - 1) /\ message' = socket[1] /\ n >= 1
        /\ \A j \in 1 .. (n - 1) : socket'[j] = socket[j + 1]
    <2> DEFINE S == 1 .. (next - 1)
    <2>1. socket \in Seq(S)
      BY <1>2
    <2> HIDE DEF S
    <2>2. /\ Head(socket) \in S /\ Tail(socket) \in Seq(S)
          /\ Len(Tail(socket)) = n - 1
          /\ \A j \in 1 .. Len(Tail(socket)) : Tail(socket)[j] = socket[j + 1]
      BY <1>1, <2>1, HeadTailProperties
    <2>3. Head(socket) = socket[1] /\ n >= 1
      BY <1>1, <2>1
    <2> QED
      BY <1>1, <2>2, <2>3 DEF S
  <1> HIDE DEF n
  <1>4. UdpTypes'
    BY <1>1, <1>3 DEF UdpTypes
  <1>5. UdpCounts'
    <2>1. produced = consumed + n + dropped + 0
      BY <1>1 DEF UdpCounts, n
    <2>2. produced' = consumed' + Len(socket') + dropped'
                        + (IF consumer' = "process" THEN 1 ELSE 0)
      BY <1>1, <1>2, <1>3, <2>1
    <2> QED
      BY <1>1, <2>2 DEF UdpCounts
  <1>6. \A j \in 1 .. (n - 1) : j + 1 \in 1 .. n /\ 1 < j + 1 /\ 1 \in 1 .. n
    BY <1>2
  <1>7. UdpOrder'
    <2>1. PICK P \in SUBSET (1 .. (next - 1)) : BuiltFrom(P)
      BY DEF UdpOrder
    <2>2. \A i, j \in 1 .. n : i < j => socket[i] < socket[j]
      BY DEF UdpOrder, n
    <2>3. \A j \in 1 .. (n - 1) : message' < socket'[j]
      BY <1>3, <1>6, <2>2
    <2>4. \A i, j \in 1 .. (n - 1) : i < j => socket'[i] < socket'[j]
      <3> SUFFICES ASSUME NEW i \in 1 .. (n - 1), NEW j \in 1 .. (n - 1), i < j
                   PROVE  socket'[i] < socket'[j]
        OBVIOUS
      <3>1. i + 1 < j + 1 /\ i + 1 \in 1 .. n /\ j + 1 \in 1 .. n
        BY <1>2
      <3> QED
        BY <1>3, <2>2, <3>1
    <2>5. BuiltFrom(P)'
      <3>1. MessagesAt(P)' = MessagesAt(P)
        BY DEF MessagesAt
      <3>2. \A q \in P : \A j \in 1 .. n : q < socket[j]
        BY <2>1 DEF BuiltFrom, n
      <3>3. \A q \in P : q < message'
        <4>1. 1 \in 1 .. n
          BY <1>2, <1>3
        <4> QED
          BY <1>3, <3>2, <4>1
      <3>4. \A q \in P : \A j \in 1 .. (n - 1) : q < socket'[j]
        BY <1>3, <1>6, <3>2
      <3> QED
        BY <1>1, <1>3, <2>1, <3>1, <3>3, <3>4 DEF BuiltFrom
    <2> QED
      BY <1>1, <1>3, <2>1, <2>3, <2>4, <2>5 DEF UdpOrder
  <1> QED
    BY <1>4, <1>5, <1>7

\* The message in process goes to the book as the last so far.
LEMMA UdpProcessInv ==
    ASSUME UdpInv, udp_consumer_process
    PROVE  UdpInv'
  <1> USE DEF UdpInv
  <1>1. /\ consumer = "process" /\ consumed' = consumed + 1
        /\ book' = ApplyMessage(book, Messages[message])
        /\ consumer' = IF consumed' < Len(Messages) THEN "recv" ELSE "closed"
        /\ UNCHANGED <<message, socket>>
        /\ UNCHANGED <<producer_done, producer, next, produced, dropped>>
    BY DEF udp_consumer_process, udpProducerVars
  <1>2. /\ Len(Messages) \in Nat /\ Len(socket) \in Nat /\ next \in Nat /\ next >= 1
        /\ produced \in Nat /\ consumed \in Nat /\ dropped \in Nat
        /\ message \in 1 .. (next - 1)
    BY <1>1, UdpLengths DEF UdpTypes
  <1>3. UdpTypes'
    BY <1>1, <1>2 DEF UdpTypes
  <1>4. UdpCounts'
    <2>1. produced = consumed + Len(socket) + dropped + 1 /\ produced <= next - 1
      BY <1>1 DEF UdpCounts
    <2>2. produced' = consumed' + Len(socket') + dropped' + 0
      BY <1>1, <1>2, <2>1
    <2>3. consumer' = "closed" => next > Len(Messages)
      BY <1>1, <1>2, <2>1
    <2>4. consumer' # "process"
      BY <1>1
    <2> QED
      BY <1>1, <2>2, <2>3, <2>4 DEF UdpCounts
  <1>5. UdpOrder'
    <2>1. PICK P \in SUBSET (1 .. (next - 1)) : BuiltFrom(P)
      BY DEF UdpOrder
    <2>2. PICK m \in 1 .. (next - 1) : m = message
      BY <1>2
    <2> DEFINE Q == P \union {m}
               s == MessagesAt(P)
               t == MessagesAt(Q)
               k == Cardinality(P)
    <2>3. Q \in SUBSET (1 .. (next' - 1))
      BY <1>1, <2>2
    <2>4. /\ k \in Nat /\ Cardinality(Q) = k + 1
          /\ DOMAIN s = 1 .. k /\ DOMAIN t = 1 .. (k + 1)
          /\ \A i \in 1 .. k : t[i] = s[i]
          /\ t[k + 1] = Messages[m]
      <3> DEFINE n == next - 1
      <3>1. n \in Nat /\ P \in SUBSET (1 .. n) /\ m \in 1 .. n
        BY <1>2
      <3>2. \A q \in P : q < m
        BY <1>1, <2>1, <2>2 DEF BuiltFrom
      <3> HIDE DEF n
      <3>3. MoreByOne(P, m)
        BY <3>1, <3>2, MessagesAtMore
      <3> QED
        BY <3>3 DEF MoreByOne
    <2> HIDE DEF s, t, k
    <2>5. FoldLeft(ApplyMessage, InitialBook, t)
            = ApplyMessage(FoldLeft(ApplyMessage, InitialBook, s), t[k + 1])
      BY <2>4, ReplayOneMore
    <2>6. book' = FoldLeft(ApplyMessage, InitialBook, t) /\ k = consumed
      BY <1>1, <2>1, <2>2, <2>4, <2>5 DEF BuiltFrom, s, k
    <2>7. \A q \in Q : \A j \in 1 .. Len(socket') : q < socket'[j]
      BY <1>1, <2>1, <2>2 DEF BuiltFrom, UdpOrder
    <2>8. consumer' # "process"
      BY <1>1
    <2> HIDE DEF Q
    <2>9. BuiltFrom(Q)'
      <3>1. MessagesAt(Q)' = t
        BY DEF MessagesAt, t
      <3> QED
        BY <1>1, <2>4, <2>6, <2>7, <2>8, <3>1 DEF BuiltFrom
    <2>10. \E R \in SUBSET (1 .. (next' - 1)) : BuiltFrom(R)'
      BY <2>3, <2>9
    <2> QED
      BY <1>1, <2>8, <2>10 DEF UdpOrder
  <1> QED
    BY <1>3, <1>4, <1>5

\* Every step keeps the invariant.
LEMMA UdpNextInv == UdpInv /\ [UdpNext]_udpVars => UdpInv'
  <1> SUFFICES ASSUME UdpInv, [UdpNext]_udpVars PROVE UdpInv'
    OBVIOUS
  <1>1. CASE UNCHANGED udpVars
    <2>1. /\ UNCHANGED <<next, consumed, socket, message, book, consumer>>
          /\ UNCHANGED <<producer, producer_done, produced, dropped>>
      BY <1>1 DEF udpVars, udpProducerVars, udpConsumerVars
    <2>2. UdpOrder'
      BY <2>1, QuietOrder
    <2> QED
      BY <2>1, <2>2 DEF UdpInv, UdpTypes, UdpCounts
  <1>2. CASE UdpProducer
    BY <1>2, UdpQuietInv, UdpSendInv DEF UdpProducer
  <1>3. CASE UdpConsumer
    BY <1>3, UdpQuietInv, UdpReceiveInv, UdpProcessInv DEF UdpConsumer
  <1> QED
    BY <1>1, <1>2, <1>3 DEF UdpNext

(***************************************************************************)
(* The receiving socket is not closed before the last datagram is sent.    *)
(***************************************************************************)
THEOREM UdpOpenWhileSending == UdpSpec => []OpenWhileSending
  <1>1. UdpInv => OpenWhileSending
    BY DEF UdpInv, UdpCounts, OpenWhileSending
  <1> QED
    BY <1>1, UdpInitInv, UdpNextInv, PTL DEF UdpSpec

(***************************************************************************)
(* The printed number of datagrams not received does not wrap, and counts  *)
(* exactly the dropped ones and those left in the socket.                  *)
(***************************************************************************)
THEOREM UdpDroppedFigure == UdpSpec => []DroppedFigure
  <1>1. ASSUME UdpInv, Finished
        PROVE  consumed <= produced /\ produced - consumed = dropped + Len(socket)
    <2>1. produced = consumed + Len(socket) + dropped + 0
      BY <1>1 DEF UdpInv, UdpCounts, Finished
    <2>2. /\ produced \in Nat /\ consumed \in Nat /\ dropped \in Nat
          /\ Len(socket) \in Nat
      BY <1>1, UdpLengths DEF UdpInv, UdpTypes
    <2> QED
      BY <2>1, <2>2
  <1>2. UdpInv => DroppedFigure
    BY <1>1 DEF DroppedFigure
  <1> QED
    BY <1>2, UdpInitInv, UdpNextInv, PTL DEF UdpSpec

(***************************************************************************)
(* Whatever is lost, the book is what a single thread would have built     *)
(* from some of the messages sent, in the order of the feed, each once.    *)
(***************************************************************************)
THEOREM UdpBookIsReplayOfSome == UdpSpec => []BookIsReplayOfSome
  <1>1. UdpInv => BookIsReplayOfSome
    BY DEF UdpInv, UdpOrder, BuiltFrom, BookIsReplayOfSome
  <1> QED
    BY <1>1, UdpInitInv, UdpNextInv, PTL DEF UdpSpec

=============================================================================
