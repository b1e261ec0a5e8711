--------------------------- MODULE TransferProofs ---------------------------
(***************************************************************************)
(* Theorems about Transfer, for every number of packets, both paths and    *)
(* every number and kind of faults.                                        *)
(***************************************************************************)
EXTENDS Transfer, SequenceTheorems, TLAPS

\* How many messages a packet has before its payload.
Pieces == Len(Header)

\* How many of its messages the sender has sent of the packet it is at.
Sent == IF spc = "header" THEN sheader - 1
        ELSE IF spc = "payload" THEN Pieces ELSE Pieces + 1

\* How many of these messages the receiver has taken of the packet it is at.
Taken == IF rpc = "header" THEN rheader - 1
         ELSE IF rpc = "payload" THEN Pieces ELSE Pieces + 1

\* Message m is piece k of packet n.
IsPiece(m, n, k) ==
  \/ k <= Pieces /\ m.kind = Header[k]
  \/ k = Pieces + 1 /\ m.kind = "payload" /\ m.packet = n

\* Places of the two ends in their loops.
PlaceInv ==
  /\ spc = "num" => packet = 0
  /\ spc \in {"header", "payload", "ack"} => packet >= 1
  /\ spc = "header" => sheader \in 1 .. Pieces
  /\ rpc \in {"num", "null"} => index = 0
  /\ rpc \in {"header", "payload", "ack", "undefined"} => index >= 1
  /\ rpc = "header" => rheader \in 1 .. Pieces
  /\ spc \in Gone => "sender" \in closed
  /\ "sender" \in closed => spc \in Gone \union {"done"}
  /\ rpc \in Gone => "receiver" \in closed
  /\ "receiver" \in closed => rpc \in Gone \union {"done", "null"}

\* A packet of the list is the one of the message, undamaged as far as the crc32 tells.
Sound(n) == list[n].packet = n /\ list[n].damage \in {"none", "flag", "rest"}

\* Only a last packet that is about to be refused, or was when the receiver
\* went away, is not sound.
ListInv ==
  /\ \A n \in DOMAIN list :
       \/ Sound(n)
       \/ /\ n = Len(list) /\ rpc \in {"ack"} \union Gone
          /\ list[n].damage = "data" /\ rstatus = "FAIL"
  /\ rpc \in {"num", "null"} => list = <<>>
  /\ rpc \in {"header", "payload", "undefined"} => Len(list) = index - 1
  /\ rpc = "ack" =>
       /\ Len(list) = index
       /\ list[index].packet = index
       /\ list[index].damage \in {"none", "flag", "rest", "data"}
       /\ rstatus = IF list[index].damage = "data" THEN "FAIL" ELSE "OK"
  /\ rpc = "done" => Len(list) = num_packets

\* The payload of a refused packet is sent again, without the sizes that the
\* receiver of the compressed path waits for.
Repeats == path = "gz" /\ rpc = "header" /\ rstatus = "FAIL"

\* What is on its way to the receiver is what it waits for.
DataInv ==
  /\ rpc = "num" =>
       /\ rstatus = "unset"
       /\ \A k \in DOMAIN data :
            IF k = 1 THEN data[k].kind = "num" ELSE IsPiece(data[k], 1, k - 1)
  /\ rpc \in {"header", "payload", "ack"} =>
       IF Repeats
         THEN rheader = 1 /\ Len(data) <= 1 /\ \A k \in DOMAIN data : data[k].kind = "payload"
         ELSE \A k \in DOMAIN data : IsPiece(data[k], index, Taken + k)

\* How far the two ends are from each other.
AtStart ==
  /\ acks = <<>>
  /\ data # <<>> /\ num_packets > 0 => packet = 1
  /\ "sender" \notin closed =>
       \/ spc = "num" /\ data = <<>>
       \/ spc = "done" /\ Len(data) = 1
       \/ spc \in {"header", "payload", "ack"} /\ packet = 1 /\ Len(data) = 1 + Sent

\* Both ends are at the same packet.
Current ==
  /\ packet = index /\ acks = <<>>
  /\ spc \in {"header", "payload", "ack"}
  /\ Len(data) = Sent - (IF Repeats THEN Pieces ELSE Taken)

\* The answer OK is on its way to the sender.
Behind ==
  /\ packet = index - 1 /\ spc = "ack" /\ acks = <<"OK">>
  /\ rpc = "header" /\ rheader = 1 /\ rstatus # "FAIL" /\ data = <<>>

\* The answer FAIL is on its way to the sender.
Refused ==
  /\ packet = index /\ spc = "ack" /\ acks = <<"FAIL">>
  /\ rpc = RetryAt /\ rheader = 1 /\ rstatus = "FAIL" /\ data = <<>>

\* The sender has gone, perhaps without the answer OK.
Ended ==
  \/ packet = index
  \/ packet = index - 1 /\ rpc \in {"header", "payload"} /\ rstatus # "FAIL" /\ data = <<>>

\* The ends are at most one packet apart, by what is on its way.
DistanceInv ==
  /\ rpc \in {"num", "null"} => packet <= 1 /\ (spc = "done" => num_packets = 0)
  /\ rpc = "num" => AtStart
  /\ rpc = "null" => "sender" \in closed
  /\ rpc \in {"header", "payload", "ack"} =>
       /\ spc # "done"
       /\ IF "sender" \in closed THEN Ended ELSE Current \/ Behind \/ Refused
  /\ rpc = "undefined" =>
       /\ spc # "done"
       /\ IF "sender" \in closed THEN packet \in {index - 1, index}
                                 ELSE \/ packet = index /\ spc # "num" /\ acks = <<>>
                                      \/ packet = index - 1 /\ spc = "ack" /\ acks = <<"OK">>
  /\ rpc = "done" => packet = num_packets
  /\ Len(list) <= packet

\* The inductive invariant.
IInv == TypeOK /\ PlaceInv /\ ListInv /\ DataInv /\ DistanceInv

-----------------------------------------------------------------------------

\* The sizes in front of a payload.
LEMMA HeaderFacts ==
  ASSUME path \in {"raw", "gz"}
  PROVE  /\ Pieces \in 1 .. 2 /\ Pieces = Len(Header)
         /\ \A k \in 1 .. Pieces : Header[k] \in {"file_size", "json_size"}
         /\ path = "gz" => Header[1] = "file_size"
BY DEF Pieces, Header

\* They depend on the path alone.
LEMMA HeaderFixed ==
  ASSUME path' = path
  PROVE  Header' = Header /\ Pieces' = Pieces
BY DEF Pieces, Header

\* What the sender sends is a message.
LEMMA MessageFacts ==
  ASSUME TypeOK
  PROVE  /\ Announcement \in Message
         /\ \A n \in 0 .. num_packets, h \in 1 .. Pieces : HeaderPiece(n, h) \in Message
         /\ \A n \in 0 .. num_packets, d \in {"none", "rest"} \union Damage : Payload(n, d) \in Message
<1>1. num_packets \in 0 .. MaxPackets /\ MaxPackets \in Nat
  BY TransferAssumption DEF TypeOK
<1>2. Announcement \in Message
  BY <1>1 DEF Announcement, Message
<1>3. \A h \in 1 .. Pieces : Header[h] \in {"file_size", "json_size"}
  BY HeaderFacts DEF TypeOK
<1>4. ASSUME NEW n \in 0 .. num_packets, NEW h \in 1 .. Pieces
      PROVE  HeaderPiece(n, h) \in Message
  BY <1>1, <1>3, <1>4 DEF HeaderPiece, Message
<1>5. ASSUME NEW n \in 0 .. num_packets, NEW d \in {"none", "rest"} \union Damage
      PROVE  Payload(n, d) \in Message
  BY <1>1, <1>5 DEF Payload, Message
<1>6. QED
  BY <1>2, <1>4, <1>5

\* The first element and the rest of a sequence.
LEMMA TailFacts ==
  ASSUME NEW S, NEW s \in Seq(S), s # <<>>
  PROVE  /\ Head(s) = s[1] /\ Head(s) \in S /\ Tail(s) \in Seq(S) /\ Len(s) >= 1
         /\ Len(Tail(s)) = Len(s) - 1 /\ DOMAIN Tail(s) = 1 .. Len(s) - 1
         /\ \A k \in 1 .. Len(s) - 1 : Tail(s)[k] = s[k + 1]
BY HeadTailProperties, LenProperties, EmptySeq

\* A sequence without its last element.
LEMMA FrontFacts ==
  ASSUME NEW S, NEW s \in Seq(S), s # <<>>
  PROVE  /\ Last(s) = s[Len(s)] /\ Last(s) \in S /\ Front(s) \in Seq(S) /\ Len(s) >= 1
         /\ Len(Front(s)) = Len(s) - 1 /\ DOMAIN Front(s) = 1 .. Len(s) - 1
         /\ \A k \in 1 .. Len(s) - 1 : Front(s)[k] = s[k]
<1> DEFINE n == Len(s) - 1
<1>1. Len(s) \in Nat /\ Len(s) >= 1 /\ n \in Nat /\ Len(s) = n + 1
  BY EmptySeq, LenProperties
<1>2. \A k \in 1 .. Len(s) : s[k] \in S
  BY ElementOfSeq
<1>3. Front(s) = SubSeq(s, 1, n)
  BY DEF Front
<1> HIDE DEF n
<1>4. \A k \in 1 .. n : s[k] \in S
  BY <1>1, <1>2
<1>5. /\ SubSeq(s, 1, n) \in Seq(S)
      /\ Len(SubSeq(s, 1, n)) = IF 1 <= n THEN n - 1 + 1 ELSE 0
      /\ \A k \in 1 .. n - 1 + 1 : SubSeq(s, 1, n)[k] = s[1 + k - 1]
  <2>1. 1 \in Int /\ n \in Int
    BY <1>1
  <2>2. QED
    BY <1>4, <2>1, SubSeqProperties
<1>6. /\ Len(SubSeq(s, 1, n)) = n
      /\ \A k \in 1 .. n : SubSeq(s, 1, n)[k] = s[k]
  BY <1>1, <1>5
<1>7. Front(s) \in Seq(S) /\ Len(Front(s)) = n /\ \A k \in 1 .. n : Front(s)[k] = s[k]
  BY <1>3, <1>5, <1>6
<1>8. DOMAIN Front(s) = 1 .. n
  BY <1>7, LenProperties
<1>9. Last(s) = s[Len(s)] /\ Last(s) \in S
  BY <1>1, <1>2 DEF Last
<1>10. QED
  BY <1>1, <1>7, <1>8, <1>9

\* A sequence with one element more.
LEMMA AppendFacts ==
  ASSUME NEW S, NEW s \in Seq(S), NEW e \in S
  PROVE  /\ Append(s, e) \in Seq(S) /\ Len(Append(s, e)) = Len(s) + 1
         /\ DOMAIN Append(s, e) = 1 .. Len(s) + 1
         /\ \A k \in 1 .. Len(s) : Append(s, e)[k] = s[k]
         /\ Append(s, e)[Len(s) + 1] = e
BY AppendProperties, LenProperties

\* A fault is counted.
LEMMA FaultFacts ==
  ASSUME TypeOK, NEW f \in Damage \union {"short", "close"}, Fault(f)
  PROVE  faults' \in Seq(Damage \union {"short", "close"})
BY AppendFacts DEF Fault, TypeOK

\* One more piece is sent.
LEMMA PieceSent ==
  ASSUME data \in Seq(Message), NEW m \in Message, NEW n, NEW t \in Nat,
         \A k \in DOMAIN data : IsPiece(data[k], n, t + k),
         IsPiece(m, n, t + (Len(data) + 1))
  PROVE  \A k \in DOMAIN Append(data, m) : IsPiece(Append(data, m)[k], n, t + k)
<1> SUFFICES ASSUME NEW k \in DOMAIN Append(data, m)
             PROVE  IsPiece(Append(data, m)[k], n, t + k)
  OBVIOUS
<1>1. /\ Len(data) \in Nat /\ DOMAIN data = 1 .. Len(data) /\ k \in 1 .. Len(data) + 1
      /\ \A j \in 1 .. Len(data) : Append(data, m)[j] = data[j]
      /\ Append(data, m)[Len(data) + 1] = m
  BY AppendFacts, LenProperties
<1>2. CASE k \in 1 .. Len(data)
  BY <1>1, <1>2
<1>3. CASE k = Len(data) + 1
  BY <1>1, <1>3
<1>4. QED
  BY <1>1, <1>2, <1>3

\* The first piece is taken.
LEMMA PieceTaken ==
  ASSUME data \in Seq(Message), data # <<>>, NEW n, NEW t \in Nat,
         \A k \in DOMAIN data : IsPiece(data[k], n, t + k)
  PROVE  /\ IsPiece(Head(data), n, t + 1)
         /\ \A k \in DOMAIN Tail(data) : IsPiece(Tail(data)[k], n, (t + 1) + k)
<1>1. /\ Len(data) \in Nat /\ DOMAIN data = 1 .. Len(data) /\ Len(data) >= 1
      /\ Head(data) = data[1] /\ DOMAIN Tail(data) = 1 .. Len(data) - 1
      /\ \A k \in 1 .. Len(data) - 1 : Tail(data)[k] = data[k + 1]
  BY TailFacts, LenProperties
<1>2. IsPiece(Head(data), n, t + 1)
  BY <1>1
<1>3. ASSUME NEW k \in 1 .. Len(data) - 1
      PROVE  IsPiece(Tail(data)[k], n, (t + 1) + k)
  <2>1. k + 1 \in DOMAIN data /\ t + (k + 1) = (t + 1) + k
    BY <1>1
  <2>2. IsPiece(data[k + 1], n, t + (k + 1))
    BY <2>1
  <2>3. QED
    BY <1>1, <2>1, <2>2
<1>4. QED
  BY <1>1, <1>2, <1>3

\* The receiver takes the payload it waits for.
LEMMA PacketTaken ==
  ASSUME TypeOK, ListInv, rpc = "payload",
         NEW m \in Message, m.packet = index, TakePacket(m), index' = index
  PROVE  /\ ListInv' /\ list' \in Seq(Message) /\ Len(list') <= index
         /\ rstatus' \in {"unset", "OK", "FAIL"}
         /\ \/ rpc' = "ack" /\ closed' = closed
            \/ rpc' = "crashed" /\ closed' = closed \union {"receiver"}
<1>1. /\ Len(list) \in Nat /\ DOMAIN list = 1 .. Len(list) /\ Len(list) = index - 1
      /\ \A n \in 1 .. Len(list) : Sound(n)
  BY LenProperties DEF TypeOK, ListInv, Gone
<1>2. CASE m.damage = "json"
  BY <1>1, <1>2 DEF TakePacket, ReceiverEnds, TypeOK, ListInv, Sound, Gone
<1>3. CASE m.damage # "json"
  <2>1. rpc' = "ack" /\ list' = Append(list, m) /\ closed' = closed
    BY <1>3 DEF TakePacket
  <2>2. rstatus' = IF m.damage = "data" THEN "FAIL" ELSE "OK"
    BY <1>3 DEF TakePacket
  <2>3. /\ list' \in Seq(Message) /\ Len(list') = index /\ DOMAIN list' = 1 .. index
        /\ \A n \in 1 .. Len(list) : list'[n] = list[n]
        /\ list'[index] = m
    BY <1>1, <2>1, AppendFacts DEF TypeOK
  <2>4. m.damage \in {"none", "flag", "rest", "data"}
    BY <1>3 DEF Message, Damage
  <2>5. ASSUME NEW n \in 1 .. index
        PROVE  \/ Sound(n)'
               \/ n = Len(list') /\ list'[n].damage = "data" /\ rstatus' = "FAIL"
    <3>1. CASE n \in 1 .. Len(list)
      BY <1>1, <2>3, <3>1 DEF Sound
    <3>2. CASE n = index
      BY <2>2, <2>3, <2>4, <3>2 DEF Sound
    <3>3. QED
      BY <1>1, <3>1, <3>2 DEF TypeOK
  <2>6. ListInv'
    BY <2>1, <2>2, <2>3, <2>4, <2>5 DEF ListInv, Gone
  <2>7. QED
    BY <2>1, <2>2, <2>3, <2>6 DEF TypeOK
<1>4. QED
  BY <1>2, <1>3

\* send_data announces the number of packets.
LEMMA SendNumKeeps == IInv /\ SendNum => IInv'
<1> SUFFICES ASSUME IInv, SendNum PROVE IInv'
  OBVIOUS
<1> USE DEF IInv
<1>1. path' = path /\ Header' = Header /\ Pieces' = Pieces
  BY HeaderFixed DEF SendNum
<1>2. TypeOK'
  BY MessageFacts DEF TypeOK, SendNum, receiver, SenderTurnsTo, Transmit
<1>3. PlaceInv'
  BY <1>1, HeaderFacts DEF PlaceInv, TypeOK, SendNum, receiver, Gone, SenderTurnsTo
<1>4. ListInv'
  BY DEF ListInv, Sound, SendNum, receiver
<1>5. DataInv'
  BY DEF DataInv, DistanceInv, AtStart, Current, Behind, Refused, PlaceInv, SendNum, receiver, Gone,
     Transmit, Announcement
<1>6. DistanceInv'
  BY DEF DistanceInv, AtStart, Current, Behind, Refused, Ended, PlaceInv, TypeOK, Sent, SendNum,
     receiver, SenderTurnsTo, Transmit
<1>7. QED
  BY <1>2, <1>3, <1>4, <1>5, <1>6

\* A size goes out.
LEMMA SendHeaderKeeps == IInv /\ SendHeader => IInv'
<1> SUFFICES ASSUME IInv, SendHeader PROVE IInv'
  OBVIOUS
<1> USE DEF IInv
<1>1. path' = path /\ Header' = Header /\ Pieces' = Pieces
  BY HeaderFixed DEF SendHeader
<1>2. TypeOK'
  BY HeaderFacts, MessageFacts DEF TypeOK, PlaceInv, SendHeader, receiver, Transmit
<1>3. PlaceInv'
  BY <1>1, HeaderFacts DEF PlaceInv, TypeOK, SendHeader, receiver, Gone
<1>4. ListInv'
  BY DEF ListInv, Sound, SendHeader, receiver
<1>5. DataInv'
  <2> DEFINE m == HeaderPiece(packet, sheader)
  <2>1. m \in Message /\ m.kind = Header[sheader] /\ sheader \in 1 .. Pieces
    BY <1>1, HeaderFacts, MessageFacts DEF HeaderPiece, SendHeader, PlaceInv, TypeOK
  <2> HIDE DEF m
  <2>2. CASE "receiver" \in closed
    BY <2>2 DEF DataInv, PlaceInv, SendHeader, receiver, Gone
  <2>3. CASE "receiver" \notin closed
    <3>1. data' = Append(data, m)
      BY <2>3 DEF SendHeader, Transmit, m
    <3>2. /\ Len(data) \in Nat /\ DOMAIN data = 1 .. Len(data) /\ DOMAIN data' = 1 .. Len(data) + 1
          /\ \A k \in 1 .. Len(data) : data'[k] = data[k]
          /\ data'[Len(data) + 1] = m
      BY <2>1, <3>1, AppendFacts, LenProperties DEF TypeOK
    <3>3. CASE rpc = "num"
      <4>1. Len(data) = sheader
        BY <2>1, <3>3, HeaderFacts DEF DistanceInv, AtStart, SendHeader, PlaceInv, Gone, Sent, TypeOK
      <4>2. QED
        BY <1>1, <2>1, <3>2, <3>3, <4>1, HeaderFacts DEF DataInv, IsPiece, SendHeader, receiver, TypeOK
    <3>4. CASE rpc \in {"header", "payload", "ack"}
      <4>1. ~Repeats /\ Taken + Len(data) + 1 = sheader /\ packet = index
        BY <3>4, HeaderFacts DEF DistanceInv, Current, Behind, Refused, SendHeader, PlaceInv, Gone,
           Sent, Taken, TypeOK
      <4>2. Repeats' = Repeats /\ Taken' = Taken
        BY <1>1 DEF Repeats, Taken, SendHeader, receiver
      <4>5. Taken \in Nat
        BY HeaderFacts DEF Taken, TypeOK, PlaceInv
      <4>3. IsPiece(m, index, Taken + (Len(data) + 1))
        BY <2>1, <3>2, <4>1, <4>5, HeaderFacts DEF IsPiece, TypeOK
      <4>4. \A k \in DOMAIN data : IsPiece(data[k], index, Taken + k)
        BY <3>4, <4>1 DEF DataInv
      <4>6. \A k \in DOMAIN data' : IsPiece(data'[k], index, Taken + k)
        BY <2>1, <3>1, <4>3, <4>4, <4>5, PieceSent DEF TypeOK
      <4>7. rpc' = rpc /\ index' = index
        BY DEF SendHeader, receiver
      <4>8. QED
        BY <1>1, <3>4, <4>1, <4>2, <4>6, <4>7 DEF DataInv, IsPiece
    <3>5. QED
      BY <3>3, <3>4 DEF DataInv, SendHeader, receiver
  <2>4. QED
    BY <2>2, <2>3
<1>6. DistanceInv'
  <2>1. /\ Sent \in Nat /\ Sent' = Sent + 1 /\ Len(data) \in Nat
        /\ "sender" \notin closed /\ spc' \in {"header", "payload"}
    BY <1>1, HeaderFacts DEF Sent, SendHeader, PlaceInv, TypeOK, Gone
  <2>2. /\ rpc' = rpc /\ index' = index /\ rheader' = rheader /\ rstatus' = rstatus
        /\ list' = list /\ acks' = acks /\ closed' = closed
        /\ packet' = packet /\ path' = path /\ num_packets' = num_packets
    BY DEF SendHeader, receiver
  <2>3. Repeats' = Repeats /\ Taken' = Taken
    BY <1>1, <2>2 DEF Repeats, Taken
  <2>4. CASE rpc \in {"num", "header", "payload", "ack"}
    <3>1. Len(data') = Len(data) + 1 /\ data' # <<>>
      <4>1. data' = Append(data, HeaderPiece(packet, sheader)) /\ HeaderPiece(packet, sheader) \in Message
        BY <1>1, <2>4, MessageFacts DEF SendHeader, Transmit, PlaceInv, TypeOK, Gone
      <4>2. QED
        BY <4>1, AppendFacts, EmptySeq DEF TypeOK
    <3>2. CASE rpc = "num"
      BY <2>1, <2>2, <3>1, <3>2 DEF DistanceInv, AtStart, SendHeader
    <3>3. CASE rpc # "num"
      <4>1. Current /\ Len(list) <= packet
        BY <2>1, <2>4, <3>3 DEF DistanceInv, Behind, Refused, SendHeader
      <4>2. Pieces \in Nat /\ Taken \in Nat
        BY HeaderFacts DEF Taken, TypeOK, PlaceInv
      <4>3. Current'
        BY <1>1, <2>1, <2>2, <2>3, <3>1, <4>1, <4>2 DEF Current
      <4>4. QED
        BY <2>1, <2>2, <2>4, <3>3, <4>1, <4>3 DEF DistanceInv
    <3>4. QED
      BY <3>2, <3>3
  <2>5. CASE rpc \notin {"num", "header", "payload", "ack"}
    BY <2>1, <2>2, <2>5 DEF DistanceInv, SendHeader
  <2>6. QED
    BY <2>4, <2>5
<1>7. QED
  BY <1>2, <1>3, <1>4, <1>5, <1>6

\* A payload goes out, damaged or not.
LEMMA SendPayloadKeeps == IInv /\ SendPayload => IInv'
<1> SUFFICES ASSUME IInv, SendPayload PROVE IInv'
  OBVIOUS
<1> USE DEF IInv
<1>1. path' = path /\ Header' = Header /\ Pieces' = Pieces
  BY HeaderFixed DEF SendPayload
<1>8. PICK m \in Message : m.kind = "payload" /\ m.packet = packet /\ Transmit(m)
  <2>1. \A d \in {"none"} \union Damage : Payload(packet, d) \in Message
    BY MessageFacts DEF TypeOK
  <2>2. QED
    BY <2>1 DEF SendPayload, Payload
<1>9. faults' \in Seq(Damage \union {"short", "close"})
  BY FaultFacts DEF SendPayload, TypeOK
<1>2. TypeOK'
  BY <1>8, <1>9, AppendFacts DEF TypeOK, SendPayload, receiver, Gone, Transmit
<1>3. PlaceInv'
  BY <1>1 DEF PlaceInv, SendPayload, receiver, Gone
<1>4. ListInv'
  BY DEF ListInv, Sound, SendPayload, receiver
<1>5. DataInv'
  <2>1. CASE "receiver" \in closed
    BY <2>1 DEF DataInv, PlaceInv, SendPayload, receiver, Gone
  <2>2. CASE "receiver" \notin closed
    <3>1. data' = Append(data, m)
      BY <1>8, <2>2 DEF Transmit
    <3>2. /\ Len(data) \in Nat /\ DOMAIN data = 1 .. Len(data) /\ DOMAIN data' = 1 .. Len(data) + 1
          /\ \A k \in 1 .. Len(data) : data'[k] = data[k]
          /\ data'[Len(data) + 1] = m
      BY <3>1, AppendFacts, LenProperties DEF TypeOK
    <3>3. CASE rpc = "num"
      <4>1. Len(data) = Pieces + 1 /\ packet = 1
        BY <3>3, HeaderFacts DEF DistanceInv, AtStart, SendPayload, PlaceInv, Gone, Sent, TypeOK
      <4>2. /\ IsPiece(m, 1, Pieces + 1)
            /\ \A k \in 1 .. Len(data) : IF k = 1 THEN data[k].kind = "num" ELSE IsPiece(data[k], 1, k - 1)
        BY <1>8, <3>2, <3>3, <4>1, HeaderFacts DEF DataInv, IsPiece
      <4>3. ASSUME NEW k \in 1 .. Len(data) + 1
            PROVE  IF k = 1 THEN data'[k].kind = "num" ELSE IsPiece(data'[k], 1, k - 1)
        <5>1. CASE k \in 1 .. Len(data)
          BY <3>2, <4>2, <5>1
        <5>2. CASE k = Len(data) + 1
          BY <3>2, <4>1, <4>2, <5>2, HeaderFacts DEF TypeOK
        <5>3. QED
          BY <3>2, <5>1, <5>2
      <4>4. QED
        BY <1>1, <3>2, <3>3, <4>3 DEF DataInv, IsPiece, SendPayload, receiver
    <3>4. CASE rpc \in {"header", "payload", "ack"} /\ Repeats
      <4>1. data = <<>>
        BY <3>4, HeaderFacts DEF DistanceInv, Current, Behind, Refused, SendPayload, PlaceInv, Gone,
           Sent, Repeats
      <4>2. rpc' = rpc /\ Repeats' /\ rheader' = 1 /\ Len(data') = 1 /\ DOMAIN data' = 1 .. 1
        BY <1>1, <3>2, <3>4, <4>1 DEF DataInv, Repeats, SendPayload, receiver
      <4>3. data'[1].kind = "payload"
        BY <1>8, <3>2, <4>1
      <4>4. QED
        BY <3>4, <4>2, <4>3 DEF DataInv
    <3>5. CASE rpc \in {"header", "payload", "ack"} /\ ~Repeats
      <4>1. Taken + Len(data) + 1 = Pieces + 1 /\ packet = index
        BY <3>5, HeaderFacts DEF DistanceInv, Current, Behind, Refused, SendPayload, PlaceInv, Gone,
           Sent, Taken, TypeOK
      <4>2. Repeats' = Repeats /\ Taken' = Taken
        BY <1>1 DEF Repeats, Taken, SendPayload, receiver
      <4>5. Taken \in Nat
        BY HeaderFacts DEF Taken, TypeOK, PlaceInv
      <4>3. IsPiece(m, index, Taken + (Len(data) + 1))
        BY <1>8, <3>2, <4>1, <4>5, HeaderFacts DEF IsPiece, TypeOK
      <4>4. \A k \in DOMAIN data : IsPiece(data[k], index, Taken + k)
        BY <3>5 DEF DataInv
      <4>6. \A k \in DOMAIN data' : IsPiece(data'[k], index, Taken + k)
        BY <1>8, <3>1, <4>3, <4>4, <4>5, PieceSent DEF TypeOK
      <4>7. rpc' = rpc /\ index' = index
        BY DEF SendPayload, receiver
      <4>8. QED
        BY <1>1, <3>5, <4>2, <4>6, <4>7 DEF DataInv, IsPiece
    <3>6. QED
      BY <3>3, <3>4, <3>5 DEF DataInv, SendPayload, receiver
  <2>3. QED
    BY <2>1, <2>2
<1>6. DistanceInv'
  <2>1. CASE "receiver" \in closed
    BY <1>1, <1>8, <2>1, HeaderFacts DEF DistanceInv, PlaceInv, SendPayload, receiver, Gone, Transmit, TypeOK
  <2>2. CASE "receiver" \notin closed
    <3>1. data' = Append(data, m) /\ Len(data') = Len(data) + 1 /\ Len(data) \in Nat
      BY <1>8, <2>2, AppendFacts, LenProperties DEF Transmit, TypeOK
    <3>2. CASE rpc = "num"
      BY <1>1, <3>1, <3>2, HeaderFacts DEF DistanceInv, AtStart, PlaceInv, TypeOK, Sent,
         SendPayload, receiver
    <3>3. CASE rpc \in {"header", "payload", "ack"}
      <4>1. Current
        BY <3>3, HeaderFacts DEF DistanceInv, Behind, Refused, PlaceInv, SendPayload, Gone
      <4>2. Current'
        BY <1>1, <3>1, <4>1, HeaderFacts DEF Current, Sent, Taken, Repeats, SendPayload, receiver, TypeOK
      <4>3. QED
        BY <3>3, <4>2 DEF DistanceInv, PlaceInv, TypeOK, SendPayload, receiver, Gone
    <3>4. CASE rpc \in {"null", "undefined", "done"}
      BY <3>4 DEF DistanceInv, PlaceInv, TypeOK, SendPayload, receiver, Gone
    <3>5. CASE rpc \in Gone
      BY <3>5 DEF DistanceInv, SendPayload, receiver, Gone
    <3>6. QED
      BY <3>2, <3>3, <3>4, <3>5 DEF TypeOK
  <2>3. QED
    BY <2>1, <2>2
<1>7. QED
  BY <1>2, <1>3, <1>4, <1>5, <1>6

\* The sender reads an answer.
LEMMA ReceiveAckKeeps == IInv /\ ReceiveAck => IInv'
<1> SUFFICES ASSUME IInv, ReceiveAck PROVE IInv'
  OBVIOUS
<1> USE DEF IInv
<1>1. path' = path /\ Header' = Header /\ Pieces' = Pieces
  BY HeaderFixed DEF ReceiveAck
<1>2. TypeOK'
  BY DEF TypeOK, ReceiveAck, receiver, ActOnStatus, SenderTurnsTo
<1>3. PlaceInv'
  BY <1>1, HeaderFacts DEF PlaceInv, TypeOK, ReceiveAck, receiver, Gone, ActOnStatus, SenderTurnsTo
<1>4. ListInv'
  BY DEF ListInv, Sound, ReceiveAck, receiver
<1>5. DataInv'
  BY <1>1 DEF DataInv, IsPiece, Taken, Repeats, ReceiveAck, receiver
<1>6. DistanceInv'
  <2>1. "sender" \notin closed /\ spc = "ack" /\ acks # <<>> /\ closed' = closed
    BY DEF ReceiveAck, PlaceInv, Gone
  <2>2. rpc' = rpc /\ index' = index /\ rheader' = rheader /\ rstatus' = rstatus /\ list' = list /\ data' = data
    BY DEF ReceiveAck, receiver
  <2>3. packet' \in {packet, packet + 1}
    BY DEF ReceiveAck, ActOnStatus, SenderTurnsTo
  <2>4. rpc \notin {"num", "null"}
    BY <2>1 DEF DistanceInv, AtStart
  <2>10. CASE rpc = "undefined"
    <3>1. packet = index - 1 /\ acks = <<"OK">>
      BY <2>1, <2>10 DEF DistanceInv
    <3>2. Head(acks) = "OK" /\ Tail(acks) = <<>>
      BY <3>1
    <3>3. packet + 1 <= num_packets
      BY <3>1 DEF TypeOK
    <3>4. spc' = "header" /\ packet' = index /\ acks' = <<>>
      BY <3>1, <3>2, <3>3 DEF ReceiveAck, ActOnStatus, SenderTurnsTo, TypeOK
    <3>5. QED
      BY <2>1, <2>2, <2>3, <2>10, <3>1, <3>4 DEF DistanceInv, TypeOK
  <2>5. CASE rpc \in {"header", "payload", "ack"} /\ Behind
    <3>1. Head(acks) = "OK" /\ Tail(acks) = <<>>
      BY <2>5 DEF Behind
    <3>2. packet + 1 <= num_packets
      BY <2>5 DEF Behind, TypeOK
    <3>3. spc' = "header" /\ packet' = index /\ sheader' = 1 /\ acks' = <<>>
      BY <2>5, <3>1, <3>2 DEF ReceiveAck, ActOnStatus, SenderTurnsTo, Behind, TypeOK
    <3>4. Current'
      BY <1>1, <2>2, <2>5, <3>3, HeaderFacts DEF Current, Behind, Sent, Taken, Repeats
    <3>5. QED
      BY <2>1, <2>2, <2>3, <2>5, <3>3, <3>4 DEF DistanceInv, TypeOK
  <2>6. CASE rpc \in {"header", "payload", "ack"} /\ Refused
    <3>1. Head(acks) = "FAIL" /\ Tail(acks) = <<>>
      BY <2>6 DEF Refused
    <3>2. spc' = "payload" /\ packet' = index /\ acks' = <<>>
      BY <2>6, <3>1 DEF ReceiveAck, ActOnStatus, Refused
    <3>3. Current'
      BY <1>1, <2>2, <2>6, <3>2, HeaderFacts DEF Current, Refused, RetryAt, Sent, Taken, Repeats, TypeOK
    <3>4. QED
      BY <2>1, <2>2, <2>3, <2>6, <3>2, <3>3 DEF DistanceInv, Refused, TypeOK
  <2>7. CASE rpc = "done"
    BY <2>1, <2>2, <2>7 DEF DistanceInv, ReceiveAck, ActOnStatus, SenderTurnsTo, TypeOK
  <2>8. CASE rpc \in Gone
    BY <2>1, <2>2, <2>3, <2>8 DEF DistanceInv, Gone, TypeOK
  <2>9. QED
    BY <2>1, <2>4, <2>5, <2>6, <2>7, <2>8, <2>10 DEF DistanceInv, Current, TypeOK
<1>7. QED
  BY <1>2, <1>3, <1>4, <1>5, <1>6

\* The sender reads the end of file in place of an answer.
LEMMA AckEndOfFileKeeps == IInv /\ AckEndOfFile => IInv'
<1> SUFFICES ASSUME IInv, AckEndOfFile PROVE IInv'
  OBVIOUS
<1> USE DEF IInv
<1>1. path' = path /\ Header' = Header /\ Pieces' = Pieces
  BY HeaderFixed DEF AckEndOfFile
<1>2. TypeOK'
  BY DEF TypeOK, AckEndOfFile, receiver, ActOnStatus, SenderTurnsTo
<1>3. PlaceInv'
  BY <1>1, HeaderFacts DEF PlaceInv, TypeOK, AckEndOfFile, receiver, Gone, ActOnStatus,
     SenderTurnsTo
<1>4. ListInv'
  BY DEF ListInv, Sound, AckEndOfFile, receiver
<1>5. DataInv'
  BY <1>1 DEF DataInv, IsPiece, Taken, Repeats, AckEndOfFile, receiver
<1>6. DistanceInv'
  BY DEF DistanceInv, PlaceInv, TypeOK, AckEndOfFile, receiver, Gone, ActOnStatus, SenderTurnsTo
<1>7. QED
  BY <1>2, <1>3, <1>4, <1>5, <1>6

\* The sender ends.
LEMMA SenderDiesKeeps == IInv /\ SenderDies => IInv'
<1> SUFFICES ASSUME IInv, SenderDies PROVE IInv'
  OBVIOUS
<1> USE DEF IInv
<1>1. path' = path /\ Header' = Header /\ Pieces' = Pieces
  BY HeaderFixed DEF SenderDies
<1>2. TypeOK'
  BY <1>1, HeaderFacts, MessageFacts DEF TypeOK, PlaceInv, ListInv, SenderDies, sender, receiver, Gone
<1>3. PlaceInv'
  BY <1>1, HeaderFacts DEF PlaceInv, TypeOK, SenderDies, sender, receiver, Gone
<1>4. ListInv'
  BY DEF ListInv, Sound, SenderDies, receiver
<1>5. DataInv'
  BY <1>1 DEF DataInv, IsPiece, Taken, Repeats, SenderDies, receiver
<1>6. DistanceInv'
  BY DEF DistanceInv, AtStart, Current, Behind, Refused, Ended, SenderDies, receiver
<1>7. QED
  BY <1>2, <1>3, <1>4, <1>5, <1>6

\* The receiver reads the number of packets.
LEMMA ReceiveNumKeeps == IInv /\ ReceiveNum => IInv'
<1> SUFFICES ASSUME IInv, ReceiveNum PROVE IInv'
  OBVIOUS
<1> USE DEF IInv
<1>1. path' = path /\ Header' = Header /\ Pieces' = Pieces
  BY HeaderFixed DEF ReceiveNum
<1>8. /\ Tail(data) \in Seq(Message) /\ Len(data) \in Nat /\ Len(data) >= 1
      /\ Head(data) = data[1] /\ Head(data) \in Message /\ DOMAIN data = 1 .. Len(data)
      /\ Len(Tail(data)) = Len(data) - 1 /\ DOMAIN Tail(data) = 1 .. Len(data) - 1
      /\ \A k \in 1 .. Len(data) - 1 : Tail(data)[k] = data[k + 1]
  BY TailFacts, LenProperties DEF ReceiveNum, TypeOK
<1>2. TypeOK'
  <2>1. /\ rpc' \in {"header", "done", "crashed"} /\ closed' \in {closed, closed \union {"receiver"}}
        /\ index' \in 0 .. num_packets /\ rheader' \in 0 .. 3
    BY DEF TypeOK, ReceiveNum, ReceiverTurnsTo, ReceiverEnds
  <2>2. QED
    BY <1>8, <2>1 DEF TypeOK, ReceiveNum, sender, Gone
<1>3. PlaceInv'
  BY <1>1, HeaderFacts DEF PlaceInv, TypeOK, ReceiveNum, sender, Gone, ReceiverTurnsTo, ReceiverEnds
<1>4. ListInv'
  BY DEF ListInv, TypeOK, ReceiveNum, ReceiverTurnsTo
<1>5. DataInv'
  <2>1. CASE rpc' = "header"
    <3>1. rheader' = 1 /\ index' = 1 /\ ~Repeats' /\ Taken' = 0 /\ data' = Tail(data)
      BY <2>1 DEF ReceiveNum, ReceiverTurnsTo, ReceiverEnds, Repeats, Taken, DataInv
    <3>2. \A k \in 1 .. Len(data) : IF k = 1 THEN data[k].kind = "num" ELSE IsPiece(data[k], 1, k - 1)
      BY <1>8 DEF DataInv, ReceiveNum
    <3>3. ASSUME NEW k \in 1 .. Len(data) - 1
          PROVE  IsPiece(data'[k], 1, 0 + k)
      <4>1. IsPiece(data[k + 1], 1, (k + 1) - 1) /\ (k + 1) - 1 = 0 + k
        BY <1>8, <3>2
      <4>2. QED
        BY <1>8, <3>1, <4>1
    <3>4. QED
      BY <1>1, <1>8, <2>1, <3>1, <3>3 DEF DataInv, IsPiece
  <2>2. CASE rpc' \in {"done", "crashed"}
    BY <2>2 DEF DataInv
  <2>3. QED
    BY <2>1, <2>2 DEF ReceiveNum, ReceiverTurnsTo, ReceiverEnds
<1>6. DistanceInv'
  BY <1>1, HeaderFacts DEF DistanceInv, AtStart, Current, Ended, DataInv, TypeOK, Sent, Taken,
     Repeats, ReceiveNum, sender, ReceiverTurnsTo
<1>7. QED
  BY <1>2, <1>3, <1>4, <1>5, <1>6

\* There is no message.
LEMMA NumEndOfFileKeeps == IInv /\ NumEndOfFile => IInv'
<1> SUFFICES ASSUME IInv, NumEndOfFile PROVE IInv'
  OBVIOUS
<1> USE DEF IInv
<1>1. path' = path /\ Header' = Header /\ Pieces' = Pieces
  BY HeaderFixed DEF NumEndOfFile
<1>2. TypeOK'
  BY <1>1, HeaderFacts, MessageFacts DEF TypeOK, PlaceInv, ListInv, NumEndOfFile, sender, receiver, Gone
<1>3. PlaceInv'
  BY <1>1, HeaderFacts DEF PlaceInv, TypeOK, NumEndOfFile, sender, receiver, Gone
<1>4. ListInv'
  BY DEF ListInv, NumEndOfFile
<1>5. DataInv'
  BY DEF DataInv, NumEndOfFile
<1>6. DistanceInv'
  BY DEF DistanceInv, NumEndOfFile, sender
<1>7. QED
  BY <1>2, <1>3, <1>4, <1>5, <1>6

\* The receiver reads a size, or what is none.
LEMMA ReceiveHeaderKeeps == IInv /\ ReceiveHeader => IInv'
<1> SUFFICES ASSUME IInv, ReceiveHeader PROVE IInv'
  OBVIOUS
<1> USE DEF IInv
<1>1. path' = path /\ Header' = Header /\ Pieces' = Pieces
  BY HeaderFixed DEF ReceiveHeader
<1>8. /\ Tail(data) \in Seq(Message) /\ Len(data) \in Nat /\ Len(data) >= 1
      /\ Head(data) = data[1] /\ Head(data) \in Message /\ DOMAIN data = 1 .. Len(data)
      /\ Len(Tail(data)) = Len(data) - 1 /\ DOMAIN Tail(data) = 1 .. Len(data) - 1
      /\ \A k \in 1 .. Len(data) - 1 : Tail(data)[k] = data[k + 1]
  BY TailFacts, LenProperties DEF ReceiveHeader, TypeOK
<1>9. IF Repeats THEN rpc' = "undefined" /\ UNCHANGED <<rheader, data>>
                 ELSE /\ data' = Tail(data) /\ rheader' = rheader + 1
                      /\ rpc' = IF rheader = Pieces THEN "payload" ELSE "header"
  <2>1. CASE Repeats
    <3>1. Head(data).kind = "payload"
      BY <1>8, <2>1 DEF DataInv, ReceiveHeader
    <3>2. QED
      BY <2>1, <3>1, HeaderFacts DEF ReceiveHeader, PlaceInv, TypeOK
  <2>2. CASE ~Repeats
    <3>1. IsPiece(data[1], index, Taken + 1) /\ Taken + 1 = rheader
      BY <1>8, <2>2 DEF DataInv, ReceiveHeader, Taken, TypeOK
    <3>2. Head(data).kind = Header[rheader]
      BY <1>8, <3>1, HeaderFacts DEF IsPiece, ReceiveHeader, PlaceInv, TypeOK
    <3>3. QED
      BY <2>2, <3>2, HeaderFacts DEF ReceiveHeader, TypeOK
  <2>3. QED
    BY <2>1, <2>2
<1>2. TypeOK'
  <2>1. /\ rpc' \in {"header", "payload", "undefined"} /\ rheader' \in 0 .. 3 /\ data' \in Seq(Message)
    <3>1. rheader \in 1 .. Pieces /\ Pieces \in 1 .. 2 /\ data \in Seq(Message)
      BY HeaderFacts DEF PlaceInv, ReceiveHeader, TypeOK
    <3>2. CASE Repeats
      BY <1>9, <3>1, <3>2
    <3>3. CASE ~Repeats
      BY <1>8, <1>9, <3>1, <3>3
    <3>4. QED
      BY <3>2, <3>3
  <2>2. QED
    BY <2>1 DEF TypeOK, ReceiveHeader, sender
<1>3. PlaceInv'
  BY <1>1, HeaderFacts DEF PlaceInv, TypeOK, ReceiveHeader, sender, receiver, Gone
<1>4. ListInv'
  BY DEF ListInv, Sound, ReceiveHeader, Gone
<1>5. DataInv'
  <2>1. CASE Repeats
    BY <1>9, <2>1 DEF DataInv
  <2>2. CASE ~Repeats
    <3>1. /\ rpc' \in {"header", "payload"} /\ ~Repeats' /\ index' = index
          /\ Taken' = Taken + 1 /\ Taken \in Nat
      BY <1>1, <1>9, <2>2, HeaderFacts DEF Repeats, Taken, ReceiveHeader, PlaceInv, TypeOK
    <3>2. \A k \in DOMAIN data : IsPiece(data[k], index, Taken + k)
      BY <2>2 DEF DataInv, ReceiveHeader
    <3>3. \A k \in DOMAIN Tail(data) : IsPiece(Tail(data)[k], index, (Taken + 1) + k)
      BY <3>1, <3>2, PieceTaken DEF ReceiveHeader, TypeOK
    <3>4. QED
      BY <1>1, <1>9, <2>2, <3>1, <3>3 DEF DataInv, IsPiece
  <2>3. QED
    BY <2>1, <2>2
<1>6. DistanceInv'
  <2>1. /\ rpc = "header" /\ spc' = spc /\ packet' = packet /\ index' = index /\ acks' = acks
        /\ closed' = closed /\ list' = list /\ rstatus' = rstatus /\ sheader' = sheader
    BY DEF ReceiveHeader, sender
  <2>2. spc # "done" /\ IF "sender" \in closed THEN packet = index ELSE Current
    BY <1>8, <2>1 DEF DistanceInv, Ended, Behind, Refused
  <2>3. CASE Repeats
    BY <1>8, <1>9, <2>1, <2>2, <2>3, HeaderFacts DEF DistanceInv, Current, Sent, PlaceInv, TypeOK
  <2>4. CASE ~Repeats
    <3>1. "sender" \notin closed => Current'
      <4>1. Taken' = Taken + 1 /\ Taken \in Nat /\ ~Repeats'
        BY <1>1, <1>9, <2>1, <2>4, HeaderFacts DEF Repeats, Taken, PlaceInv, TypeOK
      <4>2. Sent' = Sent /\ Sent \in Int
        BY <1>1, <2>1, HeaderFacts DEF Sent, TypeOK
      <4>3. QED
        BY <1>8, <1>9, <2>1, <2>2, <2>4, <4>1, <4>2 DEF Current
    <3>2. QED
      BY <1>9, <2>1, <2>2, <2>4, <3>1 DEF DistanceInv, Ended
  <2>5. QED
    BY <2>3, <2>4
<1>7. QED
  BY <1>2, <1>3, <1>4, <1>5, <1>6

\* The end of file in place of a size.
LEMMA HeaderEndOfFileKeeps == IInv /\ HeaderEndOfFile => IInv'
<1> SUFFICES ASSUME IInv, HeaderEndOfFile PROVE IInv'
  OBVIOUS
<1> USE DEF IInv
<1>1. path' = path /\ Header' = Header /\ Pieces' = Pieces
  BY HeaderFixed DEF HeaderEndOfFile
<1>2. TypeOK'
  BY <1>1, HeaderFacts, MessageFacts DEF TypeOK, PlaceInv, ListInv, HeaderEndOfFile, sender, receiver, Gone
<1>3. PlaceInv'
  BY <1>1, HeaderFacts DEF PlaceInv, TypeOK, HeaderEndOfFile, sender, receiver, Gone
<1>4. ListInv'
  BY DEF ListInv, Sound, HeaderEndOfFile, Gone
<1>5. DataInv'
  BY DEF DataInv, Repeats, HeaderEndOfFile
<1>6. DistanceInv'
  BY DEF DistanceInv, Ended, HeaderEndOfFile, sender
<1>7. QED
  BY <1>2, <1>3, <1>4, <1>5, <1>6

\* What the receiver takes for a payload is the one of the packet it is at.
LEMMA HeadIsPacket ==
  ASSUME IInv, rpc = "payload", data # <<>>
  PROVE  Head(data).packet = index /\ ~Repeats /\ Taken = Pieces /\ Pieces \in Nat
<1>1. ~Repeats /\ Taken = Pieces /\ Pieces \in Nat
  BY HeaderFacts DEF IInv, Repeats, Taken, TypeOK
<1>2. Head(data) = data[1] /\ DOMAIN data = 1 .. Len(data) /\ Len(data) \in Nat /\ Len(data) >= 1
  BY TailFacts, LenProperties DEF IInv, TypeOK
<1>3. IsPiece(data[1], index, Pieces + 1)
  BY <1>1, <1>2 DEF IInv, DataInv
<1>4. QED
  BY <1>1, <1>2, <1>3 DEF IsPiece

\* The receiver takes packet m for the payload that it waits for.
LEMMA PayloadTakenKeeps ==
  ASSUME IInv, rpc = "payload", data # <<>>, data' = Tail(data),
         NEW m \in Message, m.packet = index, TakePacket(m),
         faults' \in Seq(Damage \union {"short", "close"}),
         UNCHANGED <<num_packets, path, sender, index, rheader, acks>>
  PROVE  IInv'
<1> USE DEF IInv
<1>1. path' = path /\ Header' = Header /\ Pieces' = Pieces
  BY HeaderFixed
<1>8. /\ Tail(data) \in Seq(Message) /\ Len(data) \in Nat /\ Len(data) >= 1
      /\ DOMAIN data = 1 .. Len(data)
      /\ Len(Tail(data)) = Len(data) - 1 /\ DOMAIN Tail(data) = 1 .. Len(data) - 1
      /\ \A k \in 1 .. Len(data) - 1 : Tail(data)[k] = data[k + 1]
  BY TailFacts, LenProperties DEF TypeOK
<1>9. ~Repeats /\ Taken = Pieces /\ Pieces \in Nat
  BY HeadIsPacket
<1>10. /\ ListInv' /\ list' \in Seq(Message) /\ Len(list') <= index
       /\ rstatus' \in {"unset", "OK", "FAIL"}
       /\ \/ rpc' = "ack" /\ closed' = closed
          \/ rpc' = "crashed" /\ closed' = closed \union {"receiver"}
  BY PacketTaken
<1>2. TypeOK'
  BY <1>8, <1>10 DEF TypeOK, sender, Gone
<1>3. PlaceInv'
  BY <1>1 DEF PlaceInv, sender, Gone, TakePacket, ReceiverEnds
<1>4. ListInv'
  BY <1>10
<1>5. DataInv'
  <2>1. CASE rpc' = "crashed"
    BY <2>1 DEF DataInv
  <2>2. CASE rpc' = "ack"
    <3>1. ~Repeats' /\ Taken' = Pieces + 1 /\ index' = index /\ data' = Tail(data)
      BY <1>1, <2>2 DEF Repeats, Taken
    <3>2. \A k \in DOMAIN data : IsPiece(data[k], index, Pieces + k)
      BY <1>9 DEF DataInv
    <3>3. \A k \in DOMAIN Tail(data) : IsPiece(Tail(data)[k], index, (Pieces + 1) + k)
      BY <1>9, <3>2, PieceTaken DEF TypeOK
    <3>4. QED
      BY <1>1, <2>2, <3>1, <3>3 DEF DataInv, IsPiece
  <2>3. QED
    BY <1>10, <2>1, <2>2
<1>6. DistanceInv'
  <2>1. /\ rpc = "payload" /\ spc' = spc /\ packet' = packet /\ index' = index /\ acks' = acks
        /\ data' = Tail(data) /\ sheader' = sheader
    BY DEF ReceivePayload, sender
  <2>2. spc # "done" /\ IF "sender" \in closed THEN packet = index ELSE Current
    BY <1>8, <2>1 DEF DistanceInv, Ended, Behind, Refused
  <2>3. CASE rpc' = "crashed"
    BY <1>10, <2>1, <2>2, <2>3 DEF DistanceInv, Current
  <2>4. CASE rpc' = "ack"
    <3>1. "sender" \notin closed => Current'
      BY <1>1, <1>8, <1>9, <2>1, <2>2, <2>4, HeaderFacts DEF Current, Sent, Taken, Repeats, PlaceInv, TypeOK
    <3>2. QED
      BY <1>10, <2>1, <2>2, <2>4, <3>1 DEF DistanceInv, Ended, Current
  <2>5. QED
    BY <1>10, <2>3, <2>4
<1>7. QED
  BY <1>2, <1>3, <1>4, <1>5, <1>6

\* The receiver reads a payload.
LEMMA ReceivePayloadKeeps == IInv /\ ReceivePayload => IInv'
<1> SUFFICES ASSUME IInv, ReceivePayload PROVE IInv'
  OBVIOUS
<1>1. Head(data) \in Message /\ Head(data).packet = index
  BY TailFacts, HeadIsPacket DEF ReceivePayload, IInv, TypeOK
<1>2. faults' \in Seq(Damage \union {"short", "close"})
  BY DEF ReceivePayload, IInv, TypeOK
<1>3. QED
  BY <1>1, <1>2, PayloadTakenKeeps DEF ReceivePayload

\* The receiver reads a part of a payload.
LEMMA ShortPayloadKeeps == IInv /\ ShortPayload => IInv'
<1> SUFFICES ASSUME IInv, ShortPayload PROVE IInv'
  OBVIOUS
<1>1. faults' \in Seq(Damage \union {"short", "close"})
  BY FaultFacts DEF ShortPayload, IInv, TypeOK
<1>2. CASE TakePacket(Payload(Head(data).packet, "rest")) /\ data' = Tail(data)
  <2>1. Head(data).packet = index
    BY HeadIsPacket DEF ShortPayload
  <2>2. Payload(index, "rest") \in Message /\ Payload(index, "rest").packet = index
    BY MessageFacts DEF IInv, TypeOK, Payload
  <2>3. QED
    BY <1>1, <1>2, <2>1, <2>2, PayloadTakenKeeps DEF ShortPayload
<1>3. CASE /\ \/ rpc' = "undefined" /\ closed' = closed
              \/ rpc' = "crashed" /\ closed' = closed \union {"receiver"}
           /\ UNCHANGED <<rstatus, list, data>>
  <2> USE DEF IInv
  <2>1. path' = path /\ Header' = Header /\ Pieces' = Pieces
    BY HeaderFixed DEF ShortPayload
  <2>2. TypeOK'
    BY <1>1, <1>3 DEF TypeOK, ShortPayload, sender, Gone
  <2>3. PlaceInv'
    BY <1>3, <2>1 DEF PlaceInv, ShortPayload, sender, Gone
  <2>4. ListInv'
    BY <1>3 DEF ListInv, Sound, ShortPayload, Gone
  <2>5. DataInv'
    BY <1>3 DEF DataInv
  <2>6. DistanceInv'
    <3>1. /\ rpc = "payload" /\ Len(data) \in Nat /\ Len(data) >= 1
          /\ spc' = spc /\ packet' = packet /\ index' = index /\ acks' = acks /\ list' = list
      BY <1>3, EmptySeq, LenProperties DEF ShortPayload, sender, TypeOK
    <3>2. spc # "done" /\ IF "sender" \in closed THEN packet = index ELSE Current
      BY <3>1 DEF DistanceInv, Ended, Behind, Refused, ShortPayload
    <3>3. "sender" \notin closed => packet = index /\ spc # "num" /\ acks = <<>>
      BY <3>1, <3>2 DEF Current
    <3>4. QED
      BY <1>3, <3>1, <3>2, <3>3 DEF DistanceInv
  <2>7. QED
    BY <2>2, <2>3, <2>4, <2>5, <2>6
<1>4. QED
  BY <1>2, <1>3 DEF ShortPayload, ReceiverEnds

\* The end of file in place of a payload.
LEMMA PayloadEndOfFileKeeps == IInv /\ PayloadEndOfFile => IInv'
<1> SUFFICES ASSUME IInv, PayloadEndOfFile PROVE IInv'
  OBVIOUS
<1> USE DEF IInv
<1>1. path' = path /\ Header' = Header /\ Pieces' = Pieces
  BY HeaderFixed DEF PayloadEndOfFile
<1>8. /\ rpc = "payload" /\ data = <<>> /\ "sender" \in closed /\ index' = index /\ data' = data
      /\ spc' = spc /\ packet' = packet /\ acks' = acks
  BY DEF PayloadEndOfFile, sender
<1>9. \/ rpc' = "undefined" /\ UNCHANGED <<rstatus, list, closed>>
      \/ rstatus = "FAIL" /\ TakePacket(Payload(index, "data"))
      \/ ReceiverEnds("crashed") /\ UNCHANGED <<rstatus, list>>
  BY DEF PayloadEndOfFile
<1>10. /\ ListInv' /\ list' \in Seq(Message) /\ Len(list') <= packet
       /\ rstatus' \in {"unset", "OK", "FAIL"}
       /\ \/ rpc' = "ack" /\ closed' = closed /\ packet = index
          \/ rpc' = "undefined" /\ closed' = closed
          \/ rpc' = "crashed" /\ closed' = closed \union {"receiver"}
  <2>1. CASE rpc' = "undefined" /\ UNCHANGED <<rstatus, list, closed>>
    BY <1>8, <2>1 DEF ListInv, Sound, TypeOK, DistanceInv, PayloadEndOfFile, Gone
  <2>2. CASE rstatus = "FAIL" /\ TakePacket(Payload(index, "data"))
    <3>1. Payload(index, "data") \in Message /\ Payload(index, "data").packet = index
      BY MessageFacts DEF TypeOK, Damage, Payload
    <3>2. packet = index
      BY <1>8, <2>2 DEF DistanceInv, Ended
    <3>3. QED
      BY <1>8, <2>2, <3>1, <3>2, PacketTaken
  <2>3. CASE ReceiverEnds("crashed") /\ UNCHANGED <<rstatus, list>>
    BY <1>8, <2>3 DEF ListInv, Sound, TypeOK, DistanceInv, ReceiverEnds, PayloadEndOfFile, Gone
  <2>4. QED
    BY <1>9, <2>1, <2>2, <2>3
<1>2. TypeOK'
  BY <1>10 DEF TypeOK, PayloadEndOfFile, sender, Gone
<1>3. PlaceInv'
  BY <1>1, <1>8, <1>10 DEF PlaceInv, PayloadEndOfFile, sender, Gone
<1>4. ListInv'
  BY <1>10
<1>5. DataInv'
  BY <1>8, <1>10 DEF DataInv, Repeats
<1>6. DistanceInv'
  BY <1>8, <1>10 DEF DistanceInv, Ended
<1>7. QED
  BY <1>2, <1>3, <1>4, <1>5, <1>6

\* The receiver answers.
LEMMA SendAckKeeps == IInv /\ SendAck => IInv'
<1> SUFFICES ASSUME IInv, SendAck PROVE IInv'
  OBVIOUS
<1> USE DEF IInv
<1>1. path' = path /\ Header' = Header /\ Pieces' = Pieces
  BY HeaderFixed DEF SendAck
<1>8. /\ Len(list) \in Nat /\ Len(list) = index /\ list # <<>> /\ DOMAIN list = 1 .. index
      /\ Last(list) = list[index] /\ Last(list) \in Message
      /\ Front(list) \in Seq(Message) /\ DOMAIN Front(list) = 1 .. index - 1
      /\ Len(Front(list)) = index - 1
      /\ \A n \in 1 .. index - 1 : Front(list)[n] = list[n] /\ Sound(n)
  <2>1. Len(list) = index /\ index >= 1 /\ rpc = "ack"
    BY DEF ListInv, PlaceInv, SendAck
  <2>2. list # <<>> /\ DOMAIN list = 1 .. index
    BY <2>1, EmptySeq, LenProperties DEF TypeOK
  <2>3. /\ Last(list) = list[index] /\ Last(list) \in Message
        /\ Front(list) \in Seq(Message) /\ DOMAIN Front(list) = 1 .. index - 1
        /\ Len(Front(list)) = index - 1
        /\ \A n \in 1 .. index - 1 : Front(list)[n] = list[n]
    BY <2>1, <2>2, FrontFacts DEF TypeOK
  <2>4. \A n \in 1 .. index - 1 : Sound(n)
    BY <2>1, <2>2 DEF TypeOK, ListInv
  <2>5. QED
    BY <2>1, <2>2, <2>3, <2>4 DEF TypeOK
<1>9. data = <<>> /\ ~Repeats
  <2>1. \A k \in DOMAIN data : IsPiece(data[k], index, Pieces + 1 + k)
    BY DEF DataInv, Repeats, Taken, SendAck
  <2>2. Len(data) \in Nat /\ DOMAIN data = 1 .. Len(data)
    BY LenProperties DEF TypeOK
  <2>3. 1 \notin DOMAIN data
    BY <2>1, HeaderFacts DEF IsPiece, TypeOK
  <2>4. Len(data) = 0
    BY <2>2, <2>3
  <2>5. QED
    BY <2>4, EmptySeq DEF TypeOK, SendAck, Repeats
<1>10. IF "sender" \in closed THEN packet = index
                              ELSE packet = index /\ acks = <<>> /\ spc = "ack"
  BY <1>9, HeaderFacts DEF DistanceInv, Ended, Current, Behind, Refused, RetryAt, Sent, Taken,
     PlaceInv, SendAck, TypeOK
<1>11. rstatus \in {"OK", "FAIL"} /\ rstatus = IF list[index].damage = "data" THEN "FAIL" ELSE "OK"
  BY DEF ListInv, SendAck
<1>12. acks' = IF "sender" \in closed THEN acks ELSE <<rstatus>>
  <2>1. Append(<<>>, rstatus) = <<rstatus>>
    OBVIOUS
  <2>2. QED
    BY <1>10, <2>1 DEF SendAck, Answer
<1>13. \/ rstatus = "FAIL" /\ rpc' = RetryAt /\ rheader' = 1 /\ list' = Front(list)
          /\ UNCHANGED <<index, closed>>
       \/ /\ rstatus = "OK" /\ list' = list
          /\ \/ rpc' = "header" /\ index' = index + 1 /\ index + 1 <= num_packets
                /\ rheader' = 1 /\ closed' = closed
             \/ rpc' = "done" /\ Len(list) = num_packets /\ UNCHANGED <<index, rheader, closed>>
             \/ rpc' = "undefined" /\ index' = index + 1 /\ index + 1 <= num_packets
                /\ rheader' = 1 /\ closed' = closed
             \/ rpc' = "crashed" /\ closed' = closed \union {"receiver"}
                /\ UNCHANGED <<index, rheader>>
  BY <1>11 DEF SendAck, GoesOnAfter, ReceiverTurnsTo, ReceiverEnds, TypeOK
<1>14. /\ rpc = "ack" /\ spc' = spc /\ packet' = packet /\ rstatus' = rstatus /\ data' = data
       /\ sheader' = sheader /\ num_packets' = num_packets
  BY DEF SendAck, sender
<1>2. TypeOK'
  <2>1. acks' \in Seq({"OK", "FAIL"})
    <3>1. <<rstatus>> \in Seq({"OK", "FAIL"})
      BY <1>11
    <3>2. QED
      BY <1>12, <3>1 DEF TypeOK
  <2>2. list' \in Seq(Message) /\ index' \in 0 .. num_packets /\ rheader' \in 0 .. 3
    BY <1>8, <1>13 DEF TypeOK
  <2>3. /\ rpc' \in {"header", "payload", "done", "undefined", "crashed"}
        /\ closed' \in {closed, closed \union {"receiver"}}
    BY <1>13 DEF RetryAt
  <2>4. QED
    BY <2>1, <2>2, <2>3 DEF TypeOK, SendAck, sender, Gone
<1>3. PlaceInv'
  BY <1>1, HeaderFacts DEF PlaceInv, TypeOK, SendAck, sender, Gone, RetryAt, GoesOnAfter,
     ReceiverTurnsTo, ReceiverEnds
<1>4. ListInv'
  <2>1. CASE rstatus = "FAIL"
    BY <1>8, <1>13, <1>14, <2>1 DEF ListInv, Sound, Gone, RetryAt, TypeOK
  <2>2. CASE rstatus = "OK"
    <3>1. \A n \in 1 .. index : Sound(n)
      BY <1>8, <1>11, <1>14, <2>2 DEF ListInv, Sound
    <3>2. QED
      BY <1>8, <1>13, <1>14, <2>2, <3>1 DEF ListInv, Sound, Gone, TypeOK
  <2>3. QED
    BY <1>11, <2>1, <2>2
<1>5. DataInv'
  BY <1>9, <1>13, <1>14 DEF DataInv, Repeats, RetryAt
<1>6. DistanceInv'
  <2>1. CASE rstatus = "FAIL"
    BY <1>1, <1>8, <1>9, <1>10, <1>12, <1>13, <1>14, <2>1 DEF DistanceInv, Ended, Refused, RetryAt, TypeOK
  <2>2. CASE rstatus = "OK"
    BY <1>1, <1>8, <1>9, <1>10, <1>12, <1>13, <1>14, <2>2 DEF DistanceInv, Ended, Behind, TypeOK
  <2>3. QED
    BY <1>11, <2>1, <2>2
<1>7. QED
  BY <1>2, <1>3, <1>4, <1>5, <1>6

\* The receiver ends.
LEMMA ReceiverDiesKeeps == IInv /\ ReceiverDies => IInv'
<1> SUFFICES ASSUME IInv, ReceiverDies PROVE IInv'
  OBVIOUS
<1> USE DEF IInv
<1>1. path' = path /\ Header' = Header /\ Pieces' = Pieces
  BY HeaderFixed DEF ReceiverDies
<1>2. TypeOK'
  BY DEF TypeOK, ReceiverDies, sender, Gone, ReceiverEnds
<1>3. PlaceInv'
  BY <1>1, HeaderFacts DEF PlaceInv, TypeOK, ReceiverDies, sender, receiver, Gone, ReceiverEnds
<1>4. ListInv'
  BY DEF ListInv, Sound, ReceiverDies, Gone, ReceiverEnds
<1>5. DataInv'
  BY DEF DataInv, ReceiverDies, ReceiverEnds
<1>6. DistanceInv'
  BY DEF DistanceInv, ReceiverDies, sender, ReceiverEnds
<1>7. QED
  BY <1>2, <1>3, <1>4, <1>5, <1>6

\* The sender goes away.
LEMMA CloseSenderKeeps == IInv /\ CloseSender => IInv'
<1> SUFFICES ASSUME IInv, CloseSender PROVE IInv'
  OBVIOUS
<1> USE DEF IInv
<1>1. path' = path /\ Header' = Header /\ Pieces' = Pieces
  BY HeaderFixed DEF CloseSender
<1>2. TypeOK'
  BY DEF TypeOK, CloseSender, receiver, Gone, Fault
<1>3. PlaceInv'
  BY <1>1, HeaderFacts DEF PlaceInv, TypeOK, CloseSender, sender, receiver, Gone, Fault
<1>4. ListInv'
  BY DEF ListInv, Sound, CloseSender, receiver
<1>5. DataInv'
  BY <1>1 DEF DataInv, IsPiece, Taken, Repeats, CloseSender, receiver
<1>6. DistanceInv'
  BY DEF DistanceInv, AtStart, Current, Behind, Refused, Ended, CloseSender, receiver
<1>7. QED
  BY <1>2, <1>3, <1>4, <1>5, <1>6

\* The receiver goes away.
LEMMA CloseReceiverKeeps == IInv /\ CloseReceiver => IInv'
<1> SUFFICES ASSUME IInv, CloseReceiver PROVE IInv'
  OBVIOUS
<1> USE DEF IInv
<1>1. path' = path /\ Header' = Header /\ Pieces' = Pieces
  BY HeaderFixed DEF CloseReceiver
<1>2. TypeOK'
  BY DEF TypeOK, CloseReceiver, sender, Gone, Fault
<1>3. PlaceInv'
  BY <1>1, HeaderFacts DEF PlaceInv, TypeOK, CloseReceiver, sender, receiver, Gone, Fault
<1>4. ListInv'
  BY DEF ListInv, Sound, CloseReceiver, Gone
<1>5. DataInv'
  BY DEF DataInv, CloseReceiver
<1>6. DistanceInv'
  BY DEF DistanceInv, CloseReceiver, sender
<1>7. QED
  BY <1>2, <1>3, <1>4, <1>5, <1>6

-----------------------------------------------------------------------------

\* The initial states satisfy the invariant.
LEMMA InitIInv == Init => IInv
<1> SUFFICES ASSUME Init PROVE IInv
  OBVIOUS
<1>1. TypeOK
  BY TransferAssumption DEF Init, TypeOK
<1>2. PlaceInv /\ ListInv /\ DataInv
  BY DEF Init, PlaceInv, ListInv, DataInv, Gone
<1>3. DistanceInv
  BY TransferAssumption DEF Init, DistanceInv, AtStart, Gone
<1>4. QED
  BY <1>1, <1>2, <1>3 DEF IInv

\* Every step keeps the invariant.
LEMMA StepIInv == IInv /\ [Next]_vars => IInv'
<1> SUFFICES ASSUME IInv, [Next]_vars PROVE IInv'
  OBVIOUS
<1>1. CASE SenderStep
  BY <1>1, SendNumKeeps, SendHeaderKeeps, SendPayloadKeeps, ReceiveAckKeeps,
     AckEndOfFileKeeps, SenderDiesKeeps DEF SenderStep
<1>2. CASE ReceiverStep
  BY <1>2, ReceiveNumKeeps, NumEndOfFileKeeps, ReceiveHeaderKeeps, HeaderEndOfFileKeeps,
     ReceivePayloadKeeps, ShortPayloadKeeps, PayloadEndOfFileKeeps, SendAckKeeps,
     ReceiverDiesKeeps DEF ReceiverStep
<1>3. CASE CloseSender
  BY <1>3, CloseSenderKeeps
<1>4. CASE CloseReceiver
  BY <1>4, CloseReceiverKeeps
<1>5. CASE UNCHANGED vars
  <2>1. UNCHANGED <<num_packets, path, spc, packet, sheader, sstatus, rpc, index, rheader,
                    rstatus, list, data, acks, closed, faults>>
    BY <1>5 DEF vars, sender, receiver
  <2>2. TypeOK' /\ PlaceInv' /\ ListInv'
    BY <2>1 DEF IInv, TypeOK, PlaceInv, ListInv, Sound, Pieces, Header
  <2>3. DataInv' /\ DistanceInv'
    BY <2>1 DEF IInv, DataInv, DistanceInv, IsPiece, Repeats, AtStart, Current, Behind, Refused,
       Ended, Sent, Taken, Pieces, Header, RetryAt
  <2>4. QED
    BY <2>2, <2>3 DEF IInv
<1>6. QED
  BY <1>1, <1>2, <1>3, <1>4, <1>5 DEF Next, Terminated

\* The two ends are never further apart than the protocol allows, and the list
\* of receive_data is what it has answered for (middle.c:18-86, 178-226, 324-352).
THEOREM Invariance == Spec => []IInv
BY InitIInv, StepIInv, PTL DEF Spec

\* Every variable keeps its type; the sender never leaves its list of packets.
THEOREM TypeCorrect == Spec => []TypeOK
<1>1. IInv => TypeOK
  BY DEF IInv
<1>2. QED
  BY <1>1, Invariance, PTL

-----------------------------------------------------------------------------

\* What has been accepted is the list, but for a packet about to be refused.
AcceptedInv ==
  /\ Len(Accepted) \in Nat /\ DOMAIN Accepted = 1 .. Len(Accepted)
  /\ \A n \in 1 .. Len(Accepted) : Accepted[n] = list[n] /\ Sound(n)
  /\ Len(Accepted) <= Len(list)
  /\ rpc = "ack" => Len(Accepted) = IF rstatus = "FAIL" THEN index - 1 ELSE index
  /\ rpc \notin {"ack"} \union Gone => Len(Accepted) = Len(list)

\* What the list holds, the receiver has accepted.
LEMMA AcceptedIs == IInv => AcceptedInv
<1> SUFFICES ASSUME IInv PROVE AcceptedInv
  OBVIOUS
<1> DEFINE refused == list # <<>> /\ rstatus = "FAIL" /\ Last(list).damage = "data"
<1>1. list \in Seq(Message) /\ Len(list) \in Nat /\ DOMAIN list = 1 .. Len(list)
  BY LenProperties DEF IInv, TypeOK
<1>2. CASE refused
  <2>1. /\ Accepted = Front(list) /\ Last(list) = list[Len(list)] /\ Len(list) >= 1
        /\ Len(Front(list)) = Len(list) - 1 /\ DOMAIN Front(list) = 1 .. Len(list) - 1
        /\ \A n \in 1 .. Len(list) - 1 : Front(list)[n] = list[n]
    BY <1>1, <1>2, FrontFacts DEF Accepted
  <2>2. rpc \in {"ack"} \union Gone
    <3>1. ~Sound(Len(list))
      BY <1>2, <2>1 DEF Sound
    <3>2. QED
      BY <1>1, <2>1, <3>1 DEF IInv, ListInv
  <2>3. \A n \in 1 .. Len(list) - 1 : Sound(n)
    BY <1>1 DEF IInv, ListInv
  <2>4. rpc = "ack" => Len(list) = index
    BY DEF IInv, ListInv
  <2>5. Len(Accepted) = Len(list) - 1 /\ DOMAIN Accepted = 1 .. Len(Accepted)
    BY <2>1
  <2>6. \A n \in 1 .. Len(Accepted) : Accepted[n] = list[n] /\ Sound(n)
    BY <2>1, <2>3
  <2>7. rpc = "ack" => Len(Accepted) = IF rstatus = "FAIL" THEN index - 1 ELSE index
    BY <1>2, <2>4, <2>5
  <2>8. Len(Accepted) \in Nat /\ Len(Accepted) <= Len(list)
    BY <1>1, <2>1, <2>5
  <2>9. QED
    BY <2>2, <2>5, <2>6, <2>7, <2>8 DEF AcceptedInv
<1>3. CASE ~refused
  <2>1. Accepted = list
    BY <1>3 DEF Accepted
  <2>2. Len(list) >= 1 => list # <<>> /\ Last(list) = list[Len(list)]
    <3>1. Len(list) >= 1 => list # <<>>
      BY <1>1, EmptySeq
    <3>2. QED
      BY <1>1, <3>1, FrontFacts
  <2>3. \A n \in 1 .. Len(list) : Sound(n)
    BY <1>1, <1>3, <2>2 DEF IInv, ListInv, Sound
  <2>4. rpc = "ack" => Len(list) = index /\ rstatus # "FAIL"
    BY <1>1, <2>2, <2>3 DEF IInv, ListInv, Sound, PlaceInv, TypeOK
  <2>5. QED
    BY <1>1, <2>1, <2>3, <2>4 DEF AcceptedInv
<1>4. QED
  BY <1>2, <1>3

\* Whatever is damaged, cut short or closed, the list holds the packets of the
\* message in order, each once, and none whose data is damaged
\* (middle.c:142-170, 324-340).
THEOREM AlwaysInOrder == Spec => []InOrder
<1>1. IInv => InOrder
  BY AcceptedIs DEF AcceptedInv, InOrder, Sound
<1>2. QED
  BY <1>1, Invariance, PTL

\* The sender leaves a packet behind only when the receiver has accepted it,
\* and the receiver is never ahead of the sender (middle.c:58-64, 324-340).
THEOREM AckAlwaysMeansAccepted == Spec => []AckMeansAccepted
<1>1. ASSUME IInv PROVE AckMeansAccepted
  <2>1. AcceptedInv
    BY <1>1, AcceptedIs
  <2>2. Len(list) \in Nat
    BY <1>1, LenProperties DEF IInv, TypeOK
  <2>3. Len(Accepted) <= packet /\ Len(Accepted) \in Nat /\ packet \in Nat /\ index \in Nat
    <3>1. Len(Accepted) \in Nat /\ Len(Accepted) <= Len(list)
      BY <2>1 DEF AcceptedInv
    <3>2. packet \in Nat /\ index \in Nat
      BY <1>1 DEF IInv, TypeOK
    <3>3. Len(list) <= packet
      BY <1>1 DEF IInv, DistanceInv
    <3>4. QED
      BY <2>2, <3>1, <3>2, <3>3
  <2>4. CASE rpc \in {"num", "null"}
    <3>1. packet <= 1 /\ (spc = "done" => num_packets = 0)
      BY <1>1, <2>4 DEF IInv, DistanceInv
    <3>2. QED
      BY <2>3, <3>1 DEF AckMeansAccepted
  <2>5. CASE rpc \in {"header", "payload", "ack", "undefined"}
    <3>1. packet \in {index - 1, index} /\ spc # "done"
      BY <1>1, <2>5 DEF IInv, DistanceInv, Current, Behind, Refused, Ended
    <3>2. Len(Accepted) >= index - 1
      <4>1. CASE rpc = "ack"
        <5>1. Len(Accepted) = index - 1 \/ Len(Accepted) = index
          BY <2>1, <4>1, Zenon DEF AcceptedInv
        <5>2. QED
          BY <2>3, <5>1
      <4>2. CASE rpc \in {"header", "payload", "undefined"}
        BY <1>1, <2>1, <2>3, <4>2 DEF AcceptedInv, IInv, ListInv, Gone
      <4>3. QED
        BY <2>5, <4>1, <4>2
    <3>3. QED
      BY <2>3, <3>1, <3>2 DEF AckMeansAccepted
  <2>6. CASE rpc = "done"
    BY <1>1, <2>1, <2>3, <2>6 DEF AckMeansAccepted, AcceptedInv, IInv, ListInv, DistanceInv, TypeOK, Gone
  <2>7. CASE rpc \in Gone
    BY <1>1, <2>3, <2>7 DEF AckMeansAccepted, IInv, PlaceInv
  <2>8. QED
    BY <1>1, <2>4, <2>5, <2>6, <2>7 DEF IInv, TypeOK
<1>2. QED
  BY <1>1, Invariance, PTL

-----------------------------------------------------------------------------
(* The transfer implements Delivery.                                       *)

\* What Delivery sees of the receiver, in a state and in the next.
LEMMA ResultIs ==
  /\ rpc = "done" => Result = "returned"
  /\ rpc \in {"null", "undefined"} \union Gone => Result = "failed"
  /\ rpc \in {"num", "header", "payload", "ack"} => Result = "pending"
BY DEF Result, Gone

\* The same in the next state.
LEMMA ResultNext ==
  /\ rpc' = "done" => Result' = "returned"
  /\ rpc' \in {"null", "undefined"} \union Gone => Result' = "failed"
  /\ rpc' \in {"num", "header", "payload", "ack"} => Result' = "pending"
BY DEF Result, Gone

\* The accepted packets in the next state.
LEMMA AcceptedNext == IInv' => AcceptedInv'
BY AcceptedIs, PTL

\* The places of a receiver that is not finished.
Pending == {"num", "header", "payload", "ack"}
\* The places of one that has failed.
Failed == {"null", "undefined"} \union Gone

\* The receiver goes on, or gives up, without a change to its list.
LEMMA QuietStep ==
  ASSUME num_packets' = num_packets, list' = list, rstatus' = rstatus,
         rpc \in Pending, rpc' \in Pending \union Failed
  PROVE  [Abstract!Next]_(Abstract!vars)
<1>1. Accepted' = Accepted
  BY DEF Accepted
<1>2. Result = "pending" /\ Result' \in {"pending", "failed"}
  BY ResultIs, ResultNext DEF Pending, Failed
<1>3. QED
  BY <1>1, <1>2 DEF Abstract!Next, Abstract!Fail, Abstract!vars

\* Steps in which nothing happens to what Delivery sees.
LEMMA StillStep ==
  ASSUME num_packets' = num_packets, list' = list, rstatus' = rstatus,
         rpc' = rpc \/ (rpc \in Failed /\ rpc' \in Failed)
  PROVE  [Abstract!Next]_(Abstract!vars)
<1>1. Accepted' = Accepted
  BY DEF Accepted
<1>2. Result' = Result
  <2>1. CASE rpc' = rpc
    BY <2>1 DEF Result
  <2>2. CASE rpc \in Failed /\ rpc' \in Failed
    BY <2>2, ResultIs, ResultNext DEF Failed
  <2>3. QED
    BY <2>1, <2>2
<1>3. QED
  BY <1>1, <1>2 DEF Abstract!vars

\* A payload that is taken is a delivery, unless it is about to be refused.
LEMMA TakeStep ==
  ASSUME IInv, IInv', rpc = "payload", num_packets' = num_packets, index' = index,
         NEW m \in Message, m.packet = index, TakePacket(m)
  PROVE  [Abstract!Next]_(Abstract!vars)
<1>1. AcceptedInv /\ AcceptedInv'
  BY AcceptedIs, AcceptedNext
<1>2. Len(list) = index - 1 /\ index \in 1 .. num_packets /\ num_packets \in Nat
  BY DEF IInv, ListInv, PlaceInv, TypeOK
<1>3. CASE m.damage = "json"
  BY <1>3, QuietStep DEF TakePacket, ReceiverEnds, Pending, Failed, Gone
<1>4. CASE m.damage # "json"
  <2>1. rpc' = "ack" /\ Result = "pending" /\ Result' = "pending"
    BY <1>4, ResultIs, ResultNext DEF TakePacket
  <2>2. Len(Accepted) = index - 1
    BY <1>1, <1>2 DEF AcceptedInv, Gone
  <2>3. Len(Accepted') = index - 1 \/ Len(Accepted') = index
    <3>1. Len(Accepted') = IF rstatus' = "FAIL" THEN index' - 1 ELSE index'
      BY <1>1, <2>1, Zenon DEF AcceptedInv
    <3>2. QED
      BY <3>1
  <2>4. CASE Len(Accepted') = index - 1
    BY <2>1, <2>2, <2>4 DEF Abstract!vars
  <2>5. CASE Len(Accepted') = index
    <3>1. Abstract!Deliver
      BY <1>2, <2>1, <2>2, <2>5 DEF Abstract!Deliver
    <3>2. QED
      BY <3>1 DEF Abstract!Next
  <2>6. QED
    BY <2>3, <2>4, <2>5
<1>5. QED
  BY <1>3, <1>4

\* An answer hands nothing over, but the last one may end the message.
LEMMA AnswerStep ==
  ASSUME IInv, IInv', SendAck
  PROVE  [Abstract!Next]_(Abstract!vars)
<1>1. AcceptedInv /\ AcceptedInv'
  BY AcceptedIs, AcceptedNext
<1>2. /\ rpc = "ack" /\ Result = "pending" /\ num_packets' = num_packets /\ rstatus' = rstatus
      /\ Len(list) = index /\ index \in Nat /\ rstatus \in {"OK", "FAIL"}
  BY ResultIs DEF SendAck, IInv, ListInv, TypeOK
<1>3. Len(Accepted) = IF rstatus = "FAIL" THEN index - 1 ELSE index
  BY <1>1, <1>2, Zenon DEF AcceptedInv
<1>4. CASE rstatus = "FAIL"
  <2>1. rpc' \in {"header", "payload"} /\ index' = index
    BY <1>4 DEF SendAck, RetryAt
  <2>2. Len(list') = index - 1
    BY <2>1 DEF IInv, ListInv
  <2>3. Len(Accepted') = index - 1
    BY <1>1, <2>1, <2>2 DEF AcceptedInv, Gone
  <2>4. Result' = "pending"
    BY <2>1, ResultNext
  <2>5. QED
    BY <1>2, <1>3, <1>4, <2>3, <2>4 DEF Abstract!vars
<1>5. CASE rstatus = "OK"
  <2>1. list' = list /\ Accepted' = Accepted /\ Len(Accepted) = index
    BY <1>2, <1>3, <1>5 DEF SendAck, Accepted
  <2>2. CASE rpc' \in {"header", "undefined", "crashed"}
    BY <1>2, <2>1, <2>2, QuietStep DEF Pending, Failed, Gone
  <2>3. CASE rpc' = "done"
    <3>1. Len(list) = num_packets
      BY <1>2, <2>1, <2>3 DEF IInv, ListInv
    <3>2. Abstract!Return
      BY <1>2, <2>1, <2>3, <3>1, ResultNext DEF Abstract!Return
    <3>3. QED
      BY <3>2 DEF Abstract!Next
  <2>4. QED
    BY <1>5, <2>2, <2>3 DEF SendAck, GoesOnAfter, ReceiverTurnsTo, ReceiverEnds
<1>6. QED
  BY <1>2, <1>4, <1>5

\* The number of packets: a message without packets is there at once.
LEMMA NumStep ==
  ASSUME IInv, IInv', ReceiveNum
  PROVE  [Abstract!Next]_(Abstract!vars)
<1>1. rpc = "num" /\ list = <<>> /\ list' = list /\ rstatus' = rstatus /\ num_packets' = num_packets
  BY DEF ReceiveNum, IInv, ListInv
<1>2. CASE rpc' \in {"header", "crashed"}
  BY <1>1, <1>2, QuietStep DEF Pending, Failed, Gone
<1>3. CASE rpc' = "done"
  <2>1. Len(list) = num_packets
    BY <1>1, <1>3 DEF IInv, ListInv
  <2>2. Accepted = list /\ Accepted' = Accepted
    BY <1>1 DEF Accepted
  <2>3. Abstract!Return
    BY <1>1, <1>3, <2>1, <2>2, ResultIs, ResultNext DEF Abstract!Return
  <2>4. QED
    BY <2>3 DEF Abstract!Next
<1>4. QED
  BY <1>2, <1>3 DEF ReceiveNum, ReceiverTurnsTo, ReceiverEnds

\* Every step of the transfer is a step of Delivery, or none.
LEMMA StepImplements == IInv /\ IInv' /\ [Next]_vars => [Abstract!Next]_(Abstract!vars)
<1> SUFFICES ASSUME IInv, IInv', [Next]_vars PROVE [Abstract!Next]_(Abstract!vars)
  OBVIOUS
<1>1. CASE SenderStep \/ CloseSender \/ UNCHANGED vars
  <2>1. num_packets' = num_packets /\ rpc' = rpc /\ list' = list /\ rstatus' = rstatus
    BY <1>1 DEF SenderStep, SendNum, SendHeader, SendPayload, ReceiveAck, AckEndOfFile, SenderDies,
       CloseSender, vars, receiver
  <2>2. QED
    BY <2>1, StillStep DEF Failed, Gone
<1>2. CASE ReceiveNum
  BY <1>2, NumStep
<1>3. CASE NumEndOfFile \/ ReceiveHeader \/ HeaderEndOfFile \/ ReceiverDies
  BY <1>3, QuietStep DEF NumEndOfFile, ReceiveHeader, HeaderEndOfFile, ReceiverDies,
     ReceiverEnds, Pending, Failed, Gone
<1>9. CASE ShortPayload
  <2>1. CASE TakePacket(Payload(Head(data).packet, "rest"))
    <3>1. Head(data).packet = index
      BY <1>9, HeadIsPacket DEF ShortPayload
    <3>2. Payload(index, "rest") \in Message /\ Payload(index, "rest").packet = index
      BY MessageFacts DEF IInv, TypeOK, Payload
    <3>3. QED
      BY <1>9, <2>1, <3>1, <3>2, TakeStep DEF ShortPayload
  <2>2. CASE rpc' \in {"undefined", "crashed"} /\ UNCHANGED <<rstatus, list>>
    BY <1>9, <2>2, QuietStep DEF ShortPayload, Pending, Failed, Gone
  <2>3. QED
    BY <1>9, <2>1, <2>2 DEF ShortPayload, ReceiverEnds
<1>4. CASE ReceivePayload
  <2>1. Head(data) \in Message
    BY <1>4, TailFacts DEF ReceivePayload, IInv, TypeOK
  <2>2. Head(data).packet = index
    BY <1>4, HeadIsPacket DEF ReceivePayload
  <2>3. QED
    BY <1>4, <2>1, <2>2, TakeStep DEF ReceivePayload
<1>5. CASE PayloadEndOfFile
  <2>1. CASE TakePacket(Payload(index, "data"))
    <3>1. Payload(index, "data") \in Message /\ Payload(index, "data").packet = index
      BY MessageFacts DEF IInv, TypeOK, Damage, Payload
    <3>2. QED
      BY <1>5, <2>1, <3>1, TakeStep DEF PayloadEndOfFile
  <2>2. CASE rpc' \in {"undefined", "crashed"} /\ UNCHANGED <<rstatus, list>>
    BY <1>5, <2>2, QuietStep DEF PayloadEndOfFile, Pending, Failed, Gone
  <2>3. QED
    BY <1>5, <2>1, <2>2 DEF PayloadEndOfFile, ReceiverEnds
<1>6. CASE SendAck
  BY <1>6, AnswerStep
<1>7. CASE CloseReceiver
  <2>1. num_packets' = num_packets /\ list' = list /\ rstatus' = rstatus
    BY <1>7 DEF CloseReceiver
  <2>2. CASE rpc \in {"done", "null"}
    BY <1>7, <2>1, <2>2, StillStep DEF CloseReceiver, Failed, Gone
  <2>3. CASE rpc \in Pending
    BY <1>7, <2>1, <2>3, QuietStep DEF CloseReceiver, Pending, Failed, Gone
  <2>4. CASE rpc \in Failed /\ rpc # "null"
    BY <1>7, <2>1, <2>4, StillStep DEF CloseReceiver, Failed, Gone
  <2>5. QED
    BY <2>2, <2>3, <2>4 DEF IInv, TypeOK, Pending, Failed
<1>8. QED
  BY <1>1, <1>2, <1>3, <1>4, <1>5, <1>6, <1>7, <1>9 DEF Next, ReceiverStep, Terminated

\* receive_data hands a message over only when it has accepted every packet of
\* it, in order, one after the other (middle.c:142-170, 324-352): the transfer
\* implements Delivery.
THEOREM TransferImplements == Spec => Implements
<1>1. Init => Abstract!Init
  BY ResultIs, TransferAssumption DEF Init, Abstract!Init, Accepted
<1>2. QED
  BY <1>1, Invariance, StepImplements, PTL DEF Spec, Implements, Abstract!Spec

=============================================================================
