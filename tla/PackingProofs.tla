--------------------------- MODULE PackingProofs ---------------------------
(***************************************************************************)
(* Theorems about Packing, for every packet size of at least two bytes and *)
(* every size of text.                                                     *)
(***************************************************************************)
EXTENDS Packing, SequenceTheorems, TLAPS

\* How many bytes the first n packets carry.
CarriedBytes(size, n) ==
  IF n < NumPackets(size) THEN n * (PACKET_SIZE - 1)
                          ELSE size - size \div PACKET_SIZE

\* The first len of the offsets that survive.
KeptPrefix(len) ==
  [m \in 1 .. len |-> (m - 1) + (m - 1) \div (PACKET_SIZE - 1)]

\* Packet number n of the list, as data_packing leaves it.
FullPacket(size, n) == [data |-> Chunk(size, n), flag_last |-> 0]

\* The list while data_packing runs, and once the tail is flagged.
PacketsInv ==
  /\ Len(packets) = (IF pc = "packing" THEN i ELSE NumPackets(data_size)) + 1
  /\ \A n \in 1 .. Len(packets) - 1 : packets[n] = FullPacket(data_size, n - 1)
  /\ packets[Len(packets)] =
       [data |-> <<>>, flag_last |-> IF pc = "packing" THEN 0 ELSE 1]

\* What has been received is a prefix of the list without its flagged tail.
ReceivedInv ==
  /\ Len(received) = CASE pc = "packing" -> 0
                       [] pc = "receiving" -> i
                       [] OTHER -> NumPackets(data_size)
  /\ \A n \in 1 .. Len(received) : received[n] = FullPacket(data_size, n - 1)

\* What has been concatenated is a prefix of what survives.
UnpackedInv ==
  /\ pc \in {"packing", "receiving"} => unpacked = <<>>
  /\ pc \in {"unpacking", "done"} =>
       unpacked = KeptPrefix(CarriedBytes(data_size, i))

\* What the loop counter is in each loop.
CounterInv ==
  /\ pc = "receiving" => i < NumPackets(data_size)
  /\ pc = "done" => i = NumPackets(data_size)

\* The inductive invariant; the properties but the fourth follow from it at once.
IInv == TypeOK /\ PacketsInv /\ ReceivedInv /\ UnpackedInv /\ CounterInv

-----------------------------------------------------------------------------

\* Multiplication by a natural number is monotone.
LEMMA MulMonotone ==
  ASSUME NEW a \in Nat, NEW b \in Nat, NEW c \in Nat, a <= b
  PROVE  a * c <= b * c
<1>1. PICK d \in Nat : b = a + d
  BY SMT
<1>2. b * c = a * c + d * c
  BY <1>1, SMT
<1>3. d * c \in Nat
  BY SMT
<1>4. a * c \in Nat
  BY SMT
<1>5. QED
  BY <1>2, <1>3, <1>4, SMT

\* Division with remainder, for one divisor.
LEMMA DivFacts ==
  ASSUME NEW n \in Nat, NEW d \in Nat, d > 0
  PROVE  /\ n \div d \in Nat /\ n % d \in 0 .. d - 1
         /\ n = (n \div d) * d + (n % d)
BY Z3

\* The quotient is determined by a multiple and a remainder below the divisor.
LEMMA DivUnique ==
  ASSUME NEW a \in Nat, NEW d \in Nat, NEW k \in 0 .. d - 1, d > 0
  PROVE  (a * d + k) \div d = a
<1> DEFINE n == a * d + k
           q == n \div d
           r == n % d
<1>1. n \in Nat
  BY SMT
<1>2. q \in Nat /\ r \in 0 .. d - 1 /\ n = q * d + r
  BY <1>1, DivFacts
<1> HIDE DEF q, r, n
<1>3. ASSUME q < a PROVE FALSE
  <2>1. (q + 1) * d <= a * d
    BY <1>2, <1>3, MulMonotone
  <2>2. (q + 1) * d = q * d + d
    BY <1>2, SMT
  <2>3. q * d \in Nat /\ a * d \in Nat
    BY <1>2, SMT
  <2>4. QED
    BY <1>2, <2>1, <2>2, <2>3, SMT DEF n
<1>4. ASSUME q > a PROVE FALSE
  <2>1. (a + 1) * d <= q * d
    BY <1>2, <1>4, MulMonotone
  <2>2. (a + 1) * d = a * d + d
    BY SMT
  <2>3. q * d \in Nat /\ a * d \in Nat
    BY <1>2, SMT
  <2>4. QED
    BY <1>2, <2>1, <2>2, <2>3, SMT DEF n
<1>5. q = a
  BY <1>2, <1>3, <1>4, SMT
<1>6. QED
  BY <1>5 DEF q, n

\* num_packets is the number of blocks of PACKET_SIZE the text starts.
LEMMA NumPacketsFacts ==
  ASSUME NEW size \in Nat
  PROVE  /\ NumPackets(size) \in Nat
         /\ size <= NumPackets(size) * PACKET_SIZE
         /\ \A n \in Nat : n < NumPackets(size) => n * PACKET_SIZE < size
<1> DEFINE q == size \div PACKET_SIZE
           r == size % PACKET_SIZE
<1>1. q \in Nat /\ r \in 0 .. PACKET_SIZE - 1 /\ size = q * PACKET_SIZE + r
  BY DivFacts, SizesAssumption
<1>2. NumPackets(size) = q + (IF r = 0 THEN 0 ELSE 1)
  BY DEF NumPackets
<1> HIDE DEF q, r
<1>3. NumPackets(size) \in Nat
  BY <1>1, <1>2, SMT
<1>4. (q + 1) * PACKET_SIZE = q * PACKET_SIZE + PACKET_SIZE
  BY <1>1, SizesAssumption, SMT
<1>5. q * PACKET_SIZE \in Nat
  BY <1>1, SizesAssumption, SMT
<1>6. size <= NumPackets(size) * PACKET_SIZE
  BY <1>1, <1>2, <1>4, <1>5, SizesAssumption, SMT
<1>7. ASSUME NEW n \in Nat, n < NumPackets(size)
      PROVE  n * PACKET_SIZE < size
  <2>1. CASE r = 0
    <3>1. n + 1 <= q
      BY <1>1, <1>2, <1>7, <2>1, SMT
    <3>2. (n + 1) * PACKET_SIZE <= q * PACKET_SIZE
      BY <1>1, <3>1, MulMonotone, SizesAssumption
    <3>3. (n + 1) * PACKET_SIZE = n * PACKET_SIZE + PACKET_SIZE
      BY SizesAssumption, SMT
    <3>4. n * PACKET_SIZE \in Nat
      BY SizesAssumption, SMT
    <3>5. QED
      BY <1>1, <1>5, <2>1, <3>2, <3>3, <3>4, SizesAssumption, SMT
  <2>2. CASE r > 0
    <3>1. n <= q
      BY <1>1, <1>2, <1>7, <2>2, SMT
    <3>2. n * PACKET_SIZE <= q * PACKET_SIZE
      BY <1>1, <3>1, MulMonotone, SizesAssumption
    <3>3. n * PACKET_SIZE \in Nat
      BY SizesAssumption, SMT
    <3>4. QED
      BY <1>1, <1>5, <2>2, <3>2, <3>3, SizesAssumption, SMT
  <2>3. QED
    BY <1>1, <2>1, <2>2, SMT
<1>8. QED
  BY <1>3, <1>6, <1>7

\* The memcpy of iteration n has between one byte and PACKET_SIZE - 1, and
\* ends inside the text.
LEMMA PacketBytesFacts ==
  ASSUME NEW size \in Nat, NEW n \in Nat, n < NumPackets(size)
  PROVE  /\ PacketBytes(size, n) \in 1 .. PACKET_SIZE - 1
         /\ n * PACKET_SIZE \in Nat
         /\ n * PACKET_SIZE + PacketBytes(size, n) <= size
         /\ Remaining(size, n) > 0
<1>1. n * PACKET_SIZE < size /\ n * PACKET_SIZE \in Nat
  BY NumPacketsFacts, SizesAssumption, SMT
<1>2. QED
  BY <1>1, SizesAssumption, SMT DEF PacketBytes, Remaining

\* One more packet carries packet_bytes more.
LEMMA CarriedStep ==
  ASSUME NEW size \in Nat, NEW n \in Nat, n < NumPackets(size)
  PROVE  /\ CarriedBytes(size, n) = n * (PACKET_SIZE - 1)
         /\ CarriedBytes(size, n + 1) =
              n * (PACKET_SIZE - 1) + PacketBytes(size, n)
<1> DEFINE q == size \div PACKET_SIZE
           r == size % PACKET_SIZE
<1>1. q \in Nat /\ r \in 0 .. PACKET_SIZE - 1 /\ size = q * PACKET_SIZE + r
  BY DivFacts, SizesAssumption
<1>2. NumPackets(size) = q + (IF r = 0 THEN 0 ELSE 1)
  BY DEF NumPackets
<1>3. CarriedBytes(size, n) = n * (PACKET_SIZE - 1)
  BY DEF CarriedBytes
<1> HIDE DEF q, r
<1>4. /\ (n + 1) * (PACKET_SIZE - 1) = n * (PACKET_SIZE - 1) + PACKET_SIZE - 1
      /\ n * (PACKET_SIZE - 1) = n * PACKET_SIZE - n
      /\ n * PACKET_SIZE \in Nat /\ q * PACKET_SIZE \in Nat
      /\ (n + 1) * PACKET_SIZE = n * PACKET_SIZE + PACKET_SIZE
  BY <1>1, SizesAssumption, SMT
<1>5. CASE n + 1 < NumPackets(size)
  <2>1. (n + 1) * PACKET_SIZE < size
    BY <1>5, NumPacketsFacts
  <2>2. PacketBytes(size, n) = PACKET_SIZE - 1
    BY <1>4, <2>1, SizesAssumption, SMT DEF PacketBytes, Remaining
  <2>3. QED
    BY <1>3, <1>4, <1>5, <2>2, SizesAssumption, SMT DEF CarriedBytes
<1>6. CASE n + 1 = NumPackets(size)
  <2>1. CarriedBytes(size, n + 1) = size - q
    BY <1>6 DEF CarriedBytes, q
  <2>2. CASE r = 0
    <3>1. n + 1 = q
      BY <1>1, <1>2, <1>6, <2>2, SMT
    <3>2. size = n * PACKET_SIZE + PACKET_SIZE
      BY <1>1, <1>4, <2>2, <3>1, SizesAssumption, SMT
    <3>3. PacketBytes(size, n) = PACKET_SIZE - 1
      BY <1>4, <3>2, SizesAssumption, SMT DEF PacketBytes, Remaining
    <3>4. QED
      BY <1>3, <1>4, <2>1, <3>1, <3>2, <3>3, SizesAssumption, SMT
  <2>3. CASE r > 0
    <3>1. n = q
      BY <1>1, <1>2, <1>6, <2>3, SMT
    <3>2. size = n * PACKET_SIZE + r
      BY <1>1, <3>1
    <3>3. PacketBytes(size, n) = r
      BY <1>1, <1>4, <3>2, SizesAssumption, SMT DEF PacketBytes, Remaining
    <3>4. QED
      BY <1>1, <1>3, <1>4, <2>1, <3>1, <3>2, <3>3, SizesAssumption, SMT
  <2>4. QED
    BY <1>1, <2>2, <2>3, SMT
<1>7. QED
  BY <1>5, <1>6, NumPacketsFacts, SMT

\* What data_packing copies into packet n: a sequence of that many bytes.
LEMMA ChunkFacts ==
  ASSUME NEW size \in Nat, NEW n \in Nat, n < NumPackets(size)
  PROVE  /\ Chunk(size, n) \in Seq(Nat)
         /\ Len(Chunk(size, n)) = PacketBytes(size, n)
         /\ FullPacket(size, n) \in Packet
<1>1. PacketBytes(size, n) \in Nat /\ n * PACKET_SIZE \in Nat
  BY PacketBytesFacts, SizesAssumption, SMT
<1>2. Chunk(size, n) \in [1 .. PacketBytes(size, n) -> Nat]
  BY <1>1, SMT DEF Chunk
<1>3. Chunk(size, n) \in Seq(Nat) /\ Len(Chunk(size, n)) = PacketBytes(size, n)
  BY <1>1, <1>2
<1>4. QED
  BY <1>3 DEF FullPacket, Packet

\* Concatenation as a function of the position.
LEMMA ConcatFacts ==
  ASSUME NEW s \in Seq(Nat), NEW t \in Seq(Nat)
  PROVE  /\ s \o t \in Seq(Nat)
         /\ s \o t = [m \in 1 .. Len(s) + Len(t) |->
                       IF m <= Len(s) THEN s[m] ELSE t[m - Len(s)]]
<1> DEFINE f == [m \in 1 .. Len(s) + Len(t) |->
                  IF m <= Len(s) THEN s[m] ELSE t[m - Len(s)]]
<1>1. s \o t \in Seq(Nat) /\ Len(s \o t) = Len(s) + Len(t)
  BY SMT
<1>2. \A m \in 1 .. Len(s) + Len(t) : (s \o t)[m] = f[m]
  BY SMT
<1>3. DOMAIN (s \o t) = 1 .. Len(s) + Len(t)
  BY <1>1
<1>4. s \o t \in [1 .. Len(s) + Len(t) -> Nat]
  BY <1>1, LenProperties
<1>5. s \o t = f
  BY <1>2, <1>4
<1>6. QED
  BY <1>1, <1>5

\* Concatenating packet number n extends the kept prefix.
LEMMA KeptPrefixStep ==
  ASSUME NEW size \in Nat, NEW n \in Nat, n < NumPackets(size)
  PROVE  /\ KeptPrefix(CarriedBytes(size, n)) \in Seq(Nat)
         /\ KeptPrefix(CarriedBytes(size, n)) \o Chunk(size, n)
              = KeptPrefix(CarriedBytes(size, n + 1))
<1> DEFINE d == PACKET_SIZE - 1
           b == PacketBytes(size, n)
           s == KeptPrefix(n * d)
           t == Chunk(size, n)
<1>1. d \in Nat /\ d > 0 /\ n * d \in Nat /\ n * PACKET_SIZE = n * d + n
  BY SizesAssumption, SMT
<1>2. b \in 1 .. d /\ CarriedBytes(size, n) = n * d
        /\ CarriedBytes(size, n + 1) = n * d + b
  BY PacketBytesFacts, CarriedStep
<1>3. \A m \in 1 .. n * d : (m - 1) \div d \in Nat
  BY <1>1, DivFacts
<1>4. s \in [1 .. n * d -> Nat]
  BY <1>1, <1>3, SMT DEF KeptPrefix
<1>5. s \in Seq(Nat) /\ Len(s) = n * d
  BY <1>1, <1>4
<1>6. t \in Seq(Nat) /\ Len(t) = b
  BY ChunkFacts
<1>7. \A m \in 1 .. n * d : s[m] = (m - 1) + (m - 1) \div d
  BY DEF KeptPrefix
<1>8. \A k \in 1 .. b : t[k] = n * PACKET_SIZE + k - 1
  BY DEF Chunk
<1> HIDE DEF s, t, b
<1>9. ASSUME NEW m \in 1 .. n * d + b, m > n * d
      PROVE  t[m - n * d] = (m - 1) + (m - 1) \div d
  <2> DEFINE k == m - n * d
  <2>1. k \in 1 .. b /\ k - 1 \in 0 .. d - 1
    BY <1>1, <1>2, <1>9
  <2>2. (n * d + (k - 1)) \div d = n
    BY <1>1, <2>1, DivUnique
  <2>3. m - 1 = n * d + (k - 1)
    BY <1>1, <1>2
  <2>4. (m - 1) \div d = n
    BY <2>2, <2>3
  <2>5. t[k] = n * PACKET_SIZE + k - 1
    BY <1>8, <2>1
  <2> HIDE DEF k, d
  <2>6. t[k] = (m - 1) + n
    BY <1>1, <1>2, <2>1, <2>3, <2>5, SizesAssumption
  <2>7. QED
    BY <2>4, <2>6 DEF k
<1>10. s \o t = [m \in 1 .. n * d + b |->
                   IF m <= n * d THEN s[m] ELSE t[m - n * d]]
  <2> HIDE DEF d
  <2>1. s \o t = [m \in 1 .. Len(s) + Len(t) |->
                   IF m <= Len(s) THEN s[m] ELSE t[m - Len(s)]]
    BY <1>5, <1>6, ConcatFacts
  <2>2. QED
    BY <2>1, <1>5, <1>6, Zenon
<1>11. ASSUME NEW m \in 1 .. n * d + b
       PROVE  (IF m <= n * d THEN s[m] ELSE t[m - n * d])
                = (m - 1) + (m - 1) \div d
  BY <1>1, <1>2, <1>7, <1>9
<1>12. s \o t = [m \in 1 .. n * d + b |-> (m - 1) + (m - 1) \div d]
  BY <1>10, <1>11
<1>13. QED
  BY <1>2, <1>5, <1>12 DEF KeptPrefix, s, t, b

-----------------------------------------------------------------------------

\* The first half of Invariance: a text not yet cut satisfies the invariant.
LEMMA InitIInv == Init => IInv
<1> SUFFICES ASSUME Init PROVE IInv
  OBVIOUS
<1> data_size \in Nat
  BY SizesAssumption DEF Init
<1>1. data_size \in Nat /\ NumPackets(data_size) \in Nat
  BY NumPacketsFacts
<1>2. EmptyPacket \in Packet
  BY DEF EmptyPacket, Packet
<1>3. TypeOK
  BY <1>1, <1>2 DEF Init, TypeOK
<1>4. PacketsInv /\ ReceivedInv /\ UnpackedInv /\ CounterInv
  BY DEF Init, PacketsInv, ReceivedInv, UnpackedInv, CounterInv, EmptyPacket
<1>5. QED
  BY <1>3, <1>4 DEF IInv

\* The second half: every iteration of the three loops keeps it.
LEMMA StepIInv == IInv /\ [Next]_vars => IInv'
<1> SUFFICES ASSUME IInv, [Next]_vars PROVE IInv'
  OBVIOUS
<1> DEFINE N == NumPackets(data_size)
<1>1. data_size \in Nat /\ N \in Nat
  BY NumPacketsFacts, SizesAssumption DEF IInv, TypeOK
<1>2. CASE PackPacket
  <2>1. i \in Nat /\ i < N
    BY <1>1, <1>2 DEF PackPacket, IInv, TypeOK
  <2>2. Remaining(data_size, i) > 0 /\ FullPacket(data_size, i) \in Packet
    BY <1>1, <2>1, PacketBytesFacts, ChunkFacts
  <2>3. Len(packets) = i + 1 /\ packets[i + 1] = EmptyPacket
    BY <1>2, <2>1 DEF PackPacket, IInv, PacketsInv, EmptyPacket, TypeOK
  <2>4. packets' = Append([packets EXCEPT ![i + 1].data = Chunk(data_size, i)],
                          EmptyPacket)
    BY <1>2, <2>2, <2>3 DEF PackPacket
  <2>5. [packets EXCEPT ![i + 1].data = Chunk(data_size, i)]
          = [packets EXCEPT ![i + 1] = FullPacket(data_size, i)]
    <3>1. [EmptyPacket EXCEPT !.data = Chunk(data_size, i)]
            = FullPacket(data_size, i)
      BY DEF FullPacket, EmptyPacket
    <3>2. QED
      BY <2>3, <3>1
  <2>6. EmptyPacket \in Packet
    BY DEF EmptyPacket, Packet
  <2>7. /\ packets' \in Seq(Packet) /\ Len(packets') = i + 2
        /\ \A n \in 1 .. i : packets'[n] = packets[n]
        /\ packets'[i + 1] = FullPacket(data_size, i)
        /\ packets'[i + 2] = EmptyPacket
    BY <2>1, <2>2, <2>3, <2>4, <2>5, <2>6 DEF IInv, TypeOK
  <2>8. TypeOK'
    BY <1>1, <1>2, <2>1, <2>7 DEF PackPacket, IInv, TypeOK
  <2>9. PacketsInv'
    BY <1>2, <2>1, <2>3, <2>7 DEF PackPacket, IInv, PacketsInv, EmptyPacket
  <2>10. ReceivedInv' /\ UnpackedInv' /\ CounterInv'
    BY <1>2 DEF PackPacket, IInv, ReceivedInv, UnpackedInv, CounterInv
  <2>11. QED
    BY <2>8, <2>9, <2>10 DEF IInv
<1>3. CASE FinishPacking
  <2>1. Len(packets) = N + 1 /\ packets[N + 1] = EmptyPacket /\ i = N
    BY <1>1, <1>3 DEF FinishPacking, IInv, PacketsInv, EmptyPacket
  <2>2. packets' = [packets EXCEPT ![N + 1] = [data |-> <<>>, flag_last |-> 1]]
    <3>1. [EmptyPacket EXCEPT !.flag_last = 1] = [data |-> <<>>, flag_last |-> 1]
      BY DEF EmptyPacket
    <3>2. QED
      BY <1>3, <2>1, <3>1 DEF FinishPacking
  <2>3. [data |-> <<>>, flag_last |-> 1] \in Packet
    BY DEF Packet
  <2>4. /\ packets' \in Seq(Packet) /\ Len(packets') = N + 1
        /\ \A n \in 1 .. N : packets'[n] = packets[n]
        /\ packets'[N + 1] = [data |-> <<>>, flag_last |-> 1]
    BY <1>1, <2>1, <2>2, <2>3 DEF IInv, TypeOK
  <2>5. TypeOK'
    BY <1>1, <1>3, <2>4 DEF FinishPacking, IInv, TypeOK
  <2>6. PacketsInv'
    BY <1>1, <1>3, <2>1, <2>4 DEF FinishPacking, IInv, PacketsInv
  <2>7. received' = <<>> /\ ReceivedInv'
    BY <1>1, <1>3 DEF FinishPacking, IInv, ReceivedInv, TypeOK
  <2>8. N = 0 => CarriedBytes(data_size, 0) = 0
    <3>1. data_size <= N * PACKET_SIZE
      BY <1>1, NumPacketsFacts
    <3>2. N = 0 => data_size = 0
      BY <1>1, <3>1, SizesAssumption, SMT
    <3>3. 0 \div PACKET_SIZE = 0
      BY SizesAssumption, SMT
    <3>4. QED
      BY <3>2, <3>3 DEF CarriedBytes
  <2>9. KeptPrefix(0) = <<>>
    BY DEF KeptPrefix
  <2>10. UnpackedInv'
    BY <1>1, <1>3, <2>8, <2>9 DEF FinishPacking, IInv, UnpackedInv
  <2>11. CounterInv'
    BY <1>1, <1>3 DEF FinishPacking, CounterInv
  <2>12. QED
    BY <2>5, <2>6, <2>7, <2>10, <2>11 DEF IInv
<1>4. CASE ReceivePacket
  <2>1. i \in Nat /\ i < N /\ Len(received) = i /\ Len(packets) = N + 1
    BY <1>1, <1>4 DEF ReceivePacket, IInv, TypeOK, CounterInv, ReceivedInv, PacketsInv
  <2>2. /\ packets[i + 1] = FullPacket(data_size, i)
        /\ packets[i + 1].flag_last = 0
        /\ packets[i + 1] \in Packet
    <3>1. packets[i + 1] = FullPacket(data_size, i)
      BY <1>1, <2>1 DEF IInv, PacketsInv
    <3>2. QED
      BY <1>1, <2>1, <3>1, ChunkFacts DEF FullPacket
  <2>3. /\ received' \in Seq(Packet) /\ Len(received') = i + 1
        /\ \A n \in 1 .. i : received'[n] = received[n]
        /\ received'[i + 1] = FullPacket(data_size, i)
    BY <1>4, <2>1, <2>2 DEF ReceivePacket, IInv, TypeOK
  <2>4. \/ i + 1 = N /\ pc' = "unpacking" /\ i' = 0
        \/ i + 1 < N /\ pc' = "receiving" /\ i' = i + 1
    BY <1>1, <1>4, <2>1, <2>2 DEF ReceivePacket
  <2>5. TypeOK'
    BY <1>1, <1>4, <2>1, <2>3, <2>4 DEF ReceivePacket, IInv, TypeOK
  <2>6. PacketsInv'
    BY <1>1, <1>4, <2>1, <2>4 DEF ReceivePacket, IInv, PacketsInv
  <2>7. ReceivedInv'
    BY <1>1, <1>4, <2>1, <2>3, <2>4 DEF ReceivePacket, IInv, ReceivedInv
  <2>8. CarriedBytes(data_size, 0) = 0
    BY <1>1, <2>1, SizesAssumption, CarriedStep, SMT DEF CarriedBytes
  <2>9. KeptPrefix(0) = <<>>
    BY DEF KeptPrefix
  <2>10. UnpackedInv'
    BY <1>4, <2>4, <2>8, <2>9 DEF ReceivePacket, IInv, UnpackedInv
  <2>11. CounterInv'
    BY <1>4, <2>4 DEF ReceivePacket, CounterInv
  <2>12. QED
    BY <2>5, <2>6, <2>7, <2>10, <2>11 DEF IInv
<1>5. CASE UnpackPacket
  <2>1. i \in Nat /\ i < N /\ received[i + 1] = FullPacket(data_size, i)
    BY <1>1, <1>5 DEF UnpackPacket, IInv, TypeOK, ReceivedInv
  <2>2. unpacked' = KeptPrefix(CarriedBytes(data_size, i)) \o Chunk(data_size, i)
    BY <1>5, <2>1 DEF UnpackPacket, IInv, UnpackedInv, FullPacket
  <2>3. unpacked' = KeptPrefix(CarriedBytes(data_size, i + 1))
    BY <1>1, <2>1, <2>2, KeptPrefixStep
  <2>4. unpacked' \in Seq(Nat)
    <3>1. /\ KeptPrefix(CarriedBytes(data_size, i)) \in Seq(Nat)
          /\ Chunk(data_size, i) \in Seq(Nat)
      BY <1>1, <2>1, KeptPrefixStep, ChunkFacts
    <3>2. QED
      BY <2>2, <3>1, ConcatFacts
  <2>5. TypeOK'
    BY <1>1, <1>5, <2>1, <2>4 DEF UnpackPacket, IInv, TypeOK
  <2>6. PacketsInv' /\ ReceivedInv' /\ CounterInv'
    BY <1>5 DEF UnpackPacket, IInv, PacketsInv, ReceivedInv, CounterInv
  <2>7. UnpackedInv'
    BY <1>5, <2>3 DEF UnpackPacket, UnpackedInv
  <2>8. QED
    BY <2>5, <2>6, <2>7 DEF IInv
<1>6. CASE FinishUnpacking
  BY <1>6 DEF FinishUnpacking, IInv, TypeOK, PacketsInv, ReceivedInv,
              UnpackedInv, CounterInv
<1>7. CASE UNCHANGED vars
  BY <1>7 DEF vars, IInv, TypeOK, PacketsInv, ReceivedInv, UnpackedInv, CounterInv
<1>8. QED
  BY <1>2, <1>3, <1>4, <1>5, <1>6, <1>7 DEF Next, Terminated

\* The inductive invariant holds in every reachable state.
THEOREM Invariance == Spec => []IInv
BY InitIInv, StepIInv, PTL DEF Spec

\* Every variable of the packing and unpacking loops keeps its type.
THEOREM TypeCorrect == Spec => []TypeOK
<1>1. IInv => TypeOK
  BY DEF IInv
<1>2. QED
  BY <1>1, Invariance, PTL

\* data_packing reads inside the text and leaves room for the NUL in every
\* packet, whatever the packet size and the size of the text.
THEOREM CopiesStayInBounds == Spec => []CopiesInBounds
<1>1. ASSUME IInv PROVE CopiesInBounds
  <2> DEFINE N == NumPackets(data_size)
  <2>1. data_size \in Nat /\ N \in Nat
    BY <1>1, NumPacketsFacts, SizesAssumption DEF IInv, TypeOK
  <2>2. Len(packets) \in 1 .. N + 1 /\ DOMAIN packets = 1 .. Len(packets)
    BY <1>1, <2>1 DEF IInv, TypeOK, PacketsInv
  <2>3. ASSUME NEW n \in 1 .. Len(packets) - 1
        PROVE  /\ Len(packets[n].data) <= PACKET_SIZE - 1
               /\ \A k \in DOMAIN packets[n].data : packets[n].data[k] < data_size
    <3>1. n - 1 \in Nat /\ n - 1 < N
      BY <2>1, <2>2
    <3>2. packets[n].data = Chunk(data_size, n - 1)
      <4>1. packets[n] = FullPacket(data_size, n - 1)
        BY <1>1 DEF IInv, PacketsInv
      <4>2. QED
        BY <4>1 DEF FullPacket
    <3>3. /\ PacketBytes(data_size, n - 1) \in 1 .. PACKET_SIZE - 1
          /\ (n - 1) * PACKET_SIZE \in Nat
          /\ (n - 1) * PACKET_SIZE + PacketBytes(data_size, n - 1) <= data_size
      BY <2>1, <3>1, PacketBytesFacts
    <3>4. Len(Chunk(data_size, n - 1)) = PacketBytes(data_size, n - 1)
      BY <2>1, <3>1, ChunkFacts
    <3>5. \A k \in DOMAIN Chunk(data_size, n - 1) :
            Chunk(data_size, n - 1)[k] < data_size
      BY <2>1, <3>3, SizesAssumption DEF Chunk
    <3>6. QED
      BY <3>2, <3>3, <3>4, <3>5, SizesAssumption
  <2>4. packets[Len(packets)].data = <<>>
    BY <1>1 DEF IInv, PacketsInv
  <2>5. QED
    BY <2>2, <2>3, <2>4, SizesAssumption DEF CopiesInBounds
<1>2. QED
  BY <1>1, Invariance, PTL

\* The early exit on flag_last never leaves data_unpacking a short list.
THEOREM ListIsLongEnough == Spec => []ListLongEnough
<1>1. IInv => ListLongEnough
  BY DEF IInv, ReceivedInv, ListLongEnough
<1>2. QED
  BY <1>1, Invariance, PTL

\* Once all packets are put together, the prefix they carry is everything that is kept.
LEMMA DoneIsKept == IInv => OnlyBlockEndsLost
<1>1. SUFFICES ASSUME IInv, pc = "done" PROVE unpacked = Kept(data_size)
  BY DEF OnlyBlockEndsLost
<1>2. data_size \in Nat
  BY <1>1, SizesAssumption DEF IInv, TypeOK
<1>3. NumPackets(data_size) \in Nat /\ i = NumPackets(data_size)
  BY <1>1, <1>2, NumPacketsFacts DEF IInv, CounterInv
<1>4. CarriedBytes(data_size, i) = data_size - data_size \div PACKET_SIZE
  BY <1>3 DEF CarriedBytes
<1>5. unpacked = KeptPrefix(CarriedBytes(data_size, i))
  BY <1>1 DEF IInv, UnpackedInv
<1>6. QED
  BY <1>4, <1>5 DEF Kept, KeptPrefix

\* Of every text, for every packet size, the last byte of each full block is lost
\* and nothing else.
THEOREM LossIsConfined == Spec => []OnlyBlockEndsLost
<1>1. QED
  BY DoneIsKept, Invariance, PTL

\* A text shorter than a packet, as every command is, arrives whole.
THEOREM ShortTextArrives == Spec => []ShortTextIntact
<1>1. ASSUME IInv PROVE ShortTextIntact
  <2>1. SUFFICES ASSUME pc = "done", data_size < PACKET_SIZE
                 PROVE  unpacked = [m \in 1 .. data_size |-> m - 1]
    BY DEF ShortTextIntact
  <2>2. data_size \in Nat /\ unpacked = Kept(data_size)
    BY <1>1, <2>1, SizesAssumption, DoneIsKept DEF IInv, TypeOK, OnlyBlockEndsLost
  <2>3. data_size \div PACKET_SIZE = 0
    BY <2>1, <2>2, SizesAssumption, SMT
  <2>4. \A m \in 1 .. data_size : (m - 1) \div (PACKET_SIZE - 1) = 0
    BY <2>1, <2>2, SizesAssumption, SMT
  <2>5. Kept(data_size) = [m \in 1 .. data_size |-> m - 1]
    BY <2>2, <2>3, <2>4 DEF Kept
  <2>6. QED
    BY <2>2, <2>5
<1>2. QED
  BY <1>1, Invariance, PTL

\* Every prefix of the packets carries less than the buffer, the NUL counted.
LEMMA CarriedFits ==
  ASSUME NEW size \in Nat, NEW n \in 0 .. NumPackets(size), NumPackets(size) > 0
  PROVE  /\ CarriedBytes(size, n) \in Nat
         /\ CarriedBytes(size, n) + 1 <= PACKET_SIZE * NumPackets(size)
<1> DEFINE N == NumPackets(size)
           q == size \div PACKET_SIZE
           r == size % PACKET_SIZE
<1>1. N \in Nat /\ size <= N * PACKET_SIZE /\ 0 * PACKET_SIZE < size
  BY NumPacketsFacts
<1>2. q \in Nat /\ r \in 0 .. PACKET_SIZE - 1 /\ size = q * PACKET_SIZE + r
  BY DivFacts, SizesAssumption
<1>3. N = q + (IF r = 0 THEN 0 ELSE 1)
  BY DEF NumPackets
<1> HIDE DEF N, q, r
<1>4. CASE n < N
  <2>1. (n + 1) * PACKET_SIZE <= N * PACKET_SIZE
    BY <1>1, <1>4, MulMonotone, SizesAssumption
  <2>2. /\ (n + 1) * PACKET_SIZE = n * (PACKET_SIZE - 1) + n + PACKET_SIZE
        /\ n * (PACKET_SIZE - 1) \in Nat
        /\ N * PACKET_SIZE = PACKET_SIZE * N
    BY <1>1, SizesAssumption, SMT
  <2>3. CarriedBytes(size, n) = n * (PACKET_SIZE - 1)
    BY <1>4 DEF CarriedBytes, N
  <2>4. PACKET_SIZE * N \in Nat
    BY <1>1, SizesAssumption, SMT
  <2>5. QED
    BY <1>1, <2>1, <2>2, <2>3, <2>4, SizesAssumption, SMT DEF N
<1>5. CASE n = N
  <2>1. CarriedBytes(size, n) = size - q
    BY <1>5 DEF CarriedBytes, N, q
  <2>2. q <= size
    <3>1. q * 1 <= q * PACKET_SIZE
      <4>1. q * PACKET_SIZE = PACKET_SIZE * q
        BY <1>2, SizesAssumption, SMT
      <4>2. 1 * q <= PACKET_SIZE * q
        BY <1>2, MulMonotone, SizesAssumption
      <4>3. QED
        BY <1>2, <4>1, <4>2, SMT
    <3>2. q * PACKET_SIZE \in Nat
      BY <1>2, SizesAssumption, SMT
    <3>3. QED
      BY <1>2, <3>1, <3>2, SizesAssumption, SMT
  <2>3. size - q + 1 <= N * PACKET_SIZE
    <3>1. CASE q > 0
      BY <1>1, <1>2, <2>2, <3>1, SizesAssumption, SMT
    <3>2. CASE q = 0
      <4>1. r > 0 /\ size = r
        BY <1>1, <1>2, <3>2, SizesAssumption, SMT
      <4>2. N = 1
        BY <1>3, <3>2, <4>1
      <4>3. QED
        BY <1>2, <3>2, <4>1, <4>2, SizesAssumption, SMT
    <3>3. QED
      BY <1>2, <3>1, <3>2, SMT
  <2>4. N * PACKET_SIZE = PACKET_SIZE * N
    BY <1>1, SizesAssumption, SMT
  <2>5. QED
    BY <1>2, <2>1, <2>2, <2>3, <2>4, SMT DEF N
<1>6. QED
  BY <1>1, <1>4, <1>5 DEF N

\* The buffer data_unpacking callocs holds what it concatenates and the NUL,
\* at every step of the loop, whatever the packet size and the text.
THEOREM UnpackStaysInBuffer == Spec => []UnpackFits
<1>1. ASSUME IInv PROVE UnpackFits
  <2> DEFINE N == NumPackets(data_size)
  <2>1. SUFFICES ASSUME N > 0 PROVE Len(unpacked) + 1 <= PACKET_SIZE * N
    BY DEF UnpackFits
  <2>2. data_size \in Nat /\ i \in 0 .. N /\ N \in Nat
    BY <1>1, NumPacketsFacts, SizesAssumption DEF IInv, TypeOK
  <2>3. CASE pc \in {"packing", "receiving"}
    <3>1. Len(unpacked) = 0
      BY <1>1, <2>3 DEF IInv, UnpackedInv
    <3>2. 1 <= PACKET_SIZE * N
      <4>1. 1 * 1 <= PACKET_SIZE * 1 /\ 1 * PACKET_SIZE <= N * PACKET_SIZE
        BY <2>1, <2>2, MulMonotone, SizesAssumption
      <4>2. N * PACKET_SIZE = PACKET_SIZE * N
        BY <2>2, SizesAssumption, SMT
      <4>3. QED
        BY <4>1, <4>2, <2>2, SizesAssumption, SMT
    <3>3. QED
      BY <3>1, <3>2
  <2>4. CASE pc \in {"unpacking", "done"}
    <3>1. unpacked = KeptPrefix(CarriedBytes(data_size, i))
      BY <1>1, <2>4 DEF IInv, UnpackedInv
    <3>2. /\ CarriedBytes(data_size, i) \in Nat
          /\ CarriedBytes(data_size, i) + 1 <= PACKET_SIZE * N
      BY <2>1, <2>2, CarriedFits
    <3>3. Len(unpacked) = CarriedBytes(data_size, i)
      <4>1. DOMAIN unpacked = 1 .. CarriedBytes(data_size, i)
        BY <3>1 DEF KeptPrefix
      <4>2. unpacked \in Seq(Nat)
        BY <1>1 DEF IInv, TypeOK
      <4>3. QED
        BY <3>2, <4>1, <4>2, LenProperties
    <3>4. QED
      BY <3>2, <3>3
  <2>5. QED
    BY <1>1, <2>3, <2>4 DEF IInv, TypeOK
<1>2. QED
  BY <1>1, Invariance, PTL

=============================================================================
