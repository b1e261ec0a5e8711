------------------------------ MODULE Packing ------------------------------
(***************************************************************************)
(* How src/src/middle.c cuts a text into packets (data_packing), how many  *)
(* of them send_data hands over, and how receive_data and data_unpacking   *)
(* put the text together again.  The transport is perfect here: module     *)
(* Transfer is about the transport, this one about the arithmetic.         *)
(*                                                                         *)
(* A byte of the text is named by its offset, so a packet is a sequence of *)
(* offsets and "the byte was lost" is visible whatever the text says.      *)
(***************************************************************************)
EXTENDS Integers, Sequences

CONSTANTS
  PACKET_SIZE,   \* sizeof(data_packet.data): 4096 in middle.h
  MaxSize        \* bound on strlen(data) of the texts considered

ASSUME SizesAssumption ==
  /\ PACKET_SIZE \in Nat /\ PACKET_SIZE >= 2
  /\ MaxSize \in Nat

VARIABLES
  pc,         \* "packing", "receiving", "unpacking" or "done"
  data_size,  \* strlen(data), fixed by the caller of send_data
  packets,    \* the list data_packing builds; its last element is last_packet
  received,   \* the list receive_data builds
  unpacked,   \* what data_unpacking has concatenated so far
  i           \* the counter of the loop that is running

vars == <<pc, data_size, packets, received, unpacked, i>>

-----------------------------------------------------------------------------

\* num_packets of send_data.
NumPackets(size) ==
  size \div PACKET_SIZE + (IF size % PACKET_SIZE = 0 THEN 0 ELSE 1)

\* remaining_bytes and packet_bytes of data_packing, in iteration n.
Remaining(size, n) == size - n * PACKET_SIZE

\* Mutants of PacketBytes: no room for the NUL, no end of the text.
PacketBytesNoNul(size, n) ==
  IF Remaining(size, n) < PACKET_SIZE THEN Remaining(size, n) ELSE PACKET_SIZE

PacketBytesPastEnd(size, n) == PACKET_SIZE - 1

PacketBytes(size, n) ==
  IF Remaining(size, n) < PACKET_SIZE - 1 THEN Remaining(size, n)
                                          ELSE PACKET_SIZE - 1

\* Mutant of Chunk: the source offset advances by one byte less.
ChunkCloser(size, n) ==
  [k \in 1 .. PacketBytes(size, n) |-> n * (PACKET_SIZE - 1) + k - 1]

\* The memcpy of iteration n, as the offsets it copies.
Chunk(size, n) ==
  [k \in 1 .. PacketBytes(size, n) |-> n * PACKET_SIZE + k - 1]

\* A packet fresh from calloc.
EmptyPacket == [data |-> <<>>, flag_last |-> 0]

-----------------------------------------------------------------------------

Init ==
  /\ pc = "packing"
  /\ data_size \in 0 .. MaxSize
  /\ packets = <<EmptyPacket>>
  /\ received = <<>>
  /\ unpacked = <<>>
  /\ i = 0

\* One iteration of data_packing: fill last_packet and, while bytes remain,
\* hang a new empty packet behind it.
PackPacket ==
  /\ pc = "packing" /\ i < NumPackets(data_size)
  /\ LET filled == [packets EXCEPT ![Len(packets)].data = Chunk(data_size, i)]
     IN  packets' = IF Remaining(data_size, i) > 0
                      THEN Append(filled, EmptyPacket) ELSE filled
  /\ i' = i + 1
  /\ UNCHANGED <<pc, data_size, received, unpacked>>

\* Mutant of FinishPacking: the flag goes to the head of the list.
FinishPackingFlagsHead ==
  /\ pc = "packing" /\ i = NumPackets(data_size)
  /\ packets' = [packets EXCEPT ![1].flag_last = 1]
  /\ pc' = IF NumPackets(data_size) = 0 THEN "unpacking" ELSE "receiving"
  /\ i' = 0
  /\ UNCHANGED <<data_size, received, unpacked>>

\* Mutant of FinishPacking: the counter of the next loop is not reset.
FinishPackingKeepsCounter ==
  /\ pc = "packing" /\ i = NumPackets(data_size)
  /\ packets' = [packets EXCEPT ![Len(packets)].flag_last = 1]
  /\ pc' = IF NumPackets(data_size) = 0 THEN "unpacking" ELSE "receiving"
  /\ i' = i + 1
  /\ UNCHANGED <<data_size, received, unpacked>>

\* The end of data_packing flags the last packet of the list; receive_data
\* then learns num_packets and enters its loop, or skips it when there is none.
FinishPacking ==
  /\ pc = "packing" /\ i = NumPackets(data_size)
  /\ packets' = [packets EXCEPT ![Len(packets)].flag_last = 1]
  /\ pc' = IF NumPackets(data_size) = 0 THEN "unpacking" ELSE "receiving"
  /\ i' = 0
  /\ UNCHANGED <<data_size, received, unpacked>>

\* One iteration of the loops of send_data and receive_data: packet number i
\* of the list travels, and a set flag_last ends the loop early.
ReceivePacket ==
  /\ pc = "receiving"
  /\ received' = Append(received, packets[i + 1])
  /\ IF packets[i + 1].flag_last = 1 \/ i + 1 = NumPackets(data_size)
       THEN pc' = "unpacking" /\ i' = 0
       ELSE pc' = pc /\ i' = i + 1
  /\ UNCHANGED <<data_size, packets, unpacked>>

\* One strcat of data_unpacking, which trusts num_packets and never looks at
\* the end of the list.
UnpackPacket ==
  /\ pc = "unpacking" /\ i < NumPackets(data_size)
  /\ unpacked' = unpacked \o received[i + 1].data
  /\ i' = i + 1
  /\ UNCHANGED <<pc, data_size, packets, received>>

FinishUnpacking ==
  /\ pc = "unpacking" /\ i = NumPackets(data_size)
  /\ pc' = "done"
  /\ UNCHANGED <<data_size, packets, received, unpacked, i>>

Terminated == pc = "done" /\ UNCHANGED vars

Next == PackPacket \/ FinishPacking \/ ReceivePacket \/ UnpackPacket
          \/ FinishUnpacking \/ Terminated

Spec == Init /\ [][Next]_vars

-----------------------------------------------------------------------------

Packet == [data : Seq(Nat), flag_last : {0, 1}]

\* Every variable has its type, and the counter stays within the loops' bound.
TypeOK ==
  /\ pc \in {"packing", "receiving", "unpacking", "done"}
  /\ data_size \in 0 .. MaxSize
  /\ packets \in Seq(Packet) /\ packets # <<>>
  /\ received \in Seq(Packet)
  /\ unpacked \in Seq(Nat)
  /\ i \in 0 .. NumPackets(data_size)

\* The memcpy of data_packing stays inside the text it reads (middle.c:243)
\* and leaves room in data_packet.data for the terminating NUL (middle.c:244).
CopiesInBounds ==
  \A n \in DOMAIN packets :
    /\ Len(packets[n].data) <= PACKET_SIZE - 1
    /\ \A k \in DOMAIN packets[n].data : packets[n].data[k] < data_size

\* data_unpacking walks num_packets nodes without looking for the end of the
\* list (middle.c:269-273): the early exit on flag_last must not have left the
\* list shorter than that.
ListLongEnough ==
  pc = "unpacking" => Len(received) = NumPackets(data_size)

\* The text put together fits the calloc(PACKET_SIZE * num_packets) of
\* data_unpacking with its terminating NUL (middle.c:267-271).
UnpackFits ==
  NumPackets(data_size) > 0 =>
    Len(unpacked) + 1 <= PACKET_SIZE * NumPackets(data_size)

\* The offsets that survive: iteration n copies PACKET_SIZE - 1 bytes at
\* most but the next one starts PACKET_SIZE further on.
Kept(size) ==
  [m \in 1 .. size - size \div PACKET_SIZE |->
     (m - 1) + (m - 1) \div (PACKET_SIZE - 1)]

\* The loss that TextArrives, below, shows is confined to the last byte of every
\* full block of PACKET_SIZE: each other byte arrives, in its order and once, so
\* that neither a count of packets nor a boundary costs more (middle.c:238-244).
OnlyBlockEndsLost ==
  pc = "done" => unpacked = Kept(data_size)

\* A text shorter than a packet arrives whole.  Every command does: read_input
\* of clients.c accepts 99 characters.
ShortTextIntact ==
  pc = "done" /\ data_size < PACKET_SIZE =>
    unpacked = [m \in 1 .. data_size |-> m - 1]

-----------------------------------------------------------------------------
(* What the documentation says and the code does not do.                   *)

\* "File download must work for any size/format" (INSTRUCTIONS.md:42): what
\* data_unpacking has put together is the text that was given to send_data.
TextArrives ==
  pc = "done" => unpacked = [m \in 1 .. data_size |-> m - 1]

=============================================================================
