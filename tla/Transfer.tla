------------------------------ MODULE Transfer ------------------------------
(***************************************************************************)
(* One call of send_data against one call of receive_data                  *)
(* (src/src/middle.c), over one connection.                                *)
(*                                                                         *)
(* The sender announces the number of packets, then sends every packet as  *)
(* a header (the json_size, preceded by the file_size when the packet is   *)
(* compressed) and a payload, and sends the payload again until the        *)
(* receiver answers CHECKSUM_OK.  The connection is reliable and ordered,  *)
(* as SOCK_STREAM is; a payload may still be damaged (that is what the     *)
(* checksum is for), a recv may return less than the whole payload, and    *)
(* either process may go away.  Faults says which of these can happen.     *)
(***************************************************************************)
EXTENDS Naturals, Sequences, SequencesExt

CONSTANTS
  MaxPackets,  \* bound on num_packets
  Paths,       \* the paths a message takes: "raw", or "gz" for a response to client B
  Faults,      \* among "data", "json", "flag", "short" and "close"
  MaxFaults    \* bound on how many of them happen

ASSUME TransferAssumption ==
  /\ MaxPackets \in Nat /\ MaxFaults \in Nat
  /\ Paths \subseteq {"raw", "gz"}
  /\ Faults \subseteq {"data", "json", "flag", "short", "close"}

VARIABLES
  num_packets,  \* fixed by the text to send
  path,         \* "raw" or "gz"
  spc,          \* where the sender is
  packet,       \* the packet the sender is at
  sheader,      \* the next piece of its header
  sstatus,      \* checksum_status of send_raw_data or send_compress_data
  rpc,          \* where the receiver is
  index,        \* the packet the receiver is at
  rheader,      \* the next piece of its header
  rstatus,      \* checksum_status of receive_data
  list,         \* the packets from first_packet to current_packet
  data,         \* the bytes on their way to the receiver, one element per send
  acks,         \* the checksum_status values on their way to the sender
  closed,       \* the ends whose process is gone
  faults        \* the faults that have happened so far

sender == <<spc, packet, sheader, sstatus>>
receiver == <<rpc, index, rheader, rstatus, list>>
vars == <<num_packets, path, sender, receiver, data, acks, closed, faults>>

-----------------------------------------------------------------------------

\* What precedes the payload of a packet.
Header == IF path = "raw" THEN <<"json_size">> ELSE <<"file_size", "json_size">>

\* A damaged payload either fails the crc32 of its data ("data"), is no JSON
\* object with the three members any more ("json"), or has another flag_last,
\* which the crc32 does not cover ("flag").
Damage == {"data", "json", "flag"}

Fault(f) ==
  /\ f \in Faults /\ Len(faults) < MaxFaults
  /\ faults' = Append(faults, f)

Announcement == [kind |-> "num", packet |-> num_packets, damage |-> "none"]
HeaderPiece(n, h) == [kind |-> Header[h], packet |-> n, damage |-> "none"]
Payload(n, d) == [kind |-> "payload", packet |-> n, damage |-> d]

Gone == {"killed", "exited", "crashed", "closed"}

\* A send: what a process that is gone would have read is dropped.
Transmit(m) == data' = IF "receiver" \in closed THEN data ELSE Append(data, m)
Answer(s) == acks' = IF "sender" \in closed THEN acks ELSE Append(acks, s)

Init ==
  /\ num_packets \in 0 .. MaxPackets
  /\ path \in Paths
  /\ spc = "num" /\ packet = 0 /\ sheader = 0 /\ sstatus = "unset"
  /\ rpc = "num" /\ index = 0 /\ rheader = 0 /\ rstatus = "unset"
  /\ list = <<>>
  /\ data = <<>> /\ acks = <<>>
  /\ closed = {}
  /\ faults = <<>>

-----------------------------------------------------------------------------
(* The sender.                                                             *)

\* The loop of send_data comes to packet n, or to its end.
SenderTurnsTo(n) ==
  IF n > num_packets
    THEN spc' = "done" /\ UNCHANGED <<packet, sheader, sstatus>>
    ELSE spc' = "header" /\ packet' = n /\ sheader' = 1 /\ sstatus' = "unset"

SendNum ==
  /\ spc = "num"
  /\ Transmit(Announcement)
  /\ SenderTurnsTo(1)
  /\ UNCHANGED <<num_packets, path, receiver, acks, closed, faults>>

SendHeader ==
  /\ spc = "header"
  /\ Transmit(HeaderPiece(packet, sheader))
  /\ sheader' = sheader + 1
  /\ spc' = IF sheader = Len(Header) THEN "payload" ELSE spc
  /\ UNCHANGED <<num_packets, path, packet, sstatus, receiver, acks, closed, faults>>

SendPayload ==
  /\ spc = "payload"
  /\ \/ Transmit(Payload(packet, "none")) /\ UNCHANGED faults
     \/ \E d \in Damage : Fault(d) /\ Transmit(Payload(packet, d))
  /\ spc' = "ack"
  /\ UNCHANGED <<num_packets, path, packet, sheader, sstatus, receiver, acks, closed>>

\* The while condition of send_raw_data and send_compress_data.
\* Mutants: the status is not looked at; the loop runs once too often.
ActOnStatusBlindly(s) == SenderTurnsTo(packet + 1)

ActOnStatusLate(s) ==
  IF s = "FAIL" THEN spc' = "payload" /\ sstatus' = s /\ UNCHANGED <<packet, sheader>>
  ELSE IF packet > num_packets
    THEN spc' = "done" /\ UNCHANGED <<packet, sheader, sstatus>>
    ELSE spc' = "header" /\ packet' = packet + 1 /\ sheader' = 1 /\ sstatus' = "unset"

ActOnStatus(s) ==
  IF s = "FAIL" THEN spc' = "payload" /\ sstatus' = s /\ UNCHANGED <<packet, sheader>>
                ELSE SenderTurnsTo(packet + 1)

ReceiveAck ==
  /\ spc = "ack" /\ acks # <<>>
  /\ acks' = Tail(acks)
  /\ ActOnStatus(Head(acks))
  /\ UNCHANGED <<num_packets, path, receiver, data, closed, faults>>

\* recv returns 0, which the test for -1 lets pass: checksum_status keeps its
\* value, and has none yet in the first round of the loop.
AckEndOfFile ==
  /\ spc = "ack" /\ acks = <<>> /\ "receiver" \in closed
  /\ \E s \in IF sstatus = "unset" THEN {"OK", "FAIL"} ELSE {sstatus} : ActOnStatus(s)
  /\ UNCHANGED <<num_packets, path, receiver, data, acks, closed, faults>>

\* SIGPIPE on a send, or recv_error_handler on a reset connection.
SenderDies ==
  /\ "receiver" \in closed
  /\ \/ spc \in {"num", "header", "payload"} /\ spc' = "killed"
     \/ spc = "ack" /\ acks = <<>> /\ spc' = "exited"
  /\ closed' = closed \union {"sender"}
  /\ UNCHANGED <<num_packets, path, packet, sheader, sstatus, receiver, data, acks, faults>>

-----------------------------------------------------------------------------
(* The receiver.                                                           *)

ReceiverEnds(how) ==
  /\ rpc' = how
  /\ closed' = closed \union {"receiver"}

\* The loop of receive_data comes to packet n, or to data_unpacking, which
\* walks num_packets nodes whether the list has them or not.
\* Mutant: it hands over whatever the list has.
ReceiverTurnsToEnd(n) ==
  IF n <= num_packets
    THEN rpc' = "header" /\ index' = n /\ rheader' = 1 /\ UNCHANGED closed
    ELSE rpc' = "done" /\ UNCHANGED <<index, rheader, closed>>

ReceiverTurnsTo(n) ==
  IF n <= num_packets
    THEN rpc' = "header" /\ index' = n /\ rheader' = 1 /\ UNCHANGED closed
    ELSE /\ UNCHANGED <<index, rheader>>
         /\ IF Len(list) = num_packets THEN rpc' = "done" /\ UNCHANGED closed
                                       ELSE ReceiverEnds("crashed")

ReceiveNum ==
  /\ rpc = "num" /\ data # <<>>
  /\ data' = Tail(data)
  /\ ReceiverTurnsTo(1)
  /\ UNCHANGED <<num_packets, path, sender, rstatus, list, acks, faults>>

\* The only recv whose result 0 is looked at: receive_data returns NULL.
NumEndOfFile ==
  /\ rpc = "num" /\ data = <<>> /\ "sender" \in closed
  /\ rpc' = "null"
  /\ UNCHANGED <<num_packets, path, sender, index, rheader, rstatus, list, data,
                 acks, closed, faults>>

\* Bytes of a payload taken for a size leave the receiver in a state that is
\* not followed any further: "undefined".
ReceiveHeader ==
  /\ rpc = "header" /\ data # <<>>
  /\ IF Head(data).kind = Header[rheader]
       THEN /\ data' = Tail(data)
            /\ rheader' = rheader + 1
            /\ rpc' = IF rheader = Len(Header) THEN "payload" ELSE rpc
       ELSE rpc' = "undefined" /\ UNCHANGED <<rheader, data>>
  /\ UNCHANGED <<num_packets, path, sender, index, rstatus, list, acks, closed, faults>>

\* json_size was set to 0 before, file_size was not set at all.
HeaderEndOfFile ==
  /\ rpc = "header" /\ data = <<>> /\ "sender" \in closed
  /\ rpc' = IF path = "raw" THEN "payload" ELSE "undefined"
  /\ UNCHANGED <<num_packets, path, sender, index, rheader, rstatus, list, data,
                 acks, closed, faults>>

\* json_unformat, the new node and the comparison of checksum_check.
TakePacket(m) ==
  IF m.damage = "json"
    THEN ReceiverEnds("crashed") /\ UNCHANGED <<rstatus, list>>
    ELSE /\ rpc' = "ack" /\ list' = Append(list, m)
         /\ rstatus' = IF m.damage = "data" THEN "FAIL" ELSE "OK"
         /\ UNCHANGED closed

ReceivePayload ==
  /\ rpc = "payload" /\ data # <<>>
  /\ data' = Tail(data)
  /\ TakePacket(Head(data))
  /\ UNCHANGED <<num_packets, path, sender, index, rheader, acks, faults>>

\* recv returns a part of the payload: a truncated JSON text has no parse
\* tree, and json_unformat dereferences NULL.  When the buffer still holds the
\* copy that was refused before, the parser sees a mixture of both.  On the
\* compressed path the buffers come from malloc and gzread's result is not
\* looked at: the parser sees nothing, a mixture with what was there, or, when
\* only the end of the file is missing, the whole text.
ShortPayload ==
  /\ Fault("short") /\ rpc = "payload" /\ data # <<>>
  /\ \/ /\ path = "gz" \/ rstatus # "FAIL"
        /\ ReceiverEnds("crashed") /\ UNCHANGED <<rstatus, list, data>>
     \/ /\ path = "gz" \/ rstatus = "FAIL"
        /\ rpc' = "undefined" /\ UNCHANGED <<rstatus, list, data, closed>>
     \/ /\ path = "gz" /\ Head(data).damage = "none"
        /\ TakePacket(Payload(Head(data).packet, "rest")) /\ data' = Tail(data)
  /\ UNCHANGED <<num_packets, path, sender, index, rheader, acks>>

\* recv returns 0 and the buffer keeps what it had: the refused copy, zeros
\* from calloc, or, on the compressed path, whatever malloc returned.
PayloadEndOfFile ==
  /\ rpc = "payload" /\ data = <<>> /\ "sender" \in closed
  /\ CASE path = "gz" -> rpc' = "undefined" /\ UNCHANGED <<rstatus, list, closed>>
       [] path = "raw" /\ rstatus = "FAIL" -> TakePacket(Payload(index, "data"))
       [] OTHER -> ReceiverEnds("crashed") /\ UNCHANGED <<rstatus, list>>
  /\ UNCHANGED <<num_packets, path, sender, index, rheader, data, acks, faults>>

\* Where the while(1) of receive_data starts again: receive_compress_data
\* reads the two sizes again, the other path only the payload.
\* Mutant: the sizes are read again on either path.
RetryAtHeader == "header"

RetryAt == IF path = "raw" THEN "payload" ELSE "header"

\* The loop goes on after packet m was accepted, or ends at its flag_last.  The
\* rest of a payload that was read in part is taken for the next size.
GoesOnAfter(m) ==
  IF m.damage = "rest" /\ index < num_packets
    THEN rpc' = "undefined" /\ index' = index + 1 /\ rheader' = 1 /\ UNCHANGED closed
    ELSE ReceiverTurnsTo(IF m.damage = "flag" THEN num_packets + 1 ELSE index + 1)

\* Mutant of SendAck: the refused packet stays in the list.
SendAckKeepsRefused ==
  /\ rpc = "ack"
  /\ Answer(rstatus)
  /\ IF rstatus = "FAIL"
       THEN rpc' = RetryAt /\ rheader' = 1 /\ UNCHANGED <<index, list, closed>>
       ELSE GoesOnAfter(Last(list)) /\ UNCHANGED list
  /\ UNCHANGED <<num_packets, path, sender, rstatus, data, faults>>

\* The send of checksum_check and the rest of the iteration: the refused
\* packet is unhooked; a flag_last in an accepted one ends the loop.
SendAck ==
  /\ rpc = "ack"
  /\ Answer(rstatus)
  /\ IF rstatus = "FAIL"
       THEN /\ rpc' = RetryAt /\ rheader' = 1 /\ list' = Front(list)
            /\ UNCHANGED <<index, closed>>
       ELSE GoesOnAfter(Last(list)) /\ UNCHANGED list
  /\ UNCHANGED <<num_packets, path, sender, rstatus, data, faults>>

ReceiverDies ==
  /\ "sender" \in closed
  /\ \/ rpc = "ack" /\ ReceiverEnds("killed")
     \/ rpc \in {"num", "header", "payload"} /\ data = <<>> /\ ReceiverEnds("exited")
  /\ UNCHANGED <<num_packets, path, sender, index, rheader, rstatus, list, data,
                 acks, faults>>

-----------------------------------------------------------------------------
(* The processes' ends, and the whole.                                     *)

CloseSender ==
  /\ Fault("close") /\ "sender" \notin closed
  /\ closed' = closed \union {"sender"}
  /\ spc' = IF spc = "done" THEN spc ELSE "closed"
  /\ UNCHANGED <<num_packets, path, packet, sheader, sstatus, receiver, data, acks>>

CloseReceiver ==
  /\ Fault("close") /\ "receiver" \notin closed
  /\ closed' = closed \union {"receiver"}
  /\ rpc' = IF rpc \in {"done", "null"} THEN rpc ELSE "closed"
  /\ UNCHANGED <<num_packets, path, sender, index, rheader, rstatus, list, data, acks>>

SenderStep == SendNum \/ SendHeader \/ SendPayload \/ ReceiveAck \/ AckEndOfFile
                \/ SenderDies

ReceiverStep == ReceiveNum \/ NumEndOfFile \/ ReceiveHeader \/ HeaderEndOfFile
                  \/ ReceivePayload \/ ShortPayload \/ PayloadEndOfFile \/ SendAck
                  \/ ReceiverDies

Terminated ==
  /\ \/ rpc = "undefined"
     \/ rpc \in {"done", "null"} \union Gone /\ spc \in {"done"} \union Gone
  /\ UNCHANGED vars

Next == SenderStep \/ ReceiverStep \/ CloseSender \/ CloseReceiver \/ Terminated

\* Both processes keep running; nothing obliges an end to go away.
Fairness == WF_vars(SenderStep) /\ WF_vars(ReceiverStep)

Spec == Init /\ [][Next]_vars
FairSpec == Spec /\ Fairness

-----------------------------------------------------------------------------

\* A packet of the list may also be one whose payload was read only in part.
Message == [kind : {"num", "file_size", "json_size", "payload"},
            packet : 0 .. MaxPackets, damage : {"none", "rest"} \union Damage]

\* Every variable has its type; the sender never leaves its list of packets.
TypeOK ==
  /\ num_packets \in 0 .. MaxPackets /\ path \in {"raw", "gz"}
  /\ spc \in {"num", "header", "payload", "ack", "done"} \union Gone
  /\ packet \in 0 .. num_packets /\ sheader \in 0 .. 3
  /\ sstatus \in {"unset", "OK", "FAIL"}
  /\ rpc \in {"num", "header", "payload", "ack", "done", "null", "undefined"} \union Gone
  /\ index \in 0 .. num_packets /\ rheader \in 0 .. 3
  /\ rstatus \in {"unset", "OK", "FAIL"}
  /\ list \in Seq(Message) /\ data \in Seq(Message)
  /\ acks \in Seq({"OK", "FAIL"})
  /\ closed \subseteq {"sender", "receiver"}
  /\ faults \in Seq(Damage \union {"short", "close"})

\* The packets the receiver has accepted: all of its list, but for a last one
\* that it is about to refuse.
Accepted ==
  IF list # <<>> /\ rstatus = "FAIL" /\ Last(list).damage = "data"
    THEN Front(list) ELSE list

\* Whatever is damaged, cut short or closed, the list holds the packets of the
\* message in order, each once, and none whose data is damaged
\* (middle.c:142-170).
InOrder ==
  \A n \in DOMAIN Accepted :
    Accepted[n].packet = n /\ Accepted[n].damage \in {"none", "flag", "rest"}

\* The sender leaves a packet behind only when the receiver has accepted it
\* (middle.c:58-64 against middle.c:324-340), unless the receiver is gone, and
\* the receiver is never ahead of the sender.
AckMeansAccepted ==
  /\ Len(Accepted) <= packet
  /\ \/ "receiver" \in closed
     \/ packet - 1 <= Len(Accepted) /\ (spc = "done" => Len(Accepted) >= num_packets)

\* What receive_data and send_data promise: module Delivery.
Result ==
  CASE rpc = "done" -> "returned"
    [] rpc \in {"null", "undefined"} \union Gone -> "failed"
    [] OTHER -> "pending"

Abstract == INSTANCE Delivery WITH
  total <- num_packets, delivered <- Len(Accepted), result <- Result

Implements == Abstract!Spec

\* Nothing happened that the protocol has no answer for: no end went away, no
\* recv was short, and payloads were damaged only in their data and only on the
\* raw path.
Harmless == \A n \in DOMAIN faults : faults[n] = "data" /\ path = "raw"

\* The message arrives, however often its payloads are damaged on the raw path.
Completes == []Harmless => <>(spc = "done" /\ rpc = "done")

-----------------------------------------------------------------------------
(* What the documentation says and the code does not do.                   *)

\* "Then, sends the compressed file and waits for a CHECKSUM_OK. Otherwise,
\* sends the message again" (middle.h:82-83): the receiver understands the
\* second sending.
RetryUnderstood == rpc # "undefined"

=============================================================================
