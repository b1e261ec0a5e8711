------------------------------ MODULE Delivery ------------------------------
(***************************************************************************)
(* What send_data and receive_data promise each other: the receiver takes  *)
(* the packets of the message in order, each of them once and undamaged,   *)
(* and receive_data hands the message over only when it has all of them.   *)
(* Either end may give up at any moment, and then nothing is handed over.  *)
(***************************************************************************)
EXTENDS Naturals

CONSTANT MaxPackets   \* bound on the number of packets of a message

VARIABLES
  total,      \* the number of packets of the message
  delivered,  \* how many of them, from the first on, have been accepted
  result      \* "pending", "returned" or "failed"

vars == <<total, delivered, result>>

Init ==
  /\ total \in 0 .. MaxPackets
  /\ delivered = 0
  /\ result = "pending"

Deliver ==
  /\ result = "pending" /\ delivered < total
  /\ delivered' = delivered + 1
  /\ UNCHANGED <<total, result>>

Return ==
  /\ result = "pending" /\ delivered = total
  /\ result' = "returned"
  /\ UNCHANGED <<total, delivered>>

Fail ==
  /\ result = "pending"
  /\ result' = "failed"
  /\ UNCHANGED <<total, delivered>>

Next == Deliver \/ Return \/ Fail

Spec == Init /\ [][Next]_vars

=============================================================================
