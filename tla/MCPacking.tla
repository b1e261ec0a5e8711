----------------------------- MODULE MCPacking -----------------------------
(***************************************************************************)
(* Packing on every text of up to five packets, with packets of 4 bytes in *)
(* place of 4096: each residue of the size modulo the packet size, the     *)
(* full block and its two neighbours included, occurs with 0 to 5 packets. *)
(***************************************************************************)
EXTENDS Packing

MCPacketSize == 4
MCMaxSize == 20

=============================================================================
