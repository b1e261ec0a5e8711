----------------------------- MODULE MCTransfer -----------------------------
(***************************************************************************)
(* Transfer with messages of up to three packets on both paths, every kind *)
(* of fault, and up to three faults: a packet refused twice, two packets   *)
(* refused once, and an end that goes away before, between or after them.  *)
(***************************************************************************)
EXTENDS Transfer

MCMaxPackets == 3
MCMaxFaults == 3
MCPaths == {"raw", "gz"}
MCFaults == {"data", "json", "flag", "short", "close"}

\* Only one kind of fault, for the disagreements with the documentation.
MCCompressed == {"gz"}
MCDamagedData == {"data"}

=============================================================================
