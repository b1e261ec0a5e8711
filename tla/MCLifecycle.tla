----------------------------- MODULE MCLifecycle -----------------------------
(***************************************************************************)
(* Lifecycle with two server processes, a client of each socket so that a  *)
(* round accepts up to three, two signals and one fault.                   *)
(***************************************************************************)
EXTENDS Lifecycle

CONSTANTS s1, s2, c1, c2, c3

MCServers == {s1, s2}
MCClients == {c1, c2, c3}
MCProtocol ==
  [c \in MCClients |-> IF c = c1 THEN "unix" ELSE IF c = c2 THEN "ipv4" ELSE "ipv6"]

=============================================================================
