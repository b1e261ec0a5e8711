------------------------------ MODULE MCServer ------------------------------
(***************************************************************************)
(* Server with two clients and two listening sockets, so that connections  *)
(* may be ready at the same time.  Each client may send a command and      *)
(* leave at any moment, SIGINT comes at any moment, twice, and the second  *)
(* client is all that can trouble the first: of no known type, perhaps     *)
(* silent, and the one whose worker takes the second SIGINT.               *)
(***************************************************************************)
EXTENDS Server

CONSTANTS c1, c2, n1, n2

MCThreads == {c1, c2}
MCNodes == {n1, n2}
MCFamilies == <<"ipv4", "unix">>
MCUnknown == {{c2}}
MCSilent == {{c2}}
MCInterrupted == {c2}
MCBacklog == 2
MCMaxCommands == 1

=============================================================================
