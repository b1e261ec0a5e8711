----------------------------- MODULE MCSession -----------------------------
(***************************************************************************)
(* Session with up to three commands and acknowledgements of four bytes.   *)
(***************************************************************************)
EXTENDS Session

MCMaxCommands == 3
MCStatusBytes == 4

=============================================================================
