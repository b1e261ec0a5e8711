---------------------------- MODULE MCThreadList ----------------------------
(***************************************************************************)
(* ThreadList with three threads and three addresses: enough for a tail    *)
(* with a predecessor to be removed, for its address to be handed out      *)
(* again, for a thread to be lost behind the dangling last pointer, for    *)
(* the list to drain and to be used again, and for the main thread and a   *)
(* worker to walk it at once.                                              *)
(***************************************************************************)
EXTENDS ThreadList

CONSTANTS t1, t2, t3, n1, n2, n3

MCThreads == {t1, t2, t3}
MCNodes == {n1, n2, n3}

\* Neither threads nor addresses are ordered, and every property is a safety
\* property.
Symmetry == Permutations(MCThreads) \union Permutations(MCNodes)

=============================================================================
