--------------------------- MODULE ThreadRegistry ---------------------------
(***************************************************************************)
(* What the thread list of the server (src/src/server_utils.c) amounts to, *)
(* with its nodes and pointers left out: the sequence of the threads that  *)
(* can be reached from its head, and whether its last pointer has come     *)
(* adrift, that is, points to a node that was removed.  Threads added      *)
(* while it is adrift are lost; it is moored again when a thread is added  *)
(* to an empty list.  ThreadList, the list as the code has it, implements  *)
(* this module.                                                            *)
(***************************************************************************)
EXTENDS Naturals, Sequences, SequencesExt

CONSTANT Threads

VARIABLES
  registered,  \* the threads reachable from the head, in order
  adrift       \* last does not point to the last of them

vars == <<registered, adrift>>

Init ==
  /\ registered = <<>>
  /\ adrift = FALSE

AddThread(t) ==
  /\ ~Contains(registered, t)
  /\ registered' = IF adrift THEN registered ELSE Append(registered, t)
  /\ UNCHANGED adrift

\* A thread that was lost is not found, and nothing changes.
RmvThread(t) ==
  /\ \E k \in DOMAIN registered : registered[k] = t /\ registered' = RemoveAt(registered, k)
  /\ adrift' = (registered' # <<>> /\ (adrift \/ Last(registered) = t))

Next == \E t \in Threads : AddThread(t) \/ RmvThread(t)

Spec == Init /\ [][Next]_vars

=============================================================================
