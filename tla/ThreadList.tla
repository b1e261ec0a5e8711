----------------------------- MODULE ThreadList -----------------------------
(***************************************************************************)
(* The list of threads of the server (src/src/server_utils.c), node by     *)
(* node, with the worker threads that add and remove themselves under the  *)
(* mutex (src/src/server.c:237-239, 273-275) and the threads that walk it  *)
(* without the mutex to join the others (end_threads): the main thread     *)
(* when SIGINT interrupts it, but also a worker, which the kernel gives    *)
(* the next SIGINT to, or which was sent a type of client that there is    *)
(* not (close_server in client_select).  Such a worker never returns.      *)
(*                                                                         *)
(* A node is an address.  Freed addresses keep their contents until malloc *)
(* hands them out again; reading one through end_threads' cursor leaves    *)
(* the walk in a state that is not followed any further.                   *)
(***************************************************************************)
EXTENDS Naturals, Sequences, FiniteSets, SequencesExt

CONSTANTS
  Threads,   \* the worker threads the server ever creates
  Nodes,     \* the addresses malloc can return for a struct node
  MAIN,      \* the main thread
  MaxCallers,  \* bound on the threads that call end_threads
  NULL       \* the null pointer, and the free mutex

ASSUME ThreadListAssumption ==
  /\ IsFiniteSet(Nodes) /\ Cardinality(Nodes) >= Cardinality(Threads)
  /\ NULL \notin Threads \union Nodes \union {MAIN} /\ MAIN \notin Threads
  /\ MaxCallers \in Nat \ {0}

Callers == Threads \union {MAIN}

VARIABLES
  head, last,     \* thread_list
  tid, next,      \* the fields of the nodes
  live,           \* the addresses malloc has handed out and free not taken back
  holder,         \* the thread that holds lock
  aux, prev,      \* the locals of the rmv_thread call that is running
  pc,             \* where each worker is
  walk,           \* where the end_threads of each caller is
  cursor,         \* its aux
  joining,        \* the thread it waits for in pthread_join
  joined,         \* the threads that were joined
  due,            \* history: the threads listed when end_threads began
  raced           \* history: a thread has left the list since

list == <<head, last, tid, next, live>>
walker == <<walk, cursor, joining, joined>>
history == <<due, raced>>
vars == <<list, holder, aux, prev, pc, walker, history>>

-----------------------------------------------------------------------------

\* The nodes reachable from head, as far as there are distinct ones.
ChainNode[k \in 1 .. Cardinality(Nodes)] ==
  IF k = 1 THEN head
  ELSE IF ChainNode[k - 1] = NULL THEN NULL ELSE next[ChainNode[k - 1]]

Chain == SubSeq(ChainNode, 1, Cardinality({k \in DOMAIN ChainNode : ChainNode[k] # NULL}))

Listed == {tid[Chain[k]] : k \in DOMAIN Chain}

Init ==
  /\ head = NULL /\ last = NULL
  /\ tid = [n \in Nodes |-> NULL] /\ next = [n \in Nodes |-> NULL]
  /\ live = {}
  /\ holder = NULL /\ aux = NULL /\ prev = NULL
  /\ pc = [t \in Threads |-> "new"]
  /\ walk = [k \in Callers |-> "off"]
  /\ cursor = [k \in Callers |-> NULL] /\ joining = [k \in Callers |-> NULL]
  /\ joined = {}
  /\ due = [k \in Callers |-> {}] /\ raced = FALSE

Closing == {k \in Callers : walk[k] # "off"}

At(t, at) == pc[t] = at /\ t \notin Closing

-----------------------------------------------------------------------------
(* add_thread and rmv_thread, each called with the mutex held.             *)

\* The node malloc returned is n.
\* Mutant: its next is left as malloc returned it.
LinkNodeNoNull(t, n) ==
  /\ live' = live \union {n}
  /\ tid' = [tid EXCEPT ![n] = t]
  /\ IF head = NULL
       THEN head' = n /\ UNCHANGED next
       ELSE next' = [next EXCEPT ![last] = n] /\ UNCHANGED head
  /\ last' = n

LinkNode(t, n) ==
  /\ live' = live \union {n}
  /\ tid' = [tid EXCEPT ![n] = t]
  /\ IF head = NULL
       THEN head' = n /\ next' = [next EXCEPT ![n] = NULL]
       ELSE next' = [next EXCEPT ![n] = NULL, ![last] = n] /\ UNCHANGED head
  /\ last' = n

\* lock, add_thread, unlock.  The lists other readers see change in one write.
AddThread(t) ==
  /\ At(t, "new") /\ holder = NULL
  /\ \E n \in Nodes \ live : LinkNode(t, n)
  /\ pc' = [pc EXCEPT ![t] = "serving"]
  /\ UNCHANGED <<holder, aux, prev, walker, history>>

\* Mutant of RmvThread: the mutex is not waited for.
RmvThreadUnlocked(t) ==
  /\ At(t, "serving")
  /\ holder' = t /\ aux' = head /\ prev' = NULL
  /\ pc' = [pc EXCEPT ![t] = "searching"]
  /\ UNCHANGED <<list, walker, history>>

\* The client has gone: lock, and the first lines of rmv_thread.
RmvThread(t) ==
  /\ At(t, "serving") /\ holder = NULL
  /\ holder' = t /\ aux' = head /\ prev' = NULL
  /\ pc' = [pc EXCEPT ![t] = "searching"]
  /\ UNCHANGED <<list, walker, history>>

SearchNext(t) ==
  /\ At(t, "searching") /\ aux # NULL /\ tid[aux] # t
  /\ prev' = aux /\ aux' = next[aux]
  /\ UNCHANGED <<list, holder, pc, walker, history>>

\* Mutant of Unlink: the predecessor is not looked at.
UnlinkAtHead(t) ==
  /\ At(t, "searching") /\ aux # NULL /\ tid[aux] = t
  /\ head' = next[aux] /\ UNCHANGED next
  /\ pc' = [pc EXCEPT ![t] = "freeing"]
  /\ raced' = (raced \/ Closing # {})
  /\ UNCHANGED <<last, tid, live, holder, aux, prev, walker, due>>

Unlink(t) ==
  /\ At(t, "searching") /\ aux # NULL /\ tid[aux] = t
  /\ IF prev = NULL
       THEN head' = next[aux] /\ UNCHANGED next
       ELSE next' = [next EXCEPT ![prev] = next[aux]] /\ UNCHANGED head
  /\ pc' = [pc EXCEPT ![t] = "freeing"]
  /\ raced' = (raced \/ Closing # {})
  /\ UNCHANGED <<last, tid, live, holder, aux, prev, walker, due>>

Unlock(t) ==
  /\ holder' = NULL /\ aux' = NULL /\ prev' = NULL
  /\ pc' = [pc EXCEPT ![t] = "leaving"]

FreeNode(t) ==
  /\ At(t, "freeing")
  /\ live' = live \ {aux}
  /\ Unlock(t)
  /\ UNCHANGED <<head, last, tid, next, walker, history>>

NotFound(t) ==
  /\ At(t, "searching") /\ aux = NULL
  /\ Unlock(t)
  /\ UNCHANGED <<list, walker, history>>

-----------------------------------------------------------------------------
(* The end of a worker, and end_threads.                                   *)

\* server_logic returned, either after rmv_thread or because the handler of
\* SIGINT has set the flag, in the main thread first.
ThreadEnds(t) ==
  /\ At(t, "leaving") \/ (At(t, "serving") /\ MAIN \in Closing)
  /\ pc' = [pc EXCEPT ![t] = "ended"]
  /\ UNCHANGED <<list, holder, aux, prev, walker, history>>

\* A worker comes here when it serves a client of no known type, or interrupted
\* in whatever it does after the main thread was.
EndThreads(k) ==
  /\ k \notin Closing /\ Cardinality(Closing) < MaxCallers
  /\ k # MAIN => pc[k] = "serving" \/ (MAIN \in Closing /\ pc[k] # "ended")
  /\ walk' = [walk EXCEPT ![k] = "at"] /\ cursor' = [cursor EXCEPT ![k] = head]
  /\ due' = [due EXCEPT ![k] = Listed]
  /\ UNCHANGED <<list, holder, aux, prev, pc, joining, joined, raced>>

Goto(k, at) == walk' = [walk EXCEPT ![k] = at]

\* pthread_join returns at once with an error: the caller would wait for itself,
\* for a thread that waits for it, or for one that another thread waits for.
Refuses(k, t) == t = k \/ joining[t] = k \/ \E j \in Callers : joining[j] = t

\* The cursor is dereferenced for aux->tid; what it means to join a thread a
\* second time is undefined.
CallJoin(k) ==
  /\ walk[k] = "at" /\ cursor[k] # NULL
  /\ LET t == tid[cursor[k]]
     IN \/ (cursor[k] \notin live \/ t \in joined) /\ Goto(k, "undefined") /\ UNCHANGED joining
        \/ /\ cursor[k] \in live /\ (Refuses(k, t) \/ t \in joined)
           /\ Goto(k, "joined") /\ UNCHANGED joining
        \/ /\ cursor[k] \in live /\ ~Refuses(k, t) /\ t \notin joined
           /\ Goto(k, "joining") /\ joining' = [joining EXCEPT ![k] = t]
  /\ UNCHANGED <<list, holder, aux, prev, pc, cursor, joined, history>>

\* Mutant of JoinReturns: it does not wait.
JoinReturnsAtOnce(k) ==
  /\ walk[k] = "joining"
  /\ Goto(k, "joined") /\ joined' = joined \union {joining[k]}
  /\ joining' = [joining EXCEPT ![k] = NULL]
  /\ UNCHANGED <<list, holder, aux, prev, pc, cursor, history>>

JoinReturns(k) ==
  /\ walk[k] = "joining" /\ pc[joining[k]] = "ended"
  /\ Goto(k, "joined") /\ joined' = joined \union {joining[k]}
  /\ joining' = [joining EXCEPT ![k] = NULL]
  /\ UNCHANGED <<list, holder, aux, prev, pc, cursor, history>>

\* The cursor is dereferenced again, for aux->next.
ToNextNode(k) ==
  /\ walk[k] = "joined"
  /\ IF cursor[k] \in live
     THEN Goto(k, "at") /\ cursor' = [cursor EXCEPT ![k] = next[@]]
     ELSE Goto(k, "undefined") /\ UNCHANGED cursor
  /\ UNCHANGED <<list, holder, aux, prev, pc, joining, joined, history>>

EndThreadsReturns(k) ==
  /\ walk[k] = "at" /\ cursor[k] = NULL
  /\ Goto(k, "done")
  /\ UNCHANGED <<list, holder, aux, prev, pc, cursor, joining, joined, history>>

RmvStep(t) == SearchNext(t) \/ Unlink(t) \/ FreeNode(t) \/ NotFound(t)

Walk(k) == CallJoin(k) \/ JoinReturns(k) \/ ToNextNode(k) \/ EndThreadsReturns(k)

\* close_server goes on to exit, or nothing is known any more.
Over == \E k \in Callers : walk[k] \in {"done", "undefined"}

\* A worker was interrupted while it had the mutex: whoever waits for the mutex
\* waits for ever.
LockLost == holder \in Closing

Terminated == (Over \/ LockLost) /\ UNCHANGED vars

Next ==
  \/ ~Over /\ \E t \in Threads : AddThread(t) \/ RmvThread(t) \/ RmvStep(t) \/ ThreadEnds(t)
  \/ ~Over /\ \E k \in Callers : EndThreads(k) \/ Walk(k)
  \/ Terminated

Spec == Init /\ [][Next]_vars

-----------------------------------------------------------------------------

Pointer == Nodes \union {NULL}

\* Every variable has its type, and only the thread in rmv_thread has the lock.
TypeOK ==
  /\ {head, last, aux, prev} \subseteq Pointer
  /\ tid \in [Nodes -> Threads \union {NULL}] /\ next \in [Nodes -> Pointer]
  /\ live \subseteq Nodes
  /\ holder \in Threads \union {NULL} /\ joined \subseteq Threads
  /\ pc \in [Threads -> {"new", "serving", "searching", "freeing", "leaving", "ended"}]
  /\ walk \in [Callers -> {"off", "at", "joining", "joined", "undefined", "done"}]
  /\ cursor \in [Callers -> Pointer] /\ joining \in [Callers -> Threads \union {NULL}]
  /\ due \in [Callers -> SUBSET Threads] /\ raced \in BOOLEAN
  /\ Cardinality(Closing) <= MaxCallers
  /\ \A t \in Threads : pc[t] \in {"searching", "freeing"} <=> holder = t

\* Whatever was added, removed and reused, the list ends, no node is on it
\* twice, all its nodes are live and stand for different threads that are
\* still to be joined, so rmv_thread and end_threads never loop for ever nor
\* stumble over freed memory on their own (server_utils.c:72-101).
ListSound ==
  /\ Chain = <<>> \/ next[Last(Chain)] = NULL
  /\ \A j, k \in DOMAIN Chain :
       /\ Chain[j] \in live
       /\ pc[tid[Chain[j]]] \in {"serving", "searching", "ended"}
       /\ j # k => tid[Chain[j]] # tid[Chain[k]]

\* The list behaves like ThreadRegistry.
Registry == INSTANCE ThreadRegistry WITH
  registered <- [k \in DOMAIN Chain |-> tid[Chain[k]]],
  adrift <- Chain # <<>> /\ last # Last(Chain)

Implements == Registry!Spec

\* Unless a thread takes itself off the list meanwhile, an end_threads that no
\* other thread runs into reads no freed node and joins no thread twice, and when
\* it is over every thread listed when it began has ended: all that a second
\* caller may leave out are itself, a thread that waits for it and the thread
\* the first caller waits for (server_utils.c:92-101).
EndThreadsJoinsListed ==
  ~raced => \A k \in Callers :
    /\ walk[k] = "undefined" => Closing # {k}
    /\ walk[k] = "done" => \A t \in due[k] \ {k} :
         pc[t] = "ended" \/ joining[t] = k \/ \E j \in Callers \ {k} : joining[j] = t

-----------------------------------------------------------------------------
(* What the documentation says and the code does not do.                   *)

\* "Each thread created by a client is saved in a thread list" (README.md:116):
\* a thread that serves a client can be found from the head.
ServingThreadsListed ==
  \A t \in Threads : pc[t] = "serving" => t \in Listed

=============================================================================
