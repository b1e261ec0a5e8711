------------------------------ MODULE Lifecycle ------------------------------
(***************************************************************************)
(* The life of server processes and of the names they are reached by:      *)
(* server_init creates the three listening sockets one after the other,    *)
(* close_server closes them and removes the path of the Unix socket, both  *)
(* when a start fails and when SIGINT ends a server, then after the joins  *)
(* of end_threads; an error handler's exit, like a signal without a        *)
(* handler, ends one without it (src/src/server.c, src/src/middle.c).      *)
(* client_init connects to one of the three names (src/src/clients.c); a   *)
(* round of wait_client accepts from all that are ready and serves one.    *)
(* What is said on a connection is in Server and Session.                  *)
(*                                                                         *)
(* What the kernel does is part of the model: a path names the socket that *)
(* was bound to it until somebody unlinks it, also when that socket is     *)
(* gone; a port is free as soon as its owner is gone, or some time later   *)
(* when connections of it are in TIME_WAIT.                                *)
(***************************************************************************)
EXTENDS Naturals, FiniteSets

CONSTANTS
  Servers,        \* a server process and its later starts have one name
  Clients,
  Protocol,       \* the protocol each client is told to use
  MaxSignals,     \* bound on the kills and interrupts
  MaxFaults,      \* bound on the calls that fail
  NONE

Sockets == <<"unix", "ipv4", "ipv6">>   \* in the order of server_init
Names == {"unix", "ipv4", "ipv6"}
TCP == {"ipv4", "ipv6"}

ASSUME LifecycleAssumption ==
  /\ IsFiniteSet(Servers) /\ IsFiniteSet(Clients)
  /\ NONE \notin {"dead", "wait"} /\ {NONE, "dead", "wait"} \intersect Servers = {}
  /\ Protocol \in [Clients -> Names]
  /\ MaxSignals \in Nat /\ MaxFaults \in Nat

VARIABLES
  stage,        \* what each server does
  sock,         \* which of the sockets it creates or closes
  listening,    \* the sockets of each server that listen
  path,         \* whose socket SOCKET_PATH names, or "dead"
  port,         \* who holds each port, or "wait"
  client,       \* what each client does
  peer,         \* the server it is connected to
  signals,      \* how many servers were killed or interrupted
  cut,          \* the path was left by a server that ended without close_server
  faults,       \* how many calls failed
  met           \* the servers that another process ran beside

names == <<path, port>>
bounds == <<signals, cut, faults>>
vars == <<stage, sock, listening, names, client, peer, bounds, met>>

Init ==
  /\ stage = [s \in Servers |-> "off"] /\ sock = [s \in Servers |-> 1]
  /\ listening = [s \in Servers |-> {}]
  /\ path = NONE /\ port = [f \in TCP |-> NONE]
  /\ client = [c \in Clients |-> "off"] /\ peer = [c \in Clients |-> NONE]
  /\ signals = 0 /\ cut = FALSE /\ faults = 0
  /\ met = {}

Runs(s) == stage[s] # "off"
Goto(s, at, k) == stage' = [stage EXCEPT ![s] = at] /\ sock' = [sock EXCEPT ![s] = k]

-----------------------------------------------------------------------------
(* server_init                                                             *)

Start(s) ==
  /\ ~Runs(s)
  /\ Goto(s, "bind", 1)
  /\ LET others == {t \in Servers : Runs(t)}
     IN met' = IF others = {} THEN met \ {s} ELSE met \union others \union {s}
  /\ UNCHANGED <<listening, names, client, peer, bounds>>

\* bind fails when the name is there already, whoever left it.
Free(f) == IF f = "unix" THEN path = NONE ELSE port[f] = NONE

Take(s, f) ==
  IF f = "unix" THEN path' = s /\ UNCHANGED port
  ELSE port' = [port EXCEPT ![f] = s] /\ UNCHANGED path

\* Mutants of Bind: its result is not looked at, for the ports or for the path;
\* a server that could not bind the path exits without close_server.
BindAnyPort(s) ==
  /\ stage[s] = "bind"
  /\ LET f == Sockets[sock[s]]
     IN IF Free(f) \/ f # "unix" THEN Take(s, f) /\ Goto(s, "listen", sock[s])
        ELSE Goto(s, "close", 1) /\ UNCHANGED names
  /\ UNCHANGED <<listening, client, peer, bounds, met>>

BindAnyPath(s) ==
  /\ stage[s] = "bind"
  /\ LET f == Sockets[sock[s]]
     IN IF Free(f) THEN Take(s, f) /\ Goto(s, "listen", sock[s])
        ELSE Goto(s, IF f = "unix" THEN "listen" ELSE "close", 1) /\ UNCHANGED names
  /\ UNCHANGED <<listening, client, peer, bounds, met>>

BindGivesUp(s) ==
  /\ stage[s] = "bind"
  /\ LET f == Sockets[sock[s]]
     IN IF Free(f) THEN Take(s, f) /\ Goto(s, "listen", sock[s])
        ELSE Goto(s, IF f = "unix" THEN "off" ELSE "close", 1) /\ UNCHANGED names
  /\ UNCHANGED <<listening, client, peer, bounds, met>>

\* A create_..._socket that returns -1 makes server_init call close_server.
Bind(s) ==
  /\ stage[s] = "bind"
  /\ LET f == Sockets[sock[s]]
     IN IF Free(f) THEN Take(s, f) /\ Goto(s, "listen", sock[s])
        ELSE Goto(s, "close", 1) /\ UNCHANGED names
  /\ UNCHANGED <<listening, client, peer, bounds, met>>

Listen(s) ==
  /\ stage[s] = "listen"
  /\ listening' = [listening EXCEPT ![s] = @ \union {Sockets[sock[s]]}]
  /\ IF sock[s] < 3 THEN Goto(s, "bind", sock[s] + 1) ELSE Goto(s, "handler", 1)
  /\ UNCHANGED <<names, client, peer, bounds, met>>

\* socket or listen returns -1.
CreateFails(s) ==
  /\ stage[s] \in {"bind", "listen"} /\ faults < MaxFaults
  /\ Goto(s, "close", 1) /\ faults' = faults + 1
  /\ UNCHANGED <<listening, names, client, peer, signals, cut, met>>

InstallHandler(s) ==
  /\ stage[s] = "handler" /\ Goto(s, "serving", 1)
  /\ UNCHANGED <<listening, names, client, peer, bounds, met>>

-----------------------------------------------------------------------------
(* close_server                                                            *)

\* Whether a worker of the server has a client.
Serves(s, f) == \E c \in Clients : peer[c] = s /\ Protocol[c] = f /\ client[c] = "served"
HasWorkers(s) == \E f \in Names : Serves(s, f)

\* sigint_handler: end_threads joins the workers, and is held up when one of them
\* waits in recv for its client, or for a lock that nobody gives back (see
\* Server and ThreadList).  A start that fails has no workers.
Interrupt(s) ==
  /\ stage[s] = "serving" /\ signals < MaxSignals
  /\ \/ Goto(s, "join", 1)
     \/ HasWorkers(s) /\ Goto(s, "held", 1)
  /\ signals' = signals + 1
  /\ UNCHANGED <<listening, names, client, peer, cut, faults, met>>

\* The client that was waited for goes on, or is gone; it need not.
Resume(s) ==
  /\ stage[s] = "held" /\ Goto(s, "join", 1)
  /\ UNCHANGED <<listening, names, client, peer, bounds, met>>

\* The joins are over.
EndThreads(s) ==
  /\ stage[s] = "join" /\ Goto(s, "close", 1)
  /\ UNCHANGED <<listening, names, client, peer, bounds, met>>

\* The connections that end with the sockets gone: those not accepted end with
\* the listening socket, all of them with the process.
Drop(s, gone, all) ==
  client' = [c \in Clients |->
    IF peer[c] = s /\ Protocol[c] \in gone /\ (all \/ client[c] = "connected") THEN "dropped"
    ELSE client[c]]

\* What a port becomes when its owner is gone.
Accepted(s, f) == \E c \in Clients : peer[c] = s /\ Protocol[c] = f /\ client[c] \in {"served", "lost"}
Left(s, f) == {NONE} \union (IF Accepted(s, f) THEN {"wait"} ELSE {})

Release(s, gone) ==
  /\ path' = IF path = s /\ "unix" \in gone THEN "dead" ELSE path
  /\ \E after \in [TCP -> {NONE, "wait"}] :
       /\ \A f \in TCP : after[f] \in Left(s, f)
       /\ port' = [f \in TCP |-> IF port[f] = s /\ f \in gone THEN after[f] ELSE port[f]]

\* Mutant of CloseSocket: the last socket is not closed.
CloseSocketTwo(s) ==
  /\ stage[s] = "close"
  /\ LET gone == {Sockets[sock[s]]}
     IN /\ Release(s, gone) /\ Drop(s, gone, FALSE)
        /\ listening' = [listening EXCEPT ![s] = @ \ gone]
  /\ IF sock[s] < 2 THEN Goto(s, "close", sock[s] + 1) ELSE Goto(s, "unlink", 1)
  /\ UNCHANGED <<peer, bounds, met>>

CloseSocket(s) ==
  /\ stage[s] = "close"
  /\ LET gone == {Sockets[sock[s]]}
     IN /\ Release(s, gone) /\ Drop(s, gone, FALSE)
        /\ listening' = [listening EXCEPT ![s] = @ \ gone]
  /\ IF sock[s] < 3 THEN Goto(s, "close", sock[s] + 1) ELSE Goto(s, "unlink", 1)
  /\ UNCHANGED <<peer, bounds, met>>

\* Mutant of Unlink: exit alone.
UnlinkForgets(s) ==
  /\ stage[s] = "unlink" /\ Goto(s, "off", 1)
  /\ Drop(s, Names, TRUE)
  /\ UNCHANGED <<listening, names, peer, bounds, met>>

\* unlink removes the path whoever owns it; exit.
Unlink(s) ==
  /\ stage[s] = "unlink" /\ Goto(s, "off", 1)
  /\ path' = NONE /\ cut' = FALSE
  /\ Drop(s, Names, TRUE)
  /\ UNCHANGED <<listening, port, peer, signals, faults, met>>

\* The process ends as it is, and the kernel closes what it had.
End(s) ==
  /\ Goto(s, "off", 1)
  /\ Release(s, Names) /\ Drop(s, Names, TRUE)
  /\ cut' = (cut \/ (path' = "dead" /\ (path = s \/ stage[s] \in {"close", "unlink"})))
  /\ listening' = [listening EXCEPT ![s] = {}]
  /\ UNCHANGED <<peer, met>>

\* A signal without a handler: SIGKILL or SIGPIPE at any time, SIGINT before
\* sigaction or in the close_server of a start that failed.
Kill(s) ==
  /\ Runs(s) /\ signals < MaxSignals
  /\ End(s) /\ signals' = signals + 1 /\ UNCHANGED faults

\* exit(EXIT_FAILURE): a call of the main thread or of a worker fails, and
\* workers are there until the process is gone.
ExitOnError(s) ==
  /\ stage[s] = "serving" \/ (stage[s] \in {"held", "join", "close", "unlink"} /\ HasWorkers(s))
  /\ faults < MaxFaults
  /\ End(s) /\ faults' = faults + 1 /\ UNCHANGED signals

\* The kernel gives up a port.
WaitEnds(f) ==
  /\ port[f] = "wait" /\ port' = [port EXCEPT ![f] = NONE]
  /\ UNCHANGED <<stage, sock, listening, path, client, peer, bounds, met>>

-----------------------------------------------------------------------------
(* Clients: client_init, and the accept of the server's main thread.       *)

\* Where connect leads to.
Owner(f) == IF f = "unix" THEN path ELSE port[f]
Leads(f) == {s \in Servers : s = Owner(f) /\ f \in listening[s]}

Connect(c) ==
  /\ client[c] \in {"off", "dropped"}
  /\ \E s \in Leads(Protocol[c]) : peer' = [peer EXCEPT ![c] = s]
  /\ client' = [client EXCEPT ![c] = "connected"]
  /\ UNCHANGED <<stage, sock, listening, names, bounds, met>>

\* connect fails: the client exits, and can be started again.
Refused(c) ==
  /\ client[c] \in {"off", "dropped"} /\ Leads(Protocol[c]) = {}
  /\ client' = [client EXCEPT ![c] = "off"] /\ peer' = [peer EXCEPT ![c] = NONE]
  /\ UNCHANGED <<stage, sock, listening, names, bounds, met>>

\* A client that nobody answers is ended by its user, and can be started again.
GiveUp(c) ==
  /\ client[c] = "lost"
  /\ client' = [client EXCEPT ![c] = "off"] /\ peer' = [peer EXCEPT ![c] = NONE]
  /\ UNCHANGED <<stage, sock, listening, names, bounds, met>>

\* The connections that wait to be accepted.
Queue(s, f) == {c \in Clients : peer[c] = s /\ Protocol[c] = f /\ client[c] = "connected"}

\* The order in which wait_client looks at the sockets.
Turn == [f \in Names |-> IF f = "ipv4" THEN 1 ELSE IF f = "ipv6" THEN 2 ELSE 3]

\* Mutant of Accept: the third socket is not looked at.
AcceptTwo(s) ==
  LET ready == {f \in TCP : Queue(s, f) # {}}
      last == CHOOSE f \in ready : \A g \in ready : Turn[g] <= Turn[f]
  IN /\ stage[s] = "serving" /\ ready # {}
     /\ \E head \in [ready -> Clients] :
          /\ \A f \in ready : head[f] \in Queue(s, f)
          /\ client' = [c \in Clients |-> IF c = head[last] THEN "served"
                                       ELSE IF \E f \in ready : c = head[f] THEN "lost"
                                       ELSE client[c]]
     /\ UNCHANGED <<stage, sock, listening, names, peer, bounds, met>>

\* A round of wait_client: one connection of each socket that is ready is
\* accepted, and the last of them gets a thread.
Accept(s) ==
  LET ready == {f \in Names : Queue(s, f) # {}}
      last == CHOOSE f \in ready : \A g \in ready : Turn[g] <= Turn[f]
  IN /\ stage[s] = "serving" /\ ready # {}
     /\ \E head \in [ready -> Clients] :
          /\ \A f \in ready : head[f] \in Queue(s, f)
          /\ client' = [c \in Clients |-> IF c = head[last] THEN "served"
                                       ELSE IF \E f \in ready : c = head[f] THEN "lost"
                                       ELSE client[c]]
     /\ UNCHANGED <<stage, sock, listening, names, peer, bounds, met>>

Server(s) ==
  Bind(s) \/ Listen(s) \/ InstallHandler(s) \/ Accept(s) \/ EndThreads(s) \/ CloseSocket(s) \/ Unlink(s)

Outside(s) == CreateFails(s) \/ Interrupt(s) \/ Resume(s) \/ Kill(s) \/ ExitOnError(s)

Next ==
  \/ \E s \in Servers : Start(s) \/ Server(s) \/ Outside(s)
  \/ \E c \in Clients : Connect(c) \/ Refused(c) \/ GiveUp(c)
  \/ \E f \in TCP : WaitEnds(f)

Spec == Init /\ [][Next]_vars

\* Processes run on; a server that has ended and a client that was refused, or that
\* nobody answers, are started again and again; TIME_WAIT is over some time.
Fairness ==
  /\ \A s \in Servers : WF_vars(Start(s)) /\ WF_vars(Server(s))
  /\ \A c \in Clients : WF_vars(Connect(c)) /\ WF_vars(GiveUp(c))
  /\ \A f \in TCP : WF_vars(WaitEnds(f))

FairSpec == Spec /\ Fairness

-----------------------------------------------------------------------------

Holds(s, f) == Owner(f) = s

\* Every variable has its type; the names a process holds and the sockets that
\* listen are those it has created and not yet closed.
TypeOK ==
  /\ path \in Servers \union {NONE, "dead"} /\ port \in [TCP -> Servers \union {NONE, "wait"}]
  /\ signals \in 0 .. MaxSignals /\ faults \in 0 .. MaxFaults /\ cut \in BOOLEAN
  /\ met \subseteq Servers
  /\ \A s \in Servers :
       /\ stage[s] \in {"off", "bind", "listen", "handler", "serving", "held", "join", "close", "unlink"}
       /\ sock[s] \in 1 .. 3
       /\ stage[s] \in {"off", "unlink"} => listening[s] = {} /\ \A f \in TCP : ~Holds(s, f)
       /\ stage[s] \in {"bind", "listen"} => listening[s] = {Sockets[k] : k \in 1 .. sock[s] - 1}
  /\ \A c \in Clients :
       /\ client[c] \in {"off", "connected", "served", "lost", "dropped"}
       /\ client[c] \in {"connected", "served", "lost"} => Runs(peer[c])

\* Two servers never serve at the same time, whatever starts, ends, and is
\* killed, and the ports lead to the one that does: a second one may take the
\* path but not the ports (server.c:37-44, 103-107, 136-140).
OneServer ==
  \A s \in Servers : stage[s] = "serving" =>
    /\ \A t \in Servers \ {s} : stage[t] # "serving"
    /\ \A f \in TCP : Leads(f) = {s}

\* The path leads to the server that serves when no other server process was
\* about since it was started: no start goes on with a path that leads to a dead
\* socket (server.c:37-38, 70-74).
PathLeadsHome ==
  \A s \in Servers \ met : stage[s] = "serving" => Leads("unix") = {s}

\* A path that leads to a dead socket is being removed by a close_server, or was
\* left by a server that was killed or exited on an error, after the last unlink:
\* no interrupt and no start that fails leaves it (server.c:377-394, against 174,
\* 198, 218, 231, 258, 295, 359, 364 and middle.c:77, 309, 315, 345, 351).
LeavesNoPath ==
  path = "dead" /\ ~cut => \E s \in Servers : stage[s] \in {"close", "unlink"}

\* The path leads to the server that serves if that had it to itself, and to a
\* dead socket only if close_server was not reached (server.c:8-22, 389).
PathSound == PathLeadsHome /\ LeavesNoPath

\* Whatever is left of servers that were killed or exited on an error, some later
\* start succeeds: the failed start that meets a dead path removes it.  Only a
\* server that was interrupted and waits for ever to join a worker keeps its
\* names from all others (server.c:37-38, 381, 389).
Restartable == <>[](\E s \in Servers : stage[s] \in {"serving", "held"})

\* A client of a path that another server process took away from the one that
\* serves, and of which that one has no connection.
ShutOut(c) ==
  /\ Protocol[c] = "unix"
  /\ \E s \in met : /\ stage[s] = "serving" /\ Leads("unix") # {s}
                    /\ ~(client[c] \in {"connected", "lost"} /\ peer[c] = s)

\* A client that is started until it is served, by a user who ends it when it is
\* accepted and not answered, is served for good once signals and faults are
\* over, also one that is still to be accepted when the path is taken away; not
\* by a server that waits for ever to join a worker, and not through a path that
\* leads elsewhere (server.c:184-203, 389, clients.c:83-107).
GetsThrough ==
  \A c \in Clients : <>[](client[c] = "served" \/ ShutOut(c) \/ \E s \in Servers : stage[s] = "held")

=============================================================================
