-------------------------- MODULE LifecycleProofs --------------------------
(***************************************************************************)
(* Theorems about Lifecycle, for any number of servers and clients, every  *)
(* choice of protocols and every number of signals and faults.             *)
(***************************************************************************)
EXTENDS Lifecycle, TLAPS

\* Where a server process is.
Stages == {"off", "bind", "listen", "handler", "serving", "held", "join", "close", "unlink"}
\* All its sockets listen.
Open == {"handler", "serving", "held", "join"}
\* Where a client has a connection.
Linked == {"connected", "served", "lost"}

\* Every variable has its type.
Typed ==
  /\ stage \in [Servers -> Stages] /\ sock \in [Servers -> 1 .. 3]
  /\ listening \in [Servers -> SUBSET Names]
  /\ path \in Servers \union {NONE, "dead"} /\ port \in [TCP -> Servers \union {NONE, "wait"}]
  /\ client \in [Clients -> Linked \union {"off", "dropped"}]
  /\ peer \in [Clients -> Servers \union {NONE}]
  /\ signals \in 0 .. MaxSignals /\ faults \in 0 .. MaxFaults /\ cut \in BOOLEAN
  /\ met \subseteq Servers

\* The first n of the sockets of server_init.
First(n) == {Sockets[k] : k \in 1 .. n}

\* The sockets that a start has bound.
Bound(s) ==
  IF stage[s] = "bind" THEN First(sock[s] - 1)
  ELSE IF stage[s] = "listen" THEN First(sock[s])
  ELSE IF stage[s] \in Open THEN Names ELSE {}

\* The sockets an end has closed.
Closed(s) ==
  IF stage[s] = "close" THEN First(sock[s] - 1)
  ELSE IF stage[s] \in {"unlink", "off"} THEN Names ELSE {}

\* The ports a start has bound are its own; what an end has closed, it no
\* longer holds.
HoldInv ==
  \A s \in Servers :
    /\ \A f \in TCP : f \in Bound(s) => port[f] = s
    /\ \A f \in Names : f \in Closed(s) => Owner(f) # s /\ f \notin listening[s]
    /\ stage[s] \in {"bind", "listen"} => listening[s] = First(sock[s] - 1)
    /\ stage[s] \in Open => listening[s] = Names

\* Two server processes that run have met.
MetInv == \A s, t \in Servers : s # t /\ Runs(s) /\ Runs(t) => s \in met

\* A server that met no other still has the path it bound.
PathInv == \A s \in Servers \ met : "unix" \in Bound(s) => path = s

\* A client's connection leads to a server that runs.
ClientInv == \A c \in Clients : client[c] \in Linked => peer[c] \in Servers /\ Runs(peer[c])

\* The inductive invariant.
IInv == Typed /\ HoldInv /\ MetInv /\ PathInv /\ ClientInv /\ LeavesNoPath

-----------------------------------------------------------------------------

\* The listening sockets and the files they have.
LEMMA SocketsFacts ==
  /\ Sockets[1] = "unix" /\ Sockets[2] = "ipv4" /\ Sockets[3] = "ipv6"
  /\ First(0) = {} /\ First(1) = {"unix"} /\ First(2) = {"unix", "ipv4"} /\ First(3) = Names
<1>1. Sockets[1] = "unix" /\ Sockets[2] = "ipv4" /\ Sockets[3] = "ipv6"
  BY DEF Sockets
<1>2. 1 .. 0 = {} /\ 1 .. 1 = {1} /\ 1 .. 2 = {1, 2} /\ 1 .. 3 = {1, 2, 3}
  OBVIOUS
<1>3. QED
  BY <1>1, <1>2 DEF First, Names

\* Where a server is in the sequence of its sockets.
LEMMA SetsFacts ==
  ASSUME Typed, NEW s \in Servers
  PROVE  /\ First(sock[s] - 1) = IF sock[s] = 1 THEN {} ELSE IF sock[s] = 2 THEN {"unix"} ELSE {"unix", "ipv4"}
         /\ First(sock[s]) = IF sock[s] = 1 THEN {"unix"} ELSE IF sock[s] = 2 THEN {"unix", "ipv4"} ELSE Names
<1>1. sock[s] \in {1, 2, 3}
  BY DEF Typed
<1>2. QED
  BY <1>1, SocketsFacts

\* A server process starts.
LEMMA StartKeeps == ASSUME IInv, NEW s \in Servers, Start(s) PROVE IInv'
<1>1. Typed'
  BY DEF IInv, Typed, Stages, names, bounds, Goto, Start
<1>2. HoldInv'
  <2>1. /\ listening[s] = {} /\ \A f \in TCP : port[f] # s
        /\ stage' = [stage EXCEPT ![s] = "bind"] /\ sock' = [sock EXCEPT ![s] = 1]
        /\ listening' = listening /\ names' = names
    <3>1. stage[s] = "off" /\ Closed(s) = Names /\ listening[s] \subseteq Names
      BY DEF IInv, Typed, Closed, Runs, Start
    <3>2. \A f \in Names : Owner(f) # s /\ f \notin listening[s]
      BY <3>1 DEF IInv, HoldInv
    <3>3. \A f \in TCP : port[f] # s
      BY <3>2 DEF Owner, Names, TCP
    <3>4. QED
      BY <3>1, <3>2, <3>3 DEF Start, Goto
  <2>2. Bound(s)' = {} /\ Closed(s)' = {} /\ stage'[s] = "bind" /\ listening'[s] = First(sock'[s] - 1)
    <3>1. stage'[s] = "bind" /\ sock'[s] - 1 = 0 /\ listening'[s] = {}
      BY <2>1 DEF IInv, Typed
    <3>2. QED
      BY <3>1, SocketsFacts DEF Open, Bound, Closed
  <2>3. ASSUME NEW t \in Servers, t # s
        PROVE  Bound(t)' = Bound(t) /\ Closed(t)' = Closed(t) /\ stage'[t] = stage[t] /\ sock'[t] = sock[t]
    BY <2>1, <2>3 DEF IInv, Typed, Open, Bound, Closed
  <2>4. QED
    BY <2>1, <2>2, <2>3 DEF IInv, HoldInv, Open, names, Owner
<1>3. MetInv'
  BY DEF MetInv, Goto, Runs, Start
<1>4. PathInv'
  BY SocketsFacts DEF IInv, Typed, PathInv, Open, Bound, names, Goto, Start
<1>5. ClientInv'
  BY DEF IInv, ClientInv, Goto, Runs, Start
<1>6. LeavesNoPath'
  BY DEF IInv, LeavesNoPath, names, bounds, Goto, Runs, Start
<1>7. QED
  BY <1>1, <1>2, <1>3, <1>4, <1>5, <1>6 DEF IInv

\* A socket is bound, or the start has failed.
LEMMA BindKeeps == ASSUME IInv, NEW s \in Servers, Bind(s) PROVE IInv'
<1>1. Typed'
  BY DEF IInv, Typed, Stages, names, bounds, Goto, Take, Bind
<1>2. HoldInv'
  BY LifecycleAssumption, SocketsFacts DEF IInv, Typed, Names, TCP, HoldInv, Open, Bound, Closed, Owner,
     names, Goto, Take, Free, Bind
<1>3. MetInv'
  BY DEF IInv, Typed, MetInv, Goto, Runs, Bind
<1>4. PathInv'
  BY SocketsFacts DEF IInv, Typed, PathInv, MetInv, Open, Bound, Goto, Runs, Take, Bind
<1>5. ClientInv'
  BY DEF IInv, Typed, ClientInv, Goto, Runs, Bind
<1>6. LeavesNoPath'
  BY LifecycleAssumption DEF IInv, Typed, LeavesNoPath, bounds, Goto, Take, Bind
<1>7. QED
  BY <1>1, <1>2, <1>3, <1>4, <1>5, <1>6 DEF IInv

\* A socket listens.
LEMMA ListenKeeps == ASSUME IInv, NEW s \in Servers, Listen(s) PROVE IInv'
<1>1. Typed'
  BY DEF IInv, Typed, Stages, Names, Sockets, names, bounds, Goto, Listen
<1>2. HoldInv'
  <2>1. /\ stage[s] = "listen" /\ listening[s] = First(sock[s] - 1) /\ sock[s] \in 1 .. 3
        /\ listening' = [listening EXCEPT ![s] = @ \union {Sockets[sock[s]]}] /\ names' = names
        /\ IF sock[s] < 3
             THEN stage' = [stage EXCEPT ![s] = "bind"] /\ sock' = [sock EXCEPT ![s] = sock[s] + 1]
             ELSE stage' = [stage EXCEPT ![s] = "handler"] /\ sock' = [sock EXCEPT ![s] = 1]
    BY DEF IInv, Typed, HoldInv, Listen, Goto
  <2>2. listening'[s] = First(sock[s])
    BY <2>1, SocketsFacts DEF IInv, Typed, Names
  <2>3. Bound(s)' = Bound(s) /\ Closed(s)' = {}
    BY <2>1, SocketsFacts DEF IInv, Typed, Open, Bound, Closed
  <2>4. \/ stage'[s] = "bind" /\ listening'[s] = First(sock'[s] - 1)
        \/ stage'[s] = "handler" /\ listening'[s] = Names
    <3>1. CASE sock[s] < 3
      <4>1. stage'[s] = "bind" /\ sock'[s] - 1 = sock[s]
        BY <2>1, <3>1 DEF IInv, Typed
      <4>2. First(sock'[s] - 1) = First(sock[s])
        BY <4>1, Zenon
      <4>3. QED
        BY <2>2, <4>1, <4>2
    <3>2. CASE sock[s] = 3
      BY <2>1, <2>2, <3>2, SocketsFacts DEF IInv, Typed
    <3>3. QED
      BY <2>1, <3>1, <3>2
  <2>5. ASSUME NEW t \in Servers, t # s
        PROVE  /\ Bound(t)' = Bound(t) /\ Closed(t)' = Closed(t) /\ stage'[t] = stage[t]
               /\ sock'[t] = sock[t] /\ listening'[t] = listening[t]
    BY <2>1, <2>5 DEF IInv, Typed, Open, Bound, Closed
  <2>6. QED
    BY <2>1, <2>3, <2>4, <2>5 DEF IInv, HoldInv, Open, names, Owner
<1>3. MetInv'
  BY DEF IInv, Typed, MetInv, Goto, Runs, Listen
<1>4. PathInv'
  BY SocketsFacts DEF IInv, Typed, PathInv, Open, Bound, names, Goto, Listen
<1>5. ClientInv'
  BY DEF IInv, Typed, ClientInv, Goto, Runs, Listen
<1>6. LeavesNoPath'
  BY DEF IInv, Typed, LeavesNoPath, names, bounds, Goto, Listen
<1>7. QED
  BY <1>1, <1>2, <1>3, <1>4, <1>5, <1>6 DEF IInv

\* A socket is not created.
LEMMA CreateFailsKeeps == ASSUME IInv, NEW s \in Servers, CreateFails(s) PROVE IInv'
<1>1. Typed'
  BY LifecycleAssumption DEF IInv, Typed, Stages, names, Goto, CreateFails
<1>2. HoldInv'
  BY SocketsFacts DEF IInv, Typed, HoldInv, Open, Bound, Closed, Owner, names, Goto, CreateFails
<1>3. MetInv'
  BY DEF IInv, MetInv, Goto, Runs, CreateFails
<1>4. PathInv'
  BY DEF IInv, Typed, PathInv, Open, Bound, names, Goto, CreateFails
<1>5. ClientInv'
  BY DEF IInv, ClientInv, Goto, Runs, CreateFails
<1>6. LeavesNoPath'
  BY DEF IInv, Typed, LeavesNoPath, Goto, CreateFails
<1>7. QED
  BY <1>1, <1>2, <1>3, <1>4, <1>5, <1>6 DEF IInv

\* The start is over.
LEMMA InstallHandlerKeeps == ASSUME IInv, NEW s \in Servers, InstallHandler(s) PROVE IInv'
<1>1. Typed'
  BY DEF IInv, Typed, Stages, names, bounds, Goto, InstallHandler
<1>2. HoldInv'
  BY DEF IInv, HoldInv, Open, Bound, Closed, Owner, names, Goto, InstallHandler
<1>3. MetInv'
  BY DEF IInv, MetInv, Goto, Runs, InstallHandler
<1>4. PathInv'
  BY DEF IInv, PathInv, Open, Bound, names, Goto, InstallHandler
<1>5. ClientInv'
  BY DEF IInv, ClientInv, Goto, Runs, InstallHandler
<1>6. LeavesNoPath'
  BY DEF IInv, LeavesNoPath, names, bounds, Goto, InstallHandler
<1>7. QED
  BY <1>1, <1>2, <1>3, <1>4, <1>5, <1>6 DEF IInv

\* SIGINT.
LEMMA InterruptKeeps == ASSUME IInv, NEW s \in Servers, Interrupt(s) PROVE IInv'
<1>1. Typed'
  BY LifecycleAssumption DEF IInv, Typed, Stages, names, bounds, Goto, Interrupt
<1>2. HoldInv'
  BY SocketsFacts DEF IInv, Typed, HoldInv, Open, Bound, Closed, Owner, names, Goto, Interrupt
<1>3. MetInv'
  BY DEF IInv, Typed, MetInv, Goto, Runs, Interrupt
<1>4. PathInv'
  BY DEF IInv, Typed, PathInv, Open, Bound, names, Goto, Interrupt
<1>5. ClientInv'
  BY DEF IInv, Typed, ClientInv, Goto, Runs, Interrupt
<1>6. LeavesNoPath'
  BY DEF IInv, Typed, LeavesNoPath, names, bounds, Goto, Interrupt
<1>7. QED
  BY <1>1, <1>2, <1>3, <1>4, <1>5, <1>6 DEF IInv

\* A join goes on.
LEMMA ResumeKeeps == ASSUME IInv, NEW s \in Servers, Resume(s) PROVE IInv'
<1>1. Typed'
  BY LifecycleAssumption DEF IInv, Typed, Stages, names, bounds, Goto, Resume
<1>2. HoldInv'
  BY SocketsFacts DEF IInv, Typed, HoldInv, Open, Bound, Closed, Owner, names, Goto, Resume
<1>3. MetInv'
  BY DEF IInv, Typed, MetInv, Goto, Runs, Resume
<1>4. PathInv'
  BY DEF IInv, Typed, PathInv, Open, Bound, names, Goto, Resume
<1>5. ClientInv'
  BY DEF IInv, Typed, ClientInv, Goto, Runs, Resume
<1>6. LeavesNoPath'
  BY DEF IInv, Typed, LeavesNoPath, names, bounds, Goto, Resume
<1>7. QED
  BY <1>1, <1>2, <1>3, <1>4, <1>5, <1>6 DEF IInv

\* The joins are over.
LEMMA EndThreadsKeeps == ASSUME IInv, NEW s \in Servers, EndThreads(s) PROVE IInv'
<1>1. Typed'
  BY LifecycleAssumption DEF IInv, Typed, Stages, names, bounds, Goto, EndThreads
<1>2. HoldInv'
  BY SocketsFacts DEF IInv, Typed, HoldInv, Open, Bound, Closed, Owner, names, Goto, EndThreads
<1>3. MetInv'
  BY DEF IInv, Typed, MetInv, Goto, Runs, EndThreads
<1>4. PathInv'
  BY DEF IInv, Typed, PathInv, Open, Bound, names, Goto, EndThreads
<1>5. ClientInv'
  BY DEF IInv, Typed, ClientInv, Goto, Runs, EndThreads
<1>6. LeavesNoPath'
  BY DEF IInv, Typed, LeavesNoPath, names, bounds, Goto, EndThreads
<1>7. QED
  BY <1>1, <1>2, <1>3, <1>4, <1>5, <1>6 DEF IInv

\* close_server closes a socket.
LEMMA CloseSocketKeeps == ASSUME IInv, NEW s \in Servers, CloseSocket(s) PROVE IInv'
<1>1. Typed'
  BY DEF IInv, Typed, Stages, bounds, Goto, Release, Drop, CloseSocket
<1>2. HoldInv'
  BY LifecycleAssumption, SocketsFacts DEF IInv, Typed, Names, TCP, HoldInv, Open, Bound, Closed, Owner,
     Goto, Release, CloseSocket
<1>3. MetInv'
  BY DEF IInv, Typed, MetInv, Goto, Runs, CloseSocket
<1>4. PathInv'
  BY DEF IInv, Typed, PathInv, MetInv, Open, Bound, Goto, Runs, CloseSocket
<1>5. ClientInv'
  BY DEF IInv, Typed, ClientInv, Goto, Runs, Drop, CloseSocket
<1>6. LeavesNoPath'
  BY DEF IInv, Typed, LeavesNoPath, Goto, CloseSocket
<1>7. QED
  BY <1>1, <1>2, <1>3, <1>4, <1>5, <1>6 DEF IInv

\* close_server removes the path and ends the process.
LEMMA UnlinkKeeps == ASSUME IInv, NEW s \in Servers, Unlink(s) PROVE IInv'
<1>1. Typed'
  <2>1. client' \in [Clients -> Linked \union {"off", "dropped"}]
    BY DEF IInv, Typed, Drop, Unlink
  <2>2. stage' \in [Servers -> Stages] /\ sock' \in [Servers -> 1 .. 3]
    BY DEF IInv, Typed, Stages, Goto, Unlink
  <2>3. QED
    BY <2>1, <2>2 DEF IInv, Typed, Unlink
<1>2. HoldInv'
  BY LifecycleAssumption DEF IInv, HoldInv, Open, Bound, Closed, Owner, Goto, Unlink
<1>3. MetInv'
  BY DEF IInv, MetInv, Goto, Runs, Unlink
<1>4. PathInv'
  BY DEF IInv, PathInv, MetInv, Open, Bound, Goto, Runs, Unlink
<1>5. ClientInv'
  BY LifecycleAssumption DEF IInv, ClientInv, Linked, Goto, Runs, Drop, Unlink
<1>6. LeavesNoPath'
  BY LifecycleAssumption DEF LeavesNoPath, Unlink
<1>7. QED
  BY <1>1, <1>2, <1>3, <1>4, <1>5, <1>6 DEF IInv

\* The process ends without close_server.
LEMMA EndKeeps ==
  ASSUME IInv, NEW s \in Servers, Runs(s), End(s),
         signals' \in 0 .. MaxSignals, faults' \in 0 .. MaxFaults
  PROVE  IInv'
<1>1. Typed'
  BY DEF IInv, Typed, Stages, Goto, Release, Drop, End
<1>2. HoldInv'
  BY LifecycleAssumption DEF IInv, Typed, Names, TCP, HoldInv, Open, Bound, Closed, Owner, Goto, Release,
     End
<1>3. MetInv'
  BY DEF IInv, MetInv, Goto, Runs, End
<1>4. PathInv'
  BY DEF IInv, Typed, PathInv, MetInv, Open, Bound, Goto, Runs, Release, End
<1>5. ClientInv'
  BY LifecycleAssumption DEF IInv, ClientInv, Linked, Goto, Runs, Drop, End
<1>6. LeavesNoPath'
  BY LifecycleAssumption DEF IInv, Typed, LeavesNoPath, Names, Goto, Release, End
<1>7. QED
  BY <1>1, <1>2, <1>3, <1>4, <1>5, <1>6 DEF IInv

\* A signal ends the process.
LEMMA KillKeeps == ASSUME IInv, NEW s \in Servers, Kill(s) PROVE IInv'
<1>1. signals' \in 0 .. MaxSignals /\ faults' \in 0 .. MaxFaults
  BY LifecycleAssumption DEF IInv, Typed, Kill
<1>2. QED
  BY <1>1, EndKeeps DEF Kill

\* An error ends the process.
LEMMA ExitOnErrorKeeps == ASSUME IInv, NEW s \in Servers, ExitOnError(s) PROVE IInv'
<1>1. signals' \in 0 .. MaxSignals /\ faults' \in 0 .. MaxFaults
  BY LifecycleAssumption DEF IInv, Typed, ExitOnError
<1>2. Runs(s)
  BY DEF Runs, ExitOnError
<1>3. QED
  BY <1>1, <1>2, EndKeeps DEF ExitOnError

\* The kernel gives up a port.
LEMMA WaitEndsKeeps == ASSUME IInv, NEW f \in TCP, WaitEnds(f) PROVE IInv'
<1>1. Typed'
  BY DEF IInv, Typed, bounds, WaitEnds
<1>2. HoldInv'
  BY LifecycleAssumption DEF IInv, HoldInv, Open, Bound, Closed, Owner, WaitEnds
<1>3. MetInv'
  BY DEF IInv, MetInv, Runs, WaitEnds
<1>4. PathInv'
  BY DEF IInv, PathInv, Open, Bound, WaitEnds
<1>5. ClientInv'
  BY DEF IInv, ClientInv, Runs, WaitEnds
<1>6. LeavesNoPath'
  BY DEF IInv, LeavesNoPath, bounds, WaitEnds
<1>7. QED
  BY <1>1, <1>2, <1>3, <1>4, <1>5, <1>6 DEF IInv

\* A client connects.
LEMMA ConnectKeeps == ASSUME IInv, NEW c \in Clients, Connect(c) PROVE IInv'
<1>1. Typed'
  BY DEF IInv, Typed, Linked, names, bounds, Leads, Connect
<1>2. HoldInv'
  BY DEF IInv, HoldInv, Open, Bound, Closed, Owner, names, Connect
<1>3. MetInv'
  BY DEF IInv, MetInv, Runs, Connect
<1>4. PathInv'
  BY DEF IInv, PathInv, Open, Bound, names, Connect
<1>5. ClientInv'
  BY DEF IInv, Typed, ClientInv, HoldInv, Closed, Runs, Leads, Connect
<1>6. LeavesNoPath'
  BY DEF IInv, LeavesNoPath, names, bounds, Connect
<1>7. QED
  BY <1>1, <1>2, <1>3, <1>4, <1>5, <1>6 DEF IInv

\* A client is refused.
LEMMA RefusedKeeps == ASSUME IInv, NEW c \in Clients, Refused(c) PROVE IInv'
<1>1. Typed'
  BY DEF IInv, Typed, names, bounds, Refused
<1>2. HoldInv'
  BY DEF IInv, HoldInv, Open, Bound, Closed, Owner, names, Refused
<1>3. MetInv'
  BY DEF IInv, MetInv, Runs, Refused
<1>4. PathInv'
  BY DEF IInv, PathInv, Open, Bound, names, Refused
<1>5. ClientInv'
  BY DEF IInv, ClientInv, Linked, Runs, Refused
<1>6. LeavesNoPath'
  BY DEF IInv, LeavesNoPath, names, bounds, Refused
<1>7. QED
  BY <1>1, <1>2, <1>3, <1>4, <1>5, <1>6 DEF IInv

\* A client that nobody answers is ended.
LEMMA GiveUpKeeps == ASSUME IInv, NEW c \in Clients, GiveUp(c) PROVE IInv'
<1>1. Typed'
  BY DEF IInv, Typed, names, bounds, GiveUp
<1>2. HoldInv'
  BY DEF IInv, HoldInv, Open, Bound, Closed, Owner, names, GiveUp
<1>3. MetInv'
  BY DEF IInv, MetInv, Runs, GiveUp
<1>4. PathInv'
  BY DEF IInv, PathInv, Open, Bound, names, GiveUp
<1>5. ClientInv'
  BY DEF IInv, Typed, ClientInv, Linked, Runs, GiveUp
<1>6. LeavesNoPath'
  BY DEF IInv, LeavesNoPath, names, bounds, GiveUp
<1>7. QED
  BY <1>1, <1>2, <1>3, <1>4, <1>5, <1>6 DEF IInv

\* A round of accepts.
LEMMA AcceptKeeps == ASSUME IInv, NEW s \in Servers, Accept(s) PROVE IInv'
<1> DEFINE ready == {f \in Names : Queue(s, f) # {}}
           last == CHOOSE f \in ready : \A g \in ready : Turn[g] <= Turn[f]
<1>1. UNCHANGED <<stage, sock, listening, names, peer, bounds, met>>
  BY DEF Accept
<1>2. PICK head \in [ready -> Clients] :
        /\ \A f \in ready : head[f] \in Queue(s, f)
        /\ client' = [c \in Clients |-> IF c = head[last] THEN "served"
                                     ELSE IF \E f \in ready : c = head[f] THEN "lost"
                                     ELSE client[c]]
  BY DEF Accept
<1>3. last \in ready
  <2>1. ready # {} /\ ready \subseteq Names
    BY DEF Accept
  <2>2. \E f \in ready : \A g \in ready : Turn[g] <= Turn[f]
    <3>1. Turn["ipv4"] = 1 /\ Turn["ipv6"] = 2 /\ Turn["unix"] = 3
      BY DEF Turn, Names
    <3> HIDE DEF ready
    <3>2. CASE "unix" \in ready
      BY <2>1, <3>1, <3>2 DEF Names
    <3>3. CASE "unix" \notin ready /\ "ipv6" \in ready
      BY <2>1, <3>1, <3>3 DEF Names
    <3>4. CASE "unix" \notin ready /\ "ipv6" \notin ready
      <4>1. ready = {"ipv4"}
        BY <2>1, <3>4 DEF Names
      <4>2. Turn["ipv4"] <= Turn["ipv4"]
        BY <3>1
      <4>3. QED
        BY <4>1, <4>2
    <3>5. QED
      BY <3>2, <3>3, <3>4
  <2>3. QED
    BY <2>2
<1> HIDE DEF last
<1>4. \A c \in Clients :
        client'[c] = client[c] \/ (client[c] \in Linked /\ client'[c] \in Linked)
  <2>1. \A f \in ready : client[head[f]] = "connected"
    BY <1>2 DEF Queue
  <2>2. ASSUME NEW c \in Clients
        PROVE  client'[c] = client[c] \/ (client[c] \in Linked /\ client'[c] \in Linked)
    <3>1. client'[c] = IF c = head[last] THEN "served" ELSE IF \E f \in ready : c = head[f] THEN "lost"
                       ELSE client[c]
      BY <1>2
    <3>2. CASE \E f \in ready : c = head[f]
      BY <2>1, <3>1, <3>2 DEF Linked
    <3>3. CASE ~\E f \in ready : c = head[f]
      BY <1>3, <3>1, <3>3
    <3>4. QED
      BY <3>2, <3>3
  <2>3. QED
    BY <2>2
<1>5. Typed'
  <2>1. client' \in [Clients -> Linked \union {"off", "dropped"}]
    BY <1>2 DEF IInv, Typed, Linked
  <2>2. QED
    BY <1>1, <2>1 DEF IInv, Typed, names, bounds
<1>6. HoldInv' /\ PathInv'
  BY <1>1 DEF IInv, HoldInv, PathInv, Open, Bound, Closed, Owner, names
<1>7. MetInv' /\ LeavesNoPath'
  BY <1>1 DEF IInv, MetInv, LeavesNoPath, Runs, names, bounds
<1>8. ClientInv'
  BY <1>1, <1>4 DEF IInv, ClientInv, Runs
<1>9. QED
  BY <1>5, <1>6, <1>7, <1>8 DEF IInv

-----------------------------------------------------------------------------

\* The initial states satisfy the invariant.
LEMMA InitIInv == Init => IInv
<1> SUFFICES ASSUME Init PROVE IInv
  OBVIOUS
<1>1. Typed
  <2>1. /\ stage \in [Servers -> Stages] /\ sock \in [Servers -> 1 .. 3]
        /\ listening \in [Servers -> SUBSET Names]
    BY DEF Init, Stages
  <2>2. /\ client \in [Clients -> Linked \union {"off", "dropped"}]
        /\ peer \in [Clients -> Servers \union {NONE}] /\ port \in [TCP -> Servers \union {NONE, "wait"}]
    BY DEF Init
  <2>3. signals \in 0 .. MaxSignals /\ faults \in 0 .. MaxFaults
    BY LifecycleAssumption DEF Init
  <2>4. path = NONE /\ cut = FALSE /\ met = {}
    BY DEF Init
  <2>5. QED
    BY <2>1, <2>2, <2>3, <2>4 DEF Typed
<1>2. HoldInv /\ MetInv /\ PathInv
  BY LifecycleAssumption DEF Init, HoldInv, MetInv, PathInv, Open, Bound, Owner, Names, TCP, Runs
<1>3. ClientInv /\ LeavesNoPath
  BY LifecycleAssumption DEF Init, ClientInv, LeavesNoPath, Linked
<1>4. QED
  BY <1>1, <1>2, <1>3 DEF IInv

\* Every step keeps the invariant.
LEMMA StepIInv == IInv /\ [Next]_vars => IInv'
<1> SUFFICES ASSUME IInv, [Next]_vars PROVE IInv'
  OBVIOUS
<1>1. ASSUME NEW s \in Servers, Start(s) \/ Server(s) \/ Outside(s)
      PROVE  IInv'
  BY <1>1, StartKeeps, BindKeeps, ListenKeeps, InstallHandlerKeeps, AcceptKeeps, EndThreadsKeeps,
     CloseSocketKeeps, UnlinkKeeps, CreateFailsKeeps, InterruptKeeps, ResumeKeeps, KillKeeps,
     ExitOnErrorKeeps DEF Server, Outside
<1>2. ASSUME NEW c \in Clients, Connect(c) \/ Refused(c) \/ GiveUp(c)
      PROVE  IInv'
  BY <1>2, ConnectKeeps, RefusedKeeps, GiveUpKeeps
<1>3. ASSUME NEW f \in TCP, WaitEnds(f)
      PROVE  IInv'
  BY <1>3, WaitEndsKeeps
<1>4. CASE UNCHANGED vars
  <2>1. UNCHANGED <<stage, sock, listening, path, port, client, peer, signals, cut, faults, met>>
    BY <1>4 DEF vars, names, bounds
  <2>2. Typed' /\ ClientInv' /\ MetInv' /\ LeavesNoPath'
    BY <2>1 DEF IInv, Typed, ClientInv, MetInv, LeavesNoPath, Runs
  <2>3. HoldInv' /\ PathInv'
    BY <2>1 DEF IInv, HoldInv, PathInv, Open, Bound, Closed, Owner
  <2>4. QED
    BY <2>2, <2>3 DEF IInv
<1>5. QED
  BY <1>1, <1>2, <1>3, <1>4 DEF Next

\* What a server process holds follows from where it is, and who has met whom
\* (server.c:8-149, 377-394).
THEOREM Invariance == Spec => []IInv
BY InitIInv, StepIInv, PTL DEF Spec

\* Every variable has its type; the names a process holds and the sockets that
\* listen are those it has created and not yet closed.
THEOREM TypeCorrect == Spec => []TypeOK
<1>1. ASSUME IInv PROVE TypeOK
  <2>1. Typed /\ HoldInv /\ ClientInv
    BY <1>1 DEF IInv
  <2>2. ASSUME NEW s \in Servers
        PROVE  /\ stage[s] \in {"off", "unlink"} => listening[s] = {} /\ \A f \in TCP : ~Holds(s, f)
               /\ stage[s] \in {"bind", "listen"} => listening[s] = {Sockets[k] : k \in 1 .. sock[s] - 1}
    BY <2>1 DEF Typed, HoldInv, Closed, Holds, First, Names, TCP
  <2>3. ASSUME NEW c \in Clients
        PROVE  /\ client[c] \in {"off", "connected", "served", "lost", "dropped"}
               /\ client[c] \in {"connected", "served", "lost"} => Runs(peer[c])
    BY <2>1 DEF Typed, ClientInv, Linked
  <2>4. QED
    BY <2>1, <2>2, <2>3 DEF TypeOK, Typed, Stages
<1>2. QED
  BY <1>1, Invariance, PTL

\* Two servers never serve at the same time, whatever starts, ends, and is
\* killed, and the ports lead to the one that does (server.c:37-44, 103-107,
\* 136-140).
THEOREM AlwaysOneServer == Spec => []OneServer
<1>1. ASSUME IInv PROVE OneServer
  <2>1. ASSUME NEW s \in Servers, stage[s] = "serving"
        PROVE  listening[s] = Names /\ \A f \in TCP : port[f] = s
    BY <1>1, <2>1 DEF IInv, HoldInv, Open, Bound, Names, TCP
  <2>2. QED
    BY <2>1 DEF OneServer, Leads, Owner, Names, TCP
<1>2. QED
  BY <1>1, Invariance, PTL

\* The path leads to the server that serves and met no other; and what is dead
\* under it is being removed by a close_server, or was left by a server that was
\* killed or exited on an error (server.c:8-22, 377-394).
THEOREM PathAlwaysSound == Spec => []PathSound
<1>1. ASSUME IInv PROVE PathSound
  <2>1. ASSUME NEW s \in Servers \ met, stage[s] = "serving"
        PROVE  listening[s] = Names /\ path = s
    BY <1>1, <2>1 DEF IInv, HoldInv, PathInv, Open, Bound, Names
  <2>2. PathLeadsHome
    BY <2>1 DEF PathLeadsHome, Leads, Owner, Names
  <2>3. QED
    BY <1>1, <2>2 DEF IInv, PathSound
<1>2. QED
  BY <1>1, Invariance, PTL

=============================================================================
