------------------------------- MODULE Server -------------------------------
(***************************************************************************)
(* The server (src/src/server.c): the main thread accepts connections on   *)
(* three listening sockets and starts a worker thread for each; a worker   *)
(* reads the client's type, puts itself on the list of ThreadList, serves  *)
(* commands until the client goes away or the server is told to stop;      *)
(* SIGINT interrupts the main thread, which joins the listed threads and   *)
(* exits.  A second SIGINT interrupts a worker, which does the same, and   *)
(* so does a worker whose client has no known type.                        *)
(*                                                                         *)
(* A worker is named after its client.  How a command and a response are   *)
(* transferred, packet by packet, is the subject of Transfer; here a       *)
(* transfer is only what both ends have to do for it: a worker that has    *)
(* begun to read a command waits in recv for the rest of it, and one that  *)
(* has sent a response for the checksum_status, in both cases without a    *)
(* timeout and for as long as the client likes.                            *)
(***************************************************************************)
EXTENDS ThreadList

CONSTANTS
  Families,     \* the listening sockets, in the order wait_client looks at them
  Unknown,      \* the sets of clients that may be of no known type
  Silent,       \* the sets of clients that may stop to do anything
  Interrupted,  \* bound on the workers that the second SIGINT may go to
  Backlog,      \* bound on the connections that wait at a listening socket
  MaxCommands   \* bound on the commands of a client

ASSUME ServerAssumption ==
  /\ Families \in Seq(STRING) /\ Families # <<>>
  /\ Unknown \subseteq SUBSET Threads /\ Silent \subseteq SUBSET Threads
  /\ Interrupted \subseteq Threads
  /\ Backlog \in Nat \ {0} /\ MaxCommands \in Nat

VARIABLES
  main,           \* where the main thread is
  server_flag,    \* "UP" or "DOWN"
  process,        \* "up", "exited" by close_server, or "killed": by SIGPIPE or an
                  \* error handler's exit in any thread
  backlog,        \* the connections each listening socket holds for accept
  client_socket,  \* the connection wait_client has in its variable
  accepted,       \* the connections accept has returned
  stage,          \* what a worker does outside the list's operations
  inbox,          \* what a client has sent and the server not yet read
  client,         \* what a client does
  asked,          \* how many commands it has sent
  unknown,        \* the clients whose type is not 0, 1 or 2
  silent          \* the clients of which nothing is promised: a client that is
                  \* suspended, or waits for a notice it has dropped, may do
                  \* nothing any more from any moment on

kinds == <<unknown, silent>>
clients == <<inbox, client, asked, kinds>>
mainvars == <<main, server_flag, backlog, client_socket, accepted>>
threadvars == vars
allvars == <<threadvars, mainvars, process, stage, clients>>

-----------------------------------------------------------------------------

ServerInit ==
  /\ Init
  /\ main = "select" /\ server_flag = "UP" /\ process = "up"
  /\ backlog = [f \in DOMAIN Families |-> <<>>]
  /\ client_socket = NULL /\ accepted = {}
  /\ stage = [c \in Threads |-> "none"]
  /\ inbox = [c \in Threads |-> <<>>]
  /\ client = [c \in Threads |-> "away"]
  /\ asked = [c \in Threads |-> 0] /\ unknown \in Unknown /\ silent \in Silent

\* After a walk over freed memory nothing is known.
Up == process = "up" /\ \A k \in Callers : walk[k] # "undefined"

\* Where a worker is that has not called close_server.
Does(c, at) == Up /\ stage[c] = at /\ c \notin Closing

\* The places of server_logic, between add_thread and rmv_thread.
Serving == {"select", "receive", "respond", "ack"}

-----------------------------------------------------------------------------
(* The clients, as far as the server sees them.                            *)

Connect(c, f) ==
  /\ Up /\ client[c] = "away" /\ Len(backlog[f]) < Backlog
  /\ backlog' = [backlog EXCEPT ![f] = Append(@, c)]
  /\ client' = [client EXCEPT ![c] = "connected"]
  /\ UNCHANGED <<threadvars, main, server_flag, process, client_socket, accepted,
                 stage, inbox, asked, kinds>>

Sends(c, m) == inbox' = [inbox EXCEPT ![c] = Append(@, m)]

SendType(c) ==
  /\ Up /\ client[c] = "connected"
  /\ Sends(c, "type") /\ client' = [client EXCEPT ![c] = "ready"]
  /\ UNCHANGED <<threadvars, mainvars, process, stage, asked, kinds>>

\* num_packets, which wakes the worker, and what follows it.
SendCommand(c) ==
  /\ Up /\ client[c] = "ready" /\ asked[c] < MaxCommands
  /\ Sends(c, "command") /\ client' = [client EXCEPT ![c] = "sending"]
  /\ asked' = [asked EXCEPT ![c] = @ + 1]
  /\ UNCHANGED <<threadvars, mainvars, process, stage, kinds>>

SendRest(c) ==
  /\ Up /\ client[c] = "sending"
  /\ Sends(c, "rest") /\ client' = [client EXCEPT ![c] = "waiting"]
  /\ UNCHANGED <<threadvars, mainvars, process, stage, asked, kinds>>

\* The response to the client's last command, all it has sent having been read,
\* is there and in order: its checksum_status.
Acknowledge(c) ==
  /\ Up /\ client[c] = "waiting" /\ stage[c] = "ack" /\ inbox[c] = <<>>
  /\ Sends(c, "ack") /\ client' = [client EXCEPT ![c] = "ready"]
  /\ UNCHANGED <<threadvars, mainvars, process, stage, asked, kinds>>

\* What a client does that runs, and needs no user for.
GoesOn(c) == SendType(c) \/ SendRest(c) \/ Acknowledge(c)

\* The user interrupts the client, at whatever moment.
Leave(c) ==
  /\ Up /\ client[c] \in {"connected", "ready", "sending", "waiting"}
  /\ Sends(c, "eof") /\ client' = [client EXCEPT ![c] = "gone"]
  /\ UNCHANGED <<threadvars, mainvars, process, stage, asked, kinds>>

-----------------------------------------------------------------------------
(* The main thread.                                                        *)

Ready == {f \in DOMAIN Families : backlog[f] # <<>>}

\* One round of wait_client in which select reports something: a connection is
\* accepted from every socket that is ready, and client_socket keeps the last.
\* Of the accepts only the last one's failure shows, below; a connection that
\* another one failed to accept stays where it is.
\* Mutant: what is accepted stays in the backlog.
AcceptKeepsQueued ==
  /\ Up /\ main = "select" /\ Ready # {}
  /\ \E failed \in SUBSET (Ready \ {Max(Ready)}) :
       accepted' = accepted \union {Head(backlog[f]) : f \in Ready \ failed}
  /\ client_socket' = Head(backlog[Max(Ready)])
  /\ main' = "create"
  /\ UNCHANGED <<threadvars, server_flag, process, backlog, stage, clients>>

Accept ==
  /\ Up /\ main = "select" /\ Ready # {}
  /\ \E failed \in SUBSET (Ready \ {Max(Ready)}) :
       /\ backlog' = [f \in DOMAIN Families |->
                        IF f \in Ready \ failed THEN Tail(backlog[f]) ELSE backlog[f]]
       /\ accepted' = accepted \union {Head(backlog[f]) : f \in Ready \ failed}
  /\ client_socket' = Head(backlog[Max(Ready)])
  /\ main' = "create"
  /\ UNCHANGED <<threadvars, server_flag, process, stage, clients>>

CreateThread ==
  /\ Up /\ main = "create"
  /\ stage' = [stage EXCEPT ![client_socket] = "type"]
  /\ client_socket' = NULL
  /\ main' = "select"
  /\ UNCHANGED <<threadvars, server_flag, process, backlog, accepted, clients>>

\* select, the last accept or pthread_create returns an error: exit.
MainFails ==
  /\ Up /\ main \in {"select", "create"}
  /\ process' = "killed"
  /\ UNCHANGED <<threadvars, mainvars, stage, clients>>

\* sigint_handler, which never returns to what it interrupted, up to the first
\* line of end_threads.
Interrupt ==
  /\ Up /\ server_flag = "UP"
  /\ server_flag' = "DOWN" /\ main' = "close_server"
  /\ EndThreads(MAIN)
  /\ UNCHANGED <<process, backlog, client_socket, accepted, stage, clients>>

\* While the main thread is in the handler the next SIGINT goes to a worker.  The
\* bound on callers leaves room for the workers of unknown clients.
InterruptWorker(c) ==
  /\ Up /\ server_flag = "DOWN" /\ c \in Interrupted /\ stage[c] # "none"
  /\ Cardinality(Closing \union unknown \union {c}) <= MaxCallers
  /\ EndThreads(c)
  /\ UNCHANGED <<mainvars, process, stage, clients>>

JoinStep(k) ==
  /\ Up /\ (CallJoin(k) \/ JoinReturns(k) \/ ToNextNode(k))
  /\ UNCHANGED <<mainvars, process, stage, clients>>

\* The rest of close_server: exit ends every thread that is left.
CloseServer(k) ==
  /\ Up /\ EndThreadsReturns(k)
  /\ process' = "exited"
  /\ UNCHANGED <<mainvars, stage, clients>>

-----------------------------------------------------------------------------
(* The worker threads.                                                     *)

\* thread_client_handler's recv: a client that is gone sends no type, and the
\* worker goes on with whatever client_type held.
ReceiveType(c) ==
  /\ Does(c, "type") /\ inbox[c] # <<>>
  /\ stage' = [stage EXCEPT ![c] = "add"]
  /\ inbox' = IF Head(inbox[c]) = "type" THEN [inbox EXCEPT ![c] = Tail(@)] ELSE inbox
  /\ UNCHANGED <<threadvars, mainvars, process, client, asked, kinds>>

AddSelf(c) ==
  /\ Does(c, "add")
  /\ AddThread(c)
  /\ stage' = [stage EXCEPT ![c] = "select"]
  /\ UNCHANGED <<mainvars, process, clients>>

\* select reports the first bytes of a command, and receive_data reads them.
ReceiveCommand(c) ==
  /\ Does(c, "select") /\ inbox[c] # <<>> /\ Head(inbox[c]) = "command"
  /\ inbox' = [inbox EXCEPT ![c] = Tail(@)]
  /\ stage' = [stage EXCEPT ![c] = "receive"]
  /\ UNCHANGED <<threadvars, mainvars, process, client, asked, kinds>>

\* Mutant of ReceiveRest: what receive_data returned is not passed on.
ReceiveRestForgets(c) ==
  /\ Does(c, "receive") /\ inbox[c] # <<>> /\ Head(inbox[c]) = "rest"
  /\ inbox' = [inbox EXCEPT ![c] = Tail(@)]
  /\ stage' = [stage EXCEPT ![c] = "select"]
  /\ UNCHANGED <<threadvars, mainvars, process, client, asked, kinds>>

\* receive_data waits for the rest.
ReceiveRest(c) ==
  /\ Does(c, "receive") /\ inbox[c] # <<>> /\ Head(inbox[c]) = "rest"
  /\ inbox' = [inbox EXCEPT ![c] = Tail(@)]
  /\ stage' = [stage EXCEPT ![c] = "respond"]
  /\ UNCHANGED <<threadvars, mainvars, process, client, asked, kinds>>

\* The client left in the middle of a command: json_unformat, which gets no
\* packet, dereferences NULL, or the sends and recvs of receive_data fail.
CutOff(c) ==
  /\ Does(c, "receive") /\ inbox[c] # <<>> /\ Head(inbox[c]) = "eof"
  /\ process' = "killed"
  /\ UNCHANGED <<threadvars, mainvars, stage, clients>>

\* client_select, and the sends of send_data: when the client is gone they are
\* lost or SIGPIPE ends the whole process.
Respond(c) ==
  /\ Does(c, "respond") /\ c \notin unknown
  /\ \/ client[c] = "gone" /\ process' = "killed" /\ UNCHANGED stage
     \/ stage' = [stage EXCEPT ![c] = "ack"] /\ UNCHANGED process
  /\ UNCHANGED <<threadvars, mainvars, clients>>

\* send_data waits for the checksum_status.  When the client has left the recv
\* returns 0, at which send_data goes on as it did, or -1.
ReceiveStatus(c) ==
  /\ Does(c, "ack") /\ inbox[c] # <<>>
  /\ \/ Head(inbox[c]) = "eof" /\ process' = "killed" /\ UNCHANGED <<stage, inbox>>
     \/ /\ Head(inbox[c]) \in {"ack", "eof"}
        /\ stage' = [stage EXCEPT ![c] = "select"]
        /\ inbox' = IF Head(inbox[c]) = "ack" THEN [inbox EXCEPT ![c] = Tail(@)] ELSE inbox
        /\ UNCHANGED process
  /\ UNCHANGED <<threadvars, mainvars, client, asked, kinds>>

\* client_select has nothing to run for a client of no known type.
CloseForUnknown(c) ==
  /\ Does(c, "respond") /\ c \in unknown
  /\ EndThreads(c)
  /\ UNCHANGED <<mainvars, process, stage, clients>>

\* receive_data returned NULL.
NoticeDisconnection(c) ==
  /\ Does(c, "select") /\ inbox[c] # <<>> /\ Head(inbox[c]) = "eof"
  /\ RmvThread(c)
  /\ stage' = [stage EXCEPT ![c] = "leave"]
  /\ UNCHANGED <<mainvars, process, clients>>

\* A client that left with a response unread resets the connection: recv
\* fails, and recv_error_handler ends the whole process.
ConnectionReset(c) ==
  /\ Does(c, "select") /\ inbox[c] # <<>> /\ Head(inbox[c]) = "eof" /\ asked[c] > 0
  /\ process' = "killed"
  /\ UNCHANGED <<threadvars, mainvars, stage, clients>>

RemoveStep(c) ==
  /\ Does(c, "leave") /\ RmvStep(c)
  /\ UNCHANGED <<mainvars, process, stage, clients>>

\* Mutants of NoticeFlag: the flag is looked at in the middle of a response; it
\* is only looked at when there is something to read.
NoticeFlagFirst(c) ==
  /\ Up /\ stage[c] \in Serving /\ c \notin Closing /\ server_flag = "DOWN"
  /\ pc[c] = "serving" /\ ThreadEnds(c)
  /\ stage' = [stage EXCEPT ![c] = "none"]
  /\ UNCHANGED <<mainvars, process, clients>>

NoticeFlagOnInput(c) ==
  /\ Does(c, "select") /\ inbox[c] # <<>> /\ server_flag = "DOWN"
  /\ pc[c] = "serving" /\ ThreadEnds(c)
  /\ stage' = [stage EXCEPT ![c] = "none"]
  /\ UNCHANGED <<mainvars, process, clients>>

\* select timed out, the flag is down: the worker leaves without rmv_thread.
NoticeFlag(c) ==
  /\ Does(c, "select") /\ inbox[c] = <<>> /\ server_flag = "DOWN"
  /\ pc[c] = "serving" /\ ThreadEnds(c)
  /\ stage' = [stage EXCEPT ![c] = "none"]
  /\ UNCHANGED <<mainvars, process, clients>>

\* close, and the end of the thread that removed itself.
Return(c) ==
  /\ Does(c, "leave") /\ pc[c] = "leaving" /\ ThreadEnds(c)
  /\ stage' = [stage EXCEPT ![c] = "none"]
  /\ UNCHANGED <<mainvars, process, clients>>

\* Any other error of a worker, of its calls or of what it needs to find the
\* response: the handler's exit ends the whole process.
WorkerFails(c) ==
  /\ Up /\ stage[c] # "none" /\ c \notin Closing
  /\ process' = "killed"
  /\ UNCHANGED <<threadvars, mainvars, stage, clients>>

Worker(c) ==
  \/ ReceiveType(c) \/ AddSelf(c) \/ ReceiveCommand(c) \/ ReceiveRest(c) \/ CutOff(c)
  \/ Respond(c) \/ ReceiveStatus(c) \/ CloseForUnknown(c) \/ NoticeDisconnection(c)
  \/ ConnectionReset(c) \/ RemoveStep(c) \/ NoticeFlag(c) \/ Return(c)
  \/ JoinStep(c) \/ CloseServer(c)

Main == Accept \/ CreateThread \/ JoinStep(MAIN) \/ CloseServer(MAIN)

Client(c) == GoesOn(c) \/ SendCommand(c) \/ Leave(c) \/ \E f \in DOMAIN Families : Connect(c, f)

Stopped == (~Up \/ LockLost) /\ UNCHANGED allvars

ServerNext ==
  \/ Main \/ Interrupt \/ MainFails
  \/ \E c \in Threads : Worker(c) \/ Client(c) \/ InterruptWorker(c) \/ WorkerFails(c)
  \/ Stopped

ServerSpec == ServerInit /\ [][ServerNext]_allvars

\* Every thread of the server runs.  A client that is not silent sends its type
\* once it is connected, finishes a command that it has begun, and answers what
\* it receives; when it sends commands and leaves is up to the user.
ServerFairness ==
  /\ WF_allvars(Main)
  /\ \A c \in Threads : WF_allvars(Worker(c)) /\ WF_allvars(c \notin silent /\ GoesOn(c))

FairServerSpec == ServerSpec /\ ServerFairness

-----------------------------------------------------------------------------

HasThread(c) == stage[c] # "none" \/ pc[c] # "new"

\* Every variable has its type; a connection is in one place at a time, and a
\* worker is at the place its list operations say.
ServerTypeOK ==
  /\ main \in {"select", "create", "close_server"}
  /\ server_flag \in {"UP", "DOWN"} /\ process \in {"up", "exited", "killed"}
  /\ client_socket \in Threads \union {NULL} /\ accepted \subseteq Threads
  /\ \A f \in DOMAIN Families : Len(backlog[f]) <= Backlog /\ IsInjective(backlog[f])
                                  /\ \A k \in DOMAIN backlog[f] : backlog[f][k] \notin accepted
  /\ \A c \in Threads :
       /\ stage[c] \in Serving \union {"none", "type", "add", "leave"}
       /\ client[c] \in {"away", "connected", "ready", "sending", "waiting", "gone"}
       /\ inbox[c] \in Seq({"type", "command", "rest", "ack", "eof"})
       /\ asked[c] \in 0 .. MaxCommands
       /\ HasThread(c) => c \in accepted
       /\ stage[c] \in Serving <=> pc[c] = "serving"
       /\ stage[c] = "leave" <=> pc[c] \in {"searching", "freeing", "leaving"}

\* The client has sent a command of which the server has read the beginning, and
\* has no response.
InService(c) ==
  client[c] \in {"sending", "waiting"} /\ \A k \in DOMAIN inbox[c] : inbox[c][k] # "command"

\* When one SIGINT has ended the server, no client of a thread that was listed
\* at the time is left in the middle of a command that the server has begun to
\* read, or without the response to it (server.c:255-285, 377-394), unless a
\* thread left the list meanwhile.
ShutdownAnswers ==
  process = "exited" /\ ~raced /\ Closing = {MAIN} => \A c \in due[MAIN] : ~InService(c)

\* A client has sent a command and has a thread, and nothing excuses the worker:
\* the client's silence or unknown type, the end of the process, SIGINT.
Waits(c) ==
  /\ client[c] = "waiting" /\ stage[c] # "none" /\ c \notin unknown \union silent
  /\ Up /\ server_flag = "UP"

\* Whenever clients wait, there comes a moment when none does: since a client
\* sends so many commands and no more, each gets its response, also when its
\* thread has yet to wait for the mutex to list itself, and whatever the other
\* clients do, stopping in the middle of a command or of a response included
\* (server.c:237-239, 255-285, middle.c:52-64).
CommandAnswered == (\E c \in Threads : Waits(c)) ~> \A c \in Threads : ~Waits(c)

\* A thread in end_threads waits for a worker that waits in recv, which has no
\* timeout, for a client that has stopped (middle.c:62, 99, 128, 139).
HeldUp ==
  \E k \in Callers : walk[k] = "joining" /\ joining[k] \in silent
                       /\ stage[joining[k]] \in {"receive", "ack"} /\ inbox[joining[k]] = <<>>

\* SIGINT stops the server, with one thread or two in end_threads: none waits for
\* ever for a thread whose client talks, is gone or is silent between two
\* commands.  There are two exceptions: a worker was interrupted while it had
\* the mutex, or is held up for ever by a client that stopped in the middle of a
\* transfer (server_utils.c:92-101, server.c:262-275, 396-401).
Stops == (server_flag = "DOWN" ~> ~Up \/ LockLost) \/ <>[]HeldUp

=============================================================================
