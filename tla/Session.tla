------------------------------ MODULE Session ------------------------------
(***************************************************************************)
(* A client with its two threads (src/src/clients.c) and the worker that   *)
(* serves it (src/src/server.c), over one connection.                      *)
(*                                                                         *)
(* The main thread sends a command and waits for its checksum_status; the  *)
(* secondary thread waits for the notice of a response and receives it.    *)
(* Both read the same socket, and client_status_f is all that tells them   *)
(* whose turn it is.  From the server to the client the connection is a    *)
(* sequence of what its threads can tell apart: each byte of a             *)
(* checksum_status ("ack"), the byte of client_select ("notice"), the      *)
(* num_packets of a response ("num") and the rest of it ("body").  How a   *)
(* command or a response is transferred in full is the subject of Transfer.*)
(***************************************************************************)
EXTENDS Naturals, Sequences, FiniteSets

CONSTANTS
  MaxCommands,   \* bound on the commands the user enters
  StatusBytes    \* sizeof(checksum_status): 4

ASSUME SessionAssumption ==
  MaxCommands \in Nat /\ StatusBytes \in Nat \ {0}

VARIABLES
  mpc,              \* the main thread of the client
  rpc,              \* its secondary thread
  client_status_f,  \* "SENDING" or "RECEIVING"
  receive_message,  \* the byte the secondary thread has read
  wpc,              \* the worker of the server
  serving,          \* the command it serves
  closed,           \* the server has closed the connection
  toServer,         \* the commands and acknowledgements on their way
  toClient,         \* the units on their way to the client
  sent,             \* the number of commands sent
  printed,          \* the answers printed, each as the number of its command
  torn,             \* a thread has read a part of a unit of several bytes
  early             \* history: select woke the secondary thread while SENDING

client == <<mpc, rpc, client_status_f, receive_message, sent, printed, torn, early>>
worker == <<wpc, serving>>
vars == <<client, worker, closed, toServer, toClient>>

\* A unit on its way to the client, for a command.
Unit(kind, n) == [kind |-> kind, command |-> n]
SingleByte == {"ack", "notice"}

Init ==
  /\ mpc = "loop" /\ rpc = "select" /\ wpc = "select"
  /\ client_status_f = "SENDING" /\ receive_message = "none"
  /\ closed = FALSE /\ serving = 0
  /\ toServer = <<>> /\ toClient = <<>>
  /\ sent = 0 /\ printed = <<>>
  /\ torn = FALSE /\ early = FALSE

Running == mpc # "exited" /\ ~torn

-----------------------------------------------------------------------------
(* The main thread of the client: message_sender and the end of send_data. *)

\* Mutant of EnterCommand: message_sender does not look at client_status_f.
EnterCommandAnytime ==
  /\ Running /\ mpc = "loop" /\ sent < MaxCommands
  /\ mpc' = "send"
  /\ UNCHANGED <<rpc, client_status_f, receive_message, sent, printed, torn, early,
                 worker, closed, toServer, toClient>>

\* read_input returned a command.
EnterCommand ==
  /\ Running /\ mpc = "loop" /\ client_status_f = "SENDING" /\ sent < MaxCommands
  /\ mpc' = "send"
  /\ UNCHANGED <<rpc, client_status_f, receive_message, sent, printed, torn, early,
                 worker, closed, toServer, toClient>>

\* A send to a server that is gone is lost, or SIGPIPE ends the client.
Transmits(m) == toServer' = IF closed THEN toServer ELSE Append(toServer, m)

Broken == closed /\ mpc' = "exited" /\ UNCHANGED <<rpc, printed, toServer, toClient>>

\* The sends of send_data.
SendCommand ==
  /\ Running /\ mpc = "send"
  /\ sent' = sent + 1
  /\ \/ Broken
     \/ mpc' = "ack" /\ Transmits(Unit("command", sent')) /\ UNCHANGED <<rpc, printed, toClient>>
  /\ UNCHANGED <<client_status_f, receive_message, torn, early, worker, closed>>

\* How many units a recv of up to n bytes takes when they are single bytes.
Singles(n) ==
  Cardinality({k \in 1 .. n : k <= Len(toClient)
                                /\ \A j \in 1 .. k : toClient[j].kind \in SingleByte})

\* recv of the checksum_status.  It takes what is there, up to the size of the
\* status; any byte of an acknowledgement and the notice are 0, so what it
\* takes is never CHECKSUM_FAIL.  What it leaves of a longer unit is torn.
ReceiveStatus ==
  /\ Running /\ mpc = "ack" /\ toClient # <<>>
  /\ LET n == Singles(StatusBytes) IN
       /\ toClient' = SubSeq(toClient, n + 1, Len(toClient))
       /\ torn' = (n < StatusBytes /\ n < Len(toClient))
  /\ mpc' = "acked"
  /\ UNCHANGED <<rpc, client_status_f, receive_message, sent, printed, early, worker,
                 closed, toServer>>

StatusEndOfFile ==
  /\ Running /\ mpc = "ack" /\ toClient = <<>> /\ closed
  /\ mpc' \in {"acked", "exited"}
  /\ UNCHANGED <<rpc, client_status_f, receive_message, sent, printed, torn, early,
                 worker, closed, toServer, toClient>>

AwaitAnswer ==
  /\ Running /\ mpc = "acked"
  /\ client_status_f' = "RECEIVING" /\ mpc' = "loop"
  /\ UNCHANGED <<rpc, receive_message, sent, printed, torn, early, worker, closed,
                 toServer, toClient>>

\* The user interrupts the client, whose handler ends the process wherever its
\* two threads are.
Interrupt ==
  /\ Running /\ mpc' = "exited"
  /\ UNCHANGED <<rpc, client_status_f, receive_message, sent, printed, torn, early,
                 worker, closed, toServer, toClient>>

-----------------------------------------------------------------------------
(* The secondary thread of the client: receiving_logic and receive_data.   *)

Wakes ==
  /\ Running /\ rpc = "select" /\ (toClient # <<>> \/ closed)
  /\ rpc' = "recv"
  /\ early' = (early \/ (toClient # <<>> /\ client_status_f = "SENDING"))
  /\ UNCHANGED <<mpc, client_status_f, receive_message, sent, printed, torn, worker,
                 closed, toServer, toClient>>

\* recv of one byte.  The main thread may have emptied the socket since select.
ReceiveByte ==
  /\ Running /\ rpc = "recv" /\ toClient # <<>>
  /\ receive_message' = Head(toClient).kind
  /\ torn' = (Head(toClient).kind \notin SingleByte)
  /\ toClient' = Tail(toClient)
  /\ rpc' = "check"
  /\ UNCHANGED <<mpc, client_status_f, sent, printed, early, worker, closed, toServer>>

\* Mutant of CheckByte: client_status_f is not looked at.
CheckByteOnly ==
  /\ Running /\ rpc = "check"
  /\ rpc' = "num"
  /\ UNCHANGED <<mpc, client_status_f, receive_message, sent, printed, torn, early,
                 worker, closed, toServer, toClient>>

\* The byte is SERVER_MESSAGE, be it a notice or a part of an acknowledgement:
\* only client_status_f decides, and otherwise the byte is forgotten.
CheckByte ==
  /\ Running /\ rpc = "check"
  /\ rpc' = IF client_status_f = "RECEIVING" THEN "num" ELSE "select"
  /\ UNCHANGED <<mpc, client_status_f, receive_message, sent, printed, torn, early,
                 worker, closed, toServer, toClient>>

\* The first recv of receive_data, which takes eight bytes.
ReceiveNum ==
  /\ Running /\ rpc = "num" /\ toClient # <<>>
  /\ torn' = (Head(toClient).kind # "num")
  /\ toClient' = Tail(toClient)
  /\ rpc' = "body"
  /\ UNCHANGED <<mpc, client_status_f, receive_message, sent, printed, early, worker,
                 closed, toServer>>

\* The rest of receive_data with its acknowledgement, the printf, and the turn
\* handed back.
ReceiveAnswer ==
  /\ Running /\ rpc = "body" /\ toClient # <<>>
  /\ \/ Broken
     \/ /\ toClient' = Tail(toClient)
        /\ Transmits(Unit("ack", Head(toClient).command))
        /\ printed' = Append(printed, Head(toClient).command)
        /\ rpc' = "printed" /\ UNCHANGED mpc
  /\ UNCHANGED <<client_status_f, receive_message, sent, torn, early, worker, closed>>

\* The server went away within a response: json_unformat has no text to parse,
\* or receive_compress_data no sizes.
AnswerCut ==
  /\ Running /\ rpc = "body" /\ toClient = <<>> /\ closed
  /\ \/ mpc' = "exited" /\ UNCHANGED torn
     \/ torn' = TRUE /\ UNCHANGED mpc
  /\ UNCHANGED <<rpc, client_status_f, receive_message, sent, printed, early, worker,
                 closed, toServer, toClient>>

HandBack ==
  /\ Running /\ rpc = "printed"
  /\ client_status_f' = "SENDING" /\ rpc' = "select"
  /\ UNCHANGED <<mpc, receive_message, sent, printed, torn, early, worker, closed,
                 toServer, toClient>>

\* Mutant of ServerLost: the loop of receiving_logic goes on.
ServerLostGoesOn ==
  /\ Running /\ rpc \in {"recv", "num"} /\ toClient = <<>> /\ closed
  /\ rpc' = "select"
  /\ UNCHANGED <<mpc, client_status_f, receive_message, sent, printed, torn, early,
                 worker, closed, toServer, toClient>>

\* recv returned 0, here or in receive_data: the thread ends with SIGUSR1 for
\* the main thread, whose handler ends the process.
ServerLost ==
  /\ Running /\ rpc \in {"recv", "num"} /\ toClient = <<>> /\ closed
  /\ rpc' = "ended"
  /\ UNCHANGED <<mpc, client_status_f, receive_message, sent, printed, torn, early,
                 worker, closed, toServer, toClient>>

CloseClient ==
  /\ Running /\ rpc = "ended"
  /\ mpc' = "exited"
  /\ UNCHANGED <<rpc, client_status_f, receive_message, sent, printed, torn, early,
                 worker, closed, toServer, toClient>>

-----------------------------------------------------------------------------
(* The worker of the server: server_logic and client_select.               *)

WorkerSends(units, then) ==
  /\ toClient' = toClient \o units
  /\ wpc' = then

\* Mutant of AcknowledgeCommand: the command is looked at and not taken.
AcknowledgeCommandPeek ==
  /\ wpc = "select" /\ ~closed /\ toServer # <<>>
  /\ serving' = Head(toServer).command
  /\ WorkerSends([k \in 1 .. StatusBytes |-> Unit("ack", serving')], "notice")
  /\ UNCHANGED <<client, closed, toServer>>

AcknowledgeCommand ==
  /\ wpc = "select" /\ ~closed /\ toServer # <<>>
  /\ toServer' = Tail(toServer)
  /\ serving' = Head(toServer).command
  /\ WorkerSends([k \in 1 .. StatusBytes |-> Unit("ack", serving')], "notice")
  /\ UNCHANGED <<client, closed>>

\* Mutant of SendNotice: client_select does not announce the response.
SendNoticeForgotten ==
  /\ wpc = "notice" /\ ~closed
  /\ WorkerSends(<<>>, "num")
  /\ UNCHANGED <<client, serving, closed, toServer>>

SendNotice ==
  /\ wpc = "notice" /\ ~closed
  /\ WorkerSends(<<Unit("notice", serving)>>, "num")
  /\ UNCHANGED <<client, serving, closed, toServer>>

SendNum ==
  /\ wpc = "num" /\ ~closed
  /\ WorkerSends(<<Unit("num", serving)>>, "body")
  /\ UNCHANGED <<client, serving, closed, toServer>>

SendBody ==
  /\ wpc = "body" /\ ~closed
  /\ WorkerSends(<<Unit("body", serving)>>, "ack")
  /\ UNCHANGED <<client, serving, closed, toServer>>

AnswerAcknowledged ==
  /\ wpc = "ack" /\ ~closed /\ toServer # <<>>
  /\ toServer' = Tail(toServer) /\ wpc' = "select"
  /\ UNCHANGED <<client, serving, closed, toClient>>

ClientGone == ~closed /\ mpc = "exited"

\* receive_data returned NULL: the worker ends.
NoticeDisconnection ==
  /\ ClientGone /\ wpc = "select" /\ toServer = <<>>
  /\ closed' = TRUE
  /\ UNCHANGED <<client, worker, toServer, toClient>>

\* Mutant of StatusNeverComes: send_data waits for it.
StatusNeverComesWaits ==
  /\ ClientGone /\ wpc = "ack" /\ toServer # <<>>
  /\ wpc' = "select" /\ toServer' = Tail(toServer)
  /\ UNCHANGED <<client, closed, serving, toClient>>

\* recv of the checksum_status returns 0, and send_data is done.
StatusNeverComes ==
  /\ ClientGone /\ wpc = "ack" /\ toServer = <<>>
  /\ wpc' = "select"
  /\ UNCHANGED <<client, closed, serving, toServer, toClient>>

\* Or a recv or a send fails, which ends the whole server.
LoseClient ==
  /\ ClientGone /\ closed' = TRUE
  /\ UNCHANGED <<client, worker, toServer, toClient>>

\* The worker sees SERVER_DOWN, which it only looks at when select has nothing
\* for it; or the whole server is killed, wherever it is.
CloseConnection ==
  /\ ~closed
  /\ closed' = TRUE
  /\ UNCHANGED <<client, wpc, serving, toServer, toClient>>

-----------------------------------------------------------------------------

MainStep == SendCommand \/ ReceiveStatus \/ StatusEndOfFile \/ AwaitAnswer \/ CloseClient

ReaderStep == Wakes \/ ReceiveByte \/ CheckByte \/ ReceiveNum \/ ReceiveAnswer \/ AnswerCut
                \/ HandBack \/ ServerLost

WorkerStep == AcknowledgeCommand \/ SendNotice \/ SendNum \/ SendBody
                \/ AnswerAcknowledged \/ StatusNeverComes \/ NoticeDisconnection

\* The client has exited or the conversation is not followed any further.
Over == ~Running /\ UNCHANGED vars

Next ==
  \/ EnterCommand \/ Interrupt \/ MainStep \/ ReaderStep
  \/ WorkerStep \/ LoseClient \/ CloseConnection
  \/ Over

\* The three threads run.  Nothing obliges the user to enter a command, nor
\* the server to close.
Fairness == WF_vars(MainStep) /\ WF_vars(ReaderStep) /\ WF_vars(WorkerStep)

Spec == Init /\ [][Next]_vars /\ Fairness

-----------------------------------------------------------------------------

\* Every variable has its type, and the connection never holds more than an
\* acknowledgement and the command after it, or an acknowledgement and the
\* response after it.
TypeOK ==
  /\ mpc \in {"loop", "send", "ack", "acked", "exited"}
  /\ rpc \in {"select", "recv", "check", "num", "body", "printed", "ended"}
  /\ wpc \in {"select", "notice", "num", "body", "ack"}
  /\ client_status_f \in {"SENDING", "RECEIVING"}
  /\ receive_message \in {"none", "ack", "notice", "num", "body"}
  /\ sent \in 0 .. MaxCommands /\ serving \in 0 .. sent
  /\ printed \in Seq(1 .. MaxCommands)
  /\ toServer \in Seq([kind : {"command", "ack"}, command : 1 .. MaxCommands])
  /\ toClient \in Seq([kind : {"ack", "notice", "num", "body"}, command : 1 .. MaxCommands])
  /\ \A k \in DOMAIN toServer : k = 1 \/ (k = 2 /\ toServer[1].kind = "ack")
  /\ Len(toClient) <= StatusBytes + 3
  /\ {closed, torn, early} \subseteq BOOLEAN

\* As long as no unit is torn, the main thread is never inside send_data while
\* the secondary thread is inside receive_data: client_status_f is enough to
\* keep the two apart (clients.c:53-66, 261-270).
OneThreadTalks ==
  ~(mpc \in {"send", "ack", "acked"} /\ rpc \in {"num", "body", "printed"} /\ ~torn)

\* As long as no unit is torn, the answers printed are those to the commands
\* sent, in that order, each once, and a command is only sent when all those
\* before it are answered.
AnswersInOrder ==
  ~torn =>
    /\ printed = [k \in 1 .. Len(printed) |-> k]
    /\ sent - 1 <= Len(printed) /\ Len(printed) <= sent

\* Every command is answered, unless the server closes, the user leaves or the
\* secondary thread was ever woken while the main thread had the turn.
AnsweredUnlessEarly ==
  \A n \in 1 .. MaxCommands : sent = n ~> Len(printed) >= n \/ closed \/ early \/ mpc = "exited"

\* A client whose server closes the connection ends, wherever its two threads
\* are (clients.c:237, 272-273, 300-304), unless it reads a torn unit.
ServerCloseEndsClient == closed ~> mpc = "exited" \/ torn

\* A worker does not outlive its client: wherever a client leaves, in whatever
\* the worker does, no recv waits for it any more (middle.c:62-64, 98-101,
\* 115-119, server.c:268-278).
ClientLeaveEndsWorker == mpc = "exited" ~> closed

\* Neither end outlives the other (clients.c:272-273, server.c:268-278).
EndsTogether == ServerCloseEndsClient /\ ClientLeaveEndsWorker

=============================================================================
