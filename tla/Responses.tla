------------------------------ MODULE Responses ------------------------------
(***************************************************************************)
(* What a worker does between a command and its response, and the files it *)
(* does it with: journalctl_execute (src/src/server.c) has the shell write *)
(* two files named after the connection's descriptor and reads them;       *)
(* send_compress_data (src/src/middle.c) writes and reads one gz file that *)
(* all workers share; receive_compress_data does the same with one that    *)
(* all clients of a machine share.                                         *)
(*                                                                         *)
(* A worker and its client have one name.  The transfer of a packet is one *)
(* step (see Transfer); the text of a packet is whole or it cannot be      *)
(* parsed (see JsonText).  A text is the worker whose program wrote it and *)
(* a size; a packet carries one byte of it and is named by that worker,    *)
(* the number of the command and how many packets are left.                *)
(***************************************************************************)
EXTENDS Naturals, Sequences, FiniteSets, FiniteSetsExt

CONSTANTS
  Workers,
  Types,          \* the types the clients may have, "A", "B" or "C" by worker
  Sizes,          \* the sizes the program's two files may get
  Bulk,           \* the size of a packet's JSON text, and of its gz file
  MaxCommands,    \* bound on the commands of each client
  NONE

Fds == 1 .. Cardinality(Workers)

\* A packet's name, and what is sent of it: itself, or a gz file with its sizes.
Packets == Workers \X Nat \X Nat
Compressed == [of : Packets \union {NONE}, size : Nat, json : Nat]
Texts == [by : Workers, size : Nat]

ASSUME ResponsesAssumption ==
  /\ IsFiniteSet(Workers) /\ MaxCommands \in [Workers -> Nat]
  /\ Sizes \subseteq Nat /\ \E n \in Sizes : \A m \in Sizes : m <= n
  /\ Types \subseteq [Workers -> {"A", "B", "C"}] /\ Bulk \in [Workers -> Nat \ {0}]
  /\ NONE \notin Texts \union Packets \union Compressed

VARIABLES
  type,        \* the type of each client
  server,      \* "up", "crashed" in strlen(NULL), "killed" when it wrote to a dead client,
               \* or "exited" when a call of a worker failed
  stage,       \* where each worker is
  fd,          \* the descriptor of each connection, 0 without one
  commands,    \* how many commands each client has sent
  files,       \* the two temporary files of each descriptor
  produced,    \* how much there was for the response to the last command, by worker
  result,      \* the worker's text
  left,        \* how many packets of it are not sent
  gz,          \* data.json.gz
  file_size,   \* what ftell said of it
  sent,        \* the packet under way to each client
  received,    \* data_received.json.gz
  client,      \* where each client is
  shown,       \* what each client has put together of its response
  shared       \* the workers and clients that used a gz file while another did

exec == <<fd, commands, files, produced>>
sending == <<result, left, gz, file_size>>
clients == <<sent, received, client, shown>>
vars == <<type, server, stage, exec, sending, clients, shared>>

NoFiles == [err |-> NONE, out |-> NONE]

\* A gz file: whose packet begins it, and how long it is.  Every writer starts
\* at the beginning and does not cut what was there.
Empty == [of |-> NONE, size |-> 0]
Over(file, p) == [of |-> p, size |-> Max({file.size, Bulk[p[1]]})]

Init ==
  /\ server = "up" /\ type \in Types
  /\ stage = [w \in Workers |-> "away"] /\ fd = [w \in Workers |-> 0]
  /\ commands = [w \in Workers |-> 0]
  /\ files = [d \in Fds |-> NoFiles]
  /\ produced = [w \in Workers |-> 0]
  /\ result = [w \in Workers |-> NONE] /\ left = [w \in Workers |-> 0]
  /\ gz = Empty /\ received = Empty
  /\ file_size = [w \in Workers |-> 0]
  /\ sent = [w \in Workers |-> NONE]
  /\ client = [w \in Workers |-> "prompt"] /\ shown = [w \in Workers |-> <<>>]
  /\ shared = {}

Up == server = "up"
At(w, s) == Up /\ stage[w] = s
Goto(w, s) == stage' = [stage EXCEPT ![w] = s]

\* A client that has ended without a word.
Dead == {"crashed", "exited"}

-----------------------------------------------------------------------------
(* The connection.                                                         *)

\* Mutant of Accept: any descriptor.
AcceptAny(w) ==
  /\ At(w, "away") /\ commands[w] = 0
  /\ \E d \in Fds : fd' = [fd EXCEPT ![w] = d]
  /\ Goto(w, "serving")
  /\ UNCHANGED <<type, server, commands, files, produced, sending, clients, shared>>

\* accept hands out a descriptor that is free; which one depends on the files
\* that other workers have open.
Accept(w) ==
  /\ At(w, "away") /\ commands[w] = 0
  /\ \E d \in Fds \ {fd[v] : v \in Workers} : fd' = [fd EXCEPT ![w] = d]
  /\ Goto(w, "serving")
  /\ UNCHANGED <<type, server, commands, files, produced, sending, clients, shared>>

Command(w) ==
  /\ At(w, "serving") /\ client[w] = "prompt" /\ commands[w] < MaxCommands[w]
  /\ commands' = [commands EXCEPT ![w] = @ + 1]
  /\ client' = [client EXCEPT ![w] = "waiting"]
  /\ shown' = [shown EXCEPT ![w] = <<>>]
  /\ Goto(w, IF type[w] = "C" THEN "sysinfo" ELSE "popen")
  /\ UNCHANGED <<type, server, fd, files, produced, sending, sent, received, shared>>

\* The client has left, the worker closes its socket.
Leave(w) ==
  /\ At(w, "serving") /\ client[w] \in {"prompt"} \union Dead /\ commands[w] > 0
  /\ client' = [client EXCEPT ![w] = "gone"]
  /\ shown' = [shown EXCEPT ![w] = <<>>] /\ produced' = [produced EXCEPT ![w] = 0]
  /\ fd' = [fd EXCEPT ![w] = 0] /\ Goto(w, "away")
  /\ UNCHANGED <<type, server, commands, files, sending, sent, received, shared>>

-----------------------------------------------------------------------------
(* journalctl_execute                                                      *)

\* Mutant: the files have the same name for all workers.
NameFixed(w) == 1

\* Which pair of temporary files a worker uses.
Name(w) == fd[w]

Text(w, n) == [by |-> w, size |-> n]

\* The shell that popen starts opens the one file and then the other; when it
\* cannot, it runs no program.
Popen(w) ==
  /\ At(w, "popen")
  /\ \E new \in [err : {NONE}, out : {NONE, Text(w, 0)}]
               \union {[err |-> Text(w, 0), out |-> Text(w, 0)]} :
       files' = [files EXCEPT ![Name(w)] = new]
  /\ Goto(w, "run")
  /\ UNCHANGED <<type, server, fd, commands, produced, sending, clients, shared>>

\* popen fails: the response is the error message.
PopenFails(w) ==
  /\ At(w, "popen")
  /\ result' = [result EXCEPT ![w] = Text(w, Max(Sizes))]
  /\ produced' = [produced EXCEPT ![w] = Max(Sizes) + 1]
  /\ Goto(w, "respond")
  /\ UNCHANGED <<type, server, fd, commands, files, left, gz, file_size, clients, shared>>

\* The program writes what it writes and ends; pclose returns.
Run(w) ==
  /\ At(w, "run")
  /\ \E err, out \in Sizes :
       IF files[Name(w)].err = NONE
       THEN produced' = [produced EXCEPT ![w] = 0] /\ UNCHANGED files
       ELSE /\ files' = [files EXCEPT ![Name(w)] = [err |-> Text(w, err), out |-> Text(w, out)]]
            /\ produced' = [produced EXCEPT ![w] = IF err > 0 THEN err ELSE out]
  /\ Goto(w, "read err")
  /\ UNCHANGED <<type, server, fd, commands, sending, clients, shared>>

\* read_file: no text from a missing or an empty file; the last byte of any other
\* becomes the NUL.
ReadFile(file) ==
  IF file = NONE THEN NONE
  ELSE IF file.size < 1 THEN NONE
  ELSE [file EXCEPT !.size = @ - 1]

\* Mutant of ReadErr: what was written to stdout is never looked at.
ReadErrOnly(w) ==
  /\ At(w, "read err")
  /\ result' = [result EXCEPT ![w] = ReadFile(files[Name(w)].err)]
  /\ Goto(w, "remove")
  /\ UNCHANGED <<type, server, exec, left, gz, file_size, clients, shared>>

\* What was written to stderr is the response if there is any.
ReadErr(w) ==
  /\ At(w, "read err")
  /\ result' = [result EXCEPT ![w] = ReadFile(files[Name(w)].err)]
  /\ Goto(w, IF result'[w] = NONE THEN "read out" ELSE "remove")
  /\ UNCHANGED <<type, server, exec, left, gz, file_size, clients, shared>>

ReadOut(w) ==
  /\ At(w, "read out")
  /\ result' = [result EXCEPT ![w] = ReadFile(files[Name(w)].out)]
  /\ Goto(w, "remove")
  /\ UNCHANGED <<type, server, exec, left, gz, file_size, clients, shared>>

\* Mutant of Remove: only the file that was read is removed.
RemoveRead(w) ==
  /\ At(w, "remove")
  /\ files' = [files EXCEPT ![Name(w)].err = NONE]
  /\ Goto(w, "respond")
  /\ UNCHANGED <<type, server, fd, commands, produced, sending, clients, shared>>

Remove(w) ==
  /\ At(w, "remove")
  /\ files' = [files EXCEPT ![Name(w)] = NoFiles]
  /\ Goto(w, "respond")
  /\ UNCHANGED <<type, server, fd, commands, produced, sending, clients, shared>>

\* sysinfo_execute has an answer to any command (see Exit for its failures).
Sysinfo(w) ==
  /\ At(w, "sysinfo")
  /\ result' = [result EXCEPT ![w] = Text(w, Max(Sizes))]
  /\ produced' = [produced EXCEPT ![w] = Max(Sizes) + 1]
  /\ Goto(w, "respond")
  /\ UNCHANGED <<type, server, fd, commands, files, left, gz, file_size, clients, shared>>

-----------------------------------------------------------------------------
(* send_data, with send_compress_data for clients of type B.               *)

Packet(w) == <<result[w].by, commands[w], left[w]>>

Using == {w \in Workers : stage[w] \in {"create", "compress", "open", "read"}}
Reading == {w \in Workers : client[w] \in {"write", "gzread"}}

\* Others are in the middle of the file that w starts to use.
Meets(w, users) ==
  LET others == users \ {w}
  IN shared' = IF others = {} THEN shared ELSE shared \union others \union {w}

SendPacket(w, packet) ==
  /\ sent' = [sent EXCEPT ![w] = packet]
  /\ client' = [client EXCEPT ![w] = "packet"]
  /\ Goto(w, "ack")

\* strlen of the text; the first packet, when there is one.
Respond(w) ==
  /\ At(w, "respond")
  /\ IF result[w] = NONE
     THEN server' = "crashed" /\ UNCHANGED <<stage, left>>
     ELSE left' = [left EXCEPT ![w] = result[w].size] /\ Goto(w, "next") /\ UNCHANGED server
  /\ UNCHANGED <<type, exec, result, gz, file_size, clients, shared>>

CountDown(w) == left' = [left EXCEPT ![w] = @ - 1]

SendRaw(w) ==
  /\ At(w, "next") /\ left[w] > 0 /\ type[w] # "B"
  /\ SendPacket(w, Packet(w)) /\ CountDown(w)
  /\ UNCHANGED <<type, server, exec, result, gz, file_size, received, shown, shared>>

\* create_file: fopen cuts the file.
CreateFile(w) ==
  /\ At(w, "next") /\ left[w] > 0 /\ type[w] = "B"
  /\ gz' = Empty /\ Meets(w, Using)
  /\ Goto(w, "create")
  /\ UNCHANGED <<type, server, exec, result, left, file_size, clients>>

\* gzopen cuts it again.
GzOpen(w) ==
  /\ At(w, "create")
  /\ gz' = Empty /\ Goto(w, "compress")
  /\ UNCHANGED <<type, server, exec, result, left, file_size, clients, shared>>

\* gzclose writes what gzwrite compressed.
GzClose(w) ==
  /\ At(w, "compress")
  /\ gz' = Over(gz, Packet(w)) /\ Goto(w, "open")
  /\ UNCHANGED <<type, server, exec, result, left, file_size, clients, shared>>

\* fopen and ftell.
OpenFile(w) ==
  /\ At(w, "open")
  /\ file_size' = [file_size EXCEPT ![w] = gz.size]
  /\ Goto(w, "read")
  /\ UNCHANGED <<type, server, exec, result, left, gz, clients, shared>>

\* fread; the size of the JSON text goes with it.
ReadFileAndSend(w) ==
  /\ At(w, "read") /\ file_size' = [file_size EXCEPT ![w] = 0]
  /\ SendPacket(w, [of |-> gz.of, size |-> Min({file_size[w], gz.size}),
                    json |-> Bulk[result[w].by]])
  /\ CountDown(w)
  /\ UNCHANGED <<type, server, exec, result, gz, received, shown, shared>>

\* free of the text; server_logic goes on.
Sent(w) ==
  /\ At(w, "next") /\ left[w] = 0
  /\ Goto(w, "serving") /\ result' = [result EXCEPT ![w] = NONE]
  /\ client' = [client EXCEPT ![w] = IF @ = "waiting" THEN "prompt" ELSE @]
  /\ UNCHANGED <<type, server, exec, left, gz, file_size, sent, received, shown, shared>>

\* sysinfo or calloc fails, or data.json.gz cannot be opened, by fopen or gzopen of
\* create_file or to be read: the server exits, with all its workers.
Exit(w) ==
  /\ \/ At(w, "sysinfo")
     \/ At(w, "create")
     \/ At(w, "open")
     \/ At(w, "next") /\ left[w] > 0 /\ type[w] = "B"
  /\ server' = "exited"
  /\ UNCHANGED <<type, stage, exec, sending, clients, shared>>

\* The client died over a packet: the worker goes on to the end of its loop, or
\* a send or a recv ends the server (see Transfer).
LoseClient(w) ==
  /\ At(w, "ack") /\ client[w] \in Dead
  /\ \/ server' = "killed" /\ UNCHANGED <<stage, left, result>>
     \/ /\ Goto(w, "serving") /\ UNCHANGED server
        /\ left' = [left EXCEPT ![w] = 0] /\ result' = [result EXCEPT ![w] = NONE]
  /\ UNCHANGED <<type, exec, gz, file_size, clients, shared>>

-----------------------------------------------------------------------------
(* The client: receive_data, with receive_compress_data.                   *)

\* What the text parsed from n bytes is: the packet it begins with when all of
\* that was read, else nothing that can be parsed.
Parsed(of, n) == IF of = NONE THEN NONE ELSE IF n < Bulk[of[1]] THEN NONE ELSE of

\* json_unformat and checksum_check: a packet that cannot be parsed ends the
\* client, any other is accepted.
Unformat(w, packet) ==
  IF packet = NONE
  THEN client' = [client EXCEPT ![w] = "crashed"] /\ UNCHANGED <<shown, stage>>
  ELSE /\ shown' = [shown EXCEPT ![w] = Append(@, packet)]
       /\ client' = [client EXCEPT ![w] = "waiting"]
       /\ Goto(w, "next")

ReceiveRaw(w) ==
  /\ client[w] = "packet" /\ At(w, "ack") /\ type[w] # "B"
  /\ Unformat(w, sent[w]) /\ sent' = [sent EXCEPT ![w] = NONE]
  /\ UNCHANGED <<type, server, exec, sending, received, shared>>

\* recv of the sizes and the file; fopen cuts the file.
Receive(w) ==
  /\ client[w] = "packet" /\ At(w, "ack") /\ type[w] = "B"
  /\ received' = Empty /\ Meets(w, Reading)
  /\ client' = [client EXCEPT ![w] = "write"]
  /\ UNCHANGED <<type, server, stage, exec, sending, sent, shown>>

\* Mutant of Store: the file is opened for reading before it is closed.
StoreLate(w) ==
  /\ client[w] = "write"
  /\ client' = [client EXCEPT ![w] = "gzread"]
  /\ UNCHANGED <<type, server, stage, exec, sending, sent, received, shown, shared>>

\* fclose writes what fwrite was given.
Store(w) ==
  /\ client[w] = "write"
  /\ received' = IF sent[w].of = NONE THEN received
                 ELSE [of |-> IF sent[w].size < Bulk[sent[w].of[1]] THEN NONE ELSE sent[w].of,
                       size |-> Max({received.size, sent[w].size})]
  /\ client' = [client EXCEPT ![w] = "gzread"]
  /\ UNCHANGED <<type, server, stage, exec, sending, sent, shown, shared>>

\* gzread gives json_size bytes at most; then the packet is unpacked.
GzRead(w) ==
  /\ client[w] = "gzread"
  /\ Unformat(w, Parsed(received.of, Min({received.size, sent[w].json})))
  /\ sent' = [sent EXCEPT ![w] = NONE]
  /\ UNCHANGED <<type, server, exec, sending, received, shared>>

\* data_received.json.gz cannot be opened, to be written or to be read: the client
\* exits.
ClientExit(w) ==
  /\ \/ client[w] = "packet" /\ type[w] = "B"
     \/ client[w] = "gzread"
  /\ client' = [client EXCEPT ![w] = "exited"] /\ sent' = [sent EXCEPT ![w] = NONE]
  /\ UNCHANGED <<type, server, stage, exec, sending, received, shown, shared>>

Worker(w) ==
  \/ Popen(w) \/ PopenFails(w) \/ Run(w) \/ ReadErr(w) \/ ReadOut(w) \/ Remove(w) \/ Sysinfo(w)
  \/ Respond(w) \/ SendRaw(w) \/ CreateFile(w) \/ GzOpen(w) \/ GzClose(w) \/ OpenFile(w)
  \/ ReadFileAndSend(w) \/ Sent(w) \/ Exit(w) \/ LoseClient(w)

Client(w) == ReceiveRaw(w) \/ Receive(w) \/ Store(w) \/ GzRead(w) \/ ClientExit(w)

Stopped ==
  /\ ~Up \/ \A w \in Workers : client[w] = "gone"
  /\ UNCHANGED vars

Next ==
  \/ \E w \in Workers : Accept(w) \/ Command(w) \/ Leave(w) \/ Worker(w) \/ Client(w)
  \/ Stopped

Spec == Init /\ [][Next]_vars

-----------------------------------------------------------------------------

\* How long the response to the last command must be: what the program wrote to
\* stderr, or else to stdout, without its last byte.
Due(w) == IF produced[w] > 0 THEN produced[w] - 1 ELSE 0

\* Every variable has its type; open connections have descriptors of their own,
\* and a client is in a packet exactly when its worker waits for the answer.
TypeOK ==
  /\ server \in {"up", "crashed", "killed", "exited"} /\ shared \subseteq Workers
  /\ \A w \in Workers :
       /\ fd[w] \in Fds \union {0} /\ commands[w] \in 0 .. MaxCommands[w]
       /\ fd[w] = 0 <=> stage[w] = "away"
       /\ \A v \in Workers \ {w} : fd[w] = fd[v] => fd[w] = 0
       /\ client[w] \in {"prompt", "waiting", "packet", "write", "gzread", "gone"} \union Dead
       /\ client[w] \in {"packet", "write", "gzread"} => stage[w] = "ack"
       /\ sent[w] # NONE <=> client[w] \in {"packet", "write", "gzread"}
       /\ result[w] # NONE /\ stage[w] # "remove" => left[w] <= result[w].size

\* The response of a command is what its own program wrote, all but the last
\* byte of it, however descriptors and with them the names of the files are
\* handed on from one connection to the next; there is none, which brings the
\* server down in strlen, only when nothing was written to either file
\* (server.c:327-345, server_utils.c:40-46, middle.c:20).
OwnOutput ==
  \A w \in Workers : stage[w] = "respond" =>
    result[w] = IF produced[w] > 0 THEN Text(w, Due(w)) ELSE NONE

\* Temporary files are there only while a command runs: the next connection with
\* the same descriptor finds none (server.c:347-348).
NoLeftovers ==
  \A d \in Fds : files[d] # NoFiles =>
    \E w \in Workers : Name(w) = d /\ stage[w] \in {"run", "read err", "read out", "remove"}

\* A client whose worker, and which itself, had its gz file to itself shows the
\* response to its last command, every packet once and in order, and does not
\* crash: neither the double truncation nor what other commands left in the
\* files gets in the way (middle.c:67-104, 192-229, 304-322).
ShowsOwn ==
  \A w \in Workers \ shared :
    /\ client[w] # "crashed"
    /\ client[w] = "prompt" /\ commands[w] > 0 =>
         shown[w] = [k \in 1 .. Due(w) |-> <<w, commands[w], Due(w) + 1 - k>>]

=============================================================================
