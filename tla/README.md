# Verification of linux-client-server-sockets

TLA+ models of the program in `src/`, the TLC runs that check them on small
instances, and TLAPS proofs of what holds for every instance. Source lines are
given as `file.c:line` (files of `src/src/`, headers of `src/inc/`, `cJSON.c` of `src/cJSON/`).

    tlc -workers 2 -config MCTransfer.cfg MCTransfer     # one run
    tlapm TransferProofs.tla                             # one module's proofs

## 1. The system

A server accepts connections on a unix, an ipv4 and an ipv6 socket and starts a
thread for each. A client sends its type (A, B or C) and then commands, one at a
time; the server executes a command (`journalctl` for A and B, `sysinfo` for C)
and sends the output back. Everything but the type and a one-byte notice goes
through the middle layer: a text is cut into packets, each packet becomes a JSON
text with a crc32 and travels after its size; the receiver answers every packet
with `CHECKSUM_OK` or `CHECKSUM_FAIL`. Responses to clients of type B are
compressed.

| Part | State it keeps | Operations | Talks to | Correct when | Module |
|---|---|---|---|---|---|
| Packets (`middle.c:231-276`, `121-176`) | the list of packets, `flag_last`, `num_packets` | `data_packing`, the packet loops, `data_unpacking` | called by every transfer | no copy leaves its buffer; the list is as long as `num_packets` says; the text arrives (it does not: section 4) | `Packing` |
| JSON text (`middle.c:278-302`, `cJSON.c`) | the items, the growing print buffer, the parser's place | `json_format`, `json_unformat` and what they call | called for every packet | what is printed fits and comes back; a cut text is rejected; nothing leaks | `JsonText` |
| Strings of the JSON text (`cJSON.c:590-1044`) | counts and positions | `parse_string`, `print_string_ptr` | `JsonText` | what one loop counts is what the other writes; bytes come back | `JsonString` |
| Transfer (`middle.c:18-229`, `324-352`) | place in the protocol, current packet, list so far, `checksum_status` | `send_data`, `send_raw_data`, `send_compress_data`, `receive_data`, `receive_compress_data`, `checksum_check`, the error handlers | its peer, over the socket | packets accepted in order, once, undamaged; the sender never ahead of the receiver; a damaged packet is repaired | `Transfer`, `Delivery` |
| Responses: command execution and compressed files (`server.c:318-375`, `server_utils.c:19-49`, `middle.c:72-86`, `208-226`, `304-322`) | two temporary files per descriptor, two gz files with fixed names | `journalctl_execute`, `sysinfo_execute`, `read_file`, `create_file`, gz reads | an external program; all workers and all B clients of a machine | the answer is the output of this command; a client shows its own response | `Responses` |
| Thread list (`server_utils.c:51-101`) | `thread_list.head`, `.last`, the nodes | `add_thread`, `rmv_thread`, `end_threads` | workers, under `lock`; whoever is in `close_server`, without it | finite, no freed node on it, no thread twice; `end_threads` joins all it has | `ThreadList`, `ThreadRegistry` |
| Server (`server.c:151-316`, `377-402`) | `server_flag`, the listening sockets, `client_socket`, one thread per client | `wait_client`, `create_thread`, `thread_client_handler`, `server_logic`, `client_select`, `sigint_handler`, `close_server` | clients, thread list, middle layer | every client has a thread; commands are answered, whatever other clients do; SIGINT ends the server, and ends nothing half-done | `Server` |
| Sockets' life cycle (`server.c:8-149`, `377-394`, `clients.c:44-206`) | descriptors, the socket path, the ports | `server_init`, `create_*_socket`, `close_server`, `client_init`, `connect_*` | the kernel's names, across kills and restarts | one server at most; a server can be started again; clients reach it | `Lifecycle` |
| Client (`clients.c:208-304`) | `client_status_f`, `server_flag`, the socket both threads read | `message_sender`, `receiving_logic`, `thread_function`, the signal handlers | the worker of the server | the two threads do not take each other's bytes; answers follow commands; neither end outlives the other | `Session` |

How the models meet: `Server` takes a transfer as what both ends must do for it, a beginning and an end, and `Responses` and `Transfer`
say what happens between; `Responses` takes the transfer of a packet as one step and `Transfer`
says what that needs; `Transfer` takes a payload as a value and `JsonText` says when its text
is one; `JsonText` takes a string as one token, which `JsonString` takes apart. `Session` is
the one connection seen byte by byte, `Lifecycle` all server processes of a machine.

What is hard: two client threads reading one socket with one flag between them;
a linked list changed under a mutex and walked without one, by more than one thread; a protocol
whose retry differs between the ends on one path; a stop that has to wait for
responses in progress, and a `recv` without a timeout in the middle of one; files with fixed or reused names; a start that fails half-way and
removes what another process owns; counts made in one loop and trusted in another;
off-by-ones between a packet's size and its stride. The
hazards, each at its line, are listed in `PROJECT.json`.

Not modelled, and why:

* *cJSON* beyond what `src/src` calls (arrays and unformatted text as output, preallocated buffers,
  duplicates, comparison, minify, hooks). Of what is called, the digits of a number
  (`print_number`, `parse_number`): a conversion of the C library, and both numbers of a packet are
  integers below 2^32.
* *Command line and input* (`clients.c:17-42`, `306-322`): sequential, without state that outlives a
  line. A client without an address passes NULL to `inet_pton`; at the end of its
  input `message_sender` spins.
* *Logging*: no property looks at it.

## 2. Modules

Each definition is translated from the lines `PROJECT.json` "map" gives for it.
A variable has the name of the C variable it stands for wherever there is one.
Operators introduced by "Mutant of" are plausible bugs: no specification uses
them; they show that each property can be broken by a change of the code.

**`Packing`.** One text from `data_packing` to the end of `data_unpacking`, one
loop iteration per action, over a transport that loses nothing. A byte is named
by its offset in the text, so that a lost, repeated or reordered byte is seen
whatever the text says. The packet after the last one, which `data_packing`
always hangs up and flags (`middle.c:249-258`), is part of `packets` and is never
sent.

**`JsonText`.** One packet from `json_format` to `json_unformat`. A text is a sequence of
tokens, with the white space of `cJSON_Print` (a damaged token may be anything); the
printer's positions count bytes, by a width per piece, the parser's count tokens. Items are named by their
path, so that what is allocated and what is reachable can be compared. Between the two
ends the text is cut, or one token is replaced, and the memory behind it, which the
parser's `strlen` runs into (`middle.c:131`), holds a tail. `parse_value` and what it
calls recursively are one stack of calls; every allocation may fail.

**`JsonString`.** One string, by bytes: `print_string_ptr` counts in one loop and writes in
another, `parse_string` likewise. A behaviour prints a text and parses what was printed, or parses an
input that was damaged.

**`Delivery`.** What `send_data` and `receive_data` promise together: packets
accepted one by one and in order, the message handed over only when complete, or
a failure.

**`Transfer`.** `send_data` against `receive_data`, one action per `send` and
`recv`, on the raw and on the compressed path. `data` and `acks` are the two
directions of the connection. Connections are reliable and ordered, as
`SOCK_STREAM` is; what can go wrong is named by the constant `Faults`: a payload
damaged so that its crc32 fails (`data`), it is no packet's JSON any more (`json`) or its
`flag_last` changed (`flag`, which the crc32 does not cover), a `recv` that returns
a part (`short`), an end that goes away (`close`). At the end of file the code reuses what
its variables held (only `middle.c:118` tests for 0); the actions `...EndOfFile`
say what that is. `killed` is SIGPIPE, `exited` an error handler, `crashed` a
NULL dereference in `json_unformat` or `data_unpacking`; `undefined` is a receiver
that has taken bytes of a payload for a size or read memory that was never
written: no claim is made about what it does next. A short payload on the compressed path may end in any
of three ways, since the buffers come from `malloc` and nobody looks at what `gzread` returns (`middle.c:203-228`): a
crash, a text of which nothing is known, or, when only the end of the file is missing, the whole packet,
accepted (`rest`); what was not read is then taken for the next size (`GoesOnAfter`).

**`Responses`.** What a worker does between a command and its response, and its client with
the response, one action per file operation. A worker and its client have one name. Temporary files are named after
the connection's descriptor, which `accept` hands out again; `data.json.gz` is the workers',
`data_received.json.gz` the clients'. A text is who wrote it and a size; a packet is named by whose command it
belongs to and what is left. Every `fopen` and `gzopen`, `sysinfo` and `calloc` may fail, and its `exit` ends the server
(`Exit`) or the client (`ClientExit`). A gz file is whose packet begins it and how long it is. `shared` records who
used a gz file while another did. What the program writes, and whether the shell
behind `popen` starts at all, is nondeterministic.

**`ThreadRegistry`.** The thread list without pointers: a sequence of threads,
and whether `last` has come adrift, in which case a new thread is lost.

**`ThreadList`.** The list with its nodes. A node is an address; `malloc` may
return any address that is not live, freed ones included, and freed memory keeps
its contents until then. `rmv_thread` takes one step per node, `end_threads` one
per dereference and join, for each of its callers: the main thread, and a
worker that called `close_server` or was interrupted by SIGINT, perhaps with the
mutex (`LockLost`). `cursor` outside `live` when dereferenced is a use after
free: that walk is then `undefined`. A join that closes a circle of two, or joins oneself, is
refused at once; a circle of more waits for ever, as in glibc; `joined` are the
threads that must not be joined again. `add_thread` is one step, since the only
reader without the mutex is `end_threads`, and the list it can see changes in one
write (`server_utils.c:59` or `:64`). `due` and `raced` are history variables.

**`Server`** extends `ThreadList`: its worker actions are the list's actions with
the conditions of `server_logic` around them. `backlog` is what the three listening sockets hold,
`inbox` what a worker's socket holds, `unknown` the clients of no known type.

What a worker needs of its client is explicit. A command has a beginning, which wakes the worker (`ReceiveCommand`), and a
rest, for which it waits in `receive_data` (`ReceiveRest`); a response is sent (`Respond`), and then the worker waits in
`send_data` for the `checksum_status` (`ReceiveStatus`). Both waits are `recv` without a timeout
(`middle.c:62`, `99`, `128`, `139`), and the client's steps `SendRest` and `Acknowledge` end them, or its leaving does.
`silent` are clients of which nothing is promised: one that is suspended, or waits for a notice it dropped
(`Session`), may stop anywhere. The packets of one command or response are one exchange here: each is the same wait.

Every error handler's `exit` is an action: of the main thread (`MainFails`: `select`, `accept`, `pthread_create`), of a
worker whose client left (`CutOff`, `Respond`, `ReceiveStatus`, `ConnectionReset`), and of a worker at any other moment
(`WorkerFails`); `killed` is a process that ended so, or by SIGPIPE. SIGINT interrupts the main thread anywhere;
its handler never returns (`server.c:396-402`), so lines 178-182 of `wait_client`
never run and are not modelled. A second SIGINT is taken by a worker, anywhere (`InterruptWorker`);
a worker whose client has no known type calls `close_server` itself (`CloseForUnknown`). The listening sockets are
the tuple `Families` in the order `wait_client` looks at them; of the accepts of a round only the failure of the
last one shows (`server.c:195`).

**`Lifecycle`.** Server processes and the kernel's names. `server_init` creates
the sockets in order, a `bind` and a `listen` each; a failure goes to `close_server`, which closes
what there is and removes the path, whoever bound it. `path` is whose socket
the path names, or `dead` when that socket is gone; a port is free, held, or in TIME_WAIT. A server ends in three ways:
interrupted, which joins its workers before it closes anything (`join`, or `held` while it waits for one that may
never end, as `Server` shows); killed by a signal without a handler (`Kill`); or by an error handler's `exit`, of the
main thread or of any worker (`ExitOnError`). Only the first reaches `unlink`; `cut` records that the path
was left since. `Accept` is a round of `wait_client`: one connection of each ready socket is accepted, the last
is served and the others are `lost` until their users end them (`GiveUp`). A server may be started again, or
beside another; `met` are the servers that another process ran beside.

**`Session`.** The client's two threads and its worker. From server to client the
connection is a sequence of single bytes (each byte of a `checksum_status`, the
notice) and longer units (`num_packets`, the rest of a response), since what the threads can
take from each other is bytes. All single bytes are 0: `SERVER_MESSAGE` and `CHECKSUM_OK` cannot be told
apart (`common.h`), which is why the interference mostly goes unnoticed. When a
thread has read a part of a longer unit, `torn` is set and the conversation is not
followed further. Commands fit one packet (`clients.c:308`); `server_flag` in
`receiving_logic` (`clients.c:254`) is only set by the handler that ends the
process, so that test never succeeds and is not modelled. The connection may be closed by the
worker that sees SERVER_DOWN, by the death of the whole server, or by the client, which the user
may interrupt at any moment. A finite number of commands is entered.

`MC*` modules give the constants their values. `PackingProofs`, `JsonTextProofs`, `JsonStringProofs`,
`TransferProofs`, `ResponsesProofs`, `LifecycleProofs`, `SessionProofs` and `ServerProofs` hold the
theorems about the module each is named after, with their proofs (section 5); those about `ThreadList`
are the first part of `ServerProofs`.

## 3. Runs that pass

| Run | Instance | What it shows |
|---|---|---|
| `MCPacking` | packets of 4 bytes, texts of 0 to 20: every residue with 0 to 5 packets, the full block and its neighbours | `CopiesInBounds`, `ListLongEnough`, `UnpackFits`: no copy leaves its buffer although `data_unpacking` trusts `num_packets`. `OnlyBlockEndsLost`: the loss that `MCPackingWhole` shows (section 4) is confined to the last byte of every full block. |
| `MCJsonText` | messages of 2 to 50 bytes, a buffer of 8 and an `INT_MAX` of 80, a nesting limit of 2, one failing allocation, any cut, any token replaced by up to two others, three tails | `InBounds`: no piece is printed beyond the buffer (`PrintFits`), each is counted by its own NUL (`OffsetCounts`), and the parser stays inside its text (`ReadsInBounds`). `FreedOnce`: buffer and items, on every failure path. `WholeOrNothing`: an undamaged packet comes back, whatever lies behind it, and no cut text is taken for a packet. |
| `MCJsonString` | texts of up to 3 of nine characters; inputs of up to 4 of eight pieces, and of up to 6 single characters behind a `\u` | `InBounds`: the count is enough (`WritesFit`), when printing it is exact (`EndsWhereCounted`), and the parser stays inside its input (`ReadsInBounds`), with any broken escape. `DecodesToUtf8`: and what it decodes is UTF-8. `ComesBack`: the round trip. |
| `MCTransfer` | up to 3 packets, both paths, all faults, 3 of them | `InOrder`: the list never has a damaged, repeated or misplaced packet. `AckMeansAccepted`: the sender leaves a packet behind only when it was accepted. `Implements`: refinement of `Delivery`. `Completes`: any damage of data is repaired on the raw path. |
| `MCResponses` | 2 clients of any two types, one of them B; 2 commands and 1; outputs of 0, 1 and 3 bytes | `OwnOutput`: a response is the output of its own command, although descriptors and with them file names are handed on, and only a command that wrote nothing has none, over which the server crashes. `NoLeftovers`: no temporary file outlives its command, in a server that runs on. `ShowsOwn`: whoever had the gz files to itself shows its own response, every packet once. |
| `MCThreadList` | 3 threads, 3 addresses, symmetric, 2 callers of `end_threads` | `ListSound`: although `last` dangles, what is reachable from `head` is always finite, live and without repetition. `Implements`: refinement of `ThreadRegistry`. `EndThreadsJoinsListed`: unless a thread leaves meanwhile, with one caller or two. |
| `MCServer` | 2 clients, one of no known type that may fall silent, 2 sockets, 1 command each, errors at any moment, SIGINT at any moment and once more at that client's worker | `CommandAnswered`: a client that sends a command and goes on gets the answer, from the moment its thread exists, the wait for the mutex included, and whatever the other client does or stops to do. `ShutdownAnswers`: a stop loses no command that a listed worker has begun to read. `Stops`: the stop ends, with the two exceptions that it names: a worker was interrupted with the mutex (`LockLost`), or is held up for ever by a client that stopped in the middle of a transfer (`HeldUp`). |
| `MCSession` | 3 commands, statuses of 4 bytes, the user's SIGINT at any moment | `OneThreadTalks`, `AnswersInOrder`: as far as no unit is torn, `client_status_f` separates the threads. `AnsweredUnlessEarly`: an answer is only ever missing after the secondary thread woke during the main thread's turn. `EndsTogether`: neither end outlives the other. |
| `MCLifecycle` | 2 server processes, a client of the path and of each port, 2 kills or interrupts, 1 failing call, during a start or later | `OneServer`: one serves at most, and the ports lead to it. `PathSound`: so does the path unless another process took it (`PathLeadsHome`), and a dead path is only left by an end that does not reach `close_server` (`LeavesNoPath`). `Restartable`: whatever was left, some start succeeds in the end, unless an interrupted server waits for ever for a worker and keeps its names. `GetsThrough`: with the same exception clients are served in the end, also those that a round accepted and did not serve, once their users start them again; a client of a path that was taken away only if it was connected before (`ShutOut`). |

Each of these modules has one type invariant as well.

Why the bounds are enough. The safety properties are proved for every value of the constants (section 5), so the
bounds limit what is shown only for the liveness properties; for the others they say what the
run comes across, and which mutants it can tell from the code. *JsonText*: the widths
put every boundary of the doubling buffer, and the limit, at every piece of the object; a
packet has one level, so a limit of 2 admits one level too many. *JsonString*: an escape is at most two units of `\uXXXX`, and a
count depends on each character alone; three characters give a first, a middle and a
last one. *Transfer*: the two ends are at most one packet apart (`AckMeansAccepted`), so three packets give a
first, a middle and a last one; three faults give a packet refused twice, two
refused packets, and an end that goes away after a refusal. *Responses*: two are enough to share a file, and packets
of two sizes for one to leave a rest of the other; two commands for the second to find what the first left; outputs
of 0, 1 and 3 bytes become no answer, an empty one and one of two packets. *ThreadList*: with two
listed and the third to come a removal at the head and at the tail, a reused address and a thread hung behind
a dangling `last` all happen; three on the list have a middle. *Server*: two
workers are enough to compete for the mutex, for the walk and to join each other; two sockets make a
round of two possible, of which one is lost. The client of no known type is a worker like any other until its first
command is read, so it stands for all that can trouble the other: it may stop in the middle of its command, hold up the stop
there, and be interrupted with the mutex. That a stop is held up in a response (`middle.c:62`) is the same wait.
*Session*: the second command is the first that meets left-overs of the first, the third that meets both.
*Lifecycle*: two servers are one that has the names and one that wants them; two signals kill
both, or one server and its successor; a third server would only repeat the second's failure. A client of each socket makes a
round of three possible, in which one is served and two are lost.

`CHECK_DEADLOCK` is on everywhere: a module in which the system may rest has a stuttering action for exactly
those states (`Lifecycle` never rests).

Fairness. *Transfer*: weak fairness of each process as a whole, which is what
scheduling gives a thread with something to do; none for faults or for an end going away, and
`Completes` needs only finitely many faults, which `MaxFaults` bounds. *Server*:
weak fairness for the main thread and for each worker, which wait where the code does. Of a client that is not
`silent`: that it sends its type once connected (`clients.c:109`), finishes a command it has begun
(`middle.c:29-41`) and answers what it receives (`middle.c:336`), which are its threads going on; of a
silent one nothing; none for commands, leaving, errors or SIGINT. A weakly fair worker may lose the mutex to others again and
again in principle; it does not here because each worker takes it at most twice.
*Session*: weak fairness for the three threads; none for the user or for the server's closing.
*Lifecycle*: weak fairness for each server process and each client, for the user who starts an ended server or a
refused client again or ends a client that is not answered, and for the end of TIME_WAIT; none for signals, faults, or the
end of a wait for a worker (`Resume`). The
other modules state no liveness.

## 4. Where the code and the documents disagree

Each run checks one sentence of a document or comment, which the code violates; TLC's trace
shows how. They are listed as "findings".

| Run | Sentence | What happens |
|---|---|---|
| `MCPackingWhole` | "File download must work for any size/format" (INSTRUCTIONS.md:42) | of every full block of 4096 bytes the last is not sent: the stride of the loop is one more than what a packet takes (`middle.c:241-243`); the shortest text that does not arrive is one block long |
| `MCTransferRetry` | "Otherwise, sends the message again" (`middle.h:82`) | on the compressed path the file is repeated but the receiver reads two sizes first (`middle.c:94-101` against `137`, `197-201`) |
| `MCThreadListLost` | "Each thread [...] is saved in a thread list" (README.md:116) | a thread hung behind the dangling `last` cannot be found (`server_utils.c:82`) |

What else the models contain, as behaviour of the code that the properties are stated around:

* Of the connections accepted in one round of `wait_client` only the last gets a thread (`server.c:186-203`), against
  README.md:112; `Accept` in `Server` and `Lifecycle` does this, and `GetsThrough` lets the others be started again.
* A client that leaves during a response ends the whole server, by SIGPIPE (`middle.c:96`) or
  `exit`, against INSTRUCTIONS.md:24; such an end leaves the path behind (`ExitOnError`), and the first start after it fails.
* A client that stops in the middle of a transfer keeps a server that was told to stop from ending (`middle.c:62`),
  and with it the names from every later start; `Stops` and `Restartable` name the exception.
* `end_threads` reads a node that was freed while it joined (`server_utils.c:98-99`),
  against INSTRUCTIONS.md:31; `raced` marks these behaviours.
* A notice read before `client_status_f` is RECEIVING is dropped (`clients.c:261`), against README.md:91;
  the command then waits for the next one. `AnsweredUnlessEarly` names the condition.
* Two clients of type B whose responses overlap may get packets of each other, or crash on a
  mixture (`middle.c:312`, `208`); `ShowsOwn` is about the others.
* A command that writes nothing crashes the server (`server.c:311`, `middle.c:20`).
* A worker interrupted by SIGINT while it holds the mutex blocks every worker that ends (`LockLost`).
  With three clients of no known type, three workers in `close_server` may join each other in a circle.
* A second server that cannot start removes the path of the first (`server.c:389`), which
  no client finds any more.
* README.md:69 calls `flag_last` the mark of the last packet, but the packet that
  carries it is never sent (`middle.c:258`); a short `recv`
  makes `json_unformat` dereference NULL (`middle.c:139`, `297`); the secondary thread can take
  bytes of the main thread's checksum status (`clients.c:259`), harmless only as long as they are 0.

## 5. Proofs

Every safety property that a passing run checks is a theorem: it holds for every value
of the constants, not only for the instance of the run. A theorem assumes nothing but the assumption on
the constants of its module (`SizesAssumption`, `TransferAssumption`, ...), which is what the code
justifies: sizes and bounds are numbers, the sets are what their names say, a null pointer is no
node. Bounds on counters (faults, commands, signals) are constants too, so the theorems hold for any
number of them.

| Module | Theorems | For every |
|---|---|---|
| `PackingProofs` | `TypeCorrect`, `CopiesStayInBounds`, `ListIsLongEnough`, `UnpackStaysInBuffer`, `LossIsConfined`, `ShortTextArrives` | packet size of 2 or more, and text (the code has 4096) |
| `JsonTextProofs` | `TypeCorrect`, `AlwaysInBounds`, `AlwaysFreedOnce`, `AlwaysWholeOrNothing` | width of a message, key and number, size of the buffer, `INT_MAX`, nesting limit, damage and memory behind the text, number of failing allocations |
| `JsonStringProofs` | `TypeCorrect`, `AlwaysInBounds`, `AlwaysComesBack`, `AlwaysUtf8` | text and input of any length |
| `TransferProofs` | `TypeCorrect`, `AlwaysInOrder`, `AckAlwaysMeansAccepted`, `TransferImplements` (`Delivery`) | number of packets, path, number and kind of faults |
| `ResponsesProofs` | `TypeCorrect`, `AlwaysOwnOutput`, `NeverLeftovers`, `AlwaysShowsOwn` | number of workers and descriptors, types, commands, sizes of output |
| `LifecycleProofs` | `TypeCorrect`, `AlwaysOneServer`, `PathAlwaysSound` | number of servers and clients, of signals and of failing calls |
| `SessionProofs` | `TypeCorrect`, `OnlyOneTalks`, `AlwaysAnswersInOrder` | number of commands, size of a status |
| `ServerProofs`, about `ThreadList` | `TypeCorrect`, `AlwaysListSound`, `EndThreadsAlwaysJoins`, `ThreadListImplements` (`ThreadRegistry`) | number of threads, addresses and callers of `end_threads` |
| `ServerProofs`, about `Server` | `ServerTypeCorrect`, `AlwaysShutdownAnswers`, `ServerKeepsList` | number of clients, sockets, commands, length of the backlog |

Each module is laid out alike: the parts of the inductive invariant first, then what the operators of the
model do, a lemma `...Keeps` for each action, the theorem `Invariance`, and the properties that follow from
it. No property is inductive as it stands; what has to be added is what makes the code right:

* **Packing.** `ListLongEnough` needs to know that a flagged packet is never among the first
  `num_packets`, `OnlyBlockEndsLost` what every packet on both lists holds. `IInv` says that packet n
  of the list, from the moment it is filled, is `Chunk(data_size, n - 1)`, unflagged, and one empty packet
  follows; that the received list is a prefix of it; and that `unpacked` is the prefix of
  `Kept(data_size)` which the first packets carry. The lemmas below it are arithmetic (`DivFacts`, `DivUnique`,
  `NumPacketsFacts`), what one iteration copies (`PacketBytesFacts`, `ChunkFacts`) and that
  appending one chunk extends that prefix (`CarriedStep`, `KeptPrefixStep`).
* **JsonText.** Nothing here is an induction over a text or a tree, although the parser is recursive: its calls are a
  stack, and a step changes its top. `TreeInv` says that the items are a tree without gaps, `CallsInv` that the calls
  follow the last child at each level, down to the item being parsed, and how many children each has hung up. So a
  parser that gives up deletes, call by call, exactly what there is (`UnwindKeeps`), which is `FreedOnce`; at the sender
  it is `BuildInv`, which says what is allocated after each member, and that an allocation that failed leaves
  a shorter object. `InBounds` needs `PrintInv`, where the printer is in a buffer that has just grown or not, and `ReadInv`:
  the content ends with its only NUL, so that the parser, which looks one token ahead, stops there. `ArrivesWhole`
  ties both ends together: `TextInv` says that after n pieces the text has the first `Laid(n)` tokens of `Printed`, and
  `WholeInv` that the parser, at each of its places, is so many members into `Printed` and has
  those in its tree (`Inside`), whatever tail follows. `CutRejected` has the reason in `CutInv`: only the last token of
  a text closes its object, so a cut text has no closing sign at all and the outermost call never returns an item.
* **JsonString.** Both halves compare a count with what is written later. For printing, `Added` is what escaping adds
  before each character and `Start` where a character's bytes begin; `PrintInv` says that the first loop counts
  `Added` and that the second writes at `Start`. For parsing an arbitrary input, `Marks` is a count of
  escapes in which no two overlap (a backslash skips the byte behind it); `ParseInv` says that one exists
  and that at least one byte less is written for each. `StepInv` keeps the parser in step with the text that was
  printed, and `Utf8Inv` says that what has been decoded is whole characters (`Whole`).
  `PrintInv`, `ArriveInv` and `ParseInv` are inductive with the types; the other two are inductive on top of
  them, and so have theorems of their own.
* **Transfer.** The two ends are processes with a place each; that they do not come apart follows from what
  is under way between them. `DataInv` says that the k-th message in `data` is the k-th piece
  the receiver still has to take of its packet (`IsPiece`, `Taken`), `DistanceInv` that the ends are
  at the same packet, or an answer is on its way that tells the sender to go on or to repeat
  (`Current`, `Behind`, `Refused`), or the sender has gone (`Ended`); `ListInv` that only the packet about to be
  refused may be damaged. The exception is the repetition on the compressed path (`Repeats`), where the receiver
  waits for a size and finds a payload: it ends as `undefined`, of which nothing is claimed; so does what follows a
  payload that was accepted in part.
  `TransferImplements` maps each action to one of `Delivery`, or to a stutter.
* **Responses.** `IInv` is about the workers: descriptors are distinct (`FdInv`), a client's place
  follows from its worker's (`PlaceAt`), and the two files of a descriptor, at each stage, are
  what this worker's own program wrote (`FilesAt`), which is where that descriptors are handed on could go wrong. `ShowsOwn`
  rests on it and on `SInv`: two that use a gz file at the same time are in `shared` (`MeetInv`), and
  the others find in it what they put there (`OwnInv`), from `create_file` to the client's last read.
* **Lifecycle.** What names a server process holds follows from its stage: `Bound` is what its start has
  bound so far, `Closed` what its end has given up, and `HoldInv` says that the ports agree. The path can be taken
  away by others, so `PathInv` is about servers that met no other, and `MetInv` says that `met` misses none. `LeavesNoPath`
  is itself inductive: whatever makes the path dead is a close that will unlink it or an end that sets `cut`, and a start
  finds the dead path and turns to `close_server`.
* **Session.** `StreamInv`: what is on its way to the client is the end of the last response (`KindAt`).
  `TurnInv`: the secondary thread is inside a response only during its turn. `CallInv`: a command and
  its answer are both under way (`Busy`) or neither is (`Idle`), according to who has the turn. Together
  they make the flag between the two threads enough, as far as no unit is torn.
* **ThreadList.** What is reachable from `head` is the sequence `Chain`, which `ChainIs` identifies: nodes linked in
  this order from `head` to `NULL` can be no other sequence. The proof is by the least position where two such
  sequences differ, since there is no induction over data. `ChainInv` says that its nodes are live and stand for
  different threads, and that `last` is its last node or none of them: the dangling `last` loses
  threads and breaks nothing else. `RmvInv` gives `rmv_thread` a position on the chain, `WalkInv` each walk of
  `end_threads`, with what it has left behind (`Walked`, `Settled`), unless a thread left meanwhile (`raced`).
  `ThreadListImplements` maps the chain to the sequence of `ThreadRegistry`.
* **Server.** `ListStep` shows that every step of the server is a step of `ThreadList` or leaves the
  list alone, so `ServerSpec => Spec` and all theorems about the list hold in the server. `SInv` adds where each worker
  is in `server_logic` (`Places`), that a connection is in one queue once (`Queues`), and that a command without an
  answer is the last thing in the worker's inbox or keeps the worker busy, an earlier `checksum_status` being read before
  it (`Inboxes`), which is what a stop must not lose.

Only model-checked:

* All liveness: `Completes`, `CommandAnswered`, `Stops`, `EndsTogether`, `Restartable`, `GetsThrough`, and
  `AnsweredUnlessEarly`, which is about the answers that are still to come. Fairness and ENABLED are out of the prover's reach.
* What a count or a sum over a whole sequence is: the proofs use functions of partial counts (`Added`, `Marks`,
  `ChainNode`), which are stated by what they do from one position to the next, and the least-number principle.
* The three runs of section 4: that a trace exists is shown by the trace.

## 6. Abstractions to keep in mind

* `printf`, `malloc` and `exit` in a signal handler are not async-signal-safe; a
  deadlock inside the C library is not modelled.
* `pthread_join` is taken as glibc does it: joining oneself, a thread that joins the caller, or a thread that
  another one is joining returns at once with an error. Joining a thread that was already
  joined is undefined, and the walk is.
* `journalctl` ends (with `-f` it does not).
* A second SIGINT while an interrupted server closes its sockets is in `Server` and `ThreadList` only: in `Lifecycle`
  the sockets are closed once.
* In `Responses` an end of the process freezes what it was doing: temporary files of a command that was cut off stay,
  until a command with the same descriptor writes them anew.
* A client that leaves before sending its type gets a
  worker that goes on with an uninitialised type (`server.c:227-228`), harmless as
  the next `recv` returns 0 too.
* A write through the dangling `last` hits a freed node or one handed out again as
  a node; that `malloc` may have given the memory to something else is not modelled.
* The `timeout` all threads share may be counted down to 0 by `select`; then loops poll. No state depends on it.
* An empty text is no packet; `data_unpacking` then returns a buffer of size 0 (`middle.c:267`), whose first byte the
  caller reads: glibc's `calloc` has a zero there.
* A number is one token in `JsonText`; a packet's text is whole or cannot be parsed in `Responses`. What zlib makes of a
  file whose beginning is of one writer and whose end is of another is abstracted to the packet at the beginning,
  when all of it is there.

## 7. Plan

Done: all modules of section 2 with their runs, and the proofs of section 5, which state every
safety property the runs check.

What would come next:

1. One module of lemmas about sequences: `Least` is stated in `ServerProofs`, `JsonTextProofs` and `JsonStringProofs`, and
   facts about appending and dropping in several modules.
2. `print_number` and `parse_number` by digits, in the manner of `JsonString`.
3. The liveness properties, once the prover can reason about ENABLED and fairness.
