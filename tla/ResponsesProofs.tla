--------------------------- MODULE ResponsesProofs ---------------------------
(***************************************************************************)
(* Theorems about Responses, for any number of workers, of clients of each *)
(* type, of commands, and for outputs and packets of any size.             *)
(***************************************************************************)
EXTENDS Responses, SequenceTheorems, FiniteSetTheorems, TLAPS

\* Where a worker executes a command.
Executing == {"popen", "run", "read err", "read out", "remove", "sysinfo", "respond"}

\* Where it compresses a packet.
Compressing == {"create", "compress", "open", "read"}

\* Where it sends one.
Sending == {"next", "ack"} \union Compressing

\* Where it can be at all.
Stages == {"away", "serving"} \union Executing \union Sending

\* Where a client has a packet to write and show.
Holding == {"packet", "write", "gzread"}

\* Where a client can be at all.
Clients == {"prompt", "waiting", "crashed", "exited", "gone"} \union Holding

\* What the two temporary files of a descriptor may hold.
Files == [err : Texts \union {NONE}, out : Texts \union {NONE}]

\* What a gz file may hold.
Zipped == [of : Packets \union {NONE}, size : Nat]

\* The types of the variables, the program's stages spelled out.
Typed ==
  /\ type \in [Workers -> {"A", "B", "C"}] /\ server \in {"up", "crashed", "killed", "exited"}
  /\ stage \in [Workers -> Stages] /\ client \in [Workers -> Clients]
  /\ fd \in [Workers -> Fds \union {0}] /\ files \in [Fds -> Files]
  /\ commands \in [Workers -> Nat] /\ produced \in [Workers -> Nat]
  /\ left \in [Workers -> Nat] /\ file_size \in [Workers -> Nat]
  /\ result \in [Workers -> Texts \union {NONE}]
  /\ gz \in Zipped /\ received \in Zipped
  /\ sent \in [Workers -> Packets \union Compressed \union {NONE}]
  /\ shown \in [Workers -> Seq(Packets)]
  /\ shared \subseteq Workers

\* Open connections have descriptors of their own.
FdInv ==
  \A w \in Workers :
    /\ fd[w] = 0 <=> stage[w] = "away"
    /\ \A v \in Workers \ {w} : fd[w] = fd[v] => fd[w] = 0

\* Where a client is follows from where its worker is.
PlaceAt(w) ==
  /\ commands[w] <= MaxCommands[w]
  /\ stage[w] = "away" => client[w] \in {"prompt", "gone"}
  /\ client[w] = "gone" => stage[w] = "away" /\ commands[w] > 0
  /\ stage[w] = "serving" => client[w] \in {"prompt"} \union Dead
  /\ stage[w] \in Executing \union Compressing \union {"next"} => client[w] = "waiting"
  /\ stage[w] = "ack" => client[w] \in Holding \union Dead
  /\ type[w] # "B" => stage[w] \notin Compressing /\ client[w] \notin {"write", "gzread"}

\* What is under way to a client.
SentAt(w) ==
  IF client[w] \in Holding THEN sent[w] \in IF type[w] = "B" THEN Compressed ELSE Packets
                          ELSE sent[w] = NONE

\* What the response must be.
Expected(w) == IF produced[w] > 0 THEN Text(w, produced[w] - 1) ELSE NONE

\* The two files of a worker hold what its own program wrote.
FilesAt(w) ==
  LET f == files[Name(w)] IN
  /\ stage[w] = "run" =>
       IF f.err = NONE THEN f.out # NONE => f.out = Text(w, 0)
                       ELSE f.err = Text(w, 0) /\ f.out = Text(w, 0)
  /\ stage[w] \in {"read err", "read out"} =>
       IF f.err = NONE
       THEN (f.out # NONE => f.out = Text(w, 0)) /\ produced[w] = 0
       ELSE /\ f.out # NONE /\ f.err.by = w /\ f.out.by = w
            /\ produced[w] = IF f.err.size > 0 THEN f.err.size ELSE f.out.size
  /\ stage[w] = "read out" => ReadFile(f.err) = NONE

\* What a worker has to send, and how much of it is left.
ResultAt(w) ==
  /\ stage[w] \in {"remove", "respond"} \union Sending => result[w] = Expected(w)
  /\ stage[w] \in Sending => result[w] # NONE /\ left[w] <= result[w].size
  /\ stage[w] \in Compressing => left[w] > 0
  /\ stage[w] \notin Sending => left[w] = 0

\* Every worker and its client are where they can be together.
PlaceInv == \A w \in Workers : PlaceAt(w) /\ SentAt(w)

\* Every worker's files and result are its own.
OutputInv == \A w \in Workers : FilesAt(w) /\ ResultAt(w)

\* The inductive invariant of the workers alone, which OwnOutput follows from.
IInv == Typed /\ FdInv /\ PlaceInv /\ OutputInv /\ NoLeftovers

\* Whoever uses a gz file beside another is known.
MeetInv ==
  \A w, v \in Workers : w # v =>
    /\ w \in Using /\ v \in Using => w \in shared
    /\ w \in Reading /\ v \in Reading => w \in shared

\* The first n packets of the response to the last command, and the one under
\* way to the client.
Response(w, n) == [k \in 1 .. n |-> <<w, commands[w], Due(w) + 1 - k>>]
\* The packet a worker sends next.
Current(w) == <<w, commands[w], left[w] + 1>>

\* A worker that has its gz file to itself finds in it what it put there,
GzAt(w) ==
  /\ stage[w] \in {"create", "compress"} => gz = Empty
  /\ stage[w] \in {"open", "read"} => gz = [of |-> <<w, commands[w], left[w]>>, size |-> Bulk[w]]
  /\ stage[w] = "read" => file_size[w] = Bulk[w]

\* so does a client,
ReceivedAt(w) ==
  /\ client[w] = "write" => received = Empty
  /\ client[w] = "gzread" => received = [of |-> Current(w), size |-> Bulk[w]]

\* which so far has what was sent of the response, and is sent the next packet.
ShownAt(w) ==
  /\ client[w] # "crashed"
  /\ stage[w] = "away" /\ client[w] = "prompt" => commands[w] = 0
  /\ stage[w] \in Executing => shown[w] = <<>>
  /\ stage[w] \in {"next"} \union Compressing => shown[w] = Response(w, Due(w) - left[w])
  /\ stage[w] = "ack" /\ client[w] # "exited" =>
       /\ left[w] < Due(w) /\ shown[w] = Response(w, Due(w) - left[w] - 1)
       /\ sent[w] = IF type[w] = "B" THEN [of |-> Current(w), size |-> Bulk[w], json |-> Bulk[w]]
                                    ELSE Current(w)
  /\ stage[w] = "serving" /\ commands[w] > 0 /\ client[w] # "exited" =>
       shown[w] = Response(w, Due(w))

\* What was sent and shown, for those that met nobody at a gz file.
OwnInv == \A w \in Workers \ shared : GzAt(w) /\ ReceivedAt(w) /\ ShownAt(w)

\* What holds of workers and clients that had the gz files to themselves.
SInv == MeetInv /\ OwnInv

-----------------------------------------------------------------------------
(* Sizes.                                                                  *)

\* The greatest size is one of them.
LEMMA MaxSizes == Max(Sizes) \in Sizes /\ Max(Sizes) \in Nat
<1>1. \E n \in Sizes : \A m \in Sizes : n >= m
  BY ResponsesAssumption
<1>2. QED
  BY <1>1, ResponsesAssumption DEF Max

\* The greater and the smaller of two sizes.
LEMMA MaxOfTwo ==
  ASSUME NEW m \in Nat, NEW n \in Nat
  PROVE  Max({m, n}) = (IF m < n THEN n ELSE m) /\ Min({m, n}) = (IF m < n THEN m ELSE n)
<1>1. \A x \in {m, n} : (\A y \in {m, n} : x >= y) <=> x = (IF m < n THEN n ELSE m)
  OBVIOUS
<1>2. \A x \in {m, n} : (\A y \in {m, n} : x <= y) <=> x = (IF m < n THEN m ELSE n)
  OBVIOUS
<1>3. Max({m, n}) = CHOOSE x \in {m, n} : \A y \in {m, n} : x >= y
  BY DEF Max
<1>4. Min({m, n}) = CHOOSE x \in {m, n} : \A y \in {m, n} : x <= y
  BY DEF Min
<1>5. QED
  BY <1>1, <1>2, <1>3, <1>4

-----------------------------------------------------------------------------
(* One worker and its client take a step, nothing of the others changes.   *)

\* Nothing of worker v or of its client changes.
Same(v) ==
  /\ stage'[v] = stage[v] /\ client'[v] = client[v] /\ fd'[v] = fd[v] /\ type'[v] = type[v]
  /\ commands'[v] = commands[v] /\ produced'[v] = produced[v] /\ result'[v] = result[v]
  /\ left'[v] = left[v] /\ file_size'[v] = file_size[v]
  /\ sent'[v] = sent[v] /\ shown'[v] = shown[v]

\* The stages in which the command's temporary files may exist.
Running == {"run", "read err", "read out", "remove"}

\* No file appears.
LEMMA FilesStay ==
  ASSUME IInv, files' = files,
         \A v \in Workers : stage[v] \in Running => stage'[v] \in Running /\ fd'[v] = fd[v]
  PROVE  NoLeftovers'
<1>1. ASSUME NEW d \in Fds, files'[d] # NoFiles
      PROVE  \E v \in Workers : fd'[v] = d /\ stage'[v] \in Running
  <2>1. PICK v \in Workers : fd[v] = d /\ stage[v] \in Running
    BY <1>1 DEF IInv, NoLeftovers, Name, Running
  <2>2. QED
    BY <2>1
<1>2. QED
  BY <1>1 DEF NoLeftovers, Name, NoFiles, Running

\* The files of a worker are what they were.
LEMMA FilesKept ==
  ASSUME NEW v \in Workers, FilesAt(v), stage'[v] = stage[v], produced'[v] = produced[v],
         stage[v] \in Running => files'[fd'[v]] = files[fd[v]]
  PROVE  FilesAt(v)'
<1>1. CASE stage[v] \in Running
  BY <1>1 DEF FilesAt, Name, Text, ReadFile
<1>2. CASE stage[v] \notin Running
  BY <1>2 DEF FilesAt, Running
<1>3. QED
  BY <1>1, <1>2

\* The files of a descriptor other than the one's, or all of them, stay.
LEMMA OneMoves ==
  ASSUME IInv, NEW w \in Workers, \A v \in Workers \ {w} : Same(v),
         fd'[w] = fd[w], stage[w] # "away", stage'[w] # "away",
         \A d \in Fds : d = fd[w] \/ files'[d] = files[d],
         Typed', PlaceAt(w)', SentAt(w)', FilesAt(w)', ResultAt(w)', NoLeftovers'
  PROVE  IInv'
<1>1. FdInv'
  BY DEF IInv, FdInv, Same
<1>2. ASSUME NEW v \in Workers \ {w}
      PROVE  PlaceAt(v)' /\ SentAt(v)' /\ FilesAt(v)' /\ ResultAt(v)'
  <2>1. PlaceAt(v)' /\ SentAt(v)'
    BY DEF IInv, PlaceInv, PlaceAt, SentAt, Same
  <2>2. ResultAt(v)'
    BY DEF IInv, OutputInv, ResultAt, Expected, Same
  <2>3. FilesAt(v)'
    <3>1. stage[v] \in Running => fd[v] \in Fds /\ fd[v] # fd[w]
      BY DEF IInv, FdInv, Typed, Running
    <3>2. FilesAt(v)
      BY DEF IInv, OutputInv
    <3>3. QED
      BY <3>1, <3>2, FilesKept DEF Same
  <2>4. QED
    BY <2>1, <2>2, <2>3
<1>3. QED
  BY <1>1, <1>2 DEF IInv, PlaceInv, OutputInv

\* A worker that serves a connection has two files.
LEMMA MyFiles ==
  ASSUME IInv, NEW w \in Workers, stage[w] # "away"
  PROVE  /\ fd[w] \in Fds
         /\ files[fd[w]].err \in Texts \union {NONE} /\ files[fd[w]].out \in Texts \union {NONE}
         /\ \A v \in Workers \ {w} : fd[v] # fd[w]
<1>1. fd[w] \in Fds /\ files \in [Fds -> Files] /\ \A v \in Workers \ {w} : fd[v] # fd[w]
  BY DEF IInv, FdInv, Typed
<1>2. files[fd[w]] \in Files
  BY <1>1
<1>3. QED
  BY <1>1, <1>2 DEF Files

\* Of the files only the two of a worker in the middle of a command change.
LEMMA FilesChange ==
  ASSUME IInv, NEW w \in Workers, \A v \in Workers \ {w} : Same(v), fd'[w] = fd[w],
         \A d \in Fds : d = fd[w] \/ files'[d] = files[d],
         stage'[w] \in Running \/ files'[fd[w]] = NoFiles
  PROVE  NoLeftovers'
<1>1. ASSUME NEW d \in Fds, files'[d] # NoFiles
      PROVE  \E v \in Workers : fd'[v] = d /\ stage'[v] \in Running
  <2>1. CASE d = fd[w]
    BY <1>1, <2>1
  <2>2. CASE d # fd[w]
    <3>1. PICK v \in Workers : fd[v] = d /\ stage[v] \in Running
      BY <1>1, <2>2 DEF IInv, NoLeftovers, Name, Running
    <3>2. v # w /\ fd'[v] = d /\ stage'[v] \in Running
      BY <2>2, <3>1 DEF Same
    <3>3. QED
      BY <3>2
  <2>3. QED
    BY <2>1, <2>2
<1>2. QED
  BY <1>1 DEF NoLeftovers, Name, NoFiles, Running

\* What is read of a file.
LEMMA ReadFacts ==
  ASSUME NEW f \in Texts \union {NONE}
  PROVE  /\ f # NONE => f.by \in Workers /\ f.size \in Nat /\ f = Text(f.by, f.size)
         /\ ReadFile(f) = IF f = NONE THEN NONE ELSE IF f.size < 1 THEN NONE ELSE Text(f.by, f.size - 1)
         /\ ReadFile(f) \in Texts \union {NONE}
<1>1. f # NONE => f.by \in Workers /\ f.size \in Nat /\ f = Text(f.by, f.size)
  BY DEF Texts, Text
<1>2. ReadFile(f) = IF f = NONE THEN NONE ELSE IF f.size < 1 THEN NONE ELSE Text(f.by, f.size - 1)
  BY <1>1 DEF ReadFile, Texts, Text
<1>3. QED
  BY <1>1, <1>2 DEF Texts, Text

\* What a worker says, and that it says something.
LEMMA TextFacts ==
  ASSUME NEW w \in Workers, NEW n \in Nat
  PROVE  Text(w, n) \in Texts /\ Text(w, n) # NONE /\ Text(w, n).by = w /\ Text(w, n).size = n
  BY ResponsesAssumption DEF Text, Texts

\* A worker that sends has a packet to send.
LEMMA PacketFacts ==
  ASSUME Typed, NEW w \in Workers, ResultAt(w), stage[w] \in Sending
  PROVE  /\ produced[w] > 0 /\ result[w] = Text(w, produced[w] - 1) /\ result[w].by = w
         /\ Packet(w) = <<w, commands[w], left[w]>> /\ Packet(w) \in Packets /\ Packet(w) # NONE
         /\ Bulk[w] \in Nat \ {0}
<1>1. produced[w] \in Nat /\ commands[w] \in Nat /\ left[w] \in Nat
  BY DEF Typed
<1>2. produced[w] > 0 /\ result[w] = Text(w, produced[w] - 1)
  BY DEF ResultAt, Expected
<1>3. result[w].by = w
  BY <1>1, <1>2, TextFacts
<1>4. Packet(w) = <<w, commands[w], left[w]>> /\ Packet(w) \in Packets
  BY <1>1, <1>3 DEF Packet, Packets
<1>5. QED
  BY <1>2, <1>3, <1>4, ResponsesAssumption

-----------------------------------------------------------------------------
(* Every action keeps the invariant.                                       *)

\* A worker takes a connection.
LEMMA AcceptKeeps == ASSUME IInv, NEW w \in Workers, Accept(w) PROVE IInv'
<1>1. Typed /\ PlaceAt(w) /\ SentAt(w) /\ FilesAt(w) /\ ResultAt(w)
  BY DEF IInv, PlaceInv, OutputInv
<1>2. stage[w] = "away" /\ commands[w] = 0
  BY DEF At, Accept
<1>3. PICK d \in Fds \ {fd[v] : v \in Workers} : fd' = [fd EXCEPT ![w] = d]
  BY DEF Accept
<1>4. /\ stage'[w] = "serving" /\ fd'[w] = d /\ d # 0 /\ d \in Fds
      /\ \A v \in Workers \ {w} : stage'[v] = stage[v] /\ fd'[v] = fd[v] /\ fd[v] # d
      /\ UNCHANGED <<type, server, commands, files, produced, sending, clients, shared>>
  BY <1>1, <1>3 DEF Typed, Goto, Fds, Accept
<1>5. Typed'
  <2>1. stage' \in [Workers -> Stages] /\ fd' \in [Workers -> Fds \union {0}]
    BY <1>1, <1>3 DEF Typed, Stages, Goto, Accept
  <2>2. QED
    BY <1>1, <1>4, <2>1 DEF Typed, sending, clients
<1>6. FdInv'
  BY <1>4 DEF IInv, FdInv
<1>7. PlaceInv'
  <2>1. PlaceAt(w)' /\ SentAt(w)'
    BY <1>1, <1>2, <1>4 DEF PlaceAt, SentAt, Executing, Sending, Compressing, clients
  <2>2. ASSUME NEW v \in Workers \ {w} PROVE PlaceAt(v)' /\ SentAt(v)'
    BY <1>4 DEF IInv, PlaceInv, PlaceAt, SentAt, clients
  <2>3. QED
    BY <2>1, <2>2 DEF PlaceInv
<1>8. OutputInv'
  <2>1. FilesAt(w)' /\ ResultAt(w)'
    BY <1>1, <1>2, <1>4 DEF FilesAt, ResultAt, Executing, Sending, Compressing, sending
  <2>2. ASSUME NEW v \in Workers \ {w} PROVE FilesAt(v)' /\ ResultAt(v)'
    <3>1. FilesAt(v) /\ ResultAt(v)
      BY DEF IInv, OutputInv
    <3>2. FilesAt(v)'
      BY <1>4, <3>1, FilesKept
    <3>3. ResultAt(v)'
      BY <1>4, <3>1 DEF ResultAt, Expected, sending
    <3>4. QED
      BY <3>2, <3>3
  <2>3. QED
    BY <2>1, <2>2 DEF OutputInv
<1>9. NoLeftovers'
  BY <1>2, <1>4, FilesStay DEF Running
<1>10. QED
  BY <1>5, <1>6, <1>7, <1>8, <1>9 DEF IInv

\* A client leaves.
LEMMA LeaveKeeps == ASSUME IInv, NEW w \in Workers, Leave(w) PROVE IInv'
<1>1. Typed /\ PlaceAt(w) /\ SentAt(w) /\ FilesAt(w) /\ ResultAt(w)
  BY DEF IInv, PlaceInv, OutputInv
<1>2. stage[w] = "serving" /\ client[w] \in {"prompt"} \union Dead /\ commands[w] > 0
  BY DEF At, Leave
<1>3. /\ stage'[w] = "away" /\ fd'[w] = 0 /\ client'[w] = "gone" /\ produced'[w] = 0
      /\ \A v \in Workers \ {w} : Same(v)
      /\ UNCHANGED <<type, server, commands, files, sending, sent, received, shared>>
  BY <1>1 DEF Typed, Goto, Same, sending, Leave
<1>4. Typed'
  <2>1. stage' \in [Workers -> Stages] /\ client' \in [Workers -> Clients]
    BY <1>1 DEF Typed, Stages, Clients, Goto, Leave
  <2>2. fd' \in [Workers -> Fds \union {0}] /\ produced' \in [Workers -> Nat]
    BY <1>1 DEF Typed, Leave
  <2>3. shown' \in [Workers -> Seq(Packets)]
    BY <1>1 DEF Typed, Leave
  <2>4. QED
    BY <1>1, <1>3, <2>1, <2>2, <2>3 DEF Typed, sending
<1>5. FdInv'
  BY <1>3 DEF IInv, FdInv, Same
<1>6. PlaceInv'
  <2>1. PlaceAt(w)' /\ SentAt(w)'
    BY <1>1, <1>2, <1>3 DEF PlaceAt, Dead, SentAt, Executing, Sending, Compressing, Holding
  <2>2. ASSUME NEW v \in Workers \ {w} PROVE PlaceAt(v)' /\ SentAt(v)'
    BY <1>3 DEF IInv, PlaceInv, PlaceAt, SentAt, Same
  <2>3. QED
    BY <2>1, <2>2 DEF PlaceInv
<1>7. OutputInv'
  <2>1. FilesAt(w)' /\ ResultAt(w)'
    BY <1>1, <1>2, <1>3 DEF FilesAt, ResultAt, Executing, Sending, Compressing, sending
  <2>2. ASSUME NEW v \in Workers \ {w} PROVE FilesAt(v)' /\ ResultAt(v)'
    <3>1. FilesAt(v) /\ ResultAt(v)
      BY DEF IInv, OutputInv
    <3>2. FilesAt(v)'
      BY <1>3, <3>1, FilesKept DEF Same
    <3>3. ResultAt(v)'
      BY <1>3, <3>1 DEF ResultAt, Expected, sending, Same
    <3>4. QED
      BY <3>2, <3>3
  <2>3. QED
    BY <2>1, <2>2 DEF OutputInv
<1>8. NoLeftovers'
  BY <1>2, <1>3, FilesStay DEF Running, Same
<1>9. QED
  BY <1>4, <1>5, <1>6, <1>7, <1>8 DEF IInv

\* Only the state of the server process changes.
LEMMA ServerEnds ==
  ASSUME IInv, server' \in {"crashed", "killed", "exited"}, UNCHANGED <<type, stage, exec, sending, clients, shared>>
  PROVE  IInv'
<1>1. Typed'
  BY DEF IInv, Typed, exec, sending, clients
<1>2. FdInv' /\ NoLeftovers'
  BY DEF IInv, FdInv, NoLeftovers, Name, exec
<1>3. ASSUME NEW v \in Workers PROVE PlaceAt(v)' /\ SentAt(v)' /\ FilesAt(v)' /\ ResultAt(v)'
  BY DEF IInv, PlaceInv, OutputInv, PlaceAt, SentAt, FilesAt, ResultAt, Expected, Name, Text, ReadFile,
     exec, sending, clients
<1>4. QED
  BY <1>1, <1>2, <1>3 DEF IInv, PlaceInv, OutputInv

\* A client sends a command.
LEMMA CommandKeeps == ASSUME IInv, NEW w \in Workers, Command(w) PROVE IInv'
<1>1. Typed /\ PlaceAt(w) /\ SentAt(w) /\ FilesAt(w) /\ ResultAt(w)
  BY DEF IInv, PlaceInv, OutputInv
<1>2. stage[w] = "serving" /\ client[w] = "prompt" /\ commands[w] < MaxCommands[w]
  BY DEF At, Up, Goto, exec, sending, clients, Command
<1>3. /\ stage'[w] \in {"popen", "sysinfo"} /\ client'[w] = "waiting" /\ commands'[w] = commands[w] + 1 /\ shown'[w] = <<>>
      /\ produced'[w] = produced[w] /\ left'[w] = left[w] /\ file_size'[w] = file_size[w] /\ result'[w] = result[w]
      /\ sent'[w] = sent[w] /\ type' = type /\ files' = files /\ fd'[w] = fd[w]
  BY <1>1, <1>2 DEF Typed, At, Up, Goto, exec, sending, clients, Command
<1>4. \A v \in Workers \ {w} : Same(v)
  BY <1>1 DEF Typed, Same, At, Up, Goto, exec, sending, clients, Command
<1>5. Typed'
  <2>1. stage' \in [Workers -> Stages]
    BY <1>1 DEF Typed, Stages, Executing, Goto, Sending, Compressing, Command
  <2>2. client' \in [Workers -> Clients]
    BY <1>1 DEF Typed, Clients, Holding, Command
  <2>3. commands' \in [Workers -> Nat]
    BY <1>1 DEF Typed, Command
  <2>4. shown' \in [Workers -> Seq(Packets)]
    BY <1>1 DEF Typed, Command
  <2>5. QED
    BY <1>1, <2>1, <2>2, <2>3, <2>4 DEF Typed, At, Up, Goto, exec, sending, clients, Command
<1>6. PlaceAt(w)' /\ SentAt(w)'
  <2>1. commands'[w] <= MaxCommands[w] /\ commands'[w] > 0
    BY <1>1, <1>2, <1>3, ResponsesAssumption DEF Typed
  <2>2. QED
    BY <1>1, <1>2, <1>3, <2>1 DEF PlaceAt, SentAt, Executing, Sending, Compressing, Holding
<1>7. FilesAt(w)'
  BY <1>1, <1>2, <1>3 DEF FilesAt, Name, Text, ReadFile
<1>8. ResultAt(w)'
  BY <1>1, <1>2, <1>3 DEF Typed, ResultAt, Expected, Text, Executing, Sending, Compressing
<1>9. NoLeftovers'
  BY <1>2, <1>3, <1>4, FilesStay DEF Same, Running, PlaceAt, Holding
<1>10. QED
  BY <1>1, <1>2, <1>3, <1>4, <1>5, <1>6, <1>7, <1>8, <1>9, OneMoves DEF PlaceAt, Executing, Sending, Compressing, Holding

\* The shell opens the files.
LEMMA PopenKeeps == ASSUME IInv, NEW w \in Workers, Popen(w) PROVE IInv'
<1>1. Typed /\ PlaceAt(w) /\ SentAt(w) /\ FilesAt(w) /\ ResultAt(w)
  BY DEF IInv, PlaceInv, OutputInv
<1>2. stage[w] = "popen" /\ fd[w] \in Fds
  BY MyFiles DEF At, Popen
<1>3. /\ stage' = [stage EXCEPT ![w] = "run"] /\ stage'[w] = "run"
      /\ produced' = produced
      /\ UNCHANGED <<type, server, fd, commands, sending, clients, shared>>
  BY <1>1, <1>2 DEF Typed, Goto, Popen
<1>4. \A v \in Workers \ {w} : Same(v)
  BY <1>1, <1>3 DEF Typed, Same, sending, clients
<1>5. PICK e \in Texts \union {NONE}, o \in Texts \union {NONE} :
        /\ files' = [files EXCEPT ![fd[w]] = [err |-> e, out |-> o]]
        /\ IF e = NONE THEN o # NONE => o = Text(w, 0) ELSE e = Text(w, 0) /\ o = Text(w, 0)
  <2>1. Text(w, 0) \in Texts
    BY TextFacts
  <2>2. QED
    BY <2>1 DEF Popen, Name
<1>6. /\ NoLeftovers' /\ files' \in [Fds -> Files] /\ files'[fd'[w]].err = e /\ files'[fd'[w]].out = o
      /\ \A d \in Fds : d = fd[w] \/ files'[d] = files[d]
  <2>1. [err |-> e, out |-> o] \in Files
    BY <1>5 DEF Files
  <2>2. files \in [Fds -> Files] /\ files' = [files EXCEPT ![fd[w]] = [err |-> e, out |-> o]]
    BY <1>1, <1>5 DEF Typed
  <2>3. /\ files' \in [Fds -> Files] /\ files'[fd[w]] = [err |-> e, out |-> o]
        /\ \A d \in Fds : d = fd[w] \/ files'[d] = files[d]
    BY <1>2, <2>1, <2>2
  <2>4. NoLeftovers'
    BY <1>3, <1>4, <2>3, FilesChange DEF Running, NoFiles
  <2>5. QED
    BY <1>3, <2>3, <2>4
<1>7. Typed'
  <2>1. stage' \in [Workers -> Stages]
    BY <1>1, <1>3 DEF Typed, Stages, Executing
  <2>2. QED
    BY <1>1, <1>3, <1>6, <2>1 DEF Typed, sending, clients
<1>8. PlaceAt(w)' /\ SentAt(w)'
  BY <1>1, <1>2, <1>3 DEF PlaceAt, SentAt, Executing, Sending, Compressing, Holding, clients
<1>9. FilesAt(w)' /\ ResultAt(w)'
  BY <1>1, <1>2, <1>3, <1>5, <1>6 DEF FilesAt, ResultAt, Expected, Executing, Sending, Compressing, sending, Name, Text
<1>10. QED
  BY <1>2, <1>3, <1>4, <1>6, <1>7, <1>8, <1>9, OneMoves

\* The files are removed.
LEMMA RemoveKeeps == ASSUME IInv, NEW w \in Workers, Remove(w) PROVE IInv'
<1>1. Typed /\ PlaceAt(w) /\ SentAt(w) /\ FilesAt(w) /\ ResultAt(w)
  BY DEF IInv, PlaceInv, OutputInv
<1>2. stage[w] = "remove" /\ fd[w] \in Fds
  BY MyFiles DEF At, Remove
<1>3. /\ stage' = [stage EXCEPT ![w] = "respond"] /\ stage'[w] = "respond"
      /\ produced' = produced
      /\ UNCHANGED <<type, server, fd, commands, sending, clients, shared>>
  BY <1>1, <1>2 DEF Typed, Goto, Remove
<1>4. \A v \in Workers \ {w} : Same(v)
  BY <1>1, <1>3 DEF Typed, Same, sending, clients
<1>5. \E e, o \in {NONE} : files' = [files EXCEPT ![fd[w]] = [err |-> e, out |-> o]]
  BY DEF Remove, Name, NoFiles
<1>6. /\ NoLeftovers' /\ files' \in [Fds -> Files] /\ files'[fd'[w]].err = NONE /\ files'[fd'[w]].out = NONE
      /\ \A d \in Fds : d = fd[w] \/ files'[d] = files[d]
  <2>1. [err |-> NONE, out |-> NONE] \in Files
    BY <1>5 DEF Files
  <2>2. files \in [Fds -> Files] /\ files' = [files EXCEPT ![fd[w]] = [err |-> NONE, out |-> NONE]]
    BY <1>1, <1>5 DEF Typed
  <2>3. /\ files' \in [Fds -> Files] /\ files'[fd[w]] = [err |-> NONE, out |-> NONE]
        /\ \A d \in Fds : d = fd[w] \/ files'[d] = files[d]
    BY <1>2, <2>1, <2>2
  <2>4. NoLeftovers'
    BY <1>3, <1>4, <2>3, FilesChange DEF Running, NoFiles
  <2>5. QED
    BY <1>3, <2>3, <2>4
<1>7. Typed'
  <2>1. stage' \in [Workers -> Stages]
    BY <1>1, <1>3 DEF Typed, Stages, Executing
  <2>2. QED
    BY <1>1, <1>3, <1>6, <2>1 DEF Typed, sending, clients
<1>8. PlaceAt(w)' /\ SentAt(w)'
  BY <1>1, <1>2, <1>3 DEF PlaceAt, SentAt, Executing, Sending, Compressing, Holding, clients
<1>9. FilesAt(w)' /\ ResultAt(w)'
  BY <1>1, <1>2, <1>3, <1>5, <1>6 DEF FilesAt, ResultAt, Expected, Executing, Sending, Compressing, sending, Name, Text
<1>10. QED
  BY <1>2, <1>3, <1>4, <1>6, <1>7, <1>8, <1>9, OneMoves

\* The program runs.
LEMMA RunKeeps == ASSUME IInv, NEW w \in Workers, Run(w) PROVE IInv'
<1>1. Typed /\ PlaceAt(w) /\ SentAt(w) /\ FilesAt(w) /\ ResultAt(w)
  BY DEF IInv, PlaceInv, OutputInv
<1>2. stage[w] = "run" /\ fd[w] \in Fds
  BY MyFiles DEF At, Run
<1>3. /\ stage' = [stage EXCEPT ![w] = "read err"] /\ stage'[w] = "read err"
      /\ UNCHANGED <<type, server, fd, commands, sending, clients, shared>>
  BY <1>1, <1>2 DEF Typed, Goto, Run
<1>4. PICK err \in Sizes, out \in Sizes :
        IF files[fd[w]].err = NONE
        THEN produced' = [produced EXCEPT ![w] = 0] /\ UNCHANGED files
        ELSE /\ files' = [files EXCEPT ![fd[w]] = [err |-> Text(w, err), out |-> Text(w, out)]]
             /\ produced' = [produced EXCEPT ![w] = IF err > 0 THEN err ELSE out]
  BY DEF Run, Name
<1>5. err \in Nat /\ out \in Nat
  BY ResponsesAssumption
<1>6. produced' \in [Workers -> Nat] /\ \A v \in Workers \ {w} : produced'[v] = produced[v]
  <2>1. PICK n \in Nat : produced' = [produced EXCEPT ![w] = n]
    BY <1>4, <1>5
  <2>2. QED
    BY <1>1, <2>1 DEF Typed
<1>7. \A v \in Workers \ {w} : Same(v)
  BY <1>1, <1>3, <1>6 DEF Typed, Same, sending, clients
<1>8. /\ NoLeftovers' /\ files' \in [Fds -> Files] /\ FilesAt(w)'
      /\ \A d \in Fds : d = fd[w] \/ files'[d] = files[d]
  <2>1. CASE files[fd[w]].err = NONE
    <3>1. files' = files /\ produced'[w] = 0
      BY <1>1, <1>4, <2>1 DEF Typed
    <3>2. FilesAt(w)'
      BY <1>1, <1>2, <1>3, <2>1, <3>1 DEF FilesAt, Name, Text
    <3>3. NoLeftovers'
      BY <1>3, <1>7, <3>1, FilesStay DEF Running, Same
    <3>4. QED
      BY <1>1, <3>1, <3>2, <3>3 DEF Typed
  <2>2. CASE files[fd[w]].err # NONE
    <3>1. Text(w, err) \in Texts /\ Text(w, out) \in Texts
      BY <1>5, TextFacts
    <3>2. /\ NoLeftovers' /\ files' \in [Fds -> Files]
          /\ files'[fd'[w]].err = Text(w, err) /\ files'[fd'[w]].out = Text(w, out)
          /\ \A d \in Fds : d = fd[w] \/ files'[d] = files[d]
      <4>1. [err |-> Text(w, err), out |-> Text(w, out)] \in Files
        BY <3>1 DEF Files
      <4>2. files' = [files EXCEPT ![fd[w]] = [err |-> Text(w, err), out |-> Text(w, out)]]
        BY <1>4, <2>2
      <4>3. /\ files' \in [Fds -> Files] /\ files'[fd[w]] = [err |-> Text(w, err), out |-> Text(w, out)]
            /\ \A d \in Fds : d = fd[w] \/ files'[d] = files[d]
        BY <1>1, <1>2, <4>1, <4>2 DEF Typed
      <4>4. NoLeftovers'
        BY <1>3, <1>7, <4>3, FilesChange DEF Running
      <4>5. fd'[w] = fd[w]
        BY <1>3
      <4>6. QED
        BY <4>3, <4>4, <4>5
    <3>3. produced'[w] = IF err > 0 THEN err ELSE out
      BY <1>1, <1>4, <2>2 DEF Typed
    <3>4. FilesAt(w)'
      <4>1. /\ Text(w, err) # NONE /\ Text(w, err).by = w /\ Text(w, err).size = err
            /\ Text(w, out) # NONE /\ Text(w, out).by = w /\ Text(w, out).size = out
        BY <1>5, TextFacts
      <4>2. stage'[w] = "read err"
        BY <1>3
      <4>3. QED
        BY <3>2, <3>3, <4>1, <4>2 DEF FilesAt, Name
    <3>5. QED
      BY <3>2, <3>4
  <2>3. QED
    BY <2>1, <2>2
<1>9. Typed'
  <2>1. stage' \in [Workers -> Stages]
    BY <1>1, <1>3 DEF Typed, Stages, Executing
  <2>2. QED
    BY <1>1, <1>3, <1>6, <1>8, <2>1 DEF Typed, sending, clients
<1>10. PlaceAt(w)' /\ SentAt(w)'
  BY <1>1, <1>2, <1>3 DEF PlaceAt, SentAt, Executing, Sending, Compressing, Holding, clients
<1>11. ResultAt(w)'
  BY <1>1, <1>2, <1>3 DEF ResultAt, Executing, Sending, Compressing, sending
<1>12. QED
  BY <1>2, <1>3, <1>7, <1>8, <1>9, <1>10, <1>11, OneMoves

\* popen fails.
LEMMA PopenFailsKeeps == ASSUME IInv, NEW w \in Workers, PopenFails(w) PROVE IInv'
<1>1. Typed /\ PlaceAt(w) /\ SentAt(w) /\ FilesAt(w) /\ ResultAt(w)
  BY DEF IInv, PlaceInv, OutputInv
<1>2. stage[w] = "popen"
  BY DEF At, Up, Goto, exec, sending, clients, Text, PopenFails
<1>3. /\ stage'[w] = "respond" /\ result'[w] = Text(w, Max(Sizes)) /\ produced'[w] = Max(Sizes) + 1 /\ client'[w] = client[w]
      /\ commands'[w] = commands[w] /\ left'[w] = left[w] /\ file_size'[w] = file_size[w] /\ sent'[w] = sent[w]
      /\ shown'[w] = shown[w] /\ type' = type /\ files' = files /\ fd'[w] = fd[w]
  BY <1>1, <1>2, MaxSizes DEF Typed, At, Up, Goto, exec, sending, clients, Text, PopenFails
<1>4. \A v \in Workers \ {w} : Same(v)
  BY <1>1 DEF Typed, Same, At, Up, Goto, exec, sending, clients, Text, PopenFails
<1>5. Typed'
  <2>1. stage' \in [Workers -> Stages]
    BY <1>1, MaxSizes DEF Typed, Stages, Executing, Goto, Sending, Compressing, Text, PopenFails
  <2>2. produced' \in [Workers -> Nat]
    BY <1>1, MaxSizes DEF Typed, Text, PopenFails
  <2>3. result' \in [Workers -> Texts \union {NONE}]
    BY <1>1, MaxSizes DEF Typed, Text, Texts, ReadFile, Name, PopenFails
  <2>4. QED
    BY <1>1, <2>1, <2>2, <2>3 DEF Typed, At, Up, Goto, exec, sending, clients, Text, PopenFails
<1>6. PlaceAt(w)' /\ SentAt(w)'
  BY <1>1, <1>2, <1>3 DEF PlaceAt, SentAt, Executing, Sending, Compressing, Holding
<1>7. FilesAt(w)'
  BY <1>1, <1>2, <1>3 DEF FilesAt, Name, Text, ReadFile
<1>8. ResultAt(w)'
  BY <1>1, <1>2, <1>3, MaxSizes DEF Typed, ResultAt, Expected, Text, Executing, Sending, Compressing
<1>9. NoLeftovers'
  BY <1>2, <1>3, <1>4, FilesStay DEF Same, Running, PlaceAt, Holding
<1>10. QED
  BY <1>1, <1>2, <1>3, <1>4, <1>5, <1>6, <1>7, <1>8, <1>9, OneMoves DEF PlaceAt, Executing, Sending, Compressing, Holding

\* The first file is read.
LEMMA ReadErrKeeps == ASSUME IInv, NEW w \in Workers, ReadErr(w) PROVE IInv'
<1>1. Typed /\ PlaceAt(w) /\ SentAt(w) /\ FilesAt(w) /\ ResultAt(w)
  BY DEF IInv, PlaceInv, OutputInv
<1>2. stage[w] = "read err"
  BY DEF At, Up, Goto, exec, sending, clients, Name, ReadFile, ReadErr
<1>3. /\ stage'[w] = (IF result'[w] = NONE THEN "read out" ELSE "remove")
      /\ result'[w] = ReadFile(files[Name(w)].err) /\ client'[w] = client[w] /\ commands'[w] = commands[w]
      /\ produced'[w] = produced[w] /\ left'[w] = left[w] /\ file_size'[w] = file_size[w] /\ sent'[w] = sent[w]
      /\ shown'[w] = shown[w] /\ type' = type /\ files' = files /\ fd'[w] = fd[w]
  BY <1>1, <1>2 DEF Typed, At, Up, Goto, exec, sending, clients, Name, ReadFile, ReadErr
<1>4. \A v \in Workers \ {w} : Same(v)
  BY <1>1 DEF Typed, Same, At, Up, Goto, exec, sending, clients, Name, ReadFile, ReadErr
<1>5. Typed'
  <2>1. stage' \in [Workers -> Stages]
    BY <1>1 DEF Typed, Stages, Executing, Goto, Sending, Compressing, Name, ReadFile, ReadErr
  <2>2. result' \in [Workers -> Texts \union {NONE}]
    <3>1. ReadFile(files[Name(w)].err) \in Texts \union {NONE}
      BY <1>2, MyFiles, ReadFacts DEF Name
    <3>2. QED
      BY <1>1, <3>1 DEF Typed, ReadErr
  <2>3. QED
    BY <1>1, <2>1, <2>2 DEF Typed, At, Up, Goto, exec, sending, clients, Name, ReadFile, ReadErr
<1>6. PlaceAt(w)' /\ SentAt(w)'
  BY <1>1, <1>2, <1>3 DEF PlaceAt, SentAt, Executing, Sending, Compressing, Holding
<1>7. FilesAt(w)'
  BY <1>1, <1>2, <1>3 DEF FilesAt, Name, Text, ReadFile
<1>8. ResultAt(w)'
  <2>1. stage'[w] = "remove" => result'[w] = Expected(w)'
    <3>1. CASE files[fd[w]].err = NONE
      BY <1>3, <3>1 DEF ReadFile, Name
    <3>2. CASE files[fd[w]].err # NONE
      <4>1. files[fd[w]].err.size \in Nat /\ files[fd[w]].err.by = w
        BY <1>1, <1>2, <3>2, MyFiles, ReadFacts DEF FilesAt, Name
      <4>2. files[fd[w]].err.size > 0 => produced[w] = files[fd[w]].err.size
        BY <1>1, <1>2, <3>2 DEF FilesAt, Name
      <4>3. result'[w] = IF files[fd[w]].err.size < 1 THEN NONE ELSE Text(w, files[fd[w]].err.size - 1)
        BY <1>2, <1>3, <3>2, <4>1, MyFiles, ReadFacts DEF Name
      <4>4. CASE files[fd[w]].err.size < 1
        BY <1>3, <4>3, <4>4
      <4>5. CASE files[fd[w]].err.size >= 1
        <5>1. /\ produced'[w] = files[fd[w]].err.size /\ produced'[w] > 0
              /\ result'[w] = Text(w, files[fd[w]].err.size - 1)
          <6>1. produced'[w] = files[fd[w]].err.size /\ produced'[w] > 0
            <7>1. files[fd[w]].err.size > 0
              BY <4>1, <4>5
            <7>2. produced'[w] = produced[w]
              BY <1>3
            <7>3. QED
              BY <4>2, <7>1, <7>2
          <6>2. ~ (files[fd[w]].err.size < 1)
            BY <4>1, <4>5
          <6>3. QED
            BY <4>3, <6>1, <6>2, Zenon
        <5>2. Text(w, files[fd[w]].err.size - 1) = Text(w, produced'[w] - 1)
          BY <5>1
        <5>3. QED
          BY <5>1, <5>2 DEF Expected
      <4>6. QED
        BY <4>1, <4>4, <4>5
    <3>3. QED
      BY <3>1, <3>2
  <2>2. QED
    BY <1>1, <1>2, <1>3, <2>1 DEF ResultAt, Executing, Sending, Compressing
<1>9. NoLeftovers'
  BY <1>2, <1>3, <1>4, FilesStay DEF Same, Running, PlaceAt, Holding
<1>10. QED
  BY <1>1, <1>2, <1>3, <1>4, <1>5, <1>6, <1>7, <1>8, <1>9, OneMoves DEF PlaceAt, Executing, Sending, Compressing, Holding

\* The second file is read.
LEMMA ReadOutKeeps == ASSUME IInv, NEW w \in Workers, ReadOut(w) PROVE IInv'
<1>1. Typed /\ PlaceAt(w) /\ SentAt(w) /\ FilesAt(w) /\ ResultAt(w)
  BY DEF IInv, PlaceInv, OutputInv
<1>2. stage[w] = "read out"
  BY DEF At, Up, Goto, exec, sending, clients, Name, ReadFile, ReadOut
<1>3. /\ stage'[w] = "remove" /\ result'[w] = ReadFile(files[Name(w)].out) /\ client'[w] = client[w] /\ commands'[w] = commands[w]
      /\ produced'[w] = produced[w] /\ left'[w] = left[w] /\ file_size'[w] = file_size[w] /\ sent'[w] = sent[w]
      /\ shown'[w] = shown[w] /\ type' = type /\ files' = files /\ fd'[w] = fd[w]
  BY <1>1, <1>2 DEF Typed, At, Up, Goto, exec, sending, clients, Name, ReadFile, ReadOut
<1>4. \A v \in Workers \ {w} : Same(v)
  BY <1>1 DEF Typed, Same, At, Up, Goto, exec, sending, clients, Name, ReadFile, ReadOut
<1>5. Typed'
  <2>1. stage' \in [Workers -> Stages]
    BY <1>1 DEF Typed, Stages, Executing, Goto, Sending, Compressing, Name, ReadFile, ReadOut
  <2>2. result' \in [Workers -> Texts \union {NONE}]
    <3>1. ReadFile(files[Name(w)].out) \in Texts \union {NONE}
      BY <1>2, MyFiles, ReadFacts DEF Name
    <3>2. QED
      BY <1>1, <3>1 DEF Typed, ReadOut
  <2>3. QED
    BY <1>1, <2>1, <2>2 DEF Typed, At, Up, Goto, exec, sending, clients, Name, ReadFile, ReadOut
<1>6. PlaceAt(w)' /\ SentAt(w)'
  BY <1>1, <1>2, <1>3 DEF PlaceAt, SentAt, Executing, Sending, Compressing, Holding
<1>7. FilesAt(w)'
  BY <1>1, <1>2, <1>3 DEF FilesAt, Name, Text, ReadFile
<1>8. ResultAt(w)'
  <2>1. result'[w] = Expected(w)'
    <3>1. files[fd[w]].err \in Texts \union {NONE} /\ files[fd[w]].out \in Texts \union {NONE}
      BY <1>2, MyFiles
    <3>2. ReadFile(files[fd[w]].err) = NONE
      BY <1>1, <1>2 DEF FilesAt, Name
    <3>3. CASE files[fd[w]].err = NONE
      <4>1. produced[w] = 0 /\ (files[fd[w]].out # NONE => files[fd[w]].out = Text(w, 0))
        BY <1>1, <1>2, <3>3 DEF FilesAt, Name
      <4>2. result'[w] = NONE
        BY <1>3, <4>1 DEF ReadFile, Name, Text
      <4>3. QED
        BY <1>3, <4>1, <4>2 DEF Expected
    <3>4. CASE files[fd[w]].err # NONE
      <4>1. files[fd[w]].err.size = 0
        BY <3>1, <3>2, <3>4, ReadFacts, TextFacts
      <4>2. files[fd[w]].out # NONE /\ files[fd[w]].out.by = w /\ produced[w] = files[fd[w]].out.size
        <5>1. /\ files[fd[w]].out # NONE /\ files[fd[w]].out.by = w
              /\ produced[w] = IF files[fd[w]].err.size > 0 THEN files[fd[w]].err.size
                                                           ELSE files[fd[w]].out.size
          BY <1>1, <1>2, <3>4 DEF FilesAt, Name
        <5>2. QED
          BY <4>1, <5>1
      <4>3. files[fd[w]].out.size \in Nat
        BY <3>1, <4>2, ReadFacts
      <4>4. result'[w] = IF files[fd[w]].out.size < 1 THEN NONE ELSE Text(w, files[fd[w]].out.size - 1)
        BY <1>3, <3>1, <4>2, ReadFacts DEF Name
      <4>5. QED
        BY <1>3, <4>2, <4>3, <4>4 DEF Expected
    <3>5. QED
      BY <3>3, <3>4
  <2>2. QED
    BY <1>1, <1>2, <1>3, <2>1 DEF ResultAt, Executing, Sending, Compressing
<1>9. NoLeftovers'
  BY <1>2, <1>3, <1>4, FilesStay DEF Same, Running, PlaceAt, Holding
<1>10. QED
  BY <1>1, <1>2, <1>3, <1>4, <1>5, <1>6, <1>7, <1>8, <1>9, OneMoves DEF PlaceAt, Executing, Sending, Compressing, Holding

\* The system information is a response.
LEMMA SysinfoKeeps == ASSUME IInv, NEW w \in Workers, Sysinfo(w) PROVE IInv'
<1>1. Typed /\ PlaceAt(w) /\ SentAt(w) /\ FilesAt(w) /\ ResultAt(w)
  BY DEF IInv, PlaceInv, OutputInv
<1>2. stage[w] = "sysinfo"
  BY DEF At, Up, Goto, exec, sending, clients, Text, Sysinfo
<1>3. /\ stage'[w] = "respond" /\ result'[w] = Text(w, Max(Sizes)) /\ produced'[w] = Max(Sizes) + 1 /\ client'[w] = client[w]
      /\ commands'[w] = commands[w] /\ left'[w] = left[w] /\ file_size'[w] = file_size[w] /\ sent'[w] = sent[w]
      /\ shown'[w] = shown[w] /\ type' = type /\ files' = files /\ fd'[w] = fd[w]
  BY <1>1, <1>2, MaxSizes DEF Typed, At, Up, Goto, exec, sending, clients, Text, Sysinfo
<1>4. \A v \in Workers \ {w} : Same(v)
  BY <1>1 DEF Typed, Same, At, Up, Goto, exec, sending, clients, Text, Sysinfo
<1>5. Typed'
  <2>1. stage' \in [Workers -> Stages]
    BY <1>1, MaxSizes DEF Typed, Stages, Executing, Goto, Sending, Compressing, Text, Sysinfo
  <2>2. produced' \in [Workers -> Nat]
    BY <1>1, MaxSizes DEF Typed, Text, Sysinfo
  <2>3. result' \in [Workers -> Texts \union {NONE}]
    BY <1>1, MaxSizes DEF Typed, Text, Texts, ReadFile, Name, Sysinfo
  <2>4. QED
    BY <1>1, <2>1, <2>2, <2>3 DEF Typed, At, Up, Goto, exec, sending, clients, Text, Sysinfo
<1>6. PlaceAt(w)' /\ SentAt(w)'
  BY <1>1, <1>2, <1>3 DEF PlaceAt, SentAt, Executing, Sending, Compressing, Holding
<1>7. FilesAt(w)'
  BY <1>1, <1>2, <1>3 DEF FilesAt, Name, Text, ReadFile
<1>8. ResultAt(w)'
  BY <1>1, <1>2, <1>3, MaxSizes DEF Typed, ResultAt, Expected, Text, Executing, Sending, Compressing
<1>9. NoLeftovers'
  BY <1>2, <1>3, <1>4, FilesStay DEF Same, Running, PlaceAt, Holding
<1>10. QED
  BY <1>1, <1>2, <1>3, <1>4, <1>5, <1>6, <1>7, <1>8, <1>9, OneMoves DEF PlaceAt, Executing, Sending, Compressing, Holding

\* A packet is sent as it is.
LEMMA SendRawKeeps == ASSUME IInv, NEW w \in Workers, SendRaw(w) PROVE IInv'
<1>1. Typed /\ PlaceAt(w) /\ SentAt(w) /\ FilesAt(w) /\ ResultAt(w)
  BY DEF IInv, PlaceInv, OutputInv
<1>2. stage[w] = "next" /\ left[w] > 0 /\ type[w] # "B"
  BY DEF At, Up, Goto, exec, sending, clients, SendPacket, CountDown, SendRaw
<1>3. /\ stage'[w] = "ack" /\ client'[w] = "packet" /\ sent'[w] = Packet(w) /\ left'[w] = left[w] - 1
      /\ commands'[w] = commands[w] /\ produced'[w] = produced[w] /\ file_size'[w] = file_size[w] /\ result'[w] = result[w]
      /\ shown'[w] = shown[w] /\ type' = type /\ files' = files /\ fd'[w] = fd[w]
  BY <1>1, <1>2 DEF Typed, At, Up, Goto, exec, sending, clients, SendPacket, CountDown, SendRaw
<1>4. \A v \in Workers \ {w} : Same(v)
  BY <1>1 DEF Typed, Same, At, Up, Goto, exec, sending, clients, SendPacket, CountDown, SendRaw
<1>5. Typed'
  <2>1. stage' \in [Workers -> Stages]
    BY <1>1 DEF Typed, Stages, Executing, Goto, Sending, Compressing, SendPacket, CountDown, SendRaw
  <2>2. client' \in [Workers -> Clients]
    BY <1>1 DEF Typed, Clients, Holding, SendPacket, CountDown, SendRaw
  <2>3. left' \in [Workers -> Nat]
    BY <1>1 DEF Typed, SendPacket, CountDown, SendRaw
  <2>4. sent' \in [Workers -> Packets \union Compressed \union {NONE}]
    <3>1. Packet(w) \in Packets
      BY <1>1, <1>2, PacketFacts DEF Sending
    <3>2. QED
      BY <1>1, <3>1 DEF Typed, SendPacket, SendRaw
  <2>5. QED
    BY <1>1, <2>1, <2>2, <2>3, <2>4 DEF Typed, At, Up, Goto, exec, sending, clients, SendPacket, CountDown, SendRaw
<1>6. PlaceAt(w)' /\ SentAt(w)'
  <2>1. sent'[w] \in Packets
    BY <1>1, <1>2, <1>3, PacketFacts DEF Sending
  <2>2. QED
    BY <1>1, <1>2, <1>3, <2>1 DEF PlaceAt, SentAt, Executing, Sending, Compressing, Holding
<1>7. FilesAt(w)'
  BY <1>1, <1>2, <1>3 DEF FilesAt, Name, Text, ReadFile
<1>8. ResultAt(w)'
  BY <1>1, <1>2, <1>3 DEF Typed, ResultAt, Expected, Text, Executing, Sending, Compressing
<1>9. NoLeftovers'
  BY <1>2, <1>3, <1>4, FilesStay DEF Same, Running, PlaceAt, Holding
<1>10. QED
  BY <1>1, <1>2, <1>3, <1>4, <1>5, <1>6, <1>7, <1>8, <1>9, OneMoves DEF PlaceAt, Executing, Sending, Compressing, Holding

\* The gz file is created.
LEMMA CreateFileKeeps == ASSUME IInv, NEW w \in Workers, CreateFile(w) PROVE IInv'
<1>1. Typed /\ PlaceAt(w) /\ SentAt(w) /\ FilesAt(w) /\ ResultAt(w)
  BY DEF IInv, PlaceInv, OutputInv
<1>2. stage[w] = "next" /\ left[w] > 0 /\ type[w] = "B"
  BY DEF At, Up, Goto, exec, sending, clients, Meets, Empty, CreateFile
<1>3. /\ stage'[w] = "create" /\ client'[w] = client[w] /\ commands'[w] = commands[w] /\ produced'[w] = produced[w]
      /\ left'[w] = left[w] /\ file_size'[w] = file_size[w] /\ result'[w] = result[w] /\ sent'[w] = sent[w]
      /\ shown'[w] = shown[w] /\ type' = type /\ files' = files /\ fd'[w] = fd[w]
  BY <1>1, <1>2 DEF Typed, At, Up, Goto, exec, sending, clients, Meets, Empty, CreateFile
<1>4. \A v \in Workers \ {w} : Same(v)
  BY <1>1 DEF Typed, Same, At, Up, Goto, exec, sending, clients, Meets, Empty, CreateFile
<1>5. Typed'
  <2>1. stage' \in [Workers -> Stages]
    BY <1>1 DEF Typed, Stages, Executing, Goto, Sending, Compressing, Meets, Empty, CreateFile
  <2>2. gz' \in Zipped
    BY <1>1, <1>2 DEF Typed, Files, Zipped, Texts, At, Up, Goto, exec, sending, clients, Meets, Empty, CreateFile
  <2>3. shared' \in SUBSET Workers
    <3>1. shared \subseteq Workers /\ Using \ {w} \subseteq Workers
      BY <1>1 DEF Typed, Using
    <3>2. QED
      BY <3>1 DEF Meets, CreateFile
  <2>4. QED
    BY <1>1, <2>1, <2>2, <2>3 DEF Typed, At, Up, Goto, exec, sending, clients, Meets, Empty, CreateFile
<1>6. PlaceAt(w)' /\ SentAt(w)'
  BY <1>1, <1>2, <1>3 DEF PlaceAt, SentAt, Executing, Sending, Compressing, Holding
<1>7. FilesAt(w)'
  BY <1>1, <1>2, <1>3 DEF FilesAt, Name, Text, ReadFile
<1>8. ResultAt(w)'
  BY <1>1, <1>2, <1>3 DEF Typed, ResultAt, Expected, Text, Executing, Sending, Compressing
<1>9. NoLeftovers'
  BY <1>2, <1>3, <1>4, FilesStay DEF Same, Running, PlaceAt, Holding
<1>10. QED
  BY <1>1, <1>2, <1>3, <1>4, <1>5, <1>6, <1>7, <1>8, <1>9, OneMoves DEF PlaceAt, Executing, Sending, Compressing, Holding

\* The gz file is opened.
LEMMA GzOpenKeeps == ASSUME IInv, NEW w \in Workers, GzOpen(w) PROVE IInv'
<1>1. Typed /\ PlaceAt(w) /\ SentAt(w) /\ FilesAt(w) /\ ResultAt(w)
  BY DEF IInv, PlaceInv, OutputInv
<1>2. stage[w] = "create"
  BY DEF At, Up, Goto, exec, sending, clients, Empty, GzOpen
<1>3. /\ stage'[w] = "compress" /\ client'[w] = client[w] /\ commands'[w] = commands[w] /\ produced'[w] = produced[w]
      /\ left'[w] = left[w] /\ file_size'[w] = file_size[w] /\ result'[w] = result[w] /\ sent'[w] = sent[w]
      /\ shown'[w] = shown[w] /\ type' = type /\ files' = files /\ fd'[w] = fd[w]
  BY <1>1, <1>2 DEF Typed, At, Up, Goto, exec, sending, clients, Empty, GzOpen
<1>4. \A v \in Workers \ {w} : Same(v)
  BY <1>1 DEF Typed, Same, At, Up, Goto, exec, sending, clients, Empty, GzOpen
<1>5. Typed'
  <2>1. stage' \in [Workers -> Stages]
    BY <1>1 DEF Typed, Stages, Executing, Goto, Sending, Compressing, Empty, GzOpen
  <2>2. gz' \in Zipped
    BY <1>1, <1>2 DEF Typed, Files, Zipped, Texts, At, Up, Goto, exec, sending, clients, Empty, GzOpen
  <2>3. QED
    BY <1>1, <2>1, <2>2 DEF Typed, At, Up, Goto, exec, sending, clients, Empty, GzOpen
<1>6. PlaceAt(w)' /\ SentAt(w)'
  BY <1>1, <1>2, <1>3 DEF PlaceAt, SentAt, Executing, Sending, Compressing, Holding
<1>7. FilesAt(w)'
  BY <1>1, <1>2, <1>3 DEF FilesAt, Name, Text, ReadFile
<1>8. ResultAt(w)'
  BY <1>1, <1>2, <1>3 DEF Typed, ResultAt, Expected, Text, Executing, Sending, Compressing
<1>9. NoLeftovers'
  BY <1>2, <1>3, <1>4, FilesStay DEF Same, Running, PlaceAt, Holding
<1>10. QED
  BY <1>1, <1>2, <1>3, <1>4, <1>5, <1>6, <1>7, <1>8, <1>9, OneMoves DEF PlaceAt, Executing, Sending, Compressing, Holding

\* The gz file is written.
LEMMA GzCloseKeeps == ASSUME IInv, NEW w \in Workers, GzClose(w) PROVE IInv'
<1>1. Typed /\ PlaceAt(w) /\ SentAt(w) /\ FilesAt(w) /\ ResultAt(w)
  BY DEF IInv, PlaceInv, OutputInv
<1>2. stage[w] = "compress"
  BY DEF At, Up, Goto, exec, sending, clients, GzClose
<1>3. /\ stage'[w] = "open" /\ client'[w] = client[w] /\ commands'[w] = commands[w] /\ produced'[w] = produced[w]
      /\ left'[w] = left[w] /\ file_size'[w] = file_size[w] /\ result'[w] = result[w] /\ sent'[w] = sent[w]
      /\ shown'[w] = shown[w] /\ type' = type /\ files' = files /\ fd'[w] = fd[w]
  BY <1>1, <1>2 DEF Typed, At, Up, Goto, exec, sending, clients, GzClose
<1>4. \A v \in Workers \ {w} : Same(v)
  BY <1>1 DEF Typed, Same, At, Up, Goto, exec, sending, clients, GzClose
<1>5. Typed'
  <2>1. stage' \in [Workers -> Stages]
    BY <1>1 DEF Typed, Stages, Executing, Goto, Sending, Compressing, GzClose
  <2>2. gz' \in Zipped
    <3>1. gz.size \in Nat /\ Packet(w) \in Packets /\ Packet(w)[1] = w /\ Bulk[w] \in Nat
      <4>1. gz.size \in Nat
        BY <1>1 DEF Typed, Zipped
      <4>2. QED
        BY <1>1, <1>2, <4>1, PacketFacts DEF Sending, Compressing
    <3>2. Max({gz.size, Bulk[Packet(w)[1]]}) \in Nat
      BY <3>1, MaxOfTwo
    <3>3. QED
      BY <3>1, <3>2 DEF Zipped, Over, GzClose
  <2>3. QED
    BY <1>1, <2>1, <2>2 DEF Typed, At, Up, Goto, exec, sending, clients, GzClose
<1>6. PlaceAt(w)' /\ SentAt(w)'
  BY <1>1, <1>2, <1>3 DEF PlaceAt, SentAt, Executing, Sending, Compressing, Holding
<1>7. FilesAt(w)'
  BY <1>1, <1>2, <1>3 DEF FilesAt, Name, Text, ReadFile
<1>8. ResultAt(w)'
  BY <1>1, <1>2, <1>3 DEF Typed, ResultAt, Expected, Text, Executing, Sending, Compressing
<1>9. NoLeftovers'
  BY <1>2, <1>3, <1>4, FilesStay DEF Same, Running, PlaceAt, Holding
<1>10. QED
  BY <1>1, <1>2, <1>3, <1>4, <1>5, <1>6, <1>7, <1>8, <1>9, OneMoves DEF PlaceAt, Executing, Sending, Compressing, Holding

\* The gz file is measured.
LEMMA OpenFileKeeps == ASSUME IInv, NEW w \in Workers, OpenFile(w) PROVE IInv'
<1>1. Typed /\ PlaceAt(w) /\ SentAt(w) /\ FilesAt(w) /\ ResultAt(w)
  BY DEF IInv, PlaceInv, OutputInv
<1>2. stage[w] = "open"
  BY DEF At, Up, Goto, exec, sending, clients, OpenFile
<1>3. /\ stage'[w] = "read" /\ file_size'[w] = gz.size /\ client'[w] = client[w] /\ commands'[w] = commands[w]
      /\ produced'[w] = produced[w] /\ left'[w] = left[w] /\ result'[w] = result[w] /\ sent'[w] = sent[w]
      /\ shown'[w] = shown[w] /\ type' = type /\ files' = files /\ fd'[w] = fd[w]
  BY <1>1, <1>2 DEF Typed, At, Up, Goto, exec, sending, clients, OpenFile
<1>4. \A v \in Workers \ {w} : Same(v)
  BY <1>1 DEF Typed, Same, At, Up, Goto, exec, sending, clients, OpenFile
<1>5. Typed'
  <2>1. stage' \in [Workers -> Stages]
    BY <1>1 DEF Typed, Stages, Executing, Goto, Sending, Compressing, OpenFile
  <2>2. file_size' \in [Workers -> Nat]
    <3>1. gz.size \in Nat
      BY <1>1 DEF Typed, Zipped
    <3>2. QED
      BY <1>1, <3>1 DEF Typed, OpenFile
  <2>3. QED
    BY <1>1, <2>1, <2>2 DEF Typed, At, Up, Goto, exec, sending, clients, OpenFile
<1>6. PlaceAt(w)' /\ SentAt(w)'
  BY <1>1, <1>2, <1>3 DEF PlaceAt, SentAt, Executing, Sending, Compressing, Holding
<1>7. FilesAt(w)'
  BY <1>1, <1>2, <1>3 DEF FilesAt, Name, Text, ReadFile
<1>8. ResultAt(w)'
  BY <1>1, <1>2, <1>3 DEF Typed, ResultAt, Expected, Text, Executing, Sending, Compressing
<1>9. NoLeftovers'
  BY <1>2, <1>3, <1>4, FilesStay DEF Same, Running, PlaceAt, Holding
<1>10. QED
  BY <1>1, <1>2, <1>3, <1>4, <1>5, <1>6, <1>7, <1>8, <1>9, OneMoves DEF PlaceAt, Executing, Sending, Compressing, Holding

\* The gz file is read and sent.
LEMMA ReadFileAndSendKeeps == ASSUME IInv, NEW w \in Workers, ReadFileAndSend(w) PROVE IInv'
<1>1. Typed /\ PlaceAt(w) /\ SentAt(w) /\ FilesAt(w) /\ ResultAt(w)
  BY DEF IInv, PlaceInv, OutputInv
<1>2. /\ stage[w] = "read" /\ left[w] > 0
      /\ [of |-> gz.of, size |-> Min({file_size[w], gz.size}), json |-> Bulk[result[w].by]] \in Compressed
  <2>1. stage[w] = "read"
    BY DEF At, ReadFileAndSend
  <2>2. left[w] \in Nat /\ left[w] > 0
    BY <1>1, <2>1 DEF Typed, ResultAt, Compressing
  <2>3. [of |-> gz.of, size |-> Min({file_size[w], gz.size}), json |-> Bulk[result[w].by]] \in Compressed
    <3>1. gz.of \in Packets \union {NONE} /\ gz.size \in Nat /\ file_size[w] \in Nat
      BY <1>1 DEF Typed, Zipped
    <3>2. Min({file_size[w], gz.size}) \in Nat
      BY <3>1, MaxOfTwo
    <3>3. Bulk[result[w].by] \in Nat
      BY <1>1, <2>1, PacketFacts DEF Sending, Compressing
    <3>4. QED
      BY <3>1, <3>2, <3>3 DEF Compressed
  <2>4. QED
    BY <2>1, <2>2, <2>3
<1>3. /\ stage'[w] = "ack" /\ client'[w] = "packet" /\ sent'[w] \in Compressed /\ left'[w] = left[w] - 1
      /\ file_size'[w] = 0 /\ commands'[w] = commands[w] /\ produced'[w] = produced[w] /\ result'[w] = result[w]
      /\ shown'[w] = shown[w] /\ type' = type /\ files' = files /\ fd'[w] = fd[w]
  BY <1>1, <1>2 DEF Typed, At, Up, Goto, exec, sending, clients, SendPacket, CountDown, ReadFileAndSend
<1>4. \A v \in Workers \ {w} : Same(v)
  BY <1>1 DEF Typed, Same, At, Up, Goto, exec, sending, clients, SendPacket, CountDown, ReadFileAndSend
<1>5. Typed'
  <2>1. stage' \in [Workers -> Stages]
    BY <1>1 DEF Typed, Stages, Executing, Goto, Sending, Compressing, SendPacket, CountDown, ReadFileAndSend
  <2>2. client' \in [Workers -> Clients]
    BY <1>1 DEF Typed, Clients, Holding, SendPacket, CountDown, ReadFileAndSend
  <2>3. left' \in [Workers -> Nat]
    BY <1>1, <1>2 DEF Typed, CountDown, ReadFileAndSend
  <2>4. file_size' \in [Workers -> Nat]
    BY <1>1 DEF Typed, sending, SendPacket, CountDown, ReadFileAndSend
  <2>5. sent' \in [Workers -> Packets \union Compressed \union {NONE}]
    BY <1>1, <1>2 DEF Typed, SendPacket, ReadFileAndSend
  <2>6. QED
    BY <1>1, <2>1, <2>2, <2>3, <2>4, <2>5 DEF Typed, At, Up, Goto, exec, sending, clients, SendPacket, CountDown, ReadFileAndSend
<1>6. PlaceAt(w)' /\ SentAt(w)'
  BY <1>1, <1>2, <1>3 DEF PlaceAt, SentAt, Executing, Sending, Compressing, Holding
<1>7. FilesAt(w)'
  BY <1>1, <1>2, <1>3 DEF FilesAt, Name, Text, ReadFile
<1>8. ResultAt(w)'
  BY <1>1, <1>2, <1>3 DEF Typed, ResultAt, Expected, Text, Executing, Sending, Compressing
<1>9. NoLeftovers'
  BY <1>2, <1>3, <1>4, FilesStay DEF Same, Running, PlaceAt, Holding
<1>10. QED
  BY <1>1, <1>2, <1>3, <1>4, <1>5, <1>6, <1>7, <1>8, <1>9, OneMoves DEF PlaceAt, Executing, Sending, Compressing, Holding

\* The response is sent.
LEMMA SentKeeps == ASSUME IInv, NEW w \in Workers, Sent(w) PROVE IInv'
<1>1. Typed /\ PlaceAt(w) /\ SentAt(w) /\ FilesAt(w) /\ ResultAt(w)
  BY DEF IInv, PlaceInv, OutputInv
<1>2. stage[w] = "next" /\ left[w] = 0
  BY DEF At, Sent
<1>3. /\ stage'[w] = "serving" /\ client'[w] = "prompt" /\ result'[w] = NONE /\ commands'[w] = commands[w]
      /\ produced'[w] = produced[w] /\ left'[w] = left[w] /\ file_size'[w] = file_size[w] /\ sent'[w] = sent[w]
      /\ shown'[w] = shown[w] /\ type' = type /\ files' = files /\ fd'[w] = fd[w]
  <2>1. client[w] = "waiting"
    BY <1>1, <1>2 DEF PlaceAt
  <2>2. QED
    BY <1>1, <1>2, <2>1 DEF Typed, Goto, exec, sending, clients, Sent
<1>4. \A v \in Workers \ {w} : Same(v)
  BY <1>1 DEF Typed, Same, At, Up, Goto, exec, sending, clients, Sent
<1>5. Typed'
  <2>1. stage' \in [Workers -> Stages]
    BY <1>1 DEF Typed, Stages, Executing, Goto, Sending, Compressing, Sent
  <2>2. client' \in [Workers -> Clients]
    BY <1>1 DEF Typed, Clients, Holding, Sent
  <2>3. result' \in [Workers -> Texts \union {NONE}]
    BY <1>1 DEF Typed, Text, Texts, ReadFile, Name, Sent
  <2>4. QED
    BY <1>1, <2>1, <2>2, <2>3 DEF Typed, At, Up, Goto, exec, sending, clients, Sent
<1>6. PlaceAt(w)' /\ SentAt(w)'
  BY <1>1, <1>2, <1>3 DEF PlaceAt, SentAt, Executing, Sending, Compressing, Holding
<1>7. FilesAt(w)'
  BY <1>1, <1>2, <1>3 DEF FilesAt, Name, Text, ReadFile
<1>8. ResultAt(w)'
  BY <1>1, <1>2, <1>3 DEF Typed, ResultAt, Expected, Text, Executing, Sending, Compressing
<1>9. NoLeftovers'
  BY <1>2, <1>3, <1>4, FilesStay DEF Same, Running, PlaceAt, Holding
<1>10. QED
  BY <1>1, <1>2, <1>3, <1>4, <1>5, <1>6, <1>7, <1>8, <1>9, OneMoves DEF PlaceAt, Executing, Sending, Compressing, Holding

\* A client takes a gz file.
LEMMA ReceiveKeeps == ASSUME IInv, NEW w \in Workers, Receive(w) PROVE IInv'
<1>1. Typed /\ PlaceAt(w) /\ SentAt(w) /\ FilesAt(w) /\ ResultAt(w)
  BY DEF IInv, PlaceInv, OutputInv
<1>2. stage[w] = "ack" /\ client[w] = "packet" /\ type[w] = "B"
  BY DEF At, Up, Goto, exec, sending, clients, Meets, Empty, Receive
<1>3. /\ client'[w] = "write" /\ stage'[w] = stage[w] /\ commands'[w] = commands[w] /\ produced'[w] = produced[w]
      /\ left'[w] = left[w] /\ file_size'[w] = file_size[w] /\ result'[w] = result[w] /\ sent'[w] = sent[w]
      /\ shown'[w] = shown[w] /\ type' = type /\ files' = files /\ fd'[w] = fd[w]
  BY <1>1, <1>2 DEF Typed, At, Up, Goto, exec, sending, clients, Meets, Empty, Receive
<1>4. \A v \in Workers \ {w} : Same(v)
  BY <1>1 DEF Typed, Same, At, Up, Goto, exec, sending, clients, Meets, Empty, Receive
<1>5. Typed'
  <2>1. client' \in [Workers -> Clients]
    BY <1>1 DEF Typed, Clients, Holding, Meets, Empty, Receive
  <2>2. received' \in Zipped
    BY <1>1, <1>2 DEF Typed, Files, Zipped, Texts, At, Up, Goto, exec, sending, clients, Meets, Empty, Receive
  <2>3. shared' \in SUBSET Workers
    <3>1. shared \subseteq Workers /\ Reading \ {w} \subseteq Workers
      BY <1>1 DEF Typed, Reading
    <3>2. QED
      BY <3>1 DEF Meets, Receive
  <2>4. QED
    BY <1>1, <2>1, <2>2, <2>3 DEF Typed, At, Up, Goto, exec, sending, clients, Meets, Empty, Receive
<1>6. PlaceAt(w)' /\ SentAt(w)'
  BY <1>1, <1>2, <1>3 DEF PlaceAt, SentAt, Executing, Sending, Compressing, Holding
<1>7. FilesAt(w)'
  BY <1>1, <1>2, <1>3 DEF FilesAt, Name, Text, ReadFile
<1>8. ResultAt(w)'
  BY <1>1, <1>2, <1>3 DEF Typed, ResultAt, Expected, Text, Executing, Sending, Compressing
<1>9. NoLeftovers'
  BY <1>2, <1>3, <1>4, FilesStay DEF Same, Running, PlaceAt, Holding
<1>10. QED
  BY <1>1, <1>2, <1>3, <1>4, <1>5, <1>6, <1>7, <1>8, <1>9, OneMoves DEF PlaceAt, Executing, Sending, Compressing, Holding

\* A client stores it.
LEMMA StoreKeeps == ASSUME IInv, NEW w \in Workers, Store(w) PROVE IInv'
<1>1. Typed /\ PlaceAt(w) /\ SentAt(w) /\ FilesAt(w) /\ ResultAt(w)
  BY DEF IInv, PlaceInv, OutputInv
<1>2. client[w] = "write"
  BY DEF At, Up, Goto, exec, sending, clients, Store
<1>3. /\ client'[w] = "gzread" /\ stage'[w] = stage[w] /\ commands'[w] = commands[w] /\ produced'[w] = produced[w]
      /\ left'[w] = left[w] /\ file_size'[w] = file_size[w] /\ result'[w] = result[w] /\ sent'[w] = sent[w]
      /\ shown'[w] = shown[w] /\ type' = type /\ files' = files /\ fd'[w] = fd[w]
  BY <1>1, <1>2 DEF Typed, At, Up, Goto, exec, sending, clients, Store
<1>4. \A v \in Workers \ {w} : Same(v)
  BY <1>1 DEF Typed, Same, At, Up, Goto, exec, sending, clients, Store
<1>5. Typed'
  <2>1. client' \in [Workers -> Clients]
    BY <1>1 DEF Typed, Clients, Holding, Store
  <2>2. received' \in Zipped
    <3>1. sent[w] \in Compressed
      BY <1>1, <1>2 DEF PlaceAt, SentAt, Holding
    <3>2. CASE sent[w].of = NONE
      BY <1>1, <3>2 DEF Typed, Store
    <3>3. CASE sent[w].of # NONE
      <4>1. sent[w].size \in Nat /\ received.size \in Nat /\ sent[w].of \in Packets
        BY <1>1, <3>1, <3>3 DEF Typed, Compressed, Zipped
      <4>2. Max({received.size, sent[w].size}) \in Nat
        BY <4>1, MaxOfTwo
      <4>3. QED
        BY <3>3, <4>1, <4>2 DEF Zipped, Store
    <3>4. QED
      BY <3>2, <3>3
  <2>3. QED
    BY <1>1, <2>1, <2>2 DEF Typed, At, Up, Goto, exec, sending, clients, Store
<1>6. PlaceAt(w)' /\ SentAt(w)'
  BY <1>1, <1>2, <1>3 DEF PlaceAt, Dead, SentAt, Executing, Sending, Compressing, Holding
<1>7. FilesAt(w)'
  BY <1>1, <1>2, <1>3 DEF FilesAt, Name, Text, ReadFile
<1>8. ResultAt(w)'
  BY <1>1, <1>2, <1>3 DEF Typed, ResultAt, Expected, Text, Executing, Sending, Compressing
<1>9. NoLeftovers'
  BY <1>2, <1>3, <1>4, FilesStay DEF Same, Running, PlaceAt, Holding
<1>10. QED
  BY <1>1, <1>2, <1>3, <1>4, <1>5, <1>6, <1>7, <1>8, <1>9, OneMoves DEF PlaceAt, Executing, Sending, Compressing, Holding

\* The sending begins, or has nothing to send.
LEMMA RespondKeeps == ASSUME IInv, NEW w \in Workers, Respond(w) PROVE IInv'
<1>1. Typed /\ PlaceAt(w) /\ SentAt(w) /\ FilesAt(w) /\ ResultAt(w)
  BY DEF IInv, PlaceInv, OutputInv
<1>2. stage[w] = "respond"
  BY DEF At, Respond
<1>3. CASE result[w] = NONE
  BY <1>3, ServerEnds DEF sending, Respond
<1>4. CASE result[w] # NONE
  <2>1. result[w].size \in Nat
    BY <1>1, <1>4, ReadFacts DEF Typed
  <2>2. /\ left' = [left EXCEPT ![w] = result[w].size] /\ stage' = [stage EXCEPT ![w] = "next"]
        /\ UNCHANGED <<type, server, exec, result, gz, file_size, clients, shared>>
    BY <1>4 DEF Goto, Respond
  <2>3. stage'[w] = "next" /\ left'[w] = result[w].size
    BY <1>1, <2>2 DEF Typed
  <2>4. \A v \in Workers \ {w} : Same(v)
    BY <1>1, <2>2 DEF Typed, Same, exec, clients
  <2>5. Typed'
    <3>1. stage' \in [Workers -> Stages] /\ left' \in [Workers -> Nat]
      BY <1>1, <2>1, <2>2 DEF Typed, Stages, Sending
    <3>2. QED
      BY <1>1, <2>2, <3>1 DEF Typed, exec, clients
  <2>6. PlaceAt(w)' /\ SentAt(w)'
    BY <1>1, <1>2, <2>2, <2>3 DEF PlaceAt, SentAt, Executing, Sending, Compressing, Holding, exec, clients
  <2>7. FilesAt(w)'
    BY <2>3 DEF FilesAt
  <2>8. ResultAt(w)'
    <3>1. result'[w] = Expected(w)' /\ result'[w] # NONE
      BY <1>1, <1>2, <1>4, <2>2 DEF ResultAt, Expected, exec
    <3>2. left'[w] <= result'[w].size
      BY <2>1, <2>2, <2>3
    <3>3. QED
      BY <2>3, <3>1, <3>2 DEF ResultAt, Sending, Compressing
  <2>9. NoLeftovers'
    BY <1>2, <2>2, <2>4, FilesStay DEF Running, Same, exec
  <2>10. QED
    BY <1>2, <2>2, <2>3, <2>4, <2>5, <2>6, <2>7, <2>8, <2>9, OneMoves DEF exec
<1>5. QED
  BY <1>3, <1>4

\* The client has died: the worker gives up, or the server ends.
LEMMA LoseClientKeeps == ASSUME IInv, NEW w \in Workers, LoseClient(w) PROVE IInv'
<1>1. Typed /\ PlaceAt(w) /\ SentAt(w) /\ FilesAt(w) /\ ResultAt(w)
  BY DEF IInv, PlaceInv, OutputInv
<1>2. stage[w] = "ack" /\ client[w] \in Dead
  BY DEF At, LoseClient
<1>3. CASE server' = "killed" /\ UNCHANGED <<stage, left, result>>
  BY <1>3, ServerEnds DEF sending, LoseClient
<1>4. CASE /\ Goto(w, "serving") /\ UNCHANGED server
           /\ left' = [left EXCEPT ![w] = 0] /\ result' = [result EXCEPT ![w] = NONE]
  <2>1. UNCHANGED <<type, server, exec, gz, file_size, clients, shared>>
    BY <1>4 DEF LoseClient
  <2>2. stage'[w] = "serving" /\ left'[w] = 0
    BY <1>1, <1>4 DEF Typed, Goto
  <2>3. \A v \in Workers \ {w} : Same(v)
    BY <1>1, <1>4, <2>1 DEF Typed, Same, Goto, exec, clients
  <2>4. Typed'
    <3>1. stage' \in [Workers -> Stages]
      BY <1>1, <1>4 DEF Typed, Stages, Goto
    <3>2. left' \in [Workers -> Nat] /\ result' \in [Workers -> Texts \union {NONE}]
      BY <1>1, <1>4 DEF Typed
    <3>3. QED
      BY <1>1, <2>1, <3>1, <3>2 DEF Typed, exec, clients
  <2>5. PlaceAt(w)' /\ SentAt(w)'
    BY <1>1, <1>2, <2>1, <2>2 DEF PlaceAt, SentAt, Executing, Sending, Compressing, Holding, exec, clients
  <2>6. FilesAt(w)' /\ ResultAt(w)'
    BY <2>2 DEF FilesAt, ResultAt, Sending, Compressing
  <2>7. NoLeftovers'
    BY <1>2, <2>1, <2>3, FilesStay DEF Running, Same, exec
  <2>8. QED
    BY <1>2, <2>1, <2>2, <2>3, <2>4, <2>5, <2>6, <2>7, OneMoves DEF exec
<1>5. QED
  BY <1>3, <1>4 DEF LoseClient

\* A call of a worker fails.
LEMMA ExitKeeps == ASSUME IInv, NEW w \in Workers, Exit(w) PROVE IInv'
  BY ServerEnds DEF Exit

\* A client cannot open its gz file.
LEMMA ClientExitKeeps == ASSUME IInv, NEW w \in Workers, ClientExit(w) PROVE IInv'
<1>1. Typed /\ PlaceAt(w) /\ SentAt(w) /\ FilesAt(w) /\ ResultAt(w)
  BY DEF IInv, PlaceInv, OutputInv
<1>2. stage[w] = "ack" /\ client[w] \in Holding
  <2>1. client[w] \in Holding /\ stage[w] \in Stages
    BY <1>1 DEF Typed, Holding, ClientExit
  <2>2. QED
    BY <1>1, <2>1 DEF PlaceAt, Dead, Stages, Executing, Sending, Compressing, Holding
<1>3. /\ client'[w] = "exited" /\ sent'[w] = NONE /\ stage' = stage
      /\ UNCHANGED <<type, server, exec, sending, received, shown, shared>>
  BY <1>1 DEF Typed, ClientExit
<1>4. \A v \in Workers \ {w} : Same(v)
  BY <1>1 DEF Typed, Same, exec, sending, ClientExit
<1>5. Typed'
  <2>1. client' \in [Workers -> Clients] /\ sent' \in [Workers -> Packets \union Compressed \union {NONE}]
    BY <1>1 DEF Typed, Clients, ClientExit
  <2>2. QED
    BY <1>1, <1>3, <2>1 DEF Typed, exec, sending
<1>6. PlaceAt(w)' /\ SentAt(w)'
  BY <1>1, <1>2, <1>3 DEF PlaceAt, SentAt, Executing, Sending, Compressing, Holding, Dead, exec
<1>7. FilesAt(w)'
  BY <1>2, <1>3 DEF FilesAt
<1>8. ResultAt(w)'
  BY <1>1, <1>2, <1>3 DEF ResultAt, Expected, Executing, Sending, Compressing, exec, sending
<1>9. NoLeftovers'
  BY <1>2, <1>3, <1>4, FilesStay DEF Running, Same, exec
<1>10. QED
  BY <1>2, <1>3, <1>4, <1>5, <1>6, <1>7, <1>8, <1>9, OneMoves DEF exec

\* The client unpacks a packet.
LEMMA UnformatKeeps ==
  ASSUME IInv, NEW w \in Workers, NEW packet \in Packets \union {NONE}, Unformat(w, packet),
         stage[w] = "ack", client[w] \in Holding, sent' = [sent EXCEPT ![w] = NONE],
         UNCHANGED <<type, server, exec, sending, received, shared>>
  PROVE  IInv'
<1>1. Typed /\ PlaceAt(w) /\ SentAt(w) /\ FilesAt(w) /\ ResultAt(w)
  BY DEF IInv, PlaceInv, OutputInv
<1>2. \/ stage' = stage /\ client' = [client EXCEPT ![w] = "crashed"]
      \/ stage' = [stage EXCEPT ![w] = "next"] /\ client' = [client EXCEPT ![w] = "waiting"]
  BY DEF Unformat, Goto
<1>3. \/ shown' = shown
      \/ packet \in Packets /\ shown' = [shown EXCEPT ![w] = Append(shown[w], packet)]
  <2>1. CASE packet = NONE
    <3>1. UNCHANGED <<shown, stage>>
      BY <2>1, Zenon DEF Unformat
    <3>2. QED
      BY <3>1, Zenon
  <2>2. CASE packet # NONE
    <3>1. shown' = [shown EXCEPT ![w] = Append(shown[w], packet)]
      BY <2>2 DEF Unformat
    <3>2. QED
      BY <2>2, <3>1
  <2>3. QED
    BY <2>1, <2>2
<1>4. /\ sent'[w] = NONE
      /\ \/ stage'[w] = "ack" /\ client'[w] = "crashed"
         \/ stage'[w] = "next" /\ client'[w] = "waiting"
  <2>1. sent'[w] = NONE
    BY <1>1 DEF Typed
  <2>2. \/ stage'[w] = "ack" /\ client'[w] = "crashed"
        \/ stage'[w] = "next" /\ client'[w] = "waiting"
    <3>1. stage \in [Workers -> Stages] /\ client \in [Workers -> Clients]
      BY <1>1 DEF Typed
    <3>2. CASE stage' = stage /\ client' = [client EXCEPT ![w] = "crashed"]
      <4>1. stage'[w] = "ack"
        BY <3>2, Zenon
      <4>2. client'[w] = "crashed"
        BY <3>1, <3>2, Zenon
      <4>3. QED
        BY <4>1, <4>2
    <3>3. CASE stage' = [stage EXCEPT ![w] = "next"] /\ client' = [client EXCEPT ![w] = "waiting"]
      BY <3>1, <3>3
    <3>4. QED
      BY <1>2, <3>2, <3>3
  <2>3. QED
    BY <2>1, <2>2
<1>5. \A v \in Workers \ {w} : Same(v)
  <2>1. \A v \in Workers \ {w} : shown'[v] = shown[v]
    BY <1>1, <1>3 DEF Typed
  <2>2. \A v \in Workers \ {w} : stage'[v] = stage[v] /\ client'[v] = client[v] /\ sent'[v] = sent[v]
    BY <1>1, <1>2 DEF Typed
  <2>3. QED
    BY <2>1, <2>2 DEF Same, exec, sending
<1>6. Typed'
  <2>1. stage' \in [Workers -> Stages] /\ client' \in [Workers -> Clients]
    BY <1>1, <1>2 DEF Typed, Stages, Clients, Sending
  <2>2. shown' \in [Workers -> Seq(Packets)]
    <3>1. packet \in Packets => Append(shown[w], packet) \in Seq(Packets)
      BY <1>1 DEF Typed
    <3>2. QED
      BY <1>1, <1>3, <3>1 DEF Typed
  <2>3. sent' \in [Workers -> Packets \union Compressed \union {NONE}]
    BY <1>1 DEF Typed
  <2>4. QED
    BY <1>1, <2>1, <2>2, <2>3 DEF Typed, exec, sending
<1>7. PlaceAt(w)' /\ SentAt(w)'
  BY <1>1, <1>4 DEF PlaceAt, Dead, SentAt, Executing, Sending, Compressing, Holding, exec
<1>8. FilesAt(w)'
  BY <1>4 DEF FilesAt
<1>9. ResultAt(w)'
  BY <1>1, <1>4 DEF ResultAt, Expected, Executing, Sending, Compressing, exec, sending
<1>10. NoLeftovers'
  BY <1>5, FilesStay DEF Running, Same, exec
<1>11. QED
  BY <1>4, <1>5, <1>6, <1>7, <1>8, <1>9, <1>10, OneMoves DEF exec

\* A client takes a packet that came as it is.
LEMMA ReceiveRawKeeps == ASSUME IInv, NEW w \in Workers, ReceiveRaw(w) PROVE IInv'
<1>1. stage[w] = "ack" /\ client[w] = "packet" /\ type[w] # "B"
  BY DEF At, ReceiveRaw
<1>2. sent[w] \in Packets
  BY <1>1 DEF IInv, PlaceInv, SentAt, Holding
<1>3. QED
  BY <1>1, <1>2, UnformatKeeps DEF Holding, ReceiveRaw

\* What is parsed is a packet or nothing.
LEMMA ParsedFacts ==
  ASSUME NEW of \in Packets \union {NONE}, NEW n \in Nat
  PROVE  Parsed(of, n) \in Packets \union {NONE}
  BY DEF Parsed

\* A client reads a gz file.
LEMMA GzReadKeeps == ASSUME IInv, NEW w \in Workers, GzRead(w) PROVE IInv'
<1>1. PlaceAt(w) /\ SentAt(w) /\ client[w] = "gzread" /\ type \in [Workers -> {"A", "B", "C"}] /\ stage[w] \in Stages
  BY DEF IInv, PlaceInv, Typed, GzRead
<1>2. stage[w] = "ack" /\ sent[w] \in Compressed
  BY <1>1 DEF PlaceAt, Dead, SentAt, Executing, Sending, Compressing, Holding, Stages
<1>3. received.of \in Packets \union {NONE} /\ received.size \in Nat /\ sent[w].json \in Nat
  BY <1>2 DEF IInv, Typed, Zipped, Compressed
<1>4. Parsed(received.of, Min({received.size, sent[w].json})) \in Packets \union {NONE}
  BY <1>3, MaxOfTwo, ParsedFacts
<1>5. QED
  BY <1>1, <1>2, <1>4, UnformatKeeps DEF Holding, GzRead

-----------------------------------------------------------------------------
(* The invariant and what follows from it.                                 *)

\* The initial state satisfies it.
LEMMA InitIInv == Init => IInv
<1> SUFFICES ASSUME Init PROVE IInv
  OBVIOUS
<1>1. NoFiles \in Files /\ Empty \in Zipped /\ <<>> \in Seq(Packets)
  BY DEF NoFiles, Files, Empty, Zipped
<1>2. Typed
  BY <1>1, ResponsesAssumption DEF Init, Typed, Stages, Clients
<1>3. FdInv /\ NoLeftovers
  BY DEF Init, FdInv, NoLeftovers
<1>4. PlaceInv
  BY ResponsesAssumption DEF Init, PlaceInv, PlaceAt, SentAt, Executing, Sending, Compressing, Holding
<1>5. OutputInv
  BY DEF Init, OutputInv, FilesAt, ResultAt, Sending, Compressing
<1>6. QED
  BY <1>2, <1>3, <1>4, <1>5 DEF IInv

\* Nothing happens.
LEMMA StillKeeps == ASSUME IInv, UNCHANGED vars PROVE IInv'
<1>1. UNCHANGED <<type, server, stage, fd, commands, files, produced, result, left, gz, file_size, sent,
                  received, client, shown, shared>>
  BY DEF vars, exec, sending, clients
<1>2. Typed'
  BY <1>1 DEF IInv, Typed
<1>3. FdInv' /\ NoLeftovers'
  BY <1>1 DEF IInv, FdInv, NoLeftovers, Name
<1>4. ASSUME NEW w \in Workers PROVE PlaceAt(w)' /\ SentAt(w)' /\ FilesAt(w)' /\ ResultAt(w)'
  BY <1>1 DEF IInv, PlaceInv, OutputInv, PlaceAt, SentAt, FilesAt, ResultAt, Expected, Name
<1>5. QED
  BY <1>2, <1>3, <1>4 DEF IInv, PlaceInv, OutputInv

\* Every step keeps it.
LEMMA StepIInv == IInv /\ [Next]_vars => IInv'
<1> SUFFICES ASSUME IInv, [Next]_vars PROVE IInv'
  OBVIOUS
<1>1. CASE \E w \in Workers : Accept(w) \/ Command(w) \/ Leave(w)
  BY <1>1, AcceptKeeps, CommandKeeps, LeaveKeeps
<1>2. CASE \E w \in Workers : Worker(w)
  BY <1>2, PopenKeeps, PopenFailsKeeps, RunKeeps, ReadErrKeeps, ReadOutKeeps, RemoveKeeps, SysinfoKeeps,
     RespondKeeps, SendRawKeeps, CreateFileKeeps, GzOpenKeeps, GzCloseKeeps, OpenFileKeeps,
     ReadFileAndSendKeeps, SentKeeps, ExitKeeps, LoseClientKeeps DEF Worker
<1>3. CASE \E w \in Workers : Client(w)
  BY <1>3, ReceiveRawKeeps, ReceiveKeeps, StoreKeeps, GzReadKeeps, ClientExitKeeps DEF Client
<1>4. CASE UNCHANGED vars
  BY <1>4, StillKeeps
<1>5. QED
  BY <1>1, <1>2, <1>3, <1>4 DEF Next, Stopped

\* The inductive invariant holds in every state.
THEOREM Invariance == Spec => []IInv
  BY InitIInv, StepIInv, PTL DEF Spec

\* Every variable has its type, open connections have descriptors of their own,
\* and a client is in a packet exactly when its worker waits for the answer.
THEOREM TypeCorrect == Spec => []TypeOK
<1>1. IInv => TypeOK
  <2> SUFFICES ASSUME IInv PROVE TypeOK
    OBVIOUS
  <2>1. server \in {"up", "crashed", "killed", "exited"} /\ shared \subseteq Workers
    BY DEF IInv, Typed
  <2>2. ASSUME NEW w \in Workers
        PROVE  /\ fd[w] \in Fds \union {0} /\ commands[w] \in 0 .. MaxCommands[w]
               /\ fd[w] = 0 <=> stage[w] = "away"
               /\ \A v \in Workers \ {w} : fd[w] = fd[v] => fd[w] = 0
               /\ client[w] \in {"prompt", "waiting", "packet", "write", "gzread", "gone"} \union Dead
               /\ client[w] \in {"packet", "write", "gzread"} => stage[w] = "ack"
               /\ sent[w] # NONE <=> client[w] \in {"packet", "write", "gzread"}
               /\ result[w] # NONE /\ stage[w] # "remove" => left[w] <= result[w].size
    <3>1. PlaceAt(w) /\ SentAt(w) /\ ResultAt(w) /\ Typed
      BY DEF IInv, PlaceInv, OutputInv
    <3>2. commands[w] \in 0 .. MaxCommands[w]
      BY <3>1, ResponsesAssumption DEF Typed, PlaceAt
    <3>3. fd[w] \in Fds \union {0} /\ client[w] \in Clients /\ stage[w] \in Stages
      BY <3>1 DEF Typed
    <3>4. client[w] \in Holding => stage[w] = "ack"
      BY <3>1, <3>3 DEF PlaceAt, Dead, Stages, Executing, Sending, Compressing, Holding
    <3>5. sent[w] # NONE <=> client[w] \in Holding
      BY <3>1, ResponsesAssumption DEF SentAt
    <3>6. result[w] # NONE => left[w] <= result[w].size
      <4>1. CASE stage[w] \in Sending
        BY <3>1, <4>1 DEF ResultAt
      <4>2. CASE stage[w] \notin Sending /\ result[w] # NONE
        <5>1. left[w] = 0
          BY <3>1, <4>2 DEF ResultAt
        <5>2. result[w].size \in Nat
          BY <3>1, <4>2, ReadFacts DEF Typed
        <5>3. QED
          BY <5>1, <5>2
      <4>3. QED
        BY <4>1, <4>2
    <3>7. QED
      BY <3>2, <3>3, <3>4, <3>5, <3>6 DEF IInv, FdInv, Clients, Holding, Dead
  <2>3. QED
    BY <2>1, <2>2 DEF TypeOK
<1>2. QED
  BY <1>1, Invariance, PTL

\* The response is what the command's own program wrote, all but the last byte
\* of it, and there is none only when nothing was written, whoever had the
\* descriptor and with it the file names before (server.c:318-375,
\* server_utils.c:19-49).
THEOREM AlwaysOwnOutput == Spec => []OwnOutput
<1>1. IInv => OwnOutput
  BY DEF IInv, OutputInv, ResultAt, Expected, OwnOutput, Due
<1>2. QED
  BY <1>1, Invariance, PTL

\* A temporary file is there only while a command of its descriptor runs
\* (server.c:327-350).
THEOREM NeverLeftovers == Spec => []NoLeftovers
<1>1. IInv => NoLeftovers
  BY DEF IInv
<1>2. QED
  BY <1>1, Invariance, PTL

-----------------------------------------------------------------------------
(* What clients that have their gz files to themselves show.               *)

\* A step of a worker and its client that begins no use of a gz file, and that
\* changes one only if they are in the middle of it.
LEMMA OwnMoves ==
  ASSUME SInv, NEW w \in Workers, \A v \in Workers \ {w} : Same(v), shared' = shared,
         stage'[w] \in Compressing => stage[w] \in Compressing,
         client'[w] \in {"write", "gzread"} => client[w] \in {"write", "gzread"},
         gz' = gz \/ stage[w] \in Compressing,
         received' = received \/ client[w] \in {"write", "gzread"},
         w \notin shared => GzAt(w)' /\ ReceivedAt(w)' /\ ShownAt(w)'
  PROVE  SInv'
<1>1. \A v \in Workers : (v \in Using)' => v \in Using
  BY DEF Using, Compressing, Same
<1>2. \A v \in Workers : (v \in Reading)' => v \in Reading
  BY DEF Reading, Same
<1>3. MeetInv'
  BY <1>1, <1>2 DEF SInv, MeetInv
<1>4. ASSUME NEW v \in Workers \ {w}, v \notin shared
      PROVE  GzAt(v)' /\ ReceivedAt(v)' /\ ShownAt(v)'
  <2>1. GzAt(v) /\ ReceivedAt(v) /\ ShownAt(v)
    BY <1>4 DEF SInv, OwnInv
  <2>2. gz' = gz \/ stage[v] \notin Compressing
    BY <1>4 DEF SInv, MeetInv, Using, Compressing
  <2>3. received' = received \/ client[v] \notin {"write", "gzread"}
    BY <1>4 DEF SInv, MeetInv, Reading
  <2>4. GzAt(v)'
    BY <2>1, <2>2 DEF GzAt, Compressing, Same
  <2>5. ReceivedAt(v)'
    BY <2>1, <2>3 DEF ReceivedAt, Current, Same
  <2>6. ShownAt(v)'
    <3>1. Due(v)' = Due(v) /\ Current(v)' = Current(v) /\ \A n : Response(v, n)' = Response(v, n)
      BY DEF Due, Current, Response, Same
    <3>2. QED
      BY <2>1, <3>1 DEF ShownAt, Same
  <2>7. QED
    BY <2>4, <2>5, <2>6
<1>5. QED
  BY <1>3, <1>4 DEF SInv, OwnInv

\* A worker or a client that begins to use a gz file: others in the middle of it
\* are known from then on, as it is itself.
LEMMA OwnBegins ==
  ASSUME Typed, SInv, NEW w \in Workers, \A v \in Workers \ {w} : Same(v),
         \/ Meets(w, Using) /\ received' = received /\ client'[w] = client[w]
         \/ Meets(w, Reading) /\ gz' = gz /\ stage'[w] = stage[w],
         w \notin shared' => GzAt(w)' /\ ReceivedAt(w)' /\ ShownAt(w)'
  PROVE  SInv'
<1>1. shared \subseteq shared'
  BY DEF Meets
<1>2. ASSUME Meets(w, Using), received' = received, client'[w] = client[w] PROVE MeetInv' /\ OwnInv'
  <2>1. \A v \in Workers \ {w} : v \in Using => v \in shared' /\ w \in shared'
    BY <1>2 DEF Meets
  <2>2. \A v \in Workers : v # w => ((v \in Using)' <=> v \in Using)
    BY DEF Using, Same
  <2>3. \A v \in Workers : (v \in Reading)' <=> v \in Reading
    BY <1>2 DEF Reading, Same
  <2>4. MeetInv'
    BY <1>1, <2>1, <2>2, <2>3 DEF SInv, MeetInv
  <2>5. ASSUME NEW v \in Workers \ {w}, v \notin shared'
        PROVE  GzAt(v)' /\ ReceivedAt(v)' /\ ShownAt(v)'
    <3>1. GzAt(v) /\ ReceivedAt(v) /\ ShownAt(v)
      BY <1>1, <2>5 DEF SInv, OwnInv
    <3>2. stage[v] \notin Compressing
      BY <2>1, <2>5 DEF Using, Compressing
    <3>3. GzAt(v)'
      BY <3>2 DEF GzAt, Compressing, Same
    <3>4. ReceivedAt(v)'
      BY <1>2, <3>1 DEF ReceivedAt, Current, Same
    <3>5. ShownAt(v)'
      BY <3>1 DEF ShownAt, Response, Due, Current, Same
    <3>6. QED
      BY <3>3, <3>4, <3>5
  <2>6. QED
    BY <2>4, <2>5 DEF OwnInv
<1>3. ASSUME Meets(w, Reading), gz' = gz, stage'[w] = stage[w] PROVE MeetInv' /\ OwnInv'
  <2>1. \A v \in Workers \ {w} : v \in Reading => v \in shared' /\ w \in shared'
    BY <1>3 DEF Meets
  <2>2. \A v \in Workers : v # w => ((v \in Reading)' <=> v \in Reading)
    BY DEF Reading, Same
  <2>3. \A v \in Workers : (v \in Using)' <=> v \in Using
    BY <1>3 DEF Using, Same
  <2>4. MeetInv'
    BY <1>1, <2>1, <2>2, <2>3 DEF SInv, MeetInv
  <2>5. ASSUME NEW v \in Workers \ {w}, v \notin shared'
        PROVE  GzAt(v)' /\ ReceivedAt(v)' /\ ShownAt(v)'
    <3>1. GzAt(v) /\ ReceivedAt(v) /\ ShownAt(v)
      BY <1>1, <2>5 DEF SInv, OwnInv
    <3>2. client[v] \notin {"write", "gzread"}
      BY <2>1, <2>5 DEF Reading
    <3>3. GzAt(v)'
      BY <1>3, <3>1 DEF GzAt, Same
    <3>4. ReceivedAt(v)'
      BY <3>2 DEF ReceivedAt, Same
    <3>5. ShownAt(v)'
      BY <3>1 DEF ShownAt, Response, Due, Current, Same
    <3>6. QED
      BY <3>3, <3>4, <3>5
  <2>6. QED
    BY <2>4, <2>5 DEF OwnInv
<1>4. QED
  BY <1>2, <1>3 DEF SInv

\* How much is left is counted down from what is due.
LEMMA DueFacts ==
  ASSUME Typed, NEW w \in Workers, ResultAt(w), stage[w] \in Sending
  PROVE  Due(w) \in Nat /\ left[w] \in Nat /\ left[w] <= Due(w)
<1>1. produced[w] > 0 /\ result[w] = Text(w, produced[w] - 1) /\ produced[w] \in Nat
  BY PacketFacts DEF Typed
<1>2. result[w].size = Due(w) /\ left[w] <= result[w].size
  BY <1>1, TextFacts DEF ResultAt, Due
<1>3. QED
  BY <1>1, <1>2 DEF Due, Typed

\* A response with one packet more.
LEMMA ResponseGrows ==
  ASSUME NEW w, NEW n \in Nat, Due(w) \in Nat
  PROVE  Append(Response(w, n), <<w, commands[w], Due(w) - n>>) = Response(w, n + 1)
<1> DEFINE c == commands[w]
           d == Due(w)
           s == [k \in 1 .. n |-> <<w, c, d + 1 - k>>]
           t == [k \in 1 .. n + 1 |-> <<w, c, d + 1 - k>>]
           T == {<<w, c, k>> : k \in Int}
<1>0. d \in Nat
  OBVIOUS
<1> HIDE DEF c, d
<1>1. s \in Seq(T) /\ Len(s) = n
  BY <1>0
<1>2. t \in Seq(T) /\ Len(t) = n + 1
  <2>1. ASSUME NEW m \in Nat
        PROVE  /\ [k \in 1 .. m |-> <<w, c, d + 1 - k>>] \in Seq(T)
               /\ Len([k \in 1 .. m |-> <<w, c, d + 1 - k>>]) = m
    BY <1>0
  <2>2. n + 1 \in Nat
    OBVIOUS
  <2>3. QED
    BY <2>1, <2>2
<1>3. Append(s, <<w, c, d - n>>) \in Seq(T) /\ Len(Append(s, <<w, c, d - n>>)) = n + 1
  BY <1>0, <1>1
<1>4. ASSUME NEW k \in 1 .. n + 1 PROVE Append(s, <<w, c, d - n>>)[k] = t[k]
  <2>1. CASE k <= n
    BY <1>0, <1>1, <2>1
  <2>2. CASE k = n + 1
    BY <1>0, <1>1, <2>2
  <2>3. QED
    BY <2>1, <2>2
<1>5. Append(s, <<w, c, d - n>>) = t
  BY <1>2, <1>3, <1>4, SeqEqual
<1>6. QED
  BY <1>5 DEF Response, c, d

\* Before the first packet a response is empty.
LEMMA ResponseBegins == ASSUME NEW w PROVE Response(w, 0) = <<>>
  BY DEF Response

\* The steps up to the response: another stage of the same command.
LEMMA ExecutingOwns ==
  ASSUME IInv, SInv, NEW w \in Workers,
         Popen(w) \/ PopenFails(w) \/ Run(w) \/ ReadErr(w) \/ ReadOut(w) \/ Remove(w) \/ Sysinfo(w)
  PROVE  SInv'
<1>1. /\ Typed /\ PlaceAt(w) /\ SentAt(w) /\ ResultAt(w)
      /\ w \notin shared => GzAt(w) /\ ReceivedAt(w) /\ ShownAt(w)
  BY DEF IInv, PlaceInv, OutputInv, SInv, OwnInv
<1>2. /\ stage[w] \in Executing /\ (\E st \in Executing : stage' = [stage EXCEPT ![w] = st])
      /\ \A v \in Workers \ {w} : produced'[v] = produced[v] /\ result'[v] = result[v]
      /\ UNCHANGED <<type, fd, commands, left, gz, file_size, sent, received, client, shown, shared>>
  <2>1. CASE Popen(w)
    BY <1>1, <2>1 DEF Typed, At, Goto, Executing, exec, sending, clients, Popen
  <2>2. CASE PopenFails(w)
    BY <1>1, <2>2 DEF Typed, At, Goto, Executing, exec, sending, clients, PopenFails
  <2>3. CASE Run(w)
    BY <1>1, <2>3 DEF Typed, At, Goto, Executing, exec, sending, clients, Run
  <2>4. CASE ReadErr(w)
    BY <1>1, <2>4 DEF Typed, At, Goto, Executing, exec, sending, clients, ReadErr
  <2>5. CASE ReadOut(w)
    BY <1>1, <2>5 DEF Typed, At, Goto, Executing, exec, sending, clients, ReadOut
  <2>6. CASE Remove(w)
    BY <1>1, <2>6 DEF Typed, At, Goto, Executing, exec, sending, clients, Remove
  <2>7. CASE Sysinfo(w)
    BY <1>1, <2>7 DEF Typed, At, Goto, Executing, exec, sending, clients, Sysinfo
  <2>8. QED
    BY <2>1, <2>2, <2>3, <2>4, <2>5, <2>6, <2>7
<1>3. stage'[w] \in Executing /\ \A v \in Workers \ {w} : stage'[v] = stage[v]
  BY <1>1, <1>2 DEF Typed
<1>4. \A v \in Workers \ {w} : Same(v)
  BY <1>2, <1>3 DEF Same
<1>5. client[w] = "waiting"
  BY <1>1, <1>2 DEF PlaceAt
<1>6. ASSUME w \notin shared PROVE GzAt(w)' /\ ReceivedAt(w)' /\ ShownAt(w)'
  BY <1>1, <1>2, <1>3, <1>5, <1>6 DEF GzAt, ReceivedAt, ShownAt, Executing, Compressing
<1>7. QED
  BY <1>2, <1>3, <1>4, <1>6, OwnMoves DEF Executing, Compressing

\* A worker takes a connection.
LEMMA AcceptOwns == ASSUME IInv, SInv, NEW w \in Workers, Accept(w) PROVE SInv'
<1>1. /\ Typed /\ PlaceAt(w) /\ SentAt(w) /\ ResultAt(w)
      /\ w \notin shared => GzAt(w) /\ ReceivedAt(w) /\ ShownAt(w)
  BY DEF IInv, PlaceInv, OutputInv, SInv, OwnInv
<1>2. stage[w] = "away" /\ commands[w] = 0
  BY DEF At, Accept
<1>3. /\ stage'[w] = "serving"
      /\ UNCHANGED <<type, commands, produced, left, gz, received, client, shown, shared>>
  BY <1>1, <1>2 DEF Typed, Goto, exec, sending, clients, Accept
<1>4. \A v \in Workers \ {w} : Same(v)
  BY <1>1 DEF Typed, Same, Goto, exec, sending, clients, Accept
<1>5. ASSUME w \notin shared PROVE GzAt(w)' /\ ReceivedAt(w)' /\ ShownAt(w)'
  BY <1>1, <1>2, <1>3, <1>5 DEF GzAt, ReceivedAt, ShownAt, PlaceAt, Executing, Compressing
<1>6. QED
  BY <1>1, <1>2, <1>3, <1>4, <1>5, OwnMoves DEF Compressing, PlaceAt

\* A client sends a command.
LEMMA CommandOwns == ASSUME IInv, SInv, NEW w \in Workers, Command(w) PROVE SInv'
<1>1. /\ Typed /\ PlaceAt(w) /\ SentAt(w) /\ ResultAt(w)
      /\ w \notin shared => GzAt(w) /\ ReceivedAt(w) /\ ShownAt(w)
  BY DEF IInv, PlaceInv, OutputInv, SInv, OwnInv
<1>2. stage[w] = "serving" /\ client[w] = "prompt"
  BY DEF At, Command
<1>3. /\ stage'[w] \in Executing /\ client'[w] = "waiting" /\ shown'[w] = <<>>
      /\ UNCHANGED <<gz, received, shared>>
  BY <1>1, <1>2 DEF Typed, Goto, exec, sending, clients, Executing, Command
<1>4. \A v \in Workers \ {w} : Same(v)
  BY <1>1 DEF Typed, Same, Goto, exec, sending, clients, Executing, Command
<1>5. ASSUME w \notin shared PROVE GzAt(w)' /\ ReceivedAt(w)' /\ ShownAt(w)'
  BY <1>1, <1>2, <1>3, <1>5 DEF GzAt, ReceivedAt, ShownAt, Executing, Compressing
<1>6. QED
  BY <1>1, <1>2, <1>3, <1>4, <1>5, OwnMoves DEF Executing, Compressing, PlaceAt

\* A client leaves.
LEMMA LeaveOwns == ASSUME IInv, SInv, NEW w \in Workers, Leave(w) PROVE SInv'
<1>1. /\ Typed /\ PlaceAt(w) /\ SentAt(w) /\ ResultAt(w)
      /\ w \notin shared => GzAt(w) /\ ReceivedAt(w) /\ ShownAt(w)
  BY DEF IInv, PlaceInv, OutputInv, SInv, OwnInv
<1>2. stage[w] = "serving" /\ client[w] \in {"prompt"} \union Dead
  BY DEF At, Leave
<1>3. /\ stage'[w] = "away" /\ client'[w] = "gone"
      /\ UNCHANGED <<gz, received, shared>>
  BY <1>1, <1>2 DEF Typed, Goto, exec, sending, clients, Leave
<1>4. \A v \in Workers \ {w} : Same(v)
  BY <1>1 DEF Typed, Same, Goto, exec, sending, clients, Leave
<1>5. ASSUME w \notin shared PROVE GzAt(w)' /\ ReceivedAt(w)' /\ ShownAt(w)'
  BY <1>1, <1>2, <1>3, <1>5 DEF GzAt, ReceivedAt, ShownAt, Executing, Compressing
<1>6. QED
  BY <1>1, <1>2, <1>3, <1>4, <1>5, OwnMoves DEF Compressing, PlaceAt

\* The gz file is opened.
LEMMA GzOpenOwns == ASSUME IInv, SInv, NEW w \in Workers, GzOpen(w) PROVE SInv'
<1>1. /\ Typed /\ PlaceAt(w) /\ SentAt(w) /\ ResultAt(w)
      /\ w \notin shared => GzAt(w) /\ ReceivedAt(w) /\ ShownAt(w)
  BY DEF IInv, PlaceInv, OutputInv, SInv, OwnInv
<1>2. stage[w] = "create"
  BY DEF At, GzOpen
<1>3. /\ stage'[w] = "compress" /\ gz' = Empty
      /\ UNCHANGED <<type, commands, produced, left, received, client, shown, shared>>
  BY <1>1, <1>2 DEF Typed, Goto, exec, sending, clients, GzOpen
<1>4. \A v \in Workers \ {w} : Same(v)
  BY <1>1 DEF Typed, Same, Goto, exec, sending, clients, GzOpen
<1>5. ASSUME w \notin shared PROVE GzAt(w)' /\ ReceivedAt(w)' /\ ShownAt(w)'
  BY <1>1, <1>2, <1>3, <1>5 DEF GzAt, ReceivedAt, ShownAt, Executing, Compressing, PlaceAt, Response, Due
<1>6. QED
  BY <1>1, <1>2, <1>3, <1>4, <1>5, OwnMoves DEF Compressing, PlaceAt

\* The gz file is written.
LEMMA GzCloseOwns == ASSUME IInv, SInv, NEW w \in Workers, GzClose(w) PROVE SInv'
<1>1. /\ Typed /\ PlaceAt(w) /\ SentAt(w) /\ ResultAt(w)
      /\ w \notin shared => GzAt(w) /\ ReceivedAt(w) /\ ShownAt(w)
  BY DEF IInv, PlaceInv, OutputInv, SInv, OwnInv
<1>2. stage[w] = "compress"
  BY DEF At, GzClose
<1>3. /\ stage'[w] = "open" /\ gz' = Over(gz, Packet(w))
      /\ UNCHANGED <<type, commands, produced, left, received, client, shown, shared>>
  BY <1>1, <1>2 DEF Typed, Goto, exec, sending, clients, GzClose
<1>4. \A v \in Workers \ {w} : Same(v)
  BY <1>1 DEF Typed, Same, Goto, exec, sending, clients, GzClose
<1>5. ASSUME w \notin shared PROVE GzAt(w)' /\ ReceivedAt(w)' /\ ShownAt(w)'
  <2>1. gz = Empty
    BY <1>1, <1>2, <1>5 DEF GzAt
  <2>2. Packet(w) = <<w, commands[w], left[w]>> /\ Packet(w)[1] = w /\ Bulk[w] \in Nat
    BY <1>1, <1>2, PacketFacts DEF Sending, Compressing
  <2>3. Max({0, Bulk[w]}) = Bulk[w]
    BY <2>2, MaxOfTwo
  <2>4. gz' = [of |-> <<w, commands[w], left[w]>>, size |-> Bulk[w]]
    BY <1>3, <2>1, <2>2, <2>3 DEF Over, Empty
  <2>5. QED
    BY <1>1, <1>2, <1>3, <1>5, <2>4 DEF GzAt, ReceivedAt, ShownAt, Executing, Compressing, PlaceAt, Response, Due
<1>6. QED
  BY <1>1, <1>2, <1>3, <1>4, <1>5, OwnMoves DEF Compressing, PlaceAt

\* The gz file is measured.
LEMMA OpenFileOwns == ASSUME IInv, SInv, NEW w \in Workers, OpenFile(w) PROVE SInv'
<1>1. /\ Typed /\ PlaceAt(w) /\ SentAt(w) /\ ResultAt(w)
      /\ w \notin shared => GzAt(w) /\ ReceivedAt(w) /\ ShownAt(w)
  BY DEF IInv, PlaceInv, OutputInv, SInv, OwnInv
<1>2. stage[w] = "open"
  BY DEF At, OpenFile
<1>3. /\ stage'[w] = "read" /\ file_size'[w] = gz.size
      /\ UNCHANGED <<type, commands, produced, left, gz, received, client, shown, shared>>
  BY <1>1, <1>2 DEF Typed, Goto, exec, sending, clients, OpenFile
<1>4. \A v \in Workers \ {w} : Same(v)
  BY <1>1 DEF Typed, Same, Goto, exec, sending, clients, OpenFile
<1>5. ASSUME w \notin shared PROVE GzAt(w)' /\ ReceivedAt(w)' /\ ShownAt(w)'
  BY <1>1, <1>2, <1>3, <1>5 DEF GzAt, ReceivedAt, ShownAt, Executing, Compressing, PlaceAt, Response, Due
<1>6. QED
  BY <1>1, <1>2, <1>3, <1>4, <1>5, OwnMoves DEF Compressing, PlaceAt

\* The response is sent.
LEMMA SentOwns == ASSUME IInv, SInv, NEW w \in Workers, Sent(w) PROVE SInv'
<1>1. /\ Typed /\ PlaceAt(w) /\ SentAt(w) /\ ResultAt(w)
      /\ w \notin shared => GzAt(w) /\ ReceivedAt(w) /\ ShownAt(w)
  BY DEF IInv, PlaceInv, OutputInv, SInv, OwnInv
<1>2. stage[w] = "next" /\ left[w] = 0
  BY DEF At, Sent
<1>3. /\ stage'[w] = "serving" /\ client'[w] = "prompt"
      /\ UNCHANGED <<type, commands, produced, left, gz, received, shown, shared>>
  BY <1>1, <1>2 DEF Typed, Goto, exec, sending, clients, PlaceAt, Sent
<1>4. \A v \in Workers \ {w} : Same(v)
  BY <1>1 DEF Typed, Same, Goto, exec, sending, clients, PlaceAt, Sent
<1>5. ASSUME w \notin shared PROVE GzAt(w)' /\ ReceivedAt(w)' /\ ShownAt(w)'
  <2>1. produced[w] \in Nat /\ Due(w) - 0 = Due(w)
    BY <1>1 DEF Typed, Due
  <2>2. shown[w] = Response(w, Due(w))
    BY <1>1, <1>2, <1>5, <2>1 DEF ShownAt
  <2>3. QED
    BY <1>3, <2>2 DEF GzAt, ReceivedAt, ShownAt, Executing, Compressing, Response, Due
<1>6. QED
  BY <1>1, <1>2, <1>3, <1>4, <1>5, OwnMoves DEF Compressing, PlaceAt

\* A client stores a gz file.
LEMMA StoreOwns == ASSUME IInv, SInv, NEW w \in Workers, Store(w) PROVE SInv'
<1>1. /\ Typed /\ PlaceAt(w) /\ SentAt(w) /\ ResultAt(w)
      /\ w \notin shared => GzAt(w) /\ ReceivedAt(w) /\ ShownAt(w)
  BY DEF IInv, PlaceInv, OutputInv, SInv, OwnInv
<1>2. client[w] = "write"
  BY DEF At, Store
<1>3. /\ client'[w] = "gzread"
      /\ UNCHANGED <<type, stage, commands, produced, left, file_size, gz, sent, shown, shared>>
  BY <1>1, <1>2 DEF Typed, Goto, exec, sending, clients, Store
<1>4. \A v \in Workers \ {w} : Same(v)
  BY <1>1 DEF Typed, Same, Goto, exec, sending, clients, Store
<1>5. ASSUME w \notin shared PROVE GzAt(w)' /\ ReceivedAt(w)' /\ ShownAt(w)'
  <2>1. stage[w] = "ack" /\ type[w] = "B"
    <3>1. stage[w] \in Stages
      BY <1>1 DEF Typed
    <3>2. QED
      BY <1>1, <1>2, <3>1 DEF PlaceAt, Dead, Stages, Executing, Sending, Compressing
  <2>2. received = Empty /\ sent[w] = [of |-> Current(w), size |-> Bulk[w], json |-> Bulk[w]]
    BY <1>1, <1>2, <1>5, <2>1 DEF ReceivedAt, ShownAt
  <2>3. Current(w) # NONE /\ Current(w)[1] = w /\ Bulk[w] \in Nat
    BY <1>1, ResponsesAssumption DEF Typed, Current, Packets
  <2>4. Max({0, Bulk[w]}) = Bulk[w] /\ ~ (Bulk[w] < Bulk[w])
    BY <2>3, MaxOfTwo
  <2>5. received' = [of |-> Current(w), size |-> Bulk[w]]
    BY <2>2, <2>3, <2>4 DEF Store, Empty
  <2>6. GzAt(w)' /\ ReceivedAt(w)'
    BY <1>3, <2>1, <2>5 DEF GzAt, ReceivedAt, Current, Compressing
  <2>7. ShownAt(w)'
    <3>1. Due(w)' = Due(w) /\ Current(w)' = Current(w) /\ \A n : Response(w, n)' = Response(w, n)
      BY <1>3 DEF Due, Current, Response
    <3>2. left[w] < Due(w) /\ shown[w] = Response(w, Due(w) - left[w] - 1)
      BY <1>1, <1>2, <1>5, <2>1 DEF ShownAt
    <3>3. QED
      BY <1>3, <2>1, <2>2, <3>1, <3>2 DEF ShownAt, Executing, Compressing
  <2>8. QED
    BY <2>6, <2>7
<1>6. QED
  BY <1>1, <1>2, <1>3, <1>4, <1>5, OwnMoves DEF Compressing, PlaceAt

\* The sending begins, or has nothing to send.
LEMMA RespondOwns == ASSUME IInv, SInv, NEW w \in Workers, Respond(w) PROVE SInv'
<1>1. /\ Typed /\ PlaceAt(w) /\ SentAt(w) /\ ResultAt(w)
      /\ w \notin shared => GzAt(w) /\ ReceivedAt(w) /\ ShownAt(w)
  BY DEF IInv, PlaceInv, OutputInv, SInv, OwnInv
<1>2. stage[w] = "respond"
  BY DEF At, Respond
<1>3. CASE result[w] = NONE
  <2>1. UNCHANGED <<type, stage, exec, result, left, gz, file_size, clients, shared>>
    BY <1>3 DEF Respond
  <2>2. \A v \in Workers : Same(v)
    BY <2>1 DEF Same, exec, clients
  <2>3. w \notin shared => GzAt(w)' /\ ReceivedAt(w)' /\ ShownAt(w)'
    BY <1>1, <1>2, <2>1, <2>2 DEF GzAt, ReceivedAt, ShownAt, PlaceAt, Executing, Compressing, clients, Same
  <2>4. QED
    BY <2>1, <2>2, <2>3, OwnMoves DEF clients
<1>4. CASE result[w] # NONE
  <2>1. /\ stage'[w] = "next" /\ left'[w] = result[w].size
        /\ UNCHANGED <<type, commands, produced, gz, received, client, shown, shared>>
    BY <1>1, <1>4 DEF Typed, Goto, exec, clients, Respond
  <2>2. \A v \in Workers \ {w} : Same(v)
    BY <1>1, <1>4 DEF Typed, Same, Goto, exec, clients, Respond
  <2>3. ASSUME w \notin shared PROVE GzAt(w)' /\ ReceivedAt(w)' /\ ShownAt(w)'
    <3>1. result[w].size = Due(w) /\ Due(w) \in Nat
      <4>1. produced[w] \in Nat /\ produced[w] > 0 /\ result[w] = Text(w, produced[w] - 1)
        BY <1>1, <1>2, <1>4 DEF Typed, ResultAt, Expected
      <4>2. QED
        BY <4>1, TextFacts DEF Due
    <3>2. Due(w)' - left'[w] = 0
      BY <2>1, <3>1 DEF Due
    <3>3. shown'[w] = Response(w, 0)'
      BY <1>1, <1>2, <2>1, <2>3, ResponseBegins DEF ShownAt, Executing, Response
    <3>4. client'[w] = "waiting"
      BY <1>1, <1>2, <2>1 DEF PlaceAt, Executing
    <3>5. QED
      BY <2>1, <3>2, <3>3, <3>4 DEF GzAt, ReceivedAt, ShownAt, Executing, Compressing
  <2>4. QED
    BY <1>1, <1>2, <2>1, <2>2, <2>3, OwnMoves DEF Compressing
<1>5. QED
  BY <1>3, <1>4

\* The client has died: it had met others, or left by an exit of its own.
LEMMA LoseClientOwns == ASSUME IInv, SInv, NEW w \in Workers, LoseClient(w) PROVE SInv'
<1>1. /\ Typed /\ PlaceAt(w) /\ SentAt(w) /\ ResultAt(w)
      /\ w \notin shared => GzAt(w) /\ ReceivedAt(w) /\ ShownAt(w)
  BY DEF IInv, PlaceInv, OutputInv, SInv, OwnInv
<1>2. client[w] \in {"crashed", "exited"} /\ UNCHANGED <<gz, received, client, shared>>
  BY DEF clients, Dead, LoseClient
<1>3. stage'[w] = "serving" \/ stage' = stage
  BY <1>1 DEF Typed, Goto, LoseClient
<1>4. \A v \in Workers \ {w} : Same(v)
  BY <1>1 DEF Typed, Same, Goto, exec, clients, LoseClient
<1>5. ASSUME w \notin shared PROVE GzAt(w)' /\ ReceivedAt(w)' /\ ShownAt(w)'
  <2>1. client[w] = "exited" /\ client'[w] = "exited"
    BY <1>1, <1>2, <1>5 DEF ShownAt
  <2>2. stage'[w] \in {"serving", "ack"}
    BY <1>3 DEF At, LoseClient
  <2>3. QED
    BY <2>1, <2>2 DEF GzAt, ReceivedAt, ShownAt, Executing, Compressing
<1>6. QED
  BY <1>2, <1>3, <1>4, <1>5, OwnMoves DEF Compressing

\* A packet is sent as it is.
LEMMA SendRawOwns == ASSUME IInv, SInv, NEW w \in Workers, SendRaw(w) PROVE SInv'
<1>1. /\ Typed /\ PlaceAt(w) /\ SentAt(w) /\ ResultAt(w)
      /\ w \notin shared => GzAt(w) /\ ReceivedAt(w) /\ ShownAt(w)
  BY DEF IInv, PlaceInv, OutputInv, SInv, OwnInv
<1>2. stage[w] = "next" /\ left[w] > 0 /\ type[w] # "B"
  BY DEF At, SendRaw
<1>3. /\ stage'[w] = "ack" /\ client'[w] = "packet" /\ left'[w] = left[w] - 1 /\ sent'[w] = Packet(w)
      /\ UNCHANGED <<type, commands, produced, gz, received, shown, shared>>
  BY <1>1, <1>2 DEF Typed, Goto, exec, SendPacket, CountDown, SendRaw
<1>4. \A v \in Workers \ {w} : Same(v)
  BY <1>1 DEF Typed, Same, Goto, exec, SendPacket, CountDown, SendRaw
<1>5. ASSUME w \notin shared PROVE GzAt(w)' /\ ReceivedAt(w)' /\ ShownAt(w)'
  <2>1. Packet(w) = <<w, commands[w], left[w]>> /\ left[w] \in Nat
    BY <1>1, <1>2, PacketFacts DEF Sending, Typed
  <2>2. Due(w) \in Nat /\ left[w] <= Due(w)
    BY <1>1, <1>2, DueFacts DEF Sending
  <2>3. PICK n \in Nat : n = Due(w) - left[w]
    BY <2>1, <2>2
  <2>4. shown[w] = Response(w, n)
    BY <1>1, <1>2, <1>5, <2>3 DEF ShownAt
  <2>5. shown'[w] = Response(w, n)' /\ Due(w)' = Due(w)
    BY <1>3, <2>4 DEF Response, Due
  <2>6. left'[w] < Due(w)' /\ Due(w)' - left'[w] - 1 = n /\ left'[w] + 1 = left[w]
    <3>1. Due(w) \in Nat /\ left'[w] = left[w] - 1
      BY <1>3, <2>2
    <3>2. QED
      BY <1>2, <2>1, <2>2, <2>3, <2>5, <3>1
  <2>7. sent'[w] = Current(w)' /\ type'[w] # "B"
    BY <1>2, <1>3, <2>1, <2>6 DEF Current
  <2>8. QED
    BY <1>3, <2>5, <2>6, <2>7 DEF GzAt, ReceivedAt, ShownAt, Executing, Compressing
<1>6. QED
  BY <1>1, <1>2, <1>3, <1>4, <1>5, OwnMoves DEF Compressing, PlaceAt

\* The gz file is read and sent.
LEMMA ReadFileAndSendOwns == ASSUME IInv, SInv, NEW w \in Workers, ReadFileAndSend(w) PROVE SInv'
<1>1. /\ Typed /\ PlaceAt(w) /\ SentAt(w) /\ ResultAt(w)
      /\ w \notin shared => GzAt(w) /\ ReceivedAt(w) /\ ShownAt(w)
  BY DEF IInv, PlaceInv, OutputInv, SInv, OwnInv
<1>2. stage[w] = "read" /\ left[w] > 0 /\ type[w] = "B"
  BY <1>1 DEF At, PlaceAt, ResultAt, Compressing, ReadFileAndSend
<1>3. /\ stage'[w] = "ack" /\ client'[w] = "packet" /\ left'[w] = left[w] - 1
      /\ sent'[w] = [of |-> gz.of, size |-> Min({file_size[w], gz.size}), json |-> Bulk[result[w].by]]
      /\ UNCHANGED <<type, commands, produced, gz, received, shown, shared>>
  BY <1>1, <1>2 DEF Typed, Goto, exec, SendPacket, CountDown, ReadFileAndSend
<1>4. \A v \in Workers \ {w} : Same(v)
  BY <1>1 DEF Typed, Same, Goto, exec, SendPacket, CountDown, ReadFileAndSend
<1>5. ASSUME w \notin shared PROVE GzAt(w)' /\ ReceivedAt(w)' /\ ShownAt(w)'
  <2>1. result[w].by = w /\ Bulk[w] \in Nat
    BY <1>1, <1>2, PacketFacts DEF Sending, Compressing
  <2>2. Due(w) \in Nat /\ left[w] \in Nat /\ left[w] <= Due(w)
    BY <1>1, <1>2, DueFacts DEF Sending, Compressing
  <2>3. PICK n \in Nat : n = Due(w) - left[w]
    BY <2>2
  <2>4. shown[w] = Response(w, n)
    BY <1>1, <1>2, <1>5, <2>3 DEF ShownAt, Compressing
  <2>5. shown'[w] = Response(w, n)' /\ Due(w)' = Due(w)
    BY <1>3, <2>4 DEF Response, Due
  <2>6. left'[w] < Due(w)' /\ Due(w)' - left'[w] - 1 = n /\ left'[w] + 1 = left[w]
    <3>1. left'[w] = left[w] - 1
      BY <1>3
    <3>2. QED
      BY <1>2, <2>2, <2>3, <2>5, <3>1
  <2>7. sent'[w] = [of |-> Current(w)', size |-> Bulk[w], json |-> Bulk[w]]
    <3>1. gz = [of |-> <<w, commands[w], left[w]>>, size |-> Bulk[w]] /\ file_size[w] = Bulk[w]
      BY <1>1, <1>2, <1>5 DEF GzAt
    <3>2. Min({Bulk[w], Bulk[w]}) = Bulk[w]
      BY <2>1, MaxOfTwo
    <3>3. Current(w)' = <<w, commands[w], left[w]>>
      BY <1>3, <2>6 DEF Current
    <3>4. QED
      BY <1>3, <2>1, <3>1, <3>2, <3>3
  <2>8. type'[w] = "B"
    BY <1>2, <1>3
  <2>9. QED
    BY <1>3, <2>5, <2>6, <2>7, <2>8 DEF GzAt, ReceivedAt, ShownAt, Executing, Compressing
<1>6. QED
  BY <1>1, <1>2, <1>3, <1>4, <1>5, OwnMoves DEF Compressing, PlaceAt

\* The gz file is created.
LEMMA CreateFileOwns == ASSUME IInv, SInv, NEW w \in Workers, CreateFile(w) PROVE SInv'
<1>1. /\ Typed /\ PlaceAt(w) /\ SentAt(w) /\ ResultAt(w)
      /\ w \notin shared => GzAt(w) /\ ReceivedAt(w) /\ ShownAt(w)
  BY DEF IInv, PlaceInv, OutputInv, SInv, OwnInv
<1>2. stage[w] = "next" /\ Meets(w, Using)
  BY DEF At, CreateFile
<1>3. /\ stage'[w] = "create" /\ gz' = Empty
      /\ UNCHANGED <<type, commands, produced, left, received, sent, client, shown>>
  BY <1>1 DEF Typed, Goto, exec, clients, CreateFile
<1>4. \A v \in Workers \ {w} : Same(v)
  BY <1>1 DEF Typed, Same, Goto, exec, clients, CreateFile
<1>5. ASSUME w \notin shared' PROVE GzAt(w)' /\ ReceivedAt(w)' /\ ShownAt(w)'
  <2>1. w \notin shared
    BY <1>2, <1>5 DEF Meets
  <2>2. client[w] = "waiting"
    BY <1>1, <1>2 DEF PlaceAt
  <2>3. QED
    BY <1>1, <1>2, <1>3, <2>1, <2>2 DEF GzAt, ReceivedAt, ShownAt, Executing, Compressing, Response, Due
<1>6. QED
  BY <1>1, <1>2, <1>3, <1>4, <1>5, OwnBegins

\* A client takes a gz file.
LEMMA ReceiveOwns == ASSUME IInv, SInv, NEW w \in Workers, Receive(w) PROVE SInv'
<1>1. /\ Typed /\ PlaceAt(w) /\ SentAt(w) /\ ResultAt(w)
      /\ w \notin shared => GzAt(w) /\ ReceivedAt(w) /\ ShownAt(w)
  BY DEF IInv, PlaceInv, OutputInv, SInv, OwnInv
<1>2. stage[w] = "ack" /\ client[w] = "packet" /\ Meets(w, Reading)
  BY DEF At, Receive
<1>3. /\ client'[w] = "write" /\ received' = Empty
      /\ UNCHANGED <<type, stage, commands, produced, left, gz, sent, shown>>
  BY <1>1 DEF Typed, exec, sending, Receive
<1>4. \A v \in Workers \ {w} : Same(v)
  BY <1>1 DEF Typed, Same, exec, sending, Receive
<1>5. ASSUME w \notin shared' PROVE GzAt(w)' /\ ReceivedAt(w)' /\ ShownAt(w)'
  <2>1. w \notin shared
    BY <1>2, <1>5 DEF Meets
  <2>2. QED
    BY <1>1, <1>2, <1>3, <2>1 DEF GzAt, ReceivedAt, ShownAt, Executing, Compressing, Response, Due, Current
<1>6. QED
  BY <1>1, <1>2, <1>3, <1>4, <1>5, OwnBegins

\* A client that has its gz file to itself unpacks the packet that is under way.
LEMMA UnformatOwns ==
  ASSUME IInv, SInv, NEW w \in Workers, NEW packet \in Packets \union {NONE}, Unformat(w, packet),
         stage[w] = "ack", client[w] \in Holding, w \notin shared => packet = Current(w),
         sent' = [sent EXCEPT ![w] = NONE], UNCHANGED <<type, server, exec, sending, received, shared>>
  PROVE  SInv'
<1>1. /\ Typed /\ PlaceAt(w) /\ SentAt(w) /\ ResultAt(w)
      /\ w \notin shared => GzAt(w) /\ ReceivedAt(w) /\ ShownAt(w)
  BY DEF IInv, PlaceInv, OutputInv, SInv, OwnInv
<1>2. UNCHANGED <<type, commands, produced, left, gz, file_size, received, shared>>
  BY DEF exec, sending
<1>3. /\ stage'[w] \in {"ack", "next"} /\ client'[w] \in {"crashed", "waiting"}
      /\ \A v \in Workers \ {w} : Same(v)
  <2>1. CASE packet = NONE
    <3>1. UNCHANGED <<shown, stage>> /\ client' = [client EXCEPT ![w] = "crashed"]
      BY <2>1 DEF Unformat
    <3>2. QED
      BY <1>1, <3>1 DEF Typed, Same, exec, sending
  <2>2. CASE packet # NONE
    <3>1. /\ shown' = [shown EXCEPT ![w] = Append(shown[w], packet)]
          /\ stage' = [stage EXCEPT ![w] = "next"] /\ client' = [client EXCEPT ![w] = "waiting"]
      BY <2>2 DEF Unformat, Goto
    <3>2. QED
      BY <1>1, <3>1 DEF Typed, Same, exec, sending
  <2>3. QED
    BY <2>1, <2>2
<1>4. ASSUME w \notin shared PROVE GzAt(w)' /\ ReceivedAt(w)' /\ ShownAt(w)'
  <2>1. Due(w) \in Nat /\ left[w] \in Nat /\ commands[w] \in Nat
    BY <1>1, DueFacts DEF Sending, Typed
  <2>2. left[w] < Due(w) /\ shown[w] = Response(w, Due(w) - left[w] - 1)
    BY <1>1, <1>4 DEF ShownAt, Holding
  <2>3. PICK n \in Nat : n = Due(w) - left[w] - 1
    BY <2>1, <2>2
  <2>4. Current(w) = <<w, commands[w], Due(w) - n>> /\ Current(w) # NONE
    BY <2>1, <2>3, ResponsesAssumption DEF Current, Packets
  <2>5. /\ shown' = [shown EXCEPT ![w] = Append(shown[w], Current(w))]
        /\ stage' = [stage EXCEPT ![w] = "next"] /\ client' = [client EXCEPT ![w] = "waiting"]
    BY <1>4, <2>4 DEF Unformat, Goto
  <2>6. shown'[w] = Append(shown[w], Current(w)) /\ stage'[w] = "next" /\ client'[w] = "waiting"
    BY <1>1, <2>5 DEF Typed
  <2>7. shown'[w] = Response(w, n + 1)
    <3>1. shown[w] = Response(w, n)
      BY <2>2, <2>3
    <3>2. QED
      BY <2>1, <2>4, <2>6, <3>1, ResponseGrows
  <2>8. n + 1 = Due(w)' - left'[w] /\ shown'[w] = Response(w, n + 1)'
    BY <1>2, <2>1, <2>3, <2>7 DEF Response, Due
  <2>9. QED
    BY <2>6, <2>8 DEF GzAt, ReceivedAt, ShownAt, Executing, Compressing
<1>5. QED
  BY <1>2, <1>3, <1>4, OwnMoves DEF Compressing

\* A client takes a packet that came as it is.
LEMMA ReceiveRawOwns == ASSUME IInv, SInv, NEW w \in Workers, ReceiveRaw(w) PROVE SInv'
<1>1. stage[w] = "ack" /\ client[w] = "packet" /\ type[w] # "B"
  BY DEF At, ReceiveRaw
<1>2. sent[w] \in Packets
  BY <1>1 DEF IInv, PlaceInv, SentAt, Holding
<1>3. w \notin shared => sent[w] = Current(w)
  BY <1>1 DEF SInv, OwnInv, ShownAt
<1>4. QED
  BY <1>1, <1>2, <1>3, UnformatOwns DEF Holding, ReceiveRaw

\* A client reads a gz file.
LEMMA GzReadOwns == ASSUME IInv, SInv, NEW w \in Workers, GzRead(w) PROVE SInv'
<1>1. PlaceAt(w) /\ SentAt(w) /\ client[w] = "gzread" /\ type \in [Workers -> {"A", "B", "C"}] /\ stage[w] \in Stages
  BY DEF IInv, PlaceInv, Typed, GzRead
<1>2. stage[w] = "ack" /\ type[w] = "B" /\ sent[w] \in Compressed
  BY <1>1 DEF PlaceAt, Dead, SentAt, Executing, Sending, Compressing, Holding, Stages
<1>3. received.of \in Packets \union {NONE} /\ received.size \in Nat /\ sent[w].json \in Nat
  BY <1>2 DEF IInv, Typed, Zipped, Compressed
<1>4. Parsed(received.of, Min({received.size, sent[w].json})) \in Packets \union {NONE}
  BY <1>3, MaxOfTwo, ParsedFacts
<1>5. ASSUME w \notin shared
      PROVE  Parsed(received.of, Min({received.size, sent[w].json})) = Current(w)
  <2>1. received = [of |-> Current(w), size |-> Bulk[w]] /\ sent[w].json = Bulk[w]
    <3>1. ReceivedAt(w) /\ ShownAt(w)
      BY <1>5 DEF SInv, OwnInv
    <3>2. sent[w] = [of |-> Current(w), size |-> Bulk[w], json |-> Bulk[w]]
      BY <1>1, <1>2, <3>1 DEF ShownAt
    <3>3. QED
      BY <1>1, <3>1, <3>2 DEF ReceivedAt
  <2>2. Bulk[w] \in Nat /\ Min({Bulk[w], Bulk[w]}) = Bulk[w] /\ ~ (Bulk[w] < Bulk[w])
    <3>1. Bulk[w] \in Nat
      BY ResponsesAssumption
    <3>2. QED
      <4>1. Min({Bulk[w], Bulk[w]}) = Bulk[w]
        BY <3>1, MaxOfTwo
      <4>2. QED
        BY <3>1, <4>1
  <2>3. Current(w) # NONE /\ Current(w)[1] = w
    BY ResponsesAssumption DEF IInv, Typed, Current, Packets
  <2>4. QED
    BY <2>1, <2>2, <2>3 DEF Parsed
<1>6. QED
  BY <1>1, <1>2, <1>4, <1>5, UnformatOwns DEF Holding, GzRead

\* A call of a worker fails.
LEMMA ExitOwns == ASSUME IInv, SInv, NEW w \in Workers, Exit(w) PROVE SInv'
<1>1. UNCHANGED <<type, stage, fd, commands, files, produced, result, left, gz, file_size, sent,
                  received, client, shown, shared>>
  BY DEF Exit, exec, sending, clients
<1>2. MeetInv'
  BY <1>1 DEF SInv, MeetInv, Using, Reading
<1>3. ASSUME NEW v \in Workers, v \notin shared PROVE GzAt(v)' /\ ReceivedAt(v)' /\ ShownAt(v)'
  <2>1. GzAt(v) /\ ReceivedAt(v) /\ ShownAt(v)
    BY <1>3 DEF SInv, OwnInv
  <2>2. GzAt(v)' /\ ReceivedAt(v)'
    BY <1>1, <2>1 DEF GzAt, ReceivedAt, Current
  <2>3. ShownAt(v)'
    BY <1>1, <2>1 DEF ShownAt, Current, Response, Due
  <2>4. QED
    BY <2>2, <2>3
<1>4. QED
  BY <1>1, <1>2, <1>3 DEF SInv, OwnInv

\* A client cannot open its gz file.
LEMMA ClientExitOwns == ASSUME IInv, SInv, NEW w \in Workers, ClientExit(w) PROVE SInv'
<1>1. Typed /\ PlaceAt(w) /\ (w \notin shared => GzAt(w) /\ ReceivedAt(w) /\ ShownAt(w))
  BY DEF IInv, PlaceInv, SInv, OwnInv
<1>2. stage[w] = "ack"
  <2>1. client[w] \in Holding /\ stage[w] \in Stages
    BY <1>1 DEF Typed, Holding, ClientExit
  <2>2. QED
    BY <1>1, <2>1 DEF PlaceAt, Dead, Stages, Executing, Sending, Compressing, Holding
<1>3. client'[w] = "exited" /\ stage' = stage /\ UNCHANGED <<gz, received, shared>>
  BY <1>1 DEF Typed, sending, ClientExit
<1>4. \A v \in Workers \ {w} : Same(v)
  BY <1>1 DEF Typed, Same, exec, sending, ClientExit
<1>5. ASSUME w \notin shared PROVE GzAt(w)' /\ ReceivedAt(w)' /\ ShownAt(w)'
  BY <1>2, <1>3 DEF GzAt, ReceivedAt, ShownAt, Executing, Compressing
<1>6. QED
  BY <1>2, <1>3, <1>4, <1>5, OwnMoves DEF Compressing

\* The initial state.
LEMMA InitSInv == Init => SInv
  BY DEF Init, SInv, MeetInv, OwnInv, GzAt, ReceivedAt, ShownAt, Using, Reading, Executing, Compressing

\* Nothing happens.
LEMMA StillOwns == ASSUME SInv, UNCHANGED vars PROVE SInv'
<1>1. UNCHANGED <<type, server, stage, fd, commands, files, produced, result, left, gz, file_size, sent,
                  received, client, shown, shared>>
  BY DEF vars, exec, sending, clients
<1>2. MeetInv'
  BY <1>1 DEF SInv, MeetInv, Using, Reading
<1>3. ASSUME NEW w \in Workers, w \notin shared PROVE GzAt(w)' /\ ReceivedAt(w)' /\ ShownAt(w)'
  <2>1. GzAt(w) /\ ReceivedAt(w) /\ ShownAt(w)
    BY <1>3 DEF SInv, OwnInv
  <2>2. GzAt(w)'
    BY <1>1, <2>1 DEF GzAt
  <2>3. ReceivedAt(w)'
    BY <1>1, <2>1 DEF ReceivedAt, Current
  <2>4. ShownAt(w)'
    BY <1>1, <2>1 DEF ShownAt, Current, Response, Due
  <2>5. QED
    BY <2>2, <2>3, <2>4
<1>4. QED
  BY <1>1, <1>2, <1>3 DEF SInv, OwnInv

\* Every step.
LEMMA StepSInv == IInv /\ SInv /\ [Next]_vars => SInv'
<1> SUFFICES ASSUME IInv, SInv, [Next]_vars PROVE SInv'
  OBVIOUS
<1>1. CASE \E w \in Workers : Accept(w) \/ Command(w) \/ Leave(w)
  BY <1>1, AcceptOwns, CommandOwns, LeaveOwns
<1>2. CASE \E w \in Workers : Worker(w)
  BY <1>2, ExecutingOwns, RespondOwns, SendRawOwns, CreateFileOwns, GzOpenOwns, GzCloseOwns, OpenFileOwns,
     ReadFileAndSendOwns, SentOwns, ExitOwns, LoseClientOwns DEF Worker
<1>3. CASE \E w \in Workers : Client(w)
  BY <1>3, ReceiveRawOwns, ReceiveOwns, StoreOwns, GzReadOwns, ClientExitOwns DEF Client
<1>4. CASE UNCHANGED vars
  BY <1>4, StillOwns
<1>5. QED
  BY <1>1, <1>2, <1>3, <1>4 DEF Next, Stopped

\* A client that has its gz file to itself, and whose worker has, shows the
\* response to its last command, every packet once and in order, and does not
\* crash (middle.c:72-86, 208-226, 304-322).
THEOREM AlwaysShowsOwn == Spec => []ShowsOwn
<1>1. Init => SInv
  BY InitSInv
<1>2. IInv /\ SInv => ShowsOwn
  <2> SUFFICES ASSUME IInv, SInv, NEW w \in Workers \ shared
               PROVE  /\ client[w] # "crashed"
                      /\ client[w] = "prompt" /\ commands[w] > 0 =>
                           shown[w] = [k \in 1 .. Due(w) |-> <<w, commands[w], Due(w) + 1 - k>>]
    BY DEF ShowsOwn
  <2>1. ShownAt(w) /\ PlaceAt(w) /\ stage[w] \in Stages
    BY DEF IInv, Typed, PlaceInv, SInv, OwnInv
  <2>2. CASE client[w] = "prompt" /\ commands[w] > 0
    <3>1. stage[w] \in {"away", "serving"}
      BY <2>1, <2>2 DEF PlaceAt, Dead, Stages, Executing, Sending, Compressing, Holding
    <3>2. stage[w] # "away"
      BY <2>1, <2>2 DEF ShownAt
    <3>3. QED
      BY <2>1, <2>2, <3>1, <3>2 DEF ShownAt, Response
  <2>3. QED
    BY <2>1, <2>2 DEF ShownAt
<1>3. QED
  BY <1>1, <1>2, Invariance, StepSInv, PTL DEF Spec

=============================================================================
