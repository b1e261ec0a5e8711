---------------------------- MODULE SessionProofs ----------------------------
(***************************************************************************)
(* Theorems about Session, for any number of commands and any size of a    *)
(* checksum_status: the types, that only one thread of the client talks at *)
(* a time, and that the answers come in the order of the commands.         *)
(***************************************************************************)
EXTENDS Session, SequenceTheorems, FiniteSetTheorems, TLAPS

\* How many units the worker has sent for the command it serves, and the kind
\* of each.
Produced ==
  IF wpc = "notice" THEN StatusBytes
  ELSE IF wpc = "num" THEN StatusBytes + 1
  ELSE IF wpc = "body" THEN StatusBytes + 2
  ELSE StatusBytes + 3

\* The kinds of a response, byte by byte of a status and unit by unit after it.
KindAt(k) ==
  IF k <= StatusBytes THEN "ack"
  ELSE IF k = StatusBytes + 1 THEN "notice"
  ELSE IF k = StatusBytes + 2 THEN "num"
  ELSE "body"

\* How many of them the client has taken.
Consumed == Produced - Len(toClient)

\* What is on its way to the client is the last of what was sent for the last
\* command.
StreamInv ==
  /\ Len(toClient) <= Produced
  /\ toClient # <<>> => serving = sent /\ sent > 0
  /\ \A k \in DOMAIN toClient : toClient[k] = Unit(KindAt(Consumed + k), serving)

\* Who has the turn.
TurnInv ==
  /\ rpc \in {"num", "body", "printed"} => client_status_f = "RECEIVING"
  /\ client_status_f = "RECEIVING" => mpc \in {"loop", "exited"}
  /\ mpc = "send" => sent < MaxCommands

\* The last command is answered, and the worker has the acknowledgement or will
\* find it before anything else.
Idle ==
  /\ serving = sent
  /\ \/ wpc = "select" /\ toServer = <<>>
     \/ wpc = "ack" /\ toServer = <<Unit("ack", sent)>> /\ sent > 0

\* The worker serves the last command, or has that command before it.
Busy ==
  \/ serving = sent /\ wpc # "select" /\ toServer = <<>> /\ sent > 0
  \/ /\ serving = sent - 1 /\ sent > 0
     /\ \/ wpc = "select" /\ toServer = <<Unit("command", sent)>>
        \/ wpc = "ack" /\ toServer = <<Unit("ack", serving), Unit("command", sent)>> /\ serving > 0

\* The client waits for an answer.
Waiting == mpc \in {"ack", "acked"} \/ (client_status_f = "RECEIVING" /\ rpc # "printed")

\* A command and its answer: both are on their way, or nothing is.
CallInv ==
  /\ ~closed => Idle \/ Busy
  /\ Running =>
       IF Waiting THEN Len(printed) = sent - 1 /\ (~closed => Busy)
                  ELSE Len(printed) = sent /\ toClient = <<>> /\ (~closed => Idle)
  /\ Running /\ rpc = "body" => Consumed = StatusBytes + 2

\* The inductive invariant.
IInv == TypeOK /\ StreamInv /\ TurnInv /\ CallInv /\ AnswersInOrder

\* The units that travel to the server.
ToServer == [kind : {"command", "ack"}, command : 1 .. MaxCommands]

\* The units that travel to the client.
ToClient == [kind : {"ack", "notice", "num", "body"}, command : 1 .. MaxCommands]

-----------------------------------------------------------------------------

\* The numbers that the other lemmas count with.
LEMMA Counts ==
  ASSUME IInv
  PROVE  /\ StatusBytes \in Nat \ {0} /\ MaxCommands \in Nat /\ sent \in Nat /\ serving \in Nat
         /\ Len(toClient) \in Nat /\ Produced \in Nat /\ Consumed \in Nat
         /\ Produced <= StatusBytes + 3 /\ Consumed + Len(toClient) = Produced
         /\ toClient \in Seq(ToClient) /\ DOMAIN toClient = 1 .. Len(toClient)
         /\ (toClient = <<>> <=> Len(toClient) = 0)
<1>1. StatusBytes \in Nat \ {0} /\ MaxCommands \in Nat /\ sent \in Nat /\ serving \in Nat
  BY SessionAssumption DEF IInv, TypeOK
<1>2. toClient \in Seq(ToClient) /\ Len(toClient) \in Nat
  BY DEF IInv, TypeOK, ToClient
<1>3. Produced \in Nat /\ Produced <= StatusBytes + 3
  BY <1>1 DEF Produced
<1>4. Consumed \in Nat /\ Consumed + Len(toClient) = Produced
  BY <1>2, <1>3 DEF IInv, StreamInv, Consumed
<1>5. QED
  BY <1>1, <1>2, <1>3, <1>4

\* Singles counts some of the units there are.
LEMMA SinglesFacts ==
  ASSUME IInv, NEW n \in Nat
  PROVE  Singles(n) \in 0 .. Len(toClient)
<1> DEFINE S == {k \in 1 .. n : k <= Len(toClient)
                                 /\ \A j \in 1 .. k : toClient[j].kind \in SingleByte}
<1>1. Len(toClient) \in Nat
  BY Counts
<1>2. S \subseteq 1 .. Len(toClient)
  BY <1>1
<1>3. IsFiniteSet(1 .. Len(toClient)) /\ Cardinality(1 .. Len(toClient)) = Len(toClient)
  BY <1>1, FS_Interval
<1>4. IsFiniteSet(S) /\ Cardinality(S) <= Cardinality(1 .. Len(toClient))
  BY <1>2, <1>3, FS_Subset
<1>5. Cardinality(S) \in Nat
  BY <1>4, FS_CardinalityType
<1>6. Singles(n) = Cardinality(S)
  BY DEF Singles
<1>7. QED
  BY <1>1, <1>3, <1>4, <1>5, <1>6

\* The connection without its first n units.
Drops(n) ==
  /\ toClient' \in Seq(ToClient) /\ Len(toClient') = Len(toClient) - n
  /\ \A k \in 1 .. Len(toClient') : toClient'[k] = toClient[n + k]

\* A recv that takes the first n of a sequence leaves the others.
LEMMA Rest ==
  ASSUME NEW S, NEW s \in Seq(S), NEW n \in 0 .. Len(s)
  PROVE  /\ SubSeq(s, n + 1, Len(s)) \in Seq(S) /\ Len(SubSeq(s, n + 1, Len(s))) = Len(s) - n
         /\ \A k \in 1 .. (Len(s) - n) : SubSeq(s, n + 1, Len(s))[k] = s[n + k]
<1> DEFINE t == SubSeq(s, n + 1, Len(s))
<1>1. n + 1 \in Int /\ Len(s) \in Int /\ n \in Nat
  OBVIOUS
<1>2. \A k \in (n + 1) .. Len(s) : s[k] \in S
  OBVIOUS
<1>3. /\ t \in Seq(S) /\ Len(t) = IF n + 1 <= Len(s) THEN Len(s) - (n + 1) + 1 ELSE 0
      /\ \A k \in 1 .. (Len(s) - (n + 1) + 1) : t[k] = s[n + 1 + k - 1]
  BY <1>1, <1>2, SubSeqProperties
<1> HIDE DEF t
<1>4. Len(s) - (n + 1) + 1 = Len(s) - n /\ (~(n + 1 <= Len(s)) => Len(s) - n = 0)
  BY <1>1
<1>5. \A k \in 1 .. (Len(s) - n) : n + 1 + k - 1 = n + k
  BY <1>1
<1>6. t \in Seq(S) /\ Len(t) = Len(s) - n /\ \A k \in 1 .. (Len(s) - n) : t[k] = s[n + k]
  BY <1>3, <1>4, <1>5
<1>7. QED
  BY <1>6 DEF t

\* What a thread of the client takes is the next of what the worker sent.
LEMMA Taken ==
  ASSUME IInv, NEW n \in 0 .. Len(toClient), Drops(n), wpc' = wpc, serving' = serving, sent' = sent
  PROVE  StreamInv' /\ Produced' = Produced /\ Consumed' = Consumed + n
<1>1. Len(toClient) \in Nat /\ DOMAIN toClient = 1 .. Len(toClient)
  BY Counts
<1>2. /\ toClient' \in Seq(ToClient) /\ Len(toClient') = Len(toClient) - n
      /\ DOMAIN toClient' = 1 .. Len(toClient')
      /\ \A k \in 1 .. Len(toClient') : toClient'[k] = toClient[n + k]
  BY DEF Drops
<1>3. Produced' = Produced /\ Produced \in Nat
  BY Counts DEF Produced
<1>4. Consumed' = Consumed + n /\ Consumed \in Nat
  BY <1>1, <1>2, <1>3, Counts DEF Consumed
<1>5. ASSUME NEW k \in DOMAIN toClient' PROVE toClient'[k] = Unit(KindAt(Consumed + n + k), serving)
  <2>1. n + k \in DOMAIN toClient /\ k \in Nat
    BY <1>1, <1>2
  <2>2. toClient[n + k] = Unit(KindAt(Consumed + (n + k)), serving)
    BY <2>1 DEF IInv, StreamInv
  <2>3. Consumed + (n + k) = Consumed + n + k
    BY <1>4, <2>1
  <2>4. QED
    BY <1>2, <2>2, <2>3
<1>6. Len(toClient') <= Produced'
  BY <1>1, <1>2, <1>3 DEF IInv, StreamInv
<1>7. toClient' # <<>> => toClient # <<>>
  BY <1>1, <1>2
<1>8. QED
  BY <1>2, <1>3, <1>4, <1>5, <1>6, <1>7 DEF IInv, StreamInv, Unit, KindAt

\* What the worker sends for a command comes after what it has sent for it.
LEMMA Said ==
  ASSUME IInv, NEW kind \in {"notice", "num", "body"}, toClient' = toClient \o <<Unit(kind, serving)>>,
         serving' = serving, sent' = sent, serving = sent, sent > 0,
         kind = KindAt(Produced + 1), Produced' = Produced + 1
  PROVE  /\ StreamInv' /\ toClient' \in Seq(ToClient) /\ Len(toClient') = Len(toClient) + 1
         /\ Consumed' = Consumed
<1>1. /\ Len(toClient) \in Nat /\ toClient \in Seq(ToClient) /\ DOMAIN toClient = 1 .. Len(toClient)
      /\ Produced \in Nat /\ Consumed \in Nat /\ Consumed + Len(toClient) = Produced
  BY Counts
<1>2. <<Unit(kind, serving)>> \in Seq(ToClient) /\ Len(<<Unit(kind, serving)>>) = 1
  BY Counts DEF IInv, TypeOK, ToClient, Unit
<1>3. /\ toClient' \in Seq(ToClient) /\ Len(toClient') = Len(toClient) + 1
      /\ \A k \in 1 .. (Len(toClient) + 1) :
           toClient'[k] = IF k <= Len(toClient) THEN toClient[k] ELSE Unit(kind, serving)
  BY <1>1, <1>2, ConcatProperties
<1>4. Consumed' = Consumed
  BY <1>1, <1>3 DEF Consumed
<1>5. DOMAIN toClient' = 1 .. (Len(toClient) + 1)
  BY <1>1, <1>3
<1>6. ASSUME NEW k \in DOMAIN toClient' PROVE toClient'[k] = Unit(KindAt(Consumed + k), serving)
  <2>1. CASE k <= Len(toClient)
    <3>1. k \in DOMAIN toClient
      BY <1>1, <1>5, <2>1
    <3>2. QED
      BY <1>3, <1>5, <2>1, <3>1 DEF IInv, StreamInv
  <2>2. CASE ~(k <= Len(toClient))
    <3>1. k = Len(toClient) + 1
      BY <1>1, <1>5, <2>2
    <3>2. Consumed + k = Produced + 1
      BY <1>1, <3>1
    <3>3. QED
      BY <1>3, <1>5, <2>2, <3>2
  <2>3. QED
    BY <2>1, <2>2
<1>7. Len(toClient') <= Produced'
  BY <1>1, <1>3 DEF IInv, StreamInv
<1>8. QED
  BY <1>3, <1>4, <1>6, <1>7 DEF StreamInv, Unit, KindAt

\* A step of the client that takes nothing and sends nothing.
LEMMA Quiet ==
  ASSUME IInv, UNCHANGED <<sent, printed, worker, closed, toServer, toClient>>, torn => torn'
  PROVE  /\ StreamInv' /\ AnswersInOrder' /\ Consumed' = Consumed
         /\ (Idle' <=> Idle) /\ (Busy' <=> Busy)
<1>1. Produced' = Produced /\ Consumed' = Consumed
  BY DEF worker, Produced, Consumed
<1>2. StreamInv'
  BY <1>1 DEF IInv, StreamInv, worker, Unit, KindAt
<1>3. AnswersInOrder'
  BY DEF IInv, AnswersInOrder
<1>4. (Idle' <=> Idle) /\ (Busy' <=> Busy)
  BY DEF Idle, Busy, worker
<1>5. QED
  BY <1>1, <1>2, <1>3, <1>4

\* The first unit on its way, and the connection without it.
LEMMA FirstUnit ==
  ASSUME IInv, toClient # <<>>
  PROVE  /\ Head(toClient) = Unit(KindAt(Consumed + 1), serving) /\ Head(toClient) \in ToClient
         /\ 1 \in 0 .. Len(toClient) /\ (toClient' = Tail(toClient) => Drops(1))
<1>1. toClient \in Seq(ToClient) /\ Len(toClient) \in Nat \ {0} /\ DOMAIN toClient = 1 .. Len(toClient)
  BY Counts
<1>2. Head(toClient) = toClient[1]
  BY <1>1
<1>3. toClient[1] = Unit(KindAt(Consumed + 1), serving)
  BY <1>1 DEF IInv, StreamInv
<1>4. Head(toClient) \in ToClient
  BY <1>1, <1>2
<1>5. ASSUME toClient' = Tail(toClient) PROVE Drops(1)
  <2>1. /\ Tail(toClient) \in Seq(ToClient) /\ Len(Tail(toClient)) = Len(toClient) - 1
        /\ \A k \in 1 .. Len(Tail(toClient)) : Tail(toClient)[k] = toClient[k + 1]
    BY <1>1, HeadTailProperties
  <2>2. \A k \in 1 .. Len(Tail(toClient)) : k + 1 = 1 + k
    BY <2>1, <1>1
  <2>3. QED
    BY <1>5, <2>1, <2>2 DEF Drops
<1>6. QED
  BY <1>1, <1>2, <1>3, <1>4, <1>5

-----------------------------------------------------------------------------
(* The main thread of the client. *)

\* The user enters a command.
LEMMA EnterCommandKeeps == ASSUME IInv, EnterCommand PROVE IInv'
<1>1. StreamInv' /\ AnswersInOrder' /\ Consumed' = Consumed /\ (Idle' <=> Idle) /\ (Busy' <=> Busy)
  BY Quiet DEF EnterCommand
<1>2. TypeOK'
  BY DEF IInv, TypeOK, EnterCommand, worker
<1>3. TurnInv'
  BY DEF IInv, TurnInv, EnterCommand
<1>4. CallInv'
  BY <1>1 DEF IInv, CallInv, Running, Waiting, EnterCommand
<1>5. QED
  BY <1>1, <1>2, <1>3, <1>4 DEF IInv

\* The user interrupts the client.
LEMMA InterruptKeeps == ASSUME IInv, Interrupt PROVE IInv'
<1>1. StreamInv' /\ AnswersInOrder' /\ Consumed' = Consumed /\ (Idle' <=> Idle) /\ (Busy' <=> Busy)
  BY Quiet DEF Interrupt
<1>2. TypeOK'
  BY DEF IInv, TypeOK, Interrupt, worker
<1>3. TurnInv'
  BY DEF IInv, TurnInv, Interrupt
<1>4. CallInv'
  BY <1>1 DEF IInv, CallInv, Running, Interrupt
<1>5. QED
  BY <1>1, <1>2, <1>3, <1>4 DEF IInv

\* A command is sent: all those before it are answered, and nothing is on its
\* way to the client.
LEMMA SendCommandKeeps == ASSUME IInv, SendCommand PROVE IInv'
<1>1. /\ Running /\ mpc = "send" /\ client_status_f = "SENDING" /\ sent < MaxCommands
      /\ Len(printed) = sent /\ toClient = <<>> /\ (~closed => Idle) /\ ~(rpc \in {"num", "body", "printed"})
  <2>1. Running /\ mpc = "send" /\ client_status_f = "SENDING" /\ sent < MaxCommands
    BY DEF IInv, TypeOK, TurnInv, SendCommand
  <2>2. ~Waiting
    BY <2>1 DEF Waiting
  <2>3. QED
    BY <2>1, <2>2 DEF IInv, CallInv, TurnInv
<1>2. /\ sent' = sent + 1 /\ mpc' \in {"ack", "exited"} /\ (mpc' = "exited" => closed)
      /\ rpc' = rpc /\ printed' = printed /\ toClient' = toClient /\ toClient' = <<>>
      /\ client_status_f' = client_status_f /\ receive_message' = receive_message /\ torn' = torn
      /\ early' = early /\ wpc' = wpc /\ serving' = serving /\ closed' = closed
  BY <1>1 DEF SendCommand, Broken, worker
<1>3. IF closed THEN toServer' = toServer ELSE toServer' = Append(toServer, Unit("command", sent + 1))
  BY <1>2 DEF SendCommand, Broken, Transmits
<1>4. sent \in Nat /\ serving \in Nat /\ MaxCommands \in Nat
  BY Counts
<1>5. StreamInv'
  <2>1. Produced' = Produced /\ Len(toClient') = Len(toClient) /\ DOMAIN toClient' = {}
    BY <1>2 DEF Produced
  <2>2. QED
    BY <1>2, <2>1 DEF IInv, StreamInv
<1>6. ~closed => Busy'
  <2>1. ASSUME ~closed PROVE Busy'
    <3>1. /\ serving' = sent' - 1 /\ sent' > 0
          /\ \/ wpc' = "select" /\ toServer' = Append(<<>>, Unit("command", sent'))
             \/ /\ wpc' = "ack" /\ serving' > 0
                /\ toServer' = Append(<<Unit("ack", serving')>>, Unit("command", sent'))
      BY <1>1, <1>2, <1>3, <1>4, <2>1 DEF Idle, Unit
    <3>2. QED
      BY <3>1 DEF Busy, Unit
  <2>2. QED
    BY <2>1
<1>7. TypeOK'
  <2>1. toServer' \in Seq(ToServer)
    <3>1. toServer \in Seq(ToServer)
      BY DEF IInv, TypeOK, ToServer
    <3>2. Unit("command", sent + 1) \in ToServer
      BY <1>1, <1>4 DEF ToServer, Unit
    <3>3. QED
      BY <1>3, <3>1, <3>2
  <2>2. \A k \in DOMAIN toServer' : k = 1 \/ (k = 2 /\ toServer'[1].kind = "ack")
    <3>1. CASE closed
      BY <1>3, <3>1 DEF IInv, TypeOK
    <3>2. CASE ~closed /\ toServer = <<>>
      BY <1>3, <3>2
    <3>3. CASE ~closed /\ toServer = <<Unit("ack", sent)>>
      <4>1. toServer' = <<Unit("ack", sent), Unit("command", sent + 1)>>
        BY <1>3, <3>3
      <4>2. DOMAIN toServer' = 1 .. 2 /\ toServer'[1].kind = "ack"
        BY <4>1 DEF Unit
      <4>3. QED
        BY <4>2
    <3>4. QED
      BY <1>1, <3>1, <3>2, <3>3 DEF Idle
  <2>3. QED
    BY <1>1, <1>2, <1>4, <2>1, <2>2 DEF IInv, TypeOK, ToServer
<1>8. TurnInv'
  BY <1>1, <1>2 DEF IInv, TurnInv
<1>9. CallInv'
  BY <1>1, <1>2, <1>4, <1>6 DEF IInv, CallInv, Running, Waiting
<1>10. AnswersInOrder'
  BY <1>1, <1>2, <1>4 DEF IInv, AnswersInOrder
<1>11. QED
  BY <1>5, <1>7, <1>8, <1>9, <1>10 DEF IInv

\* What a thread of the client does to the connection when it takes n units
\* while the client waits for an answer.
LEMMA ReceiveKeeps ==
  ASSUME IInv, NEW n \in 0 .. Len(toClient), Drops(n),
         UNCHANGED <<sent, printed, worker, closed, toServer>>, Running, Waiting
  PROVE  /\ StreamInv' /\ AnswersInOrder' /\ Consumed' = Consumed + n
         /\ toClient' \in Seq(ToClient) /\ Len(toClient') <= StatusBytes + 3
         /\ (~closed => Busy') /\ (Idle' <=> Idle) /\ (Busy' <=> Busy) /\ Len(printed) = sent - 1
<1>1. StreamInv' /\ Produced' = Produced /\ Consumed' = Consumed + n
  BY Taken DEF worker
<1>2. toClient' \in Seq(ToClient) /\ Len(toClient') <= StatusBytes + 3
  BY Counts DEF Drops
<1>3. (Idle' <=> Idle) /\ (Busy' <=> Busy) /\ Len(printed) = sent - 1 /\ (~closed => Busy)
  BY DEF IInv, CallInv, Idle, Busy, worker
<1>4. AnswersInOrder'
  BY DEF IInv, AnswersInOrder, Running
<1>5. QED
  BY <1>1, <1>2, <1>3, <1>4

\* The main thread receives the checksum_status.
LEMMA ReceiveStatusKeeps == ASSUME IInv, ReceiveStatus PROVE IInv'
<1>1. PICK n \in 0 .. Len(toClient) : toClient' = SubSeq(toClient, n + 1, Len(toClient))
  BY Counts, SinglesFacts DEF ReceiveStatus
<1>2. Drops(n)
  <2>1. toClient \in Seq(ToClient)
    BY Counts
  <2>2. QED
    BY <1>1, <2>1, Rest DEF Drops
<1>3. Running /\ Waiting /\ mpc = "ack" /\ client_status_f = "SENDING"
  BY DEF ReceiveStatus, Waiting, IInv, TypeOK, TurnInv
<1>4. /\ StreamInv' /\ AnswersInOrder' /\ toClient' \in Seq(ToClient) /\ Len(toClient') <= StatusBytes + 3
      /\ (~closed => Busy') /\ (Idle' <=> Idle) /\ Len(printed) = sent - 1
  BY <1>2, <1>3, ReceiveKeeps DEF ReceiveStatus
<1>5. torn' \in BOOLEAN
  BY DEF ReceiveStatus
<1>6. /\ mpc' = "acked" /\ rpc' = rpc /\ client_status_f' = client_status_f /\ sent' = sent /\ printed' = printed
      /\ receive_message' = receive_message /\ early' = early /\ wpc' = wpc /\ serving' = serving
      /\ closed' = closed /\ toServer' = toServer
  BY DEF ReceiveStatus, worker
<1>7. TypeOK'
  BY <1>4, <1>5, <1>6 DEF IInv, TypeOK, ToClient
<1>8. TurnInv'
  BY <1>3, <1>6 DEF IInv, TurnInv
<1>9. CallInv'
  <2>1. rpc # "body"
    BY <1>3 DEF IInv, TurnInv
  <2>2. QED
    BY <1>3, <1>4, <1>6, <2>1 DEF IInv, CallInv, Running, Waiting
<1>10. QED
  BY <1>4, <1>7, <1>8, <1>9 DEF IInv

\* The server is gone, and the main thread receives no checksum_status.
LEMMA StatusEndOfFileKeeps == ASSUME IInv, StatusEndOfFile PROVE IInv'
<1>1. StreamInv' /\ AnswersInOrder' /\ Consumed' = Consumed /\ (Idle' <=> Idle) /\ (Busy' <=> Busy)
  BY Quiet DEF StatusEndOfFile
<1>2. TypeOK'
  BY DEF IInv, TypeOK, StatusEndOfFile, worker
<1>3. TurnInv'
  BY DEF IInv, TurnInv, TypeOK, StatusEndOfFile
<1>4. CallInv'
  BY <1>1 DEF IInv, TypeOK, CallInv, Running, Waiting, StatusEndOfFile
<1>5. QED
  BY <1>1, <1>2, <1>3, <1>4 DEF IInv

\* The main thread hands the turn over.
LEMMA AwaitAnswerKeeps == ASSUME IInv, AwaitAnswer PROVE IInv'
<1>1. StreamInv' /\ AnswersInOrder' /\ Consumed' = Consumed /\ (Idle' <=> Idle) /\ (Busy' <=> Busy)
  BY Quiet DEF AwaitAnswer
<1>2. TypeOK'
  BY DEF IInv, TypeOK, AwaitAnswer, worker
<1>3. TurnInv'
  BY DEF IInv, TurnInv, AwaitAnswer
<1>4. CallInv'
  <2>1. client_status_f = "SENDING" /\ ~(rpc \in {"num", "body", "printed"})
    BY DEF IInv, TypeOK, TurnInv, AwaitAnswer
  <2>2. QED
    BY <1>1, <2>1 DEF IInv, CallInv, Running, Waiting, AwaitAnswer
<1>5. QED
  BY <1>1, <1>2, <1>3, <1>4 DEF IInv

\* The main thread ends the client after the secondary thread.
LEMMA CloseClientKeeps == ASSUME IInv, CloseClient PROVE IInv'
<1>1. StreamInv' /\ AnswersInOrder' /\ Consumed' = Consumed /\ (Idle' <=> Idle) /\ (Busy' <=> Busy)
  BY Quiet DEF CloseClient
<1>2. TypeOK'
  BY DEF IInv, TypeOK, CloseClient, worker
<1>3. TurnInv'
  BY DEF IInv, TurnInv, CloseClient
<1>4. CallInv'
  BY <1>1 DEF IInv, CallInv, Running, CloseClient
<1>5. QED
  BY <1>1, <1>2, <1>3, <1>4 DEF IInv

-----------------------------------------------------------------------------
(* The secondary thread of the client. *)

\* select wakes the secondary thread.
LEMMA WakesKeeps == ASSUME IInv, Wakes PROVE IInv'
<1>1. StreamInv' /\ AnswersInOrder' /\ Consumed' = Consumed /\ (Idle' <=> Idle) /\ (Busy' <=> Busy)
  BY Quiet DEF Wakes
<1>2. TypeOK'
  BY DEF IInv, TypeOK, Wakes, worker
<1>3. TurnInv'
  BY DEF IInv, TurnInv, Wakes
<1>4. CallInv'
  BY <1>1 DEF IInv, CallInv, Running, Waiting, Wakes
<1>5. QED
  BY <1>1, <1>2, <1>3, <1>4 DEF IInv

\* When something is on its way to the client, the client waits for it.
LEMMA OnlyWhenWaiting ==
  ASSUME IInv, Running, toClient # <<>>
  PROVE  Waiting /\ serving = sent /\ sent > 0
BY DEF IInv, CallInv, StreamInv

\* The secondary thread takes a byte.
LEMMA ReceiveByteKeeps == ASSUME IInv, ReceiveByte PROVE IInv'
<1>1. Running /\ Waiting /\ rpc = "recv"
  BY OnlyWhenWaiting DEF ReceiveByte
<1>2. 1 \in 0 .. Len(toClient) /\ Drops(1) /\ Head(toClient).kind \in {"ack", "notice", "num", "body"}
  BY FirstUnit DEF ReceiveByte, ToClient
<1>3. /\ StreamInv' /\ AnswersInOrder' /\ toClient' \in Seq(ToClient) /\ Len(toClient') <= StatusBytes + 3
      /\ (~closed => Busy') /\ Len(printed) = sent - 1
  BY <1>1, <1>2, ReceiveKeeps DEF ReceiveByte
<1>4. /\ mpc' = mpc /\ rpc' = "check" /\ client_status_f' = client_status_f /\ sent' = sent /\ printed' = printed
      /\ receive_message' \in {"none", "ack", "notice", "num", "body"} /\ early' = early /\ torn' \in BOOLEAN
      /\ wpc' = wpc /\ serving' = serving /\ closed' = closed /\ toServer' = toServer
  BY <1>2 DEF ReceiveByte, worker
<1>5. TypeOK'
  BY <1>3, <1>4 DEF IInv, TypeOK, ToClient
<1>6. TurnInv'
  BY <1>4 DEF IInv, TurnInv
<1>7. CallInv'
  BY <1>1, <1>3, <1>4 DEF IInv, CallInv, Running, Waiting
<1>8. QED
  BY <1>3, <1>5, <1>6, <1>7 DEF IInv

\* It looks at whose turn it is.
LEMMA CheckByteKeeps == ASSUME IInv, CheckByte PROVE IInv'
<1>1. StreamInv' /\ AnswersInOrder' /\ Consumed' = Consumed /\ (Idle' <=> Idle) /\ (Busy' <=> Busy)
  BY Quiet DEF CheckByte
<1>2. TypeOK'
  BY DEF IInv, TypeOK, CheckByte, worker
<1>3. TurnInv'
  BY DEF IInv, TurnInv, CheckByte
<1>4. CallInv'
  BY <1>1 DEF IInv, CallInv, Running, Waiting, CheckByte
<1>5. QED
  BY <1>1, <1>2, <1>3, <1>4 DEF IInv

\* It receives the num_packets, or what is there in its place.
LEMMA ReceiveNumKeeps == ASSUME IInv, ReceiveNum PROVE IInv'
<1>1. Running /\ Waiting /\ rpc = "num"
  BY OnlyWhenWaiting DEF ReceiveNum
<1>2. 1 \in 0 .. Len(toClient) /\ Drops(1) /\ Head(toClient).kind = KindAt(Consumed + 1)
  BY FirstUnit DEF ReceiveNum, Unit
<1>3. /\ StreamInv' /\ AnswersInOrder' /\ toClient' \in Seq(ToClient) /\ Len(toClient') <= StatusBytes + 3
      /\ (~closed => Busy') /\ Len(printed) = sent - 1 /\ Consumed' = Consumed + 1
  BY <1>1, <1>2, ReceiveKeeps DEF ReceiveNum
<1>4. /\ mpc' = mpc /\ rpc' = "body" /\ client_status_f' = client_status_f /\ sent' = sent /\ printed' = printed
      /\ receive_message' = receive_message /\ early' = early /\ torn' = (Head(toClient).kind # "num")
      /\ wpc' = wpc /\ serving' = serving /\ closed' = closed /\ toServer' = toServer
  BY DEF ReceiveNum, worker
<1>5. TypeOK'
  BY <1>3, <1>4 DEF IInv, TypeOK, ToClient
<1>6. TurnInv'
  BY <1>1, <1>4 DEF IInv, TurnInv
<1>7. Running' => Consumed' = StatusBytes + 2
  <2>1. Running' => KindAt(Consumed + 1) = "num"
    BY <1>2, <1>4 DEF Running
  <2>2. Running' => Consumed + 1 = StatusBytes + 2
    BY <2>1, Counts DEF KindAt
  <2>3. QED
    BY <1>3, <2>2
<1>8. CallInv'
  BY <1>1, <1>3, <1>4, <1>7 DEF IInv, CallInv, Running, Waiting
<1>9. QED
  BY <1>3, <1>5, <1>6, <1>8 DEF IInv

\* It receives the rest of the response, which is the one to the last command,
\* and acknowledges it.
LEMMA ReceiveAnswerKeeps == ASSUME IInv, ReceiveAnswer PROVE IInv'
<1>1. /\ Running /\ rpc = "body" /\ toClient # <<>> /\ client_status_f = "RECEIVING" /\ mpc = "loop"
      /\ Waiting /\ serving = sent /\ sent > 0 /\ Len(printed) = sent - 1 /\ (~closed => Busy)
      /\ Consumed = StatusBytes + 2
  <2>1. Running /\ rpc = "body" /\ toClient # <<>>
    BY DEF ReceiveAnswer
  <2>2. client_status_f = "RECEIVING" /\ mpc = "loop"
    BY <2>1 DEF IInv, TurnInv, Running
  <2>3. QED
    BY <2>1, <2>2, OnlyWhenWaiting DEF IInv, CallInv
<1>2. /\ 1 \in 0 .. Len(toClient) /\ (toClient' = Tail(toClient) => Drops(1))
      /\ Head(toClient).command = sent
  BY <1>1, FirstUnit DEF Unit
<1>3. /\ client_status_f' = client_status_f /\ receive_message' = receive_message /\ sent' = sent /\ torn' = torn
      /\ early' = early /\ wpc' = wpc /\ serving' = serving /\ closed' = closed
  BY DEF ReceiveAnswer, worker
<1>4. CASE Broken
  <2>1. /\ closed /\ mpc' = "exited" /\ rpc' = rpc /\ printed' = printed /\ toServer' = toServer
        /\ toClient' = toClient
    BY <1>4 DEF Broken
  <2>2. StreamInv' /\ AnswersInOrder'
    BY <1>3, <2>1, Quiet DEF worker
  <2>3. TypeOK'
    BY <1>3, <2>1 DEF IInv, TypeOK
  <2>4. TurnInv'
    BY <1>3, <2>1 DEF IInv, TurnInv
  <2>5. CallInv'
    BY <1>3, <2>1 DEF IInv, CallInv, Running
  <2>6. QED
    BY <2>2, <2>3, <2>4, <2>5 DEF IInv
<1>5. CASE /\ toClient' = Tail(toClient) /\ Transmits(Unit("ack", Head(toClient).command))
           /\ printed' = Append(printed, Head(toClient).command) /\ rpc' = "printed" /\ mpc' = mpc
  <2>1. /\ printed' = Append(printed, sent) /\ rpc' = "printed" /\ mpc' = "loop"
        /\ IF closed THEN toServer' = toServer ELSE toServer' = Append(toServer, Unit("ack", sent))
    BY <1>1, <1>2, <1>5 DEF Transmits
  <2>2. /\ StreamInv' /\ Produced' = Produced /\ Consumed' = Consumed + 1
        /\ toClient' \in Seq(ToClient) /\ Len(toClient') = Len(toClient) - 1
    BY <1>2, <1>3, <1>5, Taken DEF Drops
  <2>3. Produced = StatusBytes + 3 /\ Len(toClient') = 0 /\ toClient' = <<>>
    <3>1. /\ Len(toClient) \in Nat \ {0} /\ Produced \in Nat /\ Produced <= StatusBytes + 3
          /\ Consumed + Len(toClient) = Produced
      BY <1>1, Counts
    <3>2. Len(toClient) = 1
      BY <1>1, <3>1, Counts
    <3>3. QED
      BY <1>1, <2>2, <3>1, <3>2, Counts
  <2>4. ~closed => wpc = "ack" /\ toServer = <<>> /\ toServer' = <<Unit("ack", sent)>>
    <3>1. ~closed => wpc # "select" /\ toServer = <<>>
      BY <1>1, Counts DEF Busy
    <3>2. wpc \in {"select", "ack"}
      BY <2>3, Counts DEF Produced, IInv, TypeOK
    <3>3. QED
      BY <2>1, <3>1, <3>2
  <2>5. TypeOK'
    <3>1. toServer' \in Seq(ToServer) /\ \A k \in DOMAIN toServer' : k = 1 \/ (k = 2 /\ toServer'[1].kind = "ack")
      <4>1. CASE closed
        BY <2>1, <4>1 DEF IInv, TypeOK, ToServer
      <4>2. CASE ~closed
        <5>1. Unit("ack", sent) \in ToServer
          BY <1>1, Counts DEF IInv, TypeOK, ToServer, Unit
        <5>2. toServer' = <<Unit("ack", sent)>>
          BY <2>4, <4>2
        <5>3. toServer' \in Seq(ToServer)
          BY <5>1, <5>2
        <5>4. \A k \in DOMAIN toServer' : k = 1
          BY <5>2
        <5>5. QED
          BY <5>3, <5>4
      <4>3. QED
        BY <4>1, <4>2
    <3>2. printed' \in Seq(1 .. MaxCommands)
      BY <1>1, <2>1, Counts DEF IInv, TypeOK
    <3>3. QED
      BY <1>3, <2>1, <2>2, <2>3, <3>1, <3>2, Counts DEF IInv, TypeOK, ToServer, ToClient
  <2>6. Len(printed') = sent /\ AnswersInOrder'
    <3>1. printed \in Seq(1 .. MaxCommands) /\ sent \in 1 .. MaxCommands
      BY <1>1, Counts DEF IInv, TypeOK
    <3>2. /\ printed' \in Seq(1 .. MaxCommands) /\ Len(printed') = sent
          /\ \A k \in 1 .. (sent - 1) : printed'[k] = printed[k]
          /\ printed'[sent] = sent
      BY <1>1, <2>1, <3>1
    <3>3. \A k \in 1 .. (sent - 1) : printed[k] = k
      BY <1>1 DEF IInv, AnswersInOrder, Running
    <3>4. \A k \in 1 .. sent : printed'[k] = k
      <4>1. \A k \in 1 .. sent : k = sent \/ k \in 1 .. (sent - 1)
        BY <3>1
      <4>2. QED
        BY <3>2, <3>3, <4>1
    <3>5. printed' = [k \in 1 .. sent |-> k]
      <4>1. printed' = [k \in 1 .. Len(printed') |-> printed'[k]]
        BY <3>2
      <4>2. QED
        BY <3>2, <3>4, <4>1
    <3>6. QED
      BY <1>3, <3>1, <3>2, <3>5 DEF AnswersInOrder
  <2>7. TurnInv'
    BY <1>1, <1>3, <2>1 DEF TurnInv
  <2>8. CallInv'
    <3>1. ~closed => Idle'
      BY <1>1, <1>3, <2>4 DEF Idle, Unit
    <3>2. Len(printed') = sent' /\ toClient' = <<>> /\ closed' = closed /\ ~Waiting' /\ rpc' # "body"
      BY <1>3, <2>1, <2>3, <2>6 DEF Waiting
    <3>3. QED
      BY <3>1, <3>2 DEF CallInv
  <2>9. QED
    BY <2>2, <2>5, <2>6, <2>7, <2>8 DEF IInv
<1>6. QED
  BY <1>4, <1>5 DEF ReceiveAnswer

\* The server is gone within a response.
LEMMA AnswerCutKeeps == ASSUME IInv, AnswerCut PROVE IInv'
<1>1. StreamInv' /\ AnswersInOrder' /\ Consumed' = Consumed /\ (Idle' <=> Idle) /\ (Busy' <=> Busy)
  BY Quiet DEF AnswerCut
<1>2. TypeOK'
  BY DEF IInv, TypeOK, AnswerCut, worker
<1>3. TurnInv'
  BY DEF IInv, TurnInv, AnswerCut
<1>4. CallInv'
  BY <1>1 DEF IInv, CallInv, Running, Waiting, AnswerCut
<1>5. QED
  BY <1>1, <1>2, <1>3, <1>4 DEF IInv

\* The secondary thread hands the turn back.
LEMMA HandBackKeeps == ASSUME IInv, HandBack PROVE IInv'
<1>1. StreamInv' /\ AnswersInOrder' /\ Consumed' = Consumed /\ (Idle' <=> Idle) /\ (Busy' <=> Busy)
  BY Quiet DEF HandBack
<1>2. TypeOK'
  BY DEF IInv, TypeOK, HandBack, worker
<1>3. TurnInv'
  BY DEF IInv, TurnInv, HandBack
<1>4. CallInv'
  BY <1>1 DEF IInv, CallInv, TurnInv, Running, Waiting, HandBack
<1>5. QED
  BY <1>1, <1>2, <1>3, <1>4 DEF IInv

\* The secondary thread finds the server gone.
LEMMA ServerLostKeeps == ASSUME IInv, ServerLost PROVE IInv'
<1>1. StreamInv' /\ AnswersInOrder' /\ Consumed' = Consumed /\ (Idle' <=> Idle) /\ (Busy' <=> Busy)
  BY Quiet DEF ServerLost
<1>2. TypeOK'
  BY DEF IInv, TypeOK, ServerLost, worker
<1>3. TurnInv'
  BY DEF IInv, TurnInv, ServerLost
<1>4. CallInv'
  BY <1>1 DEF IInv, CallInv, Running, Waiting, ServerLost
<1>5. QED
  BY <1>1, <1>2, <1>3, <1>4 DEF IInv

-----------------------------------------------------------------------------
(* The worker of the server. *)

\* A step of the worker leaves the client as it is.
LEMMA ClientSame ==
  ASSUME IInv, UNCHANGED client
  PROVE  /\ TurnInv' /\ AnswersInOrder' /\ (Running' <=> Running) /\ (Waiting' <=> Waiting)
         /\ sent' = sent /\ printed' = printed /\ rpc' = rpc
BY DEF IInv, TurnInv, AnswersInOrder, Running, Waiting, client

\* The worker takes a command, which is the last one sent, and acknowledges it.
LEMMA AcknowledgeCommandKeeps == ASSUME IInv, AcknowledgeCommand PROVE IInv'
<1>1. /\ wpc = "select" /\ ~closed /\ toServer = <<Unit("command", sent)>> /\ serving = sent - 1 /\ sent > 0
  BY Counts DEF AcknowledgeCommand, IInv, CallInv, Idle, Busy
<1>2. toClient = <<>>
  BY <1>1, Counts DEF IInv, StreamInv
<1>3. /\ TurnInv' /\ AnswersInOrder' /\ (Running' <=> Running) /\ (Waiting' <=> Waiting)
      /\ sent' = sent /\ printed' = printed /\ rpc' = rpc
  BY ClientSame DEF AcknowledgeCommand
<1>4. /\ wpc' = "notice" /\ closed' = closed /\ toServer' = <<>> /\ serving' = sent
  BY <1>1 DEF AcknowledgeCommand, WorkerSends, Unit
<1>5. Unit("ack", sent) \in ToClient
  BY <1>1, Counts DEF IInv, TypeOK, ToClient, Unit
<1>6. /\ toClient' \in Seq(ToClient) /\ Len(toClient') = StatusBytes
      /\ \A k \in 1 .. StatusBytes : toClient'[k] = Unit("ack", sent)
  <2> DEFINE acks == [k \in 1 .. StatusBytes |-> Unit("ack", sent)]
  <2>1. StatusBytes \in Nat
    BY Counts
  <2>2. acks \in Seq(ToClient) /\ Len(acks) = StatusBytes
    BY <1>5, <2>1
  <2>3. toClient' = <<>> \o acks
    BY <1>2, <1>4 DEF AcknowledgeCommand, WorkerSends
  <2>4. toClient' = acks
    BY <2>2, <2>3, ConcatEmptySeq
  <2>5. QED
    BY <2>2, <2>4
<1>7. StreamInv' /\ Consumed' = 0
  <2>1. StatusBytes \in Nat \ {0} /\ Produced' = StatusBytes
    BY <1>4, Counts DEF Produced
  <2>2. Consumed' = 0
    BY <1>6, <2>1 DEF Consumed
  <2>3. DOMAIN toClient' = 1 .. StatusBytes
    BY <1>6, <2>1
  <2>4. ASSUME NEW k \in DOMAIN toClient' PROVE toClient'[k] = Unit(KindAt(0 + k), sent)
    BY <1>6, <2>1, <2>3 DEF KindAt
  <2>5. QED
    BY <1>1, <1>3, <1>4, <1>6, <2>1, <2>2, <2>4 DEF StreamInv, Unit, KindAt
<1>8. TypeOK'
  <2>1. toServer' \in Seq(ToServer) /\ DOMAIN toServer' = {}
    BY <1>4
  <2>2. QED
    BY <1>1, <1>3, <1>4, <1>6, <2>1, Counts DEF IInv, TypeOK, ToServer, ToClient, client, AcknowledgeCommand
<1>9. CallInv'
  <2>1. Busy'
    BY <1>1, <1>3, <1>4 DEF Busy
  <2>2. Running => Waiting /\ Len(printed) = sent - 1
    BY <1>1, Counts DEF IInv, CallInv, Idle
  <2>3. ~(Running /\ rpc = "body")
    <3>1. Produced = StatusBytes + 3 /\ Consumed = StatusBytes + 3
      BY <1>1, <1>2, Counts DEF Produced
    <3>2. QED
      BY <3>1, Counts DEF IInv, CallInv
  <2>4. QED
    BY <1>3, <2>1, <2>2, <2>3 DEF CallInv
<1>10. QED
  BY <1>3, <1>7, <1>8, <1>9 DEF IInv

\* Whatever the worker sends for the command it serves.
LEMMA SendKeeps ==
  ASSUME IInv, NEW kind \in {"notice", "num", "body"}, NEW then \in {"num", "body", "ack"},
         ~closed, wpc \in {"notice", "num", "body"}, wpc' = then,
         toClient' = toClient \o <<Unit(kind, serving)>>,
         kind = KindAt(Produced + 1), Produced' = Produced + 1,
         UNCHANGED <<client, serving, closed, toServer>>
  PROVE  IInv'
<1>1. /\ TurnInv' /\ AnswersInOrder' /\ (Running' <=> Running) /\ (Waiting' <=> Waiting)
      /\ sent' = sent /\ printed' = printed /\ rpc' = rpc
  BY ClientSame
<1>2. serving = sent /\ sent > 0 /\ toServer = <<>> /\ Busy /\ ~Idle
  BY DEF IInv, CallInv, Idle, Busy
<1>3. /\ StreamInv' /\ toClient' \in Seq(ToClient) /\ Len(toClient') = Len(toClient) + 1
      /\ Consumed' = Consumed
  BY <1>1, <1>2, Said
<1>4. TypeOK'
  <2>1. Len(toClient') <= StatusBytes + 3
    <3>1. Produced' <= StatusBytes + 3
      BY Counts DEF Produced
    <3>2. Len(toClient') <= Produced'
      BY <1>3 DEF StreamInv
    <3>3. QED
      BY <1>3, <3>1, <3>2, Counts
  <2>2. QED
    BY <1>3, <2>1 DEF IInv, TypeOK, ToClient, client
<1>5. CallInv'
  <2>1. Busy'
    BY <1>1, <1>2 DEF Busy
  <2>2. QED
    BY <1>1, <1>2, <1>3, <2>1 DEF IInv, CallInv
<1>6. QED
  BY <1>1, <1>3, <1>4, <1>5 DEF IInv

\* The worker announces the response.
LEMMA SendNoticeKeeps == ASSUME IInv, SendNotice PROVE IInv'
<1>1. Produced = StatusBytes /\ Produced' = Produced + 1 /\ KindAt(Produced + 1) = "notice"
  BY Counts DEF SendNotice, WorkerSends, Produced, KindAt
<1>2. QED
  BY <1>1, SendKeeps DEF SendNotice, WorkerSends

\* The worker sends the num_packets.
LEMMA SendNumKeeps == ASSUME IInv, SendNum PROVE IInv'
<1>1. Produced = StatusBytes + 1 /\ Produced' = Produced + 1 /\ KindAt(Produced + 1) = "num"
  BY Counts DEF SendNum, WorkerSends, Produced, KindAt
<1>2. QED
  BY <1>1, SendKeeps DEF SendNum, WorkerSends

\* The worker sends the rest of the response.
LEMMA SendBodyKeeps == ASSUME IInv, SendBody PROVE IInv'
<1>1. Produced = StatusBytes + 2 /\ Produced' = Produced + 1 /\ KindAt(Produced + 1) = "body"
  BY Counts DEF SendBody, WorkerSends, Produced, KindAt
<1>2. QED
  BY <1>1, SendKeeps DEF SendBody, WorkerSends

\* A step of the worker that puts nothing on the way to the client.
LEMMA StreamSame ==
  ASSUME IInv, UNCHANGED <<client, serving, toClient>>, Produced' = Produced
  PROVE  StreamInv' /\ Consumed' = Consumed
BY DEF IInv, StreamInv, Consumed, client, Unit, KindAt

\* The worker receives the acknowledgement of the response.
LEMMA AnswerAcknowledgedKeeps == ASSUME IInv, AnswerAcknowledged PROVE IInv'
<1>1. /\ TurnInv' /\ AnswersInOrder' /\ (Running' <=> Running) /\ (Waiting' <=> Waiting)
      /\ sent' = sent /\ printed' = printed /\ rpc' = rpc
  BY ClientSame DEF AnswerAcknowledged
<1>2. /\ wpc = "ack" /\ ~closed /\ wpc' = "select" /\ toServer' = Tail(toServer) /\ toServer # <<>>
      /\ serving' = serving /\ closed' = closed /\ toClient' = toClient
  BY DEF AnswerAcknowledged
<1>3. StreamInv' /\ Consumed' = Consumed
  BY <1>2, StreamSame DEF AnswerAcknowledged, Produced
<1>4. CASE Idle
  <2>1. serving = sent /\ toServer = <<Unit("ack", sent)>> /\ sent > 0
    BY <1>2, <1>4 DEF Idle
  <2>2. toServer' = <<>>
    BY <1>2, <2>1
  <2>3. Idle'
    BY <1>1, <1>2, <2>1, <2>2 DEF Idle
  <2>4. ~Busy
    BY <1>2, <2>1, Counts DEF Busy
  <2>5. CallInv'
    BY <1>1, <1>2, <1>3, <2>3, <2>4 DEF IInv, CallInv
  <2>6. TypeOK'
    BY <1>2, <2>2 DEF IInv, TypeOK, AnswerAcknowledged, client
  <2>7. QED
    BY <1>1, <1>3, <2>5, <2>6 DEF IInv
<1>5. CASE Busy /\ ~Idle
  <2>1. serving = sent - 1 /\ toServer = <<Unit("ack", serving), Unit("command", sent)>> /\ sent > 0
    BY <1>2, <1>5 DEF Busy
  <2>2. toServer' = <<Unit("command", sent)>>
    BY <1>2, <2>1
  <2>3. Busy'
    BY <1>1, <1>2, <2>1, <2>2 DEF Busy, Unit
  <2>4. CallInv'
    BY <1>1, <1>2, <1>3, <1>5, <2>3 DEF IInv, CallInv
  <2>5. TypeOK'
    <3>1. toServer' \in Seq(ToServer)
      BY <1>2 DEF IInv, TypeOK, ToServer
    <3>2. \A k \in DOMAIN toServer' : k = 1
      BY <2>2
    <3>3. QED
      BY <1>2, <3>1, <3>2 DEF IInv, TypeOK, AnswerAcknowledged, client, ToServer
  <2>6. QED
    BY <1>1, <1>3, <2>4, <2>5 DEF IInv
<1>6. QED
  BY <1>2, <1>4, <1>5 DEF IInv, CallInv

\* The client is gone, and the worker no longer waits for the acknowledgement.
LEMMA StatusNeverComesKeeps == ASSUME IInv, StatusNeverComes PROVE IInv'
<1>1. /\ TurnInv' /\ AnswersInOrder' /\ (Running' <=> Running) /\ sent' = sent
  BY ClientSame DEF StatusNeverComes
<1>2. /\ wpc = "ack" /\ ~closed /\ wpc' = "select" /\ toServer' = <<>> /\ toServer = <<>>
      /\ serving' = serving /\ closed' = closed /\ toClient' = toClient /\ ~Running
  BY DEF StatusNeverComes, ClientGone, Running
<1>3. StreamInv'
  BY <1>2, StreamSame DEF StatusNeverComes, Produced
<1>4. serving = sent
  BY <1>2 DEF IInv, CallInv, Idle, Busy
<1>5. CallInv'
  BY <1>1, <1>2, <1>4 DEF CallInv, Idle
<1>6. TypeOK'
  BY <1>2 DEF IInv, TypeOK, StatusNeverComes, client
<1>7. QED
  BY <1>1, <1>3, <1>5, <1>6 DEF IInv

\* The connection is closed, by the worker or by the end of the server.
LEMMA CloseKeeps ==
  ASSUME IInv, closed' = TRUE, UNCHANGED <<client, worker, toServer, toClient>>
  PROVE  IInv'
<1>1. /\ TurnInv' /\ AnswersInOrder' /\ (Running' <=> Running) /\ (Waiting' <=> Waiting)
      /\ sent' = sent /\ printed' = printed /\ rpc' = rpc
  BY ClientSame
<1>2. StreamInv' /\ Consumed' = Consumed
  BY StreamSame DEF worker, Produced
<1>3. CallInv'
  BY <1>1, <1>2 DEF IInv, CallInv
<1>4. TypeOK'
  BY DEF IInv, TypeOK, client, worker
<1>5. QED
  BY <1>1, <1>2, <1>3, <1>4 DEF IInv

-----------------------------------------------------------------------------

\* The conversation starts with nothing said.
LEMMA InitHolds == Init => IInv
<1> SUFFICES ASSUME Init PROVE IInv
  OBVIOUS
<1>1. StatusBytes \in Nat \ {0} /\ MaxCommands \in Nat
  BY SessionAssumption
<1>2. TypeOK
  <2>1. toServer \in Seq(ToServer) /\ DOMAIN toServer = {} /\ printed \in Seq(1 .. MaxCommands)
    BY DEF Init
  <2>2. toClient \in Seq(ToClient) /\ Len(toClient) = 0
    BY DEF Init
  <2>3. sent \in 0 .. MaxCommands /\ serving \in 0 .. sent /\ Len(toClient) <= StatusBytes + 3
    BY <1>1, <2>2 DEF Init
  <2>4. {closed, torn, early} \subseteq BOOLEAN
    BY DEF Init
  <2>5. QED
    BY <2>1, <2>2, <2>3, <2>4 DEF Init, TypeOK, ToServer, ToClient
<1>3. StreamInv
  BY <1>1 DEF Init, StreamInv, Produced
<1>4. TurnInv
  BY DEF Init, TurnInv
<1>5. CallInv
  BY DEF Init, CallInv, Running, Waiting, Idle
<1>6. AnswersInOrder
  BY DEF Init, AnswersInOrder
<1>7. QED
  BY <1>2, <1>3, <1>4, <1>5, <1>6 DEF IInv

\* Every step keeps the invariant.
LEMMA StepKeeps == IInv /\ [Next]_vars => IInv'
<1> SUFFICES ASSUME IInv, [Next]_vars PROVE IInv'
  OBVIOUS
<1>1. CASE EnterCommand
  BY <1>1, EnterCommandKeeps
<1>2. CASE Interrupt
  BY <1>2, InterruptKeeps
<1>3. CASE MainStep
  BY <1>3, SendCommandKeeps, ReceiveStatusKeeps, StatusEndOfFileKeeps, AwaitAnswerKeeps, CloseClientKeeps
     DEF MainStep
<1>4. CASE ReaderStep
  BY <1>4, WakesKeeps, ReceiveByteKeeps, CheckByteKeeps, ReceiveNumKeeps, ReceiveAnswerKeeps, AnswerCutKeeps,
     HandBackKeeps, ServerLostKeeps DEF ReaderStep
<1>5. CASE WorkerStep
  <2>1. CASE NoticeDisconnection
    BY <2>1, CloseKeeps DEF NoticeDisconnection
  <2>2. QED
    BY <1>5, <2>1, AcknowledgeCommandKeeps, SendNoticeKeeps, SendNumKeeps, SendBodyKeeps,
       AnswerAcknowledgedKeeps, StatusNeverComesKeeps DEF WorkerStep
<1>6. CASE LoseClient
  BY <1>6, CloseKeeps DEF LoseClient
<1>7. CASE CloseConnection
  BY <1>7, CloseKeeps DEF CloseConnection, worker
<1>8. CASE UNCHANGED vars
  <2>1. UNCHANGED <<sent, printed, worker, closed, toServer, toClient, torn, mpc, rpc, client_status_f, receive_message, early>>
    BY <1>8 DEF vars, client
  <2>2. StreamInv' /\ AnswersInOrder' /\ Consumed' = Consumed /\ (Idle' <=> Idle) /\ (Busy' <=> Busy)
    BY <2>1, Quiet
  <2>3. TypeOK' /\ TurnInv'
    BY <2>1 DEF IInv, TypeOK, TurnInv, worker
  <2>4. CallInv'
    BY <2>1, <2>2 DEF IInv, CallInv, Running, Waiting
  <2>5. QED
    BY <2>2, <2>3, <2>4 DEF IInv
<1>9. QED
  BY <1>1, <1>2, <1>3, <1>4, <1>5, <1>6, <1>7, <1>8 DEF Next, Over

\* The inductive invariant holds in every state: what is on its way to the
\* client is the last of what the worker sent for the last command, and whose
\* turn it is agrees with how far that command has come.
THEOREM Invariance == Spec => []IInv
<1>1. QED
  BY InitHolds, StepKeeps, PTL DEF Spec

\* Every variable has its type, and neither direction of the connection ever
\* holds more than an acknowledgement and what may follow it.
THEOREM TypeCorrect == Spec => []TypeOK
<1>1. IInv => TypeOK
  BY DEF IInv
<1>2. QED
  BY <1>1, Invariance, PTL

\* client_status_f keeps the two threads of the client apart: as long as no
\* unit is torn, the main thread is never inside send_data while the secondary
\* thread is inside receive_data (clients.c:53-66, 261-270).
THEOREM OnlyOneTalks == Spec => []OneThreadTalks
<1>1. IInv => OneThreadTalks
  BY DEF IInv, TurnInv, OneThreadTalks
<1>2. QED
  BY <1>1, Invariance, PTL

\* The answers printed are those to the commands sent, in that order and each
\* once, for any number of commands (clients.c:228-304, server.c:287-316).
THEOREM AlwaysAnswersInOrder == Spec => []AnswersInOrder
<1>1. IInv => AnswersInOrder
  BY DEF IInv
<1>2. QED
  BY <1>1, Invariance, PTL

=============================================================================
