---------------------------- MODULE ServerProofs ----------------------------
(***************************************************************************)
(* Theorems about ThreadList and Server, for any number of threads,        *)
(* addresses, callers of end_threads, listening sockets and commands.  The *)
(* first part is about the list alone; the server's threads use the list   *)
(* as ThreadList says, so what is proved of the list holds in the server.  *)
(***************************************************************************)
EXTENDS Server, SequenceTheorems, FiniteSetTheorems, WellFoundedInduction, TLAPS

\* How many addresses there are.
N == Cardinality(Nodes)

\* The nodes of a sequence are linked in its order, from head to NULL.
Links(c) ==
  /\ c \in Seq(Nodes) /\ Len(c) <= N
  /\ IF c = <<>> THEN head = NULL ELSE head = c[1] /\ next[c[Len(c)]] = NULL
  /\ \A k \in DOMAIN c : k < Len(c) => next[c[k]] = c[k + 1]

\* The list is made of live nodes for different threads; its last pointer is to
\* its last node or to none of them.
ChainInv ==
  /\ Links(Chain)
  /\ \A k \in DOMAIN Chain :
       /\ Chain[k] \in live /\ tid[Chain[k]] \in Threads
       /\ pc[tid[Chain[k]]] \in {"serving", "searching", "ended"}
  /\ \A j, k \in DOMAIN Chain : j # k => tid[Chain[j]] # tid[Chain[k]]
  /\ Chain # <<>> => last \in Nodes /\ \A k \in DOMAIN Chain : k < Len(Chain) => Chain[k] # last

\* A node that was handed out stands for a thread.
LiveInv == \A n \in live : tid[n] \in Threads

\* rmv_thread has looked at the first i nodes.
Searched(t, i) ==
  /\ prev = (IF i = 0 THEN NULL ELSE Chain[i])
  /\ aux = (IF i = Len(Chain) THEN NULL ELSE Chain[i + 1])
  /\ \A j \in 1 .. i : tid[Chain[j]] # t

\* A thread that searches has the place of prev and aux; what it frees is off the chain.
RmvInv ==
  \A t \in Threads :
    /\ pc[t] = "searching" => \E i \in 0 .. Len(Chain) : Searched(t, i)
    /\ pc[t] = "freeing" => aux \in Nodes /\ \A k \in DOMAIN Chain : Chain[k] # aux

\* Who waits in pthread_join, and who was waited for.
JoinInv ==
  /\ \A k \in Callers : joining[k] # NULL <=> walk[k] = "joining"
  /\ \A t \in joined : pc[t] = "ended"
  /\ Closing = {} => joined = {}
  /\ \A k \in Closing : k # MAIN => pc[k] # "ended"

\* All that the walk of a caller may leave of a thread it has come past.
Settled(k, t) ==
  t = k \/ pc[t] = "ended" \/ joining[t] = k \/ \E j \in Callers \ {k} : joining[j] = t

\* The threads of the first n nodes.
First(n) == {tid[Chain[j]] : j \in 1 .. n}

\* The walk of a caller has come past the first i - 1 nodes.
Walked(k, i) ==
  /\ IF cursor[k] = NULL THEN walk[k] \in {"at", "done", "undefined"} /\ due[k] \subseteq First(i - 1)
                         ELSE i <= Len(Chain) /\ cursor[k] = Chain[i] /\ walk[k] # "done"
  /\ \A t \in First(i - 1) : Settled(k, t)
  /\ walk[k] = "joining" => joining[k] = tid[Chain[i]]
  /\ walk[k] = "joined" => Settled(k, tid[Chain[i]])
  /\ Closing = {k} => joined \subseteq First(IF walk[k] = "joined" THEN i ELSE i - 1)

\* As long as nobody leaves meanwhile, every walk is somewhere on the chain.
WalkInv ==
  ~raced => \A k \in Closing :
    /\ due[k] \subseteq First(Len(Chain))
    /\ walk[k] = "undefined" => Closing # {k}
    /\ \E i \in 1 .. (Len(Chain) + 1) : Walked(k, i)

\* The inductive invariant.
IInv == TypeOK /\ IsFiniteSet(Closing) /\ ChainInv /\ LiveInv /\ RmvInv /\ JoinInv /\ WalkInv

-----------------------------------------------------------------------------
(* The chain of the nodes, which is all that can be reached from head. *)

\* The least-number principle.
LEMMA Least ==
  ASSUME NEW T \in SUBSET Nat, T # {}
  PROVE  \E m \in T : \A k \in T : m <= k
<1> DEFINE R == OpToRel(<, Nat)
<1>1. IsWellFoundedOn(R, Nat)
  BY NatLessThanWellFounded
<1>2. PICK m \in T : \A k \in T : <<k, m>> \notin R
  <2> HIDE DEF R
  <2>1. QED
    BY <1>1, WFMin
<1>3. \A k \in T : <<k, m>> \in R <=> k < m
  BY DEF OpToRel
<1> HIDE DEF R
<1>4. \A k \in T : ~(k < m) => m <= k
  OBVIOUS
<1>5. QED
  BY <1>2, <1>3, <1>4

\* The facts about the constants.
LEMMA ConstantFacts ==
  N \in Nat /\ IsFiniteSet(Nodes) /\ NULL \notin Nodes /\ NULL \notin Threads /\ MAIN \notin Threads /\ NULL \notin Callers
<1>1. N \in Nat
  BY ThreadListAssumption, FS_CardinalityType DEF N
<1>2. QED
  BY <1>1, ThreadListAssumption DEF Callers

\* What ChainNode is defined from.
Follow(f) ==
  [k \in 1 .. N |-> IF k = 1 THEN head ELSE IF f[k - 1] = NULL THEN NULL ELSE next[f[k - 1]]]

\* Only one function follows the pointers.
LEMMA FollowUnique ==
  ASSUME NEW f, NEW g, f = Follow(f), g = Follow(g)
  PROVE  f = g
<1> DEFINE D == {k \in 1 .. N : f[k] # g[k]}
<1>1. f = [k \in 1 .. N |-> f[k]] /\ g = [k \in 1 .. N |-> g[k]]
  BY Zenon DEF Follow
<1>2. /\ \A k \in 1 .. N : f[k] = IF k = 1 THEN head ELSE IF f[k - 1] = NULL THEN NULL ELSE next[f[k - 1]]
      /\ \A k \in 1 .. N : g[k] = IF k = 1 THEN head ELSE IF g[k - 1] = NULL THEN NULL ELSE next[g[k - 1]]
  BY Zenon DEF Follow
<1>3. D = {}
  <2>1. SUFFICES ASSUME D # {} PROVE FALSE
    OBVIOUS
  <2>2. D \in SUBSET Nat
    BY ConstantFacts
  <2>3. PICK m \in D : \A k \in D : m <= k
    BY <2>1, <2>2, Least
  <2>4. m \in 1 .. N /\ f[m] # g[m]
    OBVIOUS
  <2>5. m # 1
    BY <1>2, <2>4
  <2>6. m - 1 \in 1 .. N /\ m - 1 \notin D
    BY <2>3, <2>4, <2>5, ConstantFacts
  <2>7. f[m - 1] = g[m - 1]
    BY <2>6
  <2>8. QED
    BY <1>2, <2>4, <2>5, <2>7
<1>4. \A k \in 1 .. N : f[k] = g[k]
  BY <1>3
<1>5. QED
  BY <1>1, <1>4

\* A sequence that is linked from head to NULL is the chain.
LEMMA ChainIs == \A c : Links(c) => Chain = c
<1> SUFFICES ASSUME NEW c, Links(c) PROVE Chain = c
  OBVIOUS
<1>1. c \in Seq(Nodes) /\ Len(c) \in Nat /\ Len(c) <= N /\ DOMAIN c = 1 .. Len(c)
  BY DEF Links
<1> DEFINE f == [k \in 1 .. N |-> IF k <= Len(c) THEN c[k] ELSE NULL]
<1>2. f = Follow(f)
  <2>1. ASSUME NEW k \in 1 .. N
        PROVE  f[k] = IF k = 1 THEN head ELSE IF f[k - 1] = NULL THEN NULL ELSE next[f[k - 1]]
    <3>1. CASE k = 1
      BY <1>1, <3>1 DEF Links
    <3>2. CASE k # 1
      <4>1. k - 1 \in 1 .. N /\ k - 1 < k
        BY <3>2, ConstantFacts
      <4>2. CASE k - 1 > Len(c)
        <5>1. f[k - 1] = NULL /\ f[k] = NULL
          BY <1>1, <4>1, <4>2
        <5>2. QED
          BY <3>2, <5>1
      <4>3. CASE k - 1 = Len(c)
        <5>1. f[k - 1] = c[Len(c)] /\ f[k] = NULL /\ c # <<>>
          BY <1>1, <4>1, <4>3
        <5>2. c[Len(c)] # NULL
          BY <1>1, <4>1, <4>3, ConstantFacts
        <5>3. QED
          BY <3>2, <5>1, <5>2 DEF Links
      <4>4. CASE k <= Len(c)
        <5>1. f[k - 1] = c[k - 1] /\ f[k] = c[k] /\ k - 1 \in DOMAIN c /\ k - 1 < Len(c) /\ k - 1 + 1 = k
          BY <1>1, <4>1, <4>4
        <5>2. c[k - 1] # NULL
          BY <1>1, <5>1, ConstantFacts
        <5>3. next[c[k - 1]] = c[k]
          BY <5>1 DEF Links
        <5>4. QED
          BY <3>2, <5>1, <5>2, <5>3
      <4>5. QED
        BY <1>1, <4>2, <4>3, <4>4, ConstantFacts
    <3>3. QED
      BY <3>1, <3>2
  <2>2. QED
    BY <2>1 DEF Follow
<1>3. ChainNode = Follow(ChainNode)
  <2>1. ChainNode = CHOOSE g : g = Follow(g)
    BY DEF ChainNode, Follow, N
  <2>2. QED
    BY <1>2, <2>1, Zenon
<1>4. ChainNode = f
  BY <1>2, <1>3, FollowUnique
<1>5. {k \in DOMAIN ChainNode : ChainNode[k] # NULL} = 1 .. Len(c)
  BY <1>1, <1>4, ConstantFacts
<1>6. Cardinality(1 .. Len(c)) = Len(c)
  BY <1>1, FS_Interval
<1>7. Chain = SubSeq(f, 1, Len(c))
  BY <1>4, <1>5, <1>6 DEF Chain
<1>8. SubSeq(f, 1, Len(c)) = c
  <2>1. \A k \in 1 .. Len(c) : f[k] = c[k] /\ f[k] \in Nodes
    BY <1>1, ConstantFacts
  <2> HIDE DEF f
  <2>2. 1 \in Int /\ Len(c) \in Int
    BY <1>1
  <2>3. /\ SubSeq(f, 1, Len(c)) \in Seq(Nodes)
        /\ Len(SubSeq(f, 1, Len(c))) = IF 1 <= Len(c) THEN Len(c) - 1 + 1 ELSE 0
        /\ \A k \in 1 .. (Len(c) - 1 + 1) : SubSeq(f, 1, Len(c))[k] = f[1 + k - 1]
    BY <2>1, <2>2, SubSeqProperties
  <2>4. Len(SubSeq(f, 1, Len(c))) = Len(c) /\ Len(c) - 1 + 1 = Len(c)
    BY <1>1, <2>3
  <2>5. \A k \in 1 .. Len(c) : SubSeq(f, 1, Len(c))[k] = c[k]
    <3>1. \A k \in 1 .. Len(c) : 1 + k - 1 = k
      BY <1>1
    <3>2. QED
      BY <2>1, <2>3, <2>4, <3>1
  <2>6. QED
    BY <1>1, <2>3, <2>4, <2>5, SeqEqual
<1>9. QED
  BY <1>7, <1>8

\* The same of the next state.
LEMMA ChainIsNext == (\A c : Links(c) => Chain = c)'
BY ChainIs, PTL

\* As many numbers as there are from 1 to n.
LEMMA Interval ==
  ASSUME NEW n \in Nat
  PROVE  IsFiniteSet(1 .. n) /\ Cardinality(1 .. n) = n
<1>1. /\ IsFiniteSet(1 .. n)
      /\ Cardinality(1 .. n) = IF 1 > n THEN 0 ELSE n - 1 + 1
  BY FS_Interval
<1>2. QED
  BY <1>1

\* A sequence of different nodes is no longer than there are nodes.
LEMMA ShortChain ==
  ASSUME NEW c \in Seq(Nodes), \A j, k \in DOMAIN c : j # k => c[j] # c[k]
  PROVE  Len(c) <= N
<1>1. c \in [1 .. Len(c) -> Nodes] /\ Len(c) \in Nat /\ DOMAIN c = 1 .. Len(c)
  OBVIOUS
<1>2. IsFiniteSet(1 .. Len(c)) /\ Cardinality(1 .. Len(c)) = Len(c)
  BY <1>1, Interval
<1>3. SUFFICES ASSUME Cardinality(Nodes) < Cardinality(1 .. Len(c)) PROVE FALSE
  BY <1>1, <1>2, ConstantFacts DEF N
<1>4. \E x, y \in 1 .. Len(c) : x # y /\ c[x] = c[y]
  BY <1>1, <1>2, <1>3, ConstantFacts, FS_PigeonHole
<1>5. QED
  BY <1>1, <1>4

\* A sequence without one of its elements.
LEMMA RemoveAtFacts ==
  ASSUME NEW S, NEW s \in Seq(S), NEW i \in 1 .. Len(s)
  PROVE  /\ RemoveAt(s, i) \in Seq(S) /\ Len(RemoveAt(s, i)) = Len(s) - 1
         /\ \A k \in 1 .. (Len(s) - 1) : RemoveAt(s, i)[k] = IF k < i THEN s[k] ELSE s[k + 1]
<1> DEFINE a == SubSeq(s, 1, i - 1)
           b == SubSeq(s, i + 1, Len(s))
<1>1. Len(s) \in Nat /\ i \in Nat /\ 1 <= i /\ i <= Len(s)
  OBVIOUS
<1>2. a \in Seq(S) /\ Len(a) = i - 1 /\ \A k \in 1 .. (i - 1) : a[k] = s[k]
  <2>1. 1 \in Int /\ i - 1 \in Int /\ \A k \in 1 .. (i - 1) : s[k] \in S
    BY <1>1
  <2>2. /\ a \in Seq(S) /\ Len(a) = IF 1 <= i - 1 THEN i - 1 - 1 + 1 ELSE 0
        /\ \A k \in 1 .. (i - 1 - 1 + 1) : a[k] = s[1 + k - 1]
    BY <2>1, SubSeqProperties
  <2> HIDE DEF a
  <2>3. i - 1 - 1 + 1 = i - 1 /\ (~(1 <= i - 1) => i - 1 = 0) /\ \A k \in 1 .. (i - 1) : 1 + k - 1 = k
    BY <1>1
  <2>4. QED
    BY <1>1, <2>2, <2>3
<1>3. b \in Seq(S) /\ Len(b) = Len(s) - i /\ \A k \in 1 .. (Len(s) - i) : b[k] = s[i + k]
  <2>1. i + 1 \in Int /\ Len(s) \in Int /\ \A k \in (i + 1) .. Len(s) : s[k] \in S
    BY <1>1
  <2>2. /\ b \in Seq(S) /\ Len(b) = IF i + 1 <= Len(s) THEN Len(s) - (i + 1) + 1 ELSE 0
        /\ \A k \in 1 .. (Len(s) - (i + 1) + 1) : b[k] = s[i + 1 + k - 1]
    BY <2>1, SubSeqProperties
  <2> HIDE DEF b
  <2>3. /\ Len(s) - (i + 1) + 1 = Len(s) - i /\ (~(i + 1 <= Len(s)) => Len(s) - i = 0)
        /\ \A k \in 1 .. (Len(s) - i) : i + 1 + k - 1 = i + k
    BY <1>1
  <2>4. QED
    BY <1>1, <2>2, <2>3
<1> HIDE DEF a, b
<1>4. /\ a \o b \in Seq(S) /\ Len(a \o b) = Len(a) + Len(b)
      /\ \A k \in 1 .. (Len(a) + Len(b)) : (a \o b)[k] = IF k <= Len(a) THEN a[k] ELSE b[k - Len(a)]
  BY <1>2, <1>3, ConcatProperties
<1>5. Len(a) + Len(b) = Len(s) - 1
  BY <1>1, <1>2, <1>3
<1>6. ASSUME NEW k \in 1 .. (Len(s) - 1)
      PROVE  (a \o b)[k] = IF k < i THEN s[k] ELSE s[k + 1]
  <2>1. CASE k < i
    <3>1. k \in 1 .. (i - 1) /\ k <= Len(a)
      BY <1>1, <1>2, <2>1
    <3>2. QED
      BY <1>2, <1>4, <1>5, <2>1, <3>1
  <2>2. CASE ~(k < i)
    <3>1. k - (i - 1) \in 1 .. (Len(s) - i) /\ ~(k <= Len(a)) /\ i + (k - (i - 1)) = k + 1 /\ k - Len(a) = k - (i - 1)
      BY <1>1, <1>2, <2>2
    <3>2. QED
      BY <1>3, <1>4, <1>5, <2>2, <3>1
  <2>3. QED
    BY <2>1, <2>2
<1>7. RemoveAt(s, i) = a \o b
  BY DEF RemoveAt, a, b
<1>8. QED
  BY <1>4, <1>5, <1>6, <1>7

\* What the invariant says of the chain.
LEMMA ChainFacts ==
  ASSUME IInv
  PROVE  /\ Chain \in Seq(Nodes) /\ Len(Chain) \in Nat /\ DOMAIN Chain = 1 .. Len(Chain) /\ Len(Chain) <= N
         /\ Links(Chain) /\ (Chain = <<>> <=> Len(Chain) = 0)
         /\ \A j, k \in 1 .. Len(Chain) : j # k => Chain[j] # Chain[k] /\ tid[Chain[j]] # tid[Chain[k]]
         /\ \A k \in 1 .. Len(Chain) :
              /\ Chain[k] \in Nodes /\ Chain[k] \in live /\ Chain[k] # NULL /\ tid[Chain[k]] \in Threads
              /\ pc[tid[Chain[k]]] \in {"serving", "searching", "ended"}
<1>1. Chain \in Seq(Nodes) /\ Links(Chain) /\ Len(Chain) <= N
  BY DEF IInv, ChainInv, Links
<1>2. Len(Chain) \in Nat /\ DOMAIN Chain = 1 .. Len(Chain) /\ (Chain = <<>> <=> Len(Chain) = 0)
  BY <1>1
<1>3. \A k \in 1 .. Len(Chain) : Chain[k] \in Nodes /\ Chain[k] # NULL
  BY <1>1, <1>2, ConstantFacts
<1>4. \A j, k \in 1 .. Len(Chain) : j # k => tid[Chain[j]] # tid[Chain[k]]
  BY <1>2 DEF IInv, ChainInv
<1>5. \A j, k \in 1 .. Len(Chain) : j # k => Chain[j] # Chain[k]
  BY <1>4
<1>6. \A k \in 1 .. Len(Chain) :
        /\ Chain[k] \in live /\ tid[Chain[k]] \in Threads
        /\ pc[tid[Chain[k]]] \in {"serving", "searching", "ended"}
  BY <1>2 DEF IInv, ChainInv
<1>7. QED
  BY <1>1, <1>2, <1>3, <1>4, <1>5, <1>6

\* As long as no pointer changes the chain does not.
LEMMA ChainSame ==
  ASSUME IInv, head' = head, next' = next
  PROVE  Chain' = Chain
<1>1. PICK c : c = Chain
  OBVIOUS
<1>2. Links(c)
  BY <1>1 DEF IInv, ChainInv
<1>3. Links(c)'
  BY <1>2 DEF Links
<1>4. Chain' = c
  BY <1>3, ChainIsNext
<1>5. QED
  BY <1>1, <1>4

\* A node is added behind the last, unless that is not where last points.
LEMMA AddChain ==
  ASSUME IInv, NEW t \in Threads, NEW n \in Nodes \ live, LinkNode(t, n)
  PROVE  /\ Chain' = IF Chain = <<>> \/ last = Chain[Len(Chain)] THEN Append(Chain, n) ELSE Chain
         /\ \A k \in 1 .. Len(Chain) : Chain[k] # n /\ tid'[Chain[k]] = tid[Chain[k]]
         /\ tid'[n] = t /\ Links(Chain)'
<1>1. PICK c : c = Chain
  OBVIOUS
<1>2. /\ c \in Seq(Nodes) /\ Len(c) \in Nat /\ DOMAIN c = 1 .. Len(c) /\ Len(c) <= N /\ Links(c)
      /\ (c = <<>> <=> Len(c) = 0) /\ \A j, k \in 1 .. Len(c) : j # k => c[j] # c[k]
      /\ \A k \in 1 .. Len(c) : c[k] \in Nodes /\ c[k] \in live
  BY <1>1, ChainFacts
<1>3. \A k \in 1 .. Len(c) : c[k] # n
  BY <1>2
<1>4. tid \in [Nodes -> Threads \union {NULL}] /\ next \in [Nodes -> Pointer] /\ n \in Nodes
  BY DEF IInv, TypeOK
<1>5. tid' = [tid EXCEPT ![n] = t]
  BY DEF LinkNode
<1>6. tid'[n] = t /\ \A k \in 1 .. Len(c) : tid'[c[k]] = tid[c[k]]
  BY <1>2, <1>3, <1>4, <1>5
<1>7. c # <<>> => last \in Nodes /\ \A k \in 1 .. Len(c) : k < Len(c) => c[k] # last
  BY <1>1, <1>2 DEF IInv, ChainInv
<1>8. head = NULL <=> c = <<>>
  BY <1>2, ConstantFacts DEF Links
<1>9. CASE c = <<>>
  <2>1. head' = n /\ next' = [next EXCEPT ![n] = NULL]
    BY <1>8, <1>9 DEF LinkNode
  <2>2. next'[n] = NULL
    BY <1>4, <2>1
  <2>3. Append(c, n) = <<n>>
    BY <1>9
  <2>4. N >= 1
    <3>1. Nodes # {}
      BY <1>4
    <3>2. QED
      BY <3>1, FS_EmptySet, ConstantFacts DEF N
  <2>5. Links(<<n>>)'
    <3>1. <<n>> \in Seq(Nodes) /\ Len(<<n>>) = 1 /\ <<n>> # <<>> /\ <<n>>[1] = n /\ DOMAIN <<n>> = {1}
      BY <1>4
    <3>2. \A k \in DOMAIN <<n>> : ~(k < Len(<<n>>))
      BY <3>1
    <3>3. QED
      BY <2>1, <2>2, <2>4, <3>1, <3>2, ConstantFacts DEF Links
  <2>6. Chain' = <<n>> /\ Links(Chain)'
    BY <2>5, ChainIsNext DEF Links
  <2>7. QED
    BY <1>1, <1>3, <1>6, <1>9, <2>3, <2>6
<1>10. CASE c # <<>>
  <2>1. head' = head /\ next' = [next EXCEPT ![n] = NULL, ![last] = n] /\ last \in Nodes
    BY <1>7, <1>8, <1>10 DEF LinkNode
  <2>2. \A k \in 1 .. Len(c) : c[k] # last => next'[c[k]] = next[c[k]]
    BY <1>2, <1>3, <1>4, <2>1
  <2>3. Len(c) \in 1 .. Len(c) /\ head = c[1] /\ next[c[Len(c)]] = NULL
    BY <1>2, <1>10 DEF Links
  <2>4. \A k \in 1 .. Len(c) : k < Len(c) => next'[c[k]] = c[k + 1]
    BY <1>2, <1>7, <1>10, <2>2 DEF Links
  <2>5. CASE last = c[Len(c)]
    <3> DEFINE d == Append(c, n)
    <3>1. /\ d \in Seq(Nodes) /\ Len(d) = Len(c) + 1 /\ DOMAIN d = 1 .. (Len(c) + 1)
          /\ \A k \in 1 .. Len(c) : d[k] = c[k]
          /\ d[Len(c) + 1] = n
      BY <1>2, <1>4
    <3> HIDE DEF d
    <3>2. next'[last] = n /\ next'[n] = NULL
      BY <1>3, <1>4, <2>1, <2>3, <2>5
    <3>3. \A j, k \in DOMAIN d : j # k => d[j] # d[k]
      <4>1. \A k \in DOMAIN d : k \in 1 .. Len(c) \/ k = Len(c) + 1
        BY <1>2, <3>1
      <4>2. QED
        BY <1>2, <1>3, <3>1, <4>1
    <3>4. Len(d) <= N
      BY <3>1, <3>3, ShortChain
    <3>5. ASSUME NEW k \in DOMAIN d, k < Len(d) PROVE next'[d[k]] = d[k + 1]
      <4>1. k \in 1 .. Len(c)
        BY <1>2, <3>1, <3>5
      <4>2. CASE k = Len(c)
        BY <2>5, <3>1, <3>2, <4>1, <4>2
      <4>3. CASE k < Len(c)
        <5>1. k + 1 \in 1 .. Len(c)
          BY <1>2, <4>1, <4>3
        <5>2. QED
          BY <2>4, <3>1, <4>1, <4>3, <5>1
      <4>4. QED
        BY <1>2, <4>1, <4>2, <4>3
    <3>6. d # <<>> /\ d[1] = c[1] /\ d[Len(d)] = n
      BY <1>2, <2>3, <3>1
    <3>7. Links(d)'
      BY <2>1, <2>3, <3>1, <3>2, <3>4, <3>5, <3>6 DEF Links
    <3>8. Chain' = d /\ Links(Chain)'
      BY <3>7, ChainIsNext DEF Links
    <3>9. QED
      BY <1>1, <1>3, <1>6, <2>5, <3>8 DEF d
  <2>6. CASE last # c[Len(c)]
    <3>1. \A k \in 1 .. Len(c) : c[k] # last
      <4>1. \A k \in 1 .. Len(c) : k = Len(c) \/ k < Len(c)
        <5>1. Len(c) \in Nat
          BY <1>2
        <5>2. QED
          BY <5>1
      <4>2. QED
        BY <1>7, <1>10, <2>6, <4>1
    <3>2. Links(c)'
      BY <1>2, <1>10, <2>1, <2>2, <2>3, <2>4, <3>1 DEF Links
    <3>3. Chain' = c /\ Links(Chain)'
      BY <3>2, ChainIsNext DEF Links
    <3>4. QED
      BY <1>1, <1>3, <1>6, <1>10, <2>6, <3>3
  <2>7. QED
    BY <2>5, <2>6
<1>11. QED
  BY <1>9, <1>10

\* The node of the thread is taken out of the list, wherever it is.
LEMMA UnlinkChain ==
  ASSUME IInv, NEW t \in Threads, Unlink(t)
  PROVE  \E i \in 1 .. Len(Chain) :
           aux = Chain[i] /\ tid[Chain[i]] = t /\ Chain' = RemoveAt(Chain, i) /\ Links(Chain)'
<1>1. PICK c : c = Chain
  OBVIOUS
<1>2. /\ c \in Seq(Nodes) /\ Len(c) \in Nat /\ DOMAIN c = 1 .. Len(c) /\ Len(c) <= N /\ Links(c)
      /\ (c = <<>> <=> Len(c) = 0) /\ \A j, k \in 1 .. Len(c) : j # k => c[j] # c[k]
      /\ \A k \in 1 .. Len(c) : c[k] \in Nodes /\ c[k] # NULL
  BY <1>1, ChainFacts
<1>3. pc[t] = "searching" /\ aux # NULL /\ tid[aux] = t
  BY DEF Unlink, At
<1>4. PICK m \in 0 .. Len(c) : Searched(t, m)
  BY <1>1, <1>3 DEF IInv, RmvInv
<1>5. m # Len(c) /\ m \in Nat /\ m + 1 \in 1 .. Len(c) /\ aux = c[m + 1] /\ prev = (IF m = 0 THEN NULL ELSE c[m])
  <2>1. prev = (IF m = 0 THEN NULL ELSE c[m]) /\ aux = (IF m = Len(c) THEN NULL ELSE c[m + 1])
    BY <1>1, <1>4 DEF Searched
  <2>2. m # Len(c)
    BY <1>3, <2>1
  <2>3. Len(c) \in Nat
    BY <1>2
  <2>4. m \in Nat /\ m + 1 \in 1 .. Len(c)
    BY <2>2, <2>3
  <2>5. QED
    BY <2>1, <2>2, <2>4
<1> DEFINE i == m + 1
           d == RemoveAt(c, i)
<1>6. i \in 1 .. Len(c) /\ i \in Nat /\ i - 1 = m
  <2>1. m \in Nat /\ m + 1 \in 1 .. Len(c)
    BY <1>5
  <2>2. QED
    BY <2>1
<1>7. /\ d \in Seq(Nodes) /\ Len(d) = Len(c) - 1 /\ DOMAIN d = 1 .. Len(d)
      /\ \A k \in 1 .. (Len(c) - 1) : d[k] = IF k < i THEN c[k] ELSE c[k + 1]
  <2> HIDE DEF i
  <2>1. /\ RemoveAt(c, i) \in Seq(Nodes) /\ Len(RemoveAt(c, i)) = Len(c) - 1
        /\ \A k \in 1 .. (Len(c) - 1) : RemoveAt(c, i)[k] = IF k < i THEN c[k] ELSE c[k + 1]
    BY <1>2, <1>6, RemoveAtFacts
  <2>2. QED
    BY <2>1
<1>8. /\ head = c[1] /\ next[c[Len(c)]] = NULL /\ 1 \in 1 .. Len(c) /\ Len(c) \in 1 .. Len(c)
      /\ \A k \in 1 .. Len(c) : k < Len(c) => next[c[k]] = c[k + 1]
  <2>1. Len(c) \in Nat /\ Len(c) # 0
    BY <1>2, <1>6
  <2>2. 1 \in 1 .. Len(c) /\ Len(c) \in 1 .. Len(c)
    BY <2>1
  <2>3. QED
    BY <1>2, <2>1, <2>2 DEF Links
<1>9. next \in [Nodes -> Pointer]
  BY DEF IInv, TypeOK
<1>10. IF i = 1 THEN head' = next[c[1]] /\ next' = next
                ELSE head' = head /\ next' = [next EXCEPT ![c[i - 1]] = next[c[i]]]
  <2>1. CASE m = 0
    <3>1. prev = NULL
      BY <2>1, <1>4 DEF Searched
    <3>2. QED
      BY <2>1, <3>1, <1>5 DEF Unlink
  <2>2. CASE m # 0
    <3>1. prev = c[m] /\ prev # NULL
      <4>1. prev = c[m]
        BY <2>2, <1>5
      <4>2. Len(c) \in Nat /\ m \in 1 .. Len(c)
        <5>1. Len(c) \in Nat /\ m \in Nat /\ m + 1 \in 1 .. Len(c)
          BY <1>2, <1>5
        <5>2. QED
          BY <5>1, <2>2
      <4>3. QED
        BY <1>2, <4>1, <4>2
    <3>2. QED
      BY <2>2, <3>1, <1>5, <1>6 DEF Unlink
  <2>3. QED
    BY <2>1, <2>2
<1> HIDE DEF i, d
<1>11. Len(d) \in Nat /\ Len(d) <= N /\ (d = <<>> <=> Len(d) = 0)
  BY <1>2, <1>7, ConstantFacts
<1>12. \A k \in 1 .. Len(c) : k # i - 1 => next'[c[k]] = next[c[k]]
  BY <1>2, <1>6, <1>9, <1>10
<1>13. i # 1 => i - 1 \in 1 .. Len(c) /\ next'[c[i - 1]] = next[c[i]]
  <2>1. i # 1 => i - 1 \in 1 .. Len(c)
    BY <1>2, <1>6
  <2>2. QED
    BY <1>2, <1>9, <1>10, <2>1
<1>14. d = <<>> => head' = NULL
  <2>1. Len(c) \in Nat /\ Len(d) = Len(c) - 1 /\ (d = <<>> => Len(d) = 0)
    BY <1>2, <1>7, <1>11
  <2>2. Len(d) = 0 => Len(c) = 1
    BY <2>1
  <2>3. Len(c) = 1 => i = 1
    BY <1>6
  <2>4. QED
    BY <1>8, <1>10, <2>1, <2>2, <2>3
<1>15. d # <<>> => head' = d[1]
  <2>1. d # <<>> => 1 \in 1 .. (Len(c) - 1)
    BY <1>2, <1>7, <1>11
  <2>2. CASE i = 1
    BY <1>2, <1>7, <1>8, <1>10, <2>1, <2>2
  <2>3. CASE i # 1
    BY <1>6, <1>7, <1>8, <1>10, <2>1, <2>3
  <2>4. QED
    BY <2>2, <2>3
<1>16. ASSUME d # <<>> PROVE next'[d[Len(d)]] = NULL
  <2>1. Len(d) \in 1 .. (Len(c) - 1)
    BY <1>2, <1>7, <1>11, <1>16
  <2>2. CASE i = Len(c)
    <3>1. d[Len(d)] = c[i - 1] /\ i # 1
      BY <1>2, <1>6, <1>7, <2>1, <2>2
    <3>2. QED
      BY <1>8, <1>13, <2>2, <3>1
  <2>3. CASE i # Len(c)
    <3>1. ~(Len(d) < i) /\ Len(d) + 1 = Len(c) /\ Len(c) # i - 1
      <4>1. Len(c) \in Nat /\ Len(d) = Len(c) - 1
        BY <1>2, <1>7
      <4>2. i \in Nat /\ i <= Len(c) /\ i # Len(c)
        BY <1>6, <2>3, <4>1
      <4>3. QED
        BY <4>1, <4>2
    <3>2. d[Len(d)] = c[Len(c)]
      BY <1>7, <2>1, <3>1
    <3>3. QED
      BY <1>8, <1>12, <3>1, <3>2
  <2>4. QED
    BY <2>2, <2>3
<1>17. ASSUME NEW k \in DOMAIN d, k < Len(d) PROVE next'[d[k]] = d[k + 1]
  <2>1. k \in 1 .. (Len(c) - 1) /\ k + 1 \in 1 .. (Len(c) - 1) /\ k \in Nat /\ k + 1 + 1 \in 1 .. Len(c)
    BY <1>2, <1>7, <1>11, <1>17
  <2>2. CASE k + 1 < i
    <3>1. d[k] = c[k] /\ d[k + 1] = c[k + 1] /\ k # i - 1 /\ k < Len(c) /\ k \in 1 .. Len(c)
      BY <1>2, <1>6, <1>7, <2>1, <2>2
    <3>2. QED
      BY <1>8, <1>12, <3>1
  <2>3. CASE k + 1 = i
    <3>1. d[k] = c[i - 1] /\ i # 1 /\ d[k + 1] = c[i + 1] /\ i < Len(c)
      BY <1>2, <1>6, <1>7, <2>1, <2>3
    <3>2. QED
      BY <1>6, <1>8, <1>13, <3>1
  <2>4. CASE k + 1 > i
    <3>1. d[k] = c[k + 1] /\ d[k + 1] = c[k + 1 + 1] /\ k + 1 # i - 1 /\ k + 1 < Len(c) /\ k + 1 \in 1 .. Len(c)
      BY <1>2, <1>6, <1>7, <2>1, <2>4
    <3>2. QED
      BY <1>8, <1>12, <3>1
  <2>5. QED
    BY <1>6, <2>1, <2>2, <2>3, <2>4
<1>18. Links(d)'
  BY <1>7, <1>11, <1>14, <1>15, <1>16, <1>17 DEF Links
<1>19. Chain' = d /\ Links(Chain)'
  BY <1>18, ChainIsNext DEF Links
<1>20. QED
  BY <1>1, <1>3, <1>5, <1>6, <1>19 DEF i, d

-----------------------------------------------------------------------------
(* What the steps leave as it is. *)

\* When the list stays, what is true of it stays true as long as none of its
\* threads goes to rmv_thread's end.
LEMMA ChainKept ==
  ASSUME IInv, UNCHANGED <<head, last, tid, next>>, \A k \in DOMAIN Chain : Chain[k] \in live',
         \A k \in DOMAIN Chain : pc'[tid[Chain[k]]] \in {"serving", "searching", "ended"}
  PROVE  ChainInv' /\ Chain' = Chain
<1>1. Chain' = Chain
  BY ChainSame
<1>2. Links(Chain)'
  BY <1>1 DEF IInv, ChainInv, Links
<1>3. QED
  BY <1>1, <1>2 DEF IInv, ChainInv

\* Nodes keep their threads.
LEMMA LiveKept == ASSUME IInv, tid' = tid, live' \subseteq live PROVE LiveInv'
BY DEF IInv, LiveInv

\* The walks go on while a worker takes a step that unlinks nothing.
LEMMA WalkKept ==
  ASSUME IInv, UNCHANGED <<walk, cursor, joining, joined, due>>, raced => raced',
         \A t \in Threads : pc[t] = "ended" => pc'[t] = "ended",
         ~raced' /\ Closing # {} =>
           /\ Len(Chain') \in Nat /\ Len(Chain) <= Len(Chain')
           /\ \A j \in 1 .. Len(Chain) : Chain'[j] = Chain[j] /\ tid'[Chain[j]] = tid[Chain[j]]
  PROVE  WalkInv'
<1>1. Closing' = Closing
  BY DEF Closing
<1>2. SUFFICES ASSUME ~raced', NEW k \in Closing PROVE
        /\ due'[k] \subseteq First(Len(Chain))'
        /\ walk'[k] = "undefined" => Closing' # {k}
        /\ \E i \in 1 .. (Len(Chain') + 1) : Walked(k, i)'
  BY <1>1 DEF WalkInv
<1>3. ~raced /\ Closing # {} /\ Len(Chain) \in Nat
  BY <1>2, ChainFacts
<1>4. /\ Len(Chain') \in Nat /\ Len(Chain) <= Len(Chain')
      /\ \A j \in 1 .. Len(Chain) : Chain'[j] = Chain[j] /\ tid'[Chain[j]] = tid[Chain[j]]
  BY <1>2, <1>3
<1>5. /\ due[k] \subseteq First(Len(Chain)) /\ (walk[k] = "undefined" => Closing # {k})
      /\ \E i \in 1 .. (Len(Chain) + 1) : Walked(k, i)
  BY <1>2, <1>3 DEF IInv, WalkInv
<1>6. \A n \in 0 .. Len(Chain) : First(n)' = First(n)
  <2>1. SUFFICES ASSUME NEW n \in 0 .. Len(Chain) PROVE First(n)' = First(n)
    OBVIOUS
  <2>2. \A j \in 1 .. n : tid'[Chain'[j]] = tid[Chain[j]]
    BY <1>3, <1>4
  <2>3. QED
    BY <2>2 DEF First
<1>7. First(Len(Chain)) \subseteq First(Len(Chain))'
  <2>1. \A j \in 1 .. Len(Chain) : j \in 1 .. Len(Chain') /\ tid'[Chain'[j]] = tid[Chain[j]]
    BY <1>3, <1>4
  <2>2. QED
    BY <2>1 DEF First
<1>8. \A t \in Threads : Settled(k, t) => Settled(k, t)'
  BY DEF Settled
<1>9. PICK i \in 1 .. (Len(Chain) + 1) : Walked(k, i)
  BY <1>5
<1>10. i - 1 \in 0 .. Len(Chain) /\ i \in 1 .. (Len(Chain') + 1) /\ i \in Nat
  BY <1>3, <1>4
<1>11. First(i - 1)' = First(i - 1)
  BY <1>6, <1>10
<1>12. cursor[k] # NULL => i \in 1 .. Len(Chain) /\ i \in 0 .. Len(Chain) /\ cursor[k] = Chain[i]
  BY <1>3, <1>9, <1>10 DEF Walked
<1>13. cursor[k] # NULL => Chain'[i] = Chain[i] /\ tid'[Chain'[i]] = tid[Chain[i]] /\ First(i)' = First(i)
  BY <1>4, <1>6, <1>12
<1>14. \A t \in First(i - 1) : t \in Threads
  <2>1. \A j \in 1 .. (i - 1) : tid[Chain[j]] \in Threads
    BY <1>3, <1>10, ChainFacts
  <2>2. QED
    BY <2>1 DEF First
<1>15. cursor[k] # NULL => tid[Chain[i]] \in Threads
  BY <1>12, ChainFacts
<1>16. cursor[k] = NULL => walk[k] \in {"at", "done", "undefined"}
  BY <1>9 DEF Walked
<1>17. Walked(k, i)'
  <2>1. CASE cursor[k] = NULL
    <3>1. walk[k] \notin {"joining", "joined"}
      BY <1>16, <2>1
    <3>2. QED
      BY <1>1, <1>8, <1>9, <1>11, <1>14, <2>1, <3>1 DEF Walked
  <2>2. CASE cursor[k] # NULL
    <3>1. i <= Len(Chain')
      BY <1>3, <1>4, <1>12, <2>2
    <3>2. QED
      BY <1>1, <1>8, <1>9, <1>11, <1>13, <1>14, <1>15, <2>2, <3>1 DEF Walked
  <2>3. QED
    BY <2>1, <2>2
<1>18. QED
  BY <1>1, <1>5, <1>7, <1>10, <1>17

\* What the threads in pthread_join wait for while a worker takes a step.
LEMMA JoinKept ==
  ASSUME IInv, UNCHANGED <<walk, joining, joined>>,
         \A t \in Threads : pc[t] = "ended" => pc'[t] = "ended",
         \A t \in Threads : pc'[t] = "ended" => pc[t] = "ended" \/ t \notin Closing
  PROVE  JoinInv' /\ IsFiniteSet(Closing)' /\ Closing' = Closing
<1>1. Closing' = Closing
  BY DEF Closing
<1>2. joined \subseteq Threads /\ \A k \in Closing : k # MAIN => k \in Threads
  BY DEF IInv, TypeOK, Closing, Callers
<1>3. QED
  BY <1>1, <1>2 DEF IInv, JoinInv

-----------------------------------------------------------------------------
(* The workers. *)

\* A worker adds itself.
LEMMA AddThreadKeeps ==
  ASSUME IInv, NEW t \in Threads, AddThread(t) PROVE IInv'
<1>1. PICK n \in Nodes \ live : LinkNode(t, n)
  BY DEF AddThread
<1>2. /\ Chain' = (IF Chain = <<>> \/ last = Chain[Len(Chain)] THEN Append(Chain, n) ELSE Chain)
      /\ \A k \in 1 .. Len(Chain) : Chain[k] # n /\ tid'[Chain[k]] = tid[Chain[k]]
      /\ tid'[n] = t /\ Links(Chain)'
  BY <1>1, AddChain
<1>3. /\ pc[t] = "new" /\ t \notin Closing /\ holder = NULL /\ pc' = [pc EXCEPT ![t] = "serving"]
      /\ UNCHANGED <<holder, aux, prev, walk, cursor, joining, joined, due, raced>>
  BY DEF AddThread, At, walker, history
<1>4. live' = live \union {n} /\ last' = n /\ n \in Nodes
  BY <1>1 DEF LinkNode
<1>5. pc \in [Threads -> {"new", "serving", "searching", "freeing", "leaving", "ended"}]
  BY DEF IInv, TypeOK
<1>6. pc'[t] = "serving" /\ \A u \in Threads : u # t => pc'[u] = pc[u]
  BY <1>3, <1>5
<1>7. \A u \in Threads : pc'[u] \notin {"searching", "freeing"}
  <2>1. \A u \in Threads : pc[u] \notin {"searching", "freeing"}
    BY <1>3, ConstantFacts DEF IInv, TypeOK
  <2>2. QED
    BY <1>6, <2>1
<1>8. TypeOK'
  <2>1. head' \in Pointer /\ next' \in [Nodes -> Pointer] /\ tid' \in [Nodes -> Threads \union {NULL}]
    BY <1>1, <1>4 DEF IInv, TypeOK, LinkNode, Pointer
  <2>2. \A u \in Threads : pc'[u] \in {"searching", "freeing"} <=> holder' = u
    BY <1>3, <1>7, ConstantFacts
  <2>3. pc' \in [Threads -> {"new", "serving", "searching", "freeing", "leaving", "ended"}]
    BY <1>3, <1>5
  <2>4. Closing' = Closing
    BY <1>3 DEF Closing
  <2>5. last' \in Pointer /\ live' \subseteq Nodes
    BY <1>4 DEF IInv, TypeOK, Pointer
  <2>6. {head', last', aux', prev'} \subseteq Pointer
    BY <1>3, <2>1, <2>5 DEF IInv, TypeOK
  <2>7. QED
    BY <1>3, <2>1, <2>2, <2>3, <2>4, <2>5, <2>6 DEF IInv, TypeOK
<1>9. /\ Chain \in Seq(Nodes) /\ Len(Chain) \in Nat /\ DOMAIN Chain = 1 .. Len(Chain)
      /\ (Chain = <<>> <=> Len(Chain) = 0)
      /\ \A j, k \in 1 .. Len(Chain) : j # k => tid[Chain[j]] # tid[Chain[k]]
      /\ \A k \in 1 .. Len(Chain) :
           /\ Chain[k] \in live /\ tid[Chain[k]] \in Threads
           /\ pc[tid[Chain[k]]] \in {"serving", "searching", "ended"}
  BY ChainFacts
<1>10. \A k \in 1 .. Len(Chain) :
         /\ Chain[k] \in live' /\ tid'[Chain[k]] \in Threads /\ tid'[Chain[k]] # t
         /\ pc'[tid'[Chain[k]]] \in {"serving", "searching", "ended"}
  BY <1>2, <1>3, <1>4, <1>6, <1>9
<1>11. \A j, k \in 1 .. Len(Chain) : j # k => tid'[Chain[j]] # tid'[Chain[k]]
  BY <1>2, <1>9
<1>12. ASSUME Chain = <<>> \/ last = Chain[Len(Chain)] PROVE ChainInv' /\ WalkInv'
  <2> DEFINE d == Append(Chain, n)
  <2>1. /\ Len(d) = Len(Chain) + 1 /\ DOMAIN d = 1 .. (Len(Chain) + 1) /\ Len(d) \in Nat
        /\ \A k \in 1 .. Len(Chain) : d[k] = Chain[k]
        /\ d[Len(Chain) + 1] = n
    BY <1>4, <1>9
  <2>2. Chain' = d
    BY <1>2, <1>12
  <2> HIDE DEF d
  <2>3. \A k \in DOMAIN d : k \in 1 .. Len(Chain) \/ k = Len(Chain) + 1
    BY <1>9, <2>1
  <2>4. ChainInv'
    <3>1. \A k \in DOMAIN d :
            /\ d[k] \in live' /\ tid'[d[k]] \in Threads
            /\ pc'[tid'[d[k]]] \in {"serving", "searching", "ended"}
      BY <1>2, <1>4, <1>6, <1>10, <2>1, <2>3
    <3>2. \A j, k \in DOMAIN d : j # k => tid'[d[j]] # tid'[d[k]]
      BY <1>2, <1>10, <1>11, <2>1, <2>3
    <3>3. \A k \in DOMAIN d : k < Len(d) => d[k] # last'
      <4>1. \A k \in DOMAIN d : k < Len(d) => k \in 1 .. Len(Chain)
        BY <1>9, <2>1
      <4>2. QED
        BY <1>2, <1>4, <2>1, <4>1
    <3>4. Links(Chain)' /\ last' \in Nodes
      BY <1>2, <1>4
    <3>5. QED
      BY <2>2, <3>1, <3>2, <3>3, <3>4 DEF ChainInv
  <2>5. WalkInv'
    <3>1. Len(Chain') \in Nat /\ Len(Chain) <= Len(Chain')
      BY <1>9, <2>1, <2>2
    <3>2. \A j \in 1 .. Len(Chain) : Chain'[j] = Chain[j] /\ tid'[Chain[j]] = tid[Chain[j]]
      BY <1>2, <2>1, <2>2
    <3>3. \A u \in Threads : pc[u] = "ended" => pc'[u] = "ended"
      BY <1>3, <1>6
    <3>4. QED
      BY <1>3, <3>1, <3>2, <3>3, WalkKept
  <2>6. QED
    BY <2>4, <2>5
<1>13. ASSUME ~(Chain = <<>> \/ last = Chain[Len(Chain)]) PROVE ChainInv' /\ WalkInv'
  <2>1. Chain' = Chain
    BY <1>2, <1>13
  <2>2. ChainInv'
    <3>1. \A k \in DOMAIN Chain' : k < Len(Chain') => Chain'[k] # last'
      BY <1>2, <1>4, <1>9, <2>1
    <3>2. QED
      BY <1>2, <1>4, <1>9, <1>10, <1>11, <2>1, <3>1 DEF ChainInv
  <2>3. WalkInv'
    <3>1. Len(Chain') \in Nat /\ Len(Chain) <= Len(Chain')
      BY <1>9, <2>1
    <3>2. \A u \in Threads : pc[u] = "ended" => pc'[u] = "ended"
      BY <1>3, <1>6
    <3>3. QED
      BY <1>2, <1>3, <2>1, <3>1, <3>2, WalkKept
  <2>4. QED
    BY <2>2, <2>3
<1>14. RmvInv'
  BY <1>7 DEF RmvInv
<1>15. JoinInv' /\ IsFiniteSet(Closing)'
  <2>1. \A u \in Threads : pc[u] = "ended" <=> pc'[u] = "ended"
    BY <1>3, <1>6
  <2>2. QED
    BY <1>3, <2>1, JoinKept
<1>16. LiveInv'
  <2>1. tid \in [Nodes -> Threads \union {NULL}] /\ tid' = [tid EXCEPT ![n] = t] /\ live \subseteq Nodes
    BY <1>1 DEF IInv, TypeOK, LinkNode
  <2>2. QED
    BY <1>4, <2>1 DEF IInv, LiveInv
<1>17. QED
  BY <1>8, <1>12, <1>13, <1>14, <1>15, <1>16 DEF IInv

\* What a worker in rmv_thread keeps of the types: it is the one with the lock.
LEMMA OneHolder ==
  ASSUME IInv, NEW t \in Threads, pc[t] \in {"searching", "freeing"}
  PROVE  holder = t /\ \A u \in Threads : u # t => pc[u] \notin {"searching", "freeing"}
BY DEF IInv, TypeOK

\* A step of a worker that leaves the list as it is.
LEMMA WorkerKeeps ==
  ASSUME IInv, NEW t \in Threads,
         NEW s \in {"serving", "searching", "freeing", "leaving", "ended"},
         pc' = [pc EXCEPT ![t] = s], pc[t] # "ended", s = "ended" => t \notin Closing,
         UNCHANGED <<head, last, tid, next, walker, history>>,
         \A k \in DOMAIN Chain : Chain[k] \in live',
         s \in {"serving", "searching", "ended"} \/ \A k \in DOMAIN Chain : tid[Chain[k]] # t
  PROVE  /\ ChainInv' /\ WalkInv' /\ JoinInv' /\ IsFiniteSet(Closing)' /\ Closing' = Closing
         /\ Chain' = Chain /\ pc'[t] = s /\ \A u \in Threads : u # t => pc'[u] = pc[u]
         /\ pc' \in [Threads -> {"new", "serving", "searching", "freeing", "leaving", "ended"}]
<1>1. pc \in [Threads -> {"new", "serving", "searching", "freeing", "leaving", "ended"}]
  BY DEF IInv, TypeOK
<1>2. /\ pc'[t] = s /\ \A u \in Threads : u # t => pc'[u] = pc[u]
      /\ pc' \in [Threads -> {"new", "serving", "searching", "freeing", "leaving", "ended"}]
  BY <1>1
<1>3. \A k \in DOMAIN Chain :
        tid[Chain[k]] \in Threads /\ pc[tid[Chain[k]]] \in {"serving", "searching", "ended"}
  BY DEF IInv, ChainInv
<1>4. \A k \in DOMAIN Chain : pc'[tid[Chain[k]]] \in {"serving", "searching", "ended"}
  BY <1>2, <1>3
<1>5. ChainInv' /\ Chain' = Chain
  BY <1>4, ChainKept
<1>6. \A u \in Threads : pc[u] = "ended" => pc'[u] = "ended"
  BY <1>2
<1>7. \A u \in Threads : pc'[u] = "ended" => pc[u] = "ended" \/ u \notin Closing
  BY <1>2
<1>8. JoinInv' /\ IsFiniteSet(Closing)' /\ Closing' = Closing
  BY <1>6, <1>7, JoinKept DEF walker
<1>9. WalkInv'
  <2>1. Len(Chain) \in Nat
    BY ChainFacts
  <2>2. Len(Chain') \in Nat /\ Len(Chain) <= Len(Chain')
    BY <1>5, <2>1
  <2>3. QED
    BY <1>5, <1>6, <2>2, WalkKept DEF walker, history
<1>10. QED
  BY <1>2, <1>5, <1>8, <1>9

\* A worker takes the lock to remove itself.
LEMMA RmvThreadKeeps ==
  ASSUME IInv, NEW t \in Threads, RmvThread(t) PROVE IInv'
<1>1. /\ pc[t] = "serving" /\ holder = NULL /\ holder' = t /\ aux' = head /\ prev' = NULL
      /\ pc' = [pc EXCEPT ![t] = "searching"] /\ UNCHANGED <<list, walker, history>>
  BY DEF RmvThread, At
<1>2. /\ head' = head /\ last' = last /\ tid' = tid /\ next' = next /\ live' = live
      /\ UNCHANGED <<walker, history>>
  BY <1>1 DEF list
<1>3. \A k \in DOMAIN Chain : Chain[k] \in live'
  BY <1>2 DEF IInv, ChainInv
<1>4. /\ ChainInv' /\ WalkInv' /\ JoinInv' /\ IsFiniteSet(Closing)' /\ Closing' = Closing
      /\ Chain' = Chain /\ pc'[t] = "searching" /\ \A u \in Threads : u # t => pc'[u] = pc[u]
      /\ pc' \in [Threads -> {"new", "serving", "searching", "freeing", "leaving", "ended"}]
  BY <1>1, <1>2, <1>3, WorkerKeeps
<1>5. \A u \in Threads : pc[u] \notin {"searching", "freeing"}
  BY <1>1, ConstantFacts DEF IInv, TypeOK
<1>6. \A u \in Threads : pc'[u] \in {"searching", "freeing"} <=> holder' = u
  BY <1>1, <1>4, <1>5
<1>7. TypeOK'
  <2>1. {head', last', aux', prev'} \subseteq Pointer
    BY <1>1, <1>2 DEF IInv, TypeOK, Pointer
  <2>2. QED
    BY <1>1, <1>2, <1>4, <1>6, <2>1 DEF IInv, TypeOK, walker, history
<1>8. RmvInv'
  <2>1. Searched(t, 0)'
    <3>1. Len(Chain) \in Nat /\ (Chain = <<>> <=> Len(Chain) = 0) /\ Links(Chain)
      BY ChainFacts
    <3>2. head = IF 0 = Len(Chain) THEN NULL ELSE Chain[0 + 1]
      BY <3>1 DEF Links
    <3>3. \A j \in 1 .. 0 : tid'[Chain'[j]] # t
      OBVIOUS
    <3>4. QED
      BY <1>1, <1>4, <3>2, <3>3 DEF Searched
  <2>2. 0 \in 0 .. Len(Chain')
    BY <1>4, ChainFacts
  <2>3. QED
    BY <1>4, <1>5, <2>1, <2>2 DEF RmvInv
<1>9. QED
  BY <1>2, <1>4, <1>7, <1>8, LiveKept DEF IInv

\* rmv_thread goes on to the next node.
LEMMA SearchNextKeeps ==
  ASSUME IInv, NEW t \in Threads, SearchNext(t) PROVE IInv'
<1>1. /\ pc[t] = "searching" /\ aux # NULL /\ tid[aux] # t /\ prev' = aux /\ aux' = next[aux]
      /\ head' = head /\ last' = last /\ tid' = tid /\ next' = next /\ live' = live
      /\ holder' = holder /\ pc' = pc /\ UNCHANGED <<walker, history>>
  BY DEF SearchNext, At, list
<1>2. Len(Chain) \in Nat /\ Links(Chain) /\ \A k \in 1 .. Len(Chain) : Chain[k] \in Nodes /\ Chain[k] # NULL
  BY ChainFacts
<1>3. PICK i \in 0 .. Len(Chain) : Searched(t, i)
  BY <1>1 DEF IInv, RmvInv
<1>4. i \in Nat /\ i # Len(Chain) /\ aux = Chain[i + 1]
  BY <1>1, <1>2, <1>3 DEF Searched
<1>5. i + 1 \in 1 .. Len(Chain) /\ i + 1 \in 0 .. Len(Chain) /\ i + 1 # 0
  <2>1. Len(Chain) \in Nat
    BY <1>2
  <2>2. QED
    BY <1>4, <2>1
<1>6. ChainInv' /\ Chain' = Chain
  <2>1. \A k \in DOMAIN Chain :
          Chain[k] \in live' /\ pc'[tid[Chain[k]]] \in {"serving", "searching", "ended"}
    BY <1>1 DEF IInv, ChainInv
  <2>2. QED
    BY <1>1, <2>1, ChainKept
<1>7. next[Chain[i + 1]] = IF i + 1 = Len(Chain) THEN NULL ELSE Chain[i + 1 + 1]
  <2>1. Chain # <<>> /\ DOMAIN Chain = 1 .. Len(Chain)
    BY <1>5, ChainFacts
  <2>2. CASE i + 1 = Len(Chain)
    BY <1>2, <2>1, <2>2 DEF Links
  <2>3. CASE i + 1 # Len(Chain)
    <3>1. i + 1 < Len(Chain)
      BY <1>2, <1>5, <2>3
    <3>2. QED
      BY <1>2, <1>5, <2>1, <2>3, <3>1 DEF Links
  <2>4. QED
    BY <2>2, <2>3
<1>8. Searched(t, i + 1)'
  <2>1. \A j \in 1 .. (i + 1) : tid[Chain[j]] # t
    <3>1. \A j \in 1 .. (i + 1) : j = i + 1 \/ j \in 1 .. i
      BY <1>4
    <3>2. QED
      BY <1>1, <1>3, <1>4, <3>1 DEF Searched
  <2>2. QED
    BY <1>1, <1>4, <1>5, <1>6, <1>7, <2>1 DEF Searched
<1>9. RmvInv'
  <2>1. \A u \in Threads : u # t => pc[u] \notin {"searching", "freeing"}
    BY <1>1, OneHolder
  <2>2. QED
    BY <1>1, <1>5, <1>6, <1>8, <2>1 DEF RmvInv
<1>10. TypeOK'
  <2>1. {head', last', aux', prev'} \subseteq Pointer
    BY <1>1, <1>2, <1>4, <1>5 DEF IInv, TypeOK, Pointer
  <2>2. Closing' = Closing
    BY <1>1 DEF Closing, walker
  <2>3. QED
    BY <1>1, <2>1, <2>2 DEF IInv, TypeOK, walker, history
<1>11. JoinInv' /\ IsFiniteSet(Closing)'
  BY <1>1, JoinKept DEF walker
<1>12. WalkInv'
  <2>1. Len(Chain') \in Nat /\ Len(Chain) <= Len(Chain')
    BY <1>2, <1>6
  <2>2. QED
    BY <1>1, <1>6, <2>1, WalkKept DEF walker, history
<1>13. QED
  BY <1>1, <1>6, <1>9, <1>10, <1>11, <1>12, LiveKept DEF IInv

\* rmv_thread unlinks the node it has found.
LEMMA UnlinkKeeps ==
  ASSUME IInv, NEW t \in Threads, Unlink(t) PROVE IInv'
<1>1. PICK i \in 1 .. Len(Chain) :
        aux = Chain[i] /\ tid[Chain[i]] = t /\ Chain' = RemoveAt(Chain, i) /\ Links(Chain)'
  BY UnlinkChain
<1>2. /\ pc[t] = "searching" /\ t \notin Closing /\ pc' = [pc EXCEPT ![t] = "freeing"]
      /\ raced' = (raced \/ Closing # {}) /\ last' = last /\ tid' = tid /\ live' = live
      /\ holder' = holder /\ aux' = aux /\ prev' = prev
      /\ UNCHANGED <<walk, cursor, joining, joined, due>>
  BY DEF Unlink, At, walker
<1>3. /\ Chain \in Seq(Nodes) /\ Len(Chain) \in Nat /\ DOMAIN Chain = 1 .. Len(Chain)
      /\ \A j, k \in 1 .. Len(Chain) : j # k => Chain[j] # Chain[k] /\ tid[Chain[j]] # tid[Chain[k]]
      /\ \A k \in 1 .. Len(Chain) :
           /\ Chain[k] \in live /\ Chain[k] \in Nodes /\ tid[Chain[k]] \in Threads
           /\ pc[tid[Chain[k]]] \in {"serving", "searching", "ended"}
      /\ (Chain = <<>> <=> Len(Chain) = 0)
  BY ChainFacts
<1>4. /\ Len(Chain') = Len(Chain) - 1 /\ DOMAIN Chain' = 1 .. (Len(Chain) - 1)
      /\ \A k \in 1 .. (Len(Chain) - 1) : Chain'[k] = IF k < i THEN Chain[k] ELSE Chain[k + 1]
  <2>1. /\ RemoveAt(Chain, i) \in Seq(Nodes) /\ Len(RemoveAt(Chain, i)) = Len(Chain) - 1
        /\ \A k \in 1 .. (Len(Chain) - 1) : RemoveAt(Chain, i)[k] = IF k < i THEN Chain[k] ELSE Chain[k + 1]
    BY <1>3, RemoveAtFacts
  <2>2. QED
    BY <1>1, <1>3, <2>1
<1> DEFINE at(k) == IF k < i THEN k ELSE k + 1
<1>5. \A k \in 1 .. (Len(Chain) - 1) : at(k) \in 1 .. Len(Chain) /\ at(k) # i
  BY <1>3
<1>6. \A k \in 1 .. (Len(Chain) - 1) : Chain'[k] = Chain[at(k)]
  BY <1>4
<1>7. \A j, k \in 1 .. (Len(Chain) - 1) : j # k => at(j) # at(k)
  BY <1>3
<1> HIDE DEF at
<1>8. pc \in [Threads -> {"new", "serving", "searching", "freeing", "leaving", "ended"}]
  BY DEF IInv, TypeOK
<1>9. pc'[t] = "freeing" /\ \A u \in Threads : u # t => pc'[u] = pc[u]
  BY <1>2, <1>8
<1>10. ChainInv'
  <2>1. ASSUME NEW k \in 1 .. (Len(Chain) - 1)
        PROVE  /\ Chain'[k] \in live' /\ tid'[Chain'[k]] \in Threads
               /\ pc'[tid'[Chain'[k]]] \in {"serving", "searching", "ended"}
    <3>1. Chain'[k] = Chain[at(k)] /\ at(k) \in 1 .. Len(Chain) /\ at(k) # i
      BY <1>5, <1>6
    <3>2. tid[Chain[at(k)]] # t
      BY <1>1, <1>3, <3>1
    <3>3. QED
      BY <1>2, <1>3, <1>9, <3>1, <3>2
  <2>2. \A j, k \in 1 .. (Len(Chain) - 1) : j # k => tid'[Chain'[j]] # tid'[Chain'[k]]
    BY <1>2, <1>3, <1>5, <1>6, <1>7
  <2>3. Chain' # <<>> => last' \in Nodes
    <3>1. Chain # <<>>
      BY <1>1, <1>3
    <3>2. QED
      BY <1>2, <3>1 DEF IInv, ChainInv
  <2>4. \A k \in 1 .. (Len(Chain) - 1) : k < Len(Chain') => Chain'[k] # last'
    <3>1. SUFFICES ASSUME NEW k \in 1 .. (Len(Chain) - 1), k < Len(Chain') PROVE Chain'[k] # last'
      OBVIOUS
    <3>2. at(k) \in 1 .. Len(Chain) /\ at(k) < Len(Chain)
      BY <1>3, <1>4, <3>1 DEF at
    <3>3. Chain[at(k)] # last
      BY <1>3, <3>2 DEF IInv, ChainInv
    <3>4. QED
      BY <1>2, <1>6, <3>3
  <2>5. QED
    BY <1>1, <1>4, <2>1, <2>2, <2>3, <2>4 DEF ChainInv
<1>11. RmvInv'
  <2>1. \A u \in Threads : u # t => pc'[u] \notin {"searching", "freeing"}
    BY <1>2, <1>9, OneHolder
  <2>2. \A k \in DOMAIN Chain' : Chain'[k] # aux
    BY <1>1, <1>3, <1>4, <1>5, <1>6
  <2>3. aux' \in Nodes
    BY <1>1, <1>2, <1>3
  <2>4. QED
    BY <1>2, <1>9, <2>1, <2>2, <2>3 DEF RmvInv
<1>12. Closing' = Closing
  BY <1>2 DEF Closing
<1>13. TypeOK'
  <2>1. head' \in Pointer /\ next' \in [Nodes -> Pointer]
    <3>1. next[aux] \in Pointer
      BY <1>1, <1>3 DEF IInv, TypeOK
    <3>2. QED
      BY <3>1 DEF IInv, TypeOK, Unlink
  <2>2. {head', last', aux', prev'} \subseteq Pointer
    BY <1>2, <2>1 DEF IInv, TypeOK
  <2>3. \A u \in Threads : pc'[u] \in {"searching", "freeing"} <=> holder' = u
    BY <1>2, <1>9 DEF IInv, TypeOK
  <2>4. pc' \in [Threads -> {"new", "serving", "searching", "freeing", "leaving", "ended"}] /\ raced' \in BOOLEAN
    BY <1>2, <1>8 DEF IInv, TypeOK
  <2>5. QED
    BY <1>2, <1>12, <2>1, <2>2, <2>3, <2>4 DEF IInv, TypeOK
<1>14. JoinInv' /\ IsFiniteSet(Closing)'
  <2>1. \A u \in Threads : pc[u] = "ended" <=> pc'[u] = "ended"
    BY <1>2, <1>9
  <2>2. QED
    BY <1>2, <2>1, JoinKept
<1>15. WalkInv'
  <2>1. \A u \in Threads : pc[u] = "ended" => pc'[u] = "ended"
    BY <1>2, <1>9
  <2>2. ~(~raced' /\ Closing # {})
    BY <1>2
  <2>3. raced => raced'
    BY <1>2
  <2>4. QED
    BY <1>2, <2>1, <2>2, <2>3, WalkKept
<1>16. QED
  BY <1>2, <1>10, <1>11, <1>13, <1>14, <1>15, LiveKept DEF IInv

\* rmv_thread frees the node, and the worker gives the lock back.
LEMMA FreeNodeKeeps ==
  ASSUME IInv, NEW t \in Threads, FreeNode(t) PROVE IInv'
<1>1. /\ pc[t] = "freeing" /\ live' = live \ {aux} /\ holder' = NULL /\ aux' = NULL /\ prev' = NULL
      /\ pc' = [pc EXCEPT ![t] = "leaving"] /\ UNCHANGED <<head, last, tid, next, walker, history>>
  BY DEF FreeNode, At, Unlock
<1>2. \A k \in DOMAIN Chain : Chain[k] \in live'
  BY <1>1 DEF IInv, ChainInv, RmvInv
<1>3. \A k \in DOMAIN Chain : tid[Chain[k]] # t
  BY <1>1 DEF IInv, ChainInv
<1>4. /\ ChainInv' /\ WalkInv' /\ JoinInv' /\ IsFiniteSet(Closing)' /\ Closing' = Closing
      /\ Chain' = Chain /\ pc'[t] = "leaving" /\ \A u \in Threads : u # t => pc'[u] = pc[u]
      /\ pc' \in [Threads -> {"new", "serving", "searching", "freeing", "leaving", "ended"}]
  BY <1>1, <1>2, <1>3, WorkerKeeps
<1>5. \A u \in Threads : pc'[u] \notin {"searching", "freeing"}
  BY <1>1, <1>4, OneHolder
<1>6. TypeOK'
  <2>1. \A u \in Threads : pc'[u] \in {"searching", "freeing"} <=> holder' = u
    BY <1>1, <1>5, ConstantFacts
  <2>2. {head', last', aux', prev'} \subseteq Pointer
    BY <1>1 DEF IInv, TypeOK, Pointer
  <2>3. QED
    BY <1>1, <1>4, <2>1, <2>2 DEF IInv, TypeOK, walker, history
<1>7. RmvInv'
  BY <1>5 DEF RmvInv
<1>8. QED
  BY <1>1, <1>4, <1>6, <1>7, LiveKept DEF IInv

\* rmv_thread has found nothing, and the worker gives the lock back.
LEMMA NotFoundKeeps ==
  ASSUME IInv, NEW t \in Threads, NotFound(t) PROVE IInv'
<1>1. /\ pc[t] = "searching" /\ aux = NULL /\ holder' = NULL /\ aux' = NULL /\ prev' = NULL
      /\ pc' = [pc EXCEPT ![t] = "leaving"] /\ UNCHANGED <<list, walker, history>>
      /\ UNCHANGED <<head, last, tid, next, live>>
  BY DEF NotFound, At, Unlock, list
<1>2. \A k \in DOMAIN Chain : Chain[k] \in live'
  BY <1>1 DEF IInv, ChainInv
<1>3. \A k \in DOMAIN Chain : tid[Chain[k]] # t
  <2>1. PICK i \in 0 .. Len(Chain) : Searched(t, i)
    BY <1>1 DEF IInv, RmvInv
  <2>2. Len(Chain) \in Nat /\ DOMAIN Chain = 1 .. Len(Chain) /\ \A k \in 1 .. Len(Chain) : Chain[k] # NULL
    BY ChainFacts
  <2>3. i = Len(Chain)
    <3>1. SUFFICES ASSUME i # Len(Chain) PROVE FALSE
      OBVIOUS
    <3>2. i + 1 \in 1 .. Len(Chain)
      <4>1. Len(Chain) \in Nat
        BY <2>2
      <4>2. QED
        BY <3>1, <4>1
    <3>3. QED
      BY <1>1, <2>1, <2>2, <3>1, <3>2 DEF Searched
  <2>4. QED
    BY <2>1, <2>2, <2>3 DEF Searched
<1>4. /\ ChainInv' /\ WalkInv' /\ JoinInv' /\ IsFiniteSet(Closing)' /\ Closing' = Closing
      /\ Chain' = Chain /\ pc'[t] = "leaving" /\ \A u \in Threads : u # t => pc'[u] = pc[u]
      /\ pc' \in [Threads -> {"new", "serving", "searching", "freeing", "leaving", "ended"}]
  BY <1>1, <1>2, <1>3, WorkerKeeps
<1>5. \A u \in Threads : pc'[u] \notin {"searching", "freeing"}
  BY <1>1, <1>4, OneHolder
<1>6. TypeOK'
  <2>1. \A u \in Threads : pc'[u] \in {"searching", "freeing"} <=> holder' = u
    BY <1>1, <1>5, ConstantFacts
  <2>2. {head', last', aux', prev'} \subseteq Pointer
    BY <1>1 DEF IInv, TypeOK, Pointer
  <2>3. QED
    BY <1>1, <1>4, <2>1, <2>2 DEF IInv, TypeOK, walker, history
<1>7. RmvInv'
  BY <1>5 DEF RmvInv
<1>8. QED
  BY <1>1, <1>4, <1>6, <1>7, LiveKept DEF IInv

\* A worker ends.
LEMMA ThreadEndsKeeps ==
  ASSUME IInv, NEW t \in Threads, ThreadEnds(t) PROVE IInv'
<1>1. /\ pc[t] \in {"leaving", "serving"} /\ t \notin Closing /\ pc' = [pc EXCEPT ![t] = "ended"]
      /\ UNCHANGED <<head, last, tid, next, live>> /\ UNCHANGED <<holder, aux, prev, walker, history>>
  BY DEF ThreadEnds, At, list
<1>2. \A k \in DOMAIN Chain : Chain[k] \in live'
  BY <1>1 DEF IInv, ChainInv
<1>3. /\ ChainInv' /\ WalkInv' /\ JoinInv' /\ IsFiniteSet(Closing)' /\ Closing' = Closing
      /\ Chain' = Chain /\ pc'[t] = "ended" /\ \A u \in Threads : u # t => pc'[u] = pc[u]
      /\ pc' \in [Threads -> {"new", "serving", "searching", "freeing", "leaving", "ended"}]
  BY <1>1, <1>2, WorkerKeeps
<1>4. holder # t
  BY <1>1 DEF IInv, TypeOK
<1>5. TypeOK'
  <2>1. \A u \in Threads : pc'[u] \in {"searching", "freeing"} <=> holder' = u
    BY <1>1, <1>3, <1>4 DEF IInv, TypeOK
  <2>2. {head', last', aux', prev'} \subseteq Pointer
    BY <1>1 DEF IInv, TypeOK
  <2>3. QED
    BY <1>1, <1>3, <2>1, <2>2 DEF IInv, TypeOK, walker, history
<1>6. RmvInv'
  BY <1>1, <1>3 DEF IInv, RmvInv, Searched
<1>7. QED
  BY <1>1, <1>3, <1>5, <1>6, LiveKept DEF IInv

-----------------------------------------------------------------------------
(* The callers of end_threads. *)

\* A caller leaves the workers and the list as they are.
LEMMA CallerKeeps ==
  ASSUME IInv, UNCHANGED <<list, holder, aux, prev, pc>>
  PROVE  /\ ChainInv' /\ LiveInv' /\ RmvInv' /\ Chain' = Chain /\ Listed' = Listed /\ tid' = tid
         /\ \A n : First(n)' = First(n)
<1>1. UNCHANGED <<head, last, tid, next, live>> /\ UNCHANGED <<aux, prev, pc>>
  BY DEF list
<1>2. ChainInv' /\ Chain' = Chain
  <2>1. \A k \in DOMAIN Chain :
          Chain[k] \in live' /\ pc'[tid[Chain[k]]] \in {"serving", "searching", "ended"}
    BY <1>1 DEF IInv, ChainInv
  <2>2. QED
    BY <1>1, <2>1, ChainKept
<1>3. RmvInv'
  BY <1>1, <1>2 DEF IInv, RmvInv, Searched
<1>4. Listed' = Listed /\ \A n : First(n)' = First(n)
  BY <1>1, <1>2 DEF Listed, First
<1>5. QED
  BY <1>1, <1>2, <1>3, <1>4, LiveKept

\* A thread that a caller has come past stays so, as long as pthread_join only
\* starts, or returns for a thread that has ended.
LEMMA SettledKept ==
  ASSUME IInv, pc' = pc, NEW k \in Callers, NEW v \in Threads \union {NULL},
         joining' = [joining EXCEPT ![k] = v], joining[k] # NULL => pc[joining[k]] = "ended"
  PROVE  \A m \in Closing, t \in Threads : Settled(m, t) => Settled(m, t)'
<1>1. SUFFICES ASSUME NEW m \in Closing, NEW t \in Threads, Settled(m, t), ~(t = m), pc[t] # "ended"
               PROVE  joining'[t] = m \/ \E j \in Callers \ {m} : joining'[j] = t
  BY DEF Settled
<1>2. joining \in [Callers -> Threads \union {NULL}] /\ t \in Callers /\ m \in Callers
  BY DEF IInv, TypeOK, Callers, Closing
<1>3. CASE joining[t] = m
  <2>1. m # NULL /\ m # MAIN
    BY <1>2, <1>3, ConstantFacts
  <2>2. pc[m] # "ended"
    BY <2>1 DEF IInv, JoinInv
  <2>3. t # k
    BY <1>3, <2>1, <2>2
  <2>4. QED
    BY <1>2, <1>3, <2>3
<1>4. CASE \E j \in Callers \ {m} : joining[j] = t
  <2>1. PICK j \in Callers \ {m} : joining[j] = t
    BY <1>4
  <2>2. t # NULL
    BY ConstantFacts
  <2>3. j # k
    BY <1>1, <2>1, <2>2
  <2>4. QED
    BY <1>2, <2>1, <2>3
<1>5. QED
  BY <1>1, <1>3, <1>4 DEF Settled

\* The walks of the other callers.
LEMMA OtherWalks ==
  ASSUME IInv, UNCHANGED <<list, holder, aux, prev, pc>>, raced' = raced, ~raced,
         NEW k \in Callers, k \in Closing', Closing \subseteq Closing',
         NEW m \in Closing, m # k,
         walk'[m] = walk[m], cursor'[m] = cursor[m], due'[m] = due[m], joining'[m] = joining[m],
         \A t \in Threads : Settled(m, t) => Settled(m, t)'
  PROVE  /\ due'[m] \subseteq First(Len(Chain))'
         /\ walk'[m] = "undefined" => Closing' # {m}
         /\ \E i \in 1 .. (Len(Chain') + 1) : Walked(m, i)'
<1>1. Chain' = Chain /\ tid' = tid /\ \A n : First(n)' = First(n)
  BY CallerKeeps
<1>2. Closing' # {m}
  OBVIOUS
<1>3. /\ due[m] \subseteq First(Len(Chain))
      /\ \E i \in 1 .. (Len(Chain) + 1) : Walked(m, i)
  BY DEF IInv, WalkInv
<1>4. PICK i \in 1 .. (Len(Chain) + 1) : Walked(m, i)
  BY <1>3
<1>5. /\ Len(Chain) \in Nat /\ \A j \in 1 .. Len(Chain) : tid[Chain[j]] \in Threads
  BY ChainFacts
<1>6. \A t \in First(i - 1) : t \in Threads
  <2>1. \A j \in 1 .. (i - 1) : tid[Chain[j]] \in Threads
    BY <1>5
  <2>2. QED
    BY <2>1 DEF First
<1>7. cursor[m] # NULL => tid[Chain[i]] \in Threads
  BY <1>4, <1>5 DEF Walked
<1>8. cursor[m] = NULL => walk[m] \notin {"joining", "joined"}
  BY <1>4 DEF Walked
<1>9. Walked(m, i)'
  <2>1. First(i - 1)' = First(i - 1)
    BY <1>1
  <2>2. CASE cursor[m] = NULL
    BY <1>1, <1>2, <1>4, <1>6, <1>8, <2>1, <2>2 DEF Walked
  <2>3. CASE cursor[m] # NULL
    BY <1>1, <1>2, <1>4, <1>6, <1>7, <2>1, <2>3 DEF Walked
  <2>4. QED
    BY <2>2, <2>3
<1>10. First(Len(Chain))' = First(Len(Chain))
  BY <1>1
<1>11. QED
  BY <1>1, <1>2, <1>3, <1>9, <1>10

\* A step of a walk that has begun: what is left to show is where it is in the
\* list then.
LEMMA WalkerKeeps ==
  ASSUME IInv, UNCHANGED <<list, holder, aux, prev, pc, due, raced>>, NEW k \in Closing,
         NEW at \in {"at", "joining", "joined", "undefined", "done"}, NEW p \in Pointer,
         NEW v \in Threads \union {NULL},
         walk' = [walk EXCEPT ![k] = at], cursor' = [cursor EXCEPT ![k] = p],
         joining' = [joining EXCEPT ![k] = v], v # NULL <=> at = "joining",
         joining[k] # NULL => pc[joining[k]] = "ended",
         joined' \subseteq Threads, \A t \in joined' : pc[t] = "ended",
         ~raced => /\ at = "undefined" => Closing # {k}
                   /\ \E i \in 1 .. (Len(Chain) + 1) : Walked(k, i)'
  PROVE  IInv'
<1>1. ChainInv' /\ LiveInv' /\ RmvInv' /\ Chain' = Chain /\ tid' = tid /\ \A n : First(n)' = First(n)
  BY CallerKeeps
<1>2. /\ walk \in [Callers -> {"off", "at", "joining", "joined", "undefined", "done"}]
      /\ cursor \in [Callers -> Pointer] /\ joining \in [Callers -> Threads \union {NULL}]
      /\ k \in Callers
  BY DEF IInv, TypeOK, Closing
<1>3. /\ walk'[k] = at /\ cursor'[k] = p /\ joining'[k] = v
      /\ \A m \in Callers : m # k => walk'[m] = walk[m] /\ cursor'[m] = cursor[m] /\ joining'[m] = joining[m]
  BY <1>2
<1>4. Closing' = Closing
  <2>1. \A m \in Callers : walk'[m] = "off" <=> walk[m] = "off"
    BY <1>3 DEF Closing
  <2>2. QED
    BY <2>1 DEF Closing
<1>5. TypeOK'
  <2>1. /\ walk' \in [Callers -> {"off", "at", "joining", "joined", "undefined", "done"}]
        /\ cursor' \in [Callers -> Pointer] /\ joining' \in [Callers -> Threads \union {NULL}]
    BY <1>2
  <2>2. UNCHANGED <<head, last, tid, next, live>>
    BY DEF list
  <2>3. {head', last', aux', prev'} \subseteq Pointer
    BY <2>2 DEF IInv, TypeOK
  <2>4. QED
    BY <1>4, <2>1, <2>2, <2>3 DEF IInv, TypeOK
<1>6. JoinInv'
  <2>1. \A m \in Callers : joining'[m] # NULL <=> walk'[m] = "joining"
    BY <1>3 DEF IInv, JoinInv
  <2>2. QED
    BY <1>4, <2>1 DEF IInv, JoinInv
<1>7. WalkInv'
  <2>1. SUFFICES ASSUME ~raced, NEW m \in Closing
                 PROVE  /\ due'[m] \subseteq First(Len(Chain))'
                        /\ walk'[m] = "undefined" => Closing' # {m}
                        /\ \E i \in 1 .. (Len(Chain') + 1) : Walked(m, i)'
    BY <1>4 DEF WalkInv
  <2>2. m \in Callers
    BY DEF Closing
  <2>3. CASE m = k
    <3>1. due[k] \subseteq First(Len(Chain))
      BY <2>1 DEF IInv, WalkInv
    <3>2. First(Len(Chain))' = First(Len(Chain))
      BY <1>1
    <3>3. QED
      BY <1>1, <1>3, <1>4, <2>1, <2>3, <3>1, <3>2
  <2>4. CASE m # k
    <3>1. \A t \in Threads : Settled(m, t) => Settled(m, t)'
      BY <1>2, SettledKept
    <3>2. walk'[m] = walk[m] /\ cursor'[m] = cursor[m] /\ joining'[m] = joining[m]
      BY <1>3, <2>2, <2>4
    <3>3. QED
      BY <1>2, <1>4, <2>1, <2>4, <3>1, <3>2, OtherWalks
  <2>5. QED
    BY <2>3, <2>4
<1>8. IsFiniteSet(Closing)'
  BY <1>4 DEF IInv
<1>9. QED
  BY <1>1, <1>5, <1>6, <1>7, <1>8 DEF IInv

\* What a caller knows of the node its cursor is at.
LEMMA AtNode ==
  ASSUME IInv, ~raced, NEW k \in Closing
  PROVE  \E i \in 1 .. (Len(Chain) + 1) :
           /\ Walked(k, i) /\ \A t \in First(i - 1) : t \in Threads
           /\ cursor[k] # NULL =>
                /\ i \in 1 .. Len(Chain) /\ cursor[k] = Chain[i] /\ cursor[k] \in live
                /\ tid[cursor[k]] \in Threads /\ tid[cursor[k]] \notin First(i - 1)
                /\ First(i) = First(i - 1) \union {tid[cursor[k]]}
<1>1. PICK i \in 1 .. (Len(Chain) + 1) : Walked(k, i)
  BY DEF IInv, WalkInv
<1>2. Len(Chain) \in Nat
  BY ChainFacts
<1>3. /\ \A j \in 1 .. Len(Chain) : tid[Chain[j]] \in Threads /\ Chain[j] \in live
      /\ \A j, m \in 1 .. Len(Chain) : j # m => tid[Chain[j]] # tid[Chain[m]]
  BY ChainFacts
<1>4. i \in Nat /\ 1 <= i /\ \A j \in 1 .. (i - 1) : j \in 1 .. Len(Chain) /\ j # i
  BY <1>2
<1>5. \A t \in First(i - 1) : t \in Threads
  BY <1>3, <1>4 DEF First
<1>6. ASSUME cursor[k] # NULL
      PROVE  /\ i \in 1 .. Len(Chain) /\ cursor[k] = Chain[i] /\ cursor[k] \in live
             /\ tid[cursor[k]] \in Threads /\ tid[cursor[k]] \notin First(i - 1)
             /\ First(i) = First(i - 1) \union {tid[cursor[k]]}
  <2>1. i <= Len(Chain) /\ cursor[k] = Chain[i]
    BY <1>1, <1>6 DEF Walked
  <2>2. i \in 1 .. Len(Chain)
    BY <1>2, <1>4, <2>1
  <2>3. tid[cursor[k]] \in Threads /\ tid[cursor[k]] \notin First(i - 1) /\ cursor[k] \in live
    BY <1>3, <1>4, <2>1, <2>2 DEF First
  <2>4. First(i) = First(i - 1) \union {tid[cursor[k]]}
    <3>1. \A j \in 1 .. i : j \in 1 .. (i - 1) \/ j = i
      BY <1>4
    <3>2. \A j \in 1 .. (i - 1) : j \in 1 .. i
      BY <1>4
    <3>3. i \in 1 .. i
      BY <1>4
    <3>4. QED
      BY <2>1, <3>1, <3>2, <3>3 DEF First
  <2>5. QED
    BY <2>1, <2>2, <2>3, <2>4
<1>7. QED
  BY <1>1, <1>5, <1>6

\* A caller of end_threads begins its walk.
LEMMA EndThreadsKeeps ==
  ASSUME IInv, NEW k \in Callers, EndThreads(k) PROVE IInv'
<1>1. /\ k \notin Closing /\ Cardinality(Closing) < MaxCallers
      /\ k # MAIN => pc[k] # "ended"
      /\ walk' = [walk EXCEPT ![k] = "at"] /\ cursor' = [cursor EXCEPT ![k] = head]
      /\ due' = [due EXCEPT ![k] = Listed] /\ UNCHANGED <<list, holder, aux, prev, pc>>
      /\ joining' = joining /\ joined' = joined /\ raced' = raced
  BY DEF EndThreads
<1>2. ChainInv' /\ LiveInv' /\ RmvInv' /\ Chain' = Chain /\ tid' = tid /\ \A n : First(n)' = First(n)
  BY <1>1, CallerKeeps
<1>3. /\ walk \in [Callers -> {"off", "at", "joining", "joined", "undefined", "done"}]
      /\ cursor \in [Callers -> Pointer] /\ joining \in [Callers -> Threads \union {NULL}]
      /\ due \in [Callers -> SUBSET Threads] /\ head \in Pointer
  BY DEF IInv, TypeOK
<1>4. /\ walk'[k] = "at" /\ cursor'[k] = head /\ due'[k] = Listed
      /\ \A m \in Callers : m # k => walk'[m] = walk[m] /\ cursor'[m] = cursor[m] /\ due'[m] = due[m]
  BY <1>1, <1>3
<1>5. Closing' = Closing \union {k}
  <2>1. \A m \in Callers : walk'[m] # "off" <=> walk[m] # "off" \/ m = k
    BY <1>4
  <2>2. QED
    BY <2>1 DEF Closing
<1>6. IsFiniteSet(Closing') /\ Cardinality(Closing') = Cardinality(Closing) + 1 /\ Cardinality(Closing) \in Nat
  BY <1>1, <1>5, FS_AddElement, FS_CardinalityType DEF IInv
<1>7. Listed = First(Len(Chain))
  <2>1. DOMAIN Chain = 1 .. Len(Chain)
    BY ChainFacts
  <2>2. QED
    BY <2>1 DEF Listed, First
<1>8. Listed \subseteq Threads
  BY DEF Listed, IInv, ChainInv
<1>9. TypeOK'
  <2>1. Cardinality(Closing') <= MaxCallers
    BY <1>1, <1>6, ThreadListAssumption
  <2>2. /\ walk' \in [Callers -> {"off", "at", "joining", "joined", "undefined", "done"}]
        /\ cursor' \in [Callers -> Pointer] /\ due' \in [Callers -> SUBSET Threads]
    BY <1>1, <1>3, <1>8
  <2>3. UNCHANGED <<head, last, tid, next, live>>
    BY <1>1 DEF list
  <2>4. {head', last', aux', prev'} \subseteq Pointer
    BY <1>1, <2>3 DEF IInv, TypeOK
  <2>5. QED
    BY <1>1, <2>1, <2>2, <2>3, <2>4 DEF IInv, TypeOK
<1>10. JoinInv'
  <2>1. \A m \in Callers : joining'[m] # NULL <=> walk'[m] = "joining"
    <3>1. joining[k] = NULL
      BY <1>1 DEF IInv, JoinInv, Closing
    <3>2. QED
      BY <1>1, <1>4, <3>1 DEF IInv, JoinInv
  <2>2. \A m \in Closing' : m # MAIN => pc'[m] # "ended"
    BY <1>1, <1>5 DEF IInv, JoinInv
  <2>3. QED
    BY <1>1, <1>5, <2>1, <2>2 DEF IInv, JoinInv
<1>11. WalkInv'
  <2>1. SUFFICES ASSUME ~raced, NEW m \in Closing'
                 PROVE  /\ due'[m] \subseteq First(Len(Chain))'
                        /\ walk'[m] = "undefined" => Closing' # {m}
                        /\ \E i \in 1 .. (Len(Chain') + 1) : Walked(m, i)'
    BY <1>1 DEF WalkInv
  <2>2. CASE m = k
    <3>1. First(0) = {} /\ 1 - 1 = 0
      BY DEF First
    <3>2. Links(Chain) /\ Len(Chain) \in Nat /\ (Chain = <<>> <=> Len(Chain) = 0)
          /\ \A j \in 1 .. Len(Chain) : Chain[j] # NULL
      BY ChainFacts
    <3>3. 1 \in 1 .. (Len(Chain) + 1)
      BY <3>2
    <3>4. Closing' = {k} => joined = {}
      BY <1>1, <1>5 DEF IInv, JoinInv
    <3>5. First(0)' = {}
      BY <1>2, <3>1
    <3>6. Walked(k, 1)'
      <4>1. CASE Chain = <<>>
        <5>1. head = NULL /\ Listed = {}
          BY <1>7, <3>1, <3>2, <4>1 DEF Links
        <5>2. QED
          BY <1>1, <1>4, <3>1, <3>4, <3>5, <5>1 DEF Walked
      <4>2. CASE Chain # <<>>
        <5>1. Len(Chain) \in Nat /\ Len(Chain) # 0
          BY <3>2, <4>2
        <5>2. 1 <= Len(Chain) /\ 1 \in 1 .. Len(Chain)
          BY <5>1
        <5>3. head = Chain[1] /\ head # NULL
          BY <3>2, <4>2, <5>2 DEF Links
        <5>4. QED
          BY <1>1, <1>2, <1>4, <3>1, <3>4, <3>5, <5>2, <5>3 DEF Walked
      <4>3. QED
        BY <4>1, <4>2
    <3>7. QED
      BY <1>2, <1>4, <1>7, <2>2, <3>3, <3>6
  <2>3. CASE m # k
    <3>1. m \in Closing /\ m \in Callers
      BY <1>5, <2>3 DEF Closing
    <3>2. \A t \in Threads : Settled(m, t) => Settled(m, t)'
      BY <1>1 DEF Settled
    <3>3. walk'[m] = walk[m] /\ cursor'[m] = cursor[m] /\ due'[m] = due[m] /\ joining'[m] = joining[m]
      BY <1>1, <1>4, <2>3, <3>1
    <3>4. QED
      BY <1>1, <1>5, <2>1, <2>3, <3>1, <3>2, <3>3, OtherWalks
  <2>4. QED
    BY <2>2, <2>3
<1>12. QED
  BY <1>2, <1>6, <1>9, <1>10, <1>11 DEF IInv

\* A caller reaches a node and joins its thread, or cannot.
LEMMA CallJoinKeeps ==
  ASSUME IInv, NEW k \in Callers, CallJoin(k) PROVE IInv'
<1> DEFINE t == tid[cursor[k]]
<1>1. /\ walk[k] = "at" /\ cursor[k] # NULL /\ cursor' = cursor /\ joined' = joined
      /\ UNCHANGED <<list, holder, aux, prev, pc, due, raced>>
      /\ \/ /\ cursor[k] \notin live \/ t \in joined
            /\ walk' = [walk EXCEPT ![k] = "undefined"] /\ joining' = joining
         \/ /\ cursor[k] \in live /\ (Refuses(k, t) \/ t \in joined)
            /\ walk' = [walk EXCEPT ![k] = "joined"] /\ joining' = joining
         \/ /\ cursor[k] \in live
            /\ walk' = [walk EXCEPT ![k] = "joining"] /\ joining' = [joining EXCEPT ![k] = t]
  BY DEF CallJoin, Goto, history
<1>2. /\ walk \in [Callers -> {"off", "at", "joining", "joined", "undefined", "done"}]
      /\ cursor \in [Callers -> Pointer] /\ joining \in [Callers -> Threads \union {NULL}]
      /\ joined \subseteq Threads
  BY DEF IInv, TypeOK
<1>3. k \in Closing /\ joining[k] = NULL /\ \A u \in joined : pc[u] = "ended"
  BY <1>1 DEF IInv, JoinInv, Closing
<1>4. cursor[k] \in Pointer /\ cursor' = [cursor EXCEPT ![k] = cursor[k]] /\ joining = [joining EXCEPT ![k] = NULL]
  BY <1>1, <1>2, <1>3
<1>5. cursor[k] \in live => t \in Threads /\ t # NULL
  BY ConstantFacts DEF IInv, LiveInv
<1>6. Chain' = Chain /\ tid' = tid /\ \A n : First(n)' = First(n)
  BY <1>1, CallerKeeps
<1>7. Closing' = Closing
  BY <1>1, <1>2 DEF Closing
<1>8. CASE /\ cursor[k] \notin live \/ t \in joined
           /\ walk' = [walk EXCEPT ![k] = "undefined"] /\ joining' = joining
  <2>1. ASSUME ~raced
        PROVE  Closing # {k} /\ \E i \in 1 .. (Len(Chain) + 1) : Walked(k, i)'
    <3>1. PICK i \in 1 .. (Len(Chain) + 1) :
            /\ Walked(k, i) /\ \A u \in First(i - 1) : u \in Threads
            /\ i \in 1 .. Len(Chain) /\ cursor[k] = Chain[i] /\ cursor[k] \in live /\ t \notin First(i - 1)
      BY <1>1, <1>3, <2>1, AtNode
    <3>2. Closing # {k}
      BY <1>1, <1>8, <3>1 DEF Walked
    <3>3. walk'[k] = "undefined"
      BY <1>2, <1>8
    <3>4. \A u \in First(i - 1) : Settled(k, u)'
      BY <1>1, <1>8, <3>1 DEF Walked, Settled
    <3>5. Walked(k, i)'
      BY <1>1, <1>6, <1>7, <3>1, <3>2, <3>3, <3>4 DEF Walked
    <3>6. QED
      BY <3>2, <3>5
  <2>2. /\ walk' = [walk EXCEPT ![k] = "undefined"] /\ cursor' = [cursor EXCEPT ![k] = cursor[k]]
        /\ joining' = [joining EXCEPT ![k] = NULL] /\ NULL \in Threads \union {NULL} /\ cursor[k] \in Pointer
        /\ joined' \subseteq Threads /\ \A u \in joined' : pc[u] = "ended"
    BY <1>1, <1>2, <1>3, <1>4, <1>8
  <2>3. QED
    BY <1>1, <1>3, <2>1, <2>2, WalkerKeeps
<1>9. CASE /\ cursor[k] \in live /\ (Refuses(k, t) \/ t \in joined)
           /\ walk' = [walk EXCEPT ![k] = "joined"] /\ joining' = joining
  <2>1. ASSUME ~raced PROVE \E i \in 1 .. (Len(Chain) + 1) : Walked(k, i)'
    <3>1. PICK i \in 1 .. (Len(Chain) + 1) :
            /\ Walked(k, i) /\ \A u \in First(i - 1) : u \in Threads
            /\ i \in 1 .. Len(Chain) /\ cursor[k] = Chain[i] /\ First(i) = First(i - 1) \union {t}
      BY <1>1, <1>3, <2>1, AtNode
    <3>2. walk'[k] = "joined"
      BY <1>2, <1>9
    <3>3. \A u \in First(i - 1) : Settled(k, u)'
      BY <1>1, <1>9, <3>1 DEF Walked, Settled
    <3>4. Settled(k, t)'
      <4>1. Settled(k, t)
        <5>1. CASE t \in joined
          BY <1>3, <5>1 DEF Settled
        <5>2. CASE Refuses(k, t)
          BY <1>3, <1>5, <1>9, <5>2 DEF Refuses, Settled
        <5>3. QED
          BY <1>9, <5>1, <5>2
      <4>2. t' = t
        BY <1>1, <1>6
      <4>3. QED
        BY <1>1, <1>9, <4>1, <4>2 DEF Settled
    <3>5. Closing = {k} => joined \subseteq First(i - 1)
      BY <1>1, <3>1 DEF Walked
    <3>6. Walked(k, i)'
      <4>1. tid'[Chain'[i]] = t /\ t' = t
        BY <1>1, <1>6, <3>1
      <4>2. Settled(k, tid[Chain[i]])'
        BY <3>4, <4>1 DEF Settled
      <4>3. Closing' = {k} => joined' \subseteq First(i)'
        BY <1>1, <1>6, <1>7, <3>1, <3>5
      <4>4. QED
        BY <1>1, <1>6, <3>1, <3>2, <3>3, <4>2, <4>3 DEF Walked
    <3>7. QED
      BY <3>6
  <2>2. /\ walk' = [walk EXCEPT ![k] = "joined"] /\ cursor' = [cursor EXCEPT ![k] = cursor[k]]
        /\ joining' = [joining EXCEPT ![k] = NULL] /\ NULL \in Threads \union {NULL} /\ cursor[k] \in Pointer
        /\ joined' \subseteq Threads /\ \A u \in joined' : pc[u] = "ended"
    BY <1>1, <1>2, <1>3, <1>4, <1>9
  <2>3. QED
    BY <1>1, <1>3, <2>1, <2>2, WalkerKeeps
<1>10. CASE /\ cursor[k] \in live
            /\ walk' = [walk EXCEPT ![k] = "joining"] /\ joining' = [joining EXCEPT ![k] = t]
  <2>1. t \in Threads /\ t # NULL
    BY <1>5, <1>10
  <2>2. ASSUME ~raced PROVE \E i \in 1 .. (Len(Chain) + 1) : Walked(k, i)'
    <3>1. PICK i \in 1 .. (Len(Chain) + 1) :
            /\ Walked(k, i) /\ \A u \in First(i - 1) : u \in Threads
            /\ i \in 1 .. Len(Chain) /\ cursor[k] = Chain[i]
      BY <1>1, <1>3, <2>2, AtNode
    <3>2. walk'[k] = "joining" /\ joining'[k] = t
      BY <1>2, <1>10
    <3>3. \A u \in First(i - 1) : Settled(k, u)'
      <4>1. \A u \in Threads : Settled(k, u) => Settled(k, u)'
        BY <1>1, <1>3, <1>10, <2>1, SettledKept
      <4>2. QED
        BY <3>1, <4>1 DEF Walked
    <3>4. Closing' = {k} => joined' \subseteq First(i - 1)'
      BY <1>1, <1>6, <1>7, <3>1 DEF Walked
    <3>5. \A u \in First(i - 1)' : Settled(k, u)'
      BY <1>6, <3>3
    <3>6. tid'[Chain'[i]] = t
      BY <1>6, <3>1
    <3>7. Walked(k, i)'
      BY <1>1, <1>6, <3>1, <3>2, <3>4, <3>5, <3>6 DEF Walked
    <3>8. QED
      BY <3>7
  <2>3. /\ walk' = [walk EXCEPT ![k] = "joining"] /\ cursor' = [cursor EXCEPT ![k] = cursor[k]]
        /\ joining' = [joining EXCEPT ![k] = t] /\ t \in Threads \union {NULL} /\ cursor[k] \in Pointer
        /\ joined' \subseteq Threads /\ \A u \in joined' : pc[u] = "ended"
    BY <1>1, <1>2, <1>3, <1>4, <1>10, <2>1
  <2>4. QED
    BY <1>1, <1>3, <2>1, <2>2, <2>3, WalkerKeeps
<1>11. QED
  BY <1>1, <1>8, <1>9, <1>10

\* pthread_join returns to a caller: the thread it waited for has ended.
LEMMA JoinReturnsKeeps ==
  ASSUME IInv, NEW k \in Callers, JoinReturns(k) PROVE IInv'
<1>1. PICK t : t = joining[k]
  OBVIOUS
<1>2. /\ walk[k] = "joining" /\ pc[t] = "ended" /\ walk' = [walk EXCEPT ![k] = "joined"]
      /\ joined' = joined \union {t} /\ joining' = [joining EXCEPT ![k] = NULL] /\ cursor' = cursor
      /\ UNCHANGED <<list, holder, aux, prev, pc, due, raced>>
  BY <1>1 DEF JoinReturns, Goto, history
<1>3. /\ walk \in [Callers -> {"off", "at", "joining", "joined", "undefined", "done"}]
      /\ cursor \in [Callers -> Pointer] /\ joining \in [Callers -> Threads \union {NULL}]
      /\ joined \subseteq Threads
  BY DEF IInv, TypeOK
<1>4. k \in Closing /\ t \in Threads /\ t # NULL /\ \A u \in joined : pc[u] = "ended"
  BY <1>1, <1>2, <1>3, ConstantFacts DEF IInv, JoinInv, Closing
<1>5. cursor[k] \in Pointer /\ cursor' = [cursor EXCEPT ![k] = cursor[k]]
  BY <1>2, <1>3
<1>6. Chain' = Chain /\ tid' = tid /\ \A n : First(n)' = First(n)
  BY <1>2, CallerKeeps
<1>7. Closing' = Closing
  BY <1>2, <1>3 DEF Closing
<1>8. ASSUME ~raced PROVE \E i \in 1 .. (Len(Chain) + 1) : Walked(k, i)'
  <2>1. PICK i \in 1 .. (Len(Chain) + 1) :
          /\ Walked(k, i) /\ \A u \in First(i - 1) : u \in Threads
          /\ cursor[k] # NULL =>
               /\ i \in 1 .. Len(Chain) /\ cursor[k] = Chain[i] /\ First(i) = First(i - 1) \union {tid[cursor[k]]}
    BY <1>4, <1>8, AtNode
  <2>2. cursor[k] # NULL /\ tid[Chain[i]] = t
    BY <1>1, <1>2, <2>1 DEF Walked
  <2>3. walk'[k] = "joined"
    BY <1>2, <1>3
  <2>4. \A u \in First(i - 1)' : Settled(k, u)'
    <3>1. \A u \in Threads : Settled(k, u) => Settled(k, u)'
      BY <1>1, <1>2, <1>4, SettledKept
    <3>2. QED
      BY <1>6, <2>1, <3>1 DEF Walked
  <2>5. Settled(k, tid[Chain[i]])'
    BY <1>2, <1>6, <2>2 DEF Settled
  <2>6. Closing' = {k} => joined' \subseteq First(i)'
    <3>1. Closing = {k} => joined \subseteq First(i - 1)
      BY <1>2, <2>1 DEF Walked
    <3>2. First(i)' = First(i - 1) \union {t}
      BY <1>6, <2>1, <2>2
    <3>3. QED
      BY <1>2, <1>7, <3>1, <3>2
  <2>7. Walked(k, i)'
    BY <1>2, <1>6, <2>1, <2>2, <2>3, <2>4, <2>5, <2>6 DEF Walked
  <2>8. QED
    BY <2>7
<1>9. joined' \subseteq Threads /\ \A u \in joined' : pc[u] = "ended"
  BY <1>2, <1>3, <1>4
<1>10. joining[k] # NULL => pc[joining[k]] = "ended"
  BY <1>1, <1>2
<1>11. QED
  BY <1>2, <1>4, <1>5, <1>8, <1>9, <1>10, WalkerKeeps

\* A caller goes on to the next node.
LEMMA ToNextNodeKeeps ==
  ASSUME IInv, NEW k \in Callers, ToNextNode(k) PROVE IInv'
<1>1. /\ walk[k] = "joined" /\ joining' = joining /\ joined' = joined
      /\ UNCHANGED <<list, holder, aux, prev, pc, due, raced>>
      /\ IF cursor[k] \in live
          THEN walk' = [walk EXCEPT ![k] = "at"] /\ cursor' = [cursor EXCEPT ![k] = next[cursor[k]]]
          ELSE walk' = [walk EXCEPT ![k] = "undefined"] /\ cursor' = cursor
  BY DEF ToNextNode, Goto, history
<1>2. /\ walk \in [Callers -> {"off", "at", "joining", "joined", "undefined", "done"}]
      /\ cursor \in [Callers -> Pointer] /\ joining \in [Callers -> Threads \union {NULL}]
      /\ joined \subseteq Threads /\ live \subseteq Nodes /\ next \in [Nodes -> Pointer]
  BY DEF IInv, TypeOK
<1>3. k \in Closing /\ joining[k] = NULL /\ \A u \in joined : pc[u] = "ended"
  BY <1>1, <1>2 DEF IInv, JoinInv, Closing
<1>4. joining' = [joining EXCEPT ![k] = NULL] /\ joined' \subseteq Threads /\ \A u \in joined' : pc[u] = "ended"
  BY <1>1, <1>2, <1>3
<1>5. Chain' = Chain /\ tid' = tid /\ \A n : First(n)' = First(n)
  BY <1>1, CallerKeeps
<1>6. Closing' = Closing
  BY <1>1, <1>2 DEF Closing
<1>7. CASE cursor[k] \notin live
  <2>1. raced
    <3>1. SUFFICES ASSUME ~raced PROVE FALSE
      OBVIOUS
    <3>2. PICK i \in 1 .. (Len(Chain) + 1) : Walked(k, i) /\ (cursor[k] # NULL => cursor[k] \in live)
      BY <1>3, <3>1, AtNode
    <3>3. QED
      BY <1>1, <1>7, <3>2 DEF Walked
  <2>2. /\ walk' = [walk EXCEPT ![k] = "undefined"] /\ cursor' = [cursor EXCEPT ![k] = cursor[k]]
        /\ cursor[k] \in Pointer
    BY <1>1, <1>2, <1>7
  <2>3. QED
    BY <1>1, <1>3, <1>4, <2>1, <2>2, WalkerKeeps
<1>8. CASE cursor[k] \in live
  <2>1. walk' = [walk EXCEPT ![k] = "at"] /\ cursor' = [cursor EXCEPT ![k] = next[cursor[k]]]
    BY <1>1, <1>8
  <2>2. cursor[k] # NULL /\ next[cursor[k]] \in Pointer
    BY <1>2, <1>8, ConstantFacts
  <2>3. walk'[k] = "at" /\ cursor'[k] = next[cursor[k]]
    BY <1>2, <2>1
  <2>4. ASSUME ~raced PROVE \E i \in 1 .. (Len(Chain) + 1) : Walked(k, i)'
    <3>1. PICK i \in 1 .. (Len(Chain) + 1) :
            /\ Walked(k, i) /\ i \in 1 .. Len(Chain) /\ cursor[k] = Chain[i]
            /\ First(i) = First(i - 1) \union {tid[cursor[k]]}
      BY <1>3, <2>2, <2>4, AtNode
    <3>2. Len(Chain) \in Nat /\ Links(Chain) /\ DOMAIN Chain = 1 .. Len(Chain) /\ (Chain = <<>> <=> Len(Chain) = 0)
          /\ \A j \in 1 .. Len(Chain) : Chain[j] # NULL
      BY ChainFacts
    <3>3. i + 1 \in 1 .. (Len(Chain) + 1) /\ i + 1 - 1 = i /\ i <= Len(Chain) /\ i \in Nat /\ Len(Chain) # 0
      <4>1. Len(Chain) \in Nat
        BY <3>2
      <4>2. QED
        BY <3>1, <4>1
    <3>4. \A u \in First(i) : Settled(k, u)
      BY <1>1, <3>1 DEF Walked
    <3>5. \A u \in First(i)' : Settled(k, u)'
      BY <1>1, <1>5, <3>4 DEF Settled
    <3>6. Closing' = {k} => joined' \subseteq First(i)'
      BY <1>1, <1>5, <1>6, <3>1 DEF Walked
    <3>7. IF cursor'[k] = NULL THEN due'[k] \subseteq First(i)' ELSE i + 1 <= Len(Chain') /\ cursor'[k] = Chain'[i + 1]
      <4>1. CASE i = Len(Chain)
        <5>1. cursor'[k] = NULL
          BY <2>3, <3>1, <3>2, <3>3, <4>1 DEF Links
        <5>2. due[k] \subseteq First(Len(Chain))
          BY <1>3, <2>4 DEF IInv, WalkInv
        <5>3. QED
          BY <1>1, <1>5, <4>1, <5>1, <5>2
      <4>2. CASE i # Len(Chain)
        <5>1. i < Len(Chain) /\ i + 1 <= Len(Chain) /\ i + 1 \in 1 .. Len(Chain)
          <6>1. Len(Chain) \in Nat
            BY <3>2
          <6>2. QED
            BY <3>3, <4>2, <6>1
        <5>2. cursor'[k] = Chain[i + 1] /\ cursor'[k] # NULL
          BY <2>3, <3>1, <3>2, <5>1 DEF Links
        <5>3. QED
          BY <1>5, <5>1, <5>2
      <4>3. QED
        BY <4>1, <4>2
    <3>8. Walked(k, i + 1)'
      BY <2>3, <3>3, <3>5, <3>6, <3>7 DEF Walked
    <3>9. QED
      BY <3>3, <3>8
  <2>5. QED
    BY <1>1, <1>3, <1>4, <2>1, <2>2, <2>4, WalkerKeeps
<1>9. QED
  BY <1>7, <1>8

\* A caller has come to the end of the list.
LEMMA EndThreadsReturnsKeeps ==
  ASSUME IInv, NEW k \in Callers, EndThreadsReturns(k) PROVE IInv'
<1>1. /\ walk[k] = "at" /\ cursor[k] = NULL /\ joining' = joining /\ joined' = joined /\ cursor' = cursor
      /\ walk' = [walk EXCEPT ![k] = "done"] /\ UNCHANGED <<list, holder, aux, prev, pc, due, raced>>
  BY DEF EndThreadsReturns, Goto, history
<1>2. /\ walk \in [Callers -> {"off", "at", "joining", "joined", "undefined", "done"}]
      /\ cursor \in [Callers -> Pointer] /\ joining \in [Callers -> Threads \union {NULL}]
      /\ joined \subseteq Threads
  BY DEF IInv, TypeOK
<1>3. k \in Closing /\ joining[k] = NULL /\ \A u \in joined : pc[u] = "ended"
  BY <1>1, <1>2 DEF IInv, JoinInv, Closing
<1>4. /\ joining' = [joining EXCEPT ![k] = NULL] /\ joined' \subseteq Threads /\ \A u \in joined' : pc[u] = "ended"
      /\ cursor' = [cursor EXCEPT ![k] = cursor[k]] /\ cursor[k] \in Pointer
  BY <1>1, <1>2, <1>3
<1>5. Chain' = Chain /\ tid' = tid /\ \A n : First(n)' = First(n)
  BY <1>1, CallerKeeps
<1>6. Closing' = Closing
  BY <1>1, <1>2 DEF Closing
<1>7. ASSUME ~raced PROVE \E i \in 1 .. (Len(Chain) + 1) : Walked(k, i)'
  <2>1. PICK i \in 1 .. (Len(Chain) + 1) : Walked(k, i)
    BY <1>3, <1>7, AtNode
  <2>2. walk'[k] = "done"
    BY <1>1, <1>2
  <2>3. \A u \in First(i - 1)' : Settled(k, u)'
    BY <1>1, <1>5, <2>1 DEF Walked, Settled
  <2>4. Closing' = {k} => joined' \subseteq First(i - 1)'
    BY <1>1, <1>5, <1>6, <2>1 DEF Walked
  <2>5. due'[k] \subseteq First(i - 1)' /\ cursor'[k] = NULL
    BY <1>1, <1>5, <2>1 DEF Walked
  <2>6. Walked(k, i)'
    BY <2>2, <2>3, <2>4, <2>5 DEF Walked
  <2>7. QED
    BY <2>6
<1>8. UNCHANGED <<list, holder, aux, prev, pc, due, raced>> /\ walk' = [walk EXCEPT ![k] = "done"]
  BY <1>1
<1>9. NULL \in Threads \union {NULL} /\ joined' \subseteq Threads
  BY <1>1, <1>2
<1>10. QED
  BY <1>3, <1>4, <1>7, <1>8, <1>9, WalkerKeeps

-----------------------------------------------------------------------------
(* The invariant. *)

\* At first the list is empty.
LEMMA InitHolds == Init => IInv
<1> SUFFICES ASSUME Init PROVE IInv
  OBVIOUS
<1>1. Closing = {} /\ IsFiniteSet(Closing) /\ Cardinality(Closing) = 0
  <2>1. Closing = {}
    BY DEF Init, Closing
  <2>2. QED
    BY <2>1, FS_EmptySet
<1>2. Chain = <<>> /\ Links(Chain)
  <2>1. Links(<<>>)
    BY ConstantFacts DEF Init, Links
  <2>2. QED
    BY <2>1, ChainIs
<1>3. TypeOK
  <2>1. Cardinality(Closing) <= MaxCallers
    BY <1>1, ThreadListAssumption
  <2>2. \A t \in Threads : pc[t] \in {"searching", "freeing"} <=> holder = t
    BY ConstantFacts DEF Init
  <2>3. QED
    BY <2>1, <2>2 DEF Init, TypeOK, Pointer
<1>4. ChainInv /\ LiveInv /\ RmvInv
  BY <1>2 DEF Init, ChainInv, LiveInv, RmvInv
<1>5. JoinInv
  BY <1>1 DEF Init, JoinInv
<1>6. WalkInv
  BY <1>1 DEF WalkInv
<1>7. QED
  BY <1>1, <1>3, <1>4, <1>5, <1>6 DEF IInv

\* A step that changes nothing.
LEMMA StutterKeeps == ASSUME IInv, UNCHANGED vars PROVE IInv'
<1>1. /\ UNCHANGED <<list, holder, aux, prev, pc>> /\ UNCHANGED <<head, last, tid, next, live>>
      /\ UNCHANGED <<holder, aux, prev, pc>>
      /\ UNCHANGED <<walk, cursor, joining, joined, due, raced>>
  BY DEF vars, list, walker, history
<1>2. ChainInv' /\ LiveInv' /\ RmvInv' /\ Chain' = Chain /\ tid' = tid
  BY <1>1, CallerKeeps
<1>3. JoinInv' /\ IsFiniteSet(Closing)' /\ Closing' = Closing
  BY <1>1, JoinKept
<1>4. WalkInv'
  BY <1>1, <1>2, WalkKept, ChainFacts
<1>5. TypeOK'
  BY <1>1, <1>3 DEF IInv, TypeOK, Pointer
<1>6. QED
  BY <1>2, <1>3, <1>4, <1>5 DEF IInv

\* Every step keeps the invariant.
LEMMA StepKeeps == ASSUME IInv, [Next]_vars PROVE IInv'
<1>1. ASSUME NEW t \in Threads, AddThread(t) \/ RmvThread(t) \/ RmvStep(t) \/ ThreadEnds(t)
      PROVE  IInv'
  <2>1. ASSUME RmvStep(t) PROVE IInv'
    BY <2>1, SearchNextKeeps, UnlinkKeeps, FreeNodeKeeps, NotFoundKeeps DEF RmvStep
  <2>2. QED
    BY <1>1, <2>1, AddThreadKeeps, RmvThreadKeeps, ThreadEndsKeeps
<1>2. ASSUME NEW k \in Callers, EndThreads(k) \/ Walk(k)
      PROVE  IInv'
  BY <1>2, EndThreadsKeeps, CallJoinKeeps, JoinReturnsKeeps, ToNextNodeKeeps, EndThreadsReturnsKeeps
     DEF Walk
<1>3. QED
  BY <1>1, <1>2, StutterKeeps DEF Next, Terminated

\* The list, the search of rmv_thread and the walks of end_threads are as IInv
\* says in every state.
THEOREM Invariance == Spec => []IInv
BY InitHolds, StepKeeps, PTL DEF Spec

\* The variables of the thread list have their types, and the thread in
\* rmv_thread is the one with the lock (server_utils.c:72-101).
THEOREM TypeCorrect == Spec => []TypeOK
<1>1. IInv => TypeOK
  BY DEF IInv
<1>2. QED
  BY <1>1, Invariance, PTL

\* The last node of a list that is not empty.
LEMMA LastIs == ASSUME IInv, Chain # <<>> PROVE Last(Chain) = Chain[Len(Chain)] /\ Len(Chain) \in 1 .. Len(Chain)
<1>1. Len(Chain) \in Nat /\ Len(Chain) # 0
  BY ChainFacts
<1>2. QED
  BY <1>1 DEF Last

\* However many threads come and go and whatever addresses malloc returns, the
\* list ends, and its nodes are live and stand for different threads that are
\* still to be joined (server_utils.c:72-101).
THEOREM AlwaysListSound == Spec => []ListSound
<1>1. IInv => ListSound
  <2> SUFFICES ASSUME IInv PROVE ListSound
    OBVIOUS
  <2>1. Chain = <<>> \/ next[Last(Chain)] = NULL
    BY LastIs, ChainFacts DEF Links
  <2>2. QED
    BY <2>1, ChainFacts DEF ListSound
<1>2. QED
  BY <1>1, Invariance, PTL

\* Unless a thread takes itself off the list meanwhile, an end_threads that is
\* alone reads no freed node and joins no thread twice, and one that is over has
\* left behind it only threads that have ended, itself, and threads it cannot
\* join (server_utils.c:92-101).
THEOREM EndThreadsAlwaysJoins == Spec => []EndThreadsJoinsListed
<1>1. IInv => EndThreadsJoinsListed
  <2> SUFFICES ASSUME IInv, ~raced, NEW k \in Callers
               PROVE  /\ walk[k] = "undefined" => Closing # {k}
                      /\ walk[k] = "done" => \A t \in due[k] \ {k} :
                           pc[t] = "ended" \/ joining[t] = k \/ \E j \in Callers \ {k} : joining[j] = t
    BY DEF EndThreadsJoinsListed
  <2>1. k \in Closing => /\ walk[k] = "undefined" => Closing # {k}
                         /\ \E i \in 1 .. (Len(Chain) + 1) : Walked(k, i)
    BY DEF IInv, WalkInv
  <2>2. walk[k] \in {"undefined", "done"} => k \in Closing
    BY DEF Closing
  <2>3. ASSUME walk[k] = "done", NEW t \in due[k] \ {k} PROVE Settled(k, t)
    <3>1. PICK i \in 1 .. (Len(Chain) + 1) : Walked(k, i)
      BY <2>1, <2>2, <2>3
    <3>2. cursor[k] = NULL /\ due[k] \subseteq First(i - 1)
      BY <2>3, <3>1 DEF Walked
    <3>3. QED
      BY <2>3, <3>1, <3>2 DEF Walked
  <2>4. QED
    BY <2>1, <2>2, <2>3 DEF Settled
<1>2. QED
  BY <1>1, Invariance, PTL

-----------------------------------------------------------------------------
(* The list implements ThreadRegistry. *)

\* What the registry's variables stand for.
Registered == [k \in DOMAIN Chain |-> tid[Chain[k]]]

\* The last pointer is to no node of the chain.
Adrift == Chain # <<>> /\ last # Last(Chain)

\* The threads of the list, in its order.
LEMMA RegisteredFacts ==
  IInv =>
    /\ Registered \in Seq(Threads) /\ Len(Registered) = Len(Chain) /\ DOMAIN Registered = 1 .. Len(Chain)
    /\ \A k \in 1 .. Len(Chain) : Registered[k] = tid[Chain[k]]
    /\ (Registered = <<>> <=> Chain = <<>>)
<1> SUFFICES ASSUME IInv
             PROVE  /\ Registered \in Seq(Threads) /\ Len(Registered) = Len(Chain)
                    /\ DOMAIN Registered = 1 .. Len(Chain)
                    /\ \A k \in 1 .. Len(Chain) : Registered[k] = tid[Chain[k]]
                    /\ (Registered = <<>> <=> Chain = <<>>)
  OBVIOUS
<1>1. Len(Chain) \in Nat /\ DOMAIN Chain = 1 .. Len(Chain) /\ \A k \in 1 .. Len(Chain) : tid[Chain[k]] \in Threads
  BY ChainFacts
<1>2. Registered \in [1 .. Len(Chain) -> Threads] /\ \A k \in 1 .. Len(Chain) : Registered[k] = tid[Chain[k]]
  BY <1>1 DEF Registered
<1>3. Registered \in Seq(Threads) /\ Len(Registered) = Len(Chain) /\ DOMAIN Registered = 1 .. Len(Chain)
  BY <1>1, <1>2
<1>4. Registered = <<>> <=> Len(Registered) = 0
  BY <1>3
<1>5. QED
  BY <1>2, <1>3, <1>4, ChainFacts

\* The same of the next state.
LEMMA RegisteredNext ==
  (IInv =>
    /\ Registered \in Seq(Threads) /\ Len(Registered) = Len(Chain) /\ DOMAIN Registered = 1 .. Len(Chain)
    /\ \A k \in 1 .. Len(Chain) : Registered[k] = tid[Chain[k]]
    /\ (Registered = <<>> <=> Chain = <<>>))'
BY RegisteredFacts, PTL

\* A worker that adds itself is registered, unless last points astray.
LEMMA AddThreadImplements ==
  ASSUME IInv, IInv', NEW t \in Threads, AddThread(t) PROVE Registry!AddThread(t)
<1>1. PICK n \in Nodes \ live : LinkNode(t, n)
  BY DEF AddThread
<1>2. pc[t] = "new" /\ last' = n
  BY <1>1 DEF AddThread, At, LinkNode
<1>3. /\ Chain' = (IF Chain = <<>> \/ last = Chain[Len(Chain)] THEN Append(Chain, n) ELSE Chain)
      /\ \A k \in 1 .. Len(Chain) : Chain[k] # n /\ tid'[Chain[k]] = tid[Chain[k]]
      /\ tid'[n] = t
  BY <1>1, AddChain
<1>4. /\ Chain \in Seq(Nodes) /\ Len(Chain) \in Nat /\ (Chain = <<>> <=> Len(Chain) = 0)
      /\ \A k \in 1 .. Len(Chain) : pc[tid[Chain[k]]] \in {"serving", "searching", "ended"}
  BY ChainFacts
<1>5. /\ Registered \in Seq(Threads) /\ Len(Registered) = Len(Chain) /\ DOMAIN Registered = 1 .. Len(Chain)
      /\ \A k \in 1 .. Len(Chain) : Registered[k] = tid[Chain[k]]
  BY RegisteredFacts
<1>6. /\ Registered' \in Seq(Threads) /\ Len(Registered') = Len(Chain') /\ DOMAIN Registered' = 1 .. Len(Chain')
      /\ \A k \in 1 .. Len(Chain') : Registered'[k] = tid'[Chain'[k]]
  BY RegisteredNext
<1>7. Last(Chain) = Chain[Len(Chain)] /\ Last(Chain') = Chain'[Len(Chain')]
  BY DEF Last
<1>8. ~Contains(Registered, t)
  BY <1>2, <1>4, <1>5 DEF Contains
<1>9. CASE Adrift
  <2>1. Chain' = Chain /\ Len(Chain) \in 1 .. Len(Chain)
    BY <1>3, <1>4, <1>7, <1>9 DEF Adrift
  <2>2. Registered' = Registered
    <3>1. \A k \in 1 .. Len(Chain) : Registered'[k] = tid'[Chain[k]]
      BY <1>6, <2>1
    <3>2. \A k \in 1 .. Len(Chain) : Registered'[k] = Registered[k]
      BY <1>3, <1>5, <3>1
    <3>3. QED
      BY <1>5, <1>6, <2>1, <3>2, SeqEqual
  <2>3. Adrift'
    BY <1>2, <1>3, <1>7, <1>9, <2>1 DEF Adrift
  <2>4. QED
    BY <1>8, <1>9, <2>2, <2>3 DEF Registry!AddThread, Registry!Contains, Contains, Registered, Adrift
<1>10. CASE ~Adrift
  <2>1. Chain' = Append(Chain, n)
    BY <1>3, <1>7, <1>10 DEF Adrift
  <2>2. /\ Len(Chain') = Len(Chain) + 1 /\ Chain'[Len(Chain) + 1] = n
        /\ \A k \in 1 .. Len(Chain) : Chain'[k] = Chain[k]
    BY <1>4, <2>1
  <2>3. /\ Append(Registered, t) \in Seq(Threads) /\ Len(Append(Registered, t)) = Len(Chain) + 1
        /\ Append(Registered, t)[Len(Chain) + 1] = t
        /\ \A k \in 1 .. Len(Chain) : Append(Registered, t)[k] = Registered[k]
    BY <1>5
  <2>4. Registered' = Append(Registered, t)
    <3>1. \A k \in 1 .. (Len(Chain) + 1) : k = Len(Chain) + 1 \/ k \in 1 .. Len(Chain)
      BY <1>4
    <3>2. \A k \in 1 .. (Len(Chain) + 1) : Registered'[k] = Append(Registered, t)[k]
      BY <1>3, <1>5, <1>6, <2>2, <2>3, <3>1
    <3>3. QED
      BY <1>6, <2>2, <2>3, <3>2, SeqEqual
  <2>5. ~Adrift'
    BY <1>2, <1>7, <2>2 DEF Adrift
  <2>6. QED
    BY <1>8, <1>10, <2>4, <2>5 DEF Registry!AddThread, Registry!Contains, Contains, Registered, Adrift
<1>11. QED
  BY <1>9, <1>10

\* A worker that takes its node out of the list is registered no longer.
LEMMA UnlinkImplements ==
  ASSUME IInv, IInv', NEW t \in Threads, Unlink(t) PROVE Registry!RmvThread(t)
<1>1. PICK i \in 1 .. Len(Chain) : tid[Chain[i]] = t /\ Chain' = RemoveAt(Chain, i)
  BY UnlinkChain
<1>2. last' = last /\ tid' = tid
  BY DEF Unlink
<1>3. /\ Chain \in Seq(Nodes) /\ Len(Chain) \in Nat /\ (Chain = <<>> <=> Len(Chain) = 0)
      /\ DOMAIN Chain = 1 .. Len(Chain)
      /\ \A j, k \in 1 .. Len(Chain) : j # k => Chain[j] # Chain[k] /\ tid[Chain[j]] # tid[Chain[k]]
  BY ChainFacts
<1>4. /\ Registered \in Seq(Threads) /\ Len(Registered) = Len(Chain) /\ DOMAIN Registered = 1 .. Len(Chain)
      /\ \A k \in 1 .. Len(Chain) : Registered[k] = tid[Chain[k]]
  BY RegisteredFacts
<1>5. /\ Registered' \in Seq(Threads) /\ Len(Registered') = Len(Chain') /\ DOMAIN Registered' = 1 .. Len(Chain')
      /\ \A k \in 1 .. Len(Chain') : Registered'[k] = tid'[Chain'[k]]
      /\ (Registered' = <<>> <=> Chain' = <<>>)
  BY RegisteredNext
<1>6. Last(Chain) = Chain[Len(Chain)] /\ Last(Chain') = Chain'[Len(Chain')] /\ Last(Registered) = Registered[Len(Chain)]
  BY <1>4 DEF Last
<1>7. /\ Len(Chain') = Len(Chain) - 1
      /\ \A k \in 1 .. (Len(Chain) - 1) : Chain'[k] = IF k < i THEN Chain[k] ELSE Chain[k + 1]
  BY <1>1, <1>3, RemoveAtFacts
<1>8. /\ RemoveAt(Registered, i) \in Seq(Threads) /\ Len(RemoveAt(Registered, i)) = Len(Chain) - 1
      /\ \A k \in 1 .. (Len(Chain) - 1) : RemoveAt(Registered, i)[k] = IF k < i THEN Registered[k] ELSE Registered[k + 1]
  <2>1. \A r, n : r \in Seq(Threads) /\ Len(r) = n /\ i \in 1 .. n =>
          /\ RemoveAt(r, i) \in Seq(Threads) /\ Len(RemoveAt(r, i)) = n - 1
          /\ \A k \in 1 .. (n - 1) : RemoveAt(r, i)[k] = IF k < i THEN r[k] ELSE r[k + 1]
    BY RemoveAtFacts, Zenon
  <2>2. QED
    BY <1>4, <2>1
<1>9. \A k \in 1 .. (Len(Chain) - 1) : k \in 1 .. Len(Chain) /\ k + 1 \in 1 .. Len(Chain) /\ k < Len(Chain)
  BY <1>3
<1>10. Registered' = RemoveAt(Registered, i)
  <2>1. \A k \in 1 .. (Len(Chain) - 1) : Registered'[k] = RemoveAt(Registered, i)[k]
    BY <1>2, <1>4, <1>5, <1>7, <1>8, <1>9
  <2>2. QED
    BY <1>5, <1>7, <1>8, <2>1, SeqEqual
<1>11. i \in DOMAIN Registered /\ Registered[i] = t
  BY <1>1, <1>4
<1>12. Adrift' <=> Registered' # <<>> /\ (Adrift \/ Last(Registered) = t)
  <2>1. SUFFICES ASSUME Chain' # <<>> PROVE last # Last(Chain') <=> Adrift \/ Last(Registered) = t
    BY <1>2, <1>5 DEF Adrift
  <2>2. Len(Chain') # 0 /\ Chain # <<>>
    <3>1. Len(Chain') # 0
      BY <2>1, <1>5
    <3>2. QED
      BY <1>3, <3>1
  <2>3. Len(Chain) - 1 \in 1 .. (Len(Chain) - 1) /\ Len(Chain) \in 1 .. Len(Chain) /\ Len(Chain) - 1 + 1 = Len(Chain)
    BY <1>3, <1>7, <2>2
  <2>4. \A k \in 1 .. Len(Chain) : k < Len(Chain) => Chain[k] # last
    BY <1>3, <2>2 DEF IInv, ChainInv
  <2>5. Last(Registered) = t <=> i = Len(Chain)
    <3>1. Last(Registered) = tid[Chain[Len(Chain)]]
      BY <1>4, <1>6, <2>3
    <3>2. i # Len(Chain) => tid[Chain[i]] # tid[Chain[Len(Chain)]]
      BY <1>3, <2>3
    <3>3. tid[Chain[i]] = t
      BY <1>1
    <3>4. QED
      BY <3>1, <3>2, <3>3
  <2>6. Last(Chain') = IF Len(Chain) - 1 < i THEN Chain[Len(Chain) - 1] ELSE Chain[Len(Chain)]
    BY <1>6, <1>7, <2>3
  <2>7. Len(Chain) - 1 < i <=> i = Len(Chain)
    <3>1. Len(Chain) \in Nat
      BY <1>3
    <3>2. QED
      BY <3>1
  <2>8. Adrift <=> last # Chain[Len(Chain)]
    BY <1>6, <2>2 DEF Adrift
  <2>9. Chain[Len(Chain) - 1] # last
    BY <1>9, <2>3, <2>4
  <2>10. QED
    BY <2>5, <2>6, <2>7, <2>8, <2>9
<1>13. QED
  BY <1>10, <1>11, <1>12 DEF Registry!RmvThread, Registry!RemoveAt, RemoveAt, Registry!Last, Last, Registered, Adrift

\* The other steps change nothing that the registry knows of.
LEMMA OthersImplement ==
  ASSUME IInv, UNCHANGED <<head, last, tid, next>> PROVE UNCHANGED <<Registered, Adrift>>
<1>1. Chain' = Chain
  BY ChainSame
<1>2. QED
  BY <1>1 DEF Registered, Adrift

\* Every step is a step of the registry or changes nothing it knows of.
LEMMA StepImplements ==
  ASSUME IInv, IInv', [Next]_vars PROVE [Registry!Next]_<<Registered, Adrift>>
<1>1. ASSUME NEW t \in Threads, AddThread(t) \/ RmvThread(t) \/ RmvStep(t) \/ ThreadEnds(t)
      PROVE  [Registry!Next]_<<Registered, Adrift>>
  <2>1. ASSUME AddThread(t) PROVE Registry!Next
    BY <2>1, AddThreadImplements DEF Registry!Next
  <2>2. ASSUME Unlink(t) PROVE Registry!Next
    BY <2>2, UnlinkImplements DEF Registry!Next
  <2>3. ASSUME RmvThread(t) \/ SearchNext(t) \/ FreeNode(t) \/ NotFound(t) \/ ThreadEnds(t)
        PROVE  UNCHANGED <<head, last, tid, next>>
    BY <2>3 DEF RmvThread, SearchNext, FreeNode, NotFound, ThreadEnds, list
  <2>4. QED
    BY <1>1, <2>1, <2>2, <2>3, OthersImplement DEF RmvStep
<1>2. ASSUME NEW k \in Callers, EndThreads(k) \/ Walk(k)
      PROVE  [Registry!Next]_<<Registered, Adrift>>
  <2>1. UNCHANGED <<head, last, tid, next>>
    BY <1>2 DEF EndThreads, Walk, CallJoin, JoinReturns, ToNextNode, EndThreadsReturns, list
  <2>2. QED
    BY <2>1, OthersImplement
<1>3. ASSUME UNCHANGED vars PROVE UNCHANGED <<head, last, tid, next>>
  BY <1>3 DEF vars, list
<1>4. QED
  BY <1>1, <1>2, <1>3, OthersImplement DEF Next, Terminated

\* The nodes and pointers amount to the sequence of registered threads that
\* ThreadRegistry has, and its last pointer goes adrift exactly when the thread
\* at the end is removed and others stay (server_utils.c:53-90).
THEOREM ThreadListImplements == Spec => Implements
<1>1. Init => Registered = <<>> /\ ~Adrift
  <2> SUFFICES ASSUME Init PROVE Registered = <<>> /\ ~Adrift
    OBVIOUS
  <2>1. IInv
    BY InitHolds
  <2>2. Chain = <<>>
    BY <2>1, ConstantFacts, ChainFacts DEF Init, Links
  <2>3. QED
    BY <2>1, <2>2, RegisteredFacts DEF Adrift
<1>2. Init => Registry!Init
  BY <1>1 DEF Registry!Init, Registered, Adrift
<1>3. ASSUME IInv, IInv', [Next]_vars PROVE [Registry!Next]_Registry!vars
  BY <1>3, StepImplements DEF Registry!vars, Registered, Adrift
<1>4. QED
  BY <1>2, <1>3, Invariance, PTL DEF Spec, Implements, Registry!Spec

-----------------------------------------------------------------------------
(* The server.                                                             *)

\* Where a worker is in server_logic.
Stages == Serving \union {"none", "type", "add", "leave"}

\* Where it is between the beginning of a command and the end of the response.
Busy == {"receive", "respond", "ack"}

\* What a worker's socket can hold.
Letters == {"type", "command", "rest", "ack", "eof"}

\* What a client does.
Doings == {"away", "connected", "ready", "sending", "waiting", "gone"}

\* The types of the server's own variables.
ServerTypes ==
  /\ main \in {"select", "create", "close_server"}
  /\ server_flag \in {"UP", "DOWN"} /\ process \in {"up", "exited", "killed"}
  /\ client_socket \in Threads \union {NULL} /\ accepted \subseteq Threads
  /\ backlog \in [DOMAIN Families -> Seq(Threads)]
  /\ stage \in [Threads -> Stages]
  /\ client \in [Threads -> Doings]
  /\ inbox \in [Threads -> Seq(Letters)] /\ asked \in [Threads -> 0 .. MaxCommands]

\* A worker is where its operations on the list say.
Places ==
  \A c \in Threads :
    /\ stage[c] \in Serving <=> pc[c] = "serving"
    /\ stage[c] = "leave" <=> pc[c] \in {"searching", "freeing", "leaving"}

\* A connection waits at one socket, once, or was accepted; the one the main
\* thread is about to create a thread for has none.
Queues ==
  /\ \A f \in DOMAIN Families : Len(backlog[f]) <= Backlog
  /\ \A f, g \in DOMAIN Families : \A j \in DOMAIN backlog[f], k \in DOMAIN backlog[g] :
       backlog[f][j] = backlog[g][k] => f = g /\ j = k
  /\ \A f \in DOMAIN Families : \A k \in DOMAIN backlog[f] :
       backlog[f][k] \notin accepted /\ client[backlog[f][k]] # "away"
  /\ \A c \in accepted : client[c] # "away"
  /\ \A c \in Threads : HasThread(c) => c \in accepted
  /\ main = "create" => client_socket \in accepted /\ ~HasThread(client_socket)

\* A worker is busy as long as its client is in service.  The checksum_status of
\* an earlier response is read first, and nothing is sent by a client that left.
Inboxes ==
  \A c \in Threads :
    /\ InService(c) => stage[c] \in Busy
    /\ \A k \in DOMAIN inbox[c] : inbox[c][k] = "ack" => k = 1 /\ ~InService(c)
    /\ \A k \in DOMAIN inbox[c] : inbox[c][k] = "eof" => client[c] = "gone"

\* The process exits when a walk is over, and only then.
Exits == process = "exited" <=> \E k \in Callers : walk[k] = "done"

\* The inductive invariant of the server, beside the one of the list.
SInv == ServerTypes /\ Places /\ Queues /\ Inboxes /\ Exits

-----------------------------------------------------------------------------
(* The server's steps are steps of the list. *)

\* As long as the server is up no walk is over.
LEMMA UpNotOver == ASSUME SInv, Up PROVE ~Over
BY DEF SInv, Exits, Up, Over

\* Whatever the server does, its threads change the list as ThreadList says.
LEMMA ListStep == ASSUME SInv, [ServerNext]_allvars PROVE [Next]_vars
<1>1. ASSUME NEW k \in Callers, Up, EndThreads(k) \/ Walk(k) PROVE Next
  BY <1>1, UpNotOver DEF Next
<1>2. ASSUME NEW c \in Threads, Up, AddThread(c) \/ RmvThread(c) \/ RmvStep(c) \/ ThreadEnds(c)
      PROVE  Next
  BY <1>2, UpNotOver DEF Next
<1>3. ASSUME NEW k \in Callers, JoinStep(k) \/ CloseServer(k) PROVE Next
  BY <1>1, <1>3 DEF JoinStep, CloseServer, Walk
<1>4. MAIN \in Callers /\ Threads \subseteq Callers
  BY DEF Callers
<1>5. ASSUME NEW c \in Threads, Worker(c) PROVE [Next]_vars
  <2>1. ASSUME \/ ReceiveType(c) \/ ReceiveCommand(c) \/ ReceiveRest(c) \/ CutOff(c)
               \/ Respond(c) \/ ReceiveStatus(c) \/ ConnectionReset(c)
        PROVE  UNCHANGED vars
    BY <2>1 DEF ReceiveType, ReceiveCommand, ReceiveRest, CutOff, Respond, ReceiveStatus, ConnectionReset,
                threadvars
  <2>2. ASSUME AddSelf(c) \/ NoticeDisconnection(c) \/ RemoveStep(c) \/ NoticeFlag(c) \/ Return(c)
        PROVE  Next
    BY <1>2, <2>2 DEF AddSelf, NoticeDisconnection, RemoveStep, NoticeFlag, Return, Does
  <2>3. ASSUME CloseForUnknown(c) PROVE Next
    BY <1>1, <1>4, <2>3 DEF CloseForUnknown, Does
  <2>4. QED
    BY <1>3, <1>4, <1>5, <2>1, <2>2, <2>3 DEF Worker
<1>6. ASSUME NEW c \in Threads, Client(c) PROVE UNCHANGED vars
  BY <1>6 DEF Client, GoesOn, SendType, SendCommand, SendRest, Acknowledge, Leave, Connect, threadvars
<1>7. ASSUME NEW c \in Threads, InterruptWorker(c) PROVE Next
  BY <1>1, <1>4, <1>7 DEF InterruptWorker
<1>8. ASSUME Main PROVE [Next]_vars
  BY <1>3, <1>4, <1>8 DEF Main, Accept, CreateThread, threadvars
<1>9. ASSUME Interrupt PROVE Next
  BY <1>1, <1>4, <1>9 DEF Interrupt
<1>10. ASSUME UNCHANGED allvars PROVE UNCHANGED vars
  BY <1>10 DEF allvars, threadvars
<1>11. ASSUME MainFails \/ \E c \in Threads : WorkerFails(c) PROVE UNCHANGED vars
  BY <1>11 DEF MainFails, WorkerFails, threadvars
<1>12. QED
  BY <1>5, <1>6, <1>7, <1>8, <1>9, <1>10, <1>11 DEF ServerNext, Stopped

-----------------------------------------------------------------------------
(* What the steps leave as it is. *)

\* The workers stay where they are.
LEMMA PlacesKept == ASSUME SInv, stage' = stage, pc' = pc PROVE Places'
BY DEF SInv, Places

\* Nobody connects, is accepted or gets a thread.
LEMMA QueuesKept ==
  ASSUME SInv, UNCHANGED <<backlog, accepted>>,
         \A c \in Threads : client[c] # "away" => client'[c] # "away",
         \A c \in Threads : stage'[c] # "none" \/ pc'[c] # "new" => stage[c] # "none" \/ pc[c] # "new",
         main' # "create" \/ UNCHANGED <<main, client_socket>>
  PROVE  Queues'
<1>1. /\ accepted \subseteq Threads /\ backlog \in [DOMAIN Families -> Seq(Threads)]
      /\ client_socket \in Threads \union {NULL}
  BY DEF SInv, ServerTypes
<1>2. \A f \in DOMAIN Families : \A k \in DOMAIN backlog[f] : backlog[f][k] \in Threads
  BY <1>1
<1>3. /\ \A f \in DOMAIN Families : Len(backlog'[f]) <= Backlog
      /\ \A f, g \in DOMAIN Families : \A j \in DOMAIN backlog'[f], k \in DOMAIN backlog'[g] :
           backlog'[f][j] = backlog'[g][k] => f = g /\ j = k
  BY DEF SInv, Queues
<1>4. \A f \in DOMAIN Families : \A k \in DOMAIN backlog'[f] :
        backlog'[f][k] \notin accepted' /\ client'[backlog'[f][k]] # "away"
  BY <1>2 DEF SInv, Queues
<1>5. \A c \in accepted' : client'[c] # "away"
  BY <1>1 DEF SInv, Queues
<1>6. \A c \in Threads : HasThread(c)' => c \in accepted'
  BY DEF SInv, Queues, HasThread
<1>7. main' = "create" => client_socket' \in accepted' /\ ~HasThread(client_socket)'
  BY <1>1 DEF SInv, Queues, HasThread
<1>8. QED
  BY <1>3, <1>4, <1>5, <1>6, <1>7 DEF Queues

\* Nobody sends anything and nothing is read; a worker is no longer busy only
\* when its client is not in service.
LEMMA InboxesKept ==
  ASSUME SInv, inbox' = inbox,
         \A c \in Threads : client'[c] = client[c] \/ (client'[c] = "connected" /\ client[c] = "away"),
         \A c \in Threads : stage[c] \in Busy => stage'[c] \in Busy \/ ~InService(c)
  PROVE  Inboxes'
<1>1. Inboxes
  BY DEF SInv
<1>2. \A c \in Threads : InService(c)' => InService(c)
  BY DEF InService
<1>3. \A c \in Threads : client[c] = "gone" => client'[c] = "gone"
  OBVIOUS
<1>4. QED
  BY <1>1, <1>2, <1>3 DEF Inboxes

\* The worker of one client reads what comes first of what the client has sent.
LEMMA InboxesRead ==
  ASSUME SInv, NEW c \in Threads, inbox[c] # <<>>, inbox' = [inbox EXCEPT ![c] = Tail(inbox[c])],
         client' = client, \A d \in Threads : d # c => stage'[d] = stage[d],
         stage'[c] \in Busy \/ (Head(inbox[c]) # "command" /\ ~InService(c))
  PROVE  Inboxes' /\ inbox' \in [Threads -> Seq(Letters)]
<1>1. Inboxes /\ inbox \in [Threads -> Seq(Letters)]
  BY DEF SInv, ServerTypes
<1>2. PICK x : x = inbox[c]
  OBVIOUS
<1>3. x \in Seq(Letters) /\ x # <<>> /\ Len(x) \in Nat /\ DOMAIN x = 1 .. Len(x)
  BY <1>1, <1>2
<1>4. /\ Tail(x) \in Seq(Letters) /\ Head(x) = x[1] /\ DOMAIN Tail(x) = 1 .. (Len(x) - 1)
      /\ \A k \in 1 .. (Len(x) - 1) : Tail(x)[k] = x[k + 1]
  BY <1>3, HeadTailProperties
<1>5. /\ inbox'[c] = Tail(x) /\ \A d \in Threads : d # c => inbox'[d] = inbox[d]
      /\ inbox' \in [Threads -> Seq(Letters)]
  BY <1>1, <1>2, <1>4
<1>6. \A k \in DOMAIN inbox'[c] : k + 1 \in DOMAIN x /\ k + 1 # 1 /\ inbox'[c][k] = x[k + 1]
  BY <1>3, <1>4, <1>5
<1>7. \A k \in DOMAIN inbox'[c] : inbox'[c][k] # "ack" /\ (inbox'[c][k] = "eof" => client[c] = "gone")
  BY <1>1, <1>2, <1>6 DEF Inboxes
<1>8. InService(c)' => stage'[c] \in Busy
  <2>1. SUFFICES ASSUME InService(c)', Head(x) # "command", ~InService(c) PROVE FALSE
    BY <1>2
  <2>2. PICK k \in DOMAIN x : x[k] = "command"
    BY <1>2, <2>1 DEF InService
  <2>3. k # 1
    BY <1>4, <2>1, <2>2
  <2>4. k - 1 \in 1 .. (Len(x) - 1) /\ k - 1 + 1 = k
    BY <1>3, <2>2, <2>3
  <2>5. inbox'[c][k - 1] = "command" /\ k - 1 \in DOMAIN inbox'[c]
    BY <1>4, <1>5, <2>2, <2>4
  <2>6. QED
    BY <2>1, <2>5 DEF InService
<1>9. ASSUME NEW d \in Threads, d # c
      PROVE  /\ InService(d)' => stage'[d] \in Busy
             /\ \A k \in DOMAIN inbox'[d] : inbox'[d][k] = "ack" => k = 1 /\ ~InService(d)'
             /\ \A k \in DOMAIN inbox'[d] : inbox'[d][k] = "eof" => client'[d] = "gone"
  <2>1. inbox'[d] = inbox[d] /\ stage'[d] = stage[d] /\ client'[d] = client[d]
    BY <1>5, <1>9
  <2>2. InService(d)' <=> InService(d)
    BY <2>1 DEF InService
  <2>3. QED
    BY <1>1, <2>1, <2>2 DEF Inboxes
<1>10. QED
  BY <1>5, <1>7, <1>8, <1>9 DEF Inboxes

\* No walk ends and the process does not exit.
LEMMA ExitsKept ==
  ASSUME SInv, Up, process' # "exited", \A k \in Callers : walk'[k] = "done" => walk[k] = "done"
  PROVE  Exits'
BY DEF SInv, Exits, Up

-----------------------------------------------------------------------------
(* The clients. *)

\* Someone connects.
LEMMA ConnectKeeps ==
  ASSUME SInv, NEW c \in Threads, NEW f \in DOMAIN Families, Connect(c, f) PROVE SInv'
<1>1. /\ Up /\ client[c] = "away" /\ Len(backlog[f]) < Backlog
      /\ backlog' = [backlog EXCEPT ![f] = Append(backlog[f], c)]
      /\ client' = [client EXCEPT ![c] = "connected"]
      /\ pc' = pc /\ walk' = walk /\ main' = main /\ server_flag' = server_flag /\ process' = process
      /\ client_socket' = client_socket /\ accepted' = accepted /\ stage' = stage /\ inbox' = inbox /\ asked' = asked
  BY DEF Connect, threadvars, vars, walker
<1>2. ServerTypes
  BY DEF SInv
<1>3. backlog \in [DOMAIN Families -> Seq(Threads)] /\ backlog[f] \in Seq(Threads) /\ Len(backlog[f]) \in Nat
  BY <1>2 DEF ServerTypes
<1>4. /\ Append(backlog[f], c) \in Seq(Threads) /\ Len(Append(backlog[f], c)) = Len(backlog[f]) + 1
      /\ DOMAIN Append(backlog[f], c) = 1 .. (Len(backlog[f]) + 1)
      /\ Append(backlog[f], c)[Len(backlog[f]) + 1] = c
      /\ \A k \in 1 .. Len(backlog[f]) : Append(backlog[f], c)[k] = backlog[f][k]
      /\ DOMAIN backlog[f] = 1 .. Len(backlog[f])
  BY <1>3
<1>5. /\ backlog'[f] = Append(backlog[f], c) /\ \A g \in DOMAIN Families : g # f => backlog'[g] = backlog[g]
      /\ backlog' \in [DOMAIN Families -> Seq(Threads)]
  BY <1>1, <1>3, <1>4
<1>7. client \in [Threads -> Doings] /\ accepted \subseteq Threads
  BY <1>2 DEF ServerTypes
<1>6. ServerTypes'
  <2>1. client' \in [Threads -> Doings]
    BY <1>1, <1>7 DEF Doings
  <2>2. QED
    BY <1>1, <1>2, <1>5, <2>1 DEF ServerTypes
<1>8. client'[c] = "connected" /\ \A d \in Threads : d # c => client'[d] = client[d]
  BY <1>1, <1>7
<1>9. Queues'
  <2>1. \A g \in DOMAIN Families : \A k \in DOMAIN backlog'[g] :
          \/ g = f /\ k = Len(backlog[f]) + 1 /\ backlog'[g][k] = c
          \/ k \in DOMAIN backlog[g] /\ backlog'[g][k] = backlog[g][k] /\ backlog[g][k] # c
    <3>1. SUFFICES ASSUME NEW g \in DOMAIN Families, NEW k \in DOMAIN backlog'[g],
                          ~(g = f /\ k = Len(backlog[f]) + 1)
                   PROVE  k \in DOMAIN backlog[g] /\ backlog'[g][k] = backlog[g][k] /\ backlog[g][k] # c
      BY <1>4, <1>5
    <3>2. k \in DOMAIN backlog[g] /\ backlog'[g][k] = backlog[g][k]
      <4>1. g = f => k \in 1 .. (Len(backlog[f]) + 1) /\ k # Len(backlog[f]) + 1
        BY <1>4, <1>5, <3>1
      <4>2. g = f => k \in 1 .. Len(backlog[f])
        BY <1>3, <4>1
      <4>3. QED
        BY <1>4, <1>5, <3>1, <4>2
    <3>3. QED
      BY <1>1, <3>2 DEF SInv, Queues
  <2>2. \A g \in DOMAIN Families : Len(backlog'[g]) <= Backlog
    <3>1. Backlog \in Nat
      BY ServerAssumption
    <3>2. Len(backlog'[f]) <= Backlog
      BY <1>1, <1>3, <1>4, <1>5, <3>1
    <3>3. QED
      BY <1>5, <3>2 DEF SInv, Queues
  <2>3. \A g, h \in DOMAIN Families : \A j \in DOMAIN backlog'[g], k \in DOMAIN backlog'[h] :
          backlog'[g][j] = backlog'[h][k] => g = h /\ j = k
    BY <2>1 DEF SInv, Queues
  <2>4. \A g \in DOMAIN Families : \A k \in DOMAIN backlog'[g] :
          backlog'[g][k] \notin accepted' /\ client'[backlog'[g][k]] # "away"
    <3>1. c \notin accepted
      BY <1>1 DEF SInv, Queues
    <3>2. \A g \in DOMAIN Families : \A k \in DOMAIN backlog[g] : backlog[g][k] \in Threads
      BY <1>3
    <3>3. QED
      BY <1>1, <1>8, <2>1, <3>1, <3>2 DEF SInv, Queues
  <2>5. \A d \in accepted' : client'[d] # "away"
    BY <1>1, <1>7, <1>8 DEF SInv, Queues
  <2>6. \A d \in Threads : HasThread(d)' => d \in accepted'
    BY <1>1 DEF SInv, Queues, HasThread
  <2>7. main' = "create" => client_socket' \in accepted' /\ ~HasThread(client_socket)'
    BY <1>1 DEF SInv, Queues, HasThread
  <2>8. QED
    BY <2>2, <2>3, <2>4, <2>5, <2>6, <2>7 DEF Queues
<1>10. Places' /\ Exits'
  BY <1>1, PlacesKept, ExitsKept DEF Up, SInv, Exits
<1>11. Inboxes'
  BY <1>1, <1>8, InboxesKept
<1>12. QED
  BY <1>6, <1>9, <1>10, <1>11 DEF SInv

\* A client sends or leaves.
LEMMA ClientSends ==
  ASSUME SInv, NEW c \in Threads, NEW m \in Letters, NEW s \in Doings, s # "away", client[c] # "gone",
         Up, Sends(c, m), client' = [client EXCEPT ![c] = s],
         s = "sending" => m = "command", s = "waiting" => client[c] = "sending",
         m = "ack" => s = "ready" /\ inbox[c] = <<>>, m = "eof" => s = "gone",
         asked' \in [Threads -> 0 .. MaxCommands],
         UNCHANGED <<threadvars, mainvars, process, stage>>
  PROVE  SInv'
<1>1. /\ pc' = pc /\ walk' = walk /\ process' = process /\ stage' = stage
      /\ UNCHANGED <<main, server_flag, backlog, client_socket, accepted>>
  BY DEF threadvars, vars, walker, mainvars
<1>2. ServerTypes
  BY DEF SInv
<1>3. /\ inbox \in [Threads -> Seq(Letters)] /\ client \in [Threads -> Doings]
  BY <1>2 DEF ServerTypes
<1>4. PICK x : x = inbox[c]
  OBVIOUS
<1>5. /\ x \in Seq(Letters) /\ Len(x) \in Nat /\ DOMAIN x = 1 .. Len(x) /\ (x = <<>> => Len(x) = 0)
      /\ Append(x, m) \in Seq(Letters) /\ DOMAIN Append(x, m) = 1 .. (Len(x) + 1)
      /\ Append(x, m)[Len(x) + 1] = m /\ \A k \in 1 .. Len(x) : Append(x, m)[k] = x[k]
  BY <1>3, <1>4
<1>6. /\ inbox'[c] = Append(x, m) /\ client'[c] = s
      /\ \A d \in Threads : d # c => inbox'[d] = inbox[d] /\ client'[d] = client[d]
      /\ inbox' \in [Threads -> Seq(Letters)] /\ client' \in [Threads -> Doings]
  BY <1>3, <1>4, <1>5 DEF Sends
<1>7. ServerTypes'
  BY <1>1, <1>2, <1>6 DEF ServerTypes
<1>8. Places' /\ Exits' /\ Queues'
  <2>1. \A d \in Threads : client[d] # "away" => client'[d] # "away"
    BY <1>6
  <2>2. QED
    BY <1>1, <2>1, PlacesKept, ExitsKept, QueuesKept DEF Up
<1>9. \A k \in DOMAIN x : k \in DOMAIN inbox'[c] /\ inbox'[c][k] = x[k]
  BY <1>5, <1>6
<1>10. \A k \in DOMAIN inbox'[c] : (k \in DOMAIN x /\ inbox'[c][k] = x[k])
                                   \/ (k = Len(x) + 1 /\ inbox'[c][k] = m)
  BY <1>5, <1>6
<1>11. Inboxes
  BY DEF SInv
<1>12. InService(c)' => InService(c)
  <2>1. SUFFICES ASSUME InService(c)' PROVE InService(c)
    OBVIOUS
  <2>2. s # "sending"
    BY <1>5, <1>6, <2>1 DEF InService
  <2>3. client[c] = "sending"
    BY <1>6, <2>1, <2>2 DEF InService
  <2>4. \A k \in DOMAIN x : x[k] # "command"
    BY <1>9, <2>1 DEF InService
  <2>5. QED
    BY <1>4, <2>3, <2>4 DEF InService
<1>13. ASSUME NEW k \in DOMAIN inbox'[c], inbox'[c][k] = "ack" PROVE k = 1 /\ ~InService(c)'
  <2>1. CASE k \in DOMAIN x /\ inbox'[c][k] = x[k]
    BY <1>4, <1>11, <1>12, <1>13, <2>1 DEF Inboxes
  <2>2. CASE k = Len(x) + 1 /\ m = "ack"
    BY <1>4, <1>5, <1>6, <2>2 DEF InService
  <2>3. QED
    BY <1>10, <1>13, <2>1, <2>2
<1>14. ASSUME NEW k \in DOMAIN inbox'[c], inbox'[c][k] = "eof" PROVE client'[c] = "gone"
  BY <1>4, <1>6, <1>10, <1>11, <1>14 DEF Inboxes
<1>15. ASSUME NEW d \in Threads, d # c
       PROVE  /\ InService(d)' => stage'[d] \in Busy
              /\ \A k \in DOMAIN inbox'[d] : inbox'[d][k] = "ack" => k = 1 /\ ~InService(d)'
              /\ \A k \in DOMAIN inbox'[d] : inbox'[d][k] = "eof" => client'[d] = "gone"
  <2>1. inbox'[d] = inbox[d] /\ stage'[d] = stage[d] /\ client'[d] = client[d]
    BY <1>1, <1>6, <1>15
  <2>2. InService(d)' <=> InService(d)
    BY <2>1 DEF InService
  <2>3. QED
    BY <1>11, <2>1, <2>2 DEF Inboxes
<1>16. Inboxes'
  BY <1>1, <1>11, <1>12, <1>13, <1>14, <1>15 DEF Inboxes
<1>17. QED
  BY <1>7, <1>8, <1>16 DEF SInv

\* The steps of a client.
LEMMA ClientKeeps == ASSUME SInv, NEW c \in Threads, Client(c) PROVE SInv'
<1>1. asked \in [Threads -> 0 .. MaxCommands] /\ MaxCommands \in Nat
  BY ServerAssumption DEF SInv, ServerTypes
<1>2. ASSUME SendType(c) PROVE SInv'
  BY <1>1, <1>2, ClientSends DEF SendType, Letters, Doings
<1>3. ASSUME SendCommand(c) PROVE SInv'
  <2>1. asked' = [asked EXCEPT ![c] = asked[c] + 1] /\ asked[c] < MaxCommands
    BY <1>3 DEF SendCommand
  <2>2. asked' \in [Threads -> 0 .. MaxCommands]
    BY <1>1, <2>1
  <2>3. QED
    BY <1>3, <2>2, ClientSends DEF SendCommand, Letters, Doings
<1>4. ASSUME Leave(c) PROVE SInv'
  BY <1>1, <1>4, ClientSends DEF Leave, Letters, Doings
<1>5. ASSUME SendRest(c) PROVE SInv'
  BY <1>1, <1>5, ClientSends DEF SendRest, Letters, Doings
<1>6. ASSUME Acknowledge(c) PROVE SInv'
  BY <1>1, <1>6, ClientSends DEF Acknowledge, Letters, Doings
<1>7. QED
  BY <1>2, <1>3, <1>4, <1>5, <1>6, ConnectKeeps DEF Client, GoesOn

-----------------------------------------------------------------------------
(* The main thread. *)

\* A set of numbers up to n has a greatest one.
LEMMA Greatest ==
  ASSUME NEW n \in Nat, NEW S \in SUBSET (1 .. n), S # {}
  PROVE  Max(S) \in S
<1> DEFINE T == {m \in Nat : \A x \in S : x <= m}
<1>1. T \in SUBSET Nat /\ n \in T
  OBVIOUS
<1>2. PICK m \in T : \A k \in T : m <= k
  BY <1>1, Least
<1>3. m \in S
  <2>1. SUFFICES ASSUME m \notin S PROVE FALSE
    OBVIOUS
  <2>2. m \in Nat /\ \A x \in S : x <= m /\ x # m /\ x \in Nat /\ 1 <= x
    BY <1>2, <2>1
  <2>3. PICK y \in S : TRUE
    OBVIOUS
  <2>4. m - 1 \in Nat /\ \A x \in S : x <= m - 1
    BY <2>2, <2>3
  <2>5. m - 1 \in T
    BY <2>4
  <2>6. QED
    BY <1>2, <2>2, <2>5
<1>4. \A x \in S : m >= x
  BY <1>2, <1>3
<1>5. \E x \in S : \A y \in S : x >= y
  BY <1>3, <1>4
<1>6. QED
  BY <1>5 DEF Max

\* wait_client takes a connection from every socket that has one.
LEMMA AcceptKeeps == ASSUME SInv, Accept PROVE SInv'
<1>failed. PICK failed \in SUBSET (Ready \ {Max(Ready)}) :
        /\ backlog' = [f \in DOMAIN Families |->
                         IF f \in Ready \ failed THEN Tail(backlog[f]) ELSE backlog[f]]
        /\ accepted' = accepted \union {Head(backlog[f]) : f \in Ready \ failed}
  BY DEF Accept
<1> DEFINE Taken == Ready \ failed
<1>1. /\ Up /\ main = "select" /\ Ready # {} /\ main' = "create"
      /\ client_socket' = Head(backlog[Max(Ready)])
      /\ pc' = pc /\ walk' = walk /\ server_flag' = server_flag /\ process' = process /\ stage' = stage
      /\ inbox' = inbox /\ client' = client /\ asked' = asked
  BY DEF Accept, threadvars, vars, walker, clients
<1>taken. /\ backlog' = [f \in DOMAIN Families |-> IF f \in Taken THEN Tail(backlog[f]) ELSE backlog[f]]
       /\ accepted' = accepted \union {Head(backlog[f]) : f \in Taken}
       /\ Taken \subseteq Ready
  BY <1>failed
<1>2. ServerTypes
  BY DEF SInv
<1>3. backlog \in [DOMAIN Families -> Seq(Threads)] /\ accepted \subseteq Threads
  BY <1>2 DEF ServerTypes
<1>4. \A f \in DOMAIN Families : f \in Taken => backlog[f] # <<>>
  BY <1>taken DEF Ready
<1>5. \A f \in Taken :
        /\ f \in DOMAIN Families /\ Head(backlog[f]) = backlog[f][1] /\ 1 \in DOMAIN backlog[f]
        /\ backlog[f][1] \in Threads
  <2>1. SUFFICES ASSUME NEW f \in Taken
                 PROVE  /\ f \in DOMAIN Families /\ Head(backlog[f]) = backlog[f][1] /\ 1 \in DOMAIN backlog[f]
                        /\ backlog[f][1] \in Threads
    OBVIOUS
  <2>2. f \in DOMAIN Families /\ backlog[f] \in Seq(Threads) /\ backlog[f] # <<>>
    BY <1>3, <1>taken DEF Ready
  <2>3. QED
    BY <2>2
<1>6. /\ \A f \in DOMAIN Families : f \in Taken => backlog'[f] = Tail(backlog[f])
      /\ \A f \in DOMAIN Families : f \notin Taken => backlog'[f] = backlog[f]
      /\ DOMAIN backlog' = DOMAIN Families
  BY <1>1, <1>taken
<1>7. ASSUME NEW f \in DOMAIN Families
      PROVE  /\ backlog'[f] \in Seq(Threads) /\ Len(backlog'[f]) <= Len(backlog[f]) /\ Len(backlog'[f]) \in Nat
             /\ \A k \in DOMAIN backlog'[f] :
                  IF f \in Taken THEN k + 1 \in DOMAIN backlog[f] /\ backlog'[f][k] = backlog[f][k + 1] /\ k \in Nat /\ k + 1 # 1
                                 ELSE k \in DOMAIN backlog[f] /\ backlog'[f][k] = backlog[f][k] /\ k \in Nat
  <2>1. backlog[f] \in Seq(Threads) /\ Len(backlog[f]) \in Nat
    BY <1>3
  <2>2. CASE f \in Taken
    <3>1. backlog'[f] = Tail(backlog[f]) /\ backlog[f] # <<>>
      BY <1>4, <1>6, <2>2
    <3>2. /\ Tail(backlog[f]) \in Seq(Threads) /\ Len(Tail(backlog[f])) = Len(backlog[f]) - 1
          /\ DOMAIN Tail(backlog[f]) = 1 .. (Len(backlog[f]) - 1) /\ Len(backlog[f]) # 0
          /\ \A k \in 1 .. (Len(backlog[f]) - 1) : Tail(backlog[f])[k] = backlog[f][k + 1]
          /\ DOMAIN backlog[f] = 1 .. Len(backlog[f])
      BY <2>1, <3>1
    <3>3. \A k \in 1 .. (Len(backlog[f]) - 1) : k + 1 \in 1 .. Len(backlog[f]) /\ k \in Nat /\ k + 1 # 1
      BY <2>1
    <3>4. Len(backlog[f]) - 1 <= Len(backlog[f]) /\ Len(backlog[f]) - 1 \in Nat
      BY <2>1, <3>2
    <3>5. QED
      BY <2>2, <3>1, <3>2, <3>3, <3>4
  <2>3. CASE f \notin Taken
    <3>1. backlog'[f] = backlog[f]
      BY <1>6, <2>3
    <3>2. QED
      BY <2>1, <2>3, <3>1
  <2>4. QED
    BY <2>2, <2>3
<1>8. backlog' \in [DOMAIN Families -> Seq(Threads)]
  BY <1>1, <1>taken, <1>6, <1>7
<1>9. Max(Ready) \in Taken
  <2>1. Len(Families) \in Nat /\ DOMAIN Families = 1 .. Len(Families)
    BY ServerAssumption
  <2>2. Ready \in SUBSET (1 .. Len(Families))
    BY <2>1 DEF Ready
  <2>3. Max(Ready) \in Ready
    BY <1>1, <2>1, <2>2, Greatest
  <2>4. QED
    BY <2>3
<1> HIDE DEF Taken
<1>10. client_socket' \in Threads /\ client_socket' = backlog[Max(Ready)][1] /\ accepted' \subseteq Threads
  BY <1>1, <1>taken, <1>3, <1>5, <1>9
<1>11. ServerTypes'
  BY <1>1, <1>taken, <1>2, <1>8, <1>10 DEF ServerTypes
<1>12. Queues'
  <2>1. \A f \in DOMAIN Families : Len(backlog'[f]) <= Backlog
    <3>1. \A f \in DOMAIN Families : Len(backlog[f]) \in Nat /\ Len(backlog[f]) <= Backlog
      BY <1>3 DEF SInv, Queues
    <3>2. Backlog \in Nat
      BY ServerAssumption
    <3>3. QED
      BY <1>7, <3>1, <3>2
  <2>2. ASSUME NEW f \in DOMAIN Families, NEW k \in DOMAIN backlog'[f]
        PROVE  \E i \in DOMAIN backlog[f] : /\ backlog'[f][k] = backlog[f][i] /\ k \in Nat
                                            /\ i = (IF f \in Taken THEN k + 1 ELSE k)
                                            /\ f \in Taken => i # 1
    BY <1>7
  <2>3. ASSUME NEW f \in DOMAIN Families, NEW g \in DOMAIN Families,
               NEW j \in DOMAIN backlog'[f], NEW k \in DOMAIN backlog'[g],
               backlog'[f][j] = backlog'[g][k]
        PROVE  f = g /\ j = k
    <3>1. PICK i \in DOMAIN backlog[f] : /\ backlog'[f][j] = backlog[f][i] /\ j \in Nat
                                         /\ i = (IF f \in Taken THEN j + 1 ELSE j)
      BY <2>2
    <3>2. PICK l \in DOMAIN backlog[g] : /\ backlog'[g][k] = backlog[g][l] /\ k \in Nat
                                         /\ l = (IF g \in Taken THEN k + 1 ELSE k)
      BY <2>2
    <3>3. f = g /\ i = l
      <4>1. backlog[f][i] = backlog[g][l]
        BY <2>3, <3>1, <3>2
      <4>2. QED
        BY <4>1 DEF SInv, Queues
    <3>4. (j + 1 = k + 1 => j = k) /\ j \in Nat /\ k \in Nat
      <4>1. j \in Nat /\ k \in Nat
        BY <3>1, <3>2
      <4>2. QED
        BY <4>1
    <3>5. j + 1 = k + 1 \/ j = k
      BY <3>1, <3>2, <3>3
    <3>6. QED
      BY <3>3, <3>4, <3>5
  <2>4. ASSUME NEW f \in DOMAIN Families, NEW k \in DOMAIN backlog'[f]
        PROVE  backlog'[f][k] \notin accepted' /\ client'[backlog'[f][k]] # "away"
    <3>1. PICK i \in DOMAIN backlog[f] : backlog'[f][k] = backlog[f][i] /\ (f \in Taken => i # 1)
      BY <2>2
    <3>2. backlog[f][i] \notin accepted /\ client[backlog[f][i]] # "away"
      BY DEF SInv, Queues
    <3>3. \A g \in Taken : backlog[f][i] # Head(backlog[g])
      BY <1>5, <3>1 DEF SInv, Queues
    <3>4. QED
      BY <1>1, <1>taken, <3>1, <3>2, <3>3
  <2>5. ASSUME NEW c \in accepted' PROVE client'[c] # "away"
    <3>1. CASE c \in accepted
      BY <1>1, <3>1 DEF SInv, Queues
    <3>2. CASE c \notin accepted
      <4>1. PICK f \in Taken : c = Head(backlog[f])
        BY <1>1, <1>taken, <3>2
      <4>2. f \in DOMAIN Families /\ 1 \in DOMAIN backlog[f] /\ c = backlog[f][1]
        BY <1>5, <4>1
      <4>3. client[c] # "away"
        BY <4>2 DEF SInv, Queues
      <4>4. QED
        BY <1>1, <4>3
    <3>3. QED
      BY <3>1, <3>2
  <2>6. \A c \in Threads : HasThread(c)' => c \in accepted'
    BY <1>1, <1>taken DEF SInv, Queues, HasThread
  <2>7. client_socket' \in accepted' /\ ~HasThread(client_socket)'
    <3>1. client_socket' \in accepted'
      BY <1>1, <1>taken, <1>9
    <3>2. client_socket' \notin accepted
      BY <1>5, <1>9, <1>10 DEF SInv, Queues
    <3>3. stage[client_socket'] = "none" /\ pc[client_socket'] = "new"
      BY <1>10, <3>2 DEF SInv, Queues, HasThread
    <3>4. QED
      BY <1>1, <1>taken, <3>1, <3>3 DEF HasThread
  <2>8. QED
    BY <2>1, <2>3, <2>4, <2>5, <2>6, <2>7 DEF Queues
<1>13. Places' /\ Exits' /\ Inboxes'
  BY <1>1, <1>taken, PlacesKept, ExitsKept, InboxesKept DEF Up
<1>14. QED
  BY <1>11, <1>12, <1>13 DEF SInv

\* The last connection that was accepted gets its thread.
LEMMA CreateThreadKeeps == ASSUME SInv, CreateThread PROVE SInv'
<1>1. /\ Up /\ main = "create" /\ main' = "select" /\ client_socket' = NULL
      /\ stage' = [stage EXCEPT ![client_socket] = "type"]
      /\ UNCHANGED <<pc, walk, server_flag, process, backlog, accepted, inbox, client, asked>>
  BY DEF CreateThread, threadvars, vars, walker, clients
<1>2. ServerTypes
  BY DEF SInv
<1>3. stage \in [Threads -> Stages] /\ accepted \subseteq Threads
  BY <1>2 DEF ServerTypes
<1>4. client_socket \in accepted /\ stage[client_socket] = "none" /\ pc[client_socket] = "new"
  BY <1>1 DEF SInv, Queues, HasThread
<1>5. client_socket \in Threads
  BY <1>3, <1>4
<1>6. stage'[client_socket] = "type" /\ \A c \in Threads : c # client_socket => stage'[c] = stage[c]
  BY <1>1, <1>3, <1>5
<1>7. stage' \in [Threads -> Stages]
  BY <1>1, <1>3 DEF Stages
<1>8. ServerTypes'
  BY <1>1, <1>2, <1>7 DEF ServerTypes
<1>9. Places'
  <2>1. "type" \notin Serving /\ "none" \notin Serving
    BY DEF Serving
  <2>2. \A c \in Threads : c # client_socket => stage'[c] = stage[c] /\ pc'[c] = pc[c]
    BY <1>1, <1>6
  <2>3. /\ stage'[client_socket] = "type" /\ pc'[client_socket] = "new"
        /\ "new" \notin {"searching", "freeing", "leaving"}
    BY <1>1, <1>4, <1>6
  <2>4. QED
    BY <2>1, <2>2, <2>3 DEF SInv, Places
<1>10. Queues'
  <2>1. \A c \in Threads : HasThread(c)' => c \in accepted'
    BY <1>1, <1>4, <1>6 DEF SInv, Queues, HasThread
  <2>2. QED
    BY <1>1, <2>1 DEF SInv, Queues
<1>11. Inboxes'
  <2>1. \A c \in Threads : stage[c] \in Busy => stage'[c] \in Busy
    BY <1>4, <1>6 DEF Busy
  <2>2. QED
    BY <1>1, <2>1, InboxesKept
<1>12. Exits'
  BY <1>1, ExitsKept DEF Up
<1>13. QED
  BY <1>8, <1>9, <1>10, <1>11, <1>12 DEF SInv

\* An error ends the process.
LEMMA FailureKeeps ==
  ASSUME SInv, Up, process' = "killed", UNCHANGED <<threadvars, mainvars, stage, clients>> PROVE SInv'
<1>1. /\ UNCHANGED <<pc, walk, main, server_flag, backlog, client_socket, accepted>>
      /\ UNCHANGED <<stage, inbox, client, asked>>
  BY DEF threadvars, vars, walker, mainvars, clients
<1>2. ServerTypes'
  BY <1>1 DEF SInv, ServerTypes
<1>3. Places' /\ Queues' /\ Inboxes' /\ Exits'
  BY <1>1, PlacesKept, QueuesKept, InboxesKept, ExitsKept
<1>4. QED
  BY <1>2, <1>3 DEF SInv

-----------------------------------------------------------------------------
(* close_server, by whatever thread. *)

\* A thread is in end_threads, and no walk is over yet.
LEMMA CloserKeeps ==
  ASSUME SInv, Up, \A k \in Callers : walk'[k] = "done" => walk[k] = "done",
         UNCHANGED <<pc, stage, process, client_socket, backlog, accepted, clients>>,
         main' \in {"select", "create", "close_server"}, main' # "create" \/ main' = main,
         server_flag' \in {"UP", "DOWN"}
  PROVE  SInv'
<1>1. UNCHANGED <<inbox, client, asked>>
  BY DEF clients
<1>2. ServerTypes'
  BY <1>1 DEF SInv, ServerTypes
<1>3. Places' /\ Queues'
  BY <1>1, PlacesKept, QueuesKept
<1>4. Inboxes' /\ Exits'
  BY <1>1, InboxesKept, ExitsKept DEF Up
<1>5. QED
  BY <1>2, <1>3, <1>4 DEF SInv

\* A thread that begins end_threads is not at its end.
LEMMA BeginsNotDone ==
  ASSUME IInv, NEW k \in Callers, EndThreads(k)
  PROVE  pc' = pc /\ \A j \in Callers : walk'[j] = "done" => walk[j] = "done"
<1>1. walk \in [Callers -> {"off", "at", "joining", "joined", "undefined", "done"}]
  BY DEF IInv, TypeOK
<1>2. QED
  BY <1>1 DEF EndThreads

\* SIGINT interrupts the main thread, or then a worker; a worker closes the
\* server for a client of no known type.
LEMMA InterruptKeeps ==
  ASSUME IInv, SInv, Interrupt \/ \E c \in Threads : InterruptWorker(c) \/ CloseForUnknown(c)
  PROVE  SInv'
<1>1. MAIN \in Callers /\ Threads \subseteq Callers /\ main \in {"select", "create", "close_server"}
      /\ server_flag \in {"UP", "DOWN"}
  BY DEF Callers, SInv, ServerTypes
<1>2. ASSUME Interrupt PROVE SInv'
  <2>1. EndThreads(MAIN)
    BY <1>2 DEF Interrupt
  <2>2. pc' = pc /\ \A j \in Callers : walk'[j] = "done" => walk[j] = "done"
    BY <1>1, <2>1, BeginsNotDone
  <2>3. QED
    BY <1>2, <2>2, CloserKeeps DEF Interrupt
<1>3. ASSUME NEW c \in Threads, InterruptWorker(c) \/ CloseForUnknown(c) PROVE SInv'
  <2>1. EndThreads(c) /\ Up /\ UNCHANGED <<mainvars, process, stage, clients>>
    BY <1>3 DEF InterruptWorker, CloseForUnknown, Does
  <2>2. pc' = pc /\ \A j \in Callers : walk'[j] = "done" => walk[j] = "done"
    BY <1>1, <2>1, BeginsNotDone
  <2>3. QED
    BY <1>1, <2>1, <2>2, CloserKeeps DEF mainvars
<1>4. QED
  BY <1>2, <1>3

\* A walk goes on.
LEMMA JoinStepKeeps == ASSUME IInv, SInv, NEW k \in Callers, JoinStep(k) PROVE SInv'
<1>1. /\ Up /\ UNCHANGED <<mainvars, process, stage, clients>>
      /\ CallJoin(k) \/ JoinReturns(k) \/ ToNextNode(k)
  BY DEF JoinStep
<1>2. walk \in [Callers -> {"off", "at", "joining", "joined", "undefined", "done"}]
  BY DEF IInv, TypeOK
<1>3. pc' = pc /\ \E s \in {"undefined", "joined", "joining", "at"} : walk' = [walk EXCEPT ![k] = s]
  BY <1>1 DEF CallJoin, JoinReturns, ToNextNode, Goto
<1>4. \A j \in Callers : walk'[j] = "done" => walk[j] = "done"
  BY <1>2, <1>3
<1>5. main \in {"select", "create", "close_server"} /\ server_flag \in {"UP", "DOWN"}
  BY DEF SInv, ServerTypes
<1>6. QED
  BY <1>1, <1>3, <1>4, <1>5, CloserKeeps DEF mainvars

\* A walk is over, and the process exits.
LEMMA CloseServerKeeps == ASSUME IInv, SInv, NEW k \in Callers, CloseServer(k) PROVE SInv'
<1>1. /\ walk' = [walk EXCEPT ![k] = "done"] /\ process' = "exited"
      /\ UNCHANGED <<pc, stage, main, server_flag, backlog, client_socket, accepted, inbox, client, asked>>
  BY DEF CloseServer, EndThreadsReturns, Goto, mainvars, clients
<1>2. walk'[k] = "done"
  BY <1>1 DEF IInv, TypeOK
<1>3. Exits'
  BY <1>1, <1>2 DEF Exits
<1>4. ServerTypes'
  BY <1>1 DEF SInv, ServerTypes
<1>5. Places' /\ Queues' /\ Inboxes'
  BY <1>1, PlacesKept, QueuesKept, InboxesKept
<1>6. QED
  BY <1>3, <1>4, <1>5 DEF SInv

-----------------------------------------------------------------------------
(* The workers. *)

\* A step of a worker, which may take it to another place.
LEMMA WorkerMoves ==
  ASSUME SInv, NEW c \in Threads, NEW s \in Stages, Up, HasThread(c),
         process' \in {"up", "killed"}, walk' = walk,
         stage' = [stage EXCEPT ![c] = s],
         \A d \in Threads : d # c => pc'[d] = pc[d],
         s \in Serving <=> pc'[c] = "serving",
         s = "leave" <=> pc'[c] \in {"searching", "freeing", "leaving"},
         inbox' \in [Threads -> Seq(Letters)], asked' = asked, UNCHANGED mainvars,
         client' \in [Threads -> Doings],
         \A d \in Threads : client[d] # "away" => client'[d] # "away"
  PROVE  /\ ServerTypes' /\ Places' /\ Queues' /\ Exits'
         /\ stage'[c] = s /\ \A d \in Threads : d # c => stage'[d] = stage[d]
<1>1. UNCHANGED <<main, server_flag, backlog, client_socket, accepted>>
  BY DEF mainvars
<1>2. ServerTypes
  BY DEF SInv
<1>3. stage \in [Threads -> Stages] /\ accepted \subseteq Threads
  BY <1>2 DEF ServerTypes
<1>4. /\ stage'[c] = s /\ \A d \in Threads : d # c => stage'[d] = stage[d]
      /\ stage' \in [Threads -> Stages]
  BY <1>3
<1>5. ServerTypes'
  BY <1>1, <1>2, <1>4 DEF ServerTypes
<1>6. Places'
  <2>1. Places
    BY DEF SInv
  <2>2. SUFFICES ASSUME NEW d \in Threads
                 PROVE  /\ stage'[d] \in Serving <=> pc'[d] = "serving"
                        /\ stage'[d] = "leave" <=> pc'[d] \in {"searching", "freeing", "leaving"}
    BY DEF Places
  <2>3. CASE d = c
    BY <1>4, <2>3
  <2>4. CASE d # c
    BY <1>4, <2>1, <2>4 DEF Places
  <2>5. QED
    BY <2>3, <2>4
<1>7. Queues'
  <2>1. backlog \in [DOMAIN Families -> Seq(Threads)]
    BY <1>2 DEF ServerTypes
  <2>2. \A f \in DOMAIN Families : \A k \in DOMAIN backlog[f] : backlog[f][k] \in Threads
    BY <2>1
  <2>3. /\ \A f \in DOMAIN Families : Len(backlog'[f]) <= Backlog
        /\ \A f, g \in DOMAIN Families : \A j \in DOMAIN backlog'[f], k \in DOMAIN backlog'[g] :
             backlog'[f][j] = backlog'[g][k] => f = g /\ j = k
    BY <1>1 DEF SInv, Queues
  <2>4. \A f \in DOMAIN Families : \A k \in DOMAIN backlog'[f] :
          backlog'[f][k] \notin accepted' /\ client'[backlog'[f][k]] # "away"
    BY <1>1, <2>2 DEF SInv, Queues
  <2>5. \A d \in accepted' : client'[d] # "away"
    BY <1>1, <1>3 DEF SInv, Queues
  <2>6. \A d \in Threads : HasThread(d)' => HasThread(d)
    BY <1>4 DEF HasThread
  <2>7. \A d \in Threads : HasThread(d)' => d \in accepted'
    BY <1>1, <2>6 DEF SInv, Queues
  <2>8. main' = "create" => client_socket' \in accepted' /\ ~HasThread(client_socket)'
    <3>1. SUFFICES ASSUME main' = "create" PROVE client_socket' \in accepted' /\ ~HasThread(client_socket)'
      OBVIOUS
    <3>2. client_socket \in accepted /\ ~HasThread(client_socket)
      BY <1>1, <3>1 DEF SInv, Queues
    <3>3. client_socket # c /\ client_socket \in Threads
      BY <1>3, <3>2
    <3>4. QED
      BY <1>1, <1>4, <3>2, <3>3 DEF HasThread
  <2>9. QED
    BY <2>3, <2>4, <2>5, <2>7, <2>8 DEF Queues
<1>8. Exits'
  BY ExitsKept
<1>9. QED
  BY <1>4, <1>5, <1>6, <1>7, <1>8

\* The place of a worker, and the list's operation it is in.
LEMMA PlaceFacts ==
  ASSUME IInv, SInv, NEW c \in Threads
  PROVE  /\ pc[c] \in {"new", "serving", "searching", "freeing", "leaving", "ended"} /\ stage[c] \in Stages
         /\ pc \in [Threads -> {"new", "serving", "searching", "freeing", "leaving", "ended"}]
         /\ stage \in [Threads -> Stages] /\ (stage[c] # "none" => HasThread(c))
         /\ stage[c] \in Serving <=> pc[c] = "serving"
         /\ stage[c] = "leave" <=> pc[c] \in {"searching", "freeing", "leaving"}
         /\ inbox \in [Threads -> Seq(Letters)]
         /\ client \in [Threads -> Doings]
BY DEF IInv, TypeOK, SInv, ServerTypes, Places, HasThread

\* A worker reads from its socket: the type, a command, the rest of it, or the
\* checksum_status of a response.
LEMMA WorkerReads ==
  ASSUME IInv, SInv, NEW c \in Threads,
         ReceiveType(c) \/ ReceiveCommand(c) \/ ReceiveRest(c) \/ ReceiveStatus(c), process' = process
  PROVE  SInv'
<1>1. /\ Up /\ inbox[c] # <<>> /\ UNCHANGED <<pc, walk, client, asked>> /\ UNCHANGED mainvars
  BY DEF ReceiveType, ReceiveCommand, ReceiveRest, ReceiveStatus, Does, threadvars, vars, walker
<1>2. PICK s \in Stages :
        /\ stage' = [stage EXCEPT ![c] = s]
        /\ \/ s = "add" /\ stage[c] = "type"
           \/ s = "receive" /\ stage[c] = "select"
           \/ s = "respond" /\ stage[c] = "receive"
           \/ s = "select" /\ stage[c] = "ack" /\ Head(inbox[c]) \in {"ack", "eof"}
        /\ \/ inbox' = inbox /\ (s = "add" \/ Head(inbox[c]) = "eof")
           \/ /\ inbox' = [inbox EXCEPT ![c] = Tail(inbox[c])]
              /\ \/ s \in Busy
                 \/ s = "add" /\ Head(inbox[c]) = "type"
                 \/ s = "select" /\ Head(inbox[c]) = "ack"
  <2>1. stage \in [Threads -> Stages]
    BY PlaceFacts
  <2>2. CASE ReceiveType(c)
    BY <2>2 DEF ReceiveType, Does, Stages
  <2>3. CASE ReceiveCommand(c)
    BY <2>3 DEF ReceiveCommand, Does, Stages, Serving, Busy
  <2>4. CASE ReceiveRest(c)
    BY <2>4 DEF ReceiveRest, Does, Stages, Serving, Busy
  <2>5. CASE ReceiveStatus(c) /\ stage' = [stage EXCEPT ![c] = "select"]
    BY <2>5 DEF ReceiveStatus, Does, Stages, Serving
  <2>6. CASE ReceiveStatus(c) /\ process' = "killed"
    BY <1>1, <2>6 DEF Up
  <2>7. QED
    BY <2>2, <2>3, <2>4, <2>5, <2>6 DEF ReceiveStatus
<1>3. /\ inbox \in [Threads -> Seq(Letters)] /\ client \in [Threads -> Doings] /\ Inboxes
      /\ stage \in [Threads -> Stages]
  BY PlaceFacts DEF SInv
<1>4. stage'[c] = s /\ \A d \in Threads : d # c => stage'[d] = stage[d]
  BY <1>2, <1>3
<1>5. s = "add" => ~InService(c)
  BY <1>2, <1>3 DEF Inboxes, Busy
<1>6. Head(inbox[c]) \in {"ack", "eof"} => ~InService(c)
  <2>1. Head(inbox[c]) = inbox[c][1] /\ 1 \in DOMAIN inbox[c]
    <3>1. PICK x : x = inbox[c]
      OBVIOUS
    <3>2. x \in Seq(Letters) /\ x # <<>>
      BY <1>1, <1>3, <3>1
    <3>3. Head(x) = x[1] /\ 1 \in DOMAIN x
      BY <3>2
    <3>4. QED
      BY <3>1, <3>3
  <2>2. QED
    BY <1>3, <2>1 DEF Inboxes, InService
<1>7. Inboxes' /\ inbox' \in [Threads -> Seq(Letters)]
  <2>1. CASE inbox' = inbox
    <3>1. \A d \in Threads : stage[d] \in Busy => stage'[d] \in Busy \/ ~InService(d)
      BY <1>2, <1>4, <1>5, <1>6, <2>1 DEF Busy
    <3>2. QED
      BY <1>1, <1>3, <2>1, <3>1, InboxesKept
  <2>2. CASE inbox' # inbox
    <3>1. stage'[c] \in Busy \/ (Head(inbox[c]) # "command" /\ ~InService(c))
      <4>1. CASE s \in Busy
        BY <1>4, <4>1
      <4>2. CASE s = "add" /\ Head(inbox[c]) = "type"
        BY <1>5, <4>2
      <4>3. CASE s = "select" /\ Head(inbox[c]) = "ack"
        BY <1>6, <4>3
      <4>4. QED
        BY <1>2, <2>2, <4>1, <4>2, <4>3
    <3>2. inbox' = [inbox EXCEPT ![c] = Tail(inbox[c])]
      BY <1>2, <2>2
    <3>3. QED
      BY <1>1, <1>4, <3>1, <3>2, InboxesRead
  <2>3. QED
    BY <1>2, <2>1, <2>2
<1>8. ServerTypes' /\ Places' /\ Queues' /\ Exits'
  <2>1. HasThread(c)
    BY <1>2 DEF HasThread
  <2>2. s \in Serving <=> pc'[c] = "serving"
    BY <1>1, <1>2, PlaceFacts DEF Serving
  <2>3. s = "leave" <=> pc'[c] \in {"searching", "freeing", "leaving"}
    BY <1>1, <1>2, PlaceFacts
  <2>4. process' \in {"up", "killed"}
    BY <1>1 DEF Up
  <2>5. QED
    BY <1>1, <1>2, <1>3, <1>7, <2>1, <2>2, <2>3, <2>4, WorkerMoves
<1>9. QED
  BY <1>7, <1>8 DEF SInv

\* A worker answers.
LEMMA WorkerAnswers ==
  ASSUME IInv, SInv, NEW c \in Threads, Respond(c), process' = process PROVE SInv'
<1>1. /\ Up /\ UNCHANGED <<pc, walk, inbox, client, asked>> /\ UNCHANGED mainvars
      /\ stage[c] = "respond"
  BY DEF Respond, Does, threadvars, vars, walker, clients
<1>2. stage' = [stage EXCEPT ![c] = "ack"]
  BY <1>1 DEF Respond, Up
<1>3. client \in [Threads -> Doings] /\ inbox \in [Threads -> Seq(Letters)]
  BY PlaceFacts
<1>4. HasThread(c) /\ pc[c] = "serving"
  BY <1>1, PlaceFacts DEF Serving
<1>5. /\ ServerTypes' /\ Places' /\ Queues' /\ Exits'
      /\ stage'[c] = "ack" /\ \A d \in Threads : d # c => stage'[d] = stage[d]
  <2>1. "ack" \in Stages /\ "ack" \in Serving /\ inbox' \in [Threads -> Seq(Letters)]
    BY <1>1, <1>3 DEF Stages, Serving
  <2>2. "ack" \in Serving <=> pc'[c] = "serving"
    BY <1>1, <1>4, <2>1
  <2>3. "ack" = "leave" <=> pc'[c] \in {"searching", "freeing", "leaving"}
    BY <1>1, <1>4
  <2>4. process' \in {"up", "killed"} /\ client' \in [Threads -> Doings]
    BY <1>1, <1>3 DEF Up
  <2>5. QED
    BY <1>1, <1>2, <1>4, <2>1, <2>2, <2>3, <2>4, WorkerMoves
<1>6. Inboxes'
  <2>1. \A d \in Threads : stage[d] \in Busy => stage'[d] \in Busy
    BY <1>5 DEF Busy
  <2>2. QED
    BY <1>1, <2>1, InboxesKept
<1>7. QED
  BY <1>5, <1>6 DEF SInv

\* The client has left, or something has failed, and the process ends over it.
LEMMA WorkerEnds ==
  ASSUME SInv, NEW c \in Threads,
         \/ CutOff(c) \/ ConnectionReset(c) \/ WorkerFails(c)
         \/ (Respond(c) \/ ReceiveStatus(c)) /\ process' # process
  PROVE  SInv'
<1>1. Up /\ process' = "killed" /\ UNCHANGED <<threadvars, mainvars, stage, clients>>
  BY DEF CutOff, ConnectionReset, WorkerFails, Respond, ReceiveStatus, Does, clients
<1>2. QED
  BY <1>1, FailureKeeps

\* A worker puts itself on the list, takes itself off it, or ends.
LEMMA WorkerListed ==
  ASSUME IInv, SInv, NEW c \in Threads,
         AddSelf(c) \/ NoticeDisconnection(c) \/ RemoveStep(c) \/ NoticeFlag(c) \/ Return(c)
  PROVE  SInv'
<1>1. /\ Up /\ UNCHANGED <<process, inbox, client, asked>> /\ UNCHANGED mainvars
      /\ stage[c] \in {"add", "select", "leave"}
  BY DEF AddSelf, NoticeDisconnection, RemoveStep, NoticeFlag, Return, Does, clients
<1>2. /\ pc[c] \in {"new", "serving", "searching", "freeing", "leaving", "ended"} /\ stage[c] \in Stages
      /\ pc \in [Threads -> {"new", "serving", "searching", "freeing", "leaving", "ended"}]
      /\ stage \in [Threads -> Stages] /\ HasThread(c)
      /\ stage[c] \in Serving <=> pc[c] = "serving"
      /\ stage[c] = "leave" <=> pc[c] \in {"searching", "freeing", "leaving"}
      /\ inbox \in [Threads -> Seq(Letters)]
      /\ client \in [Threads -> Doings]
  BY <1>1, PlaceFacts
<1>3. PICK s \in Stages, p \in {"new", "serving", "searching", "freeing", "leaving", "ended"} :
        /\ stage' = [stage EXCEPT ![c] = s] /\ pc' = [pc EXCEPT ![c] = p] /\ walk' = walk
        /\ s \in Serving <=> p = "serving"
        /\ s = "leave" <=> p \in {"searching", "freeing", "leaving"}
  <2>1. CASE AddSelf(c)
    BY <2>1 DEF AddSelf, AddThread, walker, Stages, Serving
  <2>2. CASE NoticeDisconnection(c)
    BY <2>2 DEF NoticeDisconnection, RmvThread, walker, Stages, Serving
  <2>3. CASE RemoveStep(c)
    <3>1. stage' = [stage EXCEPT ![c] = "leave"] /\ pc = [pc EXCEPT ![c] = pc[c]] /\ walk' = walk
      BY <1>2, <2>3 DEF RemoveStep, Does, RmvStep, SearchNext, Unlink, FreeNode, NotFound, walker
    <3>2. pc' \in {pc, [pc EXCEPT ![c] = "freeing"], [pc EXCEPT ![c] = "leaving"]} /\ stage[c] = "leave"
      BY <2>3 DEF RemoveStep, Does, RmvStep, SearchNext, Unlink, FreeNode, NotFound, Unlock
    <3>3. QED
      BY <1>2, <3>1, <3>2 DEF Stages, Serving
  <2>4. CASE NoticeFlag(c) \/ Return(c)
    BY <2>4 DEF NoticeFlag, Return, ThreadEnds, walker, Stages, Serving
  <2>5. QED
    BY <2>1, <2>2, <2>3, <2>4
<1>4. pc'[c] = p /\ \A d \in Threads : d # c => pc'[d] = pc[d]
  BY <1>2, <1>3
<1>5. /\ ServerTypes' /\ Places' /\ Queues' /\ Exits'
      /\ stage'[c] = s /\ \A d \in Threads : d # c => stage'[d] = stage[d]
  <2>1. process' \in {"up", "killed"} /\ inbox' \in [Threads -> Seq(Letters)]
        /\ client' \in [Threads -> Doings]
        /\ \A d \in Threads : client[d] # "away" => client'[d] # "away"
    BY <1>1, <1>2 DEF Up
  <2>2. s \in Serving <=> pc'[c] = "serving"
    BY <1>3, <1>4
  <2>3. s = "leave" <=> pc'[c] \in {"searching", "freeing", "leaving"}
    BY <1>3, <1>4
  <2>4. QED
    BY <1>1, <1>2, <1>3, <1>4, <2>1, <2>2, <2>3, WorkerMoves
<1>6. Inboxes'
  <2>1. \A d \in Threads : stage[d] \in Busy => stage'[d] \in Busy
    BY <1>1, <1>5 DEF Busy
  <2>2. QED
    BY <1>1, <2>1, InboxesKept
<1>7. QED
  BY <1>5, <1>6 DEF SInv

-----------------------------------------------------------------------------
(* The invariant. *)

\* The server starts without clients.
LEMMA ServerInitHolds == ServerInit => IInv /\ SInv
<1> SUFFICES ASSUME ServerInit PROVE IInv /\ SInv
  OBVIOUS
<1>1. Init
  BY DEF ServerInit
<1>2. IInv
  BY <1>1, InitHolds
<1>3. ServerTypes
  BY ServerAssumption DEF ServerInit, ServerTypes, Stages, Letters, Doings, Serving
<1>4. Places /\ Exits
  BY <1>1 DEF ServerInit, Init, Places, Exits, Serving
<1>5. Queues
  <2>1. \A f \in DOMAIN Families : Len(backlog[f]) <= Backlog /\ DOMAIN backlog[f] = {}
    BY ServerAssumption DEF ServerInit
  <2>2. QED
    BY <1>1, <2>1 DEF ServerInit, Init, Queues, HasThread
<1>6. Inboxes
  BY DEF ServerInit, Inboxes, InService
<1>7. QED
  BY <1>2, <1>3, <1>4, <1>5, <1>6 DEF SInv

\* A step that changes nothing.
LEMMA ServerStutter == ASSUME SInv, UNCHANGED allvars PROVE SInv'
<1>1. UNCHANGED <<pc, walk, main, server_flag, process, backlog, client_socket, accepted>>
      /\ UNCHANGED <<stage, inbox, client, asked>>
  BY DEF allvars, threadvars, vars, walker, mainvars, clients
<1>2. ServerTypes' /\ Exits'
  BY <1>1 DEF SInv, ServerTypes, Exits
<1>3. Places' /\ Queues' /\ Inboxes'
  BY <1>1, PlacesKept, QueuesKept, InboxesKept
<1>4. QED
  BY <1>2, <1>3 DEF SInv

\* Every step keeps both invariants.
LEMMA ServerStep == ASSUME IInv, SInv, [ServerNext]_allvars PROVE IInv' /\ SInv'
<1>1. IInv'
  BY ListStep, StepKeeps
<1>2. MAIN \in Callers /\ Threads \subseteq Callers
  BY DEF Callers
<1>3. ASSUME NEW c \in Threads, Worker(c) \/ WorkerFails(c) PROVE SInv'
  <2>1. CASE ReceiveType(c) \/ ReceiveCommand(c) \/ ReceiveRest(c)
    <3>1. process' = process
      BY <2>1 DEF ReceiveType, ReceiveCommand, ReceiveRest
    <3>2. QED
      BY <2>1, <3>1, WorkerReads
  <2>2. CASE Respond(c) \/ ReceiveStatus(c)
    <3>1. CASE process' = process
      BY <2>2, <3>1, WorkerReads, WorkerAnswers
    <3>2. CASE process' # process
      BY <2>2, <3>2, WorkerEnds
    <3>3. QED
      BY <3>1, <3>2
  <2>3. CASE CutOff(c) \/ ConnectionReset(c) \/ WorkerFails(c)
    BY <2>3, WorkerEnds
  <2>4. CASE AddSelf(c) \/ NoticeDisconnection(c) \/ RemoveStep(c) \/ NoticeFlag(c) \/ Return(c)
    BY <2>4, WorkerListed
  <2>5. CASE CloseForUnknown(c)
    BY <2>5, InterruptKeeps
  <2>6. CASE JoinStep(c) \/ CloseServer(c)
    BY <1>2, <2>6, JoinStepKeeps, CloseServerKeeps
  <2>7. QED
    BY <1>3, <2>1, <2>2, <2>3, <2>4, <2>5, <2>6 DEF Worker
<1>4. ASSUME Main \/ MainFails PROVE SInv'
  BY <1>2, <1>4, AcceptKeeps, CreateThreadKeeps, JoinStepKeeps, CloseServerKeeps, FailureKeeps
     DEF Main, MainFails
<1>5. QED
  BY <1>1, <1>3, <1>4, ClientKeeps, InterruptKeeps, ServerStutter DEF ServerNext, Stopped

\* The server is as SInv says, and its list as IInv does, in every state.
THEOREM ServerInvariance == ServerSpec => [](IInv /\ SInv)
BY ServerInitHolds, ServerStep, PTL DEF ServerSpec

\* The threads of the server use the list as ThreadList says, whatever it proves
\* of the list being true of the server (server.c:237-239, 273-275, 377-402).
THEOREM ServerKeepsList == ServerSpec => Spec
<1>1. ServerInit => Init
  BY DEF ServerInit
<1>2. QED
  BY <1>1, ListStep, ServerInvariance, PTL DEF ServerSpec, Spec

\* The variables of the server have their types, a connection is in one place
\* at a time and a worker where its operations on the list say (server.c:184-283).
THEOREM ServerTypeCorrect == ServerSpec => []ServerTypeOK
<1>1. IInv /\ SInv => ServerTypeOK
  <2> SUFFICES ASSUME SInv PROVE ServerTypeOK
    OBVIOUS
  <2>1. \A f \in DOMAIN Families :
          /\ Len(backlog[f]) <= Backlog /\ IsInjective(backlog[f])
          /\ \A k \in DOMAIN backlog[f] : backlog[f][k] \notin accepted
    BY DEF SInv, Queues, IsInjective
  <2>2. \A c \in Threads :
          /\ stage[c] \in Serving \union {"none", "type", "add", "leave"}
          /\ client[c] \in {"away", "connected", "ready", "sending", "waiting", "gone"}
          /\ inbox[c] \in Seq({"type", "command", "rest", "ack", "eof"})
          /\ asked[c] \in 0 .. MaxCommands
    BY DEF SInv, ServerTypes, Stages, Letters, Doings
  <2>3. QED
    BY <2>1, <2>2 DEF SInv, ServerTypes, Places, Queues, ServerTypeOK
<1>2. QED
  BY <1>1, ServerInvariance, PTL

\* When one SIGINT has ended the server, no client of a thread that was listed
\* then is left in the middle of a command the server has begun to read, or
\* without the response to it, unless a thread left the list meanwhile (server.c:
\* 255-285, 377-394).
THEOREM AlwaysShutdownAnswers == ServerSpec => []ShutdownAnswers
<1>1. IInv /\ SInv /\ EndThreadsJoinsListed => ShutdownAnswers
  <2> SUFFICES ASSUME IInv, SInv, EndThreadsJoinsListed, process = "exited", ~raced, Closing = {MAIN},
                      NEW c \in due[MAIN]
               PROVE  ~InService(c)
    BY DEF ShutdownAnswers
  <2>1. walk[MAIN] = "done" /\ MAIN \in Callers
    BY DEF SInv, Exits, Closing, Callers
  <2>2. c \in Threads /\ c # MAIN /\ c \in Callers
    BY <2>1, ConstantFacts DEF IInv, TypeOK, Callers
  <2>3. pc[c] = "ended" \/ joining[c] = MAIN \/ \E j \in Callers \ {MAIN} : joining[j] = c
    BY <2>1, <2>2 DEF EndThreadsJoinsListed
  <2>4. joining[c] # MAIN
    BY <2>2, ConstantFacts, ThreadListAssumption DEF IInv, TypeOK
  <2>5. \A j \in Callers \ {MAIN} : joining[j] # c
    <3>1. c # NULL
      BY <2>2, ConstantFacts
    <3>2. \A j \in Callers \ {MAIN} : walk[j] = "off"
      BY DEF Closing
    <3>3. QED
      BY <3>1, <3>2 DEF IInv, JoinInv
  <2>6. pc[c] = "ended"
    BY <2>3, <2>4, <2>5
  <2>7. stage[c] \notin Busy
    BY <2>2, <2>6 DEF SInv, Places, Serving, Busy
  <2>8. QED
    BY <2>2, <2>7 DEF SInv, Inboxes
<1>2. QED
  BY <1>1, ServerInvariance, ServerKeepsList, EndThreadsAlwaysJoins, PTL

=============================================================================
