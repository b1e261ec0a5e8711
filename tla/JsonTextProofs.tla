---------------------------- MODULE JsonTextProofs ----------------------------
(***************************************************************************)
(* Theorems about JsonText, for every width of a message, every size of    *)
(* the buffer, every limit, every damage and whatever lies behind a text.  *)
(***************************************************************************)
EXTENDS JsonText, SequenceTheorems, FiniteSetTheorems, WellFoundedInduction, TLAPS

\* Where json_format is.
FormatPlaces ==
  {"create", "message", "crc_checksum", "flag_last", "print", "pieces", "fail", "sent", "sender_crashed"}

\* Where the other end is.
ParsePlaces == {"parse", "value", "element", "after", "unwind", "rejected", "done", "receiver_crashed"}

\* The variables that count, and those with a few values.
NumbersInv ==
  /\ pc \in FormatPlaces \union ParsePlaces
  /\ width \in Widths \union {0} /\ failures \in 0 .. MaxFailures
  /\ length \in Nat /\ offset \in Nat /\ high \in Nat /\ nul \in Nat /\ frees \in Nat
  /\ touched \in Nat /\ piece \in Nat
  /\ buffer \in {"none", "live", "null", "returned"}
  /\ fate \in {"none", "whole", "cut", "damaged"} /\ depth \in 0 .. NestingLimit
  /\ fate = "none" <=> pc \in FormatPlaces

\* The place of an item: which child to take at each level.
Path == Seq(Nat \ {0})

\* The items are a tree whose lists have no gaps.
TreeInv ==
  /\ DOMAIN items \subseteq Path
  /\ \A q \in DOMAIN items :
       /\ items[q].kind \in {"none", "object", "array", "str", "num", "lit"}
       /\ q # <<>> => Front(q) \in DOMAIN items
       /\ q # <<>> /\ Last(q) > 1 => Append(Front(q), Last(q) - 1) \in DOMAIN items

\* A call of parse_object or parse_array.
Call == [path : Path, kind : {"object", "array"}, n : Nat]

\* The calls under way: each is for the last child of the one before it, and has
\* hung up n children.
CallsInv ==
  /\ stack \in Seq(Call)
  /\ \A k \in DOMAIN stack :
       /\ stack[k].path \in DOMAIN items /\ Len(stack[k].path) = k - 1
       /\ Children(stack[k].path) = {Append(stack[k].path, i) : i \in 1 .. stack[k].n}
       /\ k > 1 => stack[k].path = Append(stack[k - 1].path, stack[k - 1].n)

\* Which items there are at which place.
PlaceInv ==
  /\ pc \in FormatPlaces \union {"parse"} => depth = 0 /\ touched = 0
  /\ pc \in FormatPlaces \union {"parse", "rejected", "done", "receiver_crashed"} => stack = <<>>
  /\ pc \in {"create", "sent", "sender_crashed", "parse", "rejected", "done"} => items = NoItems
  /\ pc \in {"value", "element", "after"} => Len(stack) = depth
  /\ pc = "element" => stack # <<>>
  /\ pc = "value" => Here \in DOMAIN items /\ Children(Here) = {}
  /\ pc \in {"value", "unwind"} /\ stack = <<>> => DOMAIN items = {<<>>}

\* The members that json_format has come past.
Passed == IF pc = "message" THEN 0 ELSE IF pc = "crc_checksum" THEN 1 ELSE IF pc = "flag_last" THEN 2 ELSE 3

\* An object of n members and nothing else.
Object(n) ==
  /\ DOMAIN items = {<<>>} \union {<<k>> : k \in 1 .. n} /\ items[<<>>].kind = "object"
  /\ \A k \in 1 .. n : items[<<k>>] \in {Item(Value[j].t, Members[j], Value[j].v) : j \in 1 .. 3}

\* The first n members are those of a packet.
Filled(n) == \A k \in 1 .. n : items[<<k>>] = Item(Value[k].t, Members[k], Value[k].v)

\* While the packet is built, its members are there in order, unless an allocation failed.
BuildInv ==
  pc \in {"message", "crc_checksum", "flag_last", "print", "pieces"} =>
    /\ items = NoItems \/ \E n \in 0 .. Passed : Object(n)
    /\ failures = 0 => Object(Passed) /\ Filled(Passed)
    /\ pc = "pieces" => items # NoItems

\* What became of the buffer, and where the printer is in it.
PrintInv ==
  /\ pc \in {"create", "message", "crc_checksum", "flag_last", "print"} =>
       /\ text = <<>> /\ piece = 1 /\ offset = 0 /\ high = 0 /\ nul = 0
       /\ buffer = "none" /\ frees = 0
  /\ pc = "pieces" =>
       /\ buffer = "live" /\ frees = 0 /\ high < length
       /\ piece \in 1 .. Len(Pieces) + 1
       /\ offset = Ends(Pieces)[piece - 1]
       /\ piece > Len(Pieces) => nul = offset
  /\ pc = "fail" => frees = IF buffer = "null" THEN 1 ELSE 0
  /\ pc = "sent" => frees = 0 /\ nul = offset /\ length = offset + 1
  /\ BufferFreedOnce

\* The signs of an object have names: the SMT solver is given no string with a brace or a comma.
OpenBrace == "{"

\* The sign that closes it.
CloseBrace == "}"

\* The sign between its members.
Comma == ","

\* The text of a whole packet.
Printed ==
  << Mark("{"), Blank,
     Blank, Str("message"), Mark(":"), Blank, Str("text"), Mark(","), Blank,
     Blank, Str("crc_checksum"), Mark(":"), Blank, Num("crc"), Mark(","), Blank,
     Blank, Str("flag_last"), Mark(":"), Blank, Num("last"), Blank,
     Mark("}") >>

\* The tokens the printer writes.
Printable ==
  {Mark(m) : m \in {"{", "ws", ":", ",", "}"}} \union {Str(Members[j]) : j \in 1 .. 3} \union {Value[j] : j \in 1 .. 3}
\* The tokens that may stand in a content.
Token ==
  Printable \union {NUL, Mark("bad"), Num("stump")} \union UNION {Range(s) : s \in Damage \union Tails}

\* How many of its tokens the first n pieces have.
Laid(n) == <<0, 2, 3, 4, 6, 7, 9, 10, 11, 13, 14, 16, 17, 18, 20, 21, 22, 23>>[n + 1]

\* A text begins with the bracket that only its last token closes.
TextInv ==
  /\ text \in Seq(Token)
  /\ \A k \in DOMAIN text :
       \/ text[k].t \in {"{", "ws", "str", "num", ":", ","}
       \/ text[k] = Mark("}") /\ k = Len(text)
  /\ pc = "pieces" =>
       /\ IF piece = 1 THEN text = <<>> ELSE text # <<>> /\ text[1] = Mark("{")
       /\ piece <= Len(Pieces) => \A k \in DOMAIN text : text[k].t # "}"
       /\ failures = 0 => Len(text) = Laid(piece - 1) /\ \A k \in DOMAIN text : text[k] = Printed[k]
  /\ pc = "sent" =>
       /\ text # <<>> /\ text[1] = Mark("{")
       /\ failures = 0 => text = Printed

\* What the parser is given ends with its only NUL, and it stays before that.
ReadInv ==
  fate # "none" =>
    /\ content \in Seq(Token) /\ content # <<>> /\ length = Len(content)
    /\ \A k \in DOMAIN content : content[k] = NUL <=> k = length
    /\ touched < length
    /\ pc = "element" => offset + 1 < length

\* A text that was cut opens an object that nothing closes.
CutInv ==
  fate = "cut" =>
    /\ content[1] \in {Mark(OpenBrace), NUL}
    /\ \A k \in DOMAIN content : content[k].t \notin {CloseBrace, "]"}
    /\ pc = "value" /\ stack = <<>> => offset = 0
    /\ pc = "after" => stack # <<>>
    /\ pc # "done"

\* The parser is at the n-th member of a packet, of which m are complete.
Inside(n, m) ==
  /\ stack = <<[path |-> <<>>, kind |-> "object", n |-> n]>>
  /\ DOMAIN items = {<<>>} \union {<<k>> : k \in 1 .. n}
  /\ Filled(m)
  /\ m < n => items[<<n>>] = Item("none", Members[n], "")

\* An undamaged packet is taken member by member.
WholeInv ==
  fate = "whole" /\ failures = 0 =>
    /\ Len(Printed) < length /\ \A k \in DOMAIN Printed : content[k] = Printed[k]
    /\ pc \notin {"unwind", "rejected", "receiver_crashed"}
    /\ pc = "value" /\ stack = <<>> => offset = 0
    /\ pc = "value" /\ stack # <<>> => \E n \in 1 .. 3 : Inside(n, n - 1) /\ offset = 7 * n - 1
    /\ pc = "element" => \E n \in 0 .. 2 : Inside(n, n) /\ offset = IF n = 0 THEN 2 ELSE 7 * n
    /\ pc = "after" /\ stack # <<>> => \E n \in 1 .. 3 : Inside(n, n) /\ offset = 7 * n
    /\ pc = "after" /\ stack = <<>> => DOMAIN items = {<<>>, << 1 >>, << 2 >>, << 3 >>} /\ Filled(3)
    /\ pc = "done" => packet = [message |-> "text", crc_checksum |-> "crc", flag_last |-> "last"]

\* The inductive invariant.
IInv ==
  /\ NumbersInv /\ TreeInv /\ CallsInv /\ PlaceInv /\ BuildInv /\ PrintInv
  /\ TextInv /\ ReadInv /\ CutInv /\ WholeInv

-----------------------------------------------------------------------------
(* Sequences.                                                              *)

\* The least-number principle.
LEMMA Least ==
  ASSUME NEW T \in SUBSET Nat, T # {}
  PROVE  \E m \in T : \A k \in T : m <= k
<1> DEFINE R == OpToRel(<, Nat)
<1>1. IsWellFoundedOn(R, Nat)
  BY NatLessThanWellFounded
<1>2. PICK m \in T : \A k \in T : <<k, m>> \notin R
  <2> HIDE DEF R
  <2>1. QED
    BY <1>1, WFMin
<1>3. \A k \in T : <<k, m>> \in R <=> k < m
  BY DEF OpToRel
<1> HIDE DEF R
<1>4. \A k \in T : ~(k < m) => m <= k
  OBVIOUS
<1>5. QED
  BY <1>2, <1>3, <1>4

\* A sequence without its last element.
LEMMA FrontFacts ==
  ASSUME NEW S, NEW s \in Seq(S), s # <<>>
  PROVE  /\ Last(s) = s[Len(s)] /\ Last(s) \in S /\ Front(s) \in Seq(S) /\ Len(s) \in Nat /\ Len(s) >= 1
         /\ Len(Front(s)) = Len(s) - 1
         /\ \A k \in 1 .. Len(s) - 1 : Front(s)[k] = s[k]
<1> DEFINE n == Len(s) - 1
<1>1. Len(s) \in Nat /\ Len(s) >= 1 /\ n \in Nat /\ Len(s) = n + 1
  BY EmptySeq, LenProperties
<1>2. \A k \in 1 .. Len(s) : s[k] \in S
  BY ElementOfSeq
<1>3. Front(s) = SubSeq(s, 1, n)
  BY DEF Front
<1> HIDE DEF n
<1>4. \A k \in 1 .. n : s[k] \in S
  BY <1>1, <1>2
<1>5. 1 \in Int /\ n \in Int
  BY <1>1
<1>6. /\ SubSeq(s, 1, n) \in Seq(S)
      /\ Len(SubSeq(s, 1, n)) = IF 1 <= n THEN n - 1 + 1 ELSE 0
      /\ \A k \in 1 .. n - 1 + 1 : SubSeq(s, 1, n)[k] = s[1 + k - 1]
  BY <1>4, <1>5, SubSeqProperties
<1>7. /\ Len(SubSeq(s, 1, n)) = n
      /\ \A k \in 1 .. n : SubSeq(s, 1, n)[k] = s[k]
  BY <1>1, <1>6
<1>8. Last(s) = s[Len(s)] /\ Last(s) \in S
  BY <1>1, <1>2 DEF Last
<1>9. \A k \in 1 .. Len(s) - 1 : Front(s)[k] = s[k]
  BY <1>1, <1>3, <1>7
<1>10. QED
  BY <1>1, <1>3, <1>6, <1>7, <1>8, <1>9

\* A sequence is its front and its last element.
LEMMA FrontLast ==
  ASSUME NEW S, NEW s \in Seq(S), s # <<>>
  PROVE  s = Append(Front(s), Last(s))
<1> DEFINE f == Front(s)
           t == Append(f, Last(s))
<1>1. /\ Last(s) = s[Len(s)] /\ Last(s) \in S /\ f \in Seq(S) /\ Len(s) \in Nat /\ Len(f) = Len(s) - 1
      /\ \A k \in 1 .. Len(s) - 1 : f[k] = s[k]
  BY FrontFacts
<1> HIDE DEF f
<1>2. /\ t \in Seq(S) /\ Len(t) = Len(f) + 1
      /\ \A k \in 1 .. Len(f) : t[k] = f[k]
      /\ t[Len(f) + 1] = Last(s)
  BY <1>1, AppendProperties
<1> HIDE DEF t
<1>3. Len(s) = Len(t) /\ \A k \in 1 .. Len(s) : s[k] = t[k]
  BY <1>1, <1>2
<1>4. s = t
  BY <1>2, <1>3, SeqEqual
<1>5. QED
  BY <1>4 DEF t, f

\* One element more, and its front.
LEMMA AppendFacts ==
  ASSUME NEW S, NEW s \in Seq(S), NEW e \in S
  PROVE  /\ Append(s, e) \in Seq(S) /\ Append(s, e) # <<>> /\ Len(Append(s, e)) = Len(s) + 1
         /\ \A k \in 1 .. Len(s) : Append(s, e)[k] = s[k]
         /\ Append(s, e)[Len(s) + 1] = e
         /\ Last(Append(s, e)) = e /\ Front(Append(s, e)) = s
<1> DEFINE t == Append(s, e)
<1>1. /\ t \in Seq(S) /\ t # <<>> /\ Len(t) = Len(s) + 1
      /\ \A k \in 1 .. Len(s) : t[k] = s[k]
      /\ t[Len(s) + 1] = e
  BY AppendProperties
<1>2. Len(s) \in Nat
  BY LenProperties
<1> HIDE DEF t
<1>3. /\ Last(t) = t[Len(t)] /\ Front(t) \in Seq(S) /\ Len(Front(t)) = Len(t) - 1
      /\ \A k \in 1 .. Len(t) - 1 : Front(t)[k] = t[k]
  BY <1>1, FrontFacts
<1>4. Len(Front(t)) = Len(s) /\ \A k \in 1 .. Len(s) : Front(t)[k] = s[k]
  BY <1>1, <1>2, <1>3
<1>5. Front(t) = s
  BY <1>3, <1>4, SeqEqual
<1>6. QED
  BY <1>1, <1>3, <1>5 DEF t

\* One path is a prefix of another if the latter begins with it.
LEMMA PrefixIs ==
  ASSUME NEW S, NEW p \in Seq(S), NEW q \in Seq(S)
  PROVE  IsPrefix(p, q) <=> Len(p) <= Len(q) /\ \A k \in 1 .. Len(p) : p[k] = q[k]
<1> DEFINE n == Len(p)
           t == SubSeq(q, 1, n)
<1>1. n \in Nat /\ Len(q) \in Nat /\ SubSeq(p, 1, n) = p
  BY LenProperties, SubSeqFull
<1>2. IsPrefix(p, q) <=> n <= Len(q) /\ p = t
  BY <1>1 DEF IsPrefix
<1>3. SUFFICES ASSUME n <= Len(q) PROVE p = t <=> \A k \in 1 .. n : p[k] = q[k]
  BY <1>2
<1>4. \A k \in 1 .. n : q[k] \in S
  BY <1>1, <1>3, ElementOfSeq
<1>5. 1 \in Int /\ n \in Int
  BY <1>1
<1> HIDE DEF n
<1>6. t \in Seq(S) /\ Len(t) = (IF 1 <= n THEN n - 1 + 1 ELSE 0) /\ \A k \in 1 .. n - 1 + 1 : t[k] = q[1 + k - 1]
  BY <1>4, <1>5, SubSeqProperties
<1> HIDE DEF t
<1>7. Len(t) = n /\ \A k \in 1 .. n : t[k] = q[k]
  BY <1>1, <1>6
<1>8. ASSUME \A k \in 1 .. n : p[k] = q[k] PROVE p = t
  <2>1. Len(p) = Len(t) /\ \A k \in 1 .. Len(p) : p[k] = t[k]
    BY <1>7, <1>8 DEF n
  <2>2. QED
    BY <1>6, <2>1, SeqEqual
<1>9. QED
  BY <1>7, <1>8

\* The children of a path are the paths whose front it is.
LEMMA ChildIs ==
  ASSUME NEW S, NEW p \in Seq(S), NEW q \in Seq(S)
  PROVE  Len(q) = Len(p) + 1 /\ IsPrefix(p, q) <=> q # <<>> /\ Front(q) = p
<1>1. Len(p) \in Nat /\ Len(q) \in Nat
  BY LenProperties
<1>2. ASSUME Len(q) = Len(p) + 1, IsPrefix(p, q) PROVE q # <<>> /\ Front(q) = p
  <2>1. q # <<>>
    BY <1>1, <1>2, EmptySeq
  <2>2. Front(q) \in Seq(S) /\ Len(Front(q)) = Len(p) /\ \A k \in 1 .. Len(p) : Front(q)[k] = q[k]
    BY <1>1, <1>2, <2>1, FrontFacts
  <2>3. \A k \in 1 .. Len(p) : p[k] = q[k]
    BY <1>2, PrefixIs
  <2>4. QED
    BY <2>1, <2>2, <2>3, SeqEqual
<1>3. ASSUME q # <<>>, Front(q) = p PROVE Len(q) = Len(p) + 1 /\ IsPrefix(p, q)
  <2>1. Len(p) = Len(q) - 1 /\ \A k \in 1 .. Len(q) - 1 : p[k] = q[k]
    BY <1>3, FrontFacts
  <2>2. QED
    BY <1>1, <2>1, PrefixIs
<1>4. QED
  BY <1>2, <1>3

\* What lies strictly below a path lies below it or is its child.
LEMMA BelowFront ==
  ASSUME NEW S, NEW p \in Seq(S), NEW q \in Seq(S)
  PROVE  IsStrictPrefix(p, q) <=> q # <<>> /\ IsPrefix(p, Front(q))
<1>1. Len(p) \in Nat /\ Len(q) \in Nat
  BY LenProperties
<1>2. ASSUME IsStrictPrefix(p, q) PROVE q # <<>> /\ IsPrefix(p, Front(q))
  <2>1. Len(p) <= Len(q) /\ \A k \in 1 .. Len(p) : p[k] = q[k]
    BY <1>2, PrefixIs DEF IsStrictPrefix
  <2>2. Len(p) # Len(q)
    <3>1. SUFFICES ASSUME Len(p) = Len(q) PROVE FALSE
      OBVIOUS
    <3>2. p = q
      BY <2>1, <3>1, SeqEqual
    <3>3. QED
      BY <1>2, <3>2 DEF IsStrictPrefix
  <2>3. q # <<>>
    BY <1>1, <2>1, <2>2, EmptySeq
  <2>4. Front(q) \in Seq(S) /\ Len(Front(q)) = Len(q) - 1 /\ \A k \in 1 .. Len(q) - 1 : Front(q)[k] = q[k]
    BY <2>3, FrontFacts
  <2>5. Len(p) <= Len(Front(q)) /\ \A k \in 1 .. Len(p) : p[k] = Front(q)[k]
    BY <1>1, <2>1, <2>2, <2>4
  <2>6. QED
    BY <2>3, <2>4, <2>5, PrefixIs
<1>3. ASSUME q # <<>>, IsPrefix(p, Front(q)) PROVE IsStrictPrefix(p, q)
  <2>1. Front(q) \in Seq(S) /\ Len(Front(q)) = Len(q) - 1 /\ \A k \in 1 .. Len(q) - 1 : Front(q)[k] = q[k]
    BY <1>3, FrontFacts
  <2>2. Len(p) <= Len(Front(q)) /\ \A k \in 1 .. Len(p) : p[k] = Front(q)[k]
    BY <1>3, <2>1, PrefixIs
  <2>3. Len(p) <= Len(q) /\ Len(p) # Len(q) /\ \A k \in 1 .. Len(p) : p[k] = q[k]
    BY <1>1, <2>1, <2>2
  <2>4. QED
    BY <2>3, PrefixIs DEF IsStrictPrefix
<1>4. QED
  BY <1>2, <1>3

\* The root and its children.
LEMMA OneStep ==
  /\ <<>> \in Path
  /\ \A k \in Nat \ {0} : <<k>> \in Path /\ <<k>> # <<>> /\ Front(<<k>>) = <<>> /\ Last(<<k>>) = k
                          /\ Append(<<>>, k) = <<k>> /\ Len(<<k>>) = 1
<1>1. <<>> \in Path
  BY EmptySeq DEF Path
<1>2. ASSUME NEW k \in Nat \ {0}
      PROVE  <<k>> \in Path /\ <<k>> # <<>> /\ Front(<<k>>) = <<>> /\ Last(<<k>>) = k
             /\ Append(<<>>, k) = <<k>> /\ Len(<<k>>) = 1
  <2>1. Append(<<>>, k) = <<k>>
    OBVIOUS
  <2> DEFINE P == Nat \ {0}
             e == <<>>
  <2>2. e \in Seq(P) /\ k \in P
    BY EmptySeq
  <2> HIDE DEF P, e
  <2>3. Append(e, k) \in Seq(P) /\ Append(e, k) # <<>> /\ Front(Append(e, k)) = e /\ Last(Append(e, k)) = k
    BY <2>2, AppendFacts
  <2>4. QED
    BY <2>1, <2>3 DEF P, e, Path
<1>3. QED
  BY <1>1, <1>2

\* The first elements of a sequence.
LEMMA FirstFacts ==
  ASSUME NEW S, NEW s \in Seq(S), NEW n \in 0 .. Len(s)
  PROVE  /\ SubSeq(s, 1, n) \in Seq(S) /\ Len(SubSeq(s, 1, n)) = n
         /\ \A k \in 1 .. n : SubSeq(s, 1, n)[k] = s[k]
<1>1. Len(s) \in Nat /\ n \in Int /\ n \in Nat /\ 1 \in Int
  BY LenProperties
<1>2. \A k \in 1 .. n : s[k] \in S
  BY <1>1, ElementOfSeq
<1>3. /\ SubSeq(s, 1, n) \in Seq(S) /\ Len(SubSeq(s, 1, n)) = IF 1 <= n THEN n - 1 + 1 ELSE 0
      /\ \A k \in 1 .. n - 1 + 1 : SubSeq(s, 1, n)[k] = s[1 + k - 1]
  BY <1>1, <1>2, SubSeqProperties
<1>4. QED
  BY <1>1, <1>3

-----------------------------------------------------------------------------
(* What the operators of the printer and the parser return.                *)

\* The first position from o on that is no white space, or the length.
Solid(o, e) ==
  /\ e \in o .. length /\ (e < length => ~IsBlank(e))
  /\ \A k \in o .. e - 1 : IsBlank(k)

\* There is one, and only one.
LEMMA SolidIs ==
  ASSUME length \in Nat, NEW o \in Nat, o < length
  PROVE  /\ \E e \in o .. length : Solid(o, e)
         /\ \A d, e \in o .. length : Solid(o, d) /\ Solid(o, e) => d = e
<1> DEFINE T == {e \in o .. length : e < length => ~IsBlank(e)}
<1>1. T \in SUBSET Nat /\ length \in T
  OBVIOUS
<1>2. PICK m \in T : \A k \in T : m <= k
  BY <1>1, Least
<1>3. \A k \in o .. m - 1 : IsBlank(k)
  <2>1. TAKE k \in o .. m - 1
  <2>2. k \in o .. length /\ ~(m <= k)
    BY <1>1, <1>2, <2>1
  <2>3. k \notin T
    BY <1>2, <2>2
  <2>4. QED
    BY <2>2, <2>3
<1>4. Solid(o, m)
  BY <1>2, <1>3 DEF Solid
<1>5. ASSUME NEW d \in o .. length, NEW e \in o .. length, Solid(o, d), Solid(o, e), d < e
      PROVE  FALSE
  <2>1. d \in o .. e - 1 /\ d < length
    BY <1>5
  <2>2. QED
    BY <1>5, <2>1 DEF Solid
<1>6. QED
  <2>1. ASSUME NEW d \in o .. length, NEW e \in o .. length, Solid(o, d), Solid(o, e)
        PROVE  d = e
    <3>1. ~(d < e) /\ ~(e < d)
      BY <1>5, <2>1
    <3>2. QED
      BY <2>1, <3>1
  <2>2. QED
    BY <1>2, <1>4, <2>1

\* Skip goes to the first position that is no white space, or to the last one.
LEMMA SkipIs ==
  ASSUME length \in Nat, NEW o \in Nat, o < length, NEW e \in o .. length, Solid(o, e)
  PROVE  Skip(o) = IF e = length THEN length - 1 ELSE e
<1> DEFINE P(d) == /\ d < length => ~IsBlank(d)
                   /\ \A k \in o .. d - 1 : IsBlank(k)
           c == CHOOSE d \in o .. length : P(d)
<1>1. \A d \in o .. length : P(d) <=> Solid(o, d)
  BY DEF Solid
<1>2. Skip(o) = IF c = length THEN length - 1 ELSE c
  BY DEF Skip
<1>3. P(e)
  BY <1>1
<1> HIDE DEF P
<1>4. c \in o .. length /\ P(c)
  BY <1>3
<1> HIDE DEF c
<1>5. Solid(o, c)
  BY <1>1, <1>4
<1>6. c = e
  BY <1>4, <1>5, SolidIs
<1>7. QED
  BY <1>2, <1>6

\* Skip never leaves the buffer.
LEMMA SkipFacts ==
  ASSUME length \in Nat, NEW o \in Nat
  PROVE  /\ Skip(o) \in Nat
         /\ o >= length => Skip(o) = o
         /\ o < length => Skip(o) \in o .. length - 1
<1>1. CASE o >= length
  BY <1>1 DEF Skip
<1>2. CASE o < length
  <2>1. PICK e \in o .. length : Solid(o, e)
    BY <1>2, SolidIs
  <2>2. Skip(o) = IF e = length THEN length - 1 ELSE e
    BY <1>2, <2>1, SkipIs
  <2>3. QED
    BY <1>2, <2>1, <2>2
<1>3. QED
  BY <1>1, <1>2

\* Skip stays where there is no white space.
LEMMA SkipStays ==
  ASSUME length \in Nat, NEW o \in Nat, o < length, ~IsBlank(o)
  PROVE  Skip(o) = o
<1>1. Solid(o, o) /\ o \in o .. length
  BY DEF Solid
<1>2. QED
  BY <1>1, SkipIs

\* One white space is skipped.
LEMMA SkipOne ==
  ASSUME length \in Nat, NEW o \in Nat, o + 1 < length, IsBlank(o), ~IsBlank(o + 1)
  PROVE  Skip(o) = o + 1
<1>1. \A k \in o .. (o + 1) - 1 : k = o
  OBVIOUS
<1>2. Solid(o, o + 1) /\ o + 1 \in o .. length
  BY <1>1 DEF Solid
<1>3. QED
  BY <1>2, SkipIs

\* Two white spaces are skipped.
LEMMA SkipTwo ==
  ASSUME length \in Nat, NEW o \in Nat, o + 2 < length, IsBlank(o), IsBlank(o + 1), ~IsBlank(o + 2)
  PROVE  Skip(o) = o + 2
<1>1. \A k \in o .. (o + 2) - 1 : k = o \/ k = o + 1
  OBVIOUS
<1>2. Solid(o, o + 2) /\ o + 2 \in o .. length
  BY <1>1 DEF Solid
<1>3. QED
  BY <1>2, SkipIs

\* What strlen lets the parser see of a text ends with the first NUL.
LEMMA UpToNulFacts ==
  ASSUME NEW s \in Seq(Token)
  PROVE  LET c == UpToNul(Append(s, NUL))
         IN  /\ c \in Seq(Token) /\ c # <<>> /\ Len(c) \in Nat /\ Len(c) <= Len(s) + 1
             /\ \A k \in 1 .. Len(c) : c[k] = Append(s, NUL)[k] /\ (c[k] = NUL <=> k = Len(c))
             /\ \A m \in 0 .. Len(s) : (\A k \in 1 .. m : s[k] # NUL) => m < Len(c)
<1> DEFINE t == Append(s, NUL)
           P(k) == t[k] = NUL /\ \A j \in 1 .. k - 1 : t[j] # NUL
           e == CHOOSE k \in DOMAIN t : P(k)
           c == SubSeq(t, 1, e)
<1>1. UpToNul(t) = c
  BY DEF UpToNul
<1>2. NUL \in Token
  BY DEF Token
<1>3. /\ t \in Seq(Token) /\ Len(t) = Len(s) + 1 /\ t[Len(s) + 1] = NUL
      /\ \A k \in 1 .. Len(s) : t[k] = s[k]
  BY <1>2, AppendFacts
<1>4. Len(s) \in Nat /\ Len(t) \in Nat /\ DOMAIN t = 1 .. Len(t)
  BY <1>3, LenProperties
<1> HIDE DEF t
<1>5. e \in DOMAIN t /\ P(e)
  <2> DEFINE T == {k \in DOMAIN t : t[k] = NUL}
  <2>1. T \in SUBSET Nat /\ Len(t) \in T
    BY <1>3, <1>4
  <2>2. PICK m \in T : \A k \in T : m <= k
    BY <2>1, Least
  <2>3. \A j \in 1 .. m - 1 : t[j] # NUL
    <3>1. TAKE j \in 1 .. m - 1
    <3>2. j \in DOMAIN t /\ ~(m <= j)
      BY <1>4, <2>1, <2>2, <3>1
    <3>3. j \notin T
      BY <2>2, <3>2
    <3>4. QED
      BY <3>2, <3>3
  <2>4. m \in DOMAIN t /\ P(m)
    BY <2>2, <2>3
  <2>5. QED
    BY <2>4
<1> HIDE DEF e
<1>6. e \in Nat /\ 1 <= e /\ e <= Len(t) /\ e \in 0 .. Len(t)
  BY <1>4, <1>5
<1>7. c \in Seq(Token) /\ Len(c) = e /\ \A k \in 1 .. e : c[k] = t[k]
  BY <1>3, <1>6, FirstFacts
<1> HIDE DEF c
<1>8. \A k \in 1 .. e : c[k] = NUL <=> k = e
  <2>1. TAKE k \in 1 .. e
  <2>2. k = e \/ k \in 1 .. e - 1
    BY <1>6
  <2>3. QED
    BY <1>5, <1>7, <2>2
<1>9. c # <<>>
  BY <1>6, <1>7, EmptySeq
<1>10. ASSUME NEW m \in 0 .. Len(s), \A k \in 1 .. m : s[k] # NUL PROVE m < e
  <2>1. SUFFICES ASSUME e <= m PROVE FALSE
    BY <1>4, <1>6
  <2>2. e \in 1 .. m /\ e \in 1 .. Len(s)
    BY <1>4, <1>6, <2>1
  <2>3. s[e] = NUL
    BY <1>3, <1>5, <2>2
  <2>4. QED
    BY <1>10, <2>2, <2>3
<1>11. QED
  <2>1. /\ c \in Seq(Token) /\ c # <<>> /\ Len(c) \in Nat /\ Len(c) <= Len(s) + 1
    BY <1>3, <1>6, <1>7, <1>9
  <2>2. \A k \in 1 .. Len(c) : c[k] = t[k] /\ (c[k] = NUL <=> k = Len(c))
    BY <1>7, <1>8
  <2>3. \A m \in 0 .. Len(s) : (\A k \in 1 .. m : s[k] # NUL) => m < Len(c)
    BY <1>7, <1>10
  <2>4. UpToNul(Append(s, NUL)) = c
    BY <1>1 DEF t
  <2> HIDE DEF P
  <2>5. QED
    BY <2>1, <2>2, <2>3, <2>4 DEF t

-----------------------------------------------------------------------------
(* The list of an object, and its pieces.                                  *)

\* A list of n items has n of them.
LEMMA ListCard ==
  ASSUME NEW p \in Path, NEW n \in Nat
  PROVE  Cardinality({Append(p, i) : i \in 1 .. n}) = n
<1> DEFINE T == {Append(p, i) : i \in 1 .. n}
           f == [i \in 1 .. n |-> Append(p, i)]
<1>1. IsFiniteSet(1 .. n) /\ Cardinality(1 .. n) = n
  <2>1. IsFiniteSet(1 .. n) /\ Cardinality(1 .. n) = IF 1 > n THEN 0 ELSE n - 1 + 1
    BY FS_Interval
  <2>2. QED
    BY <2>1
<1>2. \A i \in 1 .. n : Last(Append(p, i)) = i
  BY AppendFacts DEF Path
<1>3. \A i, j \in 1 .. n : Append(p, i) = Append(p, j) => i = j
  <2>1. TAKE i, j \in 1 .. n
  <2>2. QED
    BY <1>2
<1> DEFINE A(i) == Append(p, i)
<1> HIDE DEF A
<1>4. T = {A(i) : i \in 1 .. n} /\ f = [i \in 1 .. n |-> A(i)] /\ \A i, j \in 1 .. n : A(i) = A(j) => i = j
  BY <1>3 DEF A
<1> HIDE DEF T, f
<1>5. f \in [1 .. n -> T] /\ \A i \in 1 .. n : f[i] = A(i)
  BY <1>4
<1>6. f \in Injection(1 .. n, T)
  BY <1>4, <1>5 DEF Injection, IsInjective
<1>7. f \in Surjection(1 .. n, T)
  BY <1>4, <1>5 DEF Surjection
<1>8. ExistsBijection(1 .. n, T)
  BY <1>6, <1>7 DEF ExistsBijection, Bijection
<1>9. Cardinality(T) = Cardinality(1 .. n)
  BY <1>1, <1>8, FS_Bijection
<1>10. QED
  BY <1>1, <1>9 DEF T

\* The children of a list of n items and nothing else.
LEMMA ObjectFacts ==
  ASSUME NEW n \in Nat, DOMAIN items = {<<>>} \union {<<k>> : k \in 1 .. n}
  PROVE  /\ Children(<<>>) = {<<k>> : k \in 1 .. n}
         /\ Children(<<>>) = {Append(<<>>, k) : k \in 1 .. n}
         /\ Cardinality(Children(<<>>)) = n
         /\ DOMAIN items \subseteq Path
         /\ \A k \in 1 .. n : Children(<<k>>) = {}
<1> DEFINE D == DOMAIN items
           e == <<>>
<1>1. /\ e \in Path /\ Len(e) = 0
      /\ \A k \in 1 .. n : <<k>> \in Path /\ <<k>> # e /\ Front(<<k>>) = e /\ Append(e, k) = <<k>> /\ Len(<<k>>) = 1
  BY OneStep
<1>2. D \subseteq Path
  BY <1>1
<1>3. \A p \in Path : \A q \in D : Len(q) = Len(p) + 1 /\ IsPrefix(p, q) <=> q # e /\ Front(q) = p
  <2>1. TAKE p \in Path
  <2>2. TAKE q \in D
  <2>3. QED
    BY <1>2, ChildIs DEF Path
<1>4. \A p : Children(p) = {q \in D : Len(q) = Len(p) + 1 /\ IsPrefix(p, q)}
  BY DEF Children
<1>5. D = {e} \union {<<k>> : k \in 1 .. n}
  OBVIOUS
<1> HIDE DEF D, e
<1>6. Children(e) = {<<k>> : k \in 1 .. n}
  <2>1. \A q \in Children(e) : q \in {<<k>> : k \in 1 .. n}
    BY <1>1, <1>3, <1>4, <1>5
  <2>2. ASSUME NEW k \in 1 .. n PROVE <<k>> \in Children(e)
    <3> DEFINE q == <<k>>
    <3>1. q \in D /\ q # e /\ Front(q) = e
      BY <1>1, <1>5
    <3> HIDE DEF q
    <3>2. Len(q) = Len(e) + 1 /\ IsPrefix(e, q)
      BY <1>1, <1>3, <3>1
    <3>3. q \in Children(e)
      BY <1>4, <3>1, <3>2
    <3>4. QED
      BY <3>3 DEF q
  <2>3. QED
    BY <2>1, <2>2
<1>7. {<<k>> : k \in 1 .. n} = {Append(e, k) : k \in 1 .. n}
  BY <1>1
<1>8. \A k \in 1 .. n : Children(<<k>>) = {}
  <2>1. TAKE k \in 1 .. n
  <2>2. <<k>> \in Path /\ <<k>> # e
    BY <1>1
  <2>3. ASSUME NEW q \in Children(<<k>>) PROVE FALSE
    <3>1. q \in D /\ q # e /\ Front(q) = <<k>>
      BY <1>3, <1>4, <2>2
    <3>2. QED
      BY <1>1, <1>5, <2>2, <3>1
  <2>4. QED
    BY <2>3
<1>9. Cardinality(Children(e)) = n
  <2>1. Cardinality({Append(e, k) : k \in 1 .. n}) = n
    BY <1>1, ListCard
  <2>2. QED
    BY <1>6, <1>7, <2>1
<1>10. QED
  BY <1>2, <1>6, <1>7, <1>8, <1>9 DEF e, D

\* Up to three sequences one behind the other.
LEMMA FlattenFacts ==
  ASSUME NEW n \in 1 .. 3, NEW s, DOMAIN s = 1 .. n, Len(s) = n
  PROVE  FlattenSeq(s) = IF n = 1 THEN s[1] ELSE IF n = 2 THEN s[1] \o s[2] ELSE (s[1] \o s[2]) \o s[3]
<1> DEFINE f == CHOOSE f : f = [i \in 1 .. Len(s) |-> IF i = 1 THEN s[i] ELSE f[i - 1] \o s[i]]
           a == s[1] \o s[2]
           b == a \o s[3]
           g == [i \in 1 .. n |-> IF i = 1 THEN s[1] ELSE IF i = 2 THEN a ELSE b]
<1>1. FlattenSeq(s) = f[n]
  BY DEF FlattenSeq
<1>2. f = [i \in 1 .. n |-> IF i = 1 THEN s[i] ELSE f[i - 1] \o s[i]]
  <2>1. g = [i \in 1 .. n |-> IF i = 1 THEN s[i] ELSE g[i - 1] \o s[i]]
    <3>1. ASSUME NEW i \in 1 .. n
          PROVE  (IF i = 1 THEN s[1] ELSE IF i = 2 THEN a ELSE b) = IF i = 1 THEN s[i] ELSE g[i - 1] \o s[i]
      <4>1. CASE i = 1
        BY <4>1
      <4>2. CASE i = 2
        <5>1. 1 \in 1 .. n /\ i - 1 = 1
          BY <4>2
        <5>2. g[1] = s[1]
          BY <5>1
        <5>3. QED
          BY <4>2, <5>1, <5>2
      <4>3. CASE i = 3
        <5>1. 2 \in 1 .. n /\ i - 1 = 2
          BY <4>3
        <5> HIDE DEF a
        <5>2. g[2] = a
          BY <5>1
        <5>3. QED
          BY <4>3, <5>1, <5>2
      <4>4. QED
        BY <4>1, <4>2, <4>3
    <3> HIDE DEF a, b
    <3>2. QED
      BY <3>1
  <2> HIDE DEF g
  <2>2. f = [i \in 1 .. Len(s) |-> IF i = 1 THEN s[i] ELSE f[i - 1] \o s[i]]
    BY <2>1
  <2> HIDE DEF f
  <2>3. QED
    BY <2>2
<1> HIDE DEF f
<1>3. f[1] = s[1]
  BY <1>2
<1>4. ASSUME n # 1 PROVE f[2] = a
  <2>1. 2 \in 1 .. n /\ 2 # 1
    BY <1>4
  <2>2. f[2] = IF 2 = 1 THEN s[2] ELSE f[2 - 1] \o s[2]
    BY <1>2, <2>1
  <2>3. 2 - 1 = 1
    OBVIOUS
  <2>4. f[2] = f[1] \o s[2]
    BY <2>1, <2>2, <2>3
  <2>5. QED
    BY <1>3, <2>4
<1> HIDE DEF a
<1>5. ASSUME n = 3 PROVE f[3] = a \o s[3]
  <2>1. 3 \in 1 .. n /\ 3 # 1 /\ n # 1
    BY <1>5
  <2>2. f[3] = IF 3 = 1 THEN s[3] ELSE f[3 - 1] \o s[3]
    BY <1>2, <2>1
  <2>3. 3 - 1 = 2
    OBVIOUS
  <2>4. f[3] = f[2] \o s[3]
    BY <2>1, <2>2, <2>3
  <2>5. QED
    BY <1>4, <2>1, <2>4
<1>6. n = 1 \/ n = 2 \/ n = 3
  OBVIOUS
<1>7. FlattenSeq(s) = IF n = 1 THEN s[1] ELSE IF n = 2 THEN a ELSE a \o s[3]
  BY <1>1, <1>3, <1>4, <1>5, <1>6
<1>8. QED
  BY <1>7 DEF a

\* Two sequences one behind the other.
LEMMA Joined ==
  ASSUME NEW S, NEW p \in Seq(S), NEW q \in Seq(S)
  PROVE  /\ p \o q \in Seq(S) /\ Len(p \o q) = Len(p) + Len(q)
         /\ \A i \in 1 .. Len(p) : (p \o q)[i] = p[i]
         /\ \A i \in 1 .. Len(q) : (p \o q)[Len(p) + i] = q[i]
<1> DEFINE u == p \o q
           m == Len(p)
           n == Len(q)
<1>1. m \in Nat /\ n \in Nat
  BY LenProperties
<1>2. /\ u \in Seq(S) /\ Len(u) = m + n
      /\ \A i \in 1 .. m + n : u[i] = IF i <= m THEN p[i] ELSE q[i - m]
  BY ConcatProperties
<1> HIDE DEF u, m, n
<1>3. \A i \in 1 .. m : u[i] = p[i]
  BY <1>1, <1>2
<1>4. ASSUME NEW i \in 1 .. n PROVE u[m + i] = q[i]
  <2>1. m + i \in 1 .. m + n /\ ~(m + i <= m) /\ m + i - m = i
    BY <1>1
  <2>2. QED
    BY <1>1, <1>2, <2>1
<1>5. QED
  BY <1>2, <1>3, <1>4 DEF u, m, n

\* A sequence between two elements.
LEMMA Between ==
  ASSUME NEW S, NEW a \in S, NEW z \in S, NEW s \in Seq(S)
  PROVE  LET t == (<<a>> \o s) \o <<z>>
         IN  /\ t \in Seq(S) /\ Len(t) = Len(s) + 2 /\ t[1] = a /\ t[Len(s) + 2] = z
             /\ \A k \in 1 .. Len(s) : t[k + 1] = s[k]
<1> DEFINE b == <<a>>
           y == <<z>>
           u == b \o s
           t == u \o y
<1>1. b \in Seq(S) /\ Len(b) = 1 /\ b[1] = a /\ y \in Seq(S) /\ Len(y) = 1 /\ y[1] = z
  OBVIOUS
<1>2. Len(s) \in Nat
  BY LenProperties
<1> HIDE DEF b, y
<1>3. /\ u \in Seq(S) /\ Len(u) = 1 + Len(s)
      /\ \A i \in 1 .. 1 : u[i] = b[i]
      /\ \A i \in 1 .. Len(s) : u[1 + i] = s[i]
  <2>1. /\ u \in Seq(S) /\ Len(u) = Len(b) + Len(s)
        /\ \A i \in 1 .. Len(b) : u[i] = b[i]
        /\ \A i \in 1 .. Len(s) : u[Len(b) + i] = s[i]
    BY <1>1, Joined
  <2> HIDE DEF u
  <2>2. QED
    BY <1>1, <2>1
<1> HIDE DEF u
<1>4. /\ t \in Seq(S) /\ Len(t) = (1 + Len(s)) + 1
      /\ \A i \in 1 .. 1 + Len(s) : t[i] = u[i]
      /\ \A i \in 1 .. 1 : t[(1 + Len(s)) + i] = y[i]
  <2>1. /\ t \in Seq(S) /\ Len(t) = Len(u) + Len(y)
        /\ \A i \in 1 .. Len(u) : t[i] = u[i]
        /\ \A i \in 1 .. Len(y) : t[Len(u) + i] = y[i]
    <3>1. u \in Seq(S) /\ y \in Seq(S)
      BY <1>1, <1>3
    <3>2. QED
      BY <3>1, Joined
  <2> HIDE DEF t
  <2>2. QED
    BY <1>1, <1>3, <2>1
<1> HIDE DEF t
<1>5. t[1] = a /\ t[Len(s) + 2] = z /\ Len(t) = Len(s) + 2
  <2>1. 1 \in 1 .. 1 /\ 1 \in 1 .. 1 + Len(s) /\ (1 + Len(s)) + 1 = Len(s) + 2
    BY <1>2
  <2>2. t[1] = u[1] /\ u[1] = b[1] /\ t[(1 + Len(s)) + 1] = y[1]
    BY <1>3, <1>4, <2>1
  <2>3. QED
    BY <1>1, <1>4, <2>1, <2>2
<1>6. ASSUME NEW k \in 1 .. Len(s) PROVE t[k + 1] = s[k]
  <2>1. k + 1 \in 1 .. 1 + Len(s) /\ k + 1 = 1 + k
    BY <1>2
  <2>2. t[k + 1] = u[1 + k]
    BY <1>4, <2>1
  <2>3. u[1 + k] = s[k]
    BY <1>3
  <2>4. QED
    BY <2>2, <2>3
<1>7. QED
  BY <1>4, <1>5, <1>6 DEF t, u, b, y

\* The first piece of an object.
Bracket == Piece(3, <<Mark("{"), Blank>>, 2, FALSE, TRUE)

\* The last piece of an object.
Final == Piece(2, <<Mark("}")>>, 1, TRUE, FALSE)

\* The pieces of an object of up to three members.
LEMMA PiecesFacts ==
  ASSUME NEW n \in 0 .. 3, DOMAIN items = {<<>>} \union {<<k>> : k \in 1 .. n}
  PROVE  /\ Len(Pieces) = 5 * n + 2 /\ Pieces[1] = Bracket /\ Pieces[5 * n + 2] = Final
         /\ \A j \in 1 .. n : \A r \in 1 .. 5 :
              Pieces[5 * (j - 1) + 1 + r] = MemberPieces(items[<<j>>], j = n)[r]
<1> DEFINE m(j) == MemberPieces(items[<<j>>], j = n)
           s == [k \in 1 .. n |-> m(k)]
           f == FlattenSeq(s)
           S == {Bracket, Final} \union {m(j)[r] : j \in 1 .. n, r \in 1 .. 5}
<1>1. Pieces = (<<Bracket>> \o f) \o <<Final>>
  <2>1. Cardinality(Children(<<>>)) = n
    BY ObjectFacts
  <2>2. QED
    BY <2>1 DEF Pieces, Bracket, Final
<1>2. ASSUME NEW j \in 1 .. n PROVE m(j) \in Seq(S) /\ Len(m(j)) = 5
  <2> DEFINE a == m(j)[1]
             b == m(j)[2]
             c == m(j)[3]
             d == m(j)[4]
             e == m(j)[5]
  <2>1. m(j) = <<a, b, c, d, e>>
    BY DEF MemberPieces
  <2>2. a \in S /\ b \in S /\ c \in S /\ d \in S /\ e \in S
    <3> HIDE DEF m
    <3>1. QED
      OBVIOUS
  <2> HIDE DEF a, b, c, d, e, S
  <2>3. <<a, b, c, d, e>> \in Seq(S) /\ Len(<<a, b, c, d, e>>) = 5
    BY <2>2
  <2> HIDE DEF m
  <2>4. QED
    BY <2>1, <2>3
<1> HIDE DEF m
<1>3. DOMAIN s = 1 .. n /\ Len(s) = n /\ \A k \in 1 .. n : s[k] = m(k)
  <2>1. n \in Nat /\ s \in [1 .. n -> {m(k) : k \in 1 .. n}]
    OBVIOUS
  <2> HIDE DEF s
  <2>2. s \in Seq({m(k) : k \in 1 .. n})
    BY <2>1, SeqDef
  <2>3. Len(s) \in Nat /\ DOMAIN s = 1 .. Len(s) /\ DOMAIN s = 1 .. n
    BY <2>1, <2>2, LenProperties
  <2>4. Len(s) = n
    BY <2>1, <2>3
  <2>5. \A k \in 1 .. n : s[k] = m(k)
    BY DEF s
  <2>6. QED
    BY <2>3, <2>4, <2>5
<1>4. Bracket \in S /\ Final \in S
  OBVIOUS
<1> HIDE DEF S, s
<1>5. /\ f \in Seq(S) /\ Len(f) = 5 * n
      /\ \A j \in 1 .. n : \A r \in 1 .. 5 : f[5 * (j - 1) + r] = m(j)[r]
  <2>1. CASE n = 0
    <3>1. f = s
      BY <1>3, <2>1 DEF FlattenSeq
    <3>2. s = <<>>
      BY <2>1 DEF s
    <3>3. s \in Seq(S) /\ Len(s) = 0
      BY <3>2
    <3>4. QED
      BY <2>1, <3>1, <3>3
  <2>2. CASE n # 0
    <3>1. n \in 1 .. 3
      BY <2>2
    <3>2. f = IF n = 1 THEN s[1] ELSE IF n = 2 THEN s[1] \o s[2] ELSE (s[1] \o s[2]) \o s[3]
      BY <1>3, <3>1, FlattenFacts
    <3> HIDE DEF f
    <3>3. f = IF n = 1 THEN m(1) ELSE IF n = 2 THEN m(1) \o m(2) ELSE (m(1) \o m(2)) \o m(3)
      BY <1>3, <3>1, <3>2
    <3>4. CASE n = 1
      BY <1>2, <3>3, <3>4
    <3> DEFINE a == m(1) \o m(2)
    <3>5. ASSUME n \in 2 .. 3
          PROVE  /\ a \in Seq(S) /\ Len(a) = 10
                 /\ \A i \in 1 .. 5 : a[i] = m(1)[i]
                 /\ \A i \in 1 .. 5 : a[5 + i] = m(2)[i]
      <4>1. m(1) \in Seq(S) /\ m(2) \in Seq(S) /\ Len(m(1)) = 5 /\ Len(m(2)) = 5
        BY <1>2, <3>5
      <4>2. /\ a \in Seq(S) /\ Len(a) = Len(m(1)) + Len(m(2))
            /\ \A i \in 1 .. Len(m(1)) : a[i] = m(1)[i]
            /\ \A i \in 1 .. Len(m(2)) : a[Len(m(1)) + i] = m(2)[i]
        BY <4>1, Joined
      <4> HIDE DEF a
      <4>3. Len(a) = 10
        <5> DEFINE p == m(1)
                   q == m(2)
        <5>1. Len(p) = 5 /\ Len(q) = 5 /\ Len(a) = Len(p) + Len(q)
          BY <4>1, <4>2
        <5> HIDE DEF p, q
        <5>2. QED
          BY <5>1
      <4>4. \A i \in 1 .. 5 : a[i] = m(1)[i]
        BY <4>1, <4>2
      <4>5. \A i \in 1 .. 5 : a[5 + i] = m(2)[i]
        BY <4>1, <4>2
      <4>6. QED
        BY <4>2, <4>3, <4>4, <4>5
    <3> HIDE DEF a
    <3>6. CASE n = 2
      <4>1. f = a
        BY <3>3, <3>6 DEF a
      <4>2. ASSUME NEW j \in 1 .. n, NEW r \in 1 .. 5 PROVE f[5 * (j - 1) + r] = m(j)[r]
        <5>1. CASE j = 1
          <6>1. 5 * (j - 1) + r = r
            BY <5>1
          <6>2. QED
            BY <3>5, <3>6, <4>1, <5>1, <6>1
        <5>2. CASE j = 2
          <6>1. 5 * (j - 1) + r = 5 + r
            BY <5>2
          <6>2. QED
            BY <3>5, <3>6, <4>1, <5>2, <6>1
        <5>3. QED
          BY <3>6, <5>1, <5>2
      <4>3. QED
        BY <3>5, <3>6, <4>1, <4>2
    <3>7. CASE n = 3
      <4> DEFINE b == a \o m(3)
      <4>1. f = b
        BY <3>3, <3>7 DEF a
      <4>2. /\ b \in Seq(S) /\ Len(b) = 15
            /\ \A i \in 1 .. 10 : b[i] = a[i]
            /\ \A i \in 1 .. 5 : b[10 + i] = m(3)[i]
        <5>2. m(3) \in Seq(S) /\ Len(m(3)) = 5
          BY <1>2, <3>7
        <5>3. /\ b \in Seq(S) /\ Len(b) = Len(a) + Len(m(3))
              /\ \A i \in 1 .. Len(a) : b[i] = a[i]
              /\ \A i \in 1 .. Len(m(3)) : b[Len(a) + i] = m(3)[i]
          BY <3>5, <3>7, <5>2, Joined
        <5> HIDE DEF b
        <5>4. Len(a) = 10
          BY <3>5, <3>7
        <5>5. Len(b) = 15
          <6> DEFINE p == m(3)
          <6>1. Len(p) = 5 /\ Len(b) = Len(a) + Len(p)
            BY <5>2, <5>3
          <6> HIDE DEF p
          <6>2. QED
            BY <5>4, <6>1
        <5>6. \A i \in 1 .. 10 : b[i] = a[i]
          BY <5>2, <5>3, <5>4
        <5>7. \A i \in 1 .. 5 : b[10 + i] = m(3)[i]
          BY <5>2, <5>3, <5>4
        <5>8. QED
          BY <5>3, <5>5, <5>6, <5>7
      <4> HIDE DEF b
      <4>3. ASSUME NEW j \in 1 .. n, NEW r \in 1 .. 5 PROVE b[5 * (j - 1) + r] = m(j)[r]
        <5>1. CASE j = 1
          <6>1. 5 * (j - 1) + r = r /\ r \in 1 .. 10
            BY <5>1
          <6>2. b[r] = a[r]
            BY <4>2, <6>1
          <6>3. a[r] = m(1)[r]
            BY <3>5, <3>7
          <6>4. QED
            BY <5>1, <6>1, <6>2, <6>3
        <5>2. CASE j = 2
          <6>1. 5 * (j - 1) + r = 5 + r /\ 5 + r \in 1 .. 10
            BY <5>2
          <6>2. b[5 + r] = a[5 + r]
            BY <4>2, <6>1
          <6>3. a[5 + r] = m(2)[r]
            BY <3>5, <3>7
          <6>4. QED
            BY <5>2, <6>1, <6>2, <6>3
        <5>3. CASE j = 3
          <6>1. 5 * (j - 1) + r = 10 + r
            BY <5>3
          <6>2. QED
            BY <4>2, <5>3, <6>1
        <5>4. QED
          BY <3>7, <5>1, <5>2, <5>3
      <4>4. QED
        BY <3>7, <4>1, <4>2, <4>3
    <3>8. QED
      BY <3>1, <3>4, <3>6, <3>7
  <2>3. QED
    BY <2>1, <2>2
<1> HIDE DEF f
<1>6. /\ Len(Pieces) = Len(f) + 2 /\ Pieces[1] = Bracket /\ Pieces[Len(f) + 2] = Final
      /\ \A k \in 1 .. Len(f) : Pieces[k + 1] = f[k]
  BY <1>1, <1>4, <1>5, Between
<1>7. ASSUME NEW j \in 1 .. n, NEW r \in 1 .. 5 PROVE Pieces[5 * (j - 1) + 1 + r] = m(j)[r]
  <2>1. 5 * (j - 1) + r \in 1 .. Len(f) /\ 5 * (j - 1) + 1 + r = (5 * (j - 1) + r) + 1
    BY <1>5
  <2>2. QED
    BY <1>5, <1>6, <2>1
<1>8. QED
  BY <1>5, <1>6, <1>7 DEF m

\* What is the same for all pieces.
GoodPiece(p) ==
  /\ p.needed \in Nat /\ p.bytes \in Nat
  /\ \/ p.ends = TRUE /\ p.counted \in BOOLEAN /\ p.bytes <= p.needed
     \/ p.ends = FALSE /\ p.counted = TRUE /\ p.bytes \in 1 .. p.needed + 1
  /\ p.tokens \in Seq(Printable) /\ p.tokens # <<>>

\* One or two tokens that are printed.
LEMMA OneOrTwo ==
  ASSUME NEW a \in Printable, NEW b \in Printable
  PROVE  /\ <<a>> \in Seq(Printable) /\ <<a>> # <<>> /\ Len(<<a>>) = 1 /\ DOMAIN <<a>> = {1} /\ <<a>>[1] = a
         /\ <<a, b>> \in Seq(Printable) /\ <<a, b>> # <<>> /\ Len(<<a, b>>) = 2 /\ DOMAIN <<a, b>> = {1, 2}
         /\ <<a, b>>[1] = a /\ <<a, b>>[2] = b
  OBVIOUS

\* The tokens of an object that are always the same.
LEMMA Marks ==
  /\ {Mark("{"), Mark("}"), Mark(":"), Mark(","), Blank} \subseteq Printable
  /\ {Mark("{").t, Mark(":").t, Mark(",").t, Blank.t} \subseteq {"{", "ws", ":", ","}
  /\ Mark("}").t = "}"
  BY DEF Printable, Mark, Blank

\* The members of a packet.
LEMMA MemberFacts ==
  ASSUME NEW j \in 1 .. 3
  PROVE  LET i == Item(Value[j].t, Members[j], Value[j].v)
         IN  /\ i.kind = (IF j = 1 THEN "str" ELSE "num") /\ i.key = Members[j]
             /\ [t |-> i.kind, v |-> i.val] = Value[j]
             /\ Str(i.key) \in Printable /\ Str(i.key).t = "str"
             /\ [t |-> i.kind, v |-> i.val] \in Printable /\ i.kind \in {"str", "num"}
<1>1. j = 1 \/ j = 2 \/ j = 3
  OBVIOUS
<1>2. Value[1] = Str("text") /\ Value[2] = Num("crc") /\ Value[3] = Num("last")
  BY DEF Value
<1>3. Value[j] \in Printable /\ Str(Members[j]) \in Printable
  BY DEF Printable
<1>4. QED
  BY <1>1, <1>2, <1>3 DEF Item, Str, Num

\* The first piece opens the object, and only the last one closes it.
LEMMA EndPieces ==
  /\ GoodPiece(Bracket) /\ \A k \in DOMAIN Bracket.tokens : Bracket.tokens[k].t \in {"{", "ws"}
  /\ Bracket.tokens = <<Mark("{"), Blank>> /\ Bracket.bytes = 2 /\ Bracket.ends = FALSE
  /\ GoodPiece(Final) /\ Final.tokens = <<Mark("}")>> /\ Final.ends = TRUE
<1>1. /\ Blank \in Printable /\ Mark("{") \in Printable /\ Mark("}") \in Printable
      /\ Blank.t \in {"{", "ws"} /\ Mark("{").t \in {"{", "ws"} /\ Mark("}").t \in {"}"}
  BY Marks DEF Mark, Blank
<1>2. Bracket.tokens = <<Mark("{"), Blank>> /\ Final.tokens = <<Mark("}")>>
  BY DEF Bracket, Final, Piece
<1>3. Bracket.needed = 3 /\ Bracket.bytes = 2 /\ Final.needed = 2 /\ Final.bytes = 1
  BY DEF Bracket, Final, Piece
<1>4. Bracket.ends = FALSE /\ Bracket.counted = TRUE /\ Final.ends = TRUE /\ Final.counted \in BOOLEAN
  BY DEF Bracket, Final, Piece
<1>5. GoodPiece(Bracket) /\ \A k \in DOMAIN Bracket.tokens : Bracket.tokens[k].t \in {"{", "ws"}
  <2> DEFINE a == Mark("{")
             K == {"{", "ws"}
  <2> HIDE DEF a, K
  <2>2. a \in Printable /\ a.t \in K /\ Blank \in Printable /\ Blank.t \in K
    BY <1>1 DEF a, K
  <2>3. Bracket.needed \in Nat /\ Bracket.bytes \in Nat /\ Bracket.bytes \in 1 .. Bracket.needed + 1
    BY <1>3
  <2> DEFINE s == Bracket.tokens
  <2> HIDE DEF s
  <2>4. s \in Seq(Printable) /\ s # <<>> /\ \A k \in DOMAIN s : s[k].t \in K
    <3>1. s = <<a, Blank>>
      BY <1>2 DEF s, a
    <3>2. QED
      BY <2>2, <3>1, OneOrTwo
  <2>5. GoodPiece(Bracket)
    BY <1>4, <2>3, <2>4, Zenon DEF GoodPiece, s
  <2>6. QED
    BY <2>4, <2>5 DEF s, K
<1>6. GoodPiece(Final)
  <2> DEFINE a == Mark("}")
             K == {"}"}
  <2> HIDE DEF a, K
  <2>2. a \in Printable /\ a.t \in K
    BY <1>1 DEF a, K
  <2>3. Final.needed \in Nat /\ Final.bytes \in Nat /\ Final.bytes <= Final.needed
    BY <1>3
  <2> DEFINE s == Final.tokens
  <2> HIDE DEF s
  <2>4. s \in Seq(Printable) /\ s # <<>> /\ \A k \in DOMAIN s : s[k].t \in K
    <3>1. s = <<a>>
      BY <1>2 DEF s, a
    <3>2. QED
      BY <2>2, <3>1, OneOrTwo
  <2>5. QED
    BY <1>4, <2>3, <2>4, Zenon DEF GoodPiece, s
<1>7. QED
  BY <1>2, <1>3, <1>4, <1>5, <1>6

\* The pieces of a member are such pieces, and none has a bracket.
LEMMA MemberPiecesFacts ==
  ASSUME NEW i \in {Item(Value[j].t, Members[j], Value[j].v) : j \in 1 .. 3}, NEW last \in BOOLEAN,
         NEW r \in 1 .. 5, width \in Nat
  PROVE  LET p == MemberPieces(i, last)[r]
         IN  GoodPiece(p) /\ \A k \in DOMAIN p.tokens : p.tokens[k].t \in {"ws", "str", "num", ":", ","}
<1> DEFINE K == {"ws", "str", "num", ":", ","}
           p == MemberPieces(i, last)[r]
           key == Str(i.key)
           val == [t |-> i.kind, v |-> i.val]
           colon == Mark(":")
           comma == Mark(",")
           w == ValueWidth(i)
<1>1. PICK j \in 1 .. 3 : i = Item(Value[j].t, Members[j], Value[j].v)
  OBVIOUS
<1>2. KeyWidth \in Nat /\ NumberWidth \in Nat
  BY TextAssumption DEF TextAssumption
<1>3. w \in Nat
  BY <1>2 DEF ValueWidth
<1>4. /\ key \in Printable /\ key.t \in K /\ val \in Printable /\ val.t \in K /\ i.kind \in {"str", "num"}
  BY <1>1, MemberFacts
<1>5. Blank \in Printable /\ colon \in Printable /\ comma \in Printable /\ Blank.t \in K /\ colon.t \in K /\ comma.t \in K
  BY Marks DEF Mark, Blank
<1> DEFINE counted == i.kind = "num"
<1>7. counted \in BOOLEAN
  OBVIOUS
<1> HIDE DEF K, key, val, colon, comma, w, counted
<1>8. r = 1 \/ r = 2 \/ r = 3 \/ r = 4 \/ r = 5
  OBVIOUS
<1>9. \/ p = Piece(1, <<Blank>>, 1, FALSE, TRUE)
      \/ p = Piece(KeyWidth + 1, <<key>>, KeyWidth, TRUE, FALSE)
      \/ p = Piece(2, <<colon, Blank>>, 2, FALSE, TRUE)
      \/ p = Piece(w + 1, <<val>>, w, TRUE, counted)
      \/ p = Piece(2, <<Blank>>, 1, TRUE, TRUE)
      \/ p = Piece(3, <<comma, Blank>>, 2, TRUE, TRUE)
  <2>1. MemberPieces(i, last)[1] = Piece(1, <<Blank>>, 1, FALSE, TRUE)
    BY DEF MemberPieces
  <2>2. MemberPieces(i, last)[2] = Piece(KeyWidth + 1, <<key>>, KeyWidth, TRUE, FALSE)
    BY DEF MemberPieces, KeyPiece, key
  <2>3. MemberPieces(i, last)[3] = Piece(2, <<colon, Blank>>, 2, FALSE, TRUE)
    BY DEF MemberPieces, colon
  <2>4. MemberPieces(i, last)[4] = Piece(w + 1, <<val>>, w, TRUE, counted)
    BY DEF MemberPieces, ValuePiece, val, w, counted
  <2>5. MemberPieces(i, last)[5] = Piece(2, <<Blank>>, 1, TRUE, TRUE) \/ MemberPieces(i, last)[5] = Piece(3, <<comma, Blank>>, 2, TRUE, TRUE)
    BY DEF MemberPieces, CommaPiece, comma
  <2>6. QED
    BY <1>8, <2>1, <2>2, <2>3, <2>4, <2>5
<1> HIDE DEF p
<1>10. /\ p.needed \in Nat /\ p.bytes \in Nat
       /\ \/ p.ends = TRUE /\ p.counted \in BOOLEAN /\ p.bytes <= p.needed
          \/ p.ends = FALSE /\ p.counted = TRUE /\ p.bytes \in 1 .. p.needed + 1
  <2>2. CASE p = Piece(1, <<Blank>>, 1, FALSE, TRUE)
    BY <2>2 DEF Piece
  <2>3. CASE p = Piece(KeyWidth + 1, <<key>>, KeyWidth, TRUE, FALSE)
    BY <1>2, <2>3 DEF Piece
  <2>4. CASE p = Piece(2, <<colon, Blank>>, 2, FALSE, TRUE)
    BY <2>4 DEF Piece
  <2>5. CASE p = Piece(w + 1, <<val>>, w, TRUE, counted)
    BY <1>3, <1>7, <2>5 DEF Piece
  <2>6. CASE p = Piece(2, <<Blank>>, 1, TRUE, TRUE)
    BY <2>6 DEF Piece
  <2>7. CASE p = Piece(3, <<comma, Blank>>, 2, TRUE, TRUE)
    BY <2>7 DEF Piece
  <2>8. QED
    BY <1>9, <2>2, <2>3, <2>4, <2>5, <2>6, <2>7
<1>11. p.tokens \in {<<Blank>>, <<key>>, <<colon, Blank>>, <<val>>, <<comma, Blank>>}
  BY <1>9 DEF Piece
<1> DEFINE s == p.tokens
<1>12. s \in Seq(Printable) /\ s # <<>> /\ \A k \in DOMAIN s : s[k].t \in K
  <2>1. s \in {<<Blank>>, <<key>>, <<colon, Blank>>, <<val>>, <<comma, Blank>>}
    BY <1>11
  <2> HIDE DEF s
  <2>2. CASE s = <<Blank>>
    BY <1>5, <2>2, OneOrTwo
  <2>3. CASE s = <<key>>
    BY <1>4, <2>3, OneOrTwo
  <2>4. CASE s = <<colon, Blank>>
    BY <1>5, <2>4, OneOrTwo
  <2>5. CASE s = <<val>>
    BY <1>4, <2>5, OneOrTwo
  <2>6. CASE s = <<comma, Blank>>
    BY <1>5, <2>6, OneOrTwo
  <2>7. QED
    BY <2>1, <2>2, <2>3, <2>4, <2>5, <2>6
<1>13. QED
  BY <1>10, <1>12, Zenon DEF GoodPiece, K, p

\* Each piece is such a piece, and only the last one has the closing bracket.
LEMMA AllPieces ==
  ASSUME NEW n \in 0 .. 3, Object(n), width \in Nat
  PROVE  /\ Len(Pieces) = 5 * n + 2 /\ Pieces[1] = Bracket /\ Pieces[5 * n + 2] = Final
         /\ \A k \in 1 .. 5 * n + 2 : GoodPiece(Pieces[k])
         /\ \A k \in 1 .. 5 * n + 1 : \A j \in DOMAIN Pieces[k].tokens :
              Pieces[k].tokens[j].t \in {"{", "ws", "str", "num", ":", ","}
<1> DEFINE K == {"{", "ws", "str", "num", ":", ","}
           P == Pieces
           m(j) == MemberPieces(items[<<j>>], j = n)
<1>1. DOMAIN items = {<<>>} \union {<<k>> : k \in 1 .. n}
  BY DEF Object
<1>2. /\ Len(P) = 5 * n + 2 /\ P[1] = Bracket /\ P[5 * n + 2] = Final
      /\ \A j \in 1 .. n : \A r \in 1 .. 5 : P[5 * (j - 1) + 1 + r] = m(j)[r]
  BY <1>1, PiecesFacts
<1>3. ASSUME NEW j \in 1 .. n, NEW r \in 1 .. 5
      PROVE  GoodPiece(m(j)[r]) /\ \A k \in DOMAIN m(j)[r].tokens : m(j)[r].tokens[k].t \in K
  <2>1. items[<<j>>] \in {Item(Value[i].t, Members[i], Value[i].v) : i \in 1 .. 3} /\ (j = n) \in BOOLEAN
    BY DEF Object
  <2> DEFINE i == items[<<j>>]
             l == j = n
  <2> HIDE DEF i, l
  <2>2. LET p == MemberPieces(i, l)[r]
        IN  GoodPiece(p) /\ \A k \in DOMAIN p.tokens : p.tokens[k].t \in {"ws", "str", "num", ":", ","}
    BY <2>1, MemberPiecesFacts DEF i, l
  <2> DEFINE p == MemberPieces(i, l)[r]
  <2> HIDE DEF p
  <2>3. GoodPiece(p) /\ \A k \in DOMAIN p.tokens : p.tokens[k].t \in K
    BY <2>2 DEF p
  <2>4. QED
    BY <2>3 DEF p, i, l
<1> HIDE DEF m, P
<1>4. ASSUME NEW k \in 1 .. 5 * n + 2
      PROVE  GoodPiece(P[k]) /\ (k <= 5 * n + 1 => \A j \in DOMAIN P[k].tokens : P[k].tokens[j].t \in K)
  <2>1. CASE k = 1
    BY <1>2, <2>1, EndPieces
  <2>2. CASE k = 5 * n + 2
    <3>1. P[k] = Final /\ ~(k <= 5 * n + 1)
      BY <1>2, <2>2
    <3>2. GoodPiece(Final)
      BY EndPieces
    <3>3. QED
      BY <3>1, <3>2
  <2>3. CASE k # 1 /\ k # 5 * n + 2
    <3>1. \E j \in 1 .. n : \E r \in 1 .. 5 : k = 5 * (j - 1) + 1 + r
      <4>1. n = 0 \/ n = 1 \/ n = 2 \/ n = 3
        OBVIOUS
      <4>2. CASE k <= 6
        <5>1. 1 \in 1 .. n /\ k - 1 \in 1 .. 5 /\ k = 5 * (1 - 1) + 1 + (k - 1)
          BY <2>3, <4>1, <4>2
        <5>2. QED
          BY <5>1
      <4>3. CASE k > 6 /\ k <= 11
        <5>1. 2 \in 1 .. n /\ k - 6 \in 1 .. 5 /\ k = 5 * (2 - 1) + 1 + (k - 6)
          BY <2>3, <4>1, <4>3
        <5>2. QED
          BY <5>1
      <4>4. CASE k > 11
        <5>1. 3 \in 1 .. n /\ k - 11 \in 1 .. 5 /\ k = 5 * (3 - 1) + 1 + (k - 11)
          BY <2>3, <4>1, <4>4
        <5>2. QED
          BY <5>1
      <4>5. QED
        BY <4>2, <4>3, <4>4
    <3>2. PICK j \in 1 .. n, r \in 1 .. 5 : k = 5 * (j - 1) + 1 + r
      BY <3>1
    <3>3. P[k] = m(j)[r]
      BY <1>2, <3>2
    <3> DEFINE q == P[k]
    <3>4. GoodPiece(q) /\ \A i \in DOMAIN q.tokens : q.tokens[i].t \in K
      BY <1>3, <3>3
    <3>5. QED
      BY <3>4
  <2>4. QED
    BY <2>1, <2>2, <2>3
<1>5. ASSUME NEW k \in 1 .. 5 * n + 1 PROVE \A j \in DOMAIN P[k].tokens : P[k].tokens[j].t \in K
  <2>1. k \in 1 .. 5 * n + 2 /\ k <= 5 * n + 1
    OBVIOUS
  <2>2. QED
    BY <1>4, <2>1
<1>6. QED
  BY <1>2, <1>4, <1>5 DEF P

\* Where the pieces end is where the one before ends, and the bytes of the piece.
LEMMA EndsFacts ==
  ASSUME NEW ps, NEW L \in Nat, Len(ps) = L, \A k \in 1 .. L : ps[k].bytes \in Nat
  PROVE  /\ Ends(ps)[0] = 0
         /\ \A k \in 1 .. L : Ends(ps)[k] = Ends(ps)[k - 1] + ps[k].bytes
<1> DEFINE b(k) == ps[k].bytes
           P(n, f) == f \in [0 .. n -> Nat] /\ f[0] = 0 /\ \A k \in 1 .. n : f[k] = f[k - 1] + b(k)
           T == {n \in 0 .. L : ~\E f : P(n, f)}
           Q(f) == f = [k \in 0 .. L |-> IF k = 0 THEN 0 ELSE f[k - 1] + b(k)]
<1>1. \A k \in 1 .. L : b(k) \in Nat
  OBVIOUS
<1>2. Ends(ps) = CHOOSE f : Q(f)
  BY DEF Ends
<1> HIDE DEF b
<1>3. T = {}
  <2>1. SUFFICES ASSUME T # {} PROVE FALSE
    OBVIOUS
  <2>2. T \in SUBSET Nat
    OBVIOUS
  <2>3. PICK m \in T : \A k \in T : m <= k
    <3> HIDE DEF T
    <3>1. QED
      BY <2>1, <2>2, Least
  <2>4. m \in 0 .. L /\ ~\E f : P(m, f)
    OBVIOUS
  <2>5. m # 0
    <3>1. P(0, [k \in 0 .. 0 |-> 0])
      OBVIOUS
    <3>2. QED
      BY <2>4, <3>1
  <2>6. m - 1 \in 0 .. L /\ m - 1 \notin T
    <3>1. m - 1 \in 0 .. L /\ ~(m <= m - 1)
      BY <2>4, <2>5
    <3> HIDE DEF T
    <3>2. QED
      BY <2>3, <3>1
  <2>7. PICK f : P(m - 1, f)
    BY <2>6
  <2> DEFINE h == [k \in 0 .. m |-> IF k = m THEN f[m - 1] + b(m) ELSE f[k]]
  <2>8. m \in 1 .. L /\ m - 1 \in 0 .. m - 1
    BY <2>4, <2>5
  <2>9. P(m, h)
    <3>1. h \in [0 .. m -> Nat]
      BY <1>1, <2>7, <2>8
    <3>2. h[0] = 0
      BY <2>7, <2>8
    <3>3. ASSUME NEW k \in 1 .. m PROVE h[k] = h[k - 1] + b(k)
      BY <2>7, <2>8
    <3>4. QED
      BY <3>1, <3>2, <3>3
  <2>10. QED
    BY <2>4, <2>9
<1>4. PICK f : P(L, f)
  <2>1. L \in 0 .. L /\ L \notin T
    <3> HIDE DEF T, P, Q
    <3>1. QED
      BY <1>3
  <2>2. QED
    BY <2>1
<1>5. Q(f)
  <2>1. ASSUME NEW k \in 0 .. L PROVE f[k] = IF k = 0 THEN 0 ELSE f[k - 1] + b(k)
    <3>1. k = 0 \/ k \in 1 .. L
      OBVIOUS
    <3>2. QED
      BY <1>4, <3>1
  <2>2. QED
    BY <1>4, <2>1
<1> HIDE DEF Q
<1>6. Q(Ends(ps))
  BY <1>2, <1>5
<1> DEFINE e == Ends(ps)
<1>7. e = [k \in 0 .. L |-> IF k = 0 THEN 0 ELSE e[k - 1] + b(k)]
  BY <1>6 DEF Q
<1> HIDE DEF e
<1>8. e[0] = 0 /\ \A k \in 1 .. L : e[k] = e[k - 1] + b(k)
  BY <1>7
<1>9. QED
  BY <1>8 DEF e, b

\* The tokens of the pieces of a member.
LEMMA MemberTokens ==
  ASSUME NEW j \in 1 .. 3, NEW i, i = Item(Value[j].t, Members[j], Value[j].v),
         NEW last \in BOOLEAN
  PROVE  LET m == MemberPieces(i, last)
         IN  /\ m[1].tokens = <<Blank>> /\ m[2].tokens = <<Str(Members[j])>>
             /\ m[3].tokens = <<Mark(":"), Blank>> /\ m[4].tokens = <<Value[j]>>
             /\ last = TRUE => m[5].tokens = <<Blank>>
             /\ last = FALSE => m[5].tokens = <<Mark(","), Blank>>
<1> DEFINE m == MemberPieces(i, last)
<1>1. i.key = Members[j] /\ [t |-> i.kind, v |-> i.val] = Value[j]
  BY MemberFacts
<1>2. m[1].tokens = <<Blank>> /\ m[3].tokens = <<Mark(":"), Blank>>
  BY DEF MemberPieces, Piece
<1>3. m[2].tokens = <<Str(Members[j])>>
  BY <1>1 DEF MemberPieces, KeyPiece, Piece
<1>4. m[4].tokens = <<[t |-> i.kind, v |-> i.val]>>
  BY DEF MemberPieces, ValuePiece, Piece
<1>5. /\ last = TRUE => m[5].tokens = <<Blank>>
      /\ last = FALSE => m[5].tokens = <<Mark(","), Blank>>
  BY DEF MemberPieces, CommaPiece, Piece
<1> HIDE DEF m
<1>6. QED
  BY <1>1, <1>2, <1>3, <1>4, <1>5 DEF m

\* How the tokens are counted.
LEMMA LaidIs ==
  /\ Laid(0) = 0 /\ Laid(1) = 2 /\ Laid(2) = 3 /\ Laid(3) = 4 /\ Laid(4) = 6 /\ Laid(5) = 7
  /\ Laid(6) = 9 /\ Laid(7) = 10 /\ Laid(8) = 11 /\ Laid(9) = 13 /\ Laid(10) = 14 /\ Laid(11) = 16
  /\ Laid(12) = 17 /\ Laid(13) = 18 /\ Laid(14) = 20 /\ Laid(15) = 21 /\ Laid(16) = 22 /\ Laid(17) = 23
  BY DEF Laid

\* The tokens of a packet, one by one.
LEMMA PrintedIs ==
  /\ Len(Printed) = 23 /\ DOMAIN Printed = 1 .. 23
  /\ Printed[1] = Mark("{") /\ Printed[2] = Blank /\ Printed[3] = Blank /\ Printed[4] = Str(Members[1])
  /\ Printed[5] = Mark(":") /\ Printed[6] = Blank /\ Printed[7] = Value[1] /\ Printed[8] = Mark(",")
  /\ Printed[9] = Blank /\ Printed[10] = Blank /\ Printed[11] = Str(Members[2]) /\ Printed[12] = Mark(":")
  /\ Printed[13] = Blank /\ Printed[14] = Value[2] /\ Printed[15] = Mark(",") /\ Printed[16] = Blank
  /\ Printed[17] = Blank /\ Printed[18] = Str(Members[3]) /\ Printed[19] = Mark(":") /\ Printed[20] = Blank
  /\ Printed[21] = Value[3] /\ Printed[22] = Blank /\ Printed[23] = Mark("}")
<1>1. Len(Printed) = 23 /\ DOMAIN Printed = 1 .. 23
  BY DEF Printed
<1>2. /\ Value[1] = Str("text") /\ Value[2] = Num("crc") /\ Value[3] = Num("last")
      /\ Members[1] = "message" /\ Members[2] = "crc_checksum" /\ Members[3] = "flag_last"
  BY DEF Value, Members
<1>3. QED
  BY <1>1, <1>2 DEF Printed

\* One token, or two, at its place in the text of a packet.
AtPlace(tok, c, d) == d = c + Len(tok) /\ \A k \in DOMAIN tok : c + k \in 1 .. 23 /\ tok[k] = Printed[c + k]

\* Where they are.
LEMMA AtPlaceFacts ==
  ASSUME NEW a, NEW b, NEW c \in 0 .. 22
  PROVE  /\ Printed[c + 1] = a => AtPlace(<<a>>, c, c + 1)
         /\ c < 22 /\ Printed[c + 1] = a /\ Printed[c + 2] = b => AtPlace(<<a, b>>, c, c + 2)
<1>1. /\ Len(<<a>>) = 1 /\ DOMAIN <<a>> = {1} /\ <<a>>[1] = a
      /\ Len(<<a, b>>) = 2 /\ DOMAIN <<a, b>> = {1, 2} /\ <<a, b>>[1] = a /\ <<a, b>>[2] = b
  OBVIOUS
<1> DEFINE s == <<a>>
           t == <<a, b>>
<1>2. Len(s) = 1 /\ DOMAIN s = {1} /\ s[1] = a /\ Len(t) = 2 /\ DOMAIN t = {1, 2} /\ t[1] = a /\ t[2] = b
  BY <1>1
<1> HIDE DEF s, t
<1>3. c + 1 \in 1 .. 23 /\ (c < 22 => c + 2 \in 1 .. 23)
  OBVIOUS
<1>4. Printed[c + 1] = a => AtPlace(s, c, c + 1)
  BY <1>2, <1>3 DEF AtPlace
<1>5. c < 22 /\ Printed[c + 1] = a /\ Printed[c + 2] = b => AtPlace(t, c, c + 2)
  BY <1>2, <1>3 DEF AtPlace
<1>6. QED
  BY <1>4, <1>5 DEF s, t

\* The pieces of a packet print its text.
LEMMA PiecesPrint ==
  ASSUME Object(3), Filled(3)
  PROVE  \A i \in 1 .. 17 : AtPlace(Pieces[i].tokens, Laid(i - 1), Laid(i))
<1> DEFINE P == Pieces
           m(j) == MemberPieces(items[<<j>>], j = 3)
<1>1. DOMAIN items = {<<>>} \union {<<k>> : k \in 1 .. 3} /\ 3 \in 0 .. 3 /\ 5 * 3 + 2 = 17
  BY DEF Object
<1>2. /\ P[1] = Bracket /\ P[17] = Final
      /\ \A j \in 1 .. 3 : \A r \in 1 .. 5 : P[5 * (j - 1) + 1 + r] = m(j)[r]
  BY <1>1, PiecesFacts
<1> HIDE DEF P
<1>3. ASSUME NEW j \in 1 .. 3
      PROVE  /\ P[5 * j - 3].tokens = <<Blank>> /\ P[5 * j - 2].tokens = <<Str(Members[j])>>
             /\ P[5 * j - 1].tokens = <<Mark(":"), Blank>> /\ P[5 * j].tokens = <<Value[j]>>
             /\ j = 3 => P[5 * j + 1].tokens = <<Blank>>
             /\ j # 3 => P[5 * j + 1].tokens = <<Mark(","), Blank>>
  <2> DEFINE i == items[<<j>>]
             l == j = 3
             q == m(j)
  <2>1. i = Item(Value[j].t, Members[j], Value[j].v) /\ l \in BOOLEAN
    BY DEF Filled
  <2>2. \A r \in 1 .. 5 : P[5 * j - 4 + r] = q[r]
    <3>1. \A r \in 1 .. 5 : 5 * (j - 1) + 1 + r = 5 * j - 4 + r
      OBVIOUS
    <3> HIDE DEF m
    <3>2. \A r \in 1 .. 5 : P[5 * (j - 1) + 1 + r] = m(j)[r]
      BY <1>2
    <3>3. QED
      BY <3>1, <3>2
  <2>3. q = MemberPieces(i, l)
    OBVIOUS
  <2> HIDE DEF i, q, m
  <2>4. (j = 3 => l = TRUE) /\ (j # 3 => l = FALSE)
    OBVIOUS
  <2> HIDE DEF l
  <2>5. /\ q[1].tokens = <<Blank>> /\ q[2].tokens = <<Str(Members[j])>>
        /\ q[3].tokens = <<Mark(":"), Blank>> /\ q[4].tokens = <<Value[j]>>
        /\ l = TRUE => q[5].tokens = <<Blank>>
        /\ l = FALSE => q[5].tokens = <<Mark(","), Blank>>
    BY <2>1, <2>3, MemberTokens
  <2>6. P[5 * j - 3] = q[1] /\ P[5 * j - 2] = q[2] /\ P[5 * j - 1] = q[3] /\ P[5 * j] = q[4] /\ P[5 * j + 1] = q[5]
    <3>1. /\ 5 * j - 3 = 5 * j - 4 + 1 /\ 5 * j - 2 = 5 * j - 4 + 2 /\ 5 * j - 1 = 5 * j - 4 + 3
          /\ 5 * j = 5 * j - 4 + 4 /\ 5 * j + 1 = 5 * j - 4 + 5
      OBVIOUS
    <3>2. QED
      BY <2>2, <3>1
  <2>7. QED
    BY <2>4, <2>5, <2>6
<1>4. /\ P[2].tokens = <<Blank>> /\ P[3].tokens = <<Str(Members[1])>> /\ P[4].tokens = <<Mark(":"), Blank>>
      /\ P[5].tokens = <<Value[1]>> /\ P[6].tokens = <<Mark(","), Blank>>
  <2>1. 1 \in 1 .. 3 /\ 5 * 1 - 3 = 2 /\ 5 * 1 - 2 = 3 /\ 5 * 1 - 1 = 4 /\ 5 * 1 = 5 /\ 5 * 1 + 1 = 6 /\ 1 # 3
    OBVIOUS
  <2>2. QED
    BY <1>3, <2>1
<1>5. /\ P[7].tokens = <<Blank>> /\ P[8].tokens = <<Str(Members[2])>> /\ P[9].tokens = <<Mark(":"), Blank>>
      /\ P[10].tokens = <<Value[2]>> /\ P[11].tokens = <<Mark(","), Blank>>
  <2>1. 2 \in 1 .. 3 /\ 5 * 2 - 3 = 7 /\ 5 * 2 - 2 = 8 /\ 5 * 2 - 1 = 9 /\ 5 * 2 = 10 /\ 5 * 2 + 1 = 11 /\ 2 # 3
    OBVIOUS
  <2>2. QED
    BY <1>3, <2>1
<1>6. /\ P[12].tokens = <<Blank>> /\ P[13].tokens = <<Str(Members[3])>> /\ P[14].tokens = <<Mark(":"), Blank>>
      /\ P[15].tokens = <<Value[3]>> /\ P[16].tokens = <<Blank>>
  <2>1. 3 \in 1 .. 3 /\ 5 * 3 - 3 = 12 /\ 5 * 3 - 2 = 13 /\ 5 * 3 - 1 = 14 /\ 5 * 3 = 15 /\ 5 * 3 + 1 = 16
    OBVIOUS
  <2>2. QED
    BY <1>3, <2>1
<1>7. AtPlace(P[1].tokens, Laid(0), Laid(1))
  <2>1. P[1].tokens = <<Mark("{"), Blank>>
    BY <1>2, EndPieces
  <2>2. AtPlace(<<Mark("{"), Blank>>, 0, 2)
    <3>1. 0 \in 0 .. 22 /\ 0 + 1 = 1 /\ 0 + 2 = 2 /\ 0 < 22
      OBVIOUS
    <3>2. QED
      BY <3>1, PrintedIs, AtPlaceFacts
  <2>3. QED
    BY <2>1, <2>2, LaidIs
<1>8. AtPlace(P[2].tokens, Laid(1), Laid(2))
  <2>1. P[2].tokens = <<Blank>>
    BY <1>4, <1>5, <1>6
  <2>2. AtPlace(<<Blank>>, 2, 3)
    <3>1. 2 \in 0 .. 22 /\ 2 + 1 = 3 /\ 2 + 2 = 4
      OBVIOUS
    <3>2. QED
      BY <3>1, PrintedIs, AtPlaceFacts
  <2>3. QED
    BY <2>1, <2>2, LaidIs
<1>9. AtPlace(P[3].tokens, Laid(2), Laid(3))
  <2>1. P[3].tokens = <<Str(Members[1])>>
    BY <1>4, <1>5, <1>6
  <2>2. AtPlace(<<Str(Members[1])>>, 3, 4)
    <3>1. 3 \in 0 .. 22 /\ 3 + 1 = 4 /\ 3 + 2 = 5
      OBVIOUS
    <3>2. QED
      BY <3>1, PrintedIs, AtPlaceFacts
  <2>3. QED
    BY <2>1, <2>2, LaidIs
<1>10. AtPlace(P[4].tokens, Laid(3), Laid(4))
  <2>1. P[4].tokens = <<Mark(":"), Blank>>
    BY <1>4, <1>5, <1>6
  <2>2. AtPlace(<<Mark(":"), Blank>>, 4, 6)
    <3>1. 4 \in 0 .. 22 /\ 4 + 1 = 5 /\ 4 + 2 = 6 /\ 4 < 22
      OBVIOUS
    <3>2. QED
      BY <3>1, PrintedIs, AtPlaceFacts
  <2>3. QED
    BY <2>1, <2>2, LaidIs
<1>11. AtPlace(P[5].tokens, Laid(4), Laid(5))
  <2>1. P[5].tokens = <<Value[1]>>
    BY <1>4, <1>5, <1>6
  <2>2. AtPlace(<<Value[1]>>, 6, 7)
    <3>1. 6 \in 0 .. 22 /\ 6 + 1 = 7 /\ 6 + 2 = 8
      OBVIOUS
    <3>2. QED
      BY <3>1, PrintedIs, AtPlaceFacts
  <2>3. QED
    BY <2>1, <2>2, LaidIs
<1>12. AtPlace(P[6].tokens, Laid(5), Laid(6))
  <2>1. P[6].tokens = <<Mark(","), Blank>>
    BY <1>4, <1>5, <1>6
  <2>2. AtPlace(<<Mark(","), Blank>>, 7, 9)
    <3>1. 7 \in 0 .. 22 /\ 7 + 1 = 8 /\ 7 + 2 = 9 /\ 7 < 22
      OBVIOUS
    <3>2. QED
      BY <3>1, PrintedIs, AtPlaceFacts
  <2>3. QED
    BY <2>1, <2>2, LaidIs
<1>13. AtPlace(P[7].tokens, Laid(6), Laid(7))
  <2>1. P[7].tokens = <<Blank>>
    BY <1>4, <1>5, <1>6
  <2>2. AtPlace(<<Blank>>, 9, 10)
    <3>1. 9 \in 0 .. 22 /\ 9 + 1 = 10 /\ 9 + 2 = 11
      OBVIOUS
    <3>2. QED
      BY <3>1, PrintedIs, AtPlaceFacts
  <2>3. QED
    BY <2>1, <2>2, LaidIs
<1>14. AtPlace(P[8].tokens, Laid(7), Laid(8))
  <2>1. P[8].tokens = <<Str(Members[2])>>
    BY <1>4, <1>5, <1>6
  <2>2. AtPlace(<<Str(Members[2])>>, 10, 11)
    <3>1. 10 \in 0 .. 22 /\ 10 + 1 = 11 /\ 10 + 2 = 12
      OBVIOUS
    <3>2. QED
      BY <3>1, PrintedIs, AtPlaceFacts
  <2>3. QED
    BY <2>1, <2>2, LaidIs
<1>15. AtPlace(P[9].tokens, Laid(8), Laid(9))
  <2>1. P[9].tokens = <<Mark(":"), Blank>>
    BY <1>4, <1>5, <1>6
  <2>2. AtPlace(<<Mark(":"), Blank>>, 11, 13)
    <3>1. 11 \in 0 .. 22 /\ 11 + 1 = 12 /\ 11 + 2 = 13 /\ 11 < 22
      OBVIOUS
    <3>2. QED
      BY <3>1, PrintedIs, AtPlaceFacts
  <2>3. QED
    BY <2>1, <2>2, LaidIs
<1>16. AtPlace(P[10].tokens, Laid(9), Laid(10))
  <2>1. P[10].tokens = <<Value[2]>>
    BY <1>4, <1>5, <1>6
  <2>2. AtPlace(<<Value[2]>>, 13, 14)
    <3>1. 13 \in 0 .. 22 /\ 13 + 1 = 14 /\ 13 + 2 = 15
      OBVIOUS
    <3>2. QED
      BY <3>1, PrintedIs, AtPlaceFacts
  <2>3. QED
    BY <2>1, <2>2, LaidIs
<1>17. AtPlace(P[11].tokens, Laid(10), Laid(11))
  <2>1. P[11].tokens = <<Mark(","), Blank>>
    BY <1>4, <1>5, <1>6
  <2>2. AtPlace(<<Mark(","), Blank>>, 14, 16)
    <3>1. 14 \in 0 .. 22 /\ 14 + 1 = 15 /\ 14 + 2 = 16 /\ 14 < 22
      OBVIOUS
    <3>2. QED
      BY <3>1, PrintedIs, AtPlaceFacts
  <2>3. QED
    BY <2>1, <2>2, LaidIs
<1>18. AtPlace(P[12].tokens, Laid(11), Laid(12))
  <2>1. P[12].tokens = <<Blank>>
    BY <1>4, <1>5, <1>6
  <2>2. AtPlace(<<Blank>>, 16, 17)
    <3>1. 16 \in 0 .. 22 /\ 16 + 1 = 17 /\ 16 + 2 = 18
      OBVIOUS
    <3>2. QED
      BY <3>1, PrintedIs, AtPlaceFacts
  <2>3. QED
    BY <2>1, <2>2, LaidIs
<1>19. AtPlace(P[13].tokens, Laid(12), Laid(13))
  <2>1. P[13].tokens = <<Str(Members[3])>>
    BY <1>4, <1>5, <1>6
  <2>2. AtPlace(<<Str(Members[3])>>, 17, 18)
    <3>1. 17 \in 0 .. 22 /\ 17 + 1 = 18 /\ 17 + 2 = 19
      OBVIOUS
    <3>2. QED
      BY <3>1, PrintedIs, AtPlaceFacts
  <2>3. QED
    BY <2>1, <2>2, LaidIs
<1>20. AtPlace(P[14].tokens, Laid(13), Laid(14))
  <2>1. P[14].tokens = <<Mark(":"), Blank>>
    BY <1>4, <1>5, <1>6
  <2>2. AtPlace(<<Mark(":"), Blank>>, 18, 20)
    <3>1. 18 \in 0 .. 22 /\ 18 + 1 = 19 /\ 18 + 2 = 20 /\ 18 < 22
      OBVIOUS
    <3>2. QED
      BY <3>1, PrintedIs, AtPlaceFacts
  <2>3. QED
    BY <2>1, <2>2, LaidIs
<1>21. AtPlace(P[15].tokens, Laid(14), Laid(15))
  <2>1. P[15].tokens = <<Value[3]>>
    BY <1>4, <1>5, <1>6
  <2>2. AtPlace(<<Value[3]>>, 20, 21)
    <3>1. 20 \in 0 .. 22 /\ 20 + 1 = 21 /\ 20 + 2 = 22
      OBVIOUS
    <3>2. QED
      BY <3>1, PrintedIs, AtPlaceFacts
  <2>3. QED
    BY <2>1, <2>2, LaidIs
<1>22. AtPlace(P[16].tokens, Laid(15), Laid(16))
  <2>1. P[16].tokens = <<Blank>>
    BY <1>4, <1>5, <1>6
  <2>2. AtPlace(<<Blank>>, 21, 22)
    <3>1. 21 \in 0 .. 22 /\ 21 + 1 = 22 /\ 21 + 2 = 23
      OBVIOUS
    <3>2. QED
      BY <3>1, PrintedIs, AtPlaceFacts
  <2>3. QED
    BY <2>1, <2>2, LaidIs
<1>23. AtPlace(P[17].tokens, Laid(16), Laid(17))
  <2>1. P[17].tokens = <<Mark("}")>>
    BY <1>2, EndPieces
  <2>2. AtPlace(<<Mark("}")>>, 22, 23)
    <3>1. 22 \in 0 .. 22 /\ 22 + 1 = 23 /\ 22 + 2 = 24
      OBVIOUS
    <3>2. QED
      BY <3>1, PrintedIs, AtPlaceFacts
  <2>3. QED
    BY <2>1, <2>2, LaidIs
<1>24. ASSUME NEW i \in 1 .. 17 PROVE AtPlace(P[i].tokens, Laid(i - 1), Laid(i))
  BY <1>7, <1>8, <1>9, <1>10, <1>11, <1>12, <1>13, <1>14, <1>15, <1>16, <1>17, <1>18, <1>19, <1>20, <1>21, <1>22, <1>23
<1>25. QED
  BY <1>24 DEF P

-----------------------------------------------------------------------------
(* json_format and cJSON_Print keep the invariant.                         *)

\* A list of n items under the root is a tree without gaps.
LEMMA ObjectTree ==
  ASSUME NEW f, NEW n \in Nat, DOMAIN f = {<<>>} \union {<<k>> : k \in 1 .. n},
         \A q \in DOMAIN f : f[q].kind \in {"none", "object", "array", "str", "num", "lit"}
  PROVE  /\ DOMAIN f \subseteq Path
         /\ \A q \in DOMAIN f :
              /\ f[q].kind \in {"none", "object", "array", "str", "num", "lit"}
              /\ q # <<>> => Front(q) \in DOMAIN f
              /\ q # <<>> /\ Last(q) > 1 => Append(Front(q), Last(q) - 1) \in DOMAIN f
<1> DEFINE D == DOMAIN f
           e == <<>>
<1>1. /\ e \in Path
      /\ \A k \in Nat \ {0} : <<k>> \in Path /\ <<k>> # e /\ Front(<<k>>) = e /\ Last(<<k>>) = k
                              /\ Append(e, k) = <<k>>
  BY OneStep
<1>2. D = {e} \union {<<k>> : k \in 1 .. n}
  OBVIOUS
<1> HIDE DEF D, e
<1>3. D \subseteq Path
  BY <1>1, <1>2
<1>4. ASSUME NEW q \in D, q # e
      PROVE  Front(q) \in D /\ (Last(q) > 1 => Append(Front(q), Last(q) - 1) \in D)
  <2>1. PICK k \in 1 .. n : q = <<k>>
    BY <1>2, <1>4
  <2>2. Front(q) = e /\ Last(q) = k
    BY <1>1, <2>1
  <2>3. ASSUME k > 1 PROVE Append(e, k - 1) \in D
    <3>1. k - 1 \in 1 .. n /\ k - 1 \in Nat \ {0}
      BY <2>3
    <3>2. Append(e, k - 1) = <<k - 1>>
      BY <1>1, <3>1
    <3>3. QED
      BY <1>2, <3>1, <3>2
  <2>4. QED
    BY <1>2, <2>2, <2>3
<1>5. QED
  BY <1>3, <1>4 DEF D, e

\* What an object of n members is.
LEMMA ObjectIs ==
  ASSUME NEW n \in Nat, Object(n)
  PROVE  /\ <<>> \in DOMAIN items /\ items # NoItems
         /\ Cardinality(Children(<<>>)) = n
<1>1. <<>> \in DOMAIN items /\ Cardinality(Children(<<>>)) = n
  BY ObjectFacts DEF Object
<1>2. DOMAIN NoItems = {}
  BY DEF NoItems
<1>3. QED
  BY <1>1, <1>2

\* While the text is built, nothing is known of the parser yet.
LEMMA FormatRest ==
  ASSUME IInv, pc \in FormatPlaces, pc' \in FormatPlaces, UNCHANGED <<parser, wire>>
  PROVE  /\ CallsInv' /\ ReadInv' /\ CutInv' /\ WholeInv'
         /\ fate' = "none" /\ depth' = 0 /\ touched' = 0 /\ stack' = <<>>
<1>1. fate' = "none" /\ depth' = 0 /\ touched' = 0 /\ stack' = <<>>
  BY DEF IInv, NumbersInv, PlaceInv, parser, wire
<1>2. CallsInv'
  BY <1>1 DEF CallsInv
<1>3. ReadInv' /\ CutInv' /\ WholeInv'
  BY <1>1 DEF ReadInv, CutInv, WholeInv
<1>4. QED
  BY <1>1, <1>2, <1>3

\* The places where the object is built.
LEMMA Building ==
  ASSUME NEW k \in 1 .. 3
  PROVE  /\ pc = Members[k] => Passed = k - 1 /\ pc \in {"message", "crc_checksum", "flag_last"}
         /\ Members[k] \in {"message", "crc_checksum", "flag_last"}
         /\ pc' = (IF k < Len(Members) THEN Members[k + 1] ELSE "print")
              => Passed' = k /\ pc' \in {"crc_checksum", "flag_last", "print"}
<1>1. /\ Members[1] = "message" /\ Members[2] = "crc_checksum" /\ Members[3] = "flag_last"
      /\ Len(Members) = 3
  BY DEF Members
<1>2. CASE k = 1
  BY <1>1, <1>2 DEF Passed
<1>3. CASE k = 2
  BY <1>1, <1>3 DEF Passed
<1>4. CASE k = 3
  BY <1>1, <1>4 DEF Passed
<1>5. QED
  BY <1>2, <1>3, <1>4

\* The object is created, or not.
LEMMA CreateObjectKeeps ==
  ASSUME IInv, CreateObject
  PROVE  IInv'
<1>1. /\ pc = "create" /\ pc' = "message" /\ items = NoItems
      /\ UNCHANGED <<printer, length, offset, parser, wire>>
  BY DEF CreateObject, IInv, PlaceInv
<1>2. pc \in FormatPlaces /\ pc' \in FormatPlaces
  BY <1>1 DEF FormatPlaces
<1>3. /\ CallsInv' /\ ReadInv' /\ CutInv' /\ WholeInv'
      /\ fate' = "none" /\ depth' = 0 /\ touched' = 0 /\ stack' = <<>>
  BY <1>1, <1>2, FormatRest
<1>4. \/ items' = WithItem(<<>>, Item("object", "", "")) /\ failures' = failures
      \/ failures < MaxFailures /\ failures' = failures + 1 /\ items' = items
  BY DEF CreateObject, OutOfMemory
<1>5. NumbersInv'
  <2>1. failures' \in 0 .. MaxFailures
    <3>1. failures \in 0 .. MaxFailures /\ MaxFailures \in Nat
      BY TextAssumption DEF IInv, NumbersInv, TextAssumption
    <3>2. failures' = failures \/ (failures < MaxFailures /\ failures' = failures + 1)
      BY <1>4
    <3>3. QED
      BY <3>1, <3>2
  <2>2. UNCHANGED <<printer, length, offset, parser, wire>>
    BY <1>1
  <2>3. QED
    BY <1>2, <1>3, <2>1, <2>2 DEF IInv, NumbersInv, printer, parser, wire
<1>6. TreeInv' /\ BuildInv'
  <2>1. CASE failures' = failures + 1 /\ items' = items
    <3>1. failures' # 0
      BY <2>1 DEF IInv, NumbersInv
    <3>2. TreeInv'
      BY <2>1 DEF IInv, TreeInv
    <3>3. NoItems' = NoItems
      BY DEF NoItems
    <3>4. BuildInv'
      BY <1>1, <2>1, <3>1, <3>3 DEF BuildInv
    <3>5. QED
      BY <3>2, <3>4
  <2>2. CASE items' = WithItem(<<>>, Item("object", "", ""))
    <3>1. DOMAIN items = {}
      BY <1>1 DEF NoItems
    <3>2. items' = [q \in {<<>>} |-> Item("object", "", "")]
      BY <2>2, <3>1 DEF WithItem
    <3>3. DOMAIN items' = {<<>>} /\ items'[<<>>].kind = "object"
      BY <3>2 DEF Item
    <3>4. {<<k>> : k \in 1 .. 0} = {} /\ 0 \in Nat
      OBVIOUS
    <3>5. DOMAIN items' = {<<>>} \union {<<k>> : k \in 1 .. 0}
      BY <3>3, <3>4
    <3>6. Object(0)'
      BY <3>3, <3>5 DEF Object
    <3>7. \A q \in DOMAIN items' : items'[q].kind \in {"none", "object", "array", "str", "num", "lit"}
      BY <3>3
    <3>8. TreeInv'
      BY <3>4, <3>5, <3>7, ObjectTree DEF TreeInv
    <3>9. Passed' = 0
      BY <1>1 DEF Passed
    <3>10. Filled(0)'
      BY DEF Filled
    <3>11. BuildInv'
      BY <1>1, <3>4, <3>6, <3>9, <3>10 DEF BuildInv
    <3>12. QED
      BY <3>8, <3>11
  <2>3. QED
    BY <1>4, <2>1, <2>2
<1>7. PlaceInv'
  BY <1>1, <1>3 DEF PlaceInv
<1>8. PrintInv'
  BY <1>1 DEF IInv, PrintInv, BufferFreedOnce, printer
<1>9. TextInv'
  BY <1>1 DEF IInv, TextInv, printer
<1>10. QED
  BY <1>3, <1>5, <1>6, <1>7, <1>8, <1>9 DEF IInv

\* A member is hung behind the ones before it, or not.
LEMMA AddMemberKeeps ==
  ASSUME IInv, NEW k \in DOMAIN Members, AddMember(k)
  PROVE  IInv'
<1>1. k \in 1 .. 3
  BY DEF Members
<1>2. /\ pc = Members[k] /\ pc' = (IF k < Len(Members) THEN Members[k + 1] ELSE "print")
      /\ UNCHANGED <<printer, length, offset, parser, wire>>
  BY DEF AddMember
<1>3. /\ Passed = k - 1 /\ pc \in {"message", "crc_checksum", "flag_last"}
      /\ Passed' = k /\ pc' \in {"crc_checksum", "flag_last", "print"}
  BY <1>1, <1>2, Building
<1>4. pc \in FormatPlaces /\ pc' \in FormatPlaces
  BY <1>3 DEF FormatPlaces
<1>5. /\ CallsInv' /\ ReadInv' /\ CutInv' /\ WholeInv'
      /\ fate' = "none" /\ depth' = 0 /\ touched' = 0 /\ stack' = <<>>
  BY <1>2, <1>4, FormatRest
<1> DEFINE member == Item(Value[k].t, Members[k], Value[k].v)
<1>6. \/ /\ <<>> \in DOMAIN items /\ failures' = failures
         /\ items' = WithItem(<<Cardinality(Children(<<>>)) + 1>>, member)
      \/ <<>> \notin DOMAIN items /\ items' = items /\ failures' = failures
      \/ failures < MaxFailures /\ failures' = failures + 1 /\ items' = items
  BY DEF AddMember, OutOfMemory, tree
<1>7. NumbersInv'
  BY <1>2, <1>4, <1>5, <1>6, TextAssumption DEF IInv, NumbersInv, printer, parser, wire, TextAssumption
<1>8. /\ items = NoItems \/ \E n \in 0 .. k - 1 : Object(n)
      /\ failures = 0 => Object(k - 1) /\ Filled(k - 1)
  BY <1>3 DEF IInv, BuildInv
<1>9. TreeInv' /\ BuildInv'
  <2>1. CASE items' = items /\ (<<>> \in DOMAIN items => failures' = failures + 1)
    <3>1. failures' # 0
      <4>1. failures = 0 => <<>> \in DOMAIN items
        BY <1>1, <1>8, ObjectIs
      <4>2. QED
        BY <1>6, <2>1, <4>1 DEF IInv, NumbersInv
    <3>2. TreeInv'
      BY <2>1 DEF IInv, TreeInv
    <3>3. \A n : Object(n)' <=> Object(n)
      BY <2>1 DEF Object
    <3>4. items' = NoItems' \/ \E n \in 0 .. k : Object(n)'
      <4>1. NoItems' = NoItems /\ 0 .. k - 1 \subseteq 0 .. k
        BY <1>1 DEF NoItems
      <4>2. QED
        BY <1>8, <2>1, <3>3, <4>1
    <3>5. BuildInv'
      BY <1>3, <3>1, <3>4 DEF BuildInv
    <3>6. QED
      BY <3>2, <3>5
  <2>2. CASE /\ <<>> \in DOMAIN items /\ failures' = failures
             /\ items' = WithItem(<<Cardinality(Children(<<>>)) + 1>>, member)
    <3>1. PICK n \in 0 .. k - 1 : Object(n) /\ (failures = 0 => n = k - 1 /\ Filled(n))
      <4>1. items # NoItems
        BY <2>2 DEF NoItems
      <4>2. k - 1 \in 0 .. k - 1
        BY <1>1
      <4>3. QED
        BY <1>8, <4>1, <4>2
    <3>2. n \in Nat /\ n + 1 \in Nat /\ n + 1 \in 0 .. k /\ n + 1 \in 1 .. n + 1
      BY <1>1
    <3>3. items' = WithItem(<<n + 1>>, member)
      BY <2>2, <3>1, <3>2, ObjectIs
    <3> DEFINE new == <<n + 1>>
               D == DOMAIN items
    <3>4. items' = [q \in D \union {new} |-> IF q = new THEN member ELSE items[q]]
      BY <3>3 DEF WithItem
    <3>5. D = {<<>>} \union {<<j>> : j \in 1 .. n}
      BY <3>1 DEF Object
    <3>6. new # <<>> /\ \A j \in 1 .. n : <<j>> # new
      BY <3>2
    <3>7. D \union {new} = {<<>>} \union {<<j>> : j \in 1 .. n + 1}
      <4>1. \A j \in 1 .. n + 1 : j \in 1 .. n \/ j = n + 1
        BY <3>2
      <4>2. \A j \in 1 .. n : j \in 1 .. n + 1
        BY <3>2
      <4>3. QED
        BY <3>2, <3>5, <4>1, <4>2
    <3> HIDE DEF new, D
    <3>8. DOMAIN items' = {<<>>} \union {<<j>> : j \in 1 .. n + 1}
      BY <3>4, <3>7
    <3>9. items'[<<>>] = items[<<>>] /\ items'[new] = member /\ \A j \in 1 .. n : items'[<<j>>] = items[<<j>>]
      BY <3>4, <3>5, <3>6
    <3>10. member \in {Item(Value[j].t, Members[j], Value[j].v) : j \in 1 .. 3}
      BY <1>1
    <3>11. items'[<<>>].kind = "object"
      BY <3>1, <3>9 DEF Object
    <3>12. \A j \in 1 .. n + 1 : items'[<<j>>] \in {Item(Value[i].t, Members[i], Value[i].v) : i \in 1 .. 3}
      <4>1. TAKE j \in 1 .. n + 1
      <4>2. CASE j = n + 1
        BY <3>9, <3>10, <4>2 DEF new
      <4>3. CASE j # n + 1
        <5>1. j \in 1 .. n
          BY <3>2, <4>3
        <5>2. QED
          BY <3>1, <3>9, <5>1 DEF Object
      <4>4. QED
        BY <4>2, <4>3
    <3>13. Object(n + 1)'
      BY <3>8, <3>11, <3>12 DEF Object
    <3>14. \A q \in DOMAIN items' : items'[q].kind \in {"none", "object", "array", "str", "num", "lit"}
      <4>1. TAKE q \in DOMAIN items'
      <4>2. CASE q = <<>>
        BY <3>11, <4>2
      <4>3. CASE q # <<>>
        <5>1. PICK j \in 1 .. n + 1 : q = <<j>>
          BY <3>8, <4>3
        <5>2. PICK i \in 1 .. 3 : items'[q] = Item(Value[i].t, Members[i], Value[i].v)
          BY <3>12, <5>1
        <5>3. items'[q].kind \in {"str", "num"}
          BY <5>2, MemberFacts
        <5>4. QED
          BY <5>3
      <4>4. QED
        BY <4>2, <4>3
    <3>15. TreeInv'
      BY <3>2, <3>8, <3>14, ObjectTree DEF TreeInv
    <3>16. failures' = 0 => n + 1 = k /\ Filled(k)'
      <4>1. SUFFICES ASSUME failures' = 0 PROVE n + 1 = k /\ Filled(k)'
        OBVIOUS
      <4>2. n + 1 = k /\ Filled(n)
        BY <1>1, <2>2, <3>1, <4>1
      <4>3. ASSUME NEW j \in 1 .. k PROVE items'[<<j>>] = Item(Value[j].t, Members[j], Value[j].v)
        <5>1. CASE j = n + 1
          BY <3>9, <4>2, <5>1 DEF new
        <5>2. CASE j # n + 1
          <6>1. j \in 1 .. n
            BY <3>2, <4>2, <5>2
          <6>2. QED
            BY <3>9, <4>2, <6>1 DEF Filled
        <5>3. QED
          BY <5>1, <5>2
      <4>4. QED
        BY <4>2, <4>3 DEF Filled
    <3>17. BuildInv'
      BY <1>3, <3>2, <3>13, <3>16 DEF BuildInv
    <3>18. QED
      BY <3>15, <3>17
  <2>3. QED
    BY <1>6, <2>1, <2>2
<1>10. PlaceInv'
  BY <1>3, <1>5 DEF PlaceInv
<1>11. PrintInv'
  BY <1>2, <1>3 DEF IInv, PrintInv, BufferFreedOnce, printer
<1>12. TextInv'
  BY <1>2, <1>3 DEF IInv, TextInv, printer
<1>13. QED
  BY <1>5, <1>7, <1>9, <1>10, <1>11, <1>12 DEF IInv

\* The pieces are those of the items.
LEMMA PiecesSame ==
  ASSUME items' = items, width' = width
  PROVE  Pieces' = Pieces
<1>1. \A i : ValuePiece(i)' = ValuePiece(i)
  BY DEF ValuePiece, ValueWidth
<1>2. \A i, last : MemberPieces(i, last)' = MemberPieces(i, last)
  BY DEF MemberPieces, ValuePiece, ValueWidth
<1>3. Children(<<>>)' = Children(<<>>)
  BY DEF Children
<1>4. QED
  BY <1>2, <1>3 DEF Pieces, MemberPieces, ValuePiece, ValueWidth

\* While the pieces are printed, there is an object of at most three members.
LEMMA PrintedObject ==
  ASSUME IInv, pc \in {"print", "pieces"}, <<>> \in DOMAIN items
  PROVE  /\ \E n \in 0 .. 3 : Object(n)
         /\ failures = 0 => Object(3) /\ Filled(3)
<1>1. Passed = 3
  BY DEF Passed
<1>2. items # NoItems
  BY DEF NoItems
<1>3. QED
  BY <1>1, <1>2 DEF IInv, BuildInv

\* Nothing more is built or printed once pc is past the pieces.
LEMMA AfterPieces ==
  ASSUME IInv, pc \in FormatPlaces, pc' \in {"fail", "sent", "sender_crashed"},
         UNCHANGED <<parser, wire>>, items' = items \/ items' = NoItems,
         pc' # "fail" => items' = NoItems
  PROVE  /\ TreeInv' /\ CallsInv' /\ PlaceInv' /\ BuildInv' /\ ReadInv' /\ CutInv' /\ WholeInv'
         /\ fate' = "none" /\ depth' = 0 /\ touched' = 0 /\ stack' = <<>> /\ pc' \in FormatPlaces
<1>1. pc' \in FormatPlaces
  BY DEF FormatPlaces
<1>2. /\ CallsInv' /\ ReadInv' /\ CutInv' /\ WholeInv'
      /\ fate' = "none" /\ depth' = 0 /\ touched' = 0 /\ stack' = <<>>
  BY <1>1, FormatRest
<1>3. TreeInv'
  <2>1. CASE items' = items
    BY <2>1 DEF IInv, TreeInv
  <2>2. CASE items' = NoItems
    <3>1. DOMAIN items' = {}
      BY <2>2 DEF NoItems
    <3>2. QED
      BY <3>1 DEF TreeInv
  <2>3. QED
    BY <2>1, <2>2
<1>4. BuildInv'
  BY DEF BuildInv
<1>5. NoItems' = NoItems
  BY DEF NoItems
<1>6. PlaceInv'
  BY <1>2, <1>5 DEF PlaceInv
<1>7. QED
  BY <1>1, <1>2, <1>3, <1>4, <1>6

\* The buffer is there, or printing fails.
LEMMA StartPrintKeeps ==
  ASSUME IInv, StartPrint
  PROVE  IInv'
<1>1. /\ pc = "print" /\ UNCHANGED <<items, text, piece, frees, high, nul, width, offset, parser, wire>>
  BY DEF StartPrint
<1>2. pc' \in {"pieces", "fail"}
  BY DEF StartPrint
<1>3. pc \in FormatPlaces /\ pc' \in FormatPlaces
  BY <1>1, <1>2 DEF FormatPlaces
<1>4. /\ CallsInv' /\ ReadInv' /\ CutInv' /\ WholeInv'
      /\ fate' = "none" /\ depth' = 0 /\ touched' = 0 /\ stack' = <<>>
  BY <1>1, <1>3, FormatRest
<1>5. \/ /\ buffer' = "live" /\ length' = DefaultSize /\ failures' = failures
         /\ pc' = IF <<>> \in DOMAIN items THEN "pieces" ELSE "fail"
      \/ /\ failures < MaxFailures /\ failures' = failures + 1
         /\ pc' = "fail" /\ buffer' = buffer /\ length' = length
  BY DEF StartPrint, OutOfMemory
<1>6. DefaultSize \in Nat \ {0} /\ MaxFailures \in Nat
  BY TextAssumption DEF TextAssumption
<1>7. NumbersInv'
  <2>1. failures' \in 0 .. MaxFailures
    <3>1. failures \in 0 .. MaxFailures
      BY DEF IInv, NumbersInv
    <3>2. QED
      BY <1>5, <1>6, <3>1
  <2>2. length' \in Nat /\ buffer' \in {"none", "live", "null", "returned"}
    BY <1>5, <1>6 DEF IInv, NumbersInv
  <2>3. QED
    BY <1>1, <1>3, <1>4, <2>1, <2>2 DEF IInv, NumbersInv, parser, wire
<1>8. TreeInv'
  BY <1>1 DEF IInv, TreeInv
<1>9. /\ text = <<>> /\ piece = 1 /\ offset = 0 /\ high = 0 /\ nul = 0
      /\ buffer = "none" /\ frees = 0 /\ text \in Seq(Token)
  BY <1>1 DEF IInv, PrintInv, TextInv
<1>10. CASE pc' = "pieces"
  <2>1. buffer' = "live" /\ length' = DefaultSize /\ failures' = failures /\ <<>> \in DOMAIN items
    BY <1>5, <1>10
  <2>2. PICK n \in 0 .. 3 : Object(n)
    BY <1>1, <2>1, PrintedObject
  <2>3. failures = 0 => Object(3) /\ Filled(3)
    BY <1>1, <2>1, PrintedObject
  <2>4. BuildInv'
    <3>1. Passed' = 3
      BY <1>10 DEF Passed
    <3>2. items' # NoItems'
      BY <1>1, <2>1 DEF NoItems
    <3>3. \A m : Object(m)' <=> Object(m)
      BY <1>1 DEF Object
    <3>4. Filled(3)' <=> Filled(3)
      BY <1>1 DEF Filled
    <3>5. QED
      BY <2>1, <2>2, <2>3, <3>1, <3>2, <3>3, <3>4 DEF BuildInv
  <2>5. Pieces' = Pieces
    BY <1>1, PiecesSame
  <2>6. width \in Nat
    BY TextAssumption DEF IInv, NumbersInv, TextAssumption
  <2>7. Len(Pieces) = 5 * n + 2 /\ \A k \in 1 .. 5 * n + 2 : GoodPiece(Pieces[k])
    BY <2>2, <2>6, AllPieces
  <2>8. Ends(Pieces)[0] = 0
    <3>1. 5 * n + 2 \in Nat /\ \A k \in 1 .. 5 * n + 2 : Pieces[k].bytes \in Nat
      BY <2>7 DEF GoodPiece
    <3>2. QED
      BY <2>7, <3>1, EndsFacts
  <2>9. PrintInv'
    <3>1. buffer' = "live" /\ frees' = 0 /\ high' < length'
      BY <1>1, <1>6, <1>9, <2>1
    <3>2. piece' = 1 /\ Len(Pieces') = 5 * n + 2
      BY <1>1, <1>9, <2>5, <2>7
    <3>3. piece' \in 1 .. Len(Pieces') + 1 /\ ~(piece' > Len(Pieces'))
      BY <3>2
    <3>4. offset' = Ends(Pieces')[piece' - 1]
      <4>1. 1 - 1 = 0
        OBVIOUS
      <4>2. QED
        BY <1>1, <1>9, <2>5, <2>8, <3>2, <4>1
    <3>5. QED
      BY <1>10, <3>1, <3>3, <3>4 DEF PrintInv, BufferFreedOnce
  <2>10. TextInv'
    <3>1. text' = <<>> /\ piece' = 1 /\ Len(text') = 0 /\ DOMAIN text' = {}
      BY <1>1, <1>9
    <3>2. Laid(0) = 0 /\ 1 - 1 = 0
      BY LaidIs
    <3>3. text' \in Seq(Token)'
      BY <1>1, <1>9 DEF Token
    <3>4. QED
      BY <1>10, <3>1, <3>2, <3>3 DEF TextInv
  <2>11. PlaceInv'
    BY <1>4, <1>10 DEF PlaceInv
  <2>12. QED
    BY <1>4, <1>7, <1>8, <2>4, <2>9, <2>10, <2>11 DEF IInv
<1>11. CASE pc' = "fail"
  <2>1. BuildInv'
    BY <1>11 DEF BuildInv
  <2>2. PrintInv'
    BY <1>1, <1>5, <1>9, <1>11 DEF PrintInv, BufferFreedOnce
  <2>3. TextInv'
    BY <1>1, <1>11 DEF IInv, TextInv
  <2>4. PlaceInv'
    BY <1>4, <1>11 DEF PlaceInv
  <2>5. QED
    BY <1>4, <1>7, <1>8, <2>1, <2>2, <2>3, <2>4 DEF IInv
<1>12. QED
  BY <1>2, <1>10, <1>11

\* A buffer too small is an end of the printing.
LEMMA NoRoomKeeps ==
  ASSUME IInv, NoRoom
  PROVE  IInv'
<1>1. pc = "pieces" /\ pc' = "fail" /\ UNCHANGED <<tree, printer, length, offset, parser, wire>>
  BY DEF NoRoom
<1>2. pc \in FormatPlaces
  BY <1>1 DEF FormatPlaces
<1>3. /\ TreeInv' /\ CallsInv' /\ PlaceInv' /\ BuildInv' /\ ReadInv' /\ CutInv' /\ WholeInv'
      /\ fate' = "none" /\ depth' = 0 /\ touched' = 0 /\ stack' = <<>> /\ pc' \in FormatPlaces
  BY <1>1, <1>2, AfterPieces DEF tree
<1>4. NumbersInv'
  BY <1>1, <1>3 DEF IInv, NumbersInv, tree, printer, parser, wire
<1>5. PrintInv'
  BY <1>1 DEF IInv, PrintInv, BufferFreedOnce, printer
<1>6. TextInv'
  BY <1>1 DEF IInv, TextInv, printer
<1>7. QED
  BY <1>3, <1>4, <1>5, <1>6 DEF IInv

\* A realloc that fails leaves no buffer.
LEMMA ReallocKeeps ==
  ASSUME IInv, ReallocFails
  PROVE  IInv'
<1>1. /\ pc = "pieces" /\ pc' = "fail" /\ failures < MaxFailures /\ failures' = failures + 1
      /\ frees' = frees + 1 /\ buffer' = "null" /\ length' = 0
      /\ UNCHANGED <<items, text, piece, high, nul, width, offset, parser, wire>>
  BY DEF ReallocFails, OutOfMemory
<1>2. pc \in FormatPlaces
  BY <1>1 DEF FormatPlaces
<1>3. /\ TreeInv' /\ CallsInv' /\ PlaceInv' /\ BuildInv' /\ ReadInv' /\ CutInv' /\ WholeInv'
      /\ fate' = "none" /\ depth' = 0 /\ touched' = 0 /\ stack' = <<>> /\ pc' \in FormatPlaces
  BY <1>1, <1>2, AfterPieces
<1>4. NumbersInv'
  <2>1. failures' \in 0 .. MaxFailures /\ frees' \in Nat /\ length' \in Nat
    BY <1>1, TextAssumption DEF IInv, NumbersInv, TextAssumption
  <2>2. QED
    BY <1>1, <1>3, <2>1 DEF IInv, NumbersInv, parser, wire
<1>5. PrintInv'
  <2>1. frees = 0
    BY <1>1 DEF IInv, PrintInv
  <2>2. frees' = 1
    BY <1>1, <2>1
  <2>3. QED
    BY <1>1, <2>2 DEF PrintInv, BufferFreedOnce
<1>6. TextInv'
  BY <1>1 DEF IInv, TextInv
<1>7. QED
  BY <1>3, <1>4, <1>5, <1>6 DEF IInv

\* The tree and the buffer are freed when printing has failed.
LEMMA FailPrintKeeps ==
  ASSUME IInv, FailPrint
  PROVE  IInv'
<1>1. /\ pc = "fail" /\ pc' = "sender_crashed" /\ items' = NoItems
      /\ frees' = IF buffer = "live" THEN frees + 1 ELSE frees
      /\ UNCHANGED <<failures, text, piece, buffer, high, nul, width, length, offset, parser, wire>>
  BY DEF FailPrint
<1>2. pc \in FormatPlaces
  BY <1>1 DEF FormatPlaces
<1>3. /\ TreeInv' /\ CallsInv' /\ PlaceInv' /\ BuildInv' /\ ReadInv' /\ CutInv' /\ WholeInv'
      /\ fate' = "none" /\ depth' = 0 /\ touched' = 0 /\ stack' = <<>> /\ pc' \in FormatPlaces
  BY <1>1, <1>2, AfterPieces
<1>4. frees = (IF buffer = "null" THEN 1 ELSE 0) /\ buffer \in {"none", "live", "null", "returned"}
  BY <1>1 DEF IInv, PrintInv, NumbersInv
<1>5. frees' = IF buffer \in {"live", "null"} THEN 1 ELSE 0
  BY <1>1, <1>4
<1>6. NumbersInv'
  <2>1. frees' \in Nat
    BY <1>5
  <2>2. QED
    BY <1>1, <1>3, <2>1 DEF IInv, NumbersInv, parser, wire
<1>7. PrintInv'
  BY <1>1, <1>5 DEF PrintInv, BufferFreedOnce
<1>8. TextInv'
  BY <1>1 DEF IInv, TextInv
<1>9. QED
  BY <1>3, <1>6, <1>7, <1>8 DEF IInv

\* The length that ensure finds has room for what it was asked.
LEMMA EnsuredFacts ==
  ASSUME NEW needed \in Nat, offset \in Nat, length \in Nat, Ensured(needed) > 0
  PROVE  Ensured(needed) \in Nat /\ needed + offset + 1 <= Ensured(needed)
<1> DEFINE total == needed + offset + 1
<1>1. total \in Nat /\ IntMax \in Nat
  BY TextAssumption DEF TextAssumption
<1>2. Ensured(needed) = IF offset >= length \/ needed > IntMax THEN 0
                        ELSE IF total <= length THEN length
                        ELSE IF total <= IntMax \div 2 THEN total * 2
                        ELSE IF total <= IntMax THEN IntMax
                        ELSE 0
  BY DEF Ensured
<1> DEFINE e == Ensured(needed)
<1> HIDE DEF total, e
<1>3. e = 0 \/ (total <= length /\ e = length) \/ e = total * 2 \/ (total <= IntMax /\ e = IntMax)
  BY <1>2 DEF e
<1>4. e > 0
  BY DEF e
<1>5. e \in Nat /\ total <= e
  BY <1>1, <1>3, <1>4
<1>6. QED
  BY <1>5 DEF e, total

\* A piece is printed inside the buffer and where the one before ended.
LEMMA PrintPieceKeeps ==
  ASSUME IInv, PrintPiece
  PROVE  IInv'
<1> DEFINE p == Pieces[piece]
           end == offset + p.bytes
<1>1. /\ pc = "pieces" /\ piece <= Len(Pieces) /\ Ensured(p.needed) > 0
      /\ length' = Ensured(p.needed)
      /\ text' = text \o p.tokens
      /\ high' = IF p.ends THEN end ELSE end - 1
      /\ nul' = IF p.ends THEN end ELSE nul
      /\ offset' = IF p.counted THEN end ELSE nul'
      /\ piece' = piece + 1
      /\ UNCHANGED <<pc, tree, buffer, frees, width, parser, wire>>
  BY DEF PrintPiece
<1>2. pc \in FormatPlaces /\ pc' \in FormatPlaces /\ items' = items /\ failures' = failures
  BY <1>1 DEF FormatPlaces, tree
<1>3. /\ CallsInv' /\ ReadInv' /\ CutInv' /\ WholeInv'
      /\ fate' = "none" /\ depth' = 0 /\ touched' = 0 /\ stack' = <<>>
  BY <1>1, <1>2, FormatRest
<1>4. Passed = 3 /\ items # NoItems
  BY <1>1 DEF Passed, IInv, BuildInv
<1>5. PICK n \in 0 .. 3 : Object(n)
  BY <1>1, <1>4 DEF IInv, BuildInv
<1>6. failures = 0 => Object(3) /\ Filled(3)
  BY <1>1, <1>4 DEF IInv, BuildInv
<1>7. width \in Nat
  BY TextAssumption DEF IInv, NumbersInv, TextAssumption
<1> DEFINE L == 5 * n + 2
<1>8. /\ Len(Pieces) = L /\ Pieces[1] = Bracket /\ Pieces[L] = Final
      /\ \A k \in 1 .. L : GoodPiece(Pieces[k])
      /\ \A k \in 1 .. 5 * n + 1 : \A j \in DOMAIN Pieces[k].tokens :
           Pieces[k].tokens[j].t \in {"{", "ws", "str", "num", ":", ","}
  BY <1>5, <1>7, AllPieces
<1>9. L \in Nat /\ L >= 2 /\ 5 * n + 1 = L - 1
  OBVIOUS
<1> HIDE DEF L
<1>10. piece \in 1 .. L /\ piece \in Nat
  <2>1. piece \in 1 .. Len(Pieces) + 1
    BY <1>1 DEF IInv, PrintInv
  <2>2. piece \in 1 .. L + 1 /\ piece <= L
    BY <1>1, <1>8, <2>1
  <2>3. QED
    BY <1>9, <2>2
<1>11. GoodPiece(p)
  BY <1>8, <1>10
<1> HIDE DEF p
<1>12. p.needed \in Nat /\ p.bytes \in Nat
  BY <1>11 DEF GoodPiece
<1>13. offset \in Nat /\ length \in Nat /\ nul \in Nat
  BY DEF IInv, NumbersInv
<1>14. length' \in Nat /\ p.needed + offset + 1 <= length'
  BY <1>1, <1>12, <1>13, EnsuredFacts
<1>15. offset' = end /\ high' \in Nat /\ high' < length' /\ nul' \in Nat /\ (p.ends = TRUE => nul' = end)
  <2>1. CASE p.ends = TRUE /\ p.bytes <= p.needed
    <3>1. high' = end /\ nul' = end
      BY <1>1, <2>1
    <3>2. offset' = end
      BY <1>1, <3>1
    <3> HIDE DEF end
    <3>3. end \in Nat /\ end <= p.needed + offset
      BY <1>12, <1>13, <2>1 DEF end
    <3>4. end < length'
      BY <1>12, <1>13, <1>14, <3>3
    <3>5. QED
      BY <3>1, <3>2, <3>3, <3>4
  <2>2. CASE p.ends = FALSE /\ p.counted = TRUE /\ p.bytes \in 1 .. p.needed + 1
    <3>1. high' = end - 1 /\ nul' = nul /\ offset' = end
      BY <1>1, <2>2
    <3> HIDE DEF end
    <3>2. end - 1 \in Nat /\ end - 1 <= p.needed + offset
      BY <1>12, <1>13, <2>2 DEF end
    <3>3. end - 1 < length'
      BY <1>12, <1>13, <1>14, <3>2
    <3>4. p.ends # TRUE
      BY <2>2
    <3>5. QED
      BY <1>13, <3>1, <3>2, <3>3, <3>4
  <2>3. QED
    BY <1>11, <2>1, <2>2 DEF GoodPiece
<1>16. end \in Nat
  BY <1>12, <1>13
<1>17. NumbersInv'
  <2>1. offset' \in Nat /\ piece' \in Nat
    BY <1>1, <1>10, <1>15, <1>16
  <2>2. QED
    BY <1>1, <1>2, <1>3, <1>14, <1>15, <2>1 DEF IInv, NumbersInv, parser, wire
<1>18. TreeInv'
  BY <1>2 DEF IInv, TreeInv
<1>19. Pieces' = Pieces
  BY <1>1, <1>2, PiecesSame
<1>20. BuildInv'
  <2>1. Passed' = Passed
    BY <1>1 DEF Passed
  <2>2. \A m : Object(m)' <=> Object(m)
    BY <1>2 DEF Object
  <2>3. Filled(3)' <=> Filled(3)
    BY <1>2 DEF Filled
  <2>4. NoItems' = NoItems
    BY DEF NoItems
  <2>5. QED
    BY <1>2, <1>4, <1>5, <1>6, <2>1, <2>2, <2>3, <2>4 DEF BuildInv
<1>21. PrintInv'
  <2>1. Ends(Pieces)[piece] = Ends(Pieces)[piece - 1] + p.bytes
    <3>1. \A k \in 1 .. L : Pieces[k].bytes \in Nat
      BY <1>8 DEF GoodPiece
    <3>2. Ends(Pieces)[piece] = Ends(Pieces)[piece - 1] + Pieces[piece].bytes
      BY <1>8, <1>9, <1>10, <3>1, EndsFacts
    <3>3. QED
      BY <3>2 DEF p
  <2>2. buffer = "live" /\ frees = 0 /\ offset = Ends(Pieces)[piece - 1]
    BY <1>1 DEF IInv, PrintInv
  <2>3. piece' - 1 = piece /\ piece' \in 1 .. Len(Pieces') + 1
    <3>1. Len(Pieces') = L /\ piece' = piece + 1
      BY <1>1, <1>8, <1>19
    <3>2. QED
      BY <1>9, <1>10, <3>1
  <2>4. offset' = Ends(Pieces')[piece' - 1]
    BY <1>15, <1>19, <2>1, <2>2, <2>3
  <2>5. ASSUME piece' > Len(Pieces') PROVE nul' = offset'
    <3>1. piece = L
      <4>1. Len(Pieces') = L /\ piece' = piece + 1
        BY <1>1, <1>8, <1>19
      <4>2. QED
        BY <1>9, <1>10, <2>5, <4>1
    <3>2. p.ends = TRUE
      BY <1>8, <3>1, EndPieces DEF p
    <3>3. QED
      BY <1>15, <3>2
  <2>6. QED
    BY <1>1, <1>15, <2>2, <2>3, <2>4, <2>5 DEF PrintInv, BufferFreedOnce
<1>22. TextInv'
  <2> DEFINE t == p.tokens
             K == {"{", "ws", "str", "num", ":", ","}
  <2>1. t \in Seq(Token) /\ t # <<>> /\ t \in Seq(Printable)
    <3>1. t \in Seq(Printable) /\ t # <<>>
      BY <1>11 DEF GoodPiece
    <3>2. Printable \subseteq Token
      BY DEF Token
    <3> HIDE DEF t
    <3>3. t \in Seq(Token)
      BY <3>1, <3>2
    <3>4. QED
      BY <3>1, <3>3
  <2>2. /\ text \in Seq(Token)
        /\ \A k \in DOMAIN text : text[k].t # "}"
        /\ \A k \in DOMAIN text : text[k].t \in K \/ (text[k] = Mark("}") /\ k = Len(text))
        /\ piece = 1 => text = <<>>
        /\ piece # 1 => text # <<>> /\ text[1] = Mark("{")
        /\ failures = 0 => Len(text) = Laid(piece - 1) /\ \A k \in DOMAIN text : text[k] = Printed[k]
    BY <1>1 DEF IInv, TextInv
  <2>3. \A k \in DOMAIN text : text[k].t \in K
    <3>1. Mark("}").t = "}"
      BY DEF Mark
    <3>2. QED
      BY <2>2, <3>1
  <2>4. /\ piece # L => \A k \in DOMAIN t : t[k].t \in K
        /\ piece = L => t = <<Mark("}")>>
        /\ piece = 1 => t = <<Mark("{"), Blank>>
    <3>1. piece # L => piece \in 1 .. 5 * n + 1
      BY <1>9, <1>10
    <3>2. QED
      BY <1>8, <3>1, EndPieces DEF p
  <2> HIDE DEF t, K
  <2>5. /\ text' \in Seq(Token) /\ Len(text') = Len(text) + Len(t)
        /\ \A k \in 1 .. Len(text) : text'[k] = text[k]
        /\ \A k \in 1 .. Len(t) : text'[Len(text) + k] = t[k]
    <3>1. text' = text \o t
      BY <1>1 DEF t
    <3> DEFINE u == text \o t
    <3>2. /\ u \in Seq(Token) /\ Len(u) = Len(text) + Len(t)
          /\ \A k \in 1 .. Len(text) : u[k] = text[k]
          /\ \A k \in 1 .. Len(t) : u[Len(text) + k] = t[k]
      <4>1. text \in Seq(Token) /\ t \in Seq(Token)
        BY <2>1, <2>2
      <4>2. QED
        BY <4>1, Joined
    <3> HIDE DEF u
    <3>3. text' = u
      BY <3>1 DEF u
    <3>4. QED
      BY <3>2, <3>3
  <2>6. /\ Len(text) \in Nat /\ Len(t) \in Nat /\ Len(t) >= 1 /\ DOMAIN text = 1 .. Len(text) /\ DOMAIN t = 1 .. Len(t)
        /\ DOMAIN text' = 1 .. Len(text')
    <3>1. Len(text) \in Nat /\ DOMAIN text = 1 .. Len(text)
      BY <2>2, LenProperties
    <3>2. Len(t) \in Nat /\ DOMAIN t = 1 .. Len(t) /\ Len(t) # 0
      BY <2>1, LenProperties, EmptySeq
    <3>3. DOMAIN text' = 1 .. Len(text')
      BY <2>5, LenProperties
    <3>4. QED
      BY <3>1, <3>2, <3>3
  <2>7. \A k \in DOMAIN text' : \/ k \in DOMAIN text /\ text'[k] = text[k]
                                \/ \E j \in DOMAIN t : k = Len(text) + j /\ text'[k] = t[j]
    <3>1. TAKE k \in DOMAIN text'
    <3>2. CASE k <= Len(text)
      <4>1. k \in 1 .. Len(text)
        BY <2>5, <2>6, <3>2
      <4>2. QED
        BY <2>5, <2>6, <4>1
    <3>3. CASE k > Len(text)
      <4>1. k - Len(text) \in DOMAIN t /\ k = Len(text) + (k - Len(text))
        BY <2>5, <2>6, <3>3
      <4>2. text'[Len(text) + (k - Len(text))] = t[k - Len(text)]
        BY <2>5, <2>6, <4>1
      <4>3. QED
        BY <4>1, <4>2
    <3>4. QED
      BY <2>5, <2>6, <3>2, <3>3
  <2>8. piece # L => \A k \in DOMAIN text' : text'[k].t \in K
    BY <2>3, <2>4, <2>7
  <2>9. piece = L => \A k \in DOMAIN text' : text'[k].t \in K \/ (text'[k] = Mark("}") /\ k = Len(text'))
    <3>1. SUFFICES ASSUME piece = L, NEW k \in DOMAIN text'
                   PROVE  text'[k].t \in K \/ (text'[k] = Mark("}") /\ k = Len(text'))
      OBVIOUS
    <3>2. t = <<Mark("}")>> /\ Len(t) = 1 /\ DOMAIN t = {1} /\ t[1] = Mark("}")
      <4>1. t = <<Mark("}")>>
        BY <2>4, <3>1
      <4>2. Mark("}") \in Printable
        BY Marks
      <4> DEFINE a == Mark("}")
      <4> HIDE DEF a
      <4>3. a \in Printable
        BY <4>2 DEF a
      <4>4. t = <<a>>
        BY <4>1 DEF a
      <4>5. QED
        BY <4>1, <4>3, <4>4, OneOrTwo DEF a
    <3>3. CASE k \in DOMAIN text /\ text'[k] = text[k]
      BY <2>3, <3>3
    <3>4. CASE \E j \in DOMAIN t : k = Len(text) + j /\ text'[k] = t[j]
      <4>1. k = Len(text) + 1 /\ text'[k] = Mark("}")
        BY <3>2, <3>4
      <4>2. k = Len(text')
        BY <2>5, <3>2, <4>1
      <4>3. QED
        BY <4>1, <4>2
    <3>5. QED
      BY <2>7, <3>3, <3>4
  <2>10. text' # <<>> /\ text'[1] = Mark("{")
    <3>1. text' # <<>>
      <4>1. Len(text') # 0
        BY <2>5, <2>6
      <4>2. QED
        BY <2>5, <4>1, EmptySeq
    <3>2. CASE piece # 1
      <4>1. text # <<>> /\ text[1] = Mark("{")
        BY <2>2, <3>2
      <4>2. Len(text) # 0
        BY <2>2, <4>1, EmptySeq
      <4>3. 1 \in 1 .. Len(text)
        BY <2>6, <4>2
      <4>4. QED
        BY <2>5, <3>1, <4>1, <4>3
    <3>3. CASE piece = 1
      <4>1. Len(text) = 0 /\ t = <<Mark("{"), Blank>>
        BY <2>2, <2>4, <3>3
      <4>2. 1 \in 1 .. Len(t) /\ Len(text) + 1 = 1
        <5>1. Len(text) = 0 /\ Len(t) \in Nat /\ Len(t) >= 1
          BY <2>6, <4>1
        <5>2. QED
          BY <5>1
      <4>3. text'[1] = t[1]
        BY <2>5, <4>2
      <4>4. t[1] = Mark("{")
        BY <4>1
      <4>5. QED
        BY <3>1, <4>3, <4>4
    <3>4. QED
      BY <3>2, <3>3
  <2>11. failures = 0 => Len(text') = Laid(piece) /\ \A k \in DOMAIN text' : text'[k] = Printed[k]
    <3>1. SUFFICES ASSUME failures = 0
                   PROVE  Len(text') = Laid(piece) /\ \A k \in DOMAIN text' : text'[k] = Printed[k]
      OBVIOUS
    <3>2. Object(3) /\ Filled(3) /\ n = 3
      <4>1. Object(3) /\ Filled(3)
        BY <1>6, <3>1
      <4>2. Cardinality(Children(<<>>)) = 3 /\ Cardinality(Children(<<>>)) = n
        BY <1>5, <4>1, ObjectIs
      <4>3. QED
        BY <4>1, <4>2
    <3>3. piece \in 1 .. 17
      BY <1>10, <3>2 DEF L
    <3>4. AtPlace(t, Laid(piece - 1), Laid(piece))
      BY <3>2, <3>3, PiecesPrint DEF t, p
    <3> DEFINE c == Laid(piece - 1)
               d == Laid(piece)
    <3> HIDE DEF c, d
    <3>5. d = c + Len(t) /\ \A k \in DOMAIN t : t[k] = Printed[c + k]
      BY <3>4 DEF AtPlace, c, d
    <3>6. Len(text) = c /\ \A k \in DOMAIN text : text[k] = Printed[k]
      BY <2>2, <3>1 DEF c
    <3>7. Len(text') = d /\ \A k \in DOMAIN text' : text'[k] = Printed[k]
      BY <2>5, <2>7, <3>5, <3>6
    <3>8. QED
      BY <3>7 DEF d
  <2>12. \A k \in DOMAIN text' : \/ text'[k].t \in {"{", "ws", "str", "num", ":", ","}
                                 \/ text'[k] = Mark("}") /\ k = Len(text')
    BY <2>8, <2>9 DEF K
  <2>13. piece' <= Len(Pieces') => \A k \in DOMAIN text' : text'[k].t # "}"
    <3>1. piece' <= Len(Pieces') => piece # L
      <4>1. Len(Pieces') = L /\ piece' = piece + 1
        BY <1>1, <1>8, <1>19
      <4>2. QED
        BY <1>9, <1>10, <4>1
    <3>2. QED
      BY <2>8, <3>1 DEF K
  <2>14. piece' - 1 = piece /\ piece' # 1
    BY <1>1, <1>10
  <2>15. QED
    BY <1>1, <1>2, <2>5, <2>10, <2>11, <2>12, <2>13, <2>14 DEF TextInv
<1>23. PlaceInv'
  BY <1>1, <1>3 DEF PlaceInv
<1>24. QED
  BY <1>3, <1>17, <1>18, <1>20, <1>21, <1>22, <1>23 DEF IInv

\* The buffer is returned with the whole text, or not at all.
LEMMA FinishPrintKeeps ==
  ASSUME IInv, FinishPrint
  PROVE  IInv'
<1>1. /\ pc = "pieces" /\ piece > Len(Pieces)
      /\ UNCHANGED <<text, piece, frees, high, nul, width, offset, parser, wire>>
      /\ \/ /\ buffer' = "returned" /\ length' = offset + 1 /\ pc' = "sent"
            /\ items' = NoItems /\ failures' = failures
         \/ /\ failures < MaxFailures /\ failures' = failures + 1
            /\ pc' = "fail" /\ buffer' = buffer /\ length' = length /\ items' = items
  BY DEF FinishPrint, OutOfMemory
<1>2. pc \in FormatPlaces /\ pc' \in {"fail", "sent"}
  BY <1>1 DEF FormatPlaces
<1>3. /\ TreeInv' /\ CallsInv' /\ PlaceInv' /\ BuildInv' /\ ReadInv' /\ CutInv' /\ WholeInv'
      /\ fate' = "none" /\ depth' = 0 /\ touched' = 0 /\ stack' = <<>> /\ pc' \in FormatPlaces
  <2>1. pc' \in {"fail", "sent", "sender_crashed"} /\ (items' = items \/ items' = NoItems) /\ (pc' # "fail" => items' = NoItems)
    BY <1>1
  <2>2. QED
    BY <1>1, <1>2, <2>1, AfterPieces
<1>4. NumbersInv'
  <2>1. failures' \in 0 .. MaxFailures /\ length' \in Nat /\ buffer' \in {"none", "live", "null", "returned"}
    <3>1. failures \in 0 .. MaxFailures /\ MaxFailures \in Nat /\ offset \in Nat /\ length \in Nat
          /\ buffer \in {"none", "live", "null", "returned"}
      BY TextAssumption DEF IInv, NumbersInv, TextAssumption
    <3>2. QED
      BY <1>1, <3>1
  <2>2. QED
    BY <1>1, <1>3, <2>1 DEF IInv, NumbersInv, parser, wire
<1>5. buffer = "live" /\ frees = 0 /\ nul = offset /\ piece \in 1 .. Len(Pieces) + 1
  BY <1>1 DEF IInv, PrintInv
<1>6. PrintInv'
  BY <1>1, <1>5 DEF PrintInv, BufferFreedOnce
<1>7. Passed = 3 /\ items # NoItems
  BY <1>1 DEF Passed, IInv, BuildInv
<1>8. PICK n \in 0 .. 3 : Object(n)
  BY <1>1, <1>7 DEF IInv, BuildInv
<1>9. width \in Nat
  BY TextAssumption DEF IInv, NumbersInv, TextAssumption
<1>10. Len(Pieces) = 5 * n + 2
  BY <1>8, <1>9, AllPieces
<1>11. piece = 5 * n + 3 /\ piece # 1
  BY <1>1, <1>5, <1>10
<1>12. TextInv'
  <2>1. /\ text \in Seq(Token)
        /\ \A k \in DOMAIN text :
             \/ text[k].t \in {"{", "ws", "str", "num", ":", ","}
             \/ text[k] = Mark("}") /\ k = Len(text)
        /\ text # <<>> /\ text[1] = Mark("{")
        /\ failures = 0 => Len(text) = Laid(piece - 1) /\ \A k \in DOMAIN text : text[k] = Printed[k]
    BY <1>1, <1>11 DEF IInv, TextInv
  <2>2. ASSUME failures = 0 PROVE text = Printed
    <3>1. Object(3)
      BY <1>1, <1>7, <2>2 DEF IInv, BuildInv
    <3>2. n = 3
      <4>1. Cardinality(Children(<<>>)) = 3 /\ Cardinality(Children(<<>>)) = n
        BY <1>8, <3>1, ObjectIs
      <4>2. QED
        BY <4>1
    <3>3. piece - 1 = 17
      BY <1>11, <3>2
    <3>4. Len(text) = 23 /\ \A k \in DOMAIN text : text[k] = Printed[k]
      BY <2>1, <2>2, <3>3, LaidIs
    <3>5. Printed \in Seq(Token) /\ Len(Printed) = 23
      <4>1. DOMAIN Printed = 1 .. 23 /\ Len(Printed) = 23
        BY PrintedIs
      <4>2. DOMAIN text = 1 .. 23
        BY <2>1, <3>4, LenProperties
      <4>3. \A k \in 1 .. 23 : Printed[k] \in Token
        BY <2>1, <3>4, <4>2, ElementOfSeq
      <4>4. Printed = [k \in 1 .. 23 |-> Printed[k]]
        BY <4>1 DEF Printed
      <4> DEFINE P == Printed
      <4> HIDE DEF P
      <4>5. P \in [1 .. 23 -> Token]
        BY <4>3, <4>4 DEF P
      <4>6. P \in Seq(Token)
        <5>1. \E m \in Nat : P \in [1 .. m -> Token]
          <6>1. 23 \in Nat
            OBVIOUS
          <6>2. QED
            BY <4>5, <6>1
        <5>2. PICK m \in Nat : P \in [1 .. m -> Token]
          BY <5>1
        <5>3. QED
          BY <5>2, SeqDef
      <4>7. QED
        BY <4>1, <4>6 DEF P
    <3>6. DOMAIN text = 1 .. Len(text)
      BY <2>1, LenProperties
    <3> DEFINE P == Printed
    <3> HIDE DEF P
    <3>7. P \in Seq(Token) /\ Len(text) = Len(P) /\ \A k \in 1 .. Len(text) : text[k] = P[k]
      BY <3>4, <3>5, <3>6 DEF P
    <3>8. text = P
      BY <2>1, <3>7, SeqEqual
    <3>9. QED
      BY <3>8 DEF P
  <2>3. CASE pc' = "sent"
    BY <1>1, <2>1, <2>2, <2>3 DEF TextInv
  <2>4. CASE pc' = "fail"
    BY <1>1, <2>1, <2>4 DEF TextInv
  <2>5. QED
    BY <1>2, <2>3, <2>4
<1>13. QED
  BY <1>3, <1>4, <1>6, <1>12 DEF IInv

-----------------------------------------------------------------------------
(* The way to the other end keeps the invariant.                           *)

\* What a token is replaced by, and what lies behind a text, are tokens.
LEMMA DamageFacts ==
  ASSUME NEW s \in Damage \union Tails
  PROVE  s \in Seq(Token)
<1>1. s \in Seq(Range(s))
  BY TextAssumption DEF TextAssumption
<1>2. Range(s) \subseteq Token
  BY DEF Token
<1> DEFINE R == Range(s)
<1> HIDE DEF R
<1>3. s \in Seq(R) /\ R \subseteq Token
  BY <1>1, <1>2 DEF R
<1>4. QED
  BY <1>3

\* The parser starts with a text that ends with its only NUL.
LEMMA ReceiveKeeps ==
  ASSUME IInv, pc = "sent", NEW f \in {"whole", "cut", "damaged"}, NEW s \in Seq(Token), Receive(f, s)
  PROVE  /\ NumbersInv' /\ TreeInv' /\ CallsInv' /\ PlaceInv' /\ BuildInv' /\ PrintInv' /\ TextInv' /\ ReadInv'
         /\ fate' = f /\ pc' = "parse" /\ content' = UpToNul(Append(s, NUL)) /\ length' = Len(content')
         /\ failures' = failures
<1>1. /\ fate' = f /\ content' = UpToNul(Append(s, NUL))
      /\ length' = Len(content') /\ offset' = 0 /\ pc' = "parse"
      /\ high' = 0 /\ nul' = 0 /\ width' = 0 /\ frees' = 0 /\ piece' = 1 /\ buffer' = "none"
      /\ text' = <<>>
      /\ UNCHANGED <<tree, parser, packet>>
  BY DEF Receive
<1>2. pc' \in ParsePlaces /\ pc' \notin FormatPlaces
  BY <1>1 DEF ParsePlaces, FormatPlaces
<1> DEFINE c == UpToNul(Append(s, NUL))
<1>3. /\ c \in Seq(Token) /\ c # <<>> /\ Len(c) \in Nat
      /\ \A k \in 1 .. Len(c) : c[k] = NUL <=> k = Len(c)
  BY UpToNulFacts
<1> HIDE DEF c
<1>4. Len(c) > 0 /\ DOMAIN c = 1 .. Len(c)
  BY <1>3, EmptySeq, LenProperties
<1>5. content' = c
  BY <1>1 DEF c
<1>6. depth = 0 /\ touched = 0 /\ stack = <<>> /\ items = NoItems
  BY DEF IInv, PlaceInv, FormatPlaces
<1>7. depth' = 0 /\ touched' = 0 /\ stack' = <<>> /\ items' = NoItems /\ failures' = failures
  BY <1>1, <1>6 DEF parser, tree
<1>8. NumbersInv'
  <2>1. failures \in 0 .. MaxFailures /\ touched \in Nat /\ depth \in 0 .. NestingLimit
    BY DEF IInv, NumbersInv
  <2>2. pc' \in FormatPlaces \union ParsePlaces /\ (fate' = "none" <=> pc' \in FormatPlaces)
    BY <1>1, <1>2
  <2>3. width' \in Widths \union {0} /\ buffer' \in {"none", "live", "null", "returned"}
    BY <1>1
  <2>4. length' \in Nat /\ offset' \in Nat /\ high' \in Nat /\ nul' \in Nat /\ frees' \in Nat /\ piece' \in Nat
    <3>1. length' = Len(c)
      BY <1>1, <1>5
    <3>2. QED
      BY <1>1, <1>3, <3>1
  <2>5. touched' \in Nat /\ failures' \in 0 .. MaxFailures
    BY <1>6, <1>7, <2>1
  <2>6. depth' \in 0 .. NestingLimit
    BY <1>6, <1>7, <2>1
  <2>7. fate' \in {"none", "whole", "cut", "damaged"}
    BY <1>1
  <2>8. QED
    BY <2>2, <2>3, <2>4, <2>5, <2>6, <2>7 DEF NumbersInv
<1>9. TreeInv'
  BY <1>6, <1>7 DEF IInv, TreeInv
<1>10. CallsInv'
  BY <1>7 DEF CallsInv
<1>11. PlaceInv'
  <2>1. NoItems' = NoItems
    BY DEF NoItems
  <2>2. QED
    BY <1>1, <1>2, <1>7, <2>1 DEF PlaceInv
<1>12. BuildInv' /\ PrintInv'
  BY <1>1 DEF BuildInv, PrintInv, BufferFreedOnce
<1>13. TextInv'
  <2>1. text' \in Seq(Token) /\ DOMAIN text' = {}
    BY <1>1
  <2>2. QED
    BY <1>1, <2>1 DEF TextInv
<1>14. ReadInv'
  BY <1>1, <1>3, <1>4, <1>5, <1>7 DEF ReadInv
<1>15. QED
  BY <1>1, <1>7, <1>8, <1>9, <1>10, <1>11, <1>12, <1>13, <1>14

\* A whole packet is received up to its end.
LEMMA ArrivesKeeps ==
  ASSUME IInv, Arrives
  PROVE  IInv'
<1>1. pc = "sent"
  BY DEF Arrives
<1>2. PICK s \in Tails : Receive("whole", text \o s)
  BY DEF Arrives
<1> DEFINE t == text \o s
<1>3. text \in Seq(Token) /\ s \in Seq(Token) /\ (failures = 0 => text = Printed)
  BY <1>1, DamageFacts DEF IInv, TextInv
<1>4. t \in Seq(Token) /\ Len(t) = Len(text) + Len(s) /\ \A k \in 1 .. Len(text) : t[k] = text[k]
  BY <1>3, Joined
<1>5. Receive("whole", t)
  BY <1>2
<1> HIDE DEF t
<1>6. /\ NumbersInv' /\ TreeInv' /\ CallsInv' /\ PlaceInv' /\ BuildInv' /\ PrintInv' /\ TextInv' /\ ReadInv'
      /\ fate' = "whole" /\ pc' = "parse" /\ content' = UpToNul(Append(t, NUL)) /\ length' = Len(content')
      /\ failures' = failures
  BY <1>1, <1>4, <1>5, ReceiveKeeps
<1>7. CutInv'
  BY <1>6 DEF CutInv
<1>8. ASSUME failures = 0
      PROVE  Len(Printed) < length' /\ \A k \in DOMAIN Printed : content'[k] = Printed[k]
  <2> DEFINE P == Printed
  <2>1. text = P /\ Len(P) = 23 /\ DOMAIN P = 1 .. 23
    BY <1>3, <1>8, PrintedIs
  <2>2. \A k \in DOMAIN text : text[k] # NUL
    <3>1. TAKE k \in DOMAIN text
    <3>2. text[k].t \in {"{", "ws", "str", "num", ":", ","} \/ text[k] = Mark("}")
      BY DEF IInv, TextInv
    <3>3. NUL.t = "nul" /\ Mark("}").t = "}"
      BY DEF NUL, Mark
    <3>4. QED
      BY <3>2, <3>3
  <2> HIDE DEF P
  <2>3. Len(t) \in Nat /\ 23 \in 0 .. Len(t) /\ \A k \in 1 .. 23 : t[k] # NUL
    <3>1. Len(s) \in Nat /\ Len(t) \in Nat
      BY <1>3, <1>4, LenProperties
    <3>2. Len(t) = 23 + Len(s)
      BY <1>4, <2>1
    <3>3. 23 \in 0 .. Len(t)
      BY <3>1, <3>2
    <3>4. ASSUME NEW k \in 1 .. 23 PROVE t[k] # NUL
      <4>1. k \in DOMAIN text /\ k \in 1 .. Len(text)
        BY <2>1
      <4>2. t[k] = text[k]
        BY <1>4, <4>1
      <4>3. QED
        BY <2>2, <4>1, <4>2
    <3>5. QED
      BY <3>1, <3>3, <3>4
  <2> DEFINE c == UpToNul(Append(t, NUL))
  <2>4. /\ \A k \in 1 .. Len(c) : c[k] = Append(t, NUL)[k]
        /\ \A m \in 0 .. Len(t) : (\A k \in 1 .. m : t[k] # NUL) => m < Len(c)
        /\ Len(c) \in Nat
    BY <1>4, UpToNulFacts
  <2>5. \A k \in 1 .. Len(t) : Append(t, NUL)[k] = t[k]
    <3>1. NUL \in Token
      BY DEF Token
    <3>2. t \in Seq(Token)
      BY <1>4
    <3>3. QED
      BY <3>1, <3>2, AppendProperties
  <2> HIDE DEF c
  <2>6. 23 < Len(c)
    BY <2>3, <2>4
  <2>7. ASSUME NEW k \in 1 .. 23 PROVE c[k] = P[k]
    <3>1. k \in 1 .. Len(c) /\ k \in 1 .. Len(t) /\ k \in 1 .. Len(text)
      <4>1. Len(c) \in Nat /\ 23 < Len(c)
        BY <2>4, <2>6
      <4>2. Len(t) \in Nat /\ 23 <= Len(t)
        BY <2>3
      <4>3. Len(text) = 23
        BY <2>1
      <4>4. QED
        BY <4>1, <4>2, <4>3
    <3>2. QED
      BY <1>4, <2>1, <2>4, <2>5, <3>1
  <2>8. content' = c /\ length' = Len(c)
    BY <1>6 DEF c
  <2>9. QED
    BY <2>1, <2>6, <2>7, <2>8 DEF P
<1>9. WholeInv'
  BY <1>6, <1>8 DEF WholeInv
<1>10. QED
  BY <1>6, <1>7, <1>9 DEF IInv

\* A text that is cut short closes nothing.
LEMMA IsCutKeeps ==
  ASSUME IInv, IsCut
  PROVE  IInv'
<1>1. pc = "sent"
  BY DEF IsCut
<1>2. PICK k \in DOMAIN text : \E s \in Stump(text[k]) : Receive("cut", SubSeq(text, 1, k - 1) \o s)
  BY DEF IsCut
<1>3. PICK s \in Stump(text[k]) : Receive("cut", SubSeq(text, 1, k - 1) \o s)
  BY <1>2
<1> DEFINE f == SubSeq(text, 1, k - 1)
           t == f \o s
<1>4. /\ text \in Seq(Token) /\ text # <<>> /\ text[1] = Mark("{")
      /\ \A j \in DOMAIN text :
           text[j].t \in {"{", "ws", "str", "num", ":", ","} \/ (text[j] = Mark("}") /\ j = Len(text))
  BY <1>1 DEF IInv, TextInv
<1>5. Len(text) \in Nat /\ DOMAIN text = 1 .. Len(text)
  BY <1>4, LenProperties
<1>6. k \in 1 .. Len(text) /\ k - 1 \in 0 .. Len(text) /\ k - 1 \in Nat
  BY <1>5
<1>7. f \in Seq(Token) /\ Len(f) = k - 1 /\ \A j \in 1 .. k - 1 : f[j] = text[j]
  BY <1>4, <1>6, FirstFacts
<1>8. /\ s = <<>> \/ s = <<Mark("bad")>> \/ s = <<Num("stump")>>
      /\ k = 1 => s = <<>>
  <2>1. text[1].t = "{"
    <3>1. Mark("{").t = "{"
      BY DEF Mark
    <3>2. QED
      BY <1>4, <3>1
  <2>2. QED
    BY <2>1 DEF Stump
<1>9. s \in Seq(Token) /\ \A j \in DOMAIN s : s[j].t \in {"bad", "num"}
  <2>1. Mark("bad") \in Token /\ Num("stump") \in Token /\ Mark("bad").t = "bad" /\ Num("stump").t = "num"
    BY DEF Token, Mark, Num
  <2>2. CASE s = <<>>
    BY <2>2
  <2>3. CASE s = <<Mark("bad")>>
    <3> DEFINE a == Mark("bad")
    <3> HIDE DEF a
    <3>1. s = <<a>> /\ a \in Token /\ a.t = "bad"
      BY <2>1, <2>3 DEF a
    <3>2. QED
      BY <3>1
  <2>4. CASE s = <<Num("stump")>>
    <3> DEFINE a == Num("stump")
    <3> HIDE DEF a
    <3>1. s = <<a>> /\ a \in Token /\ a.t = "num"
      BY <2>1, <2>4 DEF a
    <3>2. QED
      BY <3>1
  <2>5. QED
    BY <1>8, <2>2, <2>3, <2>4
<1> HIDE DEF f
<1>10. /\ t \in Seq(Token) /\ Len(t) = Len(f) + Len(s)
       /\ \A j \in 1 .. Len(f) : t[j] = f[j]
       /\ \A j \in 1 .. Len(s) : t[Len(f) + j] = s[j]
  <2>1. f \in Seq(Token) /\ s \in Seq(Token)
    BY <1>7, <1>9
  <2>2. QED
    BY <2>1, Joined
<1>11. Receive("cut", t)
  BY <1>3 DEF f
<1> HIDE DEF t
<1>12. /\ NumbersInv' /\ TreeInv' /\ CallsInv' /\ PlaceInv' /\ BuildInv' /\ PrintInv' /\ TextInv' /\ ReadInv'
       /\ fate' = "cut" /\ pc' = "parse" /\ content' = UpToNul(Append(t, NUL)) /\ length' = Len(content')
       /\ failures' = failures
  BY <1>1, <1>10, <1>11, ReceiveKeeps
<1>13. WholeInv'
  BY <1>12 DEF WholeInv
<1> DEFINE K == {"{", "ws", "str", "num", ":", ",", "bad", "nul"}
<1>14. Len(s) \in Nat /\ DOMAIN s = 1 .. Len(s) /\ Len(t) \in Nat
  BY <1>9, <1>10, LenProperties
<1>15. \A j \in 1 .. Len(t) : t[j].t \in K
  <2>1. TAKE j \in 1 .. Len(t)
  <2>2. CASE j \in 1 .. k - 1
    <3>1. t[j] = text[j] /\ j \in DOMAIN text /\ j # Len(text)
      BY <1>5, <1>6, <1>7, <1>10, <2>2
    <3>2. QED
      BY <1>4, <3>1
  <2>3. CASE j \notin 1 .. k - 1
    <3>1. j - (k - 1) \in DOMAIN s /\ j = Len(f) + (j - (k - 1))
      <4> DEFINE a == k - 1
                 b == Len(s)
      <4>1. a \in Nat /\ b \in Nat /\ j \in 1 .. (a + b) /\ j \notin 1 .. a /\ Len(f) = a
        BY <1>6, <1>7, <1>10, <1>14, <2>3
      <4> HIDE DEF a, b
      <4>2. j - a \in 1 .. b /\ j = a + (j - a)
        BY <4>1
      <4>3. QED
        BY <1>14, <4>1, <4>2 DEF a, b
    <3>2. t[j] = s[j - (k - 1)]
      BY <1>10, <1>14, <3>1
    <3>3. QED
      BY <1>9, <3>1, <3>2
  <2>4. QED
    BY <2>2, <2>3
<1>16. Len(t) = 0 \/ t[1] = Mark("{")
  <2>1. CASE k = 1
    <3>1. Len(s) = 0 /\ Len(f) = 0
      BY <1>7, <1>8, <2>1
    <3>2. QED
      BY <1>10, <3>1
  <2>2. CASE k # 1
    <3>1. 1 \in 1 .. k - 1
      BY <1>6, <2>2
    <3>2. QED
      BY <1>4, <1>7, <1>10, <3>1
  <2>3. QED
    BY <2>1, <2>2
<1> DEFINE c == UpToNul(Append(t, NUL))
<1>17. /\ \A j \in 1 .. Len(c) : c[j] = Append(t, NUL)[j] /\ (c[j] = NUL <=> j = Len(c))
       /\ Len(c) \in Nat /\ Len(c) <= Len(t) + 1 /\ c # <<>> /\ c \in Seq(Token)
  BY <1>10, UpToNulFacts
<1>18. (\A j \in 1 .. Len(t) : Append(t, NUL)[j] = t[j]) /\ Append(t, NUL)[Len(t) + 1] = NUL
  <2>1. NUL \in Token
    BY DEF Token
  <2>2. QED
    BY <1>10, <2>1, AppendFacts
<1> HIDE DEF c, K
<1>19. Len(c) > 0 /\ DOMAIN c = 1 .. Len(c)
  BY <1>17, EmptySeq, LenProperties
<1>20. NUL.t = "nul" /\ NUL.t \in K
  BY DEF NUL, Mark, K
<1>21. \A j \in DOMAIN c : c[j].t \in K
  <2>1. TAKE j \in DOMAIN c
  <2>2. CASE j \in 1 .. Len(t)
    BY <1>15, <1>17, <1>18, <1>19, <2>2
  <2>3. CASE j \notin 1 .. Len(t)
    <3>1. j = Len(t) + 1
      <4>1. j \in 1 .. Len(c)
        BY <1>19
      <4> DEFINE a == Len(t)
                 b == Len(c)
      <4>2. a \in Nat /\ b \in Nat /\ j \in 1 .. b /\ b <= a + 1 /\ j \notin 1 .. a
        BY <1>14, <1>17, <2>3, <4>1
      <4> HIDE DEF a, b
      <4>3. j = a + 1
        BY <4>2
      <4>4. QED
        BY <4>3 DEF a
    <3>2. QED
      BY <1>17, <1>18, <1>19, <1>20, <3>1
  <2>4. QED
    BY <2>2, <2>3
<1>22. c[1] \in {Mark("{"), NUL}
  <2>1. 1 \in 1 .. Len(c)
    <3> DEFINE b == Len(c)
    <3>1. b \in Nat /\ b > 0
      BY <1>17, <1>19
    <3> HIDE DEF b
    <3>2. 1 \in 1 .. b
      BY <3>1
    <3>3. QED
      BY <3>2 DEF b
  <2>2. CASE Len(t) = 0
    <3>1. c[1] = Append(t, NUL)[1]
      BY <1>17, <2>1
    <3>2. Append(t, NUL)[1] = NUL
      <4>1. Append(t, NUL)[Len(t) + 1] = NUL
        BY <1>18
      <4>2. Len(t) + 1 = 1
        BY <2>2
      <4>3. QED
        BY <4>1, <4>2
    <3>3. QED
      BY <3>1, <3>2
  <2>3. CASE Len(t) # 0
    <3>1. 1 \in 1 .. Len(t)
      BY <1>14, <2>3
    <3>2. QED
      BY <1>16, <1>17, <1>18, <2>1, <2>3, <3>1
  <2>4. QED
    BY <2>2, <2>3
<1>23. CutInv'
  <2>1. content' = c
    BY <1>12 DEF c
  <2>2. \A j \in DOMAIN c : c[j].t \notin {CloseBrace, "]"}
    BY <1>21, Zenon DEF K, CloseBrace
  <2>3. c[1] \in {Mark(OpenBrace), NUL}
    BY <1>22, Zenon DEF OpenBrace
  <2>4. QED
    BY <1>12, <2>1, <2>2, <2>3 DEF CutInv
<1>24. QED
  BY <1>12, <1>13, <1>23 DEF IInv

\* Of a damaged text nothing is known but its end.
LEMMA IsDamagedKeeps ==
  ASSUME IInv, IsDamaged
  PROVE  IInv'
<1>1. pc = "sent"
  BY DEF IsDamaged
<1>2. PICK k \in DOMAIN text, s \in Damage, tail \in Tails : Receive("damaged", ReplaceToken(text, k, s) \o tail)
  BY DEF IsDamaged
<1> DEFINE f == SubSeq(text, 1, k - 1)
           g == SubSeq(text, k + 1, Len(text))
           t == ((f \o s) \o g) \o tail
<1>3. text \in Seq(Token) /\ s \in Seq(Token) /\ tail \in Seq(Token)
  BY DamageFacts DEF IInv, TextInv
<1>4. Len(text) \in Nat /\ DOMAIN text = 1 .. Len(text)
  BY <1>3, LenProperties
<1>5. f \in Seq(Token)
  <2>1. k - 1 \in 0 .. Len(text)
    BY <1>4
  <2>2. QED
    BY <1>3, <2>1, FirstFacts
<1>6. g \in Seq(Token)
  <2>1. \A j \in k + 1 .. Len(text) : text[j] \in Token
    <3>1. \A j \in k + 1 .. Len(text) : j \in 1 .. Len(text)
      BY <1>4
    <3>2. QED
      BY <1>3, <3>1, ElementOfSeq
  <2>2. k + 1 \in Int /\ Len(text) \in Int
    BY <1>4
  <2>3. QED
    BY <2>1, <2>2, SubSeqProperties
<1>7. t \in Seq(Token)
  <2> HIDE DEF f, g
  <2>1. QED
    BY <1>3, <1>5, <1>6
<1>8. Receive("damaged", t)
  BY <1>2 DEF ReplaceToken
<1> HIDE DEF t
<1>9. /\ NumbersInv' /\ TreeInv' /\ CallsInv' /\ PlaceInv' /\ BuildInv' /\ PrintInv' /\ TextInv' /\ ReadInv'
      /\ fate' = "damaged"
  BY <1>1, <1>7, <1>8, ReceiveKeeps
<1>10. CutInv' /\ WholeInv'
  BY <1>9 DEF CutInv, WholeInv
<1>11. QED
  BY <1>9, <1>10 DEF IInv

-----------------------------------------------------------------------------
(* The parser: what its steps have in common.                              *)

\* What is known while the parser is at work.
LEMMA Given ==
  ASSUME IInv, pc \in ParsePlaces
  PROVE  /\ fate # "none" /\ pc \notin FormatPlaces
         /\ length \in Nat /\ length > 0 /\ offset \in Nat /\ touched \in Nat /\ touched < length
         /\ content \in Seq(Token) /\ content[length] = NUL
         /\ depth \in 0 .. NestingLimit /\ failures \in 0 .. MaxFailures
         /\ MaxFailures \in Nat /\ NestingLimit \in Nat \ {0}
<1>1. pc \notin FormatPlaces
  BY DEF ParsePlaces, FormatPlaces
<1>2. fate # "none"
  BY <1>1 DEF IInv, NumbersInv
<1>3. /\ length \in Nat /\ offset \in Nat /\ touched \in Nat
      /\ depth \in 0 .. NestingLimit /\ failures \in 0 .. MaxFailures
  BY DEF IInv, NumbersInv
<1>4. /\ content \in Seq(Token) /\ length = Len(content) /\ touched < length /\ DOMAIN content = 1 .. Len(content)
      /\ \A k \in DOMAIN content : content[k] = NUL <=> k = length
  BY <1>2, LenProperties DEF IInv, ReadInv
<1>5. length > 0
  BY <1>3, <1>4
<1>6. length \in DOMAIN content
  BY <1>3, <1>4, <1>5
<1>7. content[length] = NUL
  BY <1>4, <1>6
<1>8. MaxFailures \in Nat /\ NestingLimit \in Nat \ {0}
  BY TextAssumption DEF TextAssumption
<1>9. QED
  BY <1>1, <1>2, <1>3, <1>4, <1>5, <1>7, <1>8

\* A step of the parser leaves alone what the printer left and what it is given.
ParserSteps ==
  /\ pc \in ParsePlaces /\ pc' \in ParsePlaces
  /\ UNCHANGED <<printer, length, content, fate>>
  /\ failures' = failures \/ (failures < MaxFailures /\ failures' = failures + 1)

\* Such a step keeps what does not depend on the tree.
LEMMA ParseRest ==
  ASSUME IInv, ParserSteps, offset' \in Nat, depth' \in 0 .. NestingLimit, touched' \in Nat,
         touched' < length, pc' = "element" => offset' + 1 < length
  PROVE  NumbersInv' /\ BuildInv' /\ PrintInv' /\ TextInv' /\ ReadInv'
<1>1. pc' \notin FormatPlaces /\ pc \in ParsePlaces /\ pc' \in ParsePlaces
  BY DEF ParserSteps, ParsePlaces, FormatPlaces
<1>2. /\ text' = text /\ piece' = piece /\ buffer' = buffer /\ frees' = frees /\ high' = high /\ nul' = nul
      /\ width' = width /\ length' = length /\ content' = content /\ fate' = fate
  BY DEF ParserSteps, printer
<1>3. failures' \in 0 .. MaxFailures
  <2>1. failures \in 0 .. MaxFailures /\ MaxFailures \in Nat
    BY <1>1, Given
  <2>2. failures' = failures \/ (failures < MaxFailures /\ failures' = failures + 1)
    BY DEF ParserSteps
  <2>3. QED
    BY <2>1, <2>2
<1>4. fate # "none"
  BY <1>1, Given
<1>5. NumbersInv'
  BY <1>1, <1>2, <1>3, <1>4 DEF IInv, NumbersInv
<1>6. pc' \notin {"message", "crc_checksum", "flag_last", "print", "pieces", "create", "fail", "sent", "sender_crashed"}
  BY <1>1 DEF FormatPlaces
<1>7. BuildInv' /\ PrintInv'
  BY <1>6 DEF BuildInv, PrintInv, BufferFreedOnce
<1>8. TextInv'
  BY <1>2, <1>6 DEF IInv, TextInv
<1>9. ReadInv'
  BY <1>2, <1>4 DEF IInv, ReadInv
<1>10. QED
  BY <1>5, <1>7, <1>8, <1>9

\* The parser's highest position stays inside the buffer.
LEMMA LookFacts ==
  ASSUME length \in Nat, length > 0, touched \in Nat, touched < length, NEW o \in Nat
  PROVE  /\ Touch(o) /\ o < length => touched' \in Nat /\ touched' < length
         /\ Look(o) => touched' \in Nat /\ touched' < length
<1>1. CASE o < length
  BY <1>1 DEF Touch, Look
<1>2. CASE ~(o < length)
  BY <1>2 DEF Touch, Look
<1>3. QED
  BY <1>1, <1>2

\* The kinds of an item.
Kinds == {"none", "object", "array", "str", "num", "lit"}

\* Children depend on the domain only.
LEMMA ChildrenSame ==
  ASSUME DOMAIN items' = DOMAIN items
  PROVE  \A q : Children(q)' = Children(q)
BY DEF Children

\* An item that changes its kind leaves the tree as it is.
LEMMA Changed ==
  ASSUME TreeInv, NEW p, NEW i, i.kind \in Kinds, items' = [items EXCEPT ![p] = i]
  PROVE  /\ TreeInv' /\ DOMAIN items' = DOMAIN items
         /\ \A q \in DOMAIN items : items'[q] = IF q = p THEN i ELSE items[q]
<1>1. DOMAIN items' = DOMAIN items /\ \A q \in DOMAIN items : items'[q] = IF q = p THEN i ELSE items[q]
  OBVIOUS
<1>2. \A q \in DOMAIN items : items'[q].kind \in Kinds
  BY <1>1 DEF TreeInv, Kinds
<1>3. TreeInv'
  BY <1>1, <1>2 DEF TreeInv, Kinds
<1>4. QED
  BY <1>1, <1>3

\* Calls that go on over the same items.
LEMMA CallsSame ==
  ASSUME CallsInv, stack' = stack, DOMAIN items' = DOMAIN items
  PROVE  CallsInv'
<1>1. \A q : Children(q)' = Children(q)
  BY ChildrenSame
<1>2. QED
  BY <1>1 DEF CallsInv

\* The call that is innermost.
LEMMA LastCall ==
  ASSUME CallsInv, TreeInv, stack # <<>>
  PROVE  /\ Last(stack) = stack[Len(stack)] /\ Last(stack) \in Call
         /\ Len(stack) \in Nat /\ Len(stack) >= 1 /\ Len(stack) \in DOMAIN stack /\ DOMAIN stack = 1 .. Len(stack)
         /\ Last(stack).path \in Path /\ Last(stack).path \in DOMAIN items
         /\ Len(Last(stack).path) = Len(stack) - 1
         /\ Last(stack).n \in Nat /\ Last(stack).kind \in {"object", "array"}
         /\ Children(Last(stack).path) = {Append(Last(stack).path, i) : i \in 1 .. Last(stack).n}
<1>1. stack \in Seq(Call)
  BY DEF CallsInv
<1>2. /\ Last(stack) = stack[Len(stack)] /\ Last(stack) \in Call /\ Len(stack) \in Nat /\ Len(stack) >= 1
  BY <1>1, FrontFacts
<1>3. DOMAIN stack = 1 .. Len(stack)
  BY <1>1, LenProperties
<1>4. Len(stack) \in DOMAIN stack
  BY <1>2, <1>3
<1>5. /\ stack[Len(stack)].path \in DOMAIN items /\ Len(stack[Len(stack)].path) = Len(stack) - 1
      /\ Children(stack[Len(stack)].path) = {Append(stack[Len(stack)].path, i) : i \in 1 .. stack[Len(stack)].n}
  BY <1>4 DEF CallsInv
<1>6. Last(stack).path \in Path /\ Last(stack).n \in Nat /\ Last(stack).kind \in {"object", "array"}
  BY <1>2 DEF Call
<1>7. QED
  BY <1>2, <1>3, <1>4, <1>5, <1>6

\* The item parse_value works on is as deep as there are calls.
LEMMA HereIs ==
  ASSUME CallsInv, TreeInv
  PROVE  /\ stack = <<>> => Here = <<>>
         /\ stack # <<>> => Here = Append(Last(stack).path, Last(stack).n)
         /\ Here \in DOMAIN items => Here \in Path /\ Len(Here) = Len(stack)
<1>1. (stack = <<>> => Here = <<>>) /\ (stack # <<>> => Here = Append(Last(stack).path, Last(stack).n))
  BY DEF Here
<1>2. ASSUME Here \in DOMAIN items
      PROVE  Here \in Path /\ Len(Here) = Len(stack)
  <2>1. Here \in Path
    BY <1>2 DEF TreeInv
  <2>2. CASE stack = <<>>
    <3>1. Len(stack) = 0 /\ Len(Here) = 0
      BY <1>1, <2>2
    <3>2. QED
      BY <2>1, <3>1
  <2>3. CASE stack # <<>>
    <3> DEFINE p == Last(stack).path
               n == Last(stack).n
               l == Len(stack)
    <3>1. p \in Seq(Nat) /\ n \in Nat /\ l \in Nat /\ Len(p) = l - 1
      <4>1. p \in Seq(Nat \ {0})
        BY <2>3, LastCall DEF Path
      <4>2. p \in Seq(Nat)
        <5> HIDE DEF p
        <5>1. QED
          BY <4>1
      <4>3. QED
        BY <2>3, <4>2, LastCall
    <3>2. Here = Append(p, n)
      BY <1>1, <2>3
    <3> HIDE DEF p, n, l
    <3>3. Len(Here) = Len(p) + 1
      BY <3>1, <3>2, AppendFacts
    <3>4. Len(Here) = l
      BY <3>1, <3>3
    <3>5. QED
      BY <2>1, <3>4 DEF l
  <2>4. QED
    BY <2>2, <2>3
<1>3. QED
  BY <1>1, <1>2

-----------------------------------------------------------------------------
(* What the steps of the parser do to the tree and to the calls.           *)

\* The children of an item, by their fronts.
LEMMA ChildrenAre ==
  ASSUME TreeInv, NEW p \in Path
  PROVE  Children(p) = {q \in DOMAIN items : q # <<>> /\ Front(q) = p}
<1>1. \A q \in DOMAIN items : q \in Path
  BY DEF TreeInv
<1>2. \A q \in DOMAIN items : Len(q) = Len(p) + 1 /\ IsPrefix(p, q) <=> q # <<>> /\ Front(q) = p
  BY <1>1, ChildIs DEF Path
<1>3. QED
  BY <1>2 DEF Children

\* An item of a path is a step longer than what it hangs below.
LEMMA StepFacts ==
  ASSUME NEW p \in Path, NEW n \in Nat \ {0}
  PROVE  /\ Append(p, n) \in Path /\ Append(p, n) # <<>> /\ Front(Append(p, n)) = p /\ Last(Append(p, n)) = n
         /\ Len(Append(p, n)) = Len(p) + 1 /\ Len(p) \in Nat
<1>1. p \in Seq(Nat \ {0})
  BY DEF Path
<1>2. QED
  BY <1>1, AppendFacts, LenProperties DEF Path

\* An item hung behind the last one is new, nothing hangs below it, and the tree
\* and the calls stay as they should be.
LEMMA HangKeeps ==
  ASSUME TreeInv, CallsInv, stack # <<>>, NEW key, Hang(key)
  PROVE  LET new == Append(Last(stack).path, Last(stack).n + 1)
         IN  /\ TreeInv' /\ CallsInv' /\ Here' = new /\ Len(stack') = Len(stack) /\ stack' # <<>>
             /\ new \notin DOMAIN items /\ DOMAIN items' = DOMAIN items \union {new}
             /\ Here' \in DOMAIN items' /\ Children(Here)' = {}
             /\ items'[new] = Item("none", key, "") /\ \A q \in DOMAIN items : items'[q] = items[q]
             /\ stack' \in Seq(Call)
             /\ stack'[Len(stack)] = [path |-> Last(stack).path, kind |-> Last(stack).kind, n |-> Last(stack).n + 1]
<1> PICK f : f = Last(stack)
  OBVIOUS
<1> PICK p : p = f.path
  OBVIOUS
<1> PICK n : n = f.n
  OBVIOUS
<1> PICK new : new = Append(p, n + 1)
  OBVIOUS
<1> PICK l : l = Len(stack)
  OBVIOUS
<1> PICK D : D = DOMAIN items
  OBVIOUS
<1>0. f = Last(stack) /\ p = f.path /\ n = f.n /\ new = Append(p, n + 1) /\ l = Len(stack) /\ D = DOMAIN items
  OBVIOUS
<1>1. /\ f = stack[l] /\ f \in Call /\ l \in Nat /\ l >= 1 /\ l \in DOMAIN stack /\ DOMAIN stack = 1 .. l
      /\ p \in Path /\ p \in D /\ Len(p) = l - 1 /\ n \in Nat /\ f.kind \in {"object", "array"}
      /\ Children(p) = {Append(p, i) : i \in 1 .. n}
  BY <1>0, LastCall
<1>2. n + 1 \in Nat \ {0}
  BY <1>1
<1>3. new \in Path /\ new # <<>> /\ Front(new) = p /\ Last(new) = n + 1
  <2>1. p \in Path
    BY <1>1
  <2>2. new = Append(p, n + 1)
    BY <1>0
  <2>3. /\ Append(p, n + 1) \in Path /\ Append(p, n + 1) # <<>>
        /\ Front(Append(p, n + 1)) = p /\ Last(Append(p, n + 1)) = n + 1
    <3> PICK j : j = n + 1
      OBVIOUS
    <3>1. j \in Nat \ {0}
      BY <1>2
    <3>2. /\ Append(p, j) \in Path /\ Append(p, j) # <<>>
          /\ Front(Append(p, j)) = p /\ Last(Append(p, j)) = j
      BY <2>1, <3>1, StepFacts
    <3>3. QED
      BY <3>2
  <2>4. QED
    BY <2>2, <2>3
<1>4. items' = [q \in D \union {new} |-> IF q = new THEN Item("none", key, "") ELSE items[q]]
  BY <1>0 DEF Hang, WithItem
<1>5. stack' = [stack EXCEPT ![l].n = n + 1]
  <2>1. stack' = [stack EXCEPT ![Len(stack)].n = @ + 1]
    BY <1>0 DEF Hang
  <2>2. stack[Len(stack)].n = n
    BY <1>0, <1>1
  <2>3. QED
    BY <1>0, <2>1, <2>2
<1>6. Children(p) = {q \in D : q # <<>> /\ Front(q) = p}
  BY <1>0, <1>1, ChildrenAre
<1>7. \A i \in 1 .. n : Append(p, i) # new
  <2>1. TAKE i \in 1 .. n
  <2>2. i \in Nat \ {0} /\ i # n + 1
    BY <1>1
  <2>3. Last(Append(p, i)) = i
    BY <1>1, <2>2, StepFacts
  <2>4. QED
    BY <1>3, <2>2, <2>3
<1>8. new \notin D
  <2>1. new \notin Children(p)
    BY <1>1, <1>7
  <2>2. QED
    BY <1>3, <1>6, <2>1
<1>9. D \subseteq Path /\ \A q \in D :
        /\ q # <<>> => Front(q) \in D
        /\ q # <<>> /\ Last(q) > 1 => Append(Front(q), Last(q) - 1) \in D
  BY <1>0 DEF TreeInv
<1> DEFINE E == D \union {new}
<1>10. DOMAIN items' = E /\ items'[new] = Item("none", key, "") /\ \A q \in D : items'[q] = items[q]
  BY <1>4, <1>8
<1>11. n >= 1 => Append(p, n) \in D
  <2>1. n >= 1 => n \in 1 .. n
    BY <1>1
  <2>2. Children(p) \subseteq D
    BY <1>6
  <2>3. QED
    BY <1>1, <2>1, <2>2
<1>12. E \subseteq Path /\ \A q \in E :
        /\ q # <<>> => Front(q) \in E
        /\ q # <<>> /\ Last(q) > 1 => Append(Front(q), Last(q) - 1) \in E
  <2>1. E \subseteq Path
    BY <1>3, <1>9
  <2>2. ASSUME NEW q \in E, q # <<>>
        PROVE  Front(q) \in E /\ (Last(q) > 1 => Append(Front(q), Last(q) - 1) \in E)
    <3>1. CASE q = new
      <4>1. Front(q) = p /\ Last(q) = n + 1
        BY <1>3, <3>1
      <4>2. Last(q) > 1 => n >= 1 /\ Last(q) - 1 = n
        <5>1. n \in Nat
          BY <1>1
        <5>2. QED
          BY <4>1, <5>1
      <4>3. QED
        BY <1>1, <1>11, <4>1, <4>2
    <3>2. CASE q # new
      <4>1. q \in D
        BY <3>2
      <4>2. QED
        BY <1>9, <2>2, <4>1
    <3>3. QED
      BY <3>1, <3>2
  <2>3. QED
    BY <2>1, <2>2
<1>13. TreeInv'
  <2>1. \A q \in E : items'[q].kind \in {"none", "object", "array", "str", "num", "lit"}
    <3>1. TAKE q \in E
    <3>2. CASE q = new
      <4>1. Item("none", key, "").kind = "none"
        BY DEF Item
      <4>2. QED
        BY <1>10, <3>2, <4>1
    <3>3. CASE q # new
      <4>1. q \in D /\ items'[q] = items[q]
        BY <1>10, <3>3
      <4>2. QED
        BY <1>0, <4>1 DEF TreeInv
    <3>4. QED
      BY <3>2, <3>3
  <2>2. QED
    BY <1>10, <1>12, <2>1 DEF TreeInv
<1>14. \A q \in Path : Children(q)' = {c \in E : c # <<>> /\ Front(c) = q}
  <2>1. TAKE q \in Path
  <2>2. \A c \in E : Len(c) = Len(q) + 1 /\ IsPrefix(q, c) <=> c # <<>> /\ Front(c) = q
    BY <1>12, ChildIs DEF Path
  <2>3. Children(q)' = {c \in E : Len(c) = Len(q) + 1 /\ IsPrefix(q, c)}
    BY <1>10 DEF Children
  <2>4. QED
    BY <2>2, <2>3
<1>15. \A q \in Path : Children(q) = {c \in D : c # <<>> /\ Front(c) = q}
  BY <1>0, ChildrenAre
<1>16. \A q \in Path : q # p => Children(q)' = Children(q)
  <2>1. SUFFICES ASSUME NEW q \in Path, q # p PROVE Children(q)' = Children(q)
    OBVIOUS
  <2>2. {c \in E : c # <<>> /\ Front(c) = q} = {c \in D : c # <<>> /\ Front(c) = q}
    BY <1>3, <2>1
  <2>3. QED
    BY <1>14, <1>15, <2>2
<1>17. Children(p)' = Children(p) \union {new}
  <2>1. {c \in E : c # <<>> /\ Front(c) = p} = {c \in D : c # <<>> /\ Front(c) = p} \union {new}
    BY <1>3
  <2>2. QED
    BY <1>1, <1>14, <1>15, <2>1
<1>18. Children(new)' = {}
  <2>1. \A c \in E : c # <<>> => Front(c) # new
    <3>1. TAKE c \in E
    <3>2. new # p
      BY <1>1, <1>8
    <3>3. QED
      BY <1>3, <1>8, <1>9, <3>2
  <2>2. QED
    BY <1>3, <1>14, <2>1
<1>19. /\ stack' \in Seq(Call) /\ Len(stack') = l /\ DOMAIN stack' = 1 .. l
       /\ stack'[l] = [path |-> p, kind |-> f.kind, n |-> n + 1]
       /\ \A k \in 1 .. l : k # l => stack'[k] = stack[k]
  <2>1. stack \in Seq(Call)
    BY DEF CallsInv
  <2>2. stack[l] = [path |-> p, kind |-> f.kind, n |-> n]
    BY <1>0, <1>1 DEF Call
  <2> DEFINE g == [path |-> p, kind |-> f.kind, n |-> n + 1]
  <2>3. g \in Call
    BY <1>1, <1>2 DEF Call
  <2>4. [stack[l] EXCEPT !.n = n + 1] = g
    BY <2>2
  <2>5. stack' = [stack EXCEPT ![l] = g]
    BY <1>5, <2>4
  <2> HIDE DEF g
  <2>6. stack' \in Seq(Call) /\ Len(stack') = Len(stack)
    BY <1>0, <1>1, <2>1, <2>3, <2>5, ExceptSeq
  <2>7. DOMAIN stack' = 1 .. l
    BY <1>1, <2>5
  <2>8. stack'[l] = g /\ \A k \in 1 .. l : k # l => stack'[k] = stack[k]
    BY <1>1, <2>5
  <2>9. QED
    BY <1>0, <2>6, <2>7, <2>8 DEF g
<1>20. CallsInv'
  <2>1. ASSUME NEW k \in 1 .. l
        PROVE  /\ stack'[k].path \in DOMAIN items' /\ Len(stack'[k].path) = k - 1
               /\ Children(stack[k].path)' = {Append(stack'[k].path, i) : i \in 1 .. stack'[k].n}
               /\ k > 1 => stack'[k].path = Append(stack'[k - 1].path, stack'[k - 1].n)
    <3>1. stack'[k].path = stack[k].path
      BY <1>0, <1>1, <1>19
    <3>2. /\ stack[k].path \in D /\ Len(stack[k].path) = k - 1
          /\ Children(stack[k].path) = {Append(stack[k].path, i) : i \in 1 .. stack[k].n}
          /\ k > 1 => stack[k].path = Append(stack[k - 1].path, stack[k - 1].n)
      BY <1>0, <1>1 DEF CallsInv
    <3>3. k > 1 => k - 1 \in 1 .. l /\ k - 1 # l
      BY <1>1
    <3>4. k > 1 => stack'[k].path = Append(stack'[k - 1].path, stack'[k - 1].n)
      BY <1>19, <3>1, <3>2, <3>3
    <3>5. Children(stack[k].path)' = {Append(stack'[k].path, i) : i \in 1 .. stack'[k].n}
      <4>1. CASE k = l
        <5>1. stack'[k].path = p /\ stack'[k].n = n + 1
          BY <1>19, <4>1
        <5>2. 1 .. n + 1 = 1 .. n \union {n + 1}
          BY <1>1
        <5>3. {Append(p, i) : i \in 1 .. n + 1} = {Append(p, i) : i \in 1 .. n} \union {new}
          BY <1>0, <5>2
        <5>4. Children(p)' = {Append(p, i) : i \in 1 .. n + 1}
          BY <1>1, <1>17, <5>3
        <5>5. Children(stack[k].path)' = Children(p)'
          BY <5>1 DEF Children
        <5>6. QED
          BY <5>1, <5>4, <5>5
      <4>2. CASE k # l
        <5>1. stack'[k] = stack[k]
          BY <1>19, <4>2
        <5>2. stack[k].path # p
          BY <1>1, <3>2, <4>2
        <5>3. stack[k].path \in Path
          BY <1>9, <3>2
        <5>4. PICK q : q = stack[k].path
          OBVIOUS
        <5>5. Children(q)' = Children(q)
          BY <1>16, <5>2, <5>3, <5>4
        <5>6. Children(stack[k].path)' = Children(q)' /\ Children(stack[k].path) = Children(q)
          BY <5>1, <5>4 DEF Children
        <5>7. QED
          BY <3>2, <5>1, <5>5, <5>6
      <4>3. QED
        BY <4>1, <4>2
    <3>6. stack[k].path \in DOMAIN items'
      BY <1>10, <3>2
    <3>7. QED
      BY <3>1, <3>2, <3>4, <3>5, <3>6
  <2>2. QED
    <3>1. \A k \in DOMAIN stack' :
            /\ stack'[k].path \in DOMAIN items' /\ Len(stack'[k].path) = k - 1
            /\ Children(stack[k].path)' = {Append(stack'[k].path, i) : i \in 1 .. stack'[k].n}
            /\ k > 1 => stack'[k].path = Append(stack'[k - 1].path, stack'[k - 1].n)
      BY <1>19, <2>1
    <3>2. QED
      BY <1>19, <3>1 DEF CallsInv
<1>21. stack' # <<>>
  BY <1>1, <1>19
<1>22. Here' = new
  <2>1. stack' \in Seq(Call) /\ stack' # <<>>
    BY <1>19, <1>21
  <2>2. Last(stack') = stack'[l]
    <3>1. Last(stack') = stack'[Len(stack')]
      BY <2>1, FrontFacts
    <3>2. QED
      BY <1>19, <3>1
  <2>3. Here' = Append(stack'[l].path, stack'[l].n)
    BY <1>21, <2>2 DEF Here
  <2>4. QED
    BY <1>0, <1>19, <2>3
<1>23. Here' \in DOMAIN items' /\ Children(Here)' = {}
  <2>1. Here' \in DOMAIN items'
    BY <1>10, <1>22
  <2>2. Children(Here)' = {}
    BY <1>18, <1>22 DEF Children
  <2>3. QED
    BY <2>1, <2>2
<1>24. QED
  BY <1>0, <1>5, <1>8, <1>10, <1>13, <1>19, <1>20, <1>21, <1>22, <1>23

\* A call for the item at hand goes one deeper, and has no children yet.
LEMMA PushKeeps ==
  ASSUME TreeInv, CallsInv, Here \in DOMAIN items, Children(Here) = {}, NEW kind \in {"object", "array"},
         stack' = Append(stack, [path |-> Here, kind |-> kind, n |-> 0]), items' = items
  PROVE  /\ TreeInv' /\ CallsInv' /\ Len(stack') = Len(stack) + 1 /\ stack' # <<>>
<1> PICK p : p = Here
  OBVIOUS
<1> PICK l : l = Len(stack)
  OBVIOUS
<1> PICK g : g = [path |-> Here, kind |-> kind, n |-> 0]
  OBVIOUS
<1>0. p = Here /\ l = Len(stack) /\ g = [path |-> p, kind |-> kind, n |-> 0]
  OBVIOUS
<1>1. p \in Path /\ Len(p) = l /\ p \in DOMAIN items
  BY <1>0, HereIs
<1>2. stack \in Seq(Call) /\ DOMAIN stack = 1 .. l /\ l \in Nat
  BY <1>0, LenProperties DEF CallsInv
<1>3. g \in Call /\ g.path = p /\ g.n = 0
  BY <1>0, <1>1 DEF Call
<1>4. stack' = Append(stack, g)
  OBVIOUS
<1>5. /\ stack' \in Seq(Call) /\ stack' # <<>> /\ Len(stack') = l + 1
      /\ \A k \in 1 .. l : stack'[k] = stack[k]
      /\ stack'[l + 1] = g
  BY <1>0, <1>2, <1>3, <1>4, AppendFacts
<1>6. DOMAIN stack' = 1 .. l + 1
  BY <1>5, LenProperties
<1>7. TreeInv'
  BY DEF TreeInv
<1>8. \A q : Children(q)' = Children(q)
  BY ChildrenSame
<1>9. Children(p) = {}
  BY <1>0
<1>10. ASSUME NEW k \in 1 .. l + 1
       PROVE  /\ stack'[k].path \in DOMAIN items /\ Len(stack'[k].path) = k - 1
              /\ Children(stack'[k].path) = {Append(stack'[k].path, i) : i \in 1 .. stack'[k].n}
              /\ k > 1 => stack'[k].path = Append(stack'[k - 1].path, stack'[k - 1].n)
  <2>1. CASE k = l + 1
    <3>1. stack'[k].path = p /\ stack'[k].n = 0
      BY <1>3, <1>5, <2>1
    <3>2. 1 .. 0 = {} /\ l + 1 - 1 = l
      BY <1>2
    <3>3. Children(stack'[k].path) = {Append(stack'[k].path, i) : i \in 1 .. stack'[k].n}
      BY <1>9, <3>1, <3>2
    <3>4. ASSUME k > 1
          PROVE  p = Append(stack'[k - 1].path, stack'[k - 1].n)
      <4>1. l # 0 /\ k - 1 = l /\ l \in 1 .. l
        BY <1>2, <2>1, <3>4
      <4>2. stack # <<>>
        BY <1>0, <4>1
      <4>3. p = Append(Last(stack).path, Last(stack).n)
        BY <1>0, <4>2 DEF Here
      <4>4. Last(stack) = stack[l]
        BY <1>0, <1>2, <4>2, FrontFacts
      <4>5. stack'[k - 1] = stack[l]
        BY <1>5, <4>1
      <4>6. QED
        BY <4>3, <4>4, <4>5
    <3>5. QED
      BY <1>1, <2>1, <3>1, <3>2, <3>3, <3>4
  <2>2. CASE k # l + 1
    <3>1. k \in 1 .. l /\ (k > 1 => k - 1 \in 1 .. l)
      BY <1>2, <2>2
    <3>2. /\ stack[k].path \in DOMAIN items /\ Len(stack[k].path) = k - 1
          /\ Children(stack[k].path) = {Append(stack[k].path, i) : i \in 1 .. stack[k].n}
          /\ k > 1 => stack[k].path = Append(stack[k - 1].path, stack[k - 1].n)
      BY <1>2, <3>1 DEF CallsInv
    <3>3. stack'[k] = stack[k] /\ (k > 1 => stack'[k - 1] = stack[k - 1])
      BY <1>5, <3>1
    <3>4. QED
      BY <3>2, <3>3
  <2>3. QED
    BY <2>1, <2>2
<1>11. CallsInv'
  <2>1. \A k \in DOMAIN stack' :
          /\ stack'[k].path \in DOMAIN items' /\ Len(stack'[k].path) = k - 1
          /\ Children(stack[k].path)' = {Append(stack'[k].path, i) : i \in 1 .. stack'[k].n}
          /\ k > 1 => stack'[k].path = Append(stack'[k - 1].path, stack'[k - 1].n)
    <3>1. TAKE k \in DOMAIN stack'
    <3>2. Children(stack[k].path)' = Children(stack'[k].path)
      BY DEF Children
    <3>3. k \in 1 .. l + 1
      BY <1>6
    <3>4. QED
      BY <1>10, <3>2, <3>3
  <2>2. QED
    BY <1>5, <2>1 DEF CallsInv
<1>12. QED
  BY <1>0, <1>5, <1>7, <1>11

\* The innermost call returns.
LEMMA PopKeeps ==
  ASSUME TreeInv, CallsInv, stack # <<>>, stack' = Front(stack), DOMAIN items' = DOMAIN items
  PROVE  CallsInv' /\ Len(stack') = Len(stack) - 1
<1> PICK l : l = Len(stack)
  OBVIOUS
<1>1. /\ stack' \in Seq(Call) /\ l \in Nat /\ l >= 1 /\ Len(stack') = l - 1 /\ DOMAIN stack = 1 .. l
      /\ \A k \in 1 .. l - 1 : stack'[k] = stack[k]
  <2>1. stack \in Seq(Call)
    BY DEF CallsInv
  <2>2. QED
    BY <2>1, FrontFacts, LenProperties
<1>2. DOMAIN stack' = 1 .. l - 1
  BY <1>1, LenProperties
<1>3. \A q : Children(q)' = Children(q)
  BY ChildrenSame
<1>4. \A k \in DOMAIN stack' :
        /\ stack'[k].path \in DOMAIN items' /\ Len(stack'[k].path) = k - 1
        /\ Children(stack[k].path)' = {Append(stack'[k].path, i) : i \in 1 .. stack'[k].n}
        /\ k > 1 => stack'[k].path = Append(stack'[k - 1].path, stack'[k - 1].n)
  <2>1. TAKE k \in DOMAIN stack'
  <2>2. k \in 1 .. l /\ k \in 1 .. l - 1 /\ (k > 1 => k - 1 \in 1 .. l - 1)
    BY <1>1, <1>2
  <2>3. stack'[k] = stack[k] /\ (k > 1 => stack'[k - 1] = stack[k - 1])
    BY <1>1, <2>2
  <2>4. /\ stack[k].path \in DOMAIN items /\ Len(stack[k].path) = k - 1
        /\ Children(stack[k].path) = {Append(stack[k].path, i) : i \in 1 .. stack[k].n}
        /\ k > 1 => stack[k].path = Append(stack[k - 1].path, stack[k - 1].n)
    BY <1>1, <2>2 DEF CallsInv
  <2>5. Children(stack[k].path)' = Children(stack[k].path)
    BY <2>3 DEF Children
  <2>6. QED
    BY <2>3, <2>4, <2>5
<1>5. QED
  BY <1>1, <1>4 DEF CallsInv

\* A call that fails takes all that hangs below its item with it.
LEMMA DropKeeps ==
  ASSUME TreeInv, CallsInv, stack # <<>>, stack' = Front(stack), items' = WithoutChildren(Last(stack).path)
  PROVE  /\ TreeInv' /\ CallsInv'
         /\ stack' = <<>> => DOMAIN items' = {<<>>}
<1> PICK l : l = Len(stack)
  OBVIOUS
<1> PICK p : p = Last(stack).path
  OBVIOUS
<1> PICK D : D = DOMAIN items
  OBVIOUS
<1>0. l = Len(stack) /\ p = Last(stack).path /\ D = DOMAIN items
  OBVIOUS
<1>1. p \in Path /\ p \in D /\ Len(p) = l - 1 /\ l \in Nat /\ l >= 1
  BY <1>0, LastCall
<1>2. D \subseteq Path /\ \A q \in D :
        /\ items[q].kind \in {"none", "object", "array", "str", "num", "lit"}
        /\ q # <<>> => Front(q) \in D
        /\ q # <<>> /\ Last(q) > 1 => Append(Front(q), Last(q) - 1) \in D
  BY <1>0 DEF TreeInv
<1> DEFINE E == {q \in D : ~IsStrictPrefix(p, q)}
<1>3. DOMAIN items' = E /\ \A q \in E : items'[q] = items[q]
  <2>1. items' = [q \in {r \in D : ~IsStrictPrefix(p, r)} |-> items[q]]
    BY <1>0 DEF WithoutChildren
  <2>2. QED
    BY <2>1
<1>4. \A q \in D : IsStrictPrefix(p, q) <=> q # <<>> /\ IsPrefix(p, Front(q))
  BY <1>1, <1>2, BelowFront DEF Path
<1>5. \A q \in D : IsPrefix(p, q) <=> Len(p) <= Len(q) /\ \A k \in 1 .. Len(p) : p[k] = q[k]
  <2>1. TAKE q \in D
  <2> DEFINE S == Nat \ {0}
  <2>2. p \in Seq(S) /\ q \in Seq(S)
    BY <1>1, <1>2 DEF Path
  <2> HIDE DEF S
  <2>3. QED
    BY <2>2, PrefixIs
<1>6. \A q \in D : q # <<>> /\ IsStrictPrefix(p, Front(q)) => IsStrictPrefix(p, q)
  <2>1. SUFFICES ASSUME NEW q \in D, q # <<>>, IsStrictPrefix(p, Front(q))
                 PROVE  IsStrictPrefix(p, q)
    OBVIOUS
  <2>2. IsPrefix(p, Front(q))
    BY <2>1 DEF IsStrictPrefix
  <2>3. QED
    BY <1>4, <2>1, <2>2
<1>7. ASSUME NEW q \in E, q # <<>>
      PROVE  Front(q) \in E /\ (Last(q) > 1 => Append(Front(q), Last(q) - 1) \in E)
  <2>1. q \in D /\ ~IsStrictPrefix(p, q) /\ Front(q) \in D /\ q \in Path
    BY <1>2, <1>7
  <2>2. Front(q) \in E
    BY <1>6, <1>7, <2>1
  <2>3. ASSUME Last(q) > 1
        PROVE  Append(Front(q), Last(q) - 1) \in E
    <3> PICK r : r = Append(Front(q), Last(q) - 1)
      OBVIOUS
    <3>1. r \in D
      BY <1>2, <1>7, <2>1, <2>3
    <3>2. Last(q) \in Nat /\ Front(q) \in Path
      <4>1. q \in Seq(Nat \ {0})
        BY <2>1 DEF Path
      <4>2. QED
        BY <1>7, <4>1, FrontFacts DEF Path
    <3>3. Last(q) - 1 \in Nat \ {0}
      BY <2>3, <3>2
    <3>4. r # <<>> /\ Front(r) = Front(q)
      BY <3>2, <3>3, StepFacts
    <3>5. ~IsStrictPrefix(p, r)
      BY <1>4, <1>7, <2>1, <3>1, <3>4
    <3>6. r \in E
      BY <3>1, <3>5
    <3>7. QED
      BY <3>6
  <2>4. QED
    BY <2>2, <2>3
<1>8. TreeInv'
  BY <1>2, <1>3, <1>7 DEF TreeInv
<1>9. /\ stack' \in Seq(Call) /\ Len(stack') = l - 1 /\ DOMAIN stack = 1 .. l
      /\ \A k \in 1 .. l - 1 : stack'[k] = stack[k]
  <2>1. stack \in Seq(Call)
    BY DEF CallsInv
  <2>2. QED
    BY <1>0, <2>1, FrontFacts, LenProperties
<1>10. DOMAIN stack' = 1 .. l - 1
  BY <1>9, LenProperties
<1>11. \A k \in DOMAIN stack' :
         /\ stack'[k].path \in DOMAIN items' /\ Len(stack'[k].path) = k - 1
         /\ Children(stack[k].path)' = {Append(stack'[k].path, i) : i \in 1 .. stack'[k].n}
         /\ k > 1 => stack'[k].path = Append(stack'[k - 1].path, stack'[k - 1].n)
  <2>1. TAKE k \in DOMAIN stack'
  <2>2. k \in 1 .. l /\ k \in 1 .. l - 1 /\ (k > 1 => k - 1 \in 1 .. l - 1)
    BY <1>1, <1>10
  <2>3. stack'[k] = stack[k] /\ (k > 1 => stack'[k - 1] = stack[k - 1])
    BY <1>9, <2>2
  <2>4. /\ stack[k].path \in D /\ Len(stack[k].path) = k - 1
        /\ Children(stack[k].path) = {Append(stack[k].path, i) : i \in 1 .. stack[k].n}
        /\ k > 1 => stack[k].path = Append(stack[k - 1].path, stack[k - 1].n)
    BY <1>0, <1>9, <2>2 DEF CallsInv
  <2> PICK q : q = stack[k].path
    OBVIOUS
  <2>5. q \in D /\ Len(q) = k - 1
    BY <2>4
  <2>6. ~IsPrefix(p, q)
    <3>1. Len(p) = l - 1 /\ k \in 1 .. l - 1 /\ l \in Nat
      BY <1>1, <2>2
    <3>2. ~(Len(p) <= Len(q))
      BY <2>5, <3>1
    <3>3. QED
      BY <1>5, <2>5, <3>2
  <2>7. q \in E
    BY <2>5, <2>6 DEF IsStrictPrefix
  <2>8. Children(q) = {c \in D : c # <<>> /\ Front(c) = q}
    BY <1>0, <1>2, <2>5, ChildrenAre
  <2>9. Children(q) \subseteq E
    BY <1>4, <2>6, <2>8
  <2>10. Children(q)' = Children(q)
    <3>1. Children(q) = {c \in D : Len(c) = Len(q) + 1 /\ IsPrefix(q, c)}
      BY <1>0 DEF Children
    <3>2. Children(q)' = {c \in E : Len(c) = Len(q) + 1 /\ IsPrefix(q, c)}
      BY <1>3 DEF Children
    <3>3. QED
      BY <2>9, <3>1, <3>2
  <2>11. Children(stack[k].path)' = Children(q)' /\ Children(stack[k].path) = Children(q)
    BY <2>3 DEF Children
  <2>12. stack'[k].path \in DOMAIN items' /\ Len(stack'[k].path) = k - 1
    BY <1>3, <2>3, <2>5, <2>7
  <2>13. Children(stack[k].path)' = {Append(stack'[k].path, i) : i \in 1 .. stack'[k].n}
    BY <2>3, <2>4, <2>10, <2>11
  <2>14. k > 1 => stack'[k].path = Append(stack'[k - 1].path, stack'[k - 1].n)
    BY <2>3, <2>4
  <2>15. QED
    BY <2>12, <2>13, <2>14
<1>12. CallsInv'
  BY <1>9, <1>11 DEF CallsInv
<1>13. ASSUME stack' = <<>> PROVE DOMAIN items' = {<<>>}
  <2>1. Len(stack') = 0
    BY <1>13
  <2>2. Len(p) = 0
    BY <1>1, <1>9, <2>1
  <2>3. p = <<>>
    BY <1>1, <2>2, EmptySeq DEF Path
  <2>4. \A q \in D : q # <<>> => IsStrictPrefix(p, q)
    <3>1. TAKE q \in D
    <3>2. ASSUME q # <<>> PROVE IsStrictPrefix(p, q)
      <4>1. Front(q) \in D /\ Front(q) \in Path
        BY <1>2, <3>2
      <4>2. Len(Front(q)) \in Nat
        <5>1. Front(q) \in Seq(Nat \ {0})
          BY <4>1 DEF Path
        <5>2. QED
          BY <5>1, LenProperties
      <4>3. IsPrefix(p, Front(q))
        <5>1. Len(p) <= Len(Front(q)) /\ 1 .. Len(p) = {}
          BY <2>2, <4>2
        <5>2. QED
          BY <1>5, <4>1, <5>1
      <4>4. QED
        BY <1>4, <3>2, <4>3
    <3>3. QED
      BY <3>2
  <2>5. ~IsStrictPrefix(p, p)
    BY DEF IsStrictPrefix
  <2>6. QED
    BY <1>1, <1>3, <2>3, <2>4, <2>5
<1>14. QED
  BY <1>8, <1>12, <1>13

-----------------------------------------------------------------------------
(* Where the parser is in the text of a whole packet.                      *)

\* They differ from each other and from the kinds of other tokens.
LEMMA Signs ==
  /\ OpenBrace \notin {CloseBrace, Comma, ":", "str", "num", "lit", "ws", "nul", "bom", "[", "]"}
  /\ CloseBrace \notin {OpenBrace, Comma, ":", "str", "num", "lit", "ws", "nul", "bom", "[", "]"}
  /\ Comma \notin {OpenBrace, CloseBrace, ":", "str", "num", "lit", "ws", "nul", "bom", "[", "]"}
BY Zenon DEF OpenBrace, CloseBrace, Comma

\* The kind of a mark is its sign.
LEMMA MarkIs ==
  ASSUME NEW m
  PROVE  Mark(m).t = m
BY DEF Mark

\* The tokens of a packet, by the names of their signs.
LEMMA PrintedSigns ==
  /\ Len(Printed) = 23 /\ DOMAIN Printed = 1 .. 23
  /\ Printed[1] = Mark(OpenBrace) /\ Printed[2] = Blank /\ Printed[3] = Blank /\ Printed[4] = Str(Members[1])
  /\ Printed[5] = Mark(":") /\ Printed[6] = Blank /\ Printed[7] = Value[1] /\ Printed[8] = Mark(Comma)
  /\ Printed[9] = Blank /\ Printed[10] = Blank /\ Printed[11] = Str(Members[2]) /\ Printed[12] = Mark(":")
  /\ Printed[13] = Blank /\ Printed[14] = Value[2] /\ Printed[15] = Mark(Comma) /\ Printed[16] = Blank
  /\ Printed[17] = Blank /\ Printed[18] = Str(Members[3]) /\ Printed[19] = Mark(":") /\ Printed[20] = Blank
  /\ Printed[21] = Value[3] /\ Printed[22] = Blank /\ Printed[23] = Mark(CloseBrace)
BY PrintedIs, Zenon DEF OpenBrace, CloseBrace, Comma

\* What lies at the first positions of a whole packet.
LEMMA PacketCells ==
  ASSUME length \in Nat, Len(Printed) < length, \A k \in DOMAIN Printed : content[k] = Printed[k]
  PROVE  /\ 23 < length
         /\ \A o \in 0 .. 22 : Cell(o) = Printed[o + 1] /\ \A m : Is(o, m) <=> Cell(o).t = m
<1> DEFINE P == Printed
<1>1. Len(P) = 23 /\ DOMAIN P = 1 .. 23
  BY PrintedSigns
<1> HIDE DEF P
<1>2. 23 < length /\ \A k \in 1 .. 23 : content[k] = P[k]
  BY <1>1 DEF P
<1>3. ASSUME NEW o \in 0 .. 22
      PROVE  Cell(o) = P[o + 1] /\ \A m : Is(o, m) <=> Cell(o).t = m
  <2>0. 23 < length
    BY <1>2
  <2>1. o < length /\ o + 1 \in 1 .. 23
    BY <2>0
  <2>2. content[o + 1] = P[o + 1]
    BY <1>2, <2>1
  <2>3. QED
    BY <2>1, <2>2 DEF Cell, Is
<1>4. QED
  BY <1>2, <1>3 DEF P

\* Where white space is skipped in a whole packet, and what stands behind it.
LEMMA PacketPlaces ==
  ASSUME length \in Nat, Len(Printed) < length, \A k \in DOMAIN Printed : content[k] = Printed[k]
  PROVE  /\ Skip(0) = 0 /\ Cell(0) = Mark(OpenBrace) /\ Skip(1) = 3 /\ Cell(3) = Str(Members[1])
         /\ Skip(3) = 3 /\ Skip(4) = 4 /\ Cell(4) = Mark(":") /\ Skip(5) = 6 /\ Cell(6) = Value[1]
         /\ Skip(7) = 7 /\ Cell(7) = Mark(Comma) /\ Skip(8) = 10 /\ Cell(10) = Str(Members[2])
         /\ Skip(11) = 11 /\ Cell(11) = Mark(":") /\ Skip(12) = 13 /\ Cell(13) = Value[2]
         /\ Skip(14) = 14 /\ Cell(14) = Mark(Comma) /\ Skip(15) = 17 /\ Cell(17) = Str(Members[3])
         /\ Skip(18) = 18 /\ Cell(18) = Mark(":") /\ Skip(19) = 20 /\ Cell(20) = Value[3]
         /\ Skip(21) = 22 /\ Cell(22) = Mark(CloseBrace)
<1>1. 23 < length /\ \A o \in 0 .. 22 : Cell(o) = Printed[o + 1]
  BY PacketCells
<1> DEFINE P == Printed
<1>2. /\ P[1] = Mark(OpenBrace) /\ P[2] = Blank /\ P[3] = Blank /\ P[4] = Str(Members[1])
      /\ P[5] = Mark(":") /\ P[6] = Blank /\ P[7] = Value[1] /\ P[8] = Mark(Comma)
      /\ P[9] = Blank /\ P[10] = Blank /\ P[11] = Str(Members[2]) /\ P[12] = Mark(":")
      /\ P[13] = Blank /\ P[14] = Value[2] /\ P[15] = Mark(Comma) /\ P[16] = Blank
      /\ P[17] = Blank /\ P[18] = Str(Members[3]) /\ P[19] = Mark(":") /\ P[20] = Blank
      /\ P[21] = Value[3] /\ P[22] = Blank /\ P[23] = Mark(CloseBrace)
  BY PrintedSigns
<1> HIDE DEF P
<1>300. \A o \in 0 .. 22 : Cell(o) = P[o + 1]
  BY <1>1 DEF P
<1>301. Cell(0) = Mark(OpenBrace)
  BY <1>2, <1>300, 0 \in 0 .. 22, 0 + 1 = 1
<1>302. Cell(1) = Blank
  BY <1>2, <1>300, 1 \in 0 .. 22, 1 + 1 = 2
<1>303. Cell(2) = Blank
  BY <1>2, <1>300, 2 \in 0 .. 22, 2 + 1 = 3
<1>304. Cell(3) = Str(Members[1])
  BY <1>2, <1>300, 3 \in 0 .. 22, 3 + 1 = 4
<1>305. Cell(4) = Mark(":")
  BY <1>2, <1>300, 4 \in 0 .. 22, 4 + 1 = 5
<1>306. Cell(5) = Blank
  BY <1>2, <1>300, 5 \in 0 .. 22, 5 + 1 = 6
<1>307. Cell(6) = Value[1]
  BY <1>2, <1>300, 6 \in 0 .. 22, 6 + 1 = 7
<1>308. Cell(7) = Mark(Comma)
  BY <1>2, <1>300, 7 \in 0 .. 22, 7 + 1 = 8
<1>309. Cell(8) = Blank
  BY <1>2, <1>300, 8 \in 0 .. 22, 8 + 1 = 9
<1>310. Cell(9) = Blank
  BY <1>2, <1>300, 9 \in 0 .. 22, 9 + 1 = 10
<1>311. Cell(10) = Str(Members[2])
  BY <1>2, <1>300, 10 \in 0 .. 22, 10 + 1 = 11
<1>312. Cell(11) = Mark(":")
  BY <1>2, <1>300, 11 \in 0 .. 22, 11 + 1 = 12
<1>313. Cell(12) = Blank
  BY <1>2, <1>300, 12 \in 0 .. 22, 12 + 1 = 13
<1>314. Cell(13) = Value[2]
  BY <1>2, <1>300, 13 \in 0 .. 22, 13 + 1 = 14
<1>315. Cell(14) = Mark(Comma)
  BY <1>2, <1>300, 14 \in 0 .. 22, 14 + 1 = 15
<1>316. Cell(15) = Blank
  BY <1>2, <1>300, 15 \in 0 .. 22, 15 + 1 = 16
<1>317. Cell(16) = Blank
  BY <1>2, <1>300, 16 \in 0 .. 22, 16 + 1 = 17
<1>318. Cell(17) = Str(Members[3])
  BY <1>2, <1>300, 17 \in 0 .. 22, 17 + 1 = 18
<1>319. Cell(18) = Mark(":")
  BY <1>2, <1>300, 18 \in 0 .. 22, 18 + 1 = 19
<1>320. Cell(19) = Blank
  BY <1>2, <1>300, 19 \in 0 .. 22, 19 + 1 = 20
<1>321. Cell(20) = Value[3]
  BY <1>2, <1>300, 20 \in 0 .. 22, 20 + 1 = 21
<1>322. Cell(21) = Blank
  BY <1>2, <1>300, 21 \in 0 .. 22, 21 + 1 = 22
<1>323. Cell(22) = Mark(CloseBrace)
  BY <1>2, <1>300, 22 \in 0 .. 22, 22 + 1 = 23
<1>3. /\ Cell(0) = Mark(OpenBrace) /\ Cell(1) = Blank /\ Cell(2) = Blank /\ Cell(3) = Str(Members[1])
      /\ Cell(4) = Mark(":") /\ Cell(5) = Blank /\ Cell(6) = Value[1] /\ Cell(7) = Mark(Comma)
      /\ Cell(8) = Blank /\ Cell(9) = Blank /\ Cell(10) = Str(Members[2]) /\ Cell(11) = Mark(":")
      /\ Cell(12) = Blank /\ Cell(13) = Value[2] /\ Cell(14) = Mark(Comma) /\ Cell(15) = Blank
      /\ Cell(16) = Blank /\ Cell(17) = Str(Members[3]) /\ Cell(18) = Mark(":") /\ Cell(19) = Blank
      /\ Cell(20) = Value[3] /\ Cell(21) = Blank /\ Cell(22) = Mark(CloseBrace)
  BY <1>301, <1>302, <1>303, <1>304, <1>305, <1>306, <1>307, <1>308, <1>309, <1>310, <1>311, <1>312,
     <1>313, <1>314, <1>315, <1>316, <1>317, <1>318, <1>319, <1>320, <1>321, <1>322, <1>323
<1>4. \A o : Cell(o).t \in {OpenBrace, CloseBrace, ":", Comma, "str", "num"} => ~IsBlank(o)
  <2>1. Blank.t = "ws" /\ NUL.t = "nul"
    BY DEF Blank, NUL, Mark
  <2>2. QED
    BY <2>1, Signs DEF IsBlank
<1>5. /\ \A m : Mark(m).t = m
      /\ \A k \in 1 .. 3 : Str(Members[k]).t = "str" /\ Value[k].t \in {"str", "num"}
  BY DEF Mark, Str, Num, Value
<1>6. /\ IsBlank(1) /\ IsBlank(2) /\ IsBlank(5) /\ IsBlank(8) /\ IsBlank(9)
      /\ IsBlank(12) /\ IsBlank(15) /\ IsBlank(16) /\ IsBlank(19) /\ IsBlank(21)
  BY <1>3 DEF IsBlank
<1>7. /\ ~IsBlank(0) /\ ~IsBlank(3) /\ ~IsBlank(4) /\ ~IsBlank(6) /\ ~IsBlank(7)
      /\ ~IsBlank(10) /\ ~IsBlank(11) /\ ~IsBlank(13) /\ ~IsBlank(14) /\ ~IsBlank(17)
      /\ ~IsBlank(18) /\ ~IsBlank(20) /\ ~IsBlank(22)
  <2>1. ~IsBlank(0)
    BY <1>301, <1>4, <1>5
  <2>2. ~IsBlank(3)
    BY <1>304, <1>4, <1>5
  <2>3. ~IsBlank(4)
    BY <1>305, <1>4, <1>5
  <2>4. ~IsBlank(6)
    BY <1>307, <1>4, <1>5
  <2>5. ~IsBlank(7)
    BY <1>308, <1>4, <1>5
  <2>6. ~IsBlank(10)
    BY <1>311, <1>4, <1>5
  <2>7. ~IsBlank(11)
    BY <1>312, <1>4, <1>5
  <2>8. ~IsBlank(13)
    BY <1>314, <1>4, <1>5
  <2>9. ~IsBlank(14)
    BY <1>315, <1>4, <1>5
  <2>10. ~IsBlank(17)
    BY <1>318, <1>4, <1>5
  <2>11. ~IsBlank(18)
    BY <1>319, <1>4, <1>5
  <2>12. ~IsBlank(20)
    BY <1>321, <1>4, <1>5
  <2>13. ~IsBlank(22)
    BY <1>323, <1>4, <1>5
  <2>14. QED
    BY <2>1, <2>2, <2>3, <2>4, <2>5, <2>6, <2>7, <2>8, <2>9, <2>10, <2>11, <2>12, <2>13
<1>8. /\ Skip(0) = 0 /\ Skip(1) = 3 /\ Skip(3) = 3 /\ Skip(4) = 4 /\ Skip(5) = 6
      /\ Skip(7) = 7 /\ Skip(8) = 10 /\ Skip(11) = 11 /\ Skip(12) = 13 /\ Skip(14) = 14
      /\ Skip(15) = 17 /\ Skip(18) = 18 /\ Skip(19) = 20 /\ Skip(21) = 22
  <2>1. Skip(0) = 0
    BY <1>1, <1>7, 0 < length, SkipStays
  <2>2. Skip(1) = 3
    BY <1>1, <1>6, <1>7, 1 + 1 = 2, 1 + 2 = 3, 3 < length, SkipTwo
  <2>3. Skip(3) = 3
    BY <1>1, <1>7, 3 < length, SkipStays
  <2>4. Skip(4) = 4
    BY <1>1, <1>7, 4 < length, SkipStays
  <2>5. Skip(5) = 6
    BY <1>1, <1>6, <1>7, 5 + 1 = 6, 6 < length, SkipOne
  <2>6. Skip(7) = 7
    BY <1>1, <1>7, 7 < length, SkipStays
  <2>7. Skip(8) = 10
    BY <1>1, <1>6, <1>7, 8 + 1 = 9, 8 + 2 = 10, 10 < length, SkipTwo
  <2>8. Skip(11) = 11
    BY <1>1, <1>7, 11 < length, SkipStays
  <2>9. Skip(12) = 13
    BY <1>1, <1>6, <1>7, 12 + 1 = 13, 13 < length, SkipOne
  <2>10. Skip(14) = 14
    BY <1>1, <1>7, 14 < length, SkipStays
  <2>11. Skip(15) = 17
    BY <1>1, <1>6, <1>7, 15 + 1 = 16, 15 + 2 = 17, 17 < length, SkipTwo
  <2>12. Skip(18) = 18
    BY <1>1, <1>7, 18 < length, SkipStays
  <2>13. Skip(19) = 20
    BY <1>1, <1>6, <1>7, 19 + 1 = 20, 20 < length, SkipOne
  <2>14. Skip(21) = 22
    BY <1>1, <1>6, <1>7, 21 + 1 = 22, 22 < length, SkipOne
  <2>15. QED
    BY <2>1, <2>2, <2>3, <2>4, <2>5, <2>6, <2>7, <2>8, <2>9, <2>10, <2>11, <2>12, <2>13, <2>14
<1>9. QED
  BY <1>3, <1>8

\* What becomes of the members one after the other.
LEMMA MemberPlaces ==
  ASSUME length \in Nat, Len(Printed) < length, \A k \in DOMAIN Printed : content[k] = Printed[k]
  PROVE  /\ \A n \in 0 .. 2, o \in Nat : o = (IF n = 0 THEN 2 ELSE 7 * n) =>
              /\ Skip(o + 1) = 7 * n + 3 /\ Skip(7 * n + 3 + 1) = 7 * n + 4
              /\ Skip(7 * n + 4 + 1) = 7 * (n + 1) - 1
              /\ Is(7 * n + 3, "str") /\ Cell(7 * n + 3) = Str(Members[n + 1]) /\ Is(7 * n + 4, ":")
         /\ \A n \in 1 .. 3 : Cell(7 * n - 1) = Value[n] /\ \A m : Is(7 * n - 1, m) <=> Value[n].t = m
         /\ \A n \in 1 .. 2 : Skip(7 * n) = 7 * n /\ \A m : Is(7 * n, m) <=> m = Comma
         /\ Skip(7 * 3) = 22 /\ \A m : Is(22, m) <=> m = CloseBrace
         /\ Skip(0) = 0 /\ Skip(1) = 3 /\ (\A m : Is(0, m) <=> m = OpenBrace) /\ \A m : Is(3, m) <=> m = "str"
<1>1. \A o \in 0 .. 22 : \A m : Is(o, m) <=> Cell(o).t = m
  BY PacketCells
<1>2. /\ \A m : Mark(m).t = m
      /\ \A k \in 1 .. 3 : Str(Members[k]).t = "str"
  BY DEF Mark, Str
<1>3. ASSUME NEW n \in 0 .. 2, NEW o \in Nat, o = (IF n = 0 THEN 2 ELSE 7 * n)
      PROVE  /\ Skip(o + 1) = 7 * n + 3 /\ Skip(7 * n + 3 + 1) = 7 * n + 4
             /\ Skip(7 * n + 4 + 1) = 7 * (n + 1) - 1
             /\ Is(7 * n + 3, "str") /\ Cell(7 * n + 3) = Str(Members[n + 1]) /\ Is(7 * n + 4, ":")
  <2>1. CASE n = 0
    <3>1. o + 1 = 3 /\ 7 * n + 3 = 3 /\ 7 * n + 4 = 4 /\ 7 * (n + 1) - 1 = 6 /\ 3 + 1 = 4 /\ 4 + 1 = 5 /\ n + 1 = 1
      BY <1>3, <2>1
    <3>2. /\ Skip(3) = 3 /\ Skip(4) = 4 /\ Skip(5) = 6
          /\ Cell(3) = Str(Members[1]) /\ Cell(4) = Mark(":")
      BY PacketPlaces
    <3>3. 3 \in 0 .. 22 /\ 4 \in 0 .. 22
      OBVIOUS
    <3>4. Is(3, "str") /\ Is(4, ":")
      BY <1>1, <1>2, <3>2, <3>3
    <3>5. QED
      BY <3>1, <3>2, <3>4
  <2>2. CASE n = 1
    <3>1. o + 1 = 8 /\ 7 * n + 3 = 10 /\ 7 * n + 4 = 11 /\ 7 * (n + 1) - 1 = 13 /\ 10 + 1 = 11 /\ 11 + 1 = 12 /\ n + 1 = 2
      BY <1>3, <2>2
    <3>2. /\ Skip(8) = 10 /\ Skip(11) = 11 /\ Skip(12) = 13
          /\ Cell(10) = Str(Members[2]) /\ Cell(11) = Mark(":")
      BY PacketPlaces
    <3>3. 10 \in 0 .. 22 /\ 11 \in 0 .. 22
      OBVIOUS
    <3>4. Is(10, "str") /\ Is(11, ":")
      BY <1>1, <1>2, <3>2, <3>3
    <3>5. QED
      BY <3>1, <3>2, <3>4
  <2>3. CASE n = 2
    <3>1. o + 1 = 15 /\ 7 * n + 3 = 17 /\ 7 * n + 4 = 18 /\ 7 * (n + 1) - 1 = 20 /\ 17 + 1 = 18 /\ 18 + 1 = 19 /\ n + 1 = 3
      BY <1>3, <2>3
    <3>2. /\ Skip(15) = 17 /\ Skip(18) = 18 /\ Skip(19) = 20
          /\ Cell(17) = Str(Members[3]) /\ Cell(18) = Mark(":")
      BY PacketPlaces
    <3>3. 17 \in 0 .. 22 /\ 18 \in 0 .. 22
      OBVIOUS
    <3>4. Is(17, "str") /\ Is(18, ":")
      BY <1>1, <1>2, <3>2, <3>3
    <3>5. QED
      BY <3>1, <3>2, <3>4
  <2>4. QED
    BY <2>1, <2>2, <2>3
<1>4. ASSUME NEW n \in 1 .. 3
      PROVE  Cell(7 * n - 1) = Value[n] /\ \A m : Is(7 * n - 1, m) <=> Value[n].t = m
  <2>1. \/ n = 1 /\ 7 * n - 1 = 6
        \/ n = 2 /\ 7 * n - 1 = 13
        \/ n = 3 /\ 7 * n - 1 = 20
    OBVIOUS
  <2>2. Cell(7 * n - 1) = Value[n]
    BY <2>1, PacketPlaces
  <2>3. 7 * n - 1 \in 0 .. 22
    OBVIOUS
  <2>4. QED
    BY <1>1, <2>2, <2>3
<1>5. ASSUME NEW n \in 1 .. 2
      PROVE  Skip(7 * n) = 7 * n /\ \A m : Is(7 * n, m) <=> m = Comma
  <2>1. (n = 1 /\ 7 * n = 7) \/ (n = 2 /\ 7 * n = 14)
    OBVIOUS
  <2>2. Skip(7 * n) = 7 * n /\ Cell(7 * n) = Mark(Comma)
    BY <2>1, PacketPlaces
  <2>3. 7 * n \in 0 .. 22
    OBVIOUS
  <2>4. QED
    BY <1>1, <1>2, <2>2, <2>3
<1>6. 7 * 3 = 21 /\ 0 \in 0 .. 22 /\ 3 \in 0 .. 22 /\ 22 \in 0 .. 22
  OBVIOUS
<1>7. Skip(7 * 3) = 22 /\ \A m : Is(22, m) <=> m = CloseBrace
  <2>1. Skip(21) = 22 /\ Cell(22) = Mark(CloseBrace)
    BY PacketPlaces
  <2>2. \A m : Is(22, m) <=> m = CloseBrace
    BY <1>1, <1>2, <1>6, <2>1
  <2>3. QED
    BY <1>6, <2>1, <2>2
<1>8. Skip(0) = 0 /\ Skip(1) = 3 /\ (\A m : Is(0, m) <=> m = OpenBrace) /\ \A m : Is(3, m) <=> m = "str"
  <2>1. Skip(0) = 0 /\ Skip(1) = 3 /\ Cell(0) = Mark(OpenBrace) /\ Cell(3) = Str(Members[1])
    BY PacketPlaces
  <2>2. QED
    BY <1>1, <1>2, <1>6, <2>1
<1>9. QED
  BY <1>3, <1>4, <1>5, <1>7, <1>8

-----------------------------------------------------------------------------
(* The parser keeps the invariant.                                         *)

\* The signs of objects and arrays.
LEMMA Brackets ==
  /\ DOMAIN Opening = {"object", "array"}
  /\ Opening["object"] = OpenBrace /\ Opening["array"] = "[" /\ Closing["object"] = CloseBrace /\ Closing["array"] = "]"
<1>1. DOMAIN Opening = {"object", "array"}
  BY Zenon DEF Opening
<1>2. Opening["object"] = OpenBrace /\ Opening["array"] = "["
  BY Zenon DEF Opening, OpenBrace
<1>3. Closing["object"] = CloseBrace /\ Closing["array"] = "]"
  BY Zenon DEF Closing, CloseBrace
<1>4. QED
  BY <1>1, <1>2, <1>3

\* What is behind the parser's positions.
LEMMA Reads ==
  ASSUME NEW o, NEW m, Is(o, m)
  PROVE  o < length /\ Cell(o) = content[o + 1] /\ Cell(o).t = m
BY DEF Is, Cell

\* What is known of a whole packet before a step.
LEMMA WholeSoFar ==
  ASSUME IInv, ParserSteps, fate' = "whole", failures' = 0
  PROVE  /\ fate = "whole" /\ failures = 0 /\ failures' = failures
         /\ length \in Nat /\ Len(Printed) < length /\ \A k \in DOMAIN Printed : content[k] = Printed[k]
         /\ Len(Printed) < length' /\ \A k \in DOMAIN Printed : content'[k] = Printed[k]
<1>1. /\ fate' = fate /\ length' = length /\ content' = content
      /\ failures' = failures \/ failures' = failures + 1
  BY DEF ParserSteps
<1>2. failures \in Nat /\ length \in Nat
  BY TextAssumption DEF IInv, NumbersInv, TextAssumption
<1>3. failures = 0 /\ failures' = failures
  BY <1>1, <1>2
<1>4. QED
  BY <1>1, <1>2, <1>3 DEF IInv, WholeInv

\* What is known of a text that was cut before a step.
LEMMA CutSoFar ==
  ASSUME IInv, ParserSteps, fate' = "cut"
  PROVE  /\ content' = content /\ content[1] \in {Mark(OpenBrace), NUL}
         /\ \A k \in DOMAIN content : content[k].t \notin {CloseBrace, "]"}
         /\ pc = "value" /\ stack = <<>> => offset = 0
         /\ pc = "after" => stack # <<>>
         /\ \A o \in Nat : \A m : Is(o, m) => m \notin {CloseBrace, "]"}
         /\ \A m : Is(0, m) => m \in {OpenBrace, "nul"}
<1>1. fate' = fate /\ content' = content /\ pc \in ParsePlaces
  BY DEF ParserSteps
<1>2. /\ content[1] \in {Mark(OpenBrace), NUL}
      /\ \A k \in DOMAIN content : content[k].t \notin {CloseBrace, "]"}
      /\ pc = "value" /\ stack = <<>> => offset = 0
      /\ pc = "after" => stack # <<>>
  BY <1>1 DEF IInv, CutInv
<1>3. length = Len(content) /\ content \in Seq(Token) /\ length \in Nat
  BY <1>1, Given DEF IInv, ReadInv
<1>4. DOMAIN content = 1 .. length
  BY <1>3, LenProperties
<1>5. ASSUME NEW o \in Nat, NEW m, Is(o, m) PROVE m \notin {CloseBrace, "]"}
  <2>1. o < length /\ content[o + 1].t = m
    BY <1>5 DEF Is
  <2>2. o + 1 \in DOMAIN content
    BY <1>3, <1>4, <2>1
  <2>3. QED
    BY <1>2, <2>1, <2>2
<1>6. ASSUME NEW m, Is(0, m) PROVE m \in {OpenBrace, "nul"}
  <2>1. content[0 + 1].t = m /\ 0 + 1 = 1
    BY <1>6 DEF Is
  <2>2. NUL.t = "nul" /\ Mark(OpenBrace).t = OpenBrace
    BY MarkIs DEF NUL
  <2>3. QED
    BY <1>2, <2>1, <2>2
<1>7. QED
  BY <1>1, <1>2, <1>5, <1>6

\* What a packet's only call is.
LEMMA InsideIs ==
  ASSUME NEW n \in Nat, NEW m, Inside(n, m)
  PROVE  /\ stack # <<>> /\ Len(stack) = 1 /\ stack[1] = Last(stack)
         /\ Last(stack) = [path |-> <<>>, kind |-> "object", n |-> n]
         /\ n > 0 => Here = <<n>>
<1> DEFINE g == [path |-> <<>>, kind |-> "object", n |-> n]
           e == <<>>
<1>1. stack = <<g>> /\ g.path = e /\ g.n = n
  BY DEF Inside
<1> HIDE DEF g
<1>2. stack # <<>> /\ Len(stack) = 1 /\ stack[1] = g
  BY <1>1
<1>3. Last(stack) = g
  BY <1>2 DEF Last
<1>4. Here = Append(e, n)
  BY <1>1, <1>2, <1>3 DEF Here
<1>5. n > 0 => Append(e, n) = <<n>>
  BY OneStep
<1>6. QED
  BY <1>2, <1>3, <1>4, <1>5 DEF g

\* The root item.
LEMMA StartParseKeeps ==
  ASSUME IInv, StartParse
  PROVE  IInv'
<1>1. /\ pc = "parse" /\ UNCHANGED <<printer, length, parser, wire>>
      /\ \/ /\ items' = WithItem(<<>>, Item("none", "", "")) /\ pc' = "value" /\ failures' = failures
            /\ offset' = Skip(IF Is(0, "bom") /\ length > 2 THEN 1 ELSE 0)
         \/ /\ failures < MaxFailures /\ failures' = failures + 1 /\ pc' = "rejected"
            /\ items' = items /\ offset' = offset
  BY DEF StartParse, OutOfMemory
<1>2. depth = 0 /\ touched = 0 /\ stack = <<>> /\ items = NoItems
  BY <1>1 DEF IInv, PlaceInv
<1>3. depth' = 0 /\ touched' = 0 /\ stack' = <<>> /\ length' = length /\ content' = content /\ fate' = fate
  BY <1>1, <1>2 DEF parser, wire
<1>4. ParserSteps
  BY <1>1, <1>3 DEF ParserSteps, ParsePlaces
<1>5. /\ length \in Nat /\ length > 0 /\ offset \in Nat /\ NestingLimit \in Nat /\ fate # "none"
  BY <1>4, Given DEF ParserSteps
<1>6. NumbersInv' /\ BuildInv' /\ PrintInv' /\ TextInv' /\ ReadInv'
  <2>1. offset' \in Nat
    <3>1. Skip(0) \in Nat /\ Skip(1) \in Nat
      BY <1>5, SkipFacts
    <3>2. QED
      BY <1>1, <1>5, <3>1
  <2>2. depth' \in 0 .. NestingLimit /\ touched' \in Nat /\ touched' < length /\ pc' # "element"
    <3>1. pc' # "element"
      BY <1>1
    <3>2. 0 \in 0 .. NestingLimit /\ 0 \in Nat /\ 0 < length
      BY <1>5
    <3>3. QED
      BY <1>3, <3>1, <3>2
  <2>3. QED
    BY <1>4, <2>1, <2>2, ParseRest
<1>7. CallsInv'
  BY <1>3 DEF CallsInv
<1>8. TreeInv' /\ PlaceInv'
  <2>1. CASE items' = WithItem(<<>>, Item("none", "", "")) /\ pc' = "value"
    <3>1. DOMAIN items = {}
      BY <1>2 DEF NoItems
    <3>2. items' = [q \in {<<>>} |-> Item("none", "", "")]
      BY <2>1, <3>1 DEF WithItem
    <3>3. DOMAIN items' = {<<>>} /\ items'[<<>>].kind = "none"
      BY <3>2 DEF Item
    <3>4. {<<k>> : k \in 1 .. 0} = {} /\ 0 \in Nat
      OBVIOUS
    <3>5. DOMAIN items' = {<<>>} \union {<<k>> : k \in 1 .. 0}
      BY <3>3, <3>4
    <3>6. \A q \in DOMAIN items' : items'[q].kind \in {"none", "object", "array", "str", "num", "lit"}
      BY <3>3
    <3>7. TreeInv'
      BY <3>4, <3>5, <3>6, ObjectTree DEF TreeInv
    <3>8. Here' = <<>>
      BY <1>3 DEF Here
    <3>9. Children(Here)' = {}
      <4> DEFINE e == <<>>
      <4>1. Len(e) = 0 /\ Len(e) # Len(e) + 1
        OBVIOUS
      <4>2. DOMAIN items' = {e} /\ Here' = e
        BY <3>3, <3>8
      <4> HIDE DEF e
      <4>3. QED
        BY <4>1, <4>2 DEF Children
    <3>10. Len(stack') = 0
      BY <1>3
    <3>11. Here' \in DOMAIN items'
      BY <3>3, <3>8
    <3>12. PlaceInv'
      BY <1>3, <2>1, <3>3, <3>9, <3>10, <3>11 DEF PlaceInv, FormatPlaces
    <3>13. QED
      BY <3>7, <3>12
  <2>2. CASE items' = items /\ pc' = "rejected"
    <3>1. TreeInv'
      BY <2>2 DEF IInv, TreeInv
    <3>2. NoItems' = NoItems
      BY DEF NoItems
    <3>3. PlaceInv'
      BY <1>2, <1>3, <2>2, <3>2 DEF PlaceInv, FormatPlaces
    <3>4. QED
      BY <3>1, <3>3
  <2>3. QED
    BY <1>1, <2>1, <2>2
<1>9. CutInv'
  <2>1. SUFFICES ASSUME fate' = "cut" PROVE CutInv'
    BY DEF CutInv
  <2>2. /\ content[1] \in {Mark(OpenBrace), NUL} /\ (\A m : Is(0, m) => m \in {OpenBrace, "nul"})
        /\ \A k \in DOMAIN content : content[k].t \notin {CloseBrace, "]"}
    BY <1>4, <2>1, CutSoFar
  <2>3. ~Is(0, "bom")
    BY <2>2, Signs
  <2>4. Skip(0) = 0
    <3>1. Cell(0) = content[1]
      BY <1>5 DEF Cell
    <3>2. CASE content[1] = NUL
      <4>1. length = 1
        <5>1. content \in Seq(Token) /\ length = Len(content) /\ \A k \in DOMAIN content : content[k] = NUL <=> k = length
          BY <1>5 DEF IInv, ReadInv
        <5>2. 1 \in DOMAIN content
          BY <1>5, <5>1, LenProperties
        <5>3. QED
          BY <3>2, <5>1, <5>2
      <4>2. Skip(0) \in 0 .. 1 - 1
        BY <4>1, SkipFacts
      <4>3. QED
        BY <4>2
    <3>3. CASE content[1] = Mark(OpenBrace)
      <4>1. Mark(OpenBrace).t = OpenBrace /\ Blank.t = "ws" /\ NUL.t = "nul"
        BY DEF Mark, Blank, NUL
      <4>2. Mark(OpenBrace) \notin {Blank, NUL}
        BY <4>1, Signs
      <4>3. ~IsBlank(0)
        BY <3>1, <3>3, <4>2 DEF IsBlank
      <4>4. QED
        BY <1>5, <4>3, SkipStays
    <3>4. QED
      BY <2>2, <3>2, <3>3
  <2>5. pc' = "value" => offset' = 0
    BY <1>1, <2>3, <2>4
  <2>6. pc' # "after" /\ pc' # "done"
    BY <1>1
  <2>7. QED
    BY <1>3, <2>2, <2>5, <2>6 DEF CutInv
<1>10. WholeInv'
  <2>1. SUFFICES ASSUME fate' = "whole", failures' = 0 PROVE WholeInv'
    BY DEF WholeInv
  <2>2. /\ failures' = failures /\ failures = 0 /\ Len(Printed) < length /\ \A k \in DOMAIN Printed : content[k] = Printed[k]
    BY <1>4, <2>1, WholeSoFar
  <2>3. Skip(0) = 0 /\ ~Is(0, "bom")
    BY <1>5, <2>2, MemberPlaces, Signs
  <2>4. pc' = "value" /\ offset' = 0
    <3>1. ~(failures' = failures + 1)
      BY <2>2
    <3>2. QED
      BY <1>1, <2>3, <3>1
  <2>5. QED
    BY <1>3, <2>2, <2>4 DEF WholeInv
<1>11. QED
  BY <1>6, <1>7, <1>8, <1>9, <1>10 DEF IInv

\* A failing value leaves the tree and the calls to the unwinding.
LEMMA FailsKeeps ==
  ASSUME IInv, pc = "value", Fails
  PROVE  TreeInv' /\ CallsInv' /\ PlaceInv'
<1>1. pc' = "unwind" /\ items' = items /\ stack' = stack /\ DOMAIN items' = DOMAIN items
  BY DEF Fails
<1>2. TreeInv'
  BY <1>1 DEF IInv, TreeInv
<1>3. CallsInv'
  BY <1>1, CallsSame DEF IInv
<1>4. stack = <<>> => DOMAIN items = {<<>>}
  BY DEF IInv, PlaceInv
<1>5. PlaceInv'
  BY <1>1, <1>4 DEF PlaceInv, FormatPlaces
<1>6. QED
  BY <1>2, <1>3, <1>5

\* A text that was cut is still one when a value fails.
LEMMA CutFails ==
  ASSUME IInv, ParserSteps, pc' = "unwind"
  PROVE  CutInv'
<1>1. SUFFICES ASSUME fate' = "cut" PROVE CutInv'
  BY DEF CutInv
<1>2. /\ content' = content /\ content[1] \in {Mark(OpenBrace), NUL}
      /\ \A k \in DOMAIN content : content[k].t \notin {CloseBrace, "]"}
  BY <1>1, CutSoFar
<1>3. QED
  BY <1>2 DEF CutInv

\* Where the values of a whole packet are.
LEMMA WholeValue ==
  ASSUME IInv, ParserSteps, pc = "value", fate' = "whole", failures' = 0
  PROVE  /\ stack = <<>> => offset = 0 /\ depth = 0 /\ DOMAIN items = {<<>>} /\ \A m : Is(offset, m) <=> m = OpenBrace
         /\ stack # <<>> =>
              \E n \in 1 .. 3 : /\ Inside(n, n - 1) /\ offset = 7 * n - 1 /\ Here = <<n>>
                                /\ Cell(offset) = Value[n] /\ \A m : Is(offset, m) <=> Value[n].t = m
<1>1. /\ fate = "whole" /\ failures = 0
      /\ length \in Nat /\ Len(Printed) < length /\ \A k \in DOMAIN Printed : content[k] = Printed[k]
  BY WholeSoFar
<1>2. /\ \A n \in 1 .. 3 : Cell(7 * n - 1) = Value[n] /\ \A m : Is(7 * n - 1, m) <=> Value[n].t = m
      /\ \A m : Is(0, m) <=> m = OpenBrace
  BY <1>1, MemberPlaces
<1>3. ASSUME stack = <<>>
      PROVE  offset = 0 /\ depth = 0 /\ DOMAIN items = {<<>>} /\ \A m : Is(offset, m) <=> m = OpenBrace
  <2>1. offset = 0
    BY <1>1, <1>3 DEF IInv, WholeInv
  <2>2. Len(stack) = depth /\ DOMAIN items = {<<>>}
    BY <1>3 DEF IInv, PlaceInv
  <2>3. depth = 0
    BY <1>3, <2>2
  <2>4. QED
    BY <1>2, <2>1, <2>2, <2>3
<1>4. ASSUME stack # <<>>
      PROVE  \E n \in 1 .. 3 : /\ Inside(n, n - 1) /\ offset = 7 * n - 1 /\ Here = <<n>>
                               /\ Cell(offset) = Value[n] /\ \A m : Is(offset, m) <=> Value[n].t = m
  <2>1. PICK n \in 1 .. 3 : Inside(n, n - 1) /\ offset = 7 * n - 1
    BY <1>1, <1>4 DEF IInv, WholeInv
  <2>2. n \in Nat /\ n > 0
    OBVIOUS
  <2>3. Here = <<n>>
    BY <2>1, <2>2, InsideIs
  <2>4. QED
    BY <1>2, <2>1, <2>3
<1>5. QED
  BY <1>3, <1>4

\* The kinds of the values, and of the signs.
LEMMA ValueKinds ==
  /\ \A n \in 1 .. 3 : Value[n].t \in {"str", "num"} /\ Item(Value[n].t, Members[n], Value[n].v).kind = Value[n].t
  /\ \A k, key, val : Item(k, key, val).kind = k /\ Item(k, key, val).key = key /\ Item(k, key, val).val = val
BY DEF Value, Str, Num, Item

\* A string, a number or a literal.
LEMMA ScalarKeeps ==
  ASSUME IInv, Scalar
  PROVE  IInv'
<1>1. pc = "value" /\ Touch(offset) /\ UNCHANGED <<printer, length, wire>>
  BY DEF Scalar
<1>2. PICK m \in {"lit", "str", "num"} : Is(offset, m)
  BY DEF Scalar
<1>3. \/ /\ items' = [items EXCEPT ![Here] = Item(Cell(offset).t, items[Here].key, Cell(offset).v)]
         /\ offset' = offset + 1 /\ pc' = "after" /\ failures' = failures /\ stack' = stack /\ depth' = depth
      \/ failures < MaxFailures /\ failures' = failures + 1 /\ Fails
  BY DEF Scalar, OutOfMemory
<1>4. content' = content /\ fate' = fate /\ length' = length /\ stack' = stack /\ depth' = depth
      /\ pc' \in {"after", "unwind"}
  BY <1>1, <1>3 DEF wire, Fails
<1>5. ParserSteps
  BY <1>1, <1>3, <1>4 DEF ParserSteps, ParsePlaces
<1>6. /\ length \in Nat /\ length > 0 /\ offset \in Nat /\ touched \in Nat /\ touched < length
      /\ depth \in 0 .. NestingLimit
  BY <1>5, Given DEF ParserSteps
<1>7. offset < length /\ Cell(offset).t = m
  BY <1>2, Reads
<1>8. NumbersInv' /\ BuildInv' /\ PrintInv' /\ TextInv' /\ ReadInv'
  <2>1. touched' \in Nat /\ touched' < length
    BY <1>1, <1>6, <1>7, LookFacts
  <2>2. offset' \in Nat
    <3>1. offset' = offset \/ offset' = offset + 1
      BY <1>3 DEF Fails
    <3>2. QED
      BY <1>6, <3>1
  <2>3. pc' # "element" /\ depth' \in 0 .. NestingLimit
    BY <1>4, <1>6
  <2>4. QED
    BY <1>5, <2>1, <2>2, <2>3, ParseRest
<1>9. Here \in DOMAIN items /\ Len(stack) = depth
  BY <1>1 DEF IInv, PlaceInv
<1>10. CASE failures < MaxFailures /\ failures' = failures + 1 /\ Fails
  <2>1. TreeInv' /\ CallsInv' /\ PlaceInv'
    BY <1>1, <1>10, FailsKeeps
  <2>2. CutInv'
    BY <1>5, <1>10, CutFails DEF Fails
  <2>3. WholeInv'
    <3>1. failures' # 0
      BY <1>5, <1>10, Given DEF ParserSteps
    <3>2. QED
      BY <3>1 DEF WholeInv
  <2>4. QED
    BY <1>8, <2>1, <2>2, <2>3 DEF IInv
<1>11. CASE /\ items' = [items EXCEPT ![Here] = Item(Cell(offset).t, items[Here].key, Cell(offset).v)]
            /\ offset' = offset + 1 /\ pc' = "after" /\ failures' = failures /\ stack' = stack /\ depth' = depth
  <2> PICK i : i = Item(Cell(offset).t, items[Here].key, Cell(offset).v)
    OBVIOUS
  <2> PICK p : p = Here
    OBVIOUS
  <2>1. i.kind \in Kinds /\ items' = [items EXCEPT ![p] = i]
    <3>1. i.kind = m
      BY <1>7, ValueKinds
    <3>2. QED
      BY <1>11, <3>1 DEF Kinds
  <2>2. /\ TreeInv' /\ DOMAIN items' = DOMAIN items
        /\ \A q \in DOMAIN items : items'[q] = IF q = p THEN i ELSE items[q]
    BY <2>1, Changed DEF IInv
  <2>3. CallsInv'
    BY <1>4, <2>2, CallsSame DEF IInv
  <2>4. PlaceInv'
    BY <1>4, <1>9, <1>11 DEF PlaceInv, FormatPlaces
  <2>5. CutInv'
    <3>1. SUFFICES ASSUME fate' = "cut" PROVE CutInv'
      BY DEF CutInv
    <3>2. /\ content' = content /\ content[1] \in {Mark(OpenBrace), NUL}
          /\ (\A k \in DOMAIN content : content[k].t \notin {CloseBrace, "]"})
          /\ (pc = "value" /\ stack = <<>> => offset = 0) /\ \A n : Is(0, n) => n \in {OpenBrace, "nul"}
      BY <1>5, <3>1, CutSoFar
    <3>3. stack # <<>>
      <4>1. SUFFICES ASSUME stack = <<>> PROVE FALSE
        OBVIOUS
      <4>2. m \in {OpenBrace, "nul"}
        BY <1>1, <1>2, <3>2, <4>1
      <4>3. QED
        BY <4>2, Signs
    <3>4. QED
      BY <1>4, <1>11, <3>2, <3>3 DEF CutInv
  <2>6. WholeInv'
    <3>1. SUFFICES ASSUME fate' = "whole", failures' = 0 PROVE WholeInv'
      BY DEF WholeInv
    <3>2. stack # <<>>
      <4>1. SUFFICES ASSUME stack = <<>> PROVE FALSE
        OBVIOUS
      <4>2. m = OpenBrace
        BY <1>1, <1>2, <1>5, <3>1, <4>1, WholeValue
      <4>3. QED
        BY <4>2, Signs
    <3>3. PICK n \in 1 .. 3 : Inside(n, n - 1) /\ offset = 7 * n - 1 /\ Here = <<n>> /\ Cell(offset) = Value[n]
      BY <1>1, <1>5, <3>1, <3>2, WholeValue
    <3>4. /\ stack = <<[path |-> <<>>, kind |-> "object", n |-> n]>>
          /\ DOMAIN items = {<<>>} \union {<<k>> : k \in 1 .. n}
          /\ \A k \in 1 .. n - 1 : items[<<k>>] = Item(Value[k].t, Members[k], Value[k].v)
          /\ items[<<n>>] = Item("none", Members[n], "")
      <4>1. n - 1 < n
        OBVIOUS
      <4>2. QED
        BY <3>3, <4>1 DEF Inside, Filled
    <3>5. i = Item(Value[n].t, Members[n], Value[n].v)
      <4>1. items[Here].key = Members[n]
        <5>1. items[Here] = Item("none", Members[n], "")
          BY <3>3, <3>4
        <5>2. Item("none", Members[n], "").key = Members[n]
          BY DEF Item
        <5>3. QED
          BY <5>1, <5>2
      <4>2. i = Item(Cell(offset).t, items[Here].key, Cell(offset).v)
        OBVIOUS
      <4>3. QED
        BY <3>3, <4>1, <4>2
    <3>6. \A k \in 1 .. n : items'[<<k>>] = Item(Value[k].t, Members[k], Value[k].v)
      <4>1. TAKE k \in 1 .. n
      <4>2. <<k>> \in DOMAIN items
        BY <3>4
      <4>3. CASE k = n
        BY <2>2, <3>3, <3>5, <4>2, <4>3
      <4>4. CASE k # n
        <5>1. k \in 1 .. n - 1 /\ <<k>> # <<n>>
          BY <4>4
        <5>2. QED
          BY <2>2, <3>3, <3>4, <4>2, <5>1
      <4>5. QED
        BY <4>3, <4>4
    <3>7. Inside(n, n)'
      <4>1. ~(n < n)
        OBVIOUS
      <4>2. QED
        BY <1>4, <2>2, <3>4, <3>6, <4>1 DEF Inside, Filled
    <3>8. offset' = 7 * n
      <4>1. offset' = 7 * n - 1 + 1
        BY <1>11, <3>3
      <4>2. QED
        BY <4>1
    <3>9. Len(Printed) < length' /\ \A k \in DOMAIN Printed : content'[k] = Printed[k]
      BY <1>5, <3>1, WholeSoFar
    <3>10. QED
      BY <1>4, <1>11, <3>2, <3>7, <3>8, <3>9 DEF WholeInv
  <2>7. QED
    BY <1>8, <2>2, <2>3, <2>4, <2>5, <2>6 DEF IInv
<1>12. QED
  BY <1>3, <1>10, <1>11

\* An object or an array up to its first element.
LEMMA OpenKeeps ==
  ASSUME IInv, NEW kind \in DOMAIN Opening, Open(kind)
  PROVE  IInv'
<1> PICK first : first = Skip(offset + 1)
  OBVIOUS
<1>1. /\ pc = "value" /\ Is(offset, Opening[kind]) /\ depth < NestingLimit /\ Look(first)
      /\ UNCHANGED <<failures, printer, length, wire>>
  BY DEF Open
<1>2. \/ /\ Is(first, Closing[kind])
         /\ items' = [items EXCEPT ![Here] = Item(kind, items[Here].key, "")]
         /\ offset' = first + 1 /\ pc' = "after" /\ stack' = stack /\ depth' = depth
      \/ /\ ~Is(first, Closing[kind]) /\ first < length
         /\ stack' = Append(stack, [path |-> Here, kind |-> kind, n |-> 0])
         /\ depth' = depth + 1 /\ offset' = first - 1 /\ pc' = "element" /\ items' = items
      \/ ~Is(first, Closing[kind]) /\ ~(first < length) /\ Fails
  BY DEF Open
<1>3. /\ failures' = failures /\ content' = content /\ fate' = fate /\ length' = length
      /\ pc' \in {"after", "element", "unwind"} /\ kind \in {"object", "array"}
  BY <1>1, <1>2, Brackets DEF wire, Fails
<1>4. ParserSteps
  BY <1>1, <1>3 DEF ParserSteps, ParsePlaces
<1>5. /\ length \in Nat /\ length > 0 /\ offset \in Nat /\ touched \in Nat /\ touched < length
      /\ depth \in 0 .. NestingLimit /\ NestingLimit \in Nat
  BY <1>4, Given DEF ParserSteps
<1>6. first \in Nat /\ first >= 1
  <2>1. offset + 1 \in Nat
    BY <1>5
  <2>2. first \in Nat /\ (offset + 1 >= length => first = offset + 1) /\ (offset + 1 < length => first \in offset + 1 .. length - 1)
    BY <1>5, <2>1, SkipFacts
  <2>3. QED
    BY <1>5, <2>2
<1>7. NumbersInv' /\ BuildInv' /\ PrintInv' /\ TextInv' /\ ReadInv'
  <2>1. touched' \in Nat /\ touched' < length
    BY <1>1, <1>5, <1>6, LookFacts
  <2>2. offset' \in Nat
    <3>1. offset' = offset \/ offset' = first + 1 \/ offset' = first - 1
      BY <1>2 DEF Fails
    <3>2. QED
      BY <1>5, <1>6, <3>1
  <2>3. depth' \in 0 .. NestingLimit
    <3>1. (depth' = depth \/ depth' = depth + 1) /\ depth < NestingLimit
      BY <1>1, <1>2 DEF Fails
    <3>2. QED
      BY <1>5, <3>1
  <2>4. pc' = "element" => offset' + 1 < length
    <3>1. pc' = "element" => offset' = first - 1 /\ first < length
      BY <1>2 DEF Fails
    <3>2. QED
      BY <1>6, <3>1
  <2>5. QED
    BY <1>4, <2>1, <2>2, <2>3, <2>4, ParseRest
<1>8. Here \in DOMAIN items /\ Children(Here) = {} /\ Len(stack) = depth
  BY <1>1 DEF IInv, PlaceInv
<1>9. CASE /\ Is(first, Closing[kind])
           /\ items' = [items EXCEPT ![Here] = Item(kind, items[Here].key, "")]
           /\ offset' = first + 1 /\ pc' = "after" /\ stack' = stack /\ depth' = depth
  <2>1. TreeInv' /\ DOMAIN items' = DOMAIN items
    <3> PICK i : i = Item(kind, items[Here].key, "")
      OBVIOUS
    <3> PICK p : p = Here
      OBVIOUS
    <3>1. i.kind = kind
      BY DEF Item
    <3>2. i.kind \in Kinds /\ items' = [items EXCEPT ![p] = i]
      BY <1>3, <1>9, <3>1 DEF Kinds
    <3>3. QED
      BY <3>2, Changed DEF IInv
  <2>2. CallsInv'
    BY <1>9, <2>1, CallsSame DEF IInv
  <2>3. PlaceInv'
    BY <1>8, <1>9 DEF PlaceInv, FormatPlaces
  <2>4. CutInv'
    <3>1. SUFFICES ASSUME fate' = "cut" PROVE FALSE
      BY DEF CutInv
    <3>2. \A o \in Nat : \A m : Is(o, m) => m \notin {CloseBrace, "]"}
      BY <1>4, <3>1, CutSoFar
    <3>3. Closing[kind] \in {CloseBrace, "]"}
      BY <1>3, Brackets
    <3>4. QED
      BY <1>6, <1>9, <3>2, <3>3
  <2>5. WholeInv'
    <3>1. SUFFICES ASSUME fate' = "whole", failures' = 0 PROVE FALSE
      BY DEF WholeInv
    <3>2. /\ length \in Nat /\ Len(Printed) < length /\ \A k \in DOMAIN Printed : content[k] = Printed[k]
      BY <1>4, <3>1, WholeSoFar
    <3>3. stack = <<>>
      <4>1. SUFFICES ASSUME stack # <<>> PROVE FALSE
        OBVIOUS
      <4>2. PICK n \in 1 .. 3 : \A m : Is(offset, m) <=> Value[n].t = m
        BY <1>1, <1>4, <3>1, <4>1, WholeValue
      <4>3. Value[n].t = Opening[kind] /\ Value[n].t \in {"str", "num"} /\ Opening[kind] \in {OpenBrace, "["}
        BY <1>1, <1>3, <4>2, Brackets, ValueKinds
      <4>4. QED
        BY <4>3, Signs
    <3>4. offset = 0
      BY <1>1, <1>4, <3>1, <3>3, WholeValue
    <3>5. Skip(1) = 3 /\ (\A m : Is(3, m) <=> m = "str")
      BY <3>2, MemberPlaces
    <3>6. first = 3
      <4>1. offset + 1 = 1
        BY <3>4
      <4>2. first = Skip(1)
        BY <4>1
      <4>3. QED
        BY <3>5, <4>2
    <3>7. Closing[kind] = "str" /\ Closing[kind] \in {CloseBrace, "]"}
      BY <1>3, <1>9, <3>5, <3>6, Brackets
    <3>8. QED
      BY <3>7, Signs
  <2>6. QED
    BY <1>7, <2>1, <2>2, <2>3, <2>4, <2>5 DEF IInv
<1>10. CASE /\ ~Is(first, Closing[kind]) /\ first < length
            /\ stack' = Append(stack, [path |-> Here, kind |-> kind, n |-> 0])
            /\ depth' = depth + 1 /\ offset' = first - 1 /\ pc' = "element" /\ items' = items
  <2>1. TreeInv' /\ CallsInv' /\ Len(stack') = Len(stack) + 1 /\ stack' # <<>>
    BY <1>3, <1>8, <1>10, PushKeeps DEF IInv
  <2>2. PlaceInv'
    <3>1. Len(stack') = depth'
      BY <1>8, <1>10, <2>1
    <3>2. QED
      BY <1>10, <2>1, <3>1 DEF PlaceInv, FormatPlaces
  <2>3. CutInv'
    <3>1. SUFFICES ASSUME fate' = "cut" PROVE CutInv'
      BY DEF CutInv
    <3>2. /\ content' = content /\ content[1] \in {Mark(OpenBrace), NUL}
          /\ \A k \in DOMAIN content : content[k].t \notin {CloseBrace, "]"}
      BY <1>4, <3>1, CutSoFar
    <3>3. QED
      BY <1>10, <3>2 DEF CutInv
  <2>4. WholeInv'
    <3>1. SUFFICES ASSUME fate' = "whole", failures' = 0 PROVE WholeInv'
      BY DEF WholeInv
    <3>2. /\ length \in Nat /\ Len(Printed) < length /\ (\A k \in DOMAIN Printed : content[k] = Printed[k])
          /\ Len(Printed) < length' /\ \A k \in DOMAIN Printed : content'[k] = Printed[k]
      BY <1>4, <3>1, WholeSoFar
    <3>3. stack = <<>>
      <4>1. SUFFICES ASSUME stack # <<>> PROVE FALSE
        OBVIOUS
      <4>2. PICK n \in 1 .. 3 : \A m : Is(offset, m) <=> Value[n].t = m
        BY <1>1, <1>4, <3>1, <4>1, WholeValue
      <4>3. Value[n].t = Opening[kind] /\ Value[n].t \in {"str", "num"} /\ Opening[kind] \in {OpenBrace, "["}
        BY <1>1, <1>3, <4>2, Brackets, ValueKinds
      <4>4. QED
        BY <4>3, Signs
    <3>4. offset = 0 /\ DOMAIN items = {<<>>} /\ \A m : Is(offset, m) <=> m = OpenBrace
      BY <1>1, <1>4, <3>1, <3>3, WholeValue
    <3>5. Skip(1) = 3
      BY <3>2, MemberPlaces
    <3>6. offset' = 2
      <4>1. first = Skip(0 + 1) /\ 0 + 1 = 1
        BY <3>4
      <4>2. first = 3
        BY <3>5, <4>1
      <4>3. QED
        BY <1>10, <4>2
    <3>7. kind = "object"
      <4>1. Opening[kind] = OpenBrace
        BY <1>1, <3>4
      <4>2. OpenBrace # "["
        BY Signs
      <4>3. QED
        BY <1>3, <4>1, <4>2, Brackets
    <3>8. stack' = <<[path |-> <<>>, kind |-> "object", n |-> 0]>>
      <4> DEFINE g == [path |-> <<>>, kind |-> "object", n |-> 0]
      <4>1. Here = <<>>
        BY <3>3 DEF Here
      <4>2. stack' = Append(<<>>, g)
        BY <1>10, <3>3, <3>7, <4>1
      <4> HIDE DEF g
      <4>3. stack' = <<g>>
        BY <4>2
      <4>4. QED
        BY <4>3 DEF g
    <3>9. DOMAIN items' = {<<>>} \union {<<k>> : k \in 1 .. 0}
      <4>1. {<<k>> : k \in 1 .. 0} = {}
        OBVIOUS
      <4>2. QED
        BY <1>10, <3>4, <4>1
    <3>10. Inside(0, 0)'
      <4>1. 1 .. 0 = {} /\ ~(0 < 0)
        OBVIOUS
      <4>2. QED
        BY <3>8, <3>9, <4>1 DEF Inside, Filled
    <3>11. \E n \in 0 .. 2 : Inside(n, n)' /\ offset' = IF n = 0 THEN 2 ELSE 7 * n
      <4>1. 0 \in 0 .. 2
        OBVIOUS
      <4>2. QED
        BY <3>6, <3>10, <4>1
    <3>12. QED
      BY <1>10, <3>2, <3>11 DEF WholeInv
  <2>5. QED
    BY <1>7, <2>1, <2>2, <2>3, <2>4 DEF IInv
<1>11. CASE ~Is(first, Closing[kind]) /\ ~(first < length) /\ Fails
  <2>1. TreeInv' /\ CallsInv' /\ PlaceInv'
    BY <1>1, <1>11, FailsKeeps
  <2>2. CutInv'
    BY <1>4, <1>11, CutFails DEF Fails
  <2>3. WholeInv'
    <3>1. SUFFICES ASSUME fate' = "whole", failures' = 0 PROVE FALSE
      BY DEF WholeInv
    <3>2. /\ length \in Nat /\ Len(Printed) < length /\ \A k \in DOMAIN Printed : content[k] = Printed[k]
      BY <1>4, <3>1, WholeSoFar
    <3>3. 23 < length
      BY <3>2, PacketCells
    <3>4. stack = <<>>
      <4>1. SUFFICES ASSUME stack # <<>> PROVE FALSE
        OBVIOUS
      <4>2. PICK n \in 1 .. 3 : \A m : Is(offset, m) <=> Value[n].t = m
        BY <1>1, <1>4, <3>1, <4>1, WholeValue
      <4>3. Value[n].t = Opening[kind] /\ Value[n].t \in {"str", "num"} /\ Opening[kind] \in {OpenBrace, "["}
        BY <1>1, <1>3, <4>2, Brackets, ValueKinds
      <4>4. QED
        BY <4>3, Signs
    <3>5. offset = 0
      BY <1>1, <1>4, <3>1, <3>4, WholeValue
    <3>6. Skip(1) = 3
      BY <3>2, MemberPlaces
    <3>7. first = 3
      <4>1. first = Skip(0 + 1) /\ 0 + 1 = 1
        BY <3>5
      <4>2. QED
        BY <3>6, <4>1
    <3>8. QED
      BY <1>5, <1>11, <3>3, <3>7
  <2>4. QED
    BY <1>7, <2>1, <2>2, <2>3 DEF IInv
<1>12. QED
  BY <1>2, <1>9, <1>10, <1>11

\* No value, or one too many inside each other.
LEMMA NoValueKeeps ==
  ASSUME IInv, NoValue
  PROVE  IInv'
<1>1. /\ pc = "value" /\ Fails /\ Look(offset) /\ UNCHANGED <<failures, printer, length, wire>>
      /\ ~\E m \in {"lit", "str", "num"} : Is(offset, m)
      /\ (\E kind \in DOMAIN Opening : Is(offset, Opening[kind])) => depth >= NestingLimit
  BY DEF NoValue
<1>2. /\ failures' = failures /\ content' = content /\ fate' = fate /\ length' = length
      /\ pc' = "unwind" /\ offset' = offset /\ depth' = depth
  BY <1>1 DEF wire, Fails
<1>3. ParserSteps
  BY <1>1, <1>2 DEF ParserSteps, ParsePlaces
<1>4. /\ length \in Nat /\ length > 0 /\ offset \in Nat /\ touched \in Nat /\ touched < length
      /\ depth \in 0 .. NestingLimit /\ NestingLimit \in Nat \ {0}
  BY <1>3, Given DEF ParserSteps
<1>5. NumbersInv' /\ BuildInv' /\ PrintInv' /\ TextInv' /\ ReadInv'
  <2>1. touched' \in Nat /\ touched' < length
    BY <1>1, <1>4, LookFacts
  <2>2. offset' \in Nat /\ depth' \in 0 .. NestingLimit /\ pc' # "element"
    BY <1>2, <1>4
  <2>3. QED
    BY <1>3, <2>1, <2>2, ParseRest
<1>6. TreeInv' /\ CallsInv' /\ PlaceInv'
  BY <1>1, FailsKeeps
<1>7. CutInv'
  BY <1>2, <1>3, CutFails
<1>8. WholeInv'
  <2>1. SUFFICES ASSUME fate' = "whole", failures' = 0 PROVE FALSE
    BY DEF WholeInv
  <2>2. CASE stack = <<>>
    <3>1. depth = 0 /\ Is(offset, OpenBrace)
      BY <1>1, <1>3, <2>1, <2>2, WholeValue
    <3>2. depth >= NestingLimit
      BY <1>1, <3>1, Brackets
    <3>3. QED
      BY <1>4, <3>1, <3>2
  <2>3. CASE stack # <<>>
    <3>1. PICK n \in 1 .. 3 : \A m : Is(offset, m) <=> Value[n].t = m
      BY <1>1, <1>3, <2>1, <2>3, WholeValue
    <3>2. Is(offset, Value[n].t) /\ Value[n].t \in {"str", "num"}
      BY <3>1, ValueKinds
    <3>3. QED
      BY <1>1, <3>2
  <2>4. QED
    BY <2>2, <2>3
<1>9. QED
  BY <1>5, <1>6, <1>7, <1>8 DEF IInv

\* Where a whole packet's next member is.
LEMMA WholeElement ==
  ASSUME IInv, ParserSteps, pc = "element", fate' = "whole", failures' = 0
  PROVE  \E n \in 0 .. 2 :
           /\ Inside(n, n) /\ offset = (IF n = 0 THEN 2 ELSE 7 * n) /\ Last(stack).kind = "object"
           /\ Last(stack).path = <<>> /\ Last(stack).n = n /\ Len(stack) = 1
           /\ Skip(offset + 1) = 7 * n + 3 /\ Skip(7 * n + 3 + 1) = 7 * n + 4
           /\ Skip(7 * n + 4 + 1) = 7 * (n + 1) - 1
           /\ Is(7 * n + 3, "str") /\ Cell(7 * n + 3) = Str(Members[n + 1]) /\ Is(7 * n + 4, ":")
<1>1. /\ fate = "whole" /\ failures = 0
      /\ length \in Nat /\ Len(Printed) < length /\ \A k \in DOMAIN Printed : content[k] = Printed[k]
  BY WholeSoFar
<1>2. PICK n \in 0 .. 2 : Inside(n, n) /\ offset = IF n = 0 THEN 2 ELSE 7 * n
  BY <1>1 DEF IInv, WholeInv
<1>3. n \in Nat /\ offset \in Nat
  BY DEF IInv, NumbersInv
<1>4. Last(stack) = [path |-> <<>>, kind |-> "object", n |-> n] /\ Len(stack) = 1
  BY <1>2, <1>3, InsideIs
<1>5. Last(stack).kind = "object" /\ Last(stack).path = <<>> /\ Last(stack).n = n
  BY <1>4
<1>6. /\ Skip(offset + 1) = 7 * n + 3 /\ Skip(7 * n + 3 + 1) = 7 * n + 4
      /\ Skip(7 * n + 4 + 1) = 7 * (n + 1) - 1
      /\ Is(7 * n + 3, "str") /\ Cell(7 * n + 3) = Str(Members[n + 1]) /\ Is(7 * n + 4, ":")
  <2>1. \A k \in 0 .. 2, o \in Nat : o = (IF k = 0 THEN 2 ELSE 7 * k) =>
              /\ Skip(o + 1) = 7 * k + 3 /\ Skip(7 * k + 3 + 1) = 7 * k + 4
              /\ Skip(7 * k + 4 + 1) = 7 * (k + 1) - 1
              /\ Is(7 * k + 3, "str") /\ Cell(7 * k + 3) = Str(Members[k + 1]) /\ Is(7 * k + 4, ":")
    BY <1>1, MemberPlaces
  <2>2. QED
    BY <1>2, <1>3, <2>1
<1>7. QED
  BY <1>2, <1>4, <1>5, <1>6

\* An item that is hung up under a call is the next to be parsed.
LEMMA HungKeeps ==
  ASSUME IInv, NEW key, Hang(key), stack # <<>>, pc = "element", pc' \in {"value", "unwind"}, depth' = depth
  PROVE  TreeInv' /\ CallsInv' /\ PlaceInv'
<1>1. /\ TreeInv' /\ CallsInv' /\ Len(stack') = Len(stack) /\ stack' # <<>>
      /\ Here' \in DOMAIN items' /\ Children(Here)' = {}
  BY HangKeeps DEF IInv
<1>2. Len(stack) = depth
  BY DEF IInv, PlaceInv
<1>3. Len(stack') = depth'
  BY <1>1, <1>2
<1>4. PlaceInv'
  BY <1>1, <1>3 DEF PlaceInv, FormatPlaces
<1>5. QED
  BY <1>1, <1>4

\* An item that could not be allocated leaves the tree and the calls to the unwinding.
LEMMA NotHungKeeps ==
  ASSUME IInv, stack # <<>>, pc' = "unwind", UNCHANGED <<items, stack>>
  PROVE  TreeInv' /\ CallsInv' /\ PlaceInv'
<1>1. items' = items /\ stack' = stack /\ DOMAIN items' = DOMAIN items
  OBVIOUS
<1>2. TreeInv'
  BY <1>1 DEF IInv, TreeInv
<1>3. CallsInv'
  BY <1>1, CallsSame DEF IInv
<1>4. PlaceInv'
  BY <1>1 DEF PlaceInv, FormatPlaces
<1>5. QED
  BY <1>2, <1>3, <1>4

\* A text that was cut is still one behind a value's place.
LEMMA CutGoesOn ==
  ASSUME IInv, ParserSteps, pc' \in {"value", "unwind", "element"}, pc' = "value" => stack' # <<>>
  PROVE  CutInv'
<1>1. SUFFICES ASSUME fate' = "cut" PROVE CutInv'
  BY DEF CutInv
<1>2. /\ content' = content /\ content[1] \in {Mark(OpenBrace), NUL}
      /\ \A k \in DOMAIN content : content[k].t \notin {CloseBrace, "]"}
  BY <1>1, CutSoFar
<1>3. QED
  BY <1>2 DEF CutInv

\* The next element of an array.
LEMMA ElementKeeps ==
  ASSUME IInv, Element
  PROVE  IInv'
<1> PICK start : start = Skip(offset + 1)
  OBVIOUS
<1>1. /\ pc = "element" /\ Last(stack).kind = "array" /\ Look(start) /\ UNCHANGED <<printer, length, depth, wire>>
      /\ \/ Hang("") /\ pc' = "value" /\ offset' = start /\ failures' = failures
         \/ /\ failures < MaxFailures /\ failures' = failures + 1 /\ pc' = "unwind"
            /\ UNCHANGED <<items, stack>> /\ offset' = offset
  BY DEF Element, OutOfMemory
<1>2. content' = content /\ fate' = fate /\ length' = length /\ depth' = depth /\ pc' \in {"value", "unwind"}
  BY <1>1 DEF wire
<1>3. ParserSteps
  BY <1>1, <1>2 DEF ParserSteps, ParsePlaces
<1>4. /\ length \in Nat /\ length > 0 /\ offset \in Nat /\ touched \in Nat /\ touched < length
      /\ depth \in 0 .. NestingLimit
  BY <1>3, Given DEF ParserSteps
<1>5. start \in Nat
  <2>1. offset + 1 \in Nat
    BY <1>4
  <2>2. QED
    BY <1>4, <2>1, SkipFacts
<1>6. NumbersInv' /\ BuildInv' /\ PrintInv' /\ TextInv' /\ ReadInv'
  <2>1. touched' \in Nat /\ touched' < length
    BY <1>1, <1>4, <1>5, LookFacts
  <2>2. offset' \in Nat
    BY <1>1, <1>4, <1>5
  <2>3. pc' # "element" /\ depth' \in 0 .. NestingLimit
    BY <1>2, <1>4
  <2>4. QED
    BY <1>3, <2>1, <2>2, <2>3, ParseRest
<1>7. stack # <<>>
  BY <1>1 DEF IInv, PlaceInv
<1>8. TreeInv' /\ CallsInv' /\ PlaceInv'
  BY <1>1, <1>2, <1>7, HungKeeps, NotHungKeeps
<1>9. CutInv'
  <2>1. pc' = "value" => stack' # <<>>
    BY <1>1, <1>7, HangKeeps DEF IInv
  <2>2. QED
    BY <1>2, <1>3, <2>1, CutGoesOn
<1>10. WholeInv'
  <2>1. SUFFICES ASSUME fate' = "whole", failures' = 0 PROVE FALSE
    BY DEF WholeInv
  <2>2. Last(stack).kind = "object"
    BY <1>1, <1>3, <2>1, WholeElement
  <2>3. QED
    BY <1>1, <2>2
<1>11. QED
  BY <1>6, <1>8, <1>9, <1>10 DEF IInv

\* The next member of an object.
LEMMA MemberKeeps ==
  ASSUME IInv, Member
  PROVE  IInv'
<1> PICK start : start = Skip(offset + 1)
  OBVIOUS
<1> PICK colon : colon = Skip(start + 1)
  OBVIOUS
<1>1. pc = "element" /\ Last(stack).kind = "object" /\ Touch(start) /\ UNCHANGED <<printer, length, depth, wire>>
  BY DEF Member
<1>2. \/ /\ Is(start, "str") /\ Is(colon, ":") /\ Hang(Cell(start).v)
         /\ pc' = "value" /\ offset' = Skip(colon + 1) /\ failures' = failures
      \/ /\ Is(start, "str") /\ ~Is(colon, ":") /\ Hang(Cell(start).v)
         /\ pc' = "unwind" /\ offset' = start /\ failures' = failures
      \/ /\ ~Is(start, "str") /\ Hang("")
         /\ pc' = "unwind" /\ offset' = start /\ failures' = failures
      \/ /\ failures < MaxFailures /\ failures' = failures + 1 /\ Hang("") /\ pc' = "unwind" /\ offset' = start
      \/ /\ failures < MaxFailures /\ failures' = failures + 1 /\ pc' = "unwind"
         /\ UNCHANGED <<items, stack>> /\ offset' = offset
  BY DEF Member, OutOfMemory
<1>3. content' = content /\ fate' = fate /\ length' = length /\ depth' = depth /\ pc' \in {"value", "unwind"}
  BY <1>1, <1>2 DEF wire
<1>4. failures' = failures \/ (failures < MaxFailures /\ failures' = failures + 1)
  BY <1>2
<1>5. ParserSteps
  BY <1>1, <1>3, <1>4 DEF ParserSteps, ParsePlaces
<1>6. /\ length \in Nat /\ length > 0 /\ offset \in Nat /\ touched \in Nat /\ touched < length
      /\ depth \in 0 .. NestingLimit /\ fate # "none" /\ failures \in 0 .. MaxFailures
  BY <1>5, Given DEF ParserSteps
<1>7. start \in Nat /\ start < length
  <2>1. offset + 1 < length
    BY <1>1, <1>6 DEF IInv, ReadInv
  <2>2. offset + 1 \in Nat
    BY <1>6
  <2>3. start \in offset + 1 .. length - 1
    BY <1>6, <2>1, <2>2, SkipFacts
  <2>4. QED
    BY <1>6, <2>3
<1>8. colon \in Nat /\ Skip(colon + 1) \in Nat
  <2>1. start + 1 \in Nat
    BY <1>7
  <2>2. colon \in Nat
    BY <1>6, <2>1, SkipFacts
  <2>3. colon + 1 \in Nat
    BY <2>2
  <2>4. QED
    BY <1>6, <2>2, <2>3, SkipFacts
<1>9. NumbersInv' /\ BuildInv' /\ PrintInv' /\ TextInv' /\ ReadInv'
  <2>1. touched' \in Nat /\ touched' < length
    BY <1>1, <1>6, <1>7, LookFacts
  <2>2. offset' \in Nat
    <3>1. offset' = Skip(colon + 1) \/ offset' = start \/ offset' = offset
      BY <1>2
    <3>2. QED
      BY <1>6, <1>7, <1>8, <3>1
  <2>3. pc' # "element" /\ depth' \in 0 .. NestingLimit
    BY <1>3, <1>6
  <2>4. QED
    BY <1>5, <2>1, <2>2, <2>3, ParseRest
<1>10. stack # <<>>
  BY <1>1 DEF IInv, PlaceInv
<1>11. (\E key : Hang(key)) \/ (pc' = "unwind" /\ UNCHANGED <<items, stack>>)
  BY <1>2
<1>12. TreeInv' /\ CallsInv' /\ PlaceInv' /\ (pc' = "value" => stack' # <<>>)
  <2>1. CASE pc' = "unwind" /\ UNCHANGED <<items, stack>>
    BY <1>10, <2>1, NotHungKeeps
  <2>2. CASE \E key : Hang(key)
    <3>1. PICK key : Hang(key)
      BY <2>2
    <3>2. TreeInv' /\ CallsInv' /\ PlaceInv'
      BY <1>1, <1>3, <1>10, <3>1, HungKeeps
    <3>3. stack' # <<>>
      BY <1>10, <3>1, HangKeeps DEF IInv
    <3>4. QED
      BY <3>2, <3>3
  <2>3. QED
    BY <1>11, <2>1, <2>2
<1>13. CutInv'
  BY <1>3, <1>5, <1>12, CutGoesOn
<1>14. WholeInv'
  <2>1. SUFFICES ASSUME fate' = "whole", failures' = 0 PROVE WholeInv'
    BY DEF WholeInv
  <2>2. PICK n \in 0 .. 2 :
           /\ Inside(n, n) /\ offset = (IF n = 0 THEN 2 ELSE 7 * n) /\ Last(stack).kind = "object"
           /\ Last(stack).path = <<>> /\ Last(stack).n = n /\ Len(stack) = 1
           /\ Skip(offset + 1) = 7 * n + 3 /\ Skip(7 * n + 3 + 1) = 7 * n + 4
           /\ Skip(7 * n + 4 + 1) = 7 * (n + 1) - 1
           /\ Is(7 * n + 3, "str") /\ Cell(7 * n + 3) = Str(Members[n + 1]) /\ Is(7 * n + 4, ":")
    BY <1>1, <1>5, <2>1, WholeElement
  <2>3. start = 7 * n + 3
    BY <2>2
  <2>4. colon = 7 * n + 4
    BY <2>2, <2>3
  <2>5. Is(start, "str") /\ Is(colon, ":") /\ Cell(start) = Str(Members[n + 1]) /\ Skip(colon + 1) = 7 * (n + 1) - 1
    BY <2>2, <2>3, <2>4
  <2>6. ~(failures' = failures + 1)
    BY <1>6, <2>1
  <2>7. Hang(Cell(start).v) /\ pc' = "value" /\ offset' = 7 * (n + 1) - 1
    BY <1>2, <2>5, <2>6
  <2>8. Cell(start).v = Members[n + 1]
    BY <2>5 DEF Str
  <2> PICK new : new = Append(Last(stack).path, Last(stack).n + 1)
    OBVIOUS
  <2>9. n \in Nat /\ n + 1 \in 1 .. 3 /\ n + 1 \in Nat \ {0} /\ n + 1 - 1 = n
    OBVIOUS
  <2>10. new = <<n + 1>>
    <3>1. \A k \in Nat \ {0} : Append(<<>>, k) = <<k>>
      BY OneStep
    <3>2. Append(<<>>, n + 1) = <<n + 1>>
      BY <2>9, <3>1
    <3>3. QED
      BY <2>2, <3>2
  <2>11. /\ Len(stack') = Len(stack) /\ stack' # <<>>
         /\ new \notin DOMAIN items /\ DOMAIN items' = DOMAIN items \union {new}
         /\ items'[new] = Item("none", Cell(start).v, "") /\ \A q \in DOMAIN items : items'[q] = items[q]
         /\ stack' \in Seq(Call)
         /\ stack'[Len(stack)] = [path |-> Last(stack).path, kind |-> Last(stack).kind, n |-> Last(stack).n + 1]
    BY <1>10, <2>7, HangKeeps DEF IInv
  <2>12. stack' = <<[path |-> <<>>, kind |-> "object", n |-> n + 1]>>
    <3> DEFINE g == [path |-> <<>>, kind |-> "object", n |-> n + 1]
    <3>1. stack'[1] = g /\ Len(stack') = 1 /\ stack' \in Seq(Call)
      BY <2>2, <2>11
    <3> HIDE DEF g
    <3>2. stack' = <<g>>
      BY <3>1
    <3>3. QED
      BY <3>2 DEF g
  <2>13. /\ DOMAIN items = {<<>>} \union {<<k>> : k \in 1 .. n}
         /\ \A k \in 1 .. n : items[<<k>>] = Item(Value[k].t, Members[k], Value[k].v)
    BY <2>2 DEF Inside, Filled
  <2>14. DOMAIN items' = {<<>>} \union {<<k>> : k \in 1 .. n + 1}
    <3>1. 1 .. n + 1 = 1 .. n \union {n + 1}
      BY <2>9
    <3>2. {<<k>> : k \in 1 .. n + 1} = {<<k>> : k \in 1 .. n} \union {<<n + 1>>}
      BY <3>1
    <3>3. QED
      BY <2>10, <2>11, <2>13, <3>2
  <2>15. \A k \in 1 .. n : items'[<<k>>] = Item(Value[k].t, Members[k], Value[k].v)
    BY <2>11, <2>13
  <2>16. items'[<<n + 1>>] = Item("none", Members[n + 1], "")
    BY <2>8, <2>10, <2>11
  <2>17. Inside(n + 1, n)'
    BY <2>12, <2>14, <2>15, <2>16 DEF Inside, Filled
  <2>18. \E k \in 1 .. 3 : Inside(k, k - 1)' /\ offset' = 7 * k - 1
    <3>1. PICK k \in 1 .. 3 : k = n + 1 /\ k - 1 = n
      BY <2>9
    <3>2. Inside(k, k - 1)'
      BY <2>17, <3>1
    <3>3. offset' = 7 * k - 1
      BY <2>7, <3>1
    <3>4. QED
      BY <3>2, <3>3
  <2>19. Len(Printed) < length' /\ \A k \in DOMAIN Printed : content'[k] = Printed[k]
    BY <1>5, <2>1, WholeSoFar
  <2>20. QED
    BY <2>7, <2>11, <2>18, <2>19 DEF WholeInv
<1>15. QED
  BY <1>9, <1>12, <1>13, <1>14 DEF IInv

\* The element behind a value, the end of its list, or neither, by the names of the signs.
LEMMA AfterIs ==
  ASSUME After
  PROVE  /\ pc = "after" /\ stack # <<>> /\ Look(Skip(offset)) /\ UNCHANGED <<failures, printer, length, wire>>
         /\ \/ Is(Skip(offset), Comma) /\ pc' = "element" /\ offset' = Skip(offset) /\ UNCHANGED <<items, stack, depth>>
            \/ /\ Closes(Skip(offset), Last(stack).kind)
               /\ items' = [items EXCEPT ![Last(stack).path] = Item(Last(stack).kind, @.key, "")]
               /\ stack' = Front(stack) /\ depth' = depth - 1 /\ offset' = Skip(offset) + 1 /\ pc' = "after"
            \/ ~Is(Skip(offset), Comma) /\ ~Closes(Skip(offset), Last(stack).kind) /\ Fails
BY Zenon DEF After, Comma

\* Where a whole packet goes on behind its n-th value.
LEMMA WholeAfter ==
  ASSUME IInv, ParserSteps, pc = "after", stack # <<>>, fate' = "whole", failures' = 0
  PROVE  \E n \in 1 .. 3 :
           /\ Inside(n, n) /\ Last(stack).kind = "object" /\ Last(stack).path = <<>> /\ Len(stack) = 1
           /\ n # 3 => n \in 1 .. 2 /\ Skip(offset) = 7 * n /\ \A m : Is(Skip(offset), m) <=> m = Comma
           /\ n = 3 => \A m : Is(Skip(offset), m) <=> m = CloseBrace
<1>1. /\ fate = "whole" /\ failures = 0
      /\ length \in Nat /\ Len(Printed) < length /\ \A k \in DOMAIN Printed : content[k] = Printed[k]
  BY WholeSoFar
<1>2. PICK n \in 1 .. 3 : Inside(n, n) /\ offset = 7 * n
  BY <1>1 DEF IInv, WholeInv
<1>3. n \in Nat
  OBVIOUS
<1>4. Last(stack) = [path |-> <<>>, kind |-> "object", n |-> n] /\ Len(stack) = 1
  BY <1>2, <1>3, InsideIs
<1>5. Last(stack).kind = "object" /\ Last(stack).path = <<>>
  BY <1>4
<1>6. /\ \A k \in 1 .. 2 : Skip(7 * k) = 7 * k /\ \A m : Is(7 * k, m) <=> m = Comma
      /\ Skip(7 * 3) = 22 /\ \A m : Is(22, m) <=> m = CloseBrace
  BY <1>1, MemberPlaces
<1>7. n # 3 => n \in 1 .. 2 /\ Skip(offset) = 7 * n /\ \A m : Is(Skip(offset), m) <=> m = Comma
  <2>1. SUFFICES ASSUME n # 3 PROVE n \in 1 .. 2 /\ Skip(offset) = 7 * n /\ \A m : Is(Skip(offset), m) <=> m = Comma
    OBVIOUS
  <2>2. n \in 1 .. 2
    BY <2>1
  <2>3. QED
    BY <1>2, <1>6, <2>2
<1>8. n = 3 => \A m : Is(Skip(offset), m) <=> m = CloseBrace
  <2>1. SUFFICES ASSUME n = 3 PROVE \A m : Is(Skip(offset), m) <=> m = CloseBrace
    OBVIOUS
  <2>2. offset = 7 * 3
    BY <1>2, <2>1
  <2>3. Skip(offset) = 22
    BY <1>6, <2>2
  <2>4. QED
    BY <1>6, <2>3
<1>9. QED
  BY <1>2, <1>4, <1>5, <1>7, <1>8

\* The element behind a value, the end of its list, or neither.
LEMMA AfterKeeps ==
  ASSUME IInv, After
  PROVE  IInv'
<1> PICK o : o = Skip(offset)
  OBVIOUS
<1>1. /\ pc = "after" /\ stack # <<>> /\ Look(o) /\ UNCHANGED <<failures, printer, length, wire>>
  BY AfterIs
<1>2. \/ Is(o, Comma) /\ pc' = "element" /\ offset' = o /\ UNCHANGED <<items, stack, depth>>
      \/ /\ Closes(o, Last(stack).kind)
         /\ items' = [items EXCEPT ![Last(stack).path] = Item(Last(stack).kind, @.key, "")]
         /\ stack' = Front(stack) /\ depth' = depth - 1 /\ offset' = o + 1 /\ pc' = "after"
      \/ ~Is(o, Comma) /\ ~Closes(o, Last(stack).kind) /\ Fails
  BY AfterIs
<1>3. /\ failures' = failures /\ content' = content /\ fate' = fate /\ length' = length
      /\ pc' \in {"after", "element", "unwind"}
  BY <1>1, <1>2 DEF wire, Fails
<1>4. ParserSteps
  BY <1>1, <1>3 DEF ParserSteps, ParsePlaces
<1>5. /\ length \in Nat /\ length > 0 /\ offset \in Nat /\ touched \in Nat /\ touched < length
      /\ depth \in 0 .. NestingLimit /\ content[length] = NUL /\ NestingLimit \in Nat
  BY <1>4, Given DEF ParserSteps
<1>6. o \in Nat
  BY <1>5, SkipFacts
<1>7. Len(stack) = depth /\ Len(stack) \in Nat /\ Len(stack) >= 1 /\ Last(stack).kind \in {"object", "array"}
  BY <1>1, LastCall DEF IInv, PlaceInv
<1>8. Closing[Last(stack).kind] \in {CloseBrace, "]"}
  BY <1>7, Brackets
<1>9. NumbersInv' /\ BuildInv' /\ PrintInv' /\ TextInv' /\ ReadInv'
  <2>1. touched' \in Nat /\ touched' < length
    BY <1>1, <1>5, <1>6, LookFacts
  <2>2. offset' \in Nat
    <3>1. offset' = offset \/ offset' = o \/ offset' = o + 1
      BY <1>2 DEF Fails
    <3>2. QED
      BY <1>5, <1>6, <3>1
  <2>3. depth' \in 0 .. NestingLimit
    <3>1. depth' = depth \/ depth' = depth - 1
      BY <1>2 DEF Fails
    <3>2. depth >= 1
      BY <1>7
    <3>3. QED
      BY <1>5, <3>1, <3>2
  <2>4. pc' = "element" => offset' + 1 < length
    <3>1. SUFFICES ASSUME pc' = "element" PROVE offset' + 1 < length
      OBVIOUS
    <3>2. Is(o, Comma) /\ offset' = o
      BY <1>2, <3>1 DEF Fails
    <3>3. o < length /\ content[o + 1].t = Comma
      BY <3>2 DEF Is
    <3>4. NUL.t = "nul" /\ Comma # "nul"
      BY Signs DEF NUL, Mark
    <3>5. o + 1 # length
      BY <1>5, <3>3, <3>4
    <3>6. QED
      BY <1>5, <1>6, <3>2, <3>3, <3>5
  <2>5. QED
    BY <1>4, <2>1, <2>2, <2>3, <2>4, ParseRest
<1>10. CASE Is(o, Comma) /\ pc' = "element" /\ offset' = o /\ UNCHANGED <<items, stack, depth>>
  <2>1. TreeInv' /\ CallsInv' /\ PlaceInv'
    <3>1. items' = items /\ stack' = stack /\ depth' = depth /\ DOMAIN items' = DOMAIN items
      BY <1>10
    <3>2. TreeInv'
      BY <3>1 DEF IInv, TreeInv
    <3>3. CallsInv'
      BY <3>1, CallsSame DEF IInv
    <3>4. PlaceInv'
      BY <1>1, <1>7, <1>10, <3>1 DEF PlaceInv, FormatPlaces
    <3>5. QED
      BY <3>2, <3>3, <3>4
  <2>2. CutInv'
    BY <1>4, <1>10, CutGoesOn
  <2>3. WholeInv'
    <3>1. SUFFICES ASSUME fate' = "whole", failures' = 0 PROVE WholeInv'
      BY DEF WholeInv
    <3>2. PICK n \in 1 .. 3 :
            /\ Inside(n, n)
            /\ n # 3 => n \in 1 .. 2 /\ o = 7 * n
            /\ n = 3 => \A m : Is(o, m) <=> m = CloseBrace
      BY <1>1, <1>4, <3>1, WholeAfter
    <3>3. n # 3
      BY <1>10, <3>2, Signs
    <3>4. n \in 0 .. 2 /\ n # 0
      BY <3>3
    <3>5. offset' = IF n = 0 THEN 2 ELSE 7 * n
      BY <1>10, <3>2, <3>3, <3>4
    <3>6. Inside(n, n)'
      BY <1>10, <3>2 DEF Inside, Filled
    <3>7. Len(Printed) < length' /\ \A k \in DOMAIN Printed : content'[k] = Printed[k]
      BY <1>4, <3>1, WholeSoFar
    <3>8. QED
      BY <1>10, <3>4, <3>5, <3>6, <3>7 DEF WholeInv
  <2>4. QED
    BY <1>9, <2>1, <2>2, <2>3 DEF IInv
<1>11. CASE /\ Closes(o, Last(stack).kind)
            /\ items' = [items EXCEPT ![Last(stack).path] = Item(Last(stack).kind, @.key, "")]
            /\ stack' = Front(stack) /\ depth' = depth - 1 /\ offset' = o + 1 /\ pc' = "after"
  <2>1. /\ TreeInv' /\ DOMAIN items' = DOMAIN items
        /\ \A q \in DOMAIN items : q # Last(stack).path => items'[q] = items[q]
    <3> PICK p : p = Last(stack).path
      OBVIOUS
    <3> PICK i : i = Item(Last(stack).kind, items[p].key, "")
      OBVIOUS
    <3>1. i.kind = Last(stack).kind
      BY DEF Item
    <3>2. i.kind \in Kinds
      BY <1>7, <3>1 DEF Kinds
    <3>3. items' = [items EXCEPT ![p] = i]
      BY <1>11
    <3>4. QED
      BY <3>2, <3>3, Changed DEF IInv
  <2>2. CallsInv' /\ Len(stack') = Len(stack) - 1
    BY <1>1, <1>11, <2>1, PopKeeps DEF IInv
  <2>3. PlaceInv'
    <3>1. Len(stack') = depth'
      BY <1>7, <1>11, <2>2
    <3>2. QED
      BY <1>11, <3>1 DEF PlaceInv, FormatPlaces
  <2>4. Is(o, Closing[Last(stack).kind])
    BY <1>11 DEF Closes
  <2>5. CutInv'
    <3>1. SUFFICES ASSUME fate' = "cut" PROVE FALSE
      BY DEF CutInv
    <3>2. \A e \in Nat : \A m : Is(e, m) => m \notin {CloseBrace, "]"}
      BY <1>4, <3>1, CutSoFar
    <3>3. QED
      BY <1>6, <1>8, <2>4, <3>2
  <2>6. WholeInv'
    <3>1. SUFFICES ASSUME fate' = "whole", failures' = 0 PROVE WholeInv'
      BY DEF WholeInv
    <3>2. PICK n \in 1 .. 3 :
            /\ Inside(n, n) /\ Last(stack).kind = "object" /\ Last(stack).path = <<>> /\ Len(stack) = 1
            /\ n # 3 => \A m : Is(o, m) <=> m = Comma
      BY <1>1, <1>4, <3>1, WholeAfter
    <3>3. n = 3
      <4>1. Closing[Last(stack).kind] = CloseBrace
        BY <3>2, Brackets
      <4>2. Comma # CloseBrace
        BY Signs
      <4>3. QED
        BY <2>4, <3>2, <4>1, <4>2
    <3>4. stack' = <<>>
      <4>1. stack' \in Seq(Call) /\ Len(stack') = 0
        BY <2>2, <3>2 DEF CallsInv
      <4>2. QED
        BY <4>1, EmptySeq
    <3>5. /\ DOMAIN items = {<<>>} \union {<<k>> : k \in 1 .. 3}
          /\ \A k \in 1 .. 3 : items[<<k>>] = Item(Value[k].t, Members[k], Value[k].v)
      BY <3>2, <3>3 DEF Inside, Filled
    <3>6. \A k \in 1 .. 3 : <<k>> # <<>> /\ <<k>> \in DOMAIN items
      BY <3>5
    <3>7. Filled(3)'
      BY <2>1, <3>2, <3>5, <3>6 DEF Filled
    <3>8. DOMAIN items' = {<<>>, << 1 >>, << 2 >>, << 3 >>}
      <4>1. 1 .. 3 = {1, 2, 3}
        OBVIOUS
      <4>2. {<<k>> : k \in 1 .. 3} = {<< 1 >>, << 2 >>, << 3 >>}
        BY <4>1
      <4>3. QED
        BY <2>1, <3>5, <4>2
    <3>9. Len(Printed) < length' /\ \A k \in DOMAIN Printed : content'[k] = Printed[k]
      BY <1>4, <3>1, WholeSoFar
    <3>10. QED
      BY <1>11, <3>4, <3>7, <3>8, <3>9 DEF WholeInv
  <2>7. QED
    BY <1>9, <2>1, <2>2, <2>3, <2>5, <2>6 DEF IInv
<1>12. CASE ~Is(o, Comma) /\ ~Closes(o, Last(stack).kind) /\ Fails
  <2>1. pc' = "unwind" /\ UNCHANGED <<items, stack>>
    BY <1>12 DEF Fails
  <2>2. TreeInv' /\ CallsInv' /\ PlaceInv'
    BY <1>1, <2>1, NotHungKeeps
  <2>3. CutInv'
    BY <1>4, <2>1, CutFails
  <2>4. WholeInv'
    <3>1. SUFFICES ASSUME fate' = "whole", failures' = 0 PROVE FALSE
      BY DEF WholeInv
    <3>2. PICK n \in 1 .. 3 :
            /\ Last(stack).kind = "object"
            /\ n # 3 => \A m : Is(o, m) <=> m = Comma
            /\ n = 3 => \A m : Is(o, m) <=> m = CloseBrace
      BY <1>1, <1>4, <3>1, WholeAfter
    <3>3. Is(o, Comma) \/ Is(o, CloseBrace)
      BY <3>2
    <3>4. Closing[Last(stack).kind] = CloseBrace
      BY <3>2, Brackets
    <3>5. QED
      BY <1>12, <3>3, <3>4 DEF Closes
  <2>5. QED
    BY <1>9, <2>2, <2>3, <2>4 DEF IInv
<1>13. QED
  BY <1>2, <1>10, <1>11, <1>12

\* A call that fails deletes its list.
LEMMA UnwindKeeps ==
  ASSUME IInv, Unwind
  PROVE  IInv'
<1>1. /\ pc = "unwind" /\ stack # <<>> /\ items' = WithoutChildren(Last(stack).path) /\ stack' = Front(stack)
      /\ UNCHANGED <<pc, failures, printer, length, offset, depth, touched, wire>>
  BY DEF Unwind
<1>2. /\ pc' = "unwind" /\ failures' = failures /\ length' = length /\ offset' = offset /\ depth' = depth
      /\ touched' = touched /\ content' = content /\ fate' = fate
  BY <1>1 DEF wire
<1>3. ParserSteps
  BY <1>1, <1>2 DEF ParserSteps, ParsePlaces
<1>4. NumbersInv' /\ BuildInv' /\ PrintInv' /\ TextInv' /\ ReadInv'
  <2>1. /\ length \in Nat /\ offset \in Nat /\ touched \in Nat /\ touched < length /\ depth \in 0 .. NestingLimit
    BY <1>3, Given DEF ParserSteps
  <2>2. QED
    BY <1>2, <1>3, <2>1, ParseRest
<1>5. TreeInv' /\ CallsInv' /\ (stack' = <<>> => DOMAIN items' = {<<>>})
  BY <1>1, DropKeeps DEF IInv
<1>6. PlaceInv'
  BY <1>2, <1>5 DEF PlaceInv, FormatPlaces
<1>7. CutInv'
  BY <1>2, <1>3, CutFails
<1>8. WholeInv'
  <2>1. SUFFICES ASSUME fate' = "whole", failures' = 0 PROVE FALSE
    BY DEF WholeInv
  <2>2. fate = "whole" /\ failures = 0
    BY <1>3, <2>1, WholeSoFar
  <2>3. QED
    BY <1>1, <2>2 DEF IInv, WholeInv
<1>9. QED
  BY <1>4, <1>5, <1>6, <1>7, <1>8 DEF IInv

\* The root goes last.
LEMMA RejectKeeps ==
  ASSUME IInv, Reject
  PROVE  IInv'
<1>1. /\ pc = "unwind" /\ stack = <<>> /\ items' = [q \in DOMAIN items \ {<<>>} |-> items[q]]
      /\ pc' = "rejected" /\ UNCHANGED <<failures, printer, length, offset, parser, wire>>
  BY DEF Reject
<1>2. /\ failures' = failures /\ length' = length /\ offset' = offset /\ depth' = depth /\ stack' = <<>>
      /\ touched' = touched /\ content' = content /\ fate' = fate
  BY <1>1 DEF wire, parser
<1>3. ParserSteps
  BY <1>1, <1>2 DEF ParserSteps, ParsePlaces
<1>4. NumbersInv' /\ BuildInv' /\ PrintInv' /\ TextInv' /\ ReadInv'
  <2>1. /\ length \in Nat /\ offset \in Nat /\ touched \in Nat /\ touched < length /\ depth \in 0 .. NestingLimit
    BY <1>3, Given DEF ParserSteps
  <2>2. QED
    BY <1>1, <1>2, <1>3, <2>1, ParseRest
<1>5. DOMAIN items \ {<<>>} = {}
  BY <1>1 DEF IInv, PlaceInv
<1>6. items' = NoItems
  BY <1>1, <1>5 DEF NoItems
<1>7. DOMAIN items' = {}
  BY <1>1, <1>5
<1>8. TreeInv'
  BY <1>7 DEF TreeInv
<1>9. CallsInv'
  BY <1>2 DEF CallsInv
<1>10. PlaceInv'
  <2>1. NoItems' = NoItems
    BY DEF NoItems
  <2>2. QED
    BY <1>1, <1>2, <1>6, <2>1 DEF PlaceInv, FormatPlaces
<1>11. CutInv'
  <2>1. SUFFICES ASSUME fate' = "cut" PROVE CutInv'
    BY DEF CutInv
  <2>2. /\ content' = content /\ content[1] \in {Mark(OpenBrace), NUL}
        /\ \A k \in DOMAIN content : content[k].t \notin {CloseBrace, "]"}
    BY <1>3, <2>1, CutSoFar
  <2>3. QED
    BY <1>1, <2>2 DEF CutInv
<1>12. WholeInv'
  <2>1. SUFFICES ASSUME fate' = "whole", failures' = 0 PROVE FALSE
    BY DEF WholeInv
  <2>2. fate = "whole" /\ failures = 0
    BY <1>3, <2>1, WholeSoFar
  <2>3. QED
    BY <1>1, <2>2 DEF IInv, WholeInv
<1>13. QED
  BY <1>4, <1>8, <1>9, <1>10, <1>11, <1>12 DEF IInv

-----------------------------------------------------------------------------
(* json_unformat keeps the invariant.                                      *)

\* The members of a packet are found by their names.
LEMMA FindIs ==
  ASSUME DOMAIN items = {<<>>} \union {<<j>> : j \in 1 .. 3}, Filled(3), NEW k \in 1 .. 3
  PROVE  Find(Members[k]) = Item(Value[k].t, Members[k], Value[k].v)
<1>1. Children(<<>>) = {<<j>> : j \in 1 .. 3}
  BY ObjectFacts
<1>2. \A j \in 1 .. 3 : items[<<j>>] = Item(Value[j].t, Members[j], Value[j].v)
  BY DEF Filled
<1>3. {q[1] : q \in Children(<<>>)} = 1 .. 3
  <2> DEFINE C == Children(<<>>)
  <2>1. \A j \in 1 .. 3 : <<j>>[1] = j
    OBVIOUS
  <2>2. \A j \in 1 .. 3 : <<j>> \in C
    BY <1>1
  <2>3. \A q \in C : q[1] \in 1 .. 3
    BY <1>1, <2>1
  <2> HIDE DEF C
  <2>4. {q[1] : q \in C} = 1 .. 3
    BY <2>1, <2>2, <2>3
  <2>5. QED
    BY <2>4 DEF C
<1>4. \A j \in 1 .. 3 : items[<<j>>].key = Members[j]
  BY <1>2, ValueKinds
<1>5. /\ Members[1] = "message" /\ Members[2] = "crc_checksum" /\ Members[3] = "flag_last"
      /\ DOMAIN Fold = {"MESSAGE"}
  BY DEF Members, Fold
<1>6. \A j \in 1 .. 3 : Lower(Members[j]) = Members[j] /\ (Members[j] = Members[k] => j = k)
  <2>1. TAKE j \in 1 .. 3
  <2>2. Members[j] # "MESSAGE"
    BY <1>5
  <2>3. QED
    BY <1>5, <2>2 DEF Lower
<1> DEFINE named == {j \in {q[1] : q \in Children(<<>>)} : Lower(items[<<j>>].key) = Members[k]}
           c == CHOOSE j \in named : \A i \in named : j <= i
<1>7. named = {k}
  BY <1>3, <1>4, <1>6
<1>8. Find(Members[k]) = IF named = {} THEN Item("absent", "", "") ELSE items[<<c>>]
  BY DEF Find
<1> HIDE DEF named
<1>9. c = k
  BY <1>7
<1> HIDE DEF c
<1>10. QED
  BY <1>2, <1>7, <1>8, <1>9

\* The members of an undamaged packet.
LEMMA WholeMembers ==
  ASSUME DOMAIN items = {<<>>, << 1 >>, << 2 >>, << 3 >>}, Filled(3)
  PROVE  /\ Find("message").kind = "str" /\ \A k \in 2 .. 3 : Find(Members[k]).kind # "absent"
         /\ Find("message").val = "text" /\ Double(Find("crc_checksum")) = "crc"
         /\ Double(Find("flag_last")) = "last"
<1>1. DOMAIN items = {<<>>} \union {<<j>> : j \in 1 .. 3}
  <2>1. 1 .. 3 = {1, 2, 3}
    OBVIOUS
  <2>2. {<<j>> : j \in 1 .. 3} = {<< 1 >>, << 2 >>, << 3 >>}
    BY <2>1
  <2>3. QED
    BY <2>2
<1>2. \A k \in 1 .. 3 : Find(Members[k]) = Item(Value[k].t, Members[k], Value[k].v)
  BY <1>1, FindIs
<1>3. /\ Members[1] = "message" /\ Members[2] = "crc_checksum" /\ Members[3] = "flag_last"
  BY DEF Members
<1>4. /\ Value[1] = Str("text") /\ Value[2] = Num("crc") /\ Value[3] = Num("last")
  BY DEF Value
<1>5. /\ Str("text").t = "str" /\ Str("text").v = "text" /\ Num("crc").t = "num" /\ Num("crc").v = "crc"
      /\ Num("last").t = "num" /\ Num("last").v = "last"
  BY DEF Str, Num
<1>6. /\ Find("message") = Item("str", "message", "text")
      /\ Find("crc_checksum") = Item("num", "crc_checksum", "crc")
      /\ Find("flag_last") = Item("num", "flag_last", "last")
  BY <1>2, <1>3, <1>4, <1>5
<1>7. /\ Find("message").kind = "str" /\ Find("message").val = "text"
      /\ Find("crc_checksum").kind = "num" /\ Find("crc_checksum").val = "crc"
      /\ Find("flag_last").kind = "num" /\ Find("flag_last").val = "last"
  BY <1>6 DEF Item
<1>8. \A k \in 2 .. 3 : Find(Members[k]).kind # "absent"
  <2>1. TAKE k \in 2 .. 3
  <2>2. k = 2 \/ k = 3
    OBVIOUS
  <2>3. QED
    BY <1>3, <1>7, <2>2
<1>9. QED
  BY <1>7, <1>8 DEF Double

\* The members are taken out, or the program is at its end.
LEMMA UnformatKeeps ==
  ASSUME IInv, Unformat
  PROVE  IInv'
<1>1. pc = "after" /\ stack = <<>> /\ UNCHANGED <<failures, printer, length, offset, parser, content, fate>>
  BY DEF Unformat, Accepted
<1>2. /\ failures' = failures /\ length' = length /\ offset' = offset /\ depth' = depth /\ stack' = <<>>
      /\ touched' = touched /\ content' = content /\ fate' = fate
  BY <1>1 DEF parser
<1>3. \/ /\ items' = NoItems /\ pc' = "done"
         /\ packet' = [message |-> Find("message").val,
                       crc_checksum |-> Double(Find("crc_checksum")),
                       flag_last |-> Double(Find("flag_last"))]
      \/ /\ ~(Find("message").kind = "str" /\ \A k \in 2 .. 3 : Find(Members[k]).kind # "absent")
         /\ pc' = "receiver_crashed" /\ items' = items
  BY DEF Unformat
<1>4. pc' \in {"done", "receiver_crashed"}
  BY <1>3
<1>5. ParserSteps
  BY <1>1, <1>2, <1>4 DEF ParserSteps, ParsePlaces
<1>6. NumbersInv' /\ BuildInv' /\ PrintInv' /\ TextInv' /\ ReadInv'
  <2>1. /\ length \in Nat /\ offset \in Nat /\ touched \in Nat /\ touched < length /\ depth \in 0 .. NestingLimit
    BY <1>5, Given DEF ParserSteps
  <2>2. pc' # "element"
    BY <1>4
  <2>3. QED
    BY <1>2, <1>5, <2>1, <2>2, ParseRest
<1>7. TreeInv'
  <2>1. CASE items' = items
    BY <2>1 DEF IInv, TreeInv
  <2>2. CASE items' = NoItems
    <3>1. DOMAIN items' = {}
      BY <2>2 DEF NoItems
    <3>2. QED
      BY <3>1 DEF TreeInv
  <2>3. QED
    BY <1>3, <2>1, <2>2
<1>8. CallsInv'
  BY <1>2 DEF CallsInv
<1>9. PlaceInv'
  <2>1. NoItems' = NoItems
    BY DEF NoItems
  <2>2. pc' = "done" => items' = NoItems
    BY <1>3
  <2>3. QED
    BY <1>2, <1>4, <2>1, <2>2 DEF PlaceInv, FormatPlaces
<1>10. CutInv'
  <2>1. SUFFICES ASSUME fate' = "cut" PROVE FALSE
    BY DEF CutInv
  <2>2. stack # <<>>
    BY <1>1, <1>5, <2>1, CutSoFar
  <2>3. QED
    BY <1>1, <2>2
<1>11. WholeInv'
  <2>1. SUFFICES ASSUME fate' = "whole", failures' = 0 PROVE WholeInv'
    BY DEF WholeInv
  <2>2. /\ fate = "whole" /\ failures = 0
        /\ Len(Printed) < length' /\ \A k \in DOMAIN Printed : content'[k] = Printed[k]
    BY <1>5, <2>1, WholeSoFar
  <2>3. DOMAIN items = {<<>>, << 1 >>, << 2 >>, << 3 >>} /\ Filled(3)
    BY <1>1, <2>2 DEF IInv, WholeInv
  <2>4. /\ Find("message").kind = "str" /\ (\A k \in 2 .. 3 : Find(Members[k]).kind # "absent")
        /\ Find("message").val = "text" /\ Double(Find("crc_checksum")) = "crc"
        /\ Double(Find("flag_last")) = "last"
    BY <2>3, WholeMembers
  <2>5. pc' = "done" /\ packet' = [message |-> "text", crc_checksum |-> "crc", flag_last |-> "last"]
    BY <1>3, <2>4
  <2>6. QED
    BY <2>2, <2>5 DEF WholeInv
<1>12. QED
  BY <1>6, <1>7, <1>8, <1>9, <1>10, <1>11 DEF IInv

\* Nothing is taken out of a text that was rejected.
LEMMA UnformatNothingKeeps ==
  ASSUME IInv, UnformatNothing
  PROVE  IInv'
<1>1. /\ pc = "rejected" /\ pc' = "receiver_crashed" /\ UNCHANGED <<tree, printer, length, offset, parser, wire>>
  BY DEF UnformatNothing
<1>2. /\ failures' = failures /\ length' = length /\ offset' = offset /\ depth' = depth /\ stack' = stack
      /\ touched' = touched /\ content' = content /\ fate' = fate /\ items' = items /\ stack = <<>>
  BY <1>1 DEF wire, parser, tree, IInv, PlaceInv
<1>3. ParserSteps
  BY <1>1, <1>2 DEF ParserSteps, ParsePlaces
<1>4. NumbersInv' /\ BuildInv' /\ PrintInv' /\ TextInv' /\ ReadInv'
  <2>1. /\ length \in Nat /\ offset \in Nat /\ touched \in Nat /\ touched < length /\ depth \in 0 .. NestingLimit
    BY <1>3, Given DEF ParserSteps
  <2>2. QED
    BY <1>1, <1>2, <1>3, <2>1, ParseRest
<1>5. TreeInv'
  BY <1>2 DEF IInv, TreeInv
<1>6. CallsInv'
  BY <1>2 DEF CallsInv
<1>7. PlaceInv'
  BY <1>1, <1>2 DEF PlaceInv, FormatPlaces
<1>8. CutInv'
  <2>1. SUFFICES ASSUME fate' = "cut" PROVE CutInv'
    BY DEF CutInv
  <2>2. /\ content' = content /\ content[1] \in {Mark(OpenBrace), NUL}
        /\ \A k \in DOMAIN content : content[k].t \notin {CloseBrace, "]"}
    BY <1>3, <2>1, CutSoFar
  <2>3. QED
    BY <1>1, <2>2 DEF CutInv
<1>9. WholeInv'
  <2>1. SUFFICES ASSUME fate' = "whole", failures' = 0 PROVE FALSE
    BY DEF WholeInv
  <2>2. fate = "whole" /\ failures = 0
    BY <1>3, <2>1, WholeSoFar
  <2>3. QED
    BY <1>1, <2>2 DEF IInv, WholeInv
<1>10. QED
  BY <1>4, <1>5, <1>6, <1>7, <1>8, <1>9 DEF IInv

-----------------------------------------------------------------------------
(* The invariant holds from the start and in every step.                   *)

\* It holds at the start.
LEMMA InitKeeps ==
  ASSUME Init
  PROVE  IInv
<1>1. /\ pc = "create" /\ items = [p \in {} |-> Blank] /\ failures = 0
      /\ width \in Widths /\ text = <<>> /\ piece = 1 /\ length = 0 /\ offset = 0
      /\ buffer = "none" /\ frees = 0 /\ high = 0 /\ nul = 0
      /\ content = <<>> /\ fate = "none" /\ depth = 0 /\ stack = <<>> /\ touched = 0
  BY DEF Init
<1>2. NumbersInv
  <2>1. MaxFailures \in Nat /\ NestingLimit \in Nat
    BY TextAssumption DEF TextAssumption
  <2>2. failures \in 0 .. MaxFailures /\ depth \in 0 .. NestingLimit
    BY <1>1, <2>1
  <2>3. /\ pc \in FormatPlaces \union ParsePlaces /\ (fate = "none" <=> pc \in FormatPlaces)
    BY <1>1 DEF FormatPlaces, ParsePlaces
  <2>4. QED
    BY <1>1, <2>2, <2>3 DEF NumbersInv
<1>3. DOMAIN items = {} /\ items = NoItems
  BY <1>1 DEF NoItems
<1>4. TreeInv
  BY <1>3 DEF TreeInv
<1>5. CallsInv
  BY <1>1 DEF CallsInv
<1>6. PlaceInv
  BY <1>1, <1>3 DEF PlaceInv
<1>7. BuildInv /\ PrintInv
  BY <1>1 DEF BuildInv, PrintInv, BufferFreedOnce
<1>8. TextInv
  <2>1. text \in Seq(Token) /\ DOMAIN text = {}
    BY <1>1
  <2>2. QED
    BY <1>1, <2>1 DEF TextInv
<1>9. ReadInv /\ CutInv /\ WholeInv
  BY <1>1 DEF ReadInv, CutInv, WholeInv
<1>10. QED
  BY <1>2, <1>4, <1>5, <1>6, <1>7, <1>8, <1>9 DEF IInv

\* It holds on when nothing happens.
LEMMA StutterKeeps ==
  ASSUME IInv, UNCHANGED vars
  PROVE  IInv'
<1>1. /\ pc' = pc /\ items' = items /\ failures' = failures /\ text' = text /\ piece' = piece /\ buffer' = buffer
      /\ frees' = frees /\ high' = high /\ nul' = nul /\ width' = width /\ length' = length /\ offset' = offset
      /\ depth' = depth /\ stack' = stack /\ touched' = touched /\ content' = content /\ fate' = fate
      /\ packet' = packet
  BY DEF vars, tree, printer, parser, wire
<1>2. NumbersInv'
  BY <1>1 DEF IInv, NumbersInv
<1>3. TreeInv'
  BY <1>1 DEF IInv, TreeInv
<1>4. CallsInv'
  BY <1>1, CallsSame DEF IInv
<1>5. PlaceInv'
  <2>1. NoItems' = NoItems
    BY DEF NoItems
  <2>2. Here' = Here
    BY <1>1 DEF Here
  <2>3. Children(Here)' = Children(Here)
    BY <1>1, <2>2 DEF Children
  <2>4. QED
    BY <1>1, <2>1, <2>2, <2>3 DEF IInv, PlaceInv
<1>6. \A n : (Object(n)' <=> Object(n)) /\ (Filled(n)' <=> Filled(n))
  BY <1>1 DEF Object, Filled
<1>7. Passed' = Passed
  BY <1>1 DEF Passed
<1>8. BuildInv'
  <2>1. NoItems' = NoItems
    BY DEF NoItems
  <2>2. SUFFICES ASSUME pc \in {"message", "crc_checksum", "flag_last", "print", "pieces"}
                 PROVE  /\ items' = NoItems' \/ \E n \in 0 .. Passed' : Object(n)'
                        /\ failures' = 0 => Object(Passed)' /\ Filled(Passed)'
                        /\ pc' = "pieces" => items' # NoItems'
    BY <1>1 DEF BuildInv
  <2>3. /\ items = NoItems \/ \E n \in 0 .. Passed : Object(n)
        /\ failures = 0 => Object(Passed) /\ Filled(Passed)
        /\ pc = "pieces" => items # NoItems
    BY <2>2 DEF IInv, BuildInv
  <2>4. (Object(Passed)' <=> Object(Passed)) /\ (Filled(Passed)' <=> Filled(Passed))
    BY <1>1, <1>7 DEF Object, Filled
  <2>5. QED
    BY <1>1, <1>6, <1>7, <2>1, <2>3, <2>4
<1>9. Pieces' = Pieces
  BY <1>1, PiecesSame
<1>10. PrintInv'
  <2>1. Ends(Pieces)' = Ends(Pieces)
    BY <1>9 DEF Ends
  <2>2. QED
    BY <1>1, <1>9, <2>1 DEF IInv, PrintInv, BufferFreedOnce
<1>11. TextInv'
  BY <1>1, <1>9, Zenon DEF IInv, TextInv
<1>12. ReadInv'
  BY <1>1 DEF IInv, ReadInv
<1>13. CutInv'
  BY <1>1 DEF IInv, CutInv
<1>14. WholeInv'
  <2>1. \A n, m : Inside(n, m)' <=> Inside(n, m)
    BY <1>1, <1>6 DEF Inside, Filled
  <2>2. \A n : Inside(n, n - 1)' <=> Inside(n, n - 1)
    BY <2>1
  <2>3. QED
    BY <1>1, <1>6, <2>1, <2>2 DEF IInv, WholeInv
<1>15. QED
  BY <1>2, <1>3, <1>4, <1>5, <1>8, <1>10, <1>11, <1>12, <1>13, <1>14 DEF IInv

\* Every step keeps it.
LEMMA NextKeeps ==
  ASSUME IInv, [Next]_vars
  PROVE  IInv'
<1>1. CASE Format
  BY <1>1, CreateObjectKeeps, AddMemberKeeps, StartPrintKeeps, PrintPieceKeeps, NoRoomKeeps, ReallocKeeps,
     FinishPrintKeeps, FailPrintKeeps DEF Format
<1>2. CASE Travel
  BY <1>2, ArrivesKeeps, IsCutKeeps, IsDamagedKeeps DEF Travel
<1>3. CASE Parse
  BY <1>3, StartParseKeeps, ScalarKeeps, OpenKeeps, NoValueKeeps, ElementKeeps, MemberKeeps, AfterKeeps,
     UnwindKeeps, RejectKeeps DEF Parse
<1>4. CASE Unformat
  BY <1>4, UnformatKeeps
<1>5. CASE UnformatNothing
  BY <1>5, UnformatNothingKeeps
<1>6. CASE Ended
  BY <1>6, StutterKeeps DEF Ended
<1>7. CASE UNCHANGED vars
  BY <1>7, StutterKeeps
<1>8. QED
  BY <1>1, <1>2, <1>3, <1>4, <1>5, <1>6, <1>7 DEF Next

\* The invariant the others follow from: where printer and parser are, what tree
\* and what text they have, and how they belong together.
THEOREM Invariance == Spec => []IInv
<1>1. Init => IInv
  BY InitKeeps
<1>2. IInv /\ [Next]_vars => IInv'
  BY NextKeeps
<1>3. QED
  BY <1>1, <1>2, PTL DEF Spec

\* Every variable has its type, the items are a tree without gaps, and the calls
\* under way are each for an item inside the one before it (cJSON.c:1391-1727).
THEOREM TypeCorrect == Spec => []TypeOK
<1>1. IInv => TypeOK
  <2>1. SUFFICES ASSUME IInv PROVE TypeOK
    OBVIOUS
  <2>2. /\ width \in Widths \union {0} /\ failures \in 0 .. MaxFailures
        /\ {length, offset, high, nul, frees, touched, piece} \subseteq Nat
        /\ buffer \in {"none", "live", "null", "returned"}
        /\ fate \in {"none", "whole", "cut", "damaged"} /\ depth \in 0 .. NestingLimit
    BY <2>1 DEF IInv, NumbersInv
  <2>3. \A q \in DOMAIN items :
          /\ items[q].kind \in {"none", "object", "array", "str", "num", "lit"}
          /\ q # <<>> => Front(q) \in DOMAIN items
          /\ q # <<>> /\ Last(q) > 1 => Append(Front(q), Last(q) - 1) \in DOMAIN items
    BY <2>1 DEF IInv, TreeInv
  <2>4. pc \in {"value", "element", "after"} => Len(stack) = depth
    BY <2>1 DEF IInv, PlaceInv
  <2>5. ASSUME NEW k \in DOMAIN stack
        PROVE  /\ stack[k].path \in DOMAIN items
               /\ stack[k].n = Cardinality(Children(stack[k].path))
               /\ k > 1 => stack[k].path = Append(stack[k - 1].path, stack[k - 1].n)
    <3>1. /\ stack[k].path \in DOMAIN items
          /\ Children(stack[k].path) = {Append(stack[k].path, i) : i \in 1 .. stack[k].n}
          /\ k > 1 => stack[k].path = Append(stack[k - 1].path, stack[k - 1].n)
      BY <2>1 DEF IInv, CallsInv
    <3>2. stack[k].n \in Nat /\ stack[k].path \in Path
      <4>1. stack \in Seq(Call)
        BY <2>1 DEF IInv, CallsInv
      <4>2. stack[k] \in Call
        BY <4>1
      <4>3. QED
        BY <4>2 DEF Call
    <3>3. QED
      BY <3>1, <3>2, ListCard
  <2>6. QED
    BY <2>2, <2>3, <2>4, <2>5 DEF TypeOK
<1>2. QED
  BY <1>1, Invariance, PTL

\* Whatever the widths and the size of the buffer, and whatever is parsed, neither
\* printer nor parser leaves its buffer, and the printer counts what it has
\* written (cJSON.c:445-535, 1045-1058).
THEOREM AlwaysInBounds == Spec => []InBounds
<1>1. IInv => InBounds
  <2>1. SUFFICES ASSUME IInv PROVE InBounds
    OBVIOUS
  <2>2. PrintFits /\ OffsetCounts
    BY <2>1 DEF IInv, PrintInv, PrintFits, OffsetCounts
  <2>3. ReadsInBounds
    BY <2>1 DEF IInv, ReadInv, ReadsInBounds
  <2>4. QED
    BY <2>2, <2>3 DEF InBounds
<1>2. QED
  BY <1>1, Invariance, PTL

\* Whatever allocation fails and whatever is parsed, the print buffer is freed
\* once and no item is left behind at either end (middle.c:288, 301;
\* cJSON.c:489-500, 1143-1146, 1529-1533, 1704-1708).
THEOREM AlwaysFreedOnce == Spec => []FreedOnce
<1>1. IInv => FreedOnce
  <2>1. SUFFICES ASSUME IInv PROVE FreedOnce
    OBVIOUS
  <2>2. BufferFreedOnce
    BY <2>1 DEF IInv, PrintInv
  <2>3. NoLeak
    BY <2>1 DEF IInv, PlaceInv, NoLeak
  <2>4. QED
    BY <2>2, <2>3 DEF FreedOnce
<1>2. QED
  BY <1>1, Invariance, PTL

\* A packet arrives as it was or, cut short, not at all, whatever lies in memory
\* behind it (middle.c:278-302, cJSON.c:1684-1689).
THEOREM AlwaysWholeOrNothing == Spec => []WholeOrNothing
<1>1. IInv => WholeOrNothing
  <2>1. SUFFICES ASSUME IInv PROVE WholeOrNothing
    OBVIOUS
  <2>2. ArrivesWhole
    BY <2>1 DEF IInv, WholeInv, ArrivesWhole
  <2>3. CutRejected
    BY <2>1 DEF IInv, CutInv, CutRejected, Accepted
  <2>4. QED
    BY <2>2, <2>3 DEF WholeOrNothing
<1>2. QED
  BY <1>1, Invariance, PTL

=============================================================================
