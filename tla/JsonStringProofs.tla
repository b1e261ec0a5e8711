-------------------------- MODULE JsonStringProofs --------------------------
(***************************************************************************)
(* Theorems about JsonString, for every text and for every input: what one *)
(* loop counts is enough for the other, a text comes back as it was, and   *)
(* what is decoded is UTF-8.                                               *)
(***************************************************************************)
EXTENDS JsonString, SequenceTheorems, WellFoundedInduction, TLAPS

\* How many bytes escaping has added before the k-th character and with it.
Added(s) ==
  CHOOSE f \in [0 .. Len(s) -> Nat] :
    f[0] = 0 /\ \A k \in 1 .. Len(s) : f[k] = f[k - 1] + Escapes(s[k])

\* Where the printed text goes on after k characters.
Start(k) == 1 + k + Added(text)[k]

\* A character that is escaped by a letter.
Short(c) == c \in DOMAIN Letter

\* A character that is escaped by its number.
Control(c) == c \notin DOMAIN Letter /\ c < 32

\* A character that is printed as it is.
Plain(c) == c \notin DOMAIN Letter /\ c >= 32

\* A character as it is printed from position p of out on.
Escaped(out, p, c) ==
  /\ Short(c) => out[p] = BACKSLASH /\ out[p + 1] = Letter[c]
  /\ Control(c) =>
       /\ out[p] = BACKSLASH /\ out[p + 1] = U /\ out[p + 2] = 48 /\ out[p + 3] = 48
       /\ out[p + 4] = HexDigit(c \div 16) /\ out[p + 5] = HexDigit(c % 16)
  /\ Plain(c) => out[p] = c

\* The first n characters are in out.
Laid(out, n) == out[0] = QUOTE /\ \A k \in 1 .. n : Escaped(out, Start(k - 1), text[k])

\* Nothing of the first n bytes is missing, and no NUL is among them.
Filled(n) == 0 .. n - 1 \subseteq DOMAIN output /\ \A k \in 0 .. n - 1 : output[k] # NUL

\* The loops of print_string_ptr.
PrintInv ==
  /\ pc \in {"measure", "write", "printed"} =>
       /\ input = <<>> /\ touched = 0 /\ input_end = 1 /\ skipped_bytes = 0
       /\ input_pointer <= Len(text)
  /\ pc = "measure" =>
       /\ escape_characters = Added(text)[input_pointer]
       /\ output = Nothing /\ output_pointer = 0
  /\ pc \in {"write", "printed"} =>
       /\ escape_characters = Added(text)[Len(text)]
       /\ reserved = Len(text) + escape_characters + 3
  /\ pc = "write" =>
       /\ output_pointer = Start(input_pointer)
       /\ DOMAIN output \subseteq 0 .. output_pointer
       /\ Filled(output_pointer) /\ Laid(output, input_pointer)
  /\ pc = "printed" =>
       /\ EndsWhereCounted /\ output[Start(Len(text))] = QUOTE
       /\ Laid(output, Len(text))

\* The input by position.
Arrived == [k \in 0 .. Len(input) - 1 |-> input[k + 1]]

\* What is parsed is what was printed, unless it was damaged.
ArriveInv ==
  pc \in {"scan", "decode", "parsed", "failed"} =>
    /\ input # <<>>
    /\ text # <<>> =>
         /\ Len(input) = Start(Len(text)) + 2
         /\ Arrived[Start(Len(text))] = QUOTE /\ Laid(Arrived, Len(text))

\* Functions on the positions up to e, where the parser has looked for the quote.
Counts(e) == [0 .. e -> Nat]

\* g counts the escapes before a position: each begins with a backslash, and
\* none begins where another one ends.
Marks(g, e) ==
  /\ g[0] = 0 /\ g[1] = 0
  /\ \A k \in 1 .. e - 1 :
       /\ g[k + 1] \in {g[k], g[k] + 1}
       /\ g[k + 1] = g[k] + 1 => At(k) = BACKSLASH
       /\ g[k + 1] <= g[k - 1] + 1
       /\ g[e] + k <= g[k] + e
  /\ g[e] = g[e - 1]

\* No more is written than the positions passed, without one for each escape.
ParseInv ==
  /\ pc = "scan" =>
       /\ output = Nothing /\ output_pointer = 0 /\ touched < Len(input)
       /\ input_end \in 1 .. Len(input)
       /\ \E g \in Counts(input_end) : Marks(g, input_end) /\ skipped_bytes = g[input_end]
  /\ pc = "decode" =>
       /\ input_end \in 1 .. Len(input) - 1 /\ touched < Len(input)
       /\ reserved = (input_end - skipped_bytes) + 1
       /\ DOMAIN output = 0 .. output_pointer - 1
       /\ input_pointer \in 1 .. input_end + 1
       /\ \E g \in Counts(input_end) :
            /\ Marks(g, input_end) /\ skipped_bytes = g[input_end]
            /\ IF input_pointer <= input_end
               THEN output_pointer + g[input_pointer] < input_pointer
               ELSE output_pointer + skipped_bytes <= input_end
  /\ pc = "parsed" => touched < Len(input) /\ WritesFit
  /\ pc = "failed" => touched < Len(input)

\* Position e is where the n-th character ends, or in the \u escape behind it.
ScanAt(e, n) ==
  \/ e = Start(n)
  \/ n < Len(text) /\ Control(text[n + 1]) /\ e \in Start(n) + 2 .. Start(n) + 5

\* The parser keeps in step with the characters of a text that was printed.
StepInv ==
  text # <<>> =>
    /\ pc = "scan" => \E n \in 0 .. Len(text) : ScanAt(input_end, n)
    /\ pc = "decode" =>
         /\ input_end = Start(Len(text)) /\ output_pointer <= Len(text)
         /\ input_pointer = Start(output_pointer)
         /\ output = [k \in 0 .. output_pointer - 1 |-> text[k + 1]]
    /\ ComesBack

\* The first n bytes are whole UTF-8 characters.
WellFormed(out, n) == \A k \in 0 .. n - 1 : Whole(out, k, n)

\* Nothing but ASCII was received.
Ascii == \A k \in DOMAIN input : input[k] < 128

\* What has been decoded from it is whole characters.
Utf8Inv == pc \in {"decode", "parsed"} /\ text = <<>> /\ Ascii => WellFormed(output, output_pointer)

\* The inductive invariant of the counts, with which all stays in bounds.  StepInv
\* and Utf8Inv are inductive on top of it.
BoundsInv == TypeOK /\ PrintInv /\ ArriveInv /\ ParseInv

-----------------------------------------------------------------------------
(* Counting.                                                               *)

\* The least number principle.
LEMMA Least ==
  ASSUME NEW T \in SUBSET Nat, T # {}
  PROVE  \E m \in T : \A k \in T : m <= k
<1> DEFINE R == OpToRel(<, Nat)
<1>1. IsWellFoundedOn(R, Nat)
  BY NatLessThanWellFounded
<1>2. PICK m \in T : \A k \in T : <<k, m>> \notin R
  <2> HIDE DEF R
  <2>1. QED
    BY <1>1, WFMin
<1>3. \A k \in T : <<k, m>> \in R <=> k < m
  BY DEF OpToRel
<1> HIDE DEF R
<1>4. \A k \in T : ~(k < m) => m <= k
  OBVIOUS
<1>5. QED
  BY <1>2, <1>3, <1>4

\* What has to be escaped takes one byte more, or five.
LEMMA EscapesFacts ==
  ASSUME NEW c \in Byte
  PROVE  /\ Escapes(c) \in {0, 1, 5}
         /\ Short(c) \/ Control(c) \/ Plain(c)
         /\ Short(c) => Escapes(c) = 1 /\ ~Control(c) /\ ~Plain(c)
         /\ Control(c) => Escapes(c) = 5 /\ ~Short(c) /\ ~Plain(c)
         /\ Plain(c) => Escapes(c) = 0 /\ ~Short(c) /\ ~Control(c)
BY DEF Escapes, Short, Control, Plain, Byte

\* Counting up to k is possible for every k.
LEMMA AddedExists ==
  ASSUME NEW s \in Seq(Byte)
  PROVE  \E f \in [0 .. Len(s) -> Nat] :
           f[0] = 0 /\ \A k \in 1 .. Len(s) : f[k] = f[k - 1] + Escapes(s[k])
<1> DEFINE P(n, f) == /\ f \in [0 .. n -> Nat] /\ f[0] = 0
                      /\ \A k \in 1 .. n : f[k] = f[k - 1] + Escapes(s[k])
           T == {n \in 0 .. Len(s) : ~\E f : P(n, f)}
<1>1. Len(s) \in Nat /\ \A k \in 1 .. Len(s) : Escapes(s[k]) \in Nat
  <2>1. \A k \in 1 .. Len(s) : s[k] \in Byte
    OBVIOUS
  <2>2. QED
    BY <2>1, EscapesFacts
<1>2. T = {}
  <2>1. SUFFICES ASSUME T # {} PROVE FALSE
    OBVIOUS
  <2>2. T \in SUBSET Nat
    BY <1>1
  <2>3. PICK m \in T : \A k \in T : m <= k
    <3> HIDE DEF T
    <3>1. QED
      BY <2>1, <2>2, Least
  <2>4. m \in 0 .. Len(s) /\ ~\E f : P(m, f)
    OBVIOUS
  <2>5. m # 0
    <3>1. P(0, [k \in 0 .. 0 |-> 0])
      OBVIOUS
    <3>2. QED
      BY <2>4, <3>1
  <2>6. m - 1 \in 0 .. Len(s) /\ m - 1 \notin T
    <3>1. m - 1 \in 0 .. Len(s) /\ ~(m <= m - 1)
      BY <1>1, <2>4, <2>5
    <3> HIDE DEF T
    <3>2. QED
      BY <2>3, <3>1
  <2>7. PICK f : P(m - 1, f)
    BY <2>6
  <2> DEFINE h == [k \in 0 .. m |-> IF k = m THEN f[m - 1] + Escapes(s[m]) ELSE f[k]]
  <2>8. m \in 1 .. Len(s) /\ m - 1 \in 0 .. m - 1
    BY <1>1, <2>4, <2>5
  <2>9. P(m, h)
    <3>1. h \in [0 .. m -> Nat]
      BY <1>1, <2>7, <2>8
    <3>2. h[0] = 0
      BY <2>7, <2>8
    <3>3. ASSUME NEW k \in 1 .. m PROVE h[k] = h[k - 1] + Escapes(s[k])
      BY <2>7, <2>8
    <3>4. QED
      BY <3>1, <3>2, <3>3
  <2>10. QED
    BY <2>4, <2>9
<1>3. Len(s) \in 0 .. Len(s) /\ Len(s) \notin T
  BY <1>1, <1>2
<1>4. PICK f : P(Len(s), f)
  BY <1>3
<1>5. QED
  BY <1>4

\* Added is that count.
LEMMA AddedFacts ==
  ASSUME NEW s \in Seq(Byte)
  PROVE  /\ Added(s) \in [0 .. Len(s) -> Nat] /\ Added(s)[0] = 0
         /\ \A k \in 1 .. Len(s) : Added(s)[k] = Added(s)[k - 1] + Escapes(s[k])
<1> DEFINE F == [0 .. Len(s) -> Nat]
           P(f) == f[0] = 0 /\ \A k \in 1 .. Len(s) : f[k] = f[k - 1] + Escapes(s[k])
<1>1. \E f \in F : P(f)
  BY AddedExists
<1>2. Added(s) = CHOOSE f \in F : P(f)
  BY DEF Added
<1> HIDE DEF F, P
<1>3. Added(s) \in F /\ P(Added(s))
  BY <1>1, <1>2, Zenon
<1>4. QED
  BY <1>3 DEF F, P

\* It never goes down.
LEMMA AddedGrows ==
  ASSUME NEW s \in Seq(Byte)
  PROVE  \A k \in 0 .. Len(s) : \A j \in 0 .. k : Added(s)[j] <= Added(s)[k]
<1> DEFINE n == Len(s)
           f == Added(s)
           T == {d \in 0 .. n : \E k \in d .. n : f[k - d] > f[k]}
<1>1. n \in Nat /\ \A k \in 0 .. n : f[k] \in Nat
  BY AddedFacts
<1>2. ASSUME NEW k \in 1 .. n PROVE f[k - 1] <= f[k]
  <2>1. s[k] \in Byte /\ k - 1 \in 0 .. n /\ k \in 0 .. n
    BY <1>1
  <2>2. Escapes(s[k]) \in Nat
    BY <2>1, EscapesFacts
  <2>3. f[k] = f[k - 1] + Escapes(s[k])
    BY AddedFacts
  <2>4. f[k] \in Nat /\ f[k - 1] \in Nat
    BY <1>1, <2>1
  <2> HIDE DEF f
  <2>5. QED
    BY <2>2, <2>3, <2>4
<1> HIDE DEF f
<1>3. T = {}
  <2>1. SUFFICES ASSUME T # {} PROVE FALSE
    OBVIOUS
  <2>2. T \in SUBSET Nat
    BY <1>1
  <2>3. PICK m \in T : \A d \in T : m <= d
    <3> HIDE DEF T
    <3>1. QED
      BY <2>1, <2>2, Least
  <2>4. PICK k \in m .. n : f[k - m] > f[k]
    OBVIOUS
  <2>5. m \in 0 .. n
    OBVIOUS
  <2>6. m # 0 /\ k \in 0 .. n /\ k - m \in 0 .. n /\ k \in 1 .. n /\ k - 1 \in 0 .. n
    BY <1>1, <2>4, <2>5
  <2>7. m - 1 \in 0 .. n /\ k - 1 \in m - 1 .. n /\ k - 1 - (m - 1) = k - m /\ ~(m <= m - 1)
    BY <1>1, <2>5, <2>6
  <2>8. m - 1 \notin T
    <3> HIDE DEF T
    <3>1. QED
      BY <2>3, <2>7
  <2>9. ~(f[k - 1 - (m - 1)] > f[k - 1])
    BY <2>7, <2>8
  <2>10. f[k - 1] <= f[k] /\ f[k] \in Nat /\ f[k - 1] \in Nat /\ f[k - m] \in Nat
    BY <1>1, <1>2, <2>6
  <2>11. QED
    BY <2>4, <2>7, <2>9, <2>10
<1>4. ASSUME NEW k \in 0 .. n, NEW j \in 0 .. k PROVE f[j] <= f[k]
  <2>1. k - j \in 0 .. n /\ k \in (k - j) .. n /\ k - (k - j) = j /\ j \in 0 .. n
    BY <1>1
  <2>2. k - j \notin T
    BY <1>3
  <2>3. ~(f[k - (k - j)] > f[k])
    BY <2>1, <2>2
  <2>4. f[j] \in Nat /\ f[k] \in Nat
    BY <1>1, <2>1
  <2>5. QED
    BY <2>1, <2>3, <2>4
<1>5. QED
  BY <1>4 DEF f

\* The places of the characters in the printed text.
LEMMA StartFacts ==
  ASSUME text \in Seq(Byte)
  PROVE  /\ Len(text) \in Nat /\ \A k \in 0 .. Len(text) : Start(k) \in Nat /\ Start(k) >= 1 + k
         /\ Start(0) = 1 /\ Start(Len(text)) = 1 + Len(text) + Added(text)[Len(text)]
         /\ \A k \in 0 .. Len(text) - 1 : Start(k + 1) = Start(k) + 1 + Escapes(text[k + 1])
         /\ \A k \in 0 .. Len(text) : \A j \in 0 .. k : Start(j) + k <= Start(k) + j
<1> DEFINE n == Len(text)
<1>1. n \in Nat /\ \A k \in 1 .. n : Escapes(text[k]) \in Nat
  <2>1. \A k \in 1 .. n : text[k] \in Byte
    OBVIOUS
  <2>2. QED
    BY <2>1, EscapesFacts
<1>2. \A k \in 0 .. n : Added(text)[k] \in Nat
  BY AddedFacts
<1>3. \A k \in 0 .. n : Start(k) \in Nat /\ Start(k) >= 1 + k
  BY <1>1, <1>2 DEF Start
<1>4. Start(0) = 1 /\ Start(n) = 1 + n + Added(text)[n]
  BY AddedFacts DEF Start
<1>5. ASSUME NEW k \in 0 .. n - 1 PROVE Start(k + 1) = Start(k) + 1 + Escapes(text[k + 1])
  <2>1. k + 1 \in 1 .. n /\ k + 1 - 1 = k /\ k \in 0 .. n
    BY <1>1
  <2>2. Added(text)[k + 1] = Added(text)[k] + Escapes(text[k + 1])
    BY <2>1, AddedFacts
  <2>3. Added(text)[k] \in Nat /\ Added(text)[k + 1] \in Nat /\ Escapes(text[k + 1]) \in Nat
    BY <1>1, <1>2, <2>1
  <2>4. Start(k + 1) = 1 + (k + 1) + Added(text)[k + 1] /\ Start(k) = 1 + k + Added(text)[k]
    BY DEF Start
  <2>5. PICK a : a = Added(text)[k]
    OBVIOUS
  <2>6. PICK e : e = Escapes(text[k + 1])
    OBVIOUS
  <2>7. a \in Nat /\ e \in Nat /\ k \in Nat
    BY <1>1, <2>3, <2>5, <2>6
  <2>8. Start(k + 1) = 1 + (k + 1) + (a + e) /\ Start(k) = 1 + k + a
    BY <2>2, <2>4, <2>5, <2>6
  <2>9. QED
    BY <2>6, <2>7, <2>8
<1>6. ASSUME NEW k \in 0 .. n, NEW j \in 0 .. k PROVE Start(j) + k <= Start(k) + j
  <2>1. Added(text)[j] <= Added(text)[k]
    BY AddedGrows
  <2>2. Added(text)[k] \in Nat /\ Added(text)[j] \in Nat
    BY <1>1, <1>2
  <2>3. QED
    BY <1>1, <2>1, <2>2 DEF Start
<1>7. QED
  BY <1>1, <1>3, <1>4, <1>5, <1>6

\* Bytes put over what was there.
LEMMA PutFacts ==
  ASSUME NEW old, NEW k \in Nat, NEW S, NEW b \in Seq(S)
  PROVE  /\ DOMAIN Put(old, k, b) = DOMAIN old \union k .. (k + Len(b) - 1)
         /\ \A j \in 1 .. Len(b) : Put(old, k, b)[k + j - 1] = b[j]
         /\ \A j \in DOMAIN old : j \notin k .. (k + Len(b) - 1) => Put(old, k, b)[j] = old[j]
<1>1. Len(b) \in Nat
  OBVIOUS
<1>2. \A j \in 1 .. Len(b) : k + j - 1 \in k .. (k + Len(b) - 1) /\ k + j - 1 - k + 1 = j
  BY <1>1
<1>3. QED
  BY <1>2 DEF Put

\* Bytes put where nothing was.
LEMMA PutFirst ==
  ASSUME NEW S, NEW b \in Seq(S)
  PROVE  /\ DOMAIN Put(Nothing, 0, b) = 0 .. Len(b) - 1
         /\ \A p \in 0 .. Len(b) - 1 : Put(Nothing, 0, b)[p] = b[p + 1]
<1>1. Len(b) \in Nat /\ DOMAIN Nothing = {}
  BY DEF Nothing
<1>2. \A p \in 0 .. (0 + Len(b) - 1) : p - 0 + 1 = p + 1
  OBVIOUS
<1>3. 0 .. (0 + Len(b) - 1) = 0 .. Len(b) - 1
  BY <1>1
<1>4. QED
  BY <1>1, <1>2, <1>3 DEF Put

\* What is laid down stays when nothing is written over it.
LEMMA LaidKept ==
  ASSUME text \in Seq(Byte), NEW old, NEW new, NEW n \in 0 .. Len(text), Laid(old, n),
         \A p \in 0 .. Start(n) - 1 : new[p] = old[p]
  PROVE  Laid(new, n)
<1>1. Start(n) \in Nat /\ Start(n) >= 1
  BY StartFacts
<1>2. new[0] = QUOTE
  BY <1>1 DEF Laid
<1>3. ASSUME NEW k \in 1 .. n PROVE Escaped(new, Start(k - 1), text[k])
  <2> DEFINE p == Start(k - 1)
             c == text[k]
  <2>1. /\ k - 1 \in 0 .. Len(text) - 1 /\ k - 1 \in 0 .. Len(text) /\ k - 1 + 1 = k
        /\ k \in 0 .. n /\ k \in 1 .. Len(text)
    BY StartFacts
  <2>2. c \in Byte
    BY <2>1
  <2>3. p \in Nat /\ Start(k) = p + 1 + Escapes(c) /\ Start(k) \in Nat
    <3>1. Start(k - 1 + 1) = Start(k - 1) + 1 + Escapes(text[k - 1 + 1])
      BY <2>1, StartFacts
    <3>2. k \in 0 .. Len(text)
      BY <2>1
    <3>3. Start(k - 1) \in Nat /\ Start(k) \in Nat
      BY <2>1, <3>2, StartFacts
    <3>4. QED
      BY <2>1, <3>1, <3>3
  <2>4. Start(k) + n <= Start(n) + k
    BY <2>1, StartFacts
  <2>5. Escapes(c) \in {0, 1, 5}
    BY <2>2, EscapesFacts
  <2> HIDE DEF p, c
  <2>6. \A q \in p .. p + Escapes(c) : new[q] = old[q]
    <3>1. p + 1 + Escapes(c) <= Start(n)
      BY <1>1, <2>1, <2>3, <2>4, <2>5
    <3>2. p .. p + Escapes(c) \subseteq 0 .. Start(n) - 1
      BY <1>1, <2>3, <2>5, <3>1
    <3>3. QED
      BY <3>2
  <2>7. Escaped(old, p, c)
    BY DEF Laid, p, c
  <2>8. CASE Short(c)
    <3>1. Escapes(c) = 1 /\ ~Control(c) /\ ~Plain(c)
      BY <2>2, <2>8, EscapesFacts
    <3>2. p \in p .. p + 1 /\ p + 1 \in p .. p + 1
      BY <2>3
    <3>3. QED
      BY <2>6, <2>7, <2>8, <3>1, <3>2 DEF Escaped, p, c
  <2>9. CASE Control(c)
    <3>1. Escapes(c) = 5 /\ ~Short(c) /\ ~Plain(c)
      BY <2>2, <2>9, EscapesFacts
    <3>2. /\ p \in p .. p + 5 /\ p + 1 \in p .. p + 5 /\ p + 2 \in p .. p + 5
          /\ p + 3 \in p .. p + 5 /\ p + 4 \in p .. p + 5 /\ p + 5 \in p .. p + 5
      BY <2>3
    <3>3. QED
      BY <2>6, <2>7, <2>9, <3>1, <3>2 DEF Escaped, p, c
  <2>10. CASE Plain(c)
    <3>1. Escapes(c) = 0 /\ ~Short(c) /\ ~Control(c)
      BY <2>2, <2>10, EscapesFacts
    <3>2. p \in p .. p + 0
      BY <2>3
    <3>3. QED
      BY <2>6, <2>7, <2>10, <3>1, <3>2 DEF Escaped, p, c
  <2>11. QED
    BY <2>2, <2>8, <2>9, <2>10, EscapesFacts DEF c
<1>4. QED
  BY <1>2, <1>3 DEF Laid

\* What Write writes for a character: its escape, and sprintf's NUL.
Escape(c) ==
  IF c \in DOMAIN Letter THEN <<BACKSLASH, Letter[c]>>
  ELSE IF c < 32 THEN <<BACKSLASH, U, 48, 48, HexDigit(c \div 16), HexDigit(c % 16)>>
  ELSE <<c>>

\* Behind the escape of a control character comes sprintf's NUL.
Written(c) == Escape(c) \o IF Len(Escape(c)) = 6 THEN <<NUL>> ELSE <<>>

\* The letters of the short escapes.
LEMMA LetterFacts ==
  /\ \A c \in DOMAIN Letter : c \in Byte /\ Letter[c] \in 1 .. 127 /\ Letter[c] # U
  /\ DOMAIN Letter = {8, 12, 10, 13, 9, QUOTE, BACKSLASH}
BY DEF Letter, QUOTE, BACKSLASH, Byte, U

\* The number of a control character has two digits, the first 0 or 1.
LEMMA HexFacts ==
  ASSUME NEW c \in Byte, Control(c)
  PROVE  /\ c \div 16 \in 0 .. 1 /\ c % 16 \in 0 .. 15 /\ c = (c \div 16) * 16 + (c % 16)
         /\ HexDigit(c \div 16) \in 48 .. 49
         /\ HexDigit(c % 16) \in 48 .. 57 \union 97 .. 102
<1>1. c \in 0 .. 31
  BY DEF Control, Byte
<1>2. c \div 16 \in 0 .. 1 /\ c % 16 \in 0 .. 15 /\ c = (c \div 16) * 16 + (c % 16)
  BY <1>1, Z3
<1>3. QED
  BY <1>2 DEF HexDigit

\* It is the character as Escaped has it, byte by byte.
LEMMA WrittenFacts ==
  ASSUME NEW c \in Byte \ {NUL}
  PROVE  /\ Written(c) \in Seq(Byte) /\ Len(Escape(c)) = 1 + Escapes(c)
         /\ Len(Written(c)) \in {1 + Escapes(c), 2 + Escapes(c)}
         /\ \A j \in 1 .. 1 + Escapes(c) : Written(c)[j] # NUL
         /\ Short(c) => Written(c)[1] = BACKSLASH /\ Written(c)[2] = Letter[c]
         /\ Control(c) =>
              /\ Written(c)[1] = BACKSLASH /\ Written(c)[2] = U
              /\ Written(c)[3] = 48 /\ Written(c)[4] = 48
              /\ Written(c)[5] = HexDigit(c \div 16) /\ Written(c)[6] = HexDigit(c % 16)
         /\ Plain(c) => Written(c)[1] = c
<1>1. BACKSLASH \in 1 .. 255 /\ U \in 1 .. 255 /\ 48 \in 1 .. 255 /\ NUL = 0 /\ c \in 1 .. 255
  BY DEF BACKSLASH, U, NUL, Byte
<1>2. CASE Short(c)
  <2>1. Escape(c) = <<BACKSLASH, Letter[c]>>
    BY <1>2 DEF Short, Escape
  <2>2. Letter[c] \in 1 .. 255
    BY <1>2, LetterFacts DEF Short
  <2>3. Written(c) = <<BACKSLASH, Letter[c]>>
    BY <2>1, <1>1, <2>2 DEF Written
  <2>4. Escapes(c) = 1 /\ ~Control(c) /\ ~Plain(c)
    BY <1>2, EscapesFacts
  <2>5. QED
    BY <1>1, <2>1, <2>2, <2>3, <2>4 DEF Byte
<1>3. CASE Control(c)
  <2> DEFINE h == HexDigit(c \div 16)
             l == HexDigit(c % 16)
  <2>1. Escape(c) = <<BACKSLASH, U, 48, 48, h, l>>
    BY <1>3 DEF Control, Escape
  <2>2. h \in 1 .. 255 /\ l \in 1 .. 255
    BY <1>3, HexFacts
  <2>4. Escapes(c) = 5 /\ ~Short(c) /\ ~Plain(c)
    BY <1>3, EscapesFacts
  <2> HIDE DEF h, l
  <2>3. Written(c) = <<BACKSLASH, U, 48, 48, h, l, NUL>>
    <3> DEFINE w == <<BACKSLASH, U, 48, 48, h, l>>
               x == <<BACKSLASH, U, 48, 48, h, l, NUL>>
    <3>1. w \in Seq(Nat) /\ x \in Seq(Nat) /\ <<NUL>> \in Seq(Nat) /\ Len(w) = 6 /\ Len(x) = 7 /\ Len(<<NUL>>) = 1
      BY <1>1, <2>2
    <3>2. /\ w \o <<NUL>> \in Seq(Nat) /\ Len(w \o <<NUL>>) = 7
          /\ \A k \in 1 .. 7 : (w \o <<NUL>>)[k] = IF k <= 6 THEN w[k] ELSE <<NUL>>[k - 6]
      <4> DEFINE t == <<NUL>>
      <4> HIDE DEF w, x, t
      <4>1. w \in Seq(Nat) /\ t \in Seq(Nat) /\ Len(w) = 6 /\ Len(t) = 1
        BY <3>1 DEF t
      <4>2. /\ w \o t \in Seq(Nat) /\ Len(w \o t) = Len(w) + Len(t)
            /\ \A k \in 1 .. Len(w) + Len(t) : (w \o t)[k] = IF k <= Len(w) THEN w[k] ELSE t[k - Len(w)]
        BY <4>1, ConcatProperties, Zenon
      <4>3. Len(w) + Len(t) = 7
        BY <4>1
      <4>4. QED
        BY <4>1, <4>2, <4>3 DEF t
    <3>3. \A k \in 1 .. 7 : (w \o <<NUL>>)[k] = x[k]
      BY <3>2
    <3>4. w \o <<NUL>> = x
      <4> HIDE DEF w, x
      <4>1. QED
        BY <3>1, <3>2, <3>3, SeqEqual
    <3>5. QED
      BY <2>1, <3>1, <3>4 DEF Written
  <2>5. QED
    BY <1>1, <2>1, <2>2, <2>3, <2>4 DEF Byte, h, l
<1>4. CASE Plain(c)
  <2>1. Escape(c) = <<c>>
    BY <1>1, <1>4 DEF Plain, Escape
  <2>3. Written(c) = <<c>>
    BY <2>1, <1>1 DEF Written
  <2>4. Escapes(c) = 0 /\ ~Control(c) /\ ~Short(c)
    BY <1>4, EscapesFacts
  <2>5. QED
    BY <1>1, <2>1, <2>3, <2>4 DEF Byte
<1>5. QED
  BY <1>2, <1>3, <1>4, EscapesFacts

-----------------------------------------------------------------------------
(* The steps of print_string_ptr.                                          *)

\* One more character is counted.
LEMMA MeasureKeeps == ASSUME BoundsInv, Measure PROVE BoundsInv'
<1>1. text \in Seq(Byte) /\ text' = text /\ input_pointer \in 0 .. Len(text) - 1
  BY DEF BoundsInv, TypeOK, Measure
<1>2. Added(text)[input_pointer + 1] = Added(text)[input_pointer] + Escapes(text[input_pointer + 1])
  <2>1. input_pointer + 1 \in 1 .. Len(text) /\ input_pointer + 1 - 1 = input_pointer
    BY <1>1
  <2>2. QED
    BY <1>1, <2>1, AddedFacts
<1>3. input_pointer' = input_pointer + 1 /\ escape_characters' = Added(text)[input_pointer']
  BY <1>2 DEF Measure, BoundsInv, PrintInv
<1>4. Added(text)[input_pointer'] \in Nat /\ input_pointer' \in 0 .. Len(text)
  BY <1>1, <1>3, AddedFacts
<1>5. TypeOK'
  BY <1>1, <1>3, <1>4 DEF BoundsInv, TypeOK, Measure, printing
<1>6. PrintInv'
  BY <1>1, <1>3, <1>4 DEF BoundsInv, PrintInv, Measure, printing
<1>7. QED
  BY <1>5, <1>6 DEF BoundsInv, Measure, ArriveInv, ParseInv

\* A text between quotes.
LEMMA QuotedFacts ==
  ASSUME NEW t \in Seq(Byte), NEW q, q = <<QUOTE>> \o t \o <<QUOTE, NUL>>
  PROVE  /\ q \in Seq(Byte) /\ Len(q) = Len(t) + 3 /\ q[1] = QUOTE
         /\ \A k \in 1 .. Len(t) : q[k + 1] = t[k]
         /\ q[Len(t) + 2] = QUOTE /\ q[Len(t) + 3] = NUL
<1> DEFINE a == <<QUOTE>>
           b == a \o t
           c == <<QUOTE, NUL>>
<1>1. /\ a \in Seq(Byte) /\ Len(a) = 1 /\ a[1] = QUOTE
      /\ c \in Seq(Byte) /\ Len(c) = 2 /\ c[1] = QUOTE /\ c[2] = NUL /\ Len(t) \in Nat
  BY DEF QUOTE, NUL, Byte
<1> HIDE DEF a, c
<1>2. /\ b \in Seq(Byte) /\ Len(b) = Len(a) + Len(t)
      /\ \A k \in 1 .. Len(a) + Len(t) : b[k] = IF k <= Len(a) THEN a[k] ELSE t[k - Len(a)]
  BY <1>1, ConcatProperties, Zenon
<1>3. Len(b) = 1 + Len(t) /\ b[1] = QUOTE /\ \A k \in 1 .. Len(t) : b[k + 1] = t[k]
  <2>1. \A k \in 1 .. Len(t) : k + 1 \in 1 .. 1 + Len(t) /\ ~(k + 1 <= 1) /\ k + 1 - 1 = k
    BY <1>1
  <2>2. 1 \in 1 .. 1 + Len(t)
    BY <1>1
  <2>3. QED
    BY <1>1, <1>2, <2>1, <2>2
<1> HIDE DEF b
<1>4. /\ b \o c \in Seq(Byte) /\ Len(b \o c) = Len(b) + Len(c)
      /\ \A k \in 1 .. Len(b) + Len(c) : (b \o c)[k] = IF k <= Len(b) THEN b[k] ELSE c[k - Len(b)]
  <2>1. b \in Seq(Byte) /\ c \in Seq(Byte)
    BY <1>1, <1>2
  <2>2. QED
    BY <2>1, ConcatProperties, Zenon
<1>5. q = b \o c
  BY DEF a, b, c
<1>6. /\ 1 \in 1 .. Len(t) + 3 /\ 1 <= Len(b)
      /\ \A k \in 1 .. Len(t) : k + 1 \in 1 .. Len(t) + 3 /\ k + 1 <= Len(b)
      /\ Len(t) + 2 \in 1 .. Len(t) + 3 /\ ~(Len(t) + 2 <= Len(b)) /\ Len(t) + 2 - Len(b) = 1
      /\ Len(t) + 3 \in 1 .. Len(t) + 3 /\ ~(Len(t) + 3 <= Len(b)) /\ Len(t) + 3 - Len(b) = 2
      /\ Len(b) + Len(c) = Len(t) + 3
  BY <1>1, <1>3
<1>7. QED
  BY <1>1, <1>3, <1>4, <1>5, <1>6

\* Nothing to escape: the text is printed as it is.
LEMMA NothingAdded ==
  ASSUME text \in Seq(Byte), Added(text)[Len(text)] = 0
  PROVE  /\ \A k \in 0 .. Len(text) : Start(k) = 1 + k
         /\ \A k \in 1 .. Len(text) : Plain(text[k])
<1> DEFINE n == Len(text)
<1>1. n \in Nat /\ \A k \in 0 .. n : Added(text)[k] = 0
  <2>1. n \in Nat /\ \A k \in 0 .. n : Added(text)[k] \in Nat
    BY AddedFacts
  <2>2. n \in 0 .. n /\ \A k \in 0 .. n : k \in 0 .. n
    BY <2>1
  <2>3. \A k \in 0 .. n : Added(text)[k] <= 0
    BY <2>2, AddedGrows
  <2>4. QED
    BY <2>1, <2>3
<1>2. \A k \in 0 .. n : Start(k) = 1 + k
  BY <1>1 DEF Start
<1>3. ASSUME NEW k \in 1 .. n PROVE Plain(text[k])
  <2>1. text[k] \in Byte /\ k - 1 \in 0 .. n /\ k \in 0 .. n
    BY <1>1
  <2>2. Added(text)[k] = Added(text)[k - 1] + Escapes(text[k])
    BY AddedFacts
  <2>3. Added(text)[k] = 0 /\ Added(text)[k - 1] = 0
    BY <1>1, <2>1
  <2>4. Escapes(text[k]) = 0
    BY <2>1, <2>2, <2>3, EscapesFacts
  <2>5. QED
    BY <2>1, <2>4, EscapesFacts
<1>4. QED
  BY <1>2, <1>3

\* The buffer is allocated; without escapes the text is copied at once.
LEMMA ReserveKeeps == ASSUME BoundsInv, Reserve PROVE BoundsInv'
<1> DEFINE n == Len(text)
<1>1. /\ text \in Seq(Byte) /\ text' = text /\ n \in Nat /\ n \in 0 .. n
      /\ \A k \in 1 .. n : text[k] \in Byte /\ text[k] # NUL
  BY DEF BoundsInv, TypeOK, Reserve
<1>2. /\ escape_characters = Added(text)[n] /\ escape_characters' = escape_characters
      /\ reserved' = n + escape_characters + 3 /\ input_pointer' = 0
      /\ escape_characters \in Nat /\ output = Nothing
      /\ input = <<>> /\ touched = 0 /\ input_end = 1 /\ skipped_bytes = 0 /\ output_pointer = 0
      /\ UNCHANGED printing
  BY DEF BoundsInv, PrintInv, TypeOK, Reserve
<1>3. Start(n) = 1 + n + escape_characters
  BY <1>1, <1>2, StartFacts
<1>4. CASE escape_characters = 0
  <2> DEFINE t == <<QUOTE>> \o text \o <<QUOTE, NUL>>
  <2>1. pc' = "printed" /\ output' = Put(Nothing, 0, t) /\ output_pointer' = output_pointer
    BY <1>2, <1>4 DEF Reserve
  <2>2. /\ t \in Seq(Byte) /\ Len(t) = n + 3 /\ t[1] = QUOTE
        /\ \A k \in 1 .. n : t[k + 1] = text[k]
        /\ t[n + 2] = QUOTE /\ t[n + 3] = NUL
    BY <1>1, QuotedFacts
  <2> HIDE DEF t
  <2>3. DOMAIN output' = 0 .. n + 2 /\ \A p \in 0 .. n + 2 : output'[p] = t[p + 1]
    <3>1. /\ DOMAIN Put(Nothing, 0, t) = 0 .. Len(t) - 1
          /\ \A p \in 0 .. Len(t) - 1 : Put(Nothing, 0, t)[p] = t[p + 1]
      BY <2>2, PutFirst
    <3>2. Len(t) - 1 = n + 2
      BY <1>1, <2>2
    <3>3. QED
      BY <2>1, <3>1, <3>2
  <2>4. \A k \in 1 .. n : output'[k] = text[k]
    <3>1. \A k \in 1 .. n : k \in 0 .. n + 2
      BY <1>1
    <3>2. QED
      BY <2>2, <2>3, <3>1
  <2>5. output'[0] = QUOTE /\ output'[n + 1] = QUOTE /\ output'[n + 2] = NUL
    <3>1. /\ 0 \in 0 .. n + 2 /\ n + 1 \in 0 .. n + 2 /\ n + 2 \in 0 .. n + 2
          /\ 0 + 1 = 1 /\ n + 1 + 1 = n + 2 /\ n + 2 + 1 = n + 3
      BY <1>1
    <3>2. QED
      BY <2>2, <2>3, <3>1
  <2>6. \A k \in 0 .. n + 1 : output'[k] \in Byte /\ output'[k] # NUL
    <3>1. QUOTE \in Byte /\ QUOTE # NUL
      BY DEF QUOTE, NUL, Byte
    <3>2. \A k \in 0 .. n + 1 : k = 0 \/ k \in 1 .. n \/ k = n + 1
      BY <1>1
    <3>3. QED
      BY <1>1, <2>4, <2>5, <3>1, <3>2
  <2>7. TypeOK'
    <3>1. \A k \in DOMAIN output' : output'[k] \in Byte
      <4>1. \A k \in 0 .. n + 2 : k \in 0 .. n + 1 \/ k = n + 2
        BY <1>1
      <4>2. NUL \in Byte
        BY DEF NUL, Byte
      <4>3. QED
        BY <2>3, <2>5, <2>6, <4>1, <4>2
    <3>2. DOMAIN output' \subseteq Nat
      BY <1>1, <2>3
    <3>3. reserved' \in Nat /\ touched' = 0 /\ output_pointer' = 0
      BY <1>1, <1>2, <2>1 DEF printing
    <3>4. QED
      BY <1>1, <1>2, <2>1, <3>1, <3>2, <3>3 DEF BoundsInv, TypeOK, printing
  <2>8. /\ \A k \in 0 .. n : Start(k) = 1 + k
        /\ \A k \in 1 .. n : Plain(text[k])
    BY <1>1, <1>2, <1>4, NothingAdded
  <2>9. Laid(output, n)'
    <3>1. ASSUME NEW k \in 1 .. n PROVE Escaped(output, Start(k - 1), text[k])'
      <4>1. k - 1 \in 0 .. n /\ 1 + (k - 1) = k
        BY <1>1
      <4>2. Start(k - 1) = k
        BY <2>8, <4>1
      <4>3. Plain(text[k]) /\ ~Short(text[k]) /\ ~Control(text[k])
        BY <1>1, <2>8, EscapesFacts
      <4>4. Escaped(output', k, text[k])
        BY <2>4, <4>3 DEF Escaped
      <4>5. QED
        BY <1>1, <4>2, <4>4 DEF Start
    <3>2. QED
      BY <1>1, <2>5, <3>1 DEF Laid
  <2>10. EndsWhereCounted'
    <3>1. Len(text') + escape_characters' + 2 = n + 2 /\ n + 2 - 1 = n + 1
      BY <1>1, <1>2, <1>4
    <3>2. QED
      BY <2>3, <2>5, <2>6, <3>1 DEF EndsWhereCounted
  <2>11. PrintInv'
    <3>1. Start(n)' = n + 1
      BY <1>1, <1>2, <1>3, <1>4 DEF Start
    <3>2. QED
      BY <1>1, <1>2, <2>1, <2>5, <2>9, <2>10, <3>1 DEF PrintInv, printing
  <2>12. QED
    BY <2>1, <2>7, <2>11 DEF BoundsInv, ArriveInv, ParseInv
<1>5. CASE escape_characters # 0
  <2>1. pc' = "write" /\ output' = Put(Nothing, 0, <<QUOTE>>) /\ output_pointer' = 1
    BY <1>2, <1>5 DEF Reserve
  <2>2. DOMAIN output' = 0 .. 0 /\ output'[0] = QUOTE
    <3>1. <<QUOTE>> \in Seq(Byte) /\ Len(<<QUOTE>>) = 1 /\ <<QUOTE>>[1] = QUOTE /\ 0 \in Nat
      BY DEF QUOTE, Byte
    <3> DEFINE q == <<QUOTE>>
    <3>2. /\ DOMAIN Put(Nothing, 0, q) = 0 .. Len(q) - 1
          /\ \A p \in 0 .. Len(q) - 1 : Put(Nothing, 0, q)[p] = q[p + 1]
      <4> HIDE DEF q
      <4>1. q \in Seq(Byte)
        BY <3>1 DEF q
      <4>2. QED
        BY <4>1, PutFirst
    <3>3. QED
      BY <2>1, <3>1, <3>2
  <2>3. QUOTE \in Byte /\ QUOTE # NUL
    BY DEF QUOTE, NUL, Byte
  <2>4. TypeOK'
    <3>1. reserved' \in Nat
      BY <1>1, <1>2
    <3>2. DOMAIN output' \subseteq Nat /\ \A k \in DOMAIN output' : output'[k] \in Byte
      BY <2>2, <2>3
    <3>3. QED
      BY <1>1, <1>2, <2>1, <3>1, <3>2 DEF BoundsInv, TypeOK, printing
  <2>5. Start(0)' = 1
    BY <1>1, StartFacts DEF Start
  <2>6. Laid(output, 0)'
    BY <2>2 DEF Laid
  <2>7. Filled(1)'
    BY <2>2, <2>3 DEF Filled
  <2>8. PrintInv'
    BY <1>1, <1>2, <2>1, <2>2, <2>5, <2>6, <2>7 DEF PrintInv, printing
  <2>9. QED
    BY <2>1, <2>4, <2>8 DEF BoundsInv, ArriveInv, ParseInv
<1>6. QED
  BY <1>4, <1>5

\* One more character is written, where the count of those before it says.
LEMMA WriteKeeps == ASSUME BoundsInv, Write PROVE BoundsInv'
<1> DEFINE n == Len(text)
           c == text[input_pointer + 1]
           w == Written(c)
<1>p. PICK p \in Nat : p = output_pointer
  BY DEF BoundsInv, TypeOK
<1>e. PICK e : e = Escapes(c)
  OBVIOUS
<1>1. /\ text \in Seq(Byte) /\ text' = text /\ n \in Nat /\ input_pointer \in 0 .. n - 1
      /\ input_pointer' = input_pointer + 1 /\ pc' = "write"
      /\ UNCHANGED <<escape_characters, reserved, printing>>
  <2>1. text \in Seq(Byte \ {NUL}) /\ input_pointer \in Nat
    BY DEF BoundsInv, TypeOK
  <2>2. text \in Seq(Byte) /\ n \in Nat
    BY <2>1
  <2>3. /\ input_pointer < n /\ text' = text /\ input_pointer' = input_pointer + 1 /\ pc' = "write"
        /\ UNCHANGED <<escape_characters, reserved, printing>>
    BY DEF Write
  <2>4. QED
    BY <2>1, <2>2, <2>3
<1>2. c \in Byte \ {NUL}
  <2>1. input_pointer + 1 \in 1 .. n
    BY <1>1
  <2>2. QED
    BY <2>1 DEF BoundsInv, TypeOK
<1>3. output' = Put(output, p, w) /\ output_pointer' = p + Len(Escape(c))
  BY <1>p DEF Write, Written, Escape
<1>4. /\ p \in Nat /\ p = Start(input_pointer) /\ DOMAIN output \subseteq 0 .. p
      /\ Filled(p) /\ Laid(output, input_pointer)
      /\ input = <<>> /\ touched = 0 /\ input_end = 1 /\ skipped_bytes = 0
      /\ escape_characters = Added(text)[n] /\ reserved = n + escape_characters + 3
      /\ \A k \in DOMAIN output : output[k] \in Byte
  BY <1>p DEF BoundsInv, TypeOK, PrintInv, Write
<1>5. /\ w \in Seq(Byte) /\ Len(Escape(c)) = 1 + e
      /\ Len(w) \in {1 + e, 2 + e}
      /\ \A j \in 1 .. 1 + e : w[j] # NUL
      /\ e \in {0, 1, 5}
  BY <1>2, <1>e, WrittenFacts, EscapesFacts
<1>6. output_pointer' = p + 1 + e /\ output_pointer' = Start(input_pointer')
  <2>1. Start(input_pointer + 1) = Start(input_pointer) + 1 + e
    BY <1>1, <1>e, StartFacts
  <2> HIDE DEF c
  <2>2. QED
    BY <1>1, <1>3, <1>4, <1>5, <2>1
<1> HIDE DEF c, w
<1>l. PICK l \in Nat : l = Len(w)
  <2>1. Len(w) \in Nat
    BY <1>5
  <2>2. QED
    BY <2>1
<1>n. e \in {0, 1, 5} /\ l \in {1 + e, 2 + e} /\ p \in Nat
  BY <1>4, <1>5, <1>l
<1>7. /\ DOMAIN output' = DOMAIN output \union p .. (p + Len(w) - 1)
      /\ \A j \in 1 .. Len(w) : output'[p + j - 1] = w[j]
      /\ \A j \in DOMAIN output : j \notin p .. (p + Len(w) - 1) => output'[j] = output[j]
  <2>1. /\ DOMAIN Put(output, p, w) = DOMAIN output \union p .. (p + Len(w) - 1)
        /\ \A j \in 1 .. Len(w) : Put(output, p, w)[p + j - 1] = w[j]
        /\ \A j \in DOMAIN output : j \notin p .. (p + Len(w) - 1) => Put(output, p, w)[j] = output[j]
    <3>1. p \in Nat /\ w \in Seq(Byte)
      BY <1>4, <1>5
    <3>2. QED
      BY <3>1, PutFacts
  <2>2. QED
    BY <1>3, <2>1
<1>8. \A j \in p .. p + l - 1 : output'[j] = w[j - p + 1]
  <2>1. \A j \in p .. p + l - 1 : j - p + 1 \in 1 .. l /\ p + (j - p + 1) - 1 = j
    BY <1>n, <1>l
  <2>2. QED
    BY <1>7, <1>l, <2>1
<1>9. \A j \in 0 .. p - 1 : j \in DOMAIN output /\ output'[j] = output[j] /\ output[j] # NUL
  <2>1. \A j \in 0 .. p - 1 : j \notin p .. (p + l - 1)
    BY <1>n, <1>l
  <2>2. QED
    BY <1>4, <1>7, <1>l, <2>1 DEF Filled
<1>10. DOMAIN output' \subseteq 0 .. output_pointer'
  <2>1. p + l - 1 <= output_pointer' /\ p <= output_pointer' /\ output_pointer' \in Nat
    BY <1>n, <1>6
  <2>2. p .. p + l - 1 \subseteq 0 .. output_pointer' /\ 0 .. p \subseteq 0 .. output_pointer'
    BY <1>n, <1>l, <2>1
  <2>3. QED
    BY <1>4, <1>7, <1>l, <2>2
<1>11. Filled(output_pointer)'
  <2>1. \A j \in 0 .. output_pointer' - 1 : j \in 0 .. p - 1 \/ (j \in p .. p + l - 1 /\ j - p + 1 \in 1 .. 1 + e)
    <3> DEFINE q == output_pointer'
    <3>1. q = p + 1 + e
      BY <1>6
    <3> HIDE DEF q
    <3>2. \A j \in 0 .. q - 1 : j \in 0 .. p - 1 \/ (j \in p .. p + l - 1 /\ j - p + 1 \in 1 .. 1 + e)
      BY <1>n, <3>1
    <3>3. QED
      BY <3>2 DEF q
  <2>2. \A j \in 0 .. output_pointer' - 1 : j \in DOMAIN output' /\ output'[j] # NUL
    BY <1>5, <1>7, <1>8, <1>9, <1>l, <2>1
  <2>3. QED
    BY <2>2 DEF Filled
<1>12. Escaped(output', p, c)
  <2>1. 0 + 1 = 1 /\ p \in p .. p + l - 1 /\ p - p + 1 = 1
    BY <1>n, <1>l
  <2>2. CASE Short(c)
    <3>1. e = 1 /\ ~Control(c) /\ ~Plain(c)
      BY <1>2, <1>e, <2>2, EscapesFacts
    <3>2. p + 1 \in p .. p + l - 1 /\ p + 1 - p + 1 = 2
      BY <1>n, <1>l, <3>1
    <3>3. w[1] = BACKSLASH /\ w[2] = Letter[c]
      BY <1>2, <2>2, WrittenFacts DEF w
    <3>4. QED
      BY <1>8, <2>1, <2>2, <3>1, <3>2, <3>3 DEF Escaped
  <2>3. CASE Control(c)
    <3>1. e = 5 /\ ~Short(c) /\ ~Plain(c)
      BY <1>2, <1>e, <2>3, EscapesFacts
    <3>2. /\ p + 1 \in p .. p + l - 1 /\ p + 1 - p + 1 = 2
          /\ p + 2 \in p .. p + l - 1 /\ p + 2 - p + 1 = 3
          /\ p + 3 \in p .. p + l - 1 /\ p + 3 - p + 1 = 4
          /\ p + 4 \in p .. p + l - 1 /\ p + 4 - p + 1 = 5
          /\ p + 5 \in p .. p + l - 1 /\ p + 5 - p + 1 = 6
      BY <1>n, <1>l, <3>1
    <3>3. /\ w[1] = BACKSLASH /\ w[2] = U /\ w[3] = 48 /\ w[4] = 48
          /\ w[5] = HexDigit(c \div 16) /\ w[6] = HexDigit(c % 16)
      BY <1>2, <2>3, WrittenFacts DEF w
    <3>4. /\ output'[p] = w[1] /\ output'[p + 1] = w[2] /\ output'[p + 2] = w[3]
          /\ output'[p + 3] = w[4] /\ output'[p + 4] = w[5] /\ output'[p + 5] = w[6]
      BY <1>8, <2>1, <3>2
    <3>5. QED
      BY <2>3, <3>1, <3>3, <3>4 DEF Escaped
  <2>4. CASE Plain(c)
    <3>1. ~Short(c) /\ ~Control(c)
      BY <1>2, <2>4, EscapesFacts
    <3>2. w[1] = c
      BY <1>2, <2>4, WrittenFacts DEF w
    <3>3. QED
      BY <1>8, <2>1, <2>4, <3>1, <3>2 DEF Escaped
  <2>5. QED
    BY <1>2, <2>2, <2>3, <2>4, EscapesFacts
<1>13. Laid(output, input_pointer)'
  <2>1. Laid(output', input_pointer)
    <3>1. \A j \in 0 .. Start(input_pointer) - 1 : output'[j] = output[j]
      BY <1>4, <1>9
    <3>2. input_pointer \in 0 .. Len(text)
      BY <1>1
    <3>3. QED
      BY <1>1, <1>4, <3>1, <3>2, LaidKept
  <2>2. ASSUME NEW k \in 1 .. input_pointer + 1 PROVE Escaped(output', Start(k - 1), text[k])
    <3>1. CASE k = input_pointer + 1
      <4>1. k - 1 = input_pointer
        BY <1>1, <3>1
      <4>2. QED
        BY <1>4, <1>12, <3>1, <4>1 DEF c
    <3>2. CASE k \in 1 .. input_pointer
      BY <2>1, <3>2 DEF Laid
    <3>3. QED
      BY <1>1, <3>1, <3>2
  <2>3. QED
    BY <1>1, <2>1, <2>2 DEF Laid, Start
<1>14. TypeOK'
  <2>1. \A j \in DOMAIN output' : output'[j] \in Byte
    <3>1. \A j \in p .. p + l - 1 : w[j - p + 1] \in Byte
      <4>1. \A j \in p .. p + l - 1 : j - p + 1 \in 1 .. l
        BY <1>n, <1>l
      <4>2. QED
        BY <1>5, <1>l, <4>1
    <3>2. QED
      BY <1>4, <1>7, <1>8, <1>l, <3>1
  <2>2. DOMAIN output' \subseteq Nat /\ output_pointer' \in Nat /\ input_pointer' \in 0 .. n
    BY <1>1, <1>4, <1>5, <1>6, <1>10
  <2>3. QED
    BY <1>1, <2>1, <2>2 DEF BoundsInv, TypeOK, printing
<1>15. PrintInv'
  <2>1. output_pointer' = Start(input_pointer)'
    BY <1>1, <1>6 DEF Start
  <2>2. input_pointer' <= Len(text')
    BY <1>1
  <2>3. QED
    BY <1>1, <1>4, <1>10, <1>11, <1>13, <2>1, <2>2 DEF PrintInv, printing
<1>16. QED
  BY <1>1, <1>14, <1>15 DEF BoundsInv, ArriveInv, ParseInv

\* The closing quote lands right behind the last character.
LEMMA WriteEndKeeps == ASSUME BoundsInv, WriteEnd PROVE BoundsInv'
<1> DEFINE n == Len(text)
           t == <<QUOTE, NUL>>
<1>p. PICK p \in Nat : p = output_pointer
  BY DEF BoundsInv, TypeOK
<1>1. /\ text \in Seq(Byte) /\ text' = text /\ n \in Nat /\ n \in 0 .. n /\ pc' = "printed"
      /\ input_pointer = n /\ UNCHANGED <<input_pointer, escape_characters, reserved, printing>>
      /\ output_pointer' = output_pointer
  BY DEF BoundsInv, TypeOK, WriteEnd, PrintInv
<1>2. /\ escape_characters \in Nat /\ p = n + escape_characters + 1 /\ Start(n) = p
      /\ DOMAIN output \subseteq 0 .. p /\ Filled(p) /\ Laid(output, n)
      /\ input = <<>> /\ touched = 0 /\ input_end = 1 /\ skipped_bytes = 0
      /\ escape_characters = Added(text)[n] /\ reserved = n + escape_characters + 3
      /\ \A k \in DOMAIN output : output[k] \in Byte
  BY <1>p, <1>1, StartFacts DEF BoundsInv, TypeOK, PrintInv, WriteEnd
<1>3. output' = Put(output, p, t)
  BY <1>2 DEF WriteEnd
<1>4. t \in Seq(Byte) /\ Len(t) = 2 /\ t[1] = QUOTE /\ t[2] = NUL /\ QUOTE # NUL /\ {QUOTE, NUL} \subseteq Byte
  BY DEF QUOTE, NUL, Byte
<1> HIDE DEF t
<1>5. /\ DOMAIN output' = DOMAIN output \union p .. (p + 1)
      /\ output'[p] = QUOTE /\ output'[p + 1] = NUL
      /\ \A j \in DOMAIN output : j \notin p .. (p + 1) => output'[j] = output[j]
  <2>1. /\ DOMAIN Put(output, p, t) = DOMAIN output \union p .. (p + Len(t) - 1)
        /\ \A j \in 1 .. Len(t) : Put(output, p, t)[p + j - 1] = t[j]
        /\ \A j \in DOMAIN output : j \notin p .. (p + Len(t) - 1) => Put(output, p, t)[j] = output[j]
    BY <1>4, PutFacts
  <2>2. p + Len(t) - 1 = p + 1 /\ p + 1 - 1 = p /\ p + 2 - 1 = p + 1 /\ 1 \in 1 .. Len(t) /\ 2 \in 1 .. Len(t)
    BY <1>4
  <2>3. QED
    BY <1>3, <1>4, <2>1, <2>2
<1>6. /\ DOMAIN output' = 0 .. p + 1
      /\ \A j \in 0 .. p - 1 : output'[j] = output[j] /\ output[j] # NUL
  <2>1. 0 .. p - 1 \subseteq DOMAIN output /\ \A j \in 0 .. p - 1 : j \notin p .. (p + 1)
    BY <1>2 DEF Filled
  <2>2. DOMAIN output' = 0 .. p + 1
    BY <1>2, <1>5, <2>1
  <2>3. QED
    BY <1>2, <1>5, <2>1, <2>2 DEF Filled
<1>7. \A j \in 0 .. p : output'[j] \in Byte /\ output'[j] # NUL
  <2>1. \A j \in 0 .. p : j \in 0 .. p - 1 \/ j = p
    OBVIOUS
  <2>2. \A j \in 0 .. p - 1 : output[j] \in Byte
    BY <1>2 DEF Filled
  <2>3. QED
    BY <1>4, <1>5, <1>6, <2>1, <2>2
<1>8. TypeOK'
  <2>1. \A j \in DOMAIN output' : j \in 0 .. p \/ j = p + 1
    BY <1>6
  <2>2. \A j \in DOMAIN output' : j \in Nat /\ output'[j] \in Byte
    BY <1>4, <1>5, <1>7, <2>1
  <2>3. QED
    BY <1>1, <2>2 DEF BoundsInv, TypeOK, printing
<1>9. Laid(output, n)'
  <2>1. \A j \in 0 .. Start(n) - 1 : output'[j] = output[j]
    BY <1>2, <1>6
  <2>2. Laid(output', n)
    BY <1>1, <1>2, <2>1, LaidKept
  <2>3. QED
    BY <1>1, <2>2 DEF Laid, Start
<1>10. EndsWhereCounted'
  <2>1. Len(text') + escape_characters' + 2 = p + 1 /\ p + 1 - 1 = p
    BY <1>1, <1>2
  <2>2. QED
    BY <1>5, <1>6, <1>7, <2>1 DEF EndsWhereCounted
<1>11. PrintInv'
  <2>1. Start(Len(text))' = p
    BY <1>1, <1>2 DEF Start
  <2>2. QED
    BY <1>1, <1>2, <1>5, <1>9, <1>10, <2>1 DEF PrintInv, printing
<1>12. QED
  BY <1>1, <1>8, <1>11 DEF BoundsInv, ArriveInv, ParseInv

\* The C string that was printed ends behind the closing quote.
LEMMA PrintedFacts ==
  ASSUME BoundsInv, pc = "printed"
  PROVE  /\ Printed \in Seq(Byte) /\ Len(Printed) = Start(Len(text)) + 1
         /\ \A k \in 0 .. Start(Len(text)) : Printed[k + 1] = output[k]
<1> DEFINE n == Len(text)
           P(k) == output[k] = NUL /\ \A j \in 0 .. k - 1 : j \in DOMAIN output /\ output[j] # NUL
           end == CHOOSE k \in DOMAIN output : P(k)
<1>0. /\ text \in Seq(Byte) /\ n \in Nat /\ escape_characters = Added(text)[n]
      /\ escape_characters \in Nat
  BY DEF BoundsInv, TypeOK, PrintInv
<1>s. Start(n) = 1 + n + escape_characters
  BY <1>0, StartFacts
<1>e. PICK e \in Nat : e = Start(n) + 1
  BY <1>0, <1>s
<1>1. /\ DOMAIN output = 0 .. e /\ output[e] = NUL
      /\ \A k \in 0 .. e - 1 : output[k] # NUL
      /\ \A k \in DOMAIN output : output[k] \in Byte
  <2>1. Len(text) + escape_characters + 2 = e
    BY <1>0, <1>s, <1>e
  <2>2. QED
    BY <2>1 DEF BoundsInv, TypeOK, PrintInv, EndsWhereCounted
<1>2. e \in DOMAIN output /\ P(e)
  BY <1>1
<1>3. ASSUME NEW k \in DOMAIN output, P(k) PROVE k = e
  <2>1. k \in 0 .. e
    BY <1>1
  <2>2. ~(k \in 0 .. e - 1)
    BY <1>1, <1>3
  <2>3. QED
    BY <2>1, <2>2
<1>4. end = e
  <2> HIDE DEF P
  <2>1. QED
    BY <1>2, <1>3
<1>5. Printed = [j \in 1 .. end |-> output[j - 1]]
  BY DEF Printed
<1> HIDE DEF end
<1>6. Printed = [j \in 1 .. e |-> output[j - 1]]
  BY <1>4, <1>5
<1>7. \A j \in 1 .. e : j - 1 \in 0 .. e /\ output[j - 1] \in Byte
  BY <1>1
<1>8. Printed \in [1 .. e -> Byte]
  BY <1>6, <1>7
<1>9. Printed \in Seq(Byte) /\ Len(Printed) = e
  BY <1>8
<1>10. \A k \in 0 .. e - 1 : k + 1 \in 1 .. e /\ k + 1 - 1 = k
  OBVIOUS
<1>11. \A k \in 0 .. e - 1 : Printed[k + 1] = output[k]
  BY <1>6, <1>10
<1>12. e - 1 = Start(n)
  BY <1>0, <1>s, <1>e
<1>13. QED
  BY <1>e, <1>9, <1>11, <1>12

\* The printed text becomes the input.
LEMMA ArriveKeeps == ASSUME BoundsInv, Arrive PROVE BoundsInv'
<1> DEFINE n == Len(text)
<1>1. /\ text \in Seq(Byte) /\ text' = text /\ pc = "printed" /\ pc' = "scan"
      /\ output' = Nothing /\ output_pointer' = 0 /\ reserved' = 0 /\ input_pointer' = 0
      /\ input_end' = 1 /\ skipped_bytes' = 0 /\ touched' = 0 /\ escape_characters' = escape_characters
      /\ input' = Append(Printed, NUL)
  BY DEF BoundsInv, TypeOK, PrintInv, Arrive, parsing
<1>s. PICK s \in Nat : s = Start(n)
  BY <1>1, StartFacts
<1>2. /\ Printed \in Seq(Byte) /\ Len(Printed) = s + 1
      /\ \A k \in 0 .. s : Printed[k + 1] = output[k]
  BY <1>1, <1>s, PrintedFacts
<1>3. NUL \in Byte
  BY DEF NUL, Byte
<1>4. input' \in Seq(Byte) /\ Len(input') = s + 2 /\ \A k \in 0 .. s : input'[k + 1] = output[k]
  <2>1. \A k \in 0 .. s : k + 1 \in 1 .. s + 1
    OBVIOUS
  <2>2. QED
    BY <1>1, <1>2, <1>3, <2>1
<1>5. DOMAIN output' = {}
  BY <1>1 DEF Nothing
<1>6. TypeOK'
  BY <1>1, <1>4, <1>5 DEF BoundsInv, TypeOK
<1>7. PrintInv'
  BY <1>1 DEF PrintInv
<1>8. \A k \in 0 .. s : Arrived'[k] = output[k]
  <2>1. \A k \in 0 .. s : k \in 0 .. Len(input') - 1
    BY <1>4
  <2>2. QED
    BY <1>4, <2>1 DEF Arrived
<1>9. ArriveInv'
  <2>1. output[s] = QUOTE /\ Laid(output, n)
    BY <1>1, <1>s DEF BoundsInv, PrintInv
  <2>2. n \in 0 .. Len(text) /\ s >= 1
    BY <1>1, <1>s, StartFacts
  <2>3. \A k \in 0 .. Start(n) - 1 : Arrived'[k] = output[k]
    BY <1>8, <1>s
  <2>4. Laid(Arrived', n)
    BY <1>1, <2>1, <2>2, <2>3, LaidKept
  <2>5. Laid(Arrived, Len(text))' /\ Start(Len(text))' = s
    BY <1>1, <1>s, <2>4 DEF Laid, Start
  <2>6. Arrived'[s] = QUOTE
    BY <1>8, <2>1
  <2>7. QED
    BY <1>1, <1>4, <2>5, <2>6 DEF ArriveInv
<1>10. ParseInv'
  <2> DEFINE g == [k \in 0 .. 1 |-> 0]
  <2>1. g \in Counts(1) /\ g[1] = 0
    BY DEF Counts
  <2>2. Marks(g, 1)'
    BY DEF Marks
  <2>3. QED
    BY <1>1, <1>4, <2>1, <2>2 DEF ParseInv
<1>11. QED
  BY <1>6, <1>7, <1>9, <1>10 DEF BoundsInv

-----------------------------------------------------------------------------
(* The steps of parse_string's first loop.                                 *)

\* The highest position read is one of those read.
LEMMA TouchFacts ==
  ASSUME touched \in Nat, NEW n \in Nat, touched < n, NEW k \in 0 .. n - 1, Touch({k})
  PROVE  touched' \in Nat /\ touched' < n
<1> DEFINE S == {k} \union {touched}
<1>1. \E m \in S : \A j \in S : j <= m
  <2>1. CASE k <= touched
    BY <2>1
  <2>2. CASE ~(k <= touched)
    BY <2>2
  <2>3. QED
    BY <2>1, <2>2
<1>2. touched' = CHOOSE m \in S : \A j \in S : j <= m
  BY DEF Touch, Highest
<1>3. touched' \in S
  <2> HIDE DEF S
  <2>1. QED
    BY <1>1, <1>2
<1>4. QED
  BY <1>3

\* A character that is not escaped is passed.
LEMMA MarksOne ==
  ASSUME NEW e \in Nat \ {0}, NEW g \in Counts(e), Marks(g, e)
  PROVE  \E h \in Counts(e + 1) : Marks(h, e + 1) /\ h[e + 1] = g[e]
<1> DEFINE h == [k \in 0 .. e + 1 |-> IF k = e + 1 THEN g[e] ELSE g[k]]
<1>1. \A k \in 0 .. e : g[k] \in Nat
  BY DEF Counts
<1>2. h \in Counts(e + 1) /\ h[e + 1] = g[e] /\ \A k \in 0 .. e : h[k] = g[k]
  BY <1>1 DEF Counts
<1>m. /\ g[0] = 0 /\ g[1] = 0 /\ g[e] = g[e - 1]
      /\ \A k \in 1 .. e - 1 :
           /\ g[k + 1] \in {g[k], g[k] + 1}
           /\ g[k + 1] = g[k] + 1 => At(k) = BACKSLASH
           /\ g[k + 1] <= g[k - 1] + 1
           /\ g[e] + k <= g[k] + e
  BY DEF Marks
<1> HIDE DEF h
<1>3. ASSUME NEW k \in 1 .. e
      PROVE  /\ h[k + 1] \in {h[k], h[k] + 1}
             /\ h[k + 1] = h[k] + 1 => At(k) = BACKSLASH
             /\ h[k + 1] <= h[k - 1] + 1
             /\ h[e + 1] + k <= h[k] + (e + 1)
  <2>1. CASE k = e
    <3>1. /\ e \in 0 .. e /\ e - 1 \in 0 .. e /\ g[e] \in Nat /\ g[e - 1] \in Nat
      BY <1>1
    <3>2. h[k + 1] = g[e] /\ h[k] = g[e] /\ h[k - 1] = g[e]
      BY <1>2, <1>m, <2>1, <3>1
    <3>3. QED
      BY <1>2, <2>1, <3>1, <3>2
  <2>2. CASE k # e
    <3>1. k \in 1 .. e - 1 /\ k \in 0 .. e /\ k + 1 \in 0 .. e /\ k - 1 \in 0 .. e /\ e \in 0 .. e
      BY <2>2
    <3>2. /\ g[k] \in Nat /\ g[k + 1] \in Nat /\ g[k - 1] \in Nat /\ g[e] \in Nat
          /\ h[k] = g[k] /\ h[k + 1] = g[k + 1] /\ h[k - 1] = g[k - 1] /\ h[e + 1] = g[e]
      BY <1>1, <1>2, <3>1
    <3>3. QED
      BY <1>m, <3>1, <3>2
  <2>3. QED
    BY <2>1, <2>2
<1>4. h[0] = 0 /\ h[1] = 0 /\ h[e + 1] = h[e + 1 - 1]
  <2>1. 0 \in 0 .. e /\ 1 \in 0 .. e /\ e \in 0 .. e /\ e + 1 - 1 = e
    OBVIOUS
  <2>2. QED
    BY <1>2, <1>m, <2>1
<1>5. Marks(h, e + 1)
  <2>1. 1 .. e + 1 - 1 = 1 .. e
    OBVIOUS
  <2>2. QED
    BY <1>3, <1>4, <2>1 DEF Marks
<1>6. QED
  BY <1>2, <1>5

\* An escape is passed.
LEMMA MarksTwo ==
  ASSUME NEW e \in Nat \ {0}, NEW g \in Counts(e), Marks(g, e), At(e) = BACKSLASH
  PROVE  \E h \in Counts(e + 2) : Marks(h, e + 2) /\ h[e + 2] = g[e] + 1
<1> DEFINE h == [k \in 0 .. e + 2 |-> IF k \in {e + 1, e + 2} THEN g[e] + 1 ELSE g[k]]
<1>1. \A k \in 0 .. e : g[k] \in Nat
  BY DEF Counts
<1>2. /\ h \in Counts(e + 2) /\ h[e + 1] = g[e] + 1 /\ h[e + 2] = g[e] + 1
      /\ \A k \in 0 .. e : h[k] = g[k]
  BY <1>1 DEF Counts
<1>m. /\ g[0] = 0 /\ g[1] = 0 /\ g[e] = g[e - 1]
      /\ \A k \in 1 .. e - 1 :
           /\ g[k + 1] \in {g[k], g[k] + 1}
           /\ g[k + 1] = g[k] + 1 => At(k) = BACKSLASH
           /\ g[k + 1] <= g[k - 1] + 1
           /\ g[e] + k <= g[k] + e
  BY DEF Marks
<1>e. /\ e \in 0 .. e /\ e - 1 \in 0 .. e /\ g[e] \in Nat /\ g[e - 1] \in Nat
      /\ 0 \in 0 .. e /\ 1 \in 0 .. e /\ e + 2 - 1 = e + 1
  BY <1>1
<1> HIDE DEF h
<1>3. ASSUME NEW k \in 1 .. e + 1
      PROVE  /\ h[k + 1] \in {h[k], h[k] + 1}
             /\ h[k + 1] = h[k] + 1 => At(k) = BACKSLASH
             /\ h[k + 1] <= h[k - 1] + 1
             /\ h[e + 2] + k <= h[k] + (e + 2)
  <2>1. CASE k = e + 1
    <3>1. k + 1 = e + 2 /\ k - 1 = e
      BY <2>1
    <3>2. h[k + 1] = g[e] + 1 /\ h[k] = g[e] + 1 /\ h[k - 1] = g[e] /\ h[e + 2] = g[e] + 1
      BY <1>2, <1>e, <2>1, <3>1
    <3>3. QED
      BY <1>e, <2>1, <3>2
  <2>2. CASE k = e
    <3>1. h[k + 1] = g[e] + 1 /\ h[k] = g[e] /\ h[k - 1] = g[e] /\ h[e + 2] = g[e] + 1
      BY <1>2, <1>e, <1>m, <2>2
    <3>2. QED
      BY <1>e, <2>2, <3>1
  <2>3. CASE k \notin {e, e + 1}
    <3>1. k \in 1 .. e - 1 /\ k \in 0 .. e /\ k + 1 \in 0 .. e /\ k - 1 \in 0 .. e
      BY <2>3
    <3>2. /\ g[k] \in Nat /\ g[k + 1] \in Nat /\ g[k - 1] \in Nat
          /\ h[k] = g[k] /\ h[k + 1] = g[k + 1] /\ h[k - 1] = g[k - 1] /\ h[e + 2] = g[e] + 1
      BY <1>1, <1>2, <3>1
    <3>3. QED
      BY <1>e, <1>m, <3>1, <3>2
  <2>4. QED
    BY <2>1, <2>2, <2>3
<1>4. h[0] = 0 /\ h[1] = 0 /\ h[e + 2] = h[e + 2 - 1]
  BY <1>2, <1>m, <1>e
<1>5. Marks(h, e + 2)
  <2>1. 1 .. e + 2 - 1 = 1 .. e + 1
    OBVIOUS
  <2>2. QED
    BY <1>3, <1>4, <2>1 DEF Marks
<1>6. QED
  BY <1>2, <1>5

\* Looking for the quote leaves alone what is parsed.
LEMMA InputKept ==
  ASSUME ArriveInv, pc \in {"scan", "decode", "parsed", "failed"}, UNCHANGED <<text, input>>
  PROVE  ArriveInv'
BY DEF ArriveInv, Arrived, Laid, Start, Escaped

\* The count of escapes is carried on over a character, or over an escape.
LEMMA ScanKeeps == ASSUME BoundsInv, Scan PROVE BoundsInv'
<1>1. /\ pc = "scan" /\ text \in Seq(Byte \ {NUL}) /\ input \in Seq(Byte) /\ touched \in Nat
      /\ output = Nothing /\ output_pointer = 0 /\ input_end \in 1 .. Len(input) - 1
      /\ touched < Len(input) /\ Len(input) \in Nat /\ 2 * skipped_bytes <= input_end
      /\ UNCHANGED <<parsing, input, input_pointer, output_pointer>>
  BY DEF BoundsInv, TypeOK, ParseInv, Scan, Unescaped
<1>2. touched' \in Nat /\ touched' < Len(input)
  <2>1. Touch({input_end}) /\ input_end \in 0 .. Len(input) - 1
    BY <1>1 DEF Scan
  <2>2. QED
    BY <1>1, <2>1, TouchFacts
<1>3. PICK g \in Counts(input_end) : Marks(g, input_end) /\ skipped_bytes = g[input_end]
  BY <1>1 DEF BoundsInv, ParseInv
<1>4. skipped_bytes \in Nat
  BY <1>1, <1>3 DEF Counts
<1>5. ArriveInv'
  BY <1>1, InputKept DEF BoundsInv, parsing
<1>6. PrintInv'
  BY <1>1 DEF Scan, Fail, PrintInv
<1>7. CASE pc' = "failed"
  <2>1. output' = Nothing /\ reserved' = 0 /\ UNCHANGED <<input_end, skipped_bytes>>
    BY <1>1, <1>7 DEF Scan, Fail
  <2>2. TypeOK'
    BY <1>1, <1>2, <1>7, <2>1 DEF BoundsInv, TypeOK, Nothing, parsing
  <2>3. QED
    BY <1>1, <1>2, <1>5, <1>6, <1>7, <2>2 DEF BoundsInv, ParseInv
<1>8. CASE pc' # "failed" /\ At(input_end) = BACKSLASH
  <2>1. /\ pc' = "scan" /\ input_end' = input_end + 2 /\ input_end + 1 < Len(input)
        /\ skipped_bytes' = skipped_bytes + 1 /\ UNCHANGED <<output, reserved>>
    BY <1>1, <1>8 DEF Scan, Fail
  <2>2. /\ input_end' \in 1 .. Len(input) /\ input_end' \in 1 .. Len(input) + 1
        /\ 2 * skipped_bytes' <= input_end'
    BY <1>1, <1>4, <2>1
  <2>3. TypeOK'
    BY <1>1, <1>2, <2>1, <2>2 DEF BoundsInv, TypeOK, parsing
  <2>4. \E h \in Counts(input_end') : Marks(h, input_end') /\ skipped_bytes' = h[input_end']
    BY <1>1, <1>3, <1>8, <2>1, MarksTwo
  <2>5. ParseInv'
    BY <1>1, <1>2, <2>1, <2>2, <2>4 DEF ParseInv, Marks, At
  <2>6. QED
    BY <1>5, <1>6, <2>3, <2>5 DEF BoundsInv
<1>9. CASE pc' # "failed" /\ At(input_end) # BACKSLASH
  <2>1. /\ pc' = "scan" /\ input_end' = input_end + 1
        /\ UNCHANGED <<output, reserved, skipped_bytes>>
    BY <1>1, <1>9 DEF Scan
  <2>2. /\ input_end' \in 1 .. Len(input) /\ input_end' \in 1 .. Len(input) + 1
        /\ 2 * skipped_bytes' <= input_end'
    BY <1>1, <1>4, <2>1
  <2>3. TypeOK'
    BY <1>1, <1>2, <2>1, <2>2 DEF BoundsInv, TypeOK, parsing
  <2>4. \E h \in Counts(input_end') : Marks(h, input_end') /\ skipped_bytes' = h[input_end']
    BY <1>1, <1>3, <2>1, MarksOne
  <2>5. ParseInv'
    BY <1>1, <1>2, <2>1, <2>2, <2>4 DEF ParseInv, Marks, At
  <2>6. QED
    BY <1>5, <1>6, <2>3, <2>5 DEF BoundsInv
<1>10. QED
  BY <1>7, <1>8, <1>9

\* There is no string: nothing is allocated.
LEMMA NoStringKeeps == ASSUME BoundsInv, NoString PROVE BoundsInv'
<1>1. /\ pc = "scan" /\ text \in Seq(Byte \ {NUL}) /\ input \in Seq(Byte) /\ touched \in Nat
      /\ touched < Len(input) /\ Len(input) \in Nat
      /\ pc' = "failed" /\ output' = Nothing /\ reserved' = 0 /\ input_pointer' = 1 /\ Touch({0})
      /\ UNCHANGED <<parsing, input, input_end, skipped_bytes, output_pointer>>
  BY DEF BoundsInv, TypeOK, ParseInv, NoString, Fail
<1>2. touched' \in Nat /\ touched' < Len(input)
  <2>1. 0 \in 0 .. Len(input) - 1
    BY <1>1
  <2>2. QED
    BY <1>1, <2>1, TouchFacts
<1>3. TypeOK'
  BY <1>1, <1>2 DEF BoundsInv, TypeOK, Nothing, parsing
<1>4. ArriveInv'
  BY <1>1, InputKept DEF BoundsInv, parsing
<1>5. QED
  BY <1>1, <1>2, <1>3, <1>4 DEF BoundsInv, PrintInv, ParseInv

\* The closing quote is found, and as much allocated as was counted.
LEMMA AllocateKeeps == ASSUME BoundsInv, Allocate PROVE BoundsInv'
<1>1. /\ pc = "scan" /\ text \in Seq(Byte \ {NUL}) /\ input \in Seq(Byte) /\ touched \in Nat
      /\ output = Nothing /\ output_pointer = 0 /\ input_end \in 1 .. Len(input) - 1
      /\ touched < Len(input) /\ Len(input) \in Nat /\ 2 * skipped_bytes <= input_end
      /\ pc' = "decode" /\ reserved' = (input_end - skipped_bytes) + 1 /\ input_pointer' = 1
      /\ Touch({input_end})
      /\ UNCHANGED <<parsing, input, input_end, skipped_bytes, output, output_pointer>>
  BY DEF BoundsInv, TypeOK, ParseInv, Allocate
<1>2. touched' \in Nat /\ touched' < Len(input)
  <2>1. input_end \in 0 .. Len(input) - 1
    BY <1>1
  <2>2. QED
    BY <1>1, <2>1, TouchFacts
<1>3. PICK g \in Counts(input_end) : Marks(g, input_end) /\ skipped_bytes = g[input_end]
  BY <1>1 DEF BoundsInv, ParseInv
<1>4. skipped_bytes \in Nat /\ g[1] = 0
  BY <1>1, <1>3 DEF Counts, Marks
<1>5. reserved' \in Nat
  BY <1>1, <1>4
<1>6. TypeOK'
  BY <1>1, <1>2, <1>5 DEF BoundsInv, TypeOK, parsing
<1>7. ArriveInv'
  BY <1>1, InputKept DEF BoundsInv, parsing
<1>8. PrintInv'
  BY <1>1 DEF PrintInv
<1>9. ParseInv'
  <2>1. Marks(g, input_end)'
    BY <1>1, <1>3 DEF Marks, At
  <2>2. DOMAIN output' = 0 .. output_pointer' - 1
    BY <1>1 DEF Nothing
  <2>3. IF input_pointer' <= input_end'
        THEN output_pointer' + g[input_pointer'] < input_pointer'
        ELSE output_pointer' + skipped_bytes' <= input_end'
    BY <1>1, <1>4
  <2>4. input_pointer' \in 1 .. input_end' + 1
    BY <1>1
  <2>5. QED
    BY <1>1, <1>2, <1>3, <2>1, <2>2, <2>3, <2>4 DEF ParseInv
<1>10. QED
  BY <1>6, <1>7, <1>8, <1>9 DEF BoundsInv

-----------------------------------------------------------------------------
(* The steps of parse_string's second loop.                                *)

\* How the count of escapes grows over one character, an escape, a \u escape,
\* and a pair of them.
LEMMA MarksGrow ==
  ASSUME NEW e \in Nat \ {0}, NEW g \in Counts(e), Marks(g, e)
  PROVE  /\ \A k \in 0 .. e : g[k] \in Nat
         /\ g[e] = g[e - 1] /\ \A k \in 1 .. e : g[e] + k <= g[k] + e
         /\ \A k \in 1 .. e - 1 : At(k) # BACKSLASH => g[k + 1] = g[k]
         /\ \A k \in 0 .. e - 2 : g[k + 2] <= g[k] + 1
         /\ \A k \in 0 .. e - 6 : g[k + 6] <= g[k] + 3
         /\ \A k \in 0 .. e - 12 : g[k + 12] <= g[k] + 6
<1>1. \A k \in 0 .. e : g[k] \in Nat
  BY DEF Counts
<1>2. g[e] = g[e - 1] /\ \A k \in 1 .. e : g[e] + k <= g[k] + e
  <2>1. \A k \in 1 .. e : k = e \/ k \in 1 .. e - 1
    OBVIOUS
  <2>2. \A k \in 1 .. e - 1 : g[e] + k <= g[k] + e
    BY DEF Marks
  <2>3. e \in 0 .. e /\ g[e] \in Nat
    BY <1>1
  <2>4. QED
    BY <2>1, <2>2, <2>3 DEF Marks
<1>3. \A k \in 1 .. e - 1 : At(k) # BACKSLASH => g[k + 1] = g[k]
  BY DEF Marks
<1>4. ASSUME NEW k \in 0 .. e - 2 PROVE g[k + 2] <= g[k] + 1
  <2>1. k + 1 \in 1 .. e - 1 /\ k + 1 + 1 = k + 2 /\ k + 1 - 1 = k
    OBVIOUS
  <2>2. g[k + 1 + 1] <= g[k + 1 - 1] + 1
    BY <2>1 DEF Marks
  <2>3. QED
    BY <2>1, <2>2
<1>5. ASSUME NEW k \in 0 .. e - 6 PROVE g[k + 6] <= g[k] + 3
  <2>1. /\ k \in 0 .. e - 2 /\ k + 2 \in 0 .. e - 2 /\ k + 4 \in 0 .. e - 2
        /\ k + 2 + 2 = k + 4 /\ k + 4 + 2 = k + 6
        /\ k \in 0 .. e /\ k + 2 \in 0 .. e /\ k + 4 \in 0 .. e /\ k + 6 \in 0 .. e
    OBVIOUS
  <2>2. g[k + 2] <= g[k] + 1 /\ g[k + 2 + 2] <= g[k + 2] + 1 /\ g[k + 4 + 2] <= g[k + 4] + 1
    BY <1>4, <2>1
  <2>3. g[k] \in Nat /\ g[k + 2] \in Nat /\ g[k + 4] \in Nat /\ g[k + 6] \in Nat
    BY <1>1, <2>1
  <2>4. QED
    BY <2>1, <2>2, <2>3
<1>6. ASSUME NEW k \in 0 .. e - 12 PROVE g[k + 12] <= g[k] + 6
  <2>1. /\ k \in 0 .. e - 6 /\ k + 6 \in 0 .. e - 6 /\ k + 6 + 6 = k + 12
        /\ k \in 0 .. e /\ k + 6 \in 0 .. e /\ k + 12 \in 0 .. e
    OBVIOUS
  <2>2. g[k + 6] <= g[k] + 3 /\ g[k + 6 + 6] <= g[k + 6] + 3
    BY <1>5, <2>1
  <2>3. g[k] \in Nat /\ g[k + 6] \in Nat /\ g[k + 12] \in Nat
    BY <1>1, <2>1
  <2>4. QED
    BY <2>1, <2>2, <2>3
<1>7. QED
  BY <1>1, <1>2, <1>3, <1>4, <1>5, <1>6

\* What is read is a byte.
LEMMA AtFacts ==
  ASSUME input \in Seq(Byte), NEW k \in Nat
  PROVE  At(k) \in Byte
<1>1. CASE k < Len(input)
  <2>1. k + 1 \in 1 .. Len(input)
    BY <1>1
  <2>2. input[k + 1] \in Byte
    BY <2>1
  <2>3. QED
    BY <1>1, <2>2 DEF At
<1>2. CASE ~(k < Len(input))
  BY <1>2 DEF At, NUL, Byte
<1>3. QED
  BY <1>1, <1>2

\* Four hexadecimal digits are 16 bits.
Word(n) == n \in Nat /\ n <= 65535

\* Four of them are a word.
LEMMA Hex4Facts ==
  ASSUME input \in Seq(Byte), NEW k \in Nat
  PROVE  Word(Hex4(k))
<1> DEFINE n == [j \in 0 .. 3 |-> Nibble(At(k + j))]
<1>1. ASSUME NEW j \in 0 .. 3 PROVE n[j] \in 0 .. 16
  <2>1. At(k + j) \in Byte
    BY AtFacts
  <2>2. Nibble(At(k + j)) \in 0 .. 16
    BY <2>1 DEF Nibble, Byte
  <2>3. QED
    BY <2>2
<1>2. Hex4(k) = IF \E j \in 0 .. 3 : n[j] = 16 THEN 0
                ELSE n[0] * 4096 + n[1] * 256 + n[2] * 16 + n[3]
  BY Z3 DEF Hex4
<1> HIDE DEF n
<1>3. CASE \E j \in 0 .. 3 : n[j] = 16
  BY <1>2, <1>3, Z3 DEF Word
<1>4. CASE ~\E j \in 0 .. 3 : n[j] = 16
  <2>1. n[0] \in 0 .. 15 /\ n[1] \in 0 .. 15 /\ n[2] \in 0 .. 15 /\ n[3] \in 0 .. 15
    <3>1. 0 \in 0 .. 3 /\ 1 \in 0 .. 3 /\ 2 \in 0 .. 3 /\ 3 \in 0 .. 3
      OBVIOUS
    <3>2. \A j \in 0 .. 3 : n[j] \in 0 .. 15
      BY <1>1, <1>4
    <3>3. QED
      BY <3>1, <3>2
  <2>2. Hex4(k) = n[0] * 4096 + n[1] * 256 + n[2] * 16 + n[3]
    BY <1>2, <1>4, Z3
  <2>3. PICK a \in 0 .. 15 : a = n[0]
    BY <2>1
  <2>4. PICK b \in 0 .. 15 : b = n[1]
    BY <2>1
  <2>5. PICK c \in 0 .. 15 : c = n[2]
    BY <2>1
  <2>6. PICK d \in 0 .. 15 : d = n[3]
    BY <2>1
  <2>7. Word(a * 4096 + b * 256 + c * 16 + d)
    BY Z3 DEF Word
  <2>8. QED
    BY <2>2, <2>3, <2>4, <2>5, <2>6, <2>7, Z3
<1>5. QED
  BY <1>3, <1>4, Z3

\* A code point: no half of a surrogate pair is one.
CodePoint(p) == p \in Nat /\ p <= 1114111 /\ (p < 55296 \/ 57343 < p)

\* It is encoded as one UTF-8 character.
LEMMA Utf8Facts ==
  ASSUME NEW p, CodePoint(p)
  PROVE  /\ Utf8(p) \in Seq(Byte) /\ Len(Utf8(p)) \in 1 .. 4
         /\ p < 65536 => Len(Utf8(p)) <= 3
         /\ ~Continues(Utf8(p)[1]) /\ Extent(Utf8(p)[1]) = Len(Utf8(p))
         /\ \A j \in 2 .. Len(Utf8(p)) : Continues(Utf8(p)[j])
         /\ Utf8(p)[1] = 237 => Utf8(p)[2] < 160
         /\ Utf8(p)[1] = 244 => Utf8(p)[2] < 144
<1>0. p \in Nat /\ p <= 1114111 /\ (p < 55296 \/ 57343 < p)
  BY Z3 DEF CodePoint
<1>1. \A n \in Nat : Continuation(n) \in 128 .. 191
  <2>1. \A n \in Nat : n % 64 \in 0 .. 63
    BY Z3
  <2>2. QED
    BY <2>1, Z3 DEF Continuation
<1>2. CASE p < 128
  <2>1. Utf8(p) = <<p>>
    BY <1>2, Z3 DEF Utf8
  <2>2. p \in 0 .. 127
    BY <1>0, <1>2, Z3
  <2>3. QED
    BY <1>2, <2>1, <2>2, Z3 DEF Byte, Continues, Extent
<1>3. CASE ~(p < 128) /\ p < 2048
  <2>1. p \div 64 \in 2 .. 31
    BY <1>0, <1>3, Z3
  <2>2. PICK a \in 2 .. 31 : a = p \div 64
    BY <2>1, Z3
  <2>3. PICK c \in 128 .. 191 : c = Continuation(p)
    BY <1>0, <1>1, Z3
  <2>4. Utf8(p) = <<192 + a, c>>
    BY <1>3, <2>2, <2>3, Z3 DEF Utf8
  <2>5. QED
    BY <1>3, <2>4, Z3 DEF Byte, Continues, Extent
<1>4. CASE ~(p < 2048) /\ p < 65536
  <2>1. p \div 4096 \in 0 .. 15 /\ p \div 64 \in Nat
    BY <1>0, <1>4, Z3
  <2>2. PICK a \in 0 .. 15 : a = p \div 4096
    BY <2>1, Z3
  <2>3. PICK b \in 128 .. 191 : b = Continuation(p \div 64)
    BY <1>1, <2>1, Z3
  <2>4. PICK c \in 128 .. 191 : c = Continuation(p)
    BY <1>0, <1>1, Z3
  <2>5. Utf8(p) = <<224 + a, b, c>>
    BY <1>0, <1>4, <2>2, <2>3, <2>4, Z3 DEF Utf8
  <2>6. a = 13 => b < 160
    <3>1. p \div 4096 = 13 => (p \div 64) % 64 < 32 /\ (p \div 64) % 64 \in Nat
      BY <1>0, <1>4, Z3
    <3>2. QED
      BY <2>2, <2>3, <3>1, Z3 DEF Continuation
  <2>7. QED
    BY <1>4, <2>5, <2>6, Z3 DEF Byte, Continues, Extent
<1>5. CASE ~(p < 65536)
  <2>1. p \div 262144 \in 0 .. 4 /\ p \div 4096 \in Nat /\ p \div 64 \in Nat
    BY <1>0, <1>5, Z3
  <2>2. PICK a \in 0 .. 4 : a = p \div 262144
    BY <2>1, Z3
  <2>3. PICK b \in 128 .. 191 : b = Continuation(p \div 4096)
    BY <1>1, <2>1, Z3
  <2>4. PICK c \in 128 .. 191 : c = Continuation(p \div 64)
    BY <1>1, <2>1, Z3
  <2>5. PICK d \in 128 .. 191 : d = Continuation(p)
    BY <1>0, <1>1, Z3
  <2>6. Utf8(p) = <<240 + a, b, c, d>>
    BY <1>0, <1>5, <2>2, <2>3, <2>4, <2>5, Z3 DEF Utf8
  <2>7. a = 4 => b < 144
    <3>1. p \div 262144 = 4 => (p \div 4096) % 64 < 16 /\ (p \div 4096) % 64 \in Nat
      BY <1>0, <1>5, Z3
    <3>2. QED
      BY <2>2, <2>3, <3>1, Z3 DEF Continuation
  <2>8. QED
    BY <1>5, <2>6, <2>7, Z3 DEF Byte, Continues, Extent
<1>6. QED
  BY <1>2, <1>3, <1>4, <1>5, Z3

\* A \u escape, or a pair of them, is one code point.
LEMMA LiteralFacts ==
  ASSUME input \in Seq(Byte), input_end \in Nat, NEW k \in Nat, Literal(k).length > 0
  PROVE  /\ Literal(k).length \in {6, 12} /\ k + Literal(k).length <= input_end
         /\ \E p : CodePoint(p) /\ Literal(k).bytes = Utf8(p) /\ (Literal(k).length = 6 => p < 65536)
<1> DEFINE first == Hex4(k + 2)
           second == Hex4(k + 8)
           p == 65536 + (first % 1024) * 1024 + (second % 1024)
<1>1. first \in Nat /\ first <= 65535 /\ second \in Nat
  <2>1. k + 2 \in Nat /\ k + 8 \in Nat
    OBVIOUS
  <2>2. Word(first) /\ Word(second)
    BY <2>1, Hex4Facts, Zenon
  <2>3. QED
    BY <2>2, Z3 DEF Word
<1>2. Literal(k) =
        IF k + 6 > input_end THEN NoLiteral(k + 1)
        ELSE IF first \in Low THEN NoLiteral(k + 5)
        ELSE IF first \notin High
        THEN [length |-> 6, bytes |-> Utf8(first), reads |-> {Hex4End(k + 2)}]
        ELSE IF k + 12 > input_end THEN NoLiteral(k + 5)
        ELSE IF At(k + 6) # BACKSLASH THEN NoLiteral(k + 6)
        ELSE IF At(k + 7) # U THEN NoLiteral(k + 7)
        ELSE IF second \notin Low THEN NoLiteral(Hex4End(k + 8))
        ELSE [length |-> 12, reads |-> {k + 11}, bytes |-> Utf8(p)]
  BY Z3 DEF Literal
<1>3. \A last : NoLiteral(last).length = 0
  BY DEF NoLiteral
<1>4. p \in Nat /\ p <= 1114111 /\ 65536 <= p
  <2> HIDE DEF first, second
  <2>1. /\ first % 1024 \in Nat /\ first % 1024 <= 1023
        /\ second % 1024 \in Nat /\ second % 1024 <= 1023
    BY <1>1, Z3
  <2>2. QED
    BY <2>1, Z3
<1> HIDE DEF first, second, p
<1>5. k + 6 <= input_end /\ first \notin Low
  BY <1>2, <1>3, Z3
<1>6. CASE first \notin High
  <2>1. Literal(k) = [length |-> 6, bytes |-> Utf8(first), reads |-> {Hex4End(k + 2)}]
    BY <1>2, <1>5, <1>6, Z3
  <2>2. CodePoint(first) /\ first < 65536
    BY <1>1, <1>5, <1>6, Z3 DEF CodePoint, High, Low
  <2>3. Literal(k).length = 6 /\ Literal(k).bytes = Utf8(first)
    BY <2>1, Z3
  <2>4. QED
    BY <1>5, <2>2, <2>3, Z3
<1>7. CASE first \in High
  <2>1. k + 12 <= input_end /\ Literal(k) = [length |-> 12, reads |-> {k + 11}, bytes |-> Utf8(p)]
    BY <1>2, <1>3, <1>5, <1>7, Z3
  <2>2. CodePoint(p)
    BY <1>4, Z3 DEF CodePoint
  <2>3. Literal(k).length = 12 /\ Literal(k).bytes = Utf8(p)
    BY <2>1, Z3
  <2>4. QED
    BY <2>1, <2>2, <2>3, Z3
<1>8. QED
  BY <1>6, <1>7, Z3

\* parse_hex4 reads four bytes at most.
LEMMA Hex4EndFacts == ASSUME NEW k \in Nat PROVE Hex4End(k) \in k .. k + 3
<1> DEFINE bad == {j \in 0 .. 3 : Nibble(At(k + j)) = 16}
<1>1. Hex4End(k) = IF bad = {} THEN k + 3 ELSE k + (CHOOSE j \in bad : \A i \in bad : j <= i)
  BY Z3 DEF Hex4End
<1>2. bad \in SUBSET (0 .. 3)
  OBVIOUS
<1> HIDE DEF bad
<1>3. ASSUME bad # {} PROVE \E j \in bad : \A i \in bad : j <= i
  <2>1. \A j \in bad : j \in {0, 1, 2, 3}
    BY <1>2
  <2>2. CASE 0 \in bad
    BY <2>1, <2>2
  <2>3. CASE 0 \notin bad /\ 1 \in bad
    BY <2>1, <2>3
  <2>4. CASE 0 \notin bad /\ 1 \notin bad /\ 2 \in bad
    BY <2>1, <2>4
  <2>5. CASE 0 \notin bad /\ 1 \notin bad /\ 2 \notin bad
    <3>1. \A j \in bad : j = 3
      BY <2>1, <2>5
    <3>2. PICK m : m \in bad
      BY <1>3
    <3>3. m = 3 /\ 3 <= 3
      BY <3>1, <3>2
    <3>4. QED
      BY <3>1, <3>2, <3>3
  <2>6. QED
    BY <2>2, <2>3, <2>4, <2>5
<1>4. CASE bad = {}
  BY <1>1, <1>4
<1>5. CASE bad # {}
  <2>1. PICK m : m = CHOOSE j \in bad : \A i \in bad : j <= i
    OBVIOUS
  <2>2. m \in bad
    BY <1>3, <1>5, <2>1
  <2>3. m \in 0 .. 3 /\ Hex4End(k) = k + m
    BY <1>1, <1>2, <1>5, <2>1, <2>2
  <2>4. QED
    BY <2>3
<1>6. QED
  BY <1>4, <1>5

\* Whether it is an escape or not, utf16_literal_to_utf8 reads nothing behind the
\* closing quote.
LEMMA LiteralReads ==
  ASSUME input_end \in Nat, NEW k \in Nat, k + 1 <= input_end
  PROVE  \E r \in 0 .. input_end : Literal(k).reads = {r}
<1> DEFINE first == Hex4(k + 2)
           second == Hex4(k + 8)
           p == 65536 + (first % 1024) * 1024 + (second % 1024)
<1>1. Literal(k) =
        IF k + 6 > input_end THEN NoLiteral(k + 1)
        ELSE IF first \in Low THEN NoLiteral(k + 5)
        ELSE IF first \notin High
        THEN [length |-> 6, bytes |-> Utf8(first), reads |-> {Hex4End(k + 2)}]
        ELSE IF k + 12 > input_end THEN NoLiteral(k + 5)
        ELSE IF At(k + 6) # BACKSLASH THEN NoLiteral(k + 6)
        ELSE IF At(k + 7) # U THEN NoLiteral(k + 7)
        ELSE IF second \notin Low THEN NoLiteral(Hex4End(k + 8))
        ELSE [length |-> 12, reads |-> {k + 11}, bytes |-> Utf8(p)]
  BY Z3 DEF Literal
<1> HIDE DEF first, second, p
<1>2. Hex4End(k + 2) \in k + 2 .. k + 5 /\ Hex4End(k + 8) \in k + 8 .. k + 11
  <2>1. k + 2 \in Nat /\ k + 8 \in Nat
    OBVIOUS
  <2>2. Hex4End(k + 2) \in k + 2 .. k + 2 + 3 /\ Hex4End(k + 8) \in k + 8 .. k + 8 + 3
    BY <2>1, Hex4EndFacts
  <2>3. QED
    BY <2>2
<1>3. \A last : NoLiteral(last).reads = {last}
  BY DEF NoLiteral
<1>4. CASE k + 6 > input_end
  BY <1>1, <1>3, <1>4
<1>5. CASE ~(k + 6 > input_end) /\ (first \in Low \/ first \notin High \/ k + 12 > input_end)
  BY <1>1, <1>2, <1>3, <1>5
<1>6. CASE ~(k + 12 > input_end) /\ first \notin Low /\ first \in High
  BY <1>1, <1>2, <1>3, <1>6
<1>7. QED
  BY <1>4, <1>5, <1>6

\* Bytes put behind those written.
LEMMA EmitFacts ==
  ASSUME NEW p \in Nat, DOMAIN output = 0 .. p - 1, NEW b \in Seq(Byte),
         output' = Put(output, p, b)
  PROVE  /\ DOMAIN output' = 0 .. p + Len(b) - 1
         /\ \A j \in 0 .. p - 1 : output'[j] = output[j]
         /\ \A j \in 1 .. Len(b) : output'[p + j - 1] = b[j]
         /\ \A j \in p .. p + Len(b) - 1 : j - p + 1 \in 1 .. Len(b) /\ output'[j] = b[j - p + 1]
<1>1. PICK l \in Nat : l = Len(b)
  <2>1. Len(b) \in Nat
    OBVIOUS
  <2>2. QED
    BY <2>1
<1>2. /\ DOMAIN Put(output, p, b) = DOMAIN output \union p .. (p + Len(b) - 1)
      /\ \A j \in 1 .. Len(b) : Put(output, p, b)[p + j - 1] = b[j]
      /\ \A j \in DOMAIN output : j \notin p .. (p + Len(b) - 1) => Put(output, p, b)[j] = output[j]
  BY PutFacts, Zenon
<1>3. /\ DOMAIN output' = 0 .. p - 1 \union p .. (p + l - 1)
      /\ \A j \in 1 .. l : output'[p + j - 1] = b[j]
      /\ \A j \in 0 .. p - 1 : j \notin p .. (p + l - 1) => output'[j] = output[j]
  BY <1>1, <1>2
<1>4. 0 .. p - 1 \union p .. (p + l - 1) = 0 .. p + l - 1 /\ \A j \in 0 .. p - 1 : j \notin p .. (p + l - 1)
  OBVIOUS
<1>5. \A j \in p .. p + l - 1 : j - p + 1 \in 1 .. l /\ p + (j - p + 1) - 1 = j
  OBVIOUS
<1>6. QED
  BY <1>1, <1>3, <1>4, <1>5

\* In the second loop no more has been written than what was counted allows.
LEMMA DecodeFits ==
  ASSUME BoundsInv, pc = "decode"
  PROVE  output_pointer \in Nat /\ output_pointer < reserved
<1>1. /\ input_end \in Nat \ {0} /\ output_pointer \in Nat /\ input_pointer \in 1 .. input_end + 1
      /\ reserved = (input_end - skipped_bytes) + 1
  BY DEF BoundsInv, TypeOK, ParseInv
<1>2. PICK g \in Counts(input_end) :
        /\ Marks(g, input_end) /\ skipped_bytes = g[input_end]
        /\ IF input_pointer <= input_end
           THEN output_pointer + g[input_pointer] < input_pointer
           ELSE output_pointer + skipped_bytes <= input_end
  BY DEF BoundsInv, ParseInv
<1>3. /\ \A k \in 0 .. input_end : g[k] \in Nat
      /\ \A k \in 1 .. input_end : g[input_end] + k <= g[k] + input_end
  BY <1>1, <1>2, MarksGrow
<1>4. input_end \in 0 .. input_end /\ skipped_bytes \in Nat
  BY <1>1, <1>2, <1>3
<1>5. CASE input_pointer <= input_end
  <2>1. input_pointer \in 0 .. input_end /\ input_pointer \in 1 .. input_end
    BY <1>1, <1>5
  <2>2. g[input_pointer] \in Nat /\ skipped_bytes + input_pointer <= g[input_pointer] + input_end
    BY <1>2, <1>3, <2>1
  <2>3. QED
    BY <1>1, <1>2, <1>4, <1>5, <2>1, <2>2
<1>6. CASE ~(input_pointer <= input_end)
  BY <1>1, <1>2, <1>4, <1>6
<1>7. QED
  BY <1>5, <1>6

\* A round that writes b for d characters, having read up to r, keeps the
\* invariant when b is short enough for the escapes among them.
LEMMA RoundKeeps ==
  ASSUME BoundsInv, pc = "decode", input_pointer < input_end,
         NEW b \in Seq(Byte), NEW d \in Nat, NEW r \in 0 .. input_end,
         Emit(b, d), Touch({r}), UNCHANGED <<parsing, input, input_end, skipped_bytes>>,
         input_pointer + d <= input_end + 1,
         NEW g \in Counts(input_end), Marks(g, input_end), skipped_bytes = g[input_end],
         IF input_pointer + d <= input_end
         THEN output_pointer + Len(b) + g[input_pointer + d] < input_pointer + d
         ELSE output_pointer + Len(b) + skipped_bytes <= input_end
  PROVE  BoundsInv'
<1>1. /\ text \in Seq(Byte \ {NUL}) /\ input \in Seq(Byte) /\ Len(input) \in Nat /\ touched \in Nat
      /\ touched < Len(input) /\ input_end \in 1 .. Len(input) - 1
      /\ input_pointer \in 1 .. input_end /\ DOMAIN output = 0 .. output_pointer - 1
      /\ \A k \in DOMAIN output : output[k] \in Byte
      /\ reserved = (input_end - skipped_bytes) + 1 /\ reserved \in Nat
  BY DEF BoundsInv, TypeOK, ParseInv
<1>p. PICK p \in Nat : p = output_pointer
  BY DEF BoundsInv, TypeOK
<1>2. /\ output' = Put(output, p, b) /\ output_pointer' = p + Len(b)
      /\ input_pointer' = input_pointer + d /\ UNCHANGED <<pc, reserved, text, input>>
  BY <1>p DEF Emit, parsing
<1>3. Len(b) \in Nat
  OBVIOUS
<1>4. touched' \in Nat /\ touched' < Len(input)
  <2>1. r \in 0 .. Len(input) - 1
    BY <1>1
  <2>2. QED
    BY <1>1, <2>1, TouchFacts
<1>5. /\ DOMAIN output' = 0 .. p + Len(b) - 1
      /\ \A j \in 0 .. p - 1 : output'[j] = output[j]
      /\ \A j \in p .. p + Len(b) - 1 : j - p + 1 \in 1 .. Len(b) /\ output'[j] = b[j - p + 1]
  BY <1>1, <1>2, <1>p, EmitFacts
<1>6. \A j \in DOMAIN output' : j \in Nat /\ output'[j] \in Byte
  <2>1. \A j \in 0 .. p + Len(b) - 1 : j \in 0 .. p - 1 \/ j \in p .. p + Len(b) - 1
    BY <1>3
  <2>2. \A j \in 0 .. p - 1 : output'[j] \in Byte
    BY <1>1, <1>5, <1>p
  <2>3. \A j \in p .. p + Len(b) - 1 : output'[j] \in Byte
    BY <1>5
  <2>4. QED
    BY <1>5, <2>1, <2>2, <2>3
<1>7. output_pointer' \in Nat /\ input_pointer' \in 1 .. input_end + 1
  BY <1>1, <1>2, <1>3
<1>8. TypeOK'
  <2>1. /\ pc' = "decode" /\ text' = text /\ input' = input /\ input_end' = input_end
        /\ reserved' = reserved /\ skipped_bytes' = skipped_bytes
        /\ escape_characters' = escape_characters /\ escape_characters \in Nat
        /\ input_end \in 1 .. Len(input) + 1 /\ 2 * skipped_bytes <= input_end
    BY <1>1, <1>2 DEF BoundsInv, TypeOK, parsing
  <2>2. input_pointer' \in Nat
    BY <1>1, <1>7
  <2>3. QED
    BY <1>1, <1>4, <1>6, <1>7, <2>1, <2>2 DEF TypeOK
<1>9. ArriveInv'
  BY <1>2, InputKept DEF BoundsInv
<1>10. PrintInv'
  BY <1>2 DEF PrintInv
<1>11. ParseInv'
  <2>1. Marks(g, input_end)'
    BY <1>2 DEF Marks, At
  <2>2. DOMAIN output' = 0 .. output_pointer' - 1
    BY <1>2, <1>5
  <2>3. IF input_pointer' <= input_end'
        THEN output_pointer' + g[input_pointer'] < input_pointer'
        ELSE output_pointer' + skipped_bytes' <= input_end'
    BY <1>2, <1>p
  <2>4. QED
    BY <1>1, <1>2, <1>4, <1>7, <2>1, <2>2, <2>3 DEF ParseInv
<1>12. QED
  BY <1>8, <1>9, <1>10, <1>11 DEF BoundsInv

\* What is unescaped is a byte.
LEMMA UnescapeFacts ==
  /\ DOMAIN Unescape = {98, 116, 110, 102, 114, QUOTE, BACKSLASH, 47}
  /\ Unescape[98] = 8 /\ Unescape[116] = 9 /\ Unescape[110] = 10 /\ Unescape[102] = 12
  /\ Unescape[114] = 13 /\ Unescape[QUOTE] = QUOTE /\ Unescape[BACKSLASH] = BACKSLASH
  /\ Unescape[47] = 47
<1>1. /\ DOMAIN Letter = {8, 12, 10, 13, 9, 34, 92} /\ 47 \notin {Letter[c] : c \in DOMAIN Letter}
      /\ Letter[8] = 98 /\ Letter[12] = 102 /\ Letter[10] = 110 /\ Letter[13] = 114
      /\ Letter[9] = 116 /\ Letter[34] = 34 /\ Letter[92] = 92
  BY DEF Letter, QUOTE, BACKSLASH
<1>2. {Letter[c] : c \in DOMAIN Letter} = {98, 102, 110, 114, 116, 34, 92}
  BY <1>1
<1>3. ASSUME NEW l \in {98, 102, 110, 114, 116, 34, 92}
      PROVE  \E c \in DOMAIN Letter : Letter[c] = l /\ Unescape[l] = c
  <2>1. Unescape[l] = CHOOSE c \in DOMAIN Letter : Letter[c] = l
    BY <1>2 DEF Unescape
  <2>2. \E c \in DOMAIN Letter : Letter[c] = l
    BY <1>2
  <2>3. QED
    BY <2>1, <2>2
<1>4. DOMAIN Unescape = {98, 116, 110, 102, 114, 34, 92, 47} /\ Unescape[47] = 47
  BY <1>2 DEF Unescape
<1>5. /\ Unescape[98] = 8 /\ Unescape[116] = 9 /\ Unescape[110] = 10 /\ Unescape[102] = 12
      /\ Unescape[114] = 13 /\ Unescape[34] = 34 /\ Unescape[92] = 92
  BY <1>1, <1>3
<1>6. QED
  BY <1>4, <1>5 DEF QUOTE, BACKSLASH

\* Every kind of character and of escape is written in fewer bytes than it has.
LEMMA DecodeKeeps == ASSUME BoundsInv, Decode PROVE BoundsInv'
<1> DEFINE i == input_pointer
           c == At(i)
           l == At(i + 1)
           u == Literal(i)
<1>1. /\ pc = "decode" /\ input \in Seq(Byte) /\ input_end \in Nat \ {0} /\ i \in 1 .. input_end - 1
      /\ output_pointer \in Nat /\ input_pointer < input_end
      /\ UNCHANGED <<parsing, input, input_end, skipped_bytes>>
  BY DEF BoundsInv, TypeOK, ParseInv, Decode
<1>2. PICK g \in Counts(input_end) :
        /\ Marks(g, input_end) /\ skipped_bytes = g[input_end] /\ output_pointer + g[i] < i
  BY <1>1 DEF BoundsInv, ParseInv
<1>3. /\ \A k \in 0 .. input_end : g[k] \in Nat
      /\ g[input_end] = g[input_end - 1]
      /\ \A k \in 1 .. input_end - 1 : At(k) # BACKSLASH => g[k + 1] = g[k]
      /\ \A k \in 0 .. input_end - 2 : g[k + 2] <= g[k] + 1
      /\ \A k \in 0 .. input_end - 6 : g[k + 6] <= g[k] + 3
      /\ \A k \in 0 .. input_end - 12 : g[k + 12] <= g[k] + 6
  BY <1>1, <1>2, MarksGrow
<1>4. i \in Nat /\ i \in 0 .. input_end /\ g[i] \in Nat
  BY <1>1, <1>3
<1>5. CASE c # BACKSLASH /\ Emit(<<c>>, 1) /\ Touch({i})
  <2>1. c \in Byte
    BY <1>1, <1>4, AtFacts
  <2> DEFINE b == <<c>>
  <2>2. b \in Seq(Byte) /\ Len(b) = 1 /\ Emit(b, 1) /\ 1 \in Nat
    BY <1>5, <2>1
  <2>3. i + 1 <= input_end /\ i + 1 <= input_end + 1 /\ g[i + 1] = g[i]
    BY <1>1, <1>3, <1>5
  <2> HIDE DEF b
  <2>4. output_pointer + Len(b) + g[i + 1] < i + 1
    BY <1>1, <1>2, <1>4, <2>2, <2>3
  <2>5. QED
    BY <1>1, <1>2, <1>4, <1>5, <2>2, <2>3, <2>4, RoundKeeps
<1>6. CASE c = BACKSLASH /\ l \in DOMAIN Unescape /\ Emit(<<Unescape[l]>>, 2) /\ Touch({i + 1})
  <2>1. Unescape[l] \in Byte
    BY <1>6, UnescapeFacts DEF Byte, QUOTE, BACKSLASH
  <2> DEFINE b == <<Unescape[l]>>
  <2>2. b \in Seq(Byte) /\ Len(b) = 1 /\ Emit(b, 2)
    BY <1>6, <2>1
  <2>3. i + 2 <= input_end + 1 /\ i + 1 \in 0 .. input_end /\ 2 \in Nat
    BY <1>1
  <2> HIDE DEF b
  <2>4. IF i + 2 <= input_end THEN output_pointer + Len(b) + g[i + 2] < i + 2
        ELSE output_pointer + Len(b) + skipped_bytes <= input_end
    <3>1. CASE i + 2 <= input_end
      <4>1. i \in 0 .. input_end - 2 /\ i + 2 \in 0 .. input_end
        BY <1>1, <3>1
      <4>2. g[i + 2] <= g[i] + 1 /\ g[i + 2] \in Nat
        BY <1>3, <4>1
      <4>3. QED
        BY <1>1, <1>2, <1>4, <2>2, <3>1, <4>2
    <3>2. CASE ~(i + 2 <= input_end)
      <4>1. i = input_end - 1
        BY <1>1, <3>2
      <4>2. skipped_bytes = g[i]
        BY <1>2, <1>3, <4>1
      <4>3. QED
        BY <1>1, <1>2, <1>4, <2>2, <3>2, <4>1, <4>2
    <3>3. QED
      BY <3>1, <3>2
  <2>5. QED
    BY <1>1, <1>2, <1>6, <2>2, <2>3, <2>4, RoundKeeps
<1>7. CASE c = BACKSLASH /\ l = U /\ u.length > 0 /\ Emit(u.bytes, u.length) /\ Touch(u.reads)
  <2>1. /\ u.length \in {6, 12} /\ i + u.length <= input_end
        /\ \E p : CodePoint(p) /\ u.bytes = Utf8(p) /\ (u.length = 6 => p < 65536)
    BY <1>1, <1>4, <1>7, LiteralFacts, Z3
  <2>2. u.bytes \in Seq(Byte) /\ Len(u.bytes) <= 4 /\ (u.length = 6 => Len(u.bytes) <= 3)
        /\ Len(u.bytes) \in Nat
    BY <2>1, Utf8Facts, Z3
  <2>3. PICK b \in Seq(Byte) : b = u.bytes
    BY <2>2
  <2>4. PICK d \in {6, 12} : d = u.length
    BY <2>1, Z3
  <2>9. PICK r \in 0 .. input_end : u.reads = {r}
    <3>1. input_end \in Nat /\ i + 1 <= input_end
      BY <1>1
    <3>2. QED
      BY <1>4, <3>1, LiteralReads, Zenon
  <2>5. Emit(b, d) /\ Touch({r}) /\ i + d <= input_end
    BY <1>7, <2>1, <2>3, <2>4, <2>9, Z3
  <2>6. d \in Nat /\ i + d <= input_end + 1
    BY <1>1, <2>5
  <2>7. output_pointer + Len(b) + g[i + d] < i + d
    <3>1. CASE d = 6
      <4>1. i \in 0 .. input_end - 6 /\ i + 6 \in 0 .. input_end
        BY <1>1, <2>5, <3>1
      <4>2. g[i + 6] <= g[i] + 3 /\ g[i + 6] \in Nat /\ Len(b) <= 3 /\ Len(b) \in Nat
        BY <1>3, <2>2, <2>3, <2>4, <3>1, <4>1
      <4>3. QED
        BY <1>1, <1>2, <1>4, <3>1, <4>2
    <3>2. CASE d = 12
      <4>1. i \in 0 .. input_end - 12 /\ i + 12 \in 0 .. input_end
        BY <1>1, <2>5, <3>2
      <4>2. g[i + 12] <= g[i] + 6 /\ g[i + 12] \in Nat /\ Len(b) <= 4 /\ Len(b) \in Nat
        BY <1>3, <2>2, <2>3, <2>4, <3>2, <4>1
      <4>3. QED
        BY <1>1, <1>2, <1>4, <3>2, <4>2
    <3>3. QED
      BY <3>1, <3>2
  <2>8. QED
    BY <1>1, <1>2, <2>5, <2>6, <2>7, RoundKeeps
<1>8. CASE /\ Fail /\ Touch(IF l = U THEN u.reads ELSE {i + 1})
           /\ UNCHANGED <<input_pointer, output_pointer>>
  <2>1. /\ text \in Seq(Byte \ {NUL}) /\ Len(input) \in Nat /\ touched \in Nat /\ touched < Len(input)
        /\ input_end \in 1 .. Len(input) - 1
        /\ pc' = "failed" /\ output' = Nothing /\ reserved' = 0
    BY <1>1, <1>8 DEF BoundsInv, TypeOK, ParseInv, Fail
  <2>2. touched' \in Nat /\ touched' < Len(input)
    <3>1. PICK r \in 0 .. input_end : (IF l = U THEN u.reads ELSE {i + 1}) = {r}
      <4>1. i + 1 \in 0 .. input_end
        BY <1>1
      <4>2. \E r \in 0 .. input_end : u.reads = {r}
        BY <1>1, <1>4, LiteralReads
      <4>3. QED
        BY <4>1, <4>2
    <3>2. r \in 0 .. Len(input) - 1
      BY <2>1, <3>1
    <3>3. QED
      BY <1>8, <2>1, <3>1, <3>2, TouchFacts
  <2>3. TypeOK'
    BY <1>1, <1>8, <2>1, <2>2 DEF BoundsInv, TypeOK, Nothing, parsing
  <2>4. ArriveInv'
    BY <1>1, InputKept DEF BoundsInv, parsing
  <2>5. QED
    BY <1>1, <2>1, <2>2, <2>3, <2>4 DEF BoundsInv, PrintInv, ParseInv
<1>9. QED
  BY <1>5, <1>6, <1>7, <1>8 DEF Decode

\* There is room for the NUL.
LEMMA ParsedKeeps == ASSUME BoundsInv, Parsed PROVE BoundsInv'
<1> DEFINE b == <<NUL>>
<1>p. PICK p \in Nat : p = output_pointer
  BY DEF BoundsInv, TypeOK
<1>1. /\ pc = "decode" /\ pc' = "parsed" /\ input_pointer' = input_end + 1 /\ input_end \in Nat
      /\ text \in Seq(Byte \ {NUL}) /\ input \in Seq(Byte) /\ touched < Len(input)
      /\ DOMAIN output = 0 .. p - 1 /\ \A k \in DOMAIN output : output[k] \in Byte
      /\ reserved \in Nat /\ output' = Put(output, p, b)
      /\ UNCHANGED <<parsing, input, input_end, skipped_bytes, output_pointer, reserved, touched>>
  BY <1>p DEF BoundsInv, TypeOK, ParseInv, Parsed
<1>2. b \in Seq(Byte) /\ Len(b) = 1 /\ b[1] = NUL /\ NUL \in Byte
  BY DEF NUL, Byte
<1> HIDE DEF b
<1>3. p < reserved
  BY <1>1, <1>p, DecodeFits
<1>4. /\ DOMAIN output' = 0 .. p + Len(b) - 1
      /\ \A j \in 0 .. p - 1 : output'[j] = output[j]
      /\ \A j \in 1 .. Len(b) : output'[p + j - 1] = b[j]
  BY <1>1, <1>2, EmitFacts
<1>5. DOMAIN output' = 0 .. p /\ output'[p] = NUL
  <2>1. p + 1 - 1 = p /\ 1 \in 1 .. 1
    OBVIOUS
  <2>2. QED
    BY <1>2, <1>4, <2>1
<1>6. \A j \in DOMAIN output' : j \in Nat /\ output'[j] \in Byte
  <2>1. \A j \in 0 .. p : j \in Nat /\ (j \in 0 .. p - 1 \/ j = p)
    OBVIOUS
  <2>2. QED
    BY <1>1, <1>2, <1>4, <1>5, <2>1
<1>7. TypeOK'
  BY <1>1, <1>6 DEF BoundsInv, TypeOK, parsing
<1>8. ArriveInv'
  BY <1>1, InputKept DEF BoundsInv, parsing
<1>9. WritesFit'
  <2>1. \A j \in 0 .. p : j < reserved
    BY <1>1, <1>3
  <2>2. QED
    BY <1>1, <1>5, <2>1 DEF WritesFit
<1>10. QED
  BY <1>1, <1>7, <1>8, <1>9 DEF BoundsInv, PrintInv, ParseInv

-----------------------------------------------------------------------------
(* The theorems about what is counted.                                     *)

\* The counts hold at the beginning.
LEMMA InitBounds == Init => BoundsInv
<1> SUFFICES ASSUME Init PROVE BoundsInv
  OBVIOUS
<1>1. /\ input_pointer = 0 /\ escape_characters = 0 /\ output = Nothing /\ output_pointer = 0
      /\ input_end = 1 /\ skipped_bytes = 0 /\ reserved = 0 /\ touched = 0 /\ DOMAIN Nothing = {}
  BY DEF Init, Nothing
<1>2. CASE pc = "measure" /\ text \in Texts /\ input = <<>>
  <2>1. text \in Seq(Byte \ {NUL}) /\ text \in Seq(Byte) /\ Len(text) \in Nat /\ input \in Seq(Byte)
    BY <1>2, StringAssumption
  <2>2. TypeOK
    BY <1>1, <1>2, <2>1 DEF TypeOK
  <2>3. PrintInv
    BY <1>1, <1>2, <2>1, AddedFacts DEF PrintInv
  <2>4. QED
    BY <1>2, <2>2, <2>3 DEF BoundsInv, ArriveInv, ParseInv
<1>3. CASE pc = "scan" /\ text = <<>> /\ input \in Inputs
  <2>1. input \in Seq(Byte) /\ input # <<>> /\ Len(input) \in Nat \ {0} /\ text \in Seq(Byte \ {NUL})
    BY <1>3, StringAssumption
  <2>2. TypeOK
    BY <1>1, <1>3, <2>1 DEF TypeOK
  <2> DEFINE g == [k \in 0 .. 1 |-> 0]
  <2>3. g \in Counts(1) /\ g[1] = 0 /\ Marks(g, 1)
    BY DEF Counts, Marks
  <2>4. ParseInv
    BY <1>1, <1>3, <2>1, <2>3 DEF ParseInv
  <2>5. QED
    BY <1>3, <2>1, <2>2, <2>4 DEF BoundsInv, PrintInv, ArriveInv
<1>4. QED
  BY <1>2, <1>3 DEF Init

\* They are about these variables only.
LEMMA StutterKeeps == ASSUME BoundsInv, UNCHANGED vars PROVE BoundsInv'
<1>1. TypeOK'
  BY DEF BoundsInv, TypeOK, vars
<1>2. PrintInv'
  BY DEF BoundsInv, PrintInv, EndsWhereCounted, Laid, Escaped, Filled, Start, vars
<1>3. ArriveInv'
  <2>1. UNCHANGED <<pc, text, input>>
    BY DEF vars
  <2>2. CASE pc \in {"scan", "decode", "parsed", "failed"}
    BY <2>1, <2>2, InputKept DEF BoundsInv
  <2>3. CASE pc \notin {"scan", "decode", "parsed", "failed"}
    BY <2>1, <2>3 DEF ArriveInv
  <2>4. QED
    BY <2>2, <2>3
<1>4. ParseInv'
  BY DEF BoundsInv, ParseInv, Marks, At, WritesFit, vars
<1>5. QED
  BY <1>1, <1>2, <1>3, <1>4 DEF BoundsInv

\* Every step of both functions keeps the counts (cJSON.c:925-1043, 777-880).
THEOREM Invariance == Spec => []BoundsInv
<1>1. Init => BoundsInv
  BY InitBounds
<1>2. BoundsInv /\ [Next]_vars => BoundsInv'
  <2> SUFFICES ASSUME BoundsInv, [Next]_vars PROVE BoundsInv'
    OBVIOUS
  <2>1. CASE Measure
    BY <2>1, MeasureKeeps
  <2>2. CASE Reserve
    BY <2>2, ReserveKeeps
  <2>3. CASE Write
    BY <2>3, WriteKeeps
  <2>4. CASE WriteEnd
    BY <2>4, WriteEndKeeps
  <2>5. CASE Arrive
    BY <2>5, ArriveKeeps
  <2>6. CASE Scan
    BY <2>6, ScanKeeps
  <2>7. CASE NoString
    BY <2>7, NoStringKeeps
  <2>8. CASE Allocate
    BY <2>8, AllocateKeeps
  <2>9. CASE Decode
    BY <2>9, DecodeKeeps
  <2>10. CASE Parsed
    BY <2>10, ParsedKeeps
  <2>11. CASE Done \/ UNCHANGED vars
    BY <2>11, StutterKeeps DEF Done
  <2>12. QED
    BY <2>1, <2>2, <2>3, <2>4, <2>5, <2>6, <2>7, <2>8, <2>9, <2>10, <2>11 DEF Next
<1>3. QED
  BY <1>1, <1>2, PTL DEF Spec

\* The variables of the printer and of the parser keep their types, and their
\* loops stay inside what they run over (cJSON.c:937-966, 794-808).
THEOREM TypeCorrect == Spec => []TypeOK
<1>1. BoundsInv => TypeOK
  BY DEF BoundsInv
<1>2. QED
  BY <1>1, Invariance, PTL

\* For every text and every input, neither function writes past what it
\* reserved, the printed text ends where its count says, and nothing behind the
\* end of the input is read (cJSON.c:953-955, 1017-1018, 790-812, 821-834).
THEOREM AlwaysInBounds == Spec => []InBounds
<1>1. ASSUME BoundsInv PROVE InBounds
  <2>1. ReadsInBounds
    BY <1>1 DEF BoundsInv, TypeOK, PrintInv, ParseInv, ReadsInBounds
  <2>2. EndsWhereCounted
    BY <1>1 DEF BoundsInv, PrintInv, EndsWhereCounted
  <2>3. CASE pc = "write"
    <3>1. /\ text \in Seq(Byte) /\ Len(text) \in Nat /\ escape_characters = Added(text)[Len(text)]
          /\ escape_characters \in Nat /\ reserved = Len(text) + escape_characters + 3
          /\ DOMAIN output \subseteq 0 .. output_pointer /\ output_pointer = Start(input_pointer)
          /\ input_pointer \in 0 .. Len(text)
      BY <1>1, <2>3 DEF BoundsInv, TypeOK, PrintInv
    <3>2. /\ Start(Len(text)) = 1 + Len(text) + escape_characters /\ Start(input_pointer) \in Nat
          /\ Start(input_pointer) + Len(text) <= Start(Len(text)) + input_pointer
      <4>1. Len(text) \in 0 .. Len(text) /\ input_pointer \in 0 .. Len(text)
        BY <3>1
      <4>2. Start(Len(text)) = 1 + Len(text) + escape_characters
        BY <3>1, StartFacts
      <4>3. Start(input_pointer) \in Nat
        BY <3>1, StartFacts
      <4>4. Start(input_pointer) + Len(text) <= Start(Len(text)) + input_pointer
        BY <3>1, <4>1, StartFacts
      <4>5. QED
        BY <4>2, <4>3, <4>4
    <3>3. \A k \in 0 .. output_pointer : k < reserved
      BY <3>1, <3>2
    <3>4. QED
      BY <2>1, <2>2, <3>1, <3>3 DEF InBounds, WritesFit
  <2>4. CASE pc = "printed"
    <3>1. /\ Len(text) \in Nat /\ escape_characters \in Nat
          /\ reserved = Len(text) + escape_characters + 3
          /\ DOMAIN output = 0 .. Len(text) + escape_characters + 2
      BY <1>1, <2>4 DEF BoundsInv, TypeOK, PrintInv, EndsWhereCounted
    <3>2. QED
      BY <2>1, <2>2, <3>1 DEF InBounds, WritesFit
  <2>5. CASE pc \in {"measure", "scan"}
    <3>1. DOMAIN output = {}
      BY <1>1, <2>5 DEF BoundsInv, PrintInv, ParseInv, Nothing
    <3>2. QED
      BY <2>1, <2>2, <3>1 DEF InBounds, WritesFit
  <2>6. CASE pc = "decode"
    <3>1. DOMAIN output = 0 .. output_pointer - 1 /\ reserved \in Nat
      BY <1>1, <2>6 DEF BoundsInv, TypeOK, ParseInv
    <3>2. output_pointer \in Nat /\ output_pointer < reserved
      BY <1>1, <2>6, DecodeFits
    <3>3. QED
      BY <2>1, <2>2, <3>1, <3>2 DEF InBounds, WritesFit
  <2>7. CASE pc \in {"parsed", "failed"}
    BY <1>1, <2>1, <2>2, <2>7 DEF BoundsInv, ParseInv, InBounds, WritesFit
  <2>8. QED
    BY <1>1, <2>3, <2>4, <2>5, <2>6, <2>7 DEF BoundsInv, TypeOK
<1>2. QED
  BY <1>1, Invariance, PTL

-----------------------------------------------------------------------------
(* The round trip.                                                         *)

\* Where a text that was printed begins and ends in the input.
LEMMA ArrivedFacts ==
  ASSUME BoundsInv, text # <<>>, pc \in {"scan", "decode", "parsed", "failed"}
  PROVE  /\ text \in Seq(Byte) /\ Len(text) \in Nat \ {0} /\ Start(Len(text)) \in Nat
         /\ Len(input) = Start(Len(text)) + 2
         /\ At(0) = QUOTE /\ At(Start(Len(text))) = QUOTE /\ Laid(Arrived, Len(text))
         /\ \A k \in 0 .. Start(Len(text)) : At(k) = Arrived[k]
<1>1. /\ text \in Seq(Byte) /\ input \in Seq(Byte) /\ Len(input) = Start(Len(text)) + 2
      /\ Arrived[Start(Len(text))] = QUOTE /\ Laid(Arrived, Len(text))
  BY DEF BoundsInv, TypeOK, ArriveInv
<1>2. Len(text) \in Nat /\ Len(text) # 0
  BY <1>1
<1>3. Start(Len(text)) \in Nat
  BY <1>1, <1>2, StartFacts
<1>4. ASSUME NEW k \in 0 .. Start(Len(text)) PROVE At(k) = Arrived[k]
  <2>1. k \in 0 .. Len(input) - 1 /\ k < Len(input)
    BY <1>1, <1>3
  <2>2. QED
    BY <2>1 DEF At, Arrived
<1>5. At(0) = QUOTE /\ At(Start(Len(text))) = QUOTE
  <2>1. 0 \in 0 .. Start(Len(text)) /\ Start(Len(text)) \in 0 .. Start(Len(text))
    BY <1>3
  <2>2. Arrived[0] = QUOTE
    BY <1>1 DEF Laid
  <2>3. QED
    BY <1>1, <1>4, <2>1, <2>2
<1>6. QED
  BY <1>1, <1>2, <1>3, <1>4, <1>5

\* How a character of it reads.
LEMMA CharacterFacts ==
  ASSUME BoundsInv, text # <<>>, pc \in {"scan", "decode"}, NEW m \in 0 .. Len(text) - 1,
         NEW c, c = text[m + 1], NEW p, p = Start(m)
  PROVE  /\ c \in Byte \ {NUL} /\ p \in Nat \ {0} /\ Start(m + 1) \in Nat
         /\ Start(m + 1) <= Start(Len(text))
         /\ Short(c) \/ Control(c) \/ Plain(c)
         /\ Short(c) => Start(m + 1) = p + 2 /\ At(p) = BACKSLASH /\ At(p + 1) = Letter[c]
         /\ Control(c) =>
              /\ Start(m + 1) = p + 6 /\ At(p) = BACKSLASH /\ At(p + 1) = U
              /\ At(p + 2) = 48 /\ At(p + 3) = 48
              /\ At(p + 4) = HexDigit(c \div 16) /\ At(p + 5) = HexDigit(c % 16)
         /\ Plain(c) => Start(m + 1) = p + 1 /\ At(p) = c
<1>1. /\ text \in Seq(Byte) /\ Len(text) \in Nat \ {0} /\ Start(Len(text)) \in Nat
      /\ Laid(Arrived, Len(text))
      /\ \A k \in 0 .. Start(Len(text)) : At(k) = Arrived[k]
  BY ArrivedFacts
<1>2. /\ m + 1 \in 1 .. Len(text) /\ m \in 0 .. Len(text) /\ m + 1 \in 0 .. Len(text)
      /\ Len(text) \in 0 .. Len(text) /\ m + 1 - 1 = m
  BY <1>1
<1>3. c \in Byte \ {NUL}
  BY <1>2 DEF BoundsInv, TypeOK
<1>4. p \in Nat /\ p >= 1 + m /\ Start(m + 1) = p + 1 + Escapes(c) /\ Start(m + 1) \in Nat
  <2>1. Start(m) \in Nat /\ Start(m) >= 1 + m
    BY <1>1, <1>2, StartFacts
  <2>2. Start(m + 1) = Start(m) + 1 + Escapes(text[m + 1])
    BY <1>1, <1>2, StartFacts
  <2>3. Start(m + 1) \in Nat
    BY <1>1, <1>2, StartFacts
  <2>4. QED
    BY <2>1, <2>2, <2>3
<1>5. Start(m + 1) <= Start(Len(text))
  <2>1. Start(m + 1) + Len(text) <= Start(Len(text)) + (m + 1)
    BY <1>1, <1>2, StartFacts
  <2>2. QED
    BY <1>1, <1>2, <1>4, <2>1
<1>6. Escaped(Arrived, p, c)
  BY <1>1, <1>2 DEF Laid
<1>7. /\ Short(c) \/ Control(c) \/ Plain(c)
      /\ Short(c) => Escapes(c) = 1
      /\ Control(c) => Escapes(c) = 5
      /\ Plain(c) => Escapes(c) = 0
  BY <1>3, EscapesFacts
<1>8. CASE Short(c)
  <2>1. Escapes(c) = 1 /\ ~Control(c) /\ ~Plain(c)
    BY <1>3, <1>8, EscapesFacts
  <2>2. p \in 0 .. Start(Len(text)) /\ p + 1 \in 0 .. Start(Len(text)) /\ Start(m + 1) = p + 2
    BY <1>1, <1>4, <1>5, <2>1
  <2>3. At(p) = BACKSLASH /\ At(p + 1) = Letter[c]
    BY <1>1, <1>6, <1>8, <2>2 DEF Escaped
  <2>4. QED
    BY <1>3, <1>4, <1>5, <1>8, <2>1, <2>2, <2>3
<1>9. CASE Control(c)
  <2>1. Escapes(c) = 5 /\ ~Short(c) /\ ~Plain(c)
    BY <1>3, <1>9, EscapesFacts
  <2>2. /\ p \in 0 .. Start(Len(text)) /\ p + 1 \in 0 .. Start(Len(text))
        /\ p + 2 \in 0 .. Start(Len(text)) /\ p + 3 \in 0 .. Start(Len(text))
        /\ p + 4 \in 0 .. Start(Len(text)) /\ p + 5 \in 0 .. Start(Len(text))
        /\ Start(m + 1) = p + 6
    <3>1. PICK e \in Nat : e = Start(Len(text))
      BY <1>1
    <3>2. Start(m + 1) = p + 6
      BY <1>4, <2>1
    <3>3. p \in Nat /\ p + 6 <= e
      BY <1>4, <1>5, <3>1, <3>2
    <3>4. \A j \in 0 .. 5 : p + j \in 0 .. e
      BY <3>3
    <3>5. p + 0 = p
      BY <3>3
    <3>6. QED
      BY <3>1, <3>2, <3>4, <3>5
  <2>3. /\ At(p) = BACKSLASH /\ At(p + 1) = U /\ At(p + 2) = 48 /\ At(p + 3) = 48
        /\ At(p + 4) = HexDigit(c \div 16) /\ At(p + 5) = HexDigit(c % 16)
    BY <1>1, <1>6, <1>9, <2>2 DEF Escaped
  <2>4. QED
    BY <1>3, <1>4, <1>5, <1>9, <2>1, <2>2, <2>3
<1>10. CASE Plain(c)
  <2>1. Escapes(c) = 0 /\ ~Short(c) /\ ~Control(c)
    BY <1>3, <1>10, EscapesFacts
  <2>2. p \in 0 .. Start(Len(text)) /\ Start(m + 1) = p + 1
    BY <1>1, <1>4, <1>5, <2>1
  <2>3. At(p) = c
    BY <1>1, <1>6, <1>10, <2>2 DEF Escaped
  <2>4. QED
    BY <1>3, <1>4, <1>5, <1>10, <2>1, <2>2, <2>3
<1>11. QED
  BY <1>7, <1>8, <1>9, <1>10

\* It stops at the closing quote, and nowhere before.
LEMMA ScanAtFacts ==
  ASSUME BoundsInv, text # <<>>, pc = "scan", NEW n \in 0 .. Len(text), ScanAt(input_end, n)
  PROVE  /\ input_end <= Start(Len(text)) /\ input_end + 1 < Len(input)
         /\ At(input_end) = QUOTE => input_end = Start(Len(text))
         /\ At(input_end) = BACKSLASH => \E k \in 0 .. Len(text) : ScanAt(input_end + 2, k)
         /\ At(input_end) \notin {QUOTE, BACKSLASH} => \E k \in 0 .. Len(text) : ScanAt(input_end + 1, k)
<1>1. /\ Len(text) \in Nat \ {0} /\ Start(Len(text)) \in Nat
      /\ Len(input) = Start(Len(text)) + 2 /\ At(Start(Len(text))) = QUOTE
  BY ArrivedFacts
<1>2. QUOTE # BACKSLASH /\ {QUOTE, BACKSLASH} \subseteq DOMAIN Letter
  BY DEF QUOTE, BACKSLASH, Letter
<1>3. CASE n = Len(text)
  <2>1. input_end = Start(Len(text))
    BY <1>1, <1>3 DEF ScanAt
  <2>2. QED
    BY <1>1, <1>2, <2>1
<1>4. CASE n # Len(text)
  <2>1. n \in 0 .. Len(text) - 1 /\ n + 1 \in 0 .. Len(text)
    BY <1>1, <1>4
  <2>2. PICK p : p = Start(n)
    OBVIOUS
  <2>3. PICK c : c = text[n + 1]
    OBVIOUS
  <2>4. /\ c \in Byte \ {NUL} /\ p \in Nat \ {0} /\ Start(n + 1) \in Nat
        /\ Start(n + 1) <= Start(Len(text))
        /\ Short(c) \/ Control(c) \/ Plain(c)
        /\ Short(c) => Start(n + 1) = p + 2 /\ At(p) = BACKSLASH /\ At(p + 1) = Letter[c]
        /\ Control(c) =>
             /\ Start(n + 1) = p + 6 /\ At(p) = BACKSLASH /\ At(p + 1) = U
             /\ At(p + 2) = 48 /\ At(p + 3) = 48
             /\ At(p + 4) = HexDigit(c \div 16) /\ At(p + 5) = HexDigit(c % 16)
        /\ Plain(c) => Start(n + 1) = p + 1 /\ At(p) = c
    BY <2>1, <2>2, <2>3, CharacterFacts
  <2>5. ScanAt(Start(n + 1), n + 1)
    BY DEF ScanAt
  <2>6. CASE input_end = p /\ Short(c)
    BY <1>1, <1>2, <2>1, <2>4, <2>5, <2>6
  <2>7. CASE input_end = p /\ Plain(c)
    <3>1. c \notin {QUOTE, BACKSLASH}
      BY <1>2, <2>7 DEF Plain
    <3>2. QED
      BY <1>1, <2>1, <2>4, <2>5, <2>7, <3>1
  <2>8. CASE input_end = p /\ Control(c)
    <3>1. ScanAt(p + 2, n)
      <4>1. n < Len(text) /\ p + 2 \in p + 2 .. p + 5
        BY <1>1, <2>1, <2>4
      <4>2. QED
        BY <2>2, <2>3, <2>8, <4>1 DEF ScanAt
    <3>2. QED
      BY <1>1, <1>2, <2>4, <2>8, <3>1
  <2>9. CASE input_end # p
    <3>1. Control(c) /\ input_end \in p + 2 .. p + 5
      BY <2>2, <2>3, <2>9 DEF ScanAt
    <3>2. At(input_end) \notin {QUOTE, BACKSLASH}
      <4>1. /\ HexDigit(c \div 16) \in 48 .. 49
            /\ HexDigit(c % 16) \in 48 .. 57 \union 97 .. 102
        BY <2>4, <3>1, HexFacts
      <4>2. input_end \in {p + 2, p + 3, p + 4, p + 5}
        BY <2>4, <3>1
      <4>3. \A x \in {48, HexDigit(c \div 16), HexDigit(c % 16)} : x \notin {QUOTE, BACKSLASH}
        BY <4>1 DEF QUOTE, BACKSLASH
      <4>4. At(input_end) \in {48, HexDigit(c \div 16), HexDigit(c % 16)}
        BY <2>4, <3>1, <4>2
      <4>5. QED
        BY <4>3, <4>4
    <3>3. \E k \in 0 .. Len(text) : ScanAt(input_end + 1, k)
      <4>1. CASE input_end = p + 5
        BY <2>1, <2>4, <2>5, <3>1, <4>1
      <4>2. CASE input_end # p + 5
        <5>1. input_end + 1 \in p + 2 .. p + 5 /\ n < Len(text)
          BY <1>1, <2>1, <2>4, <3>1, <4>2
        <5>2. ScanAt(input_end + 1, n)
          BY <2>2, <2>3, <3>1, <5>1 DEF ScanAt
        <5>3. QED
          BY <5>2
      <4>3. QED
        BY <4>1, <4>2
    <3>4. input_end <= Start(Len(text)) /\ input_end + 1 < Len(input)
      BY <1>1, <2>4, <3>1
    <3>5. QED
      BY <3>2, <3>3, <3>4
  <2>10. QED
    BY <2>4, <2>6, <2>7, <2>8, <2>9
<1>5. QED
  BY <1>3, <1>4

\* A digit is read as what was printed.
LEMMA DigitFacts ==
  ASSUME NEW d \in 0 .. 15
  PROVE  Nibble(HexDigit(d)) = d /\ Nibble(48) = 0
BY DEF Nibble, HexDigit

\* ASCII is no half of a pair, and it is its own encoding.
LEMMA AsciiFacts ==
  ASSUME NEW c \in Nat, c < 128
  PROVE  c \notin High /\ c \notin Low /\ Utf8(c) = <<c>>
<1>1. c \notin High /\ c \notin Low
  BY Z3T(20) DEF High, Low
<1>2. QED
  BY <1>1, Z3 DEF Utf8

\* The escape of a control character is read as that character.
LEMMA ControlRead ==
  ASSUME input \in Seq(Byte), input_end \in Nat, NEW p \in Nat, NEW c \in Byte, Control(c),
         p + 6 <= input_end, At(p + 2) = 48, At(p + 3) = 48,
         At(p + 4) = HexDigit(c \div 16), At(p + 5) = HexDigit(c % 16)
  PROVE  Literal(p).length = 6 /\ Literal(p).bytes = <<c>>
<1>1. c \div 16 \in 0 .. 1 /\ c % 16 \in 0 .. 15 /\ c = (c \div 16) * 16 + (c % 16)
  BY HexFacts
<1>2. /\ Nibble(At(p + 2)) = 0 /\ Nibble(At(p + 3)) = 0
      /\ Nibble(At(p + 4)) = c \div 16 /\ Nibble(At(p + 5)) = c % 16
  <2>1. c \div 16 \in 0 .. 15 /\ 0 \in 0 .. 15
    BY <1>1
  <2>2. QED
    BY <1>1, <2>1, DigitFacts
<1>3. /\ p + 2 + 0 = p + 2 /\ p + 2 + 1 = p + 3 /\ p + 2 + 2 = p + 4 /\ p + 2 + 3 = p + 5
  OBVIOUS
<1> DEFINE n == [j \in 0 .. 3 |-> Nibble(At(p + 2 + j))]
<1>4. n[0] = 0 /\ n[1] = 0 /\ n[2] = c \div 16 /\ n[3] = c % 16
  BY <1>2, <1>3
<1>5. Hex4(p + 2) = IF \E j \in 0 .. 3 : n[j] = 16 THEN 0
                    ELSE n[0] * 4096 + n[1] * 256 + n[2] * 16 + n[3]
  BY Z3 DEF Hex4
<1> HIDE DEF n
<1>6. ~\E j \in 0 .. 3 : n[j] = 16
  <2>1. \A j \in 0 .. 3 : j \in {0, 1, 2, 3}
    OBVIOUS
  <2>2. \A j \in {0, 1, 2, 3} : n[j] # 16
    BY <1>1, <1>4
  <2>3. QED
    BY <2>1, <2>2
<1>7. Hex4(p + 2) = c
  <2>1. Hex4(p + 2) = 0 * 4096 + 0 * 256 + (c \div 16) * 16 + (c % 16)
    BY <1>4, <1>5, <1>6, Z3
  <2>2. PICK a \in Nat : a = c \div 16
    BY <1>1, Z3
  <2>3. PICK b \in Nat : b = c % 16
    BY <1>1, Z3
  <2>4. QED
    BY <1>1, <2>1, <2>2, <2>3, Z3
<1>8. c \in Nat /\ c < 128
  BY DEF Control, Byte
<1>9. c \notin High /\ c \notin Low /\ Utf8(c) = <<c>>
  BY <1>8, AsciiFacts, Zenon
<1> DEFINE first == Hex4(p + 2)
           second == Hex4(p + 8)
           pair == IF p + 12 > input_end THEN NoLiteral(p + 5)
                   ELSE IF At(p + 6) # BACKSLASH THEN NoLiteral(p + 6)
                   ELSE IF At(p + 7) # U THEN NoLiteral(p + 7)
                   ELSE IF second \notin Low THEN NoLiteral(Hex4End(p + 8))
                   ELSE [length |-> 12, reads |-> {p + 11},
                         bytes |-> Utf8(65536 + (first % 1024) * 1024 + (second % 1024))]
<1>10. Literal(p) = IF p + 6 > input_end THEN NoLiteral(p + 1)
                    ELSE IF first \in Low THEN NoLiteral(p + 5)
                    ELSE IF first \notin High
                    THEN [length |-> 6, bytes |-> Utf8(first), reads |-> {Hex4End(p + 2)}] ELSE pair
  BY Z3 DEF Literal
<1>f. first = c
  BY <1>7, Z3
<1> HIDE DEF first, second, pair
<1>11. Literal(p) = [length |-> 6, bytes |-> Utf8(c), reads |-> {Hex4End(p + 2)}]
  <2>1. ~(p + 6 > input_end)
    OBVIOUS
  <2>2. Literal(p) = IF p + 6 > input_end THEN NoLiteral(p + 1)
                     ELSE IF c \in Low THEN NoLiteral(p + 5)
                     ELSE IF c \notin High
                     THEN [length |-> 6, bytes |-> Utf8(c), reads |-> {Hex4End(p + 2)}] ELSE pair
    BY <1>10, <1>f
  <2>3. QED
    BY <1>9, <2>1, <2>2
<1>12. QED
  BY <1>9, <1>11, Z3

\* The first loop goes from a character to the next, or through a \u escape.
LEMMA StepScan == ASSUME BoundsInv, StepInv, Scan PROVE StepInv'
<1> SUFFICES ASSUME text # <<>> PROVE StepInv'
  BY DEF StepInv, Scan, parsing
<1>1. pc = "scan" /\ At(input_end) # QUOTE /\ UNCHANGED <<text, input>>
  BY DEF Scan, Unescaped, parsing
<1>2. PICK n \in 0 .. Len(text) : ScanAt(input_end, n)
  BY <1>1 DEF StepInv
<1>3. /\ input_end + 1 < Len(input)
      /\ At(input_end) = BACKSLASH => \E k \in 0 .. Len(text) : ScanAt(input_end + 2, k)
      /\ At(input_end) \notin {QUOTE, BACKSLASH} => \E k \in 0 .. Len(text) : ScanAt(input_end + 1, k)
  BY <1>1, <1>2, ScanAtFacts
<1>4. input_end \in Nat /\ Len(input) \in Nat
  BY <1>1 DEF BoundsInv, TypeOK, ParseInv
<1>5. pc' = "scan" /\ input_end' = IF At(input_end) = BACKSLASH THEN input_end + 2 ELSE input_end + 1
  BY <1>1, <1>3, <1>4 DEF Scan, Fail
<1>6. \E k \in 0 .. Len(text) : ScanAt(input_end', k)
  BY <1>1, <1>3, <1>5
<1>7. (\E k \in 0 .. Len(text) : ScanAt(input_end, k))'
  BY <1>1, <1>6 DEF ScanAt, Start
<1>8. QED
  BY <1>1, <1>5, <1>7 DEF StepInv, ComesBack

\* A text that was printed is a string.
LEMMA StepNoString == ASSUME BoundsInv, StepInv, NoString PROVE StepInv'
<1> SUFFICES ASSUME text # <<>> PROVE FALSE
  BY DEF StepInv, NoString, parsing, ComesBack
<1>1. pc = "scan" /\ (At(0) # QUOTE \/ input_end >= Len(input))
  BY DEF NoString
<1>2. PICK n \in 0 .. Len(text) : ScanAt(input_end, n)
  BY <1>1 DEF StepInv
<1>3. input_end + 1 < Len(input)
  BY <1>1, <1>2, ScanAtFacts
<1>4. At(0) = QUOTE
  BY <1>1, ArrivedFacts
<1>5. input_end \in Nat /\ Len(input) \in Nat
  BY <1>1 DEF BoundsInv, TypeOK, ParseInv
<1>6. QED
  BY <1>1, <1>3, <1>4, <1>5

\* The quote found is the closing one.
LEMMA StepAllocate == ASSUME BoundsInv, StepInv, Allocate PROVE StepInv'
<1> SUFFICES ASSUME text # <<>> PROVE StepInv'
  BY DEF StepInv, Allocate, parsing
<1>1. /\ pc = "scan" /\ pc' = "decode" /\ At(input_end) = QUOTE /\ input_pointer' = 1
      /\ UNCHANGED <<text, input, input_end, output, output_pointer>>
  BY DEF Allocate, Unescaped, parsing
<1>2. PICK n \in 0 .. Len(text) : ScanAt(input_end, n)
  BY <1>1 DEF StepInv
<1>3. input_end = Start(Len(text))
  BY <1>1, <1>2, ScanAtFacts
<1>4. output = Nothing /\ output_pointer = 0
  BY <1>1 DEF BoundsInv, ParseInv
<1>5. text \in Seq(Byte) /\ Len(text) \in Nat
  BY DEF BoundsInv, TypeOK
<1>6. Start(0) = 1
  BY <1>5, StartFacts
<1>7. Nothing = [k \in 0 .. 0 - 1 |-> text[k + 1]]
  BY DEF Nothing
<1>8. /\ (input_end = Start(Len(text)))' /\ (input_pointer = Start(output_pointer))'
      /\ (output_pointer <= Len(text))'
  BY <1>1, <1>3, <1>4, <1>5, <1>6 DEF Start
<1>9. (output = [k \in 0 .. output_pointer - 1 |-> text[k + 1]])'
  BY <1>1, <1>4, <1>7
<1>10. QED
  BY <1>1, <1>8, <1>9 DEF StepInv, ComesBack

\* What the second loop writes for a character, and how far it goes.
LEMMA CharacterRead ==
  ASSUME BoundsInv, StepInv, Decode, text # <<>>
  PROVE  LET m == output_pointer
         IN /\ m \in 0 .. Len(text) - 1 /\ text[m + 1] \in Byte
            /\ pc' = "decode" /\ input_pointer' = Start(m + 1)
            /\ output_pointer' = m + 1 /\ output' = Put(output, m, <<text[m + 1]>>)
<1>1. /\ pc = "decode" /\ input_pointer < input_end /\ input \in Seq(Byte) /\ input_end \in Nat
      /\ text \in Seq(Byte) /\ Len(text) \in Nat /\ output_pointer \in Nat
  BY DEF Decode, BoundsInv, TypeOK, ParseInv
<1>2. /\ input_end = Start(Len(text)) /\ output_pointer <= Len(text)
      /\ input_pointer = Start(output_pointer)
  BY <1>1 DEF StepInv
<1>m. PICK m \in Nat : m = output_pointer
  BY <1>1
<1>3. m \in 0 .. Len(text) - 1
  <2>1. m # Len(text)
    BY <1>1, <1>2, <1>m
  <2>2. QED
    BY <1>1, <1>2, <1>m, <2>1
<1>p. PICK p : p = Start(m)
  OBVIOUS
<1>c. PICK c : c = text[m + 1]
  OBVIOUS
<1>4. /\ c \in Byte \ {NUL} /\ p \in Nat \ {0} /\ Start(m + 1) \in Nat
      /\ Start(m + 1) <= Start(Len(text))
      /\ Short(c) \/ Control(c) \/ Plain(c)
      /\ Short(c) => Start(m + 1) = p + 2 /\ At(p) = BACKSLASH /\ At(p + 1) = Letter[c]
      /\ Control(c) =>
           /\ Start(m + 1) = p + 6 /\ At(p) = BACKSLASH /\ At(p + 1) = U
           /\ At(p + 2) = 48 /\ At(p + 3) = 48
           /\ At(p + 4) = HexDigit(c \div 16) /\ At(p + 5) = HexDigit(c % 16)
      /\ Plain(c) => Start(m + 1) = p + 1 /\ At(p) = c
  BY <1>1, <1>3, <1>p, <1>c, CharacterFacts
<1>5. input_pointer = p
  BY <1>2, <1>m, <1>p
<1>6. U \notin DOMAIN Unescape
  BY UnescapeFacts DEF U, QUOTE, BACKSLASH
<1>d. \/ At(p) # BACKSLASH /\ Emit(<<At(p)>>, 1)
      \/ At(p) = BACKSLASH /\ At(p + 1) \in DOMAIN Unescape /\ Emit(<<Unescape[At(p + 1)]>>, 2)
      \/ At(p) = BACKSLASH /\ At(p + 1) = U /\ Emit(Literal(p).bytes, Literal(p).length)
      \/ /\ At(p) = BACKSLASH /\ At(p + 1) \notin DOMAIN Unescape
         /\ At(p + 1) = U => Literal(p).length = 0
  BY <1>5 DEF Decode
<1>7. CASE Plain(c)
  <2>1. c # BACKSLASH /\ At(p) = c
    BY <1>4, <1>7 DEF Plain, Letter, BACKSLASH
  <2>2. Emit(<<c>>, 1)
    BY <1>d, <2>1
  <2>3. Len(<<c>>) = 1
    OBVIOUS
  <2>4. QED
    BY <1>1, <1>3, <1>4, <1>5, <1>7, <1>m, <1>c, <2>2, <2>3 DEF Emit
<1>8. CASE Short(c)
  <2>1. Letter[c] \in DOMAIN Unescape /\ Letter[c] # U /\ Unescape[Letter[c]] = c
    BY <1>8, UnescapeFacts DEF Short, Letter, QUOTE, BACKSLASH, U
  <2>2. Emit(<<c>>, 2)
    BY <1>d, <1>4, <1>8, <2>1
  <2>3. Len(<<c>>) = 1
    OBVIOUS
  <2>4. QED
    BY <1>1, <1>3, <1>4, <1>5, <1>8, <1>m, <1>c, <2>2, <2>3 DEF Emit
<1>9. CASE Control(c)
  <2>1. p + 6 <= input_end /\ p \in Nat /\ c \in Byte
    BY <1>1, <1>2, <1>4, <1>9
  <2>2. Literal(p).length = 6 /\ Literal(p).bytes = <<c>>
    BY <1>1, <1>4, <1>9, <2>1, ControlRead
  <2>3. At(p) = BACKSLASH /\ At(p + 1) = U
    BY <1>4, <1>9
  <2>4. Emit(<<c>>, 6)
    BY <1>d, <1>6, <2>2, <2>3
  <2>5. Len(<<c>>) = 1
    OBVIOUS
  <2>6. QED
    BY <1>1, <1>3, <1>4, <1>5, <1>9, <1>m, <1>c, <2>4, <2>5 DEF Emit
<1>10. QED
  BY <1>4, <1>7, <1>8, <1>9

\* The second loop reads one character of the text in each round.
LEMMA StepDecode == ASSUME BoundsInv, StepInv, Decode PROVE StepInv'
<1> SUFFICES ASSUME text # <<>> PROVE StepInv'
  BY DEF StepInv, Decode, parsing
<1>m. PICK m \in Nat : m = output_pointer
  BY DEF BoundsInv, TypeOK
<1>c. PICK c : c = text[m + 1]
  OBVIOUS
<1>1. /\ m \in 0 .. Len(text) - 1 /\ c \in Byte
      /\ pc' = "decode" /\ input_pointer' = Start(m + 1)
      /\ output_pointer' = m + 1 /\ output' = Put(output, m, <<c>>)
  BY <1>m, <1>c, CharacterRead
<1>2. /\ pc = "decode" /\ UNCHANGED <<text, input, input_end>> /\ Len(text) \in Nat
  BY DEF Decode, parsing, BoundsInv, TypeOK
<1>3. /\ input_end = Start(Len(text)) /\ output = [k \in 0 .. m - 1 |-> text[k + 1]]
  BY <1>2, <1>m DEF StepInv
<1>4. output' = [k \in 0 .. m |-> text[k + 1]]
  <2>1. <<c>> \in Seq(Byte) /\ Len(<<c>>) = 1 /\ <<c>>[1] = c
    BY <1>1
  <2> DEFINE b == <<c>>
  <2> HIDE DEF b
  <2>2. b \in Seq(Byte) /\ Len(b) = 1 /\ b[1] = c /\ output' = Put(output, m, b)
    BY <1>1, <2>1 DEF b
  <2>3. DOMAIN output = 0 .. m - 1
    BY <1>3
  <2>4. /\ DOMAIN output' = 0 .. m + Len(b) - 1
        /\ \A j \in 0 .. m - 1 : output'[j] = output[j]
        /\ \A j \in 1 .. Len(b) : output'[m + j - 1] = b[j]
    BY <2>2, <2>3, EmitFacts
  <2>5. DOMAIN output' = 0 .. m /\ output'[m] = c
    <3>1. m + 1 - 1 = m /\ 1 \in 1 .. 1
      OBVIOUS
    <3>2. QED
      BY <2>2, <2>4, <3>1
  <2>6. \A k \in 0 .. m : output'[k] = text[k + 1]
    <3>1. \A k \in 0 .. m : k \in 0 .. m - 1 \/ k = m
      OBVIOUS
    <3>2. QED
      BY <1>3, <1>c, <2>4, <2>5, <3>1
  <2>7. output' = [k \in DOMAIN output' |-> output'[k]]
    BY <2>2 DEF Put
  <2>8. QED
    BY <2>5, <2>6, <2>7
<1>5. (output = [k \in 0 .. output_pointer - 1 |-> text[k + 1]])'
  <2>1. output_pointer' - 1 = m /\ text' = text
    BY <1>1, <1>2
  <2>2. output' = [k \in 0 .. output_pointer' - 1 |-> text'[k + 1]]
    BY <1>4, <2>1
  <2>3. QED
    BY <2>2
<1>6. /\ (input_end = Start(Len(text)))' /\ (input_pointer = Start(output_pointer))'
      /\ (output_pointer <= Len(text))'
  BY <1>1, <1>2, <1>3 DEF Start
<1>7. QED
  BY <1>1, <1>2, <1>5, <1>6 DEF StepInv, ComesBack

\* All of them have been read at the closing quote.
LEMMA StepParsed == ASSUME BoundsInv, StepInv, Parsed PROVE StepInv'
<1> SUFFICES ASSUME text # <<>> PROVE StepInv'
  BY DEF StepInv, Parsed, parsing
<1> DEFINE n == Len(text)
           t == Append(text, NUL)
           b == <<NUL>>
<1>m. PICK m \in Nat : m = output_pointer
  BY DEF BoundsInv, TypeOK
<1>1. /\ pc = "decode" /\ input_pointer >= input_end /\ pc' = "parsed" /\ input_pointer' = input_end + 1
      /\ output' = Put(output, m, b) /\ UNCHANGED <<text, input>>
      /\ text \in Seq(Byte) /\ n \in Nat
  BY <1>m DEF Parsed, parsing, BoundsInv, TypeOK
<1>2. /\ input_end = Start(n) /\ m <= n /\ input_pointer = Start(m)
      /\ output = [k \in 0 .. m - 1 |-> text[k + 1]]
  BY <1>1, <1>m DEF StepInv
<1>3. m = n
  <2>1. n \in 0 .. n /\ m \in 0 .. n
    BY <1>1, <1>2
  <2>2. Start(m) + n <= Start(n) + m
    BY <1>1, <2>1, StartFacts
  <2>3. Start(m) \in Nat /\ Start(n) \in Nat
    BY <1>1, <2>1, StartFacts
  <2>4. QED
    BY <1>1, <1>2, <2>2, <2>3
<1>4. b \in Seq(Byte) /\ Len(b) = 1 /\ b[1] = NUL
  BY DEF NUL, Byte
<1> HIDE DEF b
<1>5. /\ DOMAIN output' = 0 .. m + Len(b) - 1
      /\ \A j \in 0 .. m - 1 : output'[j] = output[j]
      /\ \A j \in 1 .. Len(b) : output'[m + j - 1] = b[j]
  <2>1. DOMAIN output = 0 .. m - 1
    BY <1>2
  <2>2. QED
    BY <1>1, <1>4, <2>1, EmitFacts
<1>6. DOMAIN output' = 0 .. n /\ output'[n] = NUL
  <2>1. m + 1 - 1 = m /\ 1 \in 1 .. 1
    OBVIOUS
  <2>2. QED
    BY <1>3, <1>4, <1>5, <2>1
<1>7. t \in Seq(Byte) /\ Len(t) = n + 1 /\ \A k \in 1 .. n : t[k] = text[k] /\ t[n + 1] = NUL
  <2>1. NUL \in Byte
    BY DEF NUL, Byte
  <2>2. QED
    BY <1>1, <2>1
<1>t. t[n + 1] = NUL
  BY <1>1
<1> HIDE DEF t
<1>8. /\ DOMAIN Put(Nothing, 0, t) = 0 .. n
      /\ \A k \in 0 .. n : Put(Nothing, 0, t)[k] = t[k + 1]
  <2>1. /\ DOMAIN Put(Nothing, 0, t) = 0 .. Len(t) - 1
        /\ \A k \in 0 .. Len(t) - 1 : Put(Nothing, 0, t)[k] = t[k + 1]
    BY <1>7, PutFirst
  <2>2. Len(t) - 1 = n
    BY <1>1, <1>7
  <2>3. QED
    BY <2>1, <2>2
<1>9. \A k \in 0 .. n : output'[k] = t[k + 1]
  <2>1. \A k \in 0 .. n : k = n \/ (k \in 0 .. m - 1 /\ k + 1 \in 1 .. n)
    BY <1>1, <1>3
  <2>2. QED
    BY <1>2, <1>5, <1>6, <1>7, <1>t, <2>1
<1>10. output' = Put(Nothing, 0, t)
  <2>1. output' = [k \in DOMAIN output' |-> output'[k]]
    BY <1>1 DEF Put
  <2>2. Put(Nothing, 0, t) = [k \in DOMAIN Put(Nothing, 0, t) |-> Put(Nothing, 0, t)[k]]
    BY DEF Put
  <2>3. QED
    BY <1>6, <1>8, <1>9, <2>1, <2>2
<1>11. input_pointer' = Len(input) - 1
  <2>1. Len(input) = Start(n) + 2 /\ Start(n) \in Nat
    BY <1>1, ArrivedFacts
  <2>2. QED
    BY <1>1, <1>2, <2>1
<1>12. ComesBack'
  <2>1. output' = Put(Nothing, 0, Append(text', NUL)) /\ input_pointer' = Len(input') - 1
    BY <1>1, <1>10, <1>11 DEF t
  <2>2. (output = Put(Nothing, 0, Append(text, NUL)) /\ input_pointer = Len(input) - 1)'
    BY <2>1 DEF Put, Nothing
  <2>3. QED
    BY <1>1, <2>2 DEF ComesBack
<1>13. QED
  BY <1>1, <1>12 DEF StepInv

\* Printing does not touch the parser; the text is parsed from its first quote.
LEMMA StepPrint ==
  ASSUME BoundsInv, StepInv, Measure \/ Reserve \/ Write \/ WriteEnd \/ Arrive
  PROVE  StepInv'
<1>1. CASE Arrive
  <2>1. /\ pc' = "scan" /\ text' = text /\ input_end' = 1
    BY <1>1 DEF Arrive, parsing, BoundsInv, PrintInv
  <2>2. text \in Seq(Byte) /\ Len(text) \in Nat
    BY DEF BoundsInv, TypeOK
  <2>3. Start(0) = 1 /\ 0 \in 0 .. Len(text)
    BY <2>2, StartFacts
  <2>4. ScanAt(input_end', 0)
    BY <2>1, <2>3 DEF ScanAt
  <2>5. (\E k \in 0 .. Len(text) : ScanAt(input_end, k))'
    BY <2>1, <2>3, <2>4 DEF ScanAt, Start
  <2>6. QED
    BY <2>1, <2>5 DEF StepInv, ComesBack
<1>2. CASE Measure \/ Reserve \/ Write \/ WriteEnd
  <2>1. pc' \in {"measure", "write", "printed"}
    BY <1>2 DEF Measure, Reserve, Write, WriteEnd
  <2>2. QED
    BY <2>1 DEF StepInv, ComesBack
<1>3. QED
  BY <1>1, <1>2

\* StepInv is about these variables only.
LEMMA StepStutter == ASSUME StepInv, UNCHANGED vars PROVE StepInv'
BY DEF StepInv, ScanAt, ComesBack, Start, vars

\* The parser keeps in step with the text that was printed.
THEOREM InStep == Spec => []StepInv
<1>1. Init => StepInv
  BY DEF Init, StepInv, ComesBack
<1>2. BoundsInv /\ StepInv /\ [Next]_vars => StepInv'
  <2> SUFFICES ASSUME BoundsInv, StepInv, [Next]_vars PROVE StepInv'
    OBVIOUS
  <2>1. CASE Measure \/ Reserve \/ Write \/ WriteEnd \/ Arrive
    BY <2>1, StepPrint
  <2>2. CASE Scan
    BY <2>2, StepScan
  <2>3. CASE NoString
    BY <2>3, StepNoString
  <2>4. CASE Allocate
    BY <2>4, StepAllocate
  <2>5. CASE Decode
    BY <2>5, StepDecode
  <2>6. CASE Parsed
    BY <2>6, StepParsed
  <2>7. CASE Done \/ UNCHANGED vars
    BY <2>7, StepStutter DEF Done
  <2>8. QED
    BY <2>1, <2>2, <2>3, <2>4, <2>5, <2>6, <2>7 DEF Next
<1>3. QED
  BY <1>1, <1>2, Invariance, PTL DEF Spec

\* Every text without a NUL in it comes back byte for byte, whatever has to be
\* escaped in it, and the parser goes on behind its closing quote
\* (cJSON.c:968-1015, 829-880).
THEOREM AlwaysComesBack == Spec => []ComesBack
<1>1. StepInv => ComesBack
  BY DEF StepInv, ComesBack
<1>2. QED
  BY <1>1, InStep, PTL

-----------------------------------------------------------------------------
(* What is decoded.                                                        *)

\* The bytes of one UTF-8 character.
Character(b) ==
  /\ b \in Seq(Byte) /\ Len(b) \in Nat \ {0}
  /\ ~Continues(b[1]) /\ Extent(b[1]) = Len(b)
  /\ \A j \in 2 .. Len(b) : Continues(b[j])
  /\ b[1] = 237 => b[2] < 160
  /\ b[1] = 244 => b[2] < 144

\* Only a byte that is no continuation announces more bytes.
LEMMA ExtentFacts ==
  ASSUME NEW b
  PROVE  /\ Extent(b) \in 1 .. 4
         /\ b = 237 => ~Continues(b) /\ Extent(b) = 3
         /\ b = 244 => ~Continues(b) /\ Extent(b) = 4
BY DEF Extent, Continues

\* A character behind whole characters leaves them whole.
LEMMA WholeKept ==
  ASSUME NEW p \in Nat, WellFormed(output, p), NEW b, Character(b),
         \A j \in 0 .. p - 1 : output'[j] = output[j],
         \A j \in p .. p + Len(b) - 1 : j - p + 1 \in 1 .. Len(b) /\ output'[j] = b[j - p + 1]
  PROVE  WellFormed(output', p + Len(b))
<1> DEFINE q == p + Len(b)
<1>l. PICK l \in Nat \ {0} : l = Len(b)
  BY DEF Character
<1>1. q \in Nat /\ q >= p + 1
  BY <1>l
<1>2. ASSUME NEW k \in 0 .. p - 1, ~Continues(output[k])
      PROVE  /\ k + Extent(output[k]) <= p
             /\ \A j \in k + 1 .. k + Extent(output[k]) - 1 : Continues(output[j])
             /\ k + Extent(output[k]) < p => ~Continues(output[k + Extent(output[k])])
  <2>1. Whole(output, k, p)
    BY DEF WellFormed
  <2>2. QED
    BY <1>2, <2>1 DEF Whole
<1>3. output'[p] = b[1]
  <2>1. p \in p .. p + l - 1 /\ p - p + 1 = 1
    BY <1>l
  <2>2. QED
    BY <1>l, <2>1
<1>4. \A k \in p + 1 .. q - 1 : Continues(output'[k])
  <2>1. \A k \in p + 1 .. p + l - 1 : k \in p .. p + l - 1 /\ k - p + 1 \in 2 .. l
    BY <1>l
  <2>2. \A k \in p + 1 .. p + l - 1 : output'[k] = b[k - p + 1] /\ Continues(b[k - p + 1])
    BY <1>l, <2>1 DEF Character
  <2>3. QED
    BY <1>l, <2>2
<1> HIDE DEF q
<1>5. ASSUME NEW k \in 0 .. q - 1, ~Continues(output'[k])
      PROVE  /\ k + Extent(output'[k]) <= q
             /\ \A j \in k + 1 .. k + Extent(output'[k]) - 1 : Continues(output'[j])
             /\ k + Extent(output'[k]) < q => ~Continues(output'[k + Extent(output'[k])])
  <2>1. CASE k \in 0 .. p - 1
    <3>1. PICK e \in 1 .. 4 : e = Extent(output[k])
      BY ExtentFacts
    <3>2. output'[k] = output[k]
      BY <2>1
    <3>3. /\ k + e <= p /\ \A j \in k + 1 .. k + e - 1 : Continues(output[j])
          /\ k + e < p => ~Continues(output[k + e])
      BY <1>2, <1>5, <2>1, <3>1, <3>2
    <3>4. \A j \in k + 1 .. k + e - 1 : j \in 0 .. p - 1
      BY <2>1, <3>3
    <3>5. k + e < p => k + e \in 0 .. p - 1
      BY <2>1, <3>1
    <3>6. k + e = p => ~Continues(output'[k + e])
      BY <1>3 DEF Character
    <3>7. /\ k + e <= q /\ \A j \in k + 1 .. k + e - 1 : Continues(output'[j])
          /\ ~Continues(output'[k + e])
      <4>1. k + e <= q /\ (k + e < p \/ k + e = p)
        BY <1>1, <2>1, <3>1, <3>3
      <4>2. \A j \in k + 1 .. k + e - 1 : Continues(output'[j])
        BY <3>3, <3>4
      <4>3. ~Continues(output'[k + e])
        BY <3>3, <3>5, <3>6, <4>1
      <4>4. QED
        BY <4>1, <4>2, <4>3
    <3>8. QED
      BY <3>1, <3>2, <3>7
  <2>2. CASE k = p
    <3>1. Extent(output'[k]) = l
      BY <1>3, <1>l, <2>2 DEF Character
    <3>2. k + l = q /\ k + 1 .. k + l - 1 = p + 1 .. q - 1
      BY <1>l, <2>2 DEF q
    <3>3. QED
      BY <1>1, <1>4, <3>1, <3>2
  <2>3. CASE k \in p + 1 .. q - 1
    BY <1>4, <1>5, <2>3
  <2>4. QED
    BY <1>1, <2>1, <2>2, <2>3
<1>6. ~Continues(output'[0])
  <2>1. CASE p = 0
    BY <1>3, <2>1 DEF Character
  <2>2. CASE p # 0
    <3>1. 0 \in 0 .. p - 1
      BY <2>2
    <3>2. Whole(output, 0, p) /\ output'[0] = output[0]
      BY <3>1 DEF WellFormed
    <3>3. QED
      BY <3>2 DEF Whole
  <2>3. QED
    BY <2>1, <2>2
<1>7. ASSUME NEW k \in 0 .. q - 1
      PROVE  /\ output'[k] = 237 => output'[k + 1] < 160
             /\ output'[k] = 244 => output'[k + 1] < 144
  <2>1. CASE k \in 0 .. p - 1
    <3>1. output'[k] = output[k]
      BY <2>1
    <3>2. CASE output[k] \in {237, 244}
      <4>1. ~Continues(output[k]) /\ Extent(output[k]) \in {3, 4}
        BY <3>2, ExtentFacts
      <4>2. k + Extent(output[k]) <= p
        BY <1>2, <2>1, <4>1
      <4>3. k + 1 \in 0 .. p - 1
        BY <2>1, <4>1, <4>2
      <4>4. output'[k + 1] = output[k + 1]
        BY <4>3
      <4>5. Whole(output, k, p)
        BY <2>1 DEF WellFormed
      <4>6. QED
        BY <3>1, <4>4, <4>5 DEF Whole
    <3>3. CASE output[k] \notin {237, 244}
      BY <3>1, <3>3
    <3>4. QED
      BY <3>2, <3>3
  <2>2. CASE k = p
    <3>1. CASE b[1] \in {237, 244}
      <4>1. Extent(b[1]) \in {3, 4}
        BY <3>1, ExtentFacts
      <4>2. l \in {3, 4}
        BY <1>l, <4>1 DEF Character
      <4>3. p + 1 \in p .. p + l - 1 /\ p + 1 - p + 1 = 2
        BY <4>2
      <4>4. output'[p + 1] = b[2]
        BY <1>l, <4>3
      <4>5. QED
        BY <1>3, <2>2, <4>4 DEF Character
    <3>2. CASE b[1] \notin {237, 244}
      BY <1>3, <2>2, <3>2
    <3>3. QED
      BY <3>1, <3>2
  <2>3. CASE k \in p + 1 .. q - 1
    <3>1. Continues(output'[k])
      BY <1>4, <2>3
    <3>2. output'[k] # 237 /\ output'[k] # 244
      BY <3>1, ExtentFacts
    <3>3. QED
      BY <3>2
  <2>4. QED
    BY <1>1, <2>1, <2>2, <2>3
<1>8. ASSUME NEW k \in 0 .. q - 1 PROVE Whole(output', k, q)
  BY <1>5, <1>6, <1>7 DEF Whole
<1>9. QED
  BY <1>8 DEF WellFormed, q

\* What a round decodes from ASCII is one character.
LEMMA CharacterDecoded ==
  ASSUME BoundsInv, Decode, pc' = "decode", Ascii
  PROVE  \E b \in Seq(Byte), d \in Nat : Character(b) /\ Emit(b, d)
<1> DEFINE i == input_pointer
           l == At(i + 1)
           u == Literal(i)
<1>1. /\ input \in Seq(Byte) /\ input_end \in 1 .. Len(input) - 1 /\ Len(input) \in Nat
      /\ i \in 1 .. input_end - 1 /\ i \in Nat /\ input_end \in Nat
  BY DEF BoundsInv, TypeOK, ParseInv, Decode
<1>2. \A c \in 0 .. 127 : <<c>> \in Seq(Byte) /\ Character(<<c>>)
  BY DEF Character, Continues, Extent, Byte
<1>3. CASE Emit(<<At(i)>>, 1)
  <2>1. At(i) \in 0 .. 127
    <3>1. i + 1 \in 1 .. Len(input) /\ i < Len(input)
      BY <1>1
    <3>2. At(i) = input[i + 1] /\ i + 1 \in DOMAIN input
      BY <1>1, <3>1 DEF At
    <3>3. input[i + 1] \in Byte
      BY <1>1, <3>1
    <3>4. QED
      BY <3>2, <3>3 DEF Ascii, Byte
  <2>2. QED
    BY <1>2, <1>3, <2>1
<1>4. CASE l \in DOMAIN Unescape /\ Emit(<<Unescape[l]>>, 2)
  <2>1. Unescape[l] \in 0 .. 127
    BY <1>4, UnescapeFacts DEF QUOTE, BACKSLASH
  <2>2. QED
    BY <1>2, <1>4, <2>1
<1>5. CASE u.length > 0 /\ Emit(u.bytes, u.length)
  <2>1. PICK p : CodePoint(p) /\ u.bytes = Utf8(p)
    BY <1>1, <1>5, LiteralFacts, Z3
  <2>2. PICK b : b = u.bytes
    OBVIOUS
  <2>3. /\ b \in Seq(Byte) /\ Len(b) \in 1 .. 4
        /\ ~Continues(b[1]) /\ Extent(b[1]) = Len(b)
        /\ \A j \in 2 .. Len(b) : Continues(b[j])
        /\ b[1] = 237 => b[2] < 160
        /\ b[1] = 244 => b[2] < 144
    BY <2>1, <2>2, Utf8Facts, Z3
  <2>4. Character(b)
    BY <2>3 DEF Character
  <2>5. u.length \in {6, 12}
    BY <1>1, <1>5, LiteralFacts, Z3
  <2>6. PICK d \in Nat : d = u.length
    BY <2>5
  <2>7. Emit(b, d)
    BY <1>5, <2>2, <2>6
  <2>8. QED
    BY <2>3, <2>4, <2>7
<1>6. QED
  BY <1>3, <1>4, <1>5 DEF Decode, Fail

\* A round writes one character.
LEMMA Utf8Decode == ASSUME BoundsInv, Utf8Inv, Decode PROVE Utf8Inv'
<1>1. pc = "decode" /\ pc' \in {"decode", "failed"} /\ UNCHANGED <<text, input>>
  BY DEF Decode, Emit, Fail, parsing
<1> SUFFICES ASSUME pc' = "decode", text = <<>>, Ascii PROVE WellFormed(output', output_pointer')
  BY <1>1 DEF Utf8Inv, Ascii
<1>p. PICK p \in Nat : p = output_pointer
  BY DEF BoundsInv, TypeOK
<1>2. PICK b \in Seq(Byte), d \in Nat : Character(b) /\ Emit(b, d)
  BY CharacterDecoded
<1>3. output' = Put(output, p, b) /\ output_pointer' = p + Len(b)
  BY <1>2, <1>p DEF Emit
<1>4. DOMAIN output = 0 .. p - 1
  BY <1>1, <1>p DEF BoundsInv, ParseInv
<1>5. /\ \A j \in 0 .. p - 1 : output'[j] = output[j]
      /\ \A j \in p .. p + Len(b) - 1 : j - p + 1 \in 1 .. Len(b) /\ output'[j] = b[j - p + 1]
  BY <1>3, <1>4, EmitFacts
<1>6. WellFormed(output, p)
  BY <1>1, <1>p DEF Utf8Inv
<1>7. WellFormed(output', p + Len(b))
  BY <1>2, <1>5, <1>6, WholeKept
<1>8. QED
  BY <1>3, <1>7 DEF WellFormed

\* The NUL leaves what was decoded alone.
LEMMA Utf8Parsed == ASSUME BoundsInv, Utf8Inv, Parsed PROVE Utf8Inv'
<1> DEFINE b == <<NUL>>
<1>p. PICK p \in Nat : p = output_pointer
  BY DEF BoundsInv, TypeOK
<1>1. /\ pc = "decode" /\ UNCHANGED <<text, input, output_pointer>> /\ output' = Put(output, p, b)
      /\ DOMAIN output = 0 .. p - 1
  BY <1>p DEF Parsed, parsing, BoundsInv, ParseInv
<1> SUFFICES ASSUME text = <<>>, Ascii PROVE WellFormed(output', output_pointer')
  BY <1>1 DEF Utf8Inv, Ascii
<1>2. b \in Seq(Byte)
  BY DEF NUL, Byte
<1> HIDE DEF b
<1>3. \A j \in 0 .. p - 1 : output'[j] = output[j]
  BY <1>1, <1>2, EmitFacts
<1>4. WellFormed(output, p)
  BY <1>1, <1>p DEF Utf8Inv
<1>5. ASSUME NEW k \in 0 .. p - 1 PROVE Whole(output', k, p)
  <2>1. output'[k] = output[k]
    BY <1>3
  <2>2. PICK e \in 1 .. 4 : e = Extent(output[k])
    BY ExtentFacts
  <2>3. /\ ~Continues(output[k]) =>
             /\ k + e <= p /\ \A j \in k + 1 .. k + e - 1 : Continues(output[j])
             /\ k + e < p => ~Continues(output[k + e])
        /\ k = 0 => ~Continues(output[k])
        /\ output[k] = 237 => output[k + 1] < 160
        /\ output[k] = 244 => output[k + 1] < 144
    <3>1. Whole(output, k, p)
      BY <1>4 DEF WellFormed
    <3>2. QED
      BY <2>2, <3>1 DEF Whole
  <2>4. CASE Continues(output[k])
    <3>1. output[k] # 237 /\ output[k] # 244
      BY <2>4, ExtentFacts
    <3>2. QED
      BY <2>1, <2>3, <2>4, <3>1 DEF Whole
  <2>5. CASE ~Continues(output[k])
    <3>1. /\ k + e <= p /\ \A j \in k + 1 .. k + e - 1 : j \in 0 .. p - 1
          /\ k + e < p => k + e \in 0 .. p - 1
      BY <2>3, <2>5
    <3>2. /\ \A j \in k + 1 .. k + e - 1 : Continues(output'[j])
          /\ k + e < p => ~Continues(output'[k + e])
      BY <1>3, <2>3, <2>5, <3>1
    <3>3. output[k] \in {237, 244} => output'[k + 1] = output[k + 1]
      <4>1. output[k] \in {237, 244} => e \in {3, 4}
        BY <2>2, ExtentFacts
      <4>2. e \in {3, 4} => k + 1 \in 0 .. p - 1
        BY <3>1
      <4>3. QED
        BY <1>3, <4>1, <4>2
    <3>4. QED
      BY <2>1, <2>2, <2>3, <2>5, <3>1, <3>2, <3>3 DEF Whole
  <2>6. QED
    BY <2>4, <2>5
<1>6. WellFormed(output', p)
  BY <1>5 DEF WellFormed
<1>7. QED
  BY <1>1, <1>p, <1>6 DEF WellFormed

\* What has been decoded from ASCII is always whole characters.
THEOREM AlwaysWhole == Spec => []Utf8Inv
<1>1. Init => Utf8Inv
  BY DEF Init, Utf8Inv
<1>2. BoundsInv /\ Utf8Inv /\ [Next]_vars => Utf8Inv'
  <2> SUFFICES ASSUME BoundsInv, Utf8Inv, [Next]_vars PROVE Utf8Inv'
    OBVIOUS
  <2>1. CASE Decode
    BY <2>1, Utf8Decode
  <2>2. CASE Parsed
    BY <2>2, Utf8Parsed
  <2>3. CASE Allocate
    <3>1. output_pointer' = 0
      BY <2>3 DEF Allocate, BoundsInv, ParseInv
    <3>2. QED
      BY <3>1 DEF Utf8Inv, WellFormed
  <2>4. CASE Measure \/ Reserve \/ Write \/ WriteEnd \/ Arrive \/ Scan \/ NoString
    <3>1. pc' \notin {"decode", "parsed"}
      BY <2>4 DEF Measure, Reserve, Write, WriteEnd, Arrive, Scan, NoString, Fail
    <3>2. QED
      BY <3>1 DEF Utf8Inv
  <2>5. CASE Done \/ UNCHANGED vars
    BY <2>5 DEF Done, Utf8Inv, Ascii, WellFormed, Whole, vars
  <2>6. QED
    BY <2>1, <2>2, <2>3, <2>4, <2>5 DEF Next
<1>3. QED
  BY <1>1, <1>2, Invariance, PTL DEF Spec

\* What is decoded from ASCII is UTF-8, whatever escapes it is made of: whole
\* characters, no half of a surrogate pair, nothing beyond U+10FFFF
\* (cJSON.c:656-775, 829-880).
THEOREM AlwaysUtf8 == Spec => []DecodesToUtf8
<1>1. ASSUME Utf8Inv PROVE DecodesToUtf8
  <2> SUFFICES ASSUME pc = "parsed", text = <<>>, Ascii PROVE DecodesToUtf8
    BY DEF Ascii, DecodesToUtf8
  <2>1. ASSUME NEW k \in 0 .. output_pointer - 1 PROVE Whole(output, k, output_pointer)
    BY <1>1 DEF Utf8Inv, WellFormed
  <2>2. QED
    BY <2>1 DEF DecodesToUtf8
<1>2. QED
  BY <1>1, AlwaysWhole, PTL

=============================================================================
