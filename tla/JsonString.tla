------------------------------ MODULE JsonString ------------------------------
(***************************************************************************)
(* A string of the JSON text (src/cJSON/cJSON.c): print_string_ptr counts   *)
(* what has to be escaped, reserves that much and writes; parse_string     *)
(* looks for the closing quote, allocates by what it counted on the way,   *)
(* and decodes.  Both trust a count made in one loop while another loop    *)
(* writes.  A character is its byte, a position an index from 0; the       *)
(* parser starts at the opening quote, position 0.                         *)
(***************************************************************************)
EXTENDS Naturals, Sequences, FiniteSets, SequencesExt

CONSTANTS
  Texts,    \* the C strings, without their NUL, that are printed and read back
  Inputs    \* what the parser finds when the text was damaged on its way

Byte == 0 .. 255
NUL == 0

ASSUME StringAssumption ==
  /\ Texts \subseteq Seq(Byte \ {NUL})
  /\ Inputs \subseteq Seq(Byte) \ {<<>>}

VARIABLES
  pc,
  text,              \* what is printed
  input_pointer,     \* position in the text, then in the input
  escape_characters, \* how many bytes escaping adds
  output,            \* the bytes written so far, by position: printed text, then decoded value
  output_pointer,
  input,             \* what is parsed
  input_end,         \* where the first loop of parse_string is, then the closing quote
  skipped_bytes,     \* how many escapes it has passed
  reserved,          \* how many bytes of output may be written
  touched            \* the highest position of the input that was read

vars == <<pc, text, input_pointer, escape_characters, output, output_pointer, input,
          input_end, skipped_bytes, reserved, touched>>

printing == <<input, input_end, skipped_bytes, touched>>
parsing == <<text, escape_characters>>

QUOTE == 34
BACKSLASH == 92
U == 117

\* The letter after the backslash, by the character that is escaped.
Letter == [c \in {8, 12, 10, 13, 9, QUOTE, BACKSLASH} |->
             IF c = 8 THEN 98 ELSE IF c = 12 THEN 102 ELSE IF c = 10 THEN 110
             ELSE IF c = 13 THEN 114 ELSE IF c = 9 THEN 116 ELSE c]

Nothing == [k \in {} |-> NUL]

\* What bytes puts at the positions from k on, over what was there.
Put(old, k, bytes) ==
  [j \in DOMAIN old \union k .. (k + Len(bytes) - 1) |->
     IF j \in k .. (k + Len(bytes) - 1) THEN bytes[j - k + 1] ELSE old[j]]

Init ==
  /\ input_pointer = 0 /\ escape_characters = 0 /\ output = Nothing /\ output_pointer = 0
  /\ input_end = 1 /\ skipped_bytes = 0 /\ reserved = 0 /\ touched = 0
  /\ \/ pc = "measure" /\ text \in Texts /\ input = <<>>
     \/ pc = "scan" /\ text = <<>> /\ input \in Inputs

-----------------------------------------------------------------------------
(* print_string_ptr                                                        *)

\* Mutant: a control character is counted as a short escape.
EscapesShort(c) == IF c \in DOMAIN Letter \/ c < 32 THEN 1 ELSE 0

\* Mutant: the backslash of a \u escape is counted twice.
EscapesLong(c) == IF c \in DOMAIN Letter THEN 1 ELSE IF c < 32 THEN 6 ELSE 0

\* How many bytes a character takes beyond its own.
Escapes(c) == IF c \in DOMAIN Letter THEN 1 ELSE IF c < 32 THEN 5 ELSE 0

Measure ==
  /\ pc = "measure" /\ input_pointer < Len(text)
  /\ escape_characters' = escape_characters + Escapes(text[input_pointer + 1])
  /\ input_pointer' = input_pointer + 1
  /\ UNCHANGED <<pc, text, output, output_pointer, reserved, printing>>

\* ensure(output_length + sizeof("\"\"")); without anything to escape the text is
\* copied in one memcpy.
Reserve ==
  LET output_length == Len(text) + escape_characters
  IN /\ pc = "measure" /\ input_pointer = Len(text)
     /\ reserved' = output_length + 3
     /\ input_pointer' = 0
     /\ IF escape_characters = 0
        THEN /\ output' = Put(output, 0, <<QUOTE>> \o text \o <<QUOTE, NUL>>)
             /\ pc' = "printed" /\ UNCHANGED output_pointer
        ELSE /\ output' = Put(output, 0, <<QUOTE>>)
             /\ output_pointer' = 1 /\ pc' = "write"
     /\ UNCHANGED <<text, escape_characters, printing>>

HexDigit(d) == IF d < 10 THEN 48 + d ELSE 87 + d

\* One character of the text; sprintf's NUL is written behind a \u escape too.
Write ==
  LET c == text[input_pointer + 1]
      escape == IF c \in DOMAIN Letter THEN <<BACKSLASH, Letter[c]>>
                ELSE IF c < 32 THEN <<BACKSLASH, U, 48, 48, HexDigit(c \div 16), HexDigit(c % 16)>>
                ELSE <<c>>
      ends == IF Len(escape) = 6 THEN <<NUL>> ELSE <<>>
  IN /\ pc = "write" /\ input_pointer < Len(text)
     /\ output' = Put(output, output_pointer, escape \o ends)
     /\ output_pointer' = output_pointer + Len(escape)
     /\ input_pointer' = input_pointer + 1
     /\ UNCHANGED <<pc, text, escape_characters, reserved, printing>>

\* The closing quote and the NUL go where the count says, not where the writing ended.
WriteEnd ==
  /\ pc = "write" /\ input_pointer = Len(text)
  /\ output' = Put(output, Len(text) + escape_characters + 1, <<QUOTE, NUL>>)
  /\ pc' = "printed"
  /\ UNCHANGED <<text, input_pointer, escape_characters, output_pointer, reserved, printing>>

\* The C string at the beginning of the output, as update_offset's strlen sees it.
Printed ==
  LET end == CHOOSE k \in DOMAIN output : output[k] = NUL /\ \A j \in 0 .. k - 1 :
                                            j \in DOMAIN output /\ output[j] # NUL
  IN [j \in 1 .. end |-> output[j - 1]]

\* The printed text arrives as it is.
Arrive ==
  /\ pc = "printed"
  /\ input' = Append(Printed, NUL)
  /\ pc' = "scan"
  /\ output' = Nothing /\ output_pointer' = 0 /\ reserved' = 0 /\ input_pointer' = 0
  /\ UNCHANGED <<parsing, input_end, skipped_bytes, touched>>

-----------------------------------------------------------------------------
(* parse_string                                                            *)

At(k) == IF k < Len(input) THEN input[k + 1] ELSE NUL

Highest(S) == CHOOSE k \in S : \A j \in S : j <= k
Touch(S) == touched' = Highest(S \union {touched})

\* fail: what was allocated is freed.
Fail == pc' = "failed" /\ output' = Nothing /\ reserved' = 0

\* Mutant: the end of the input is not looked for.
UnescapedAnywhere == At(input_end) # QUOTE

Unescaped == input_end < Len(input) /\ At(input_end) # QUOTE

\* Mutant: an escape is counted for both of its characters.
ScanCountsTwice ==
  /\ pc = "scan" /\ At(0) = QUOTE /\ Unescaped
  /\ IF At(input_end) = BACKSLASH
     THEN IF input_end + 1 >= Len(input)
          THEN Fail /\ Touch({input_end}) /\ UNCHANGED <<input_end, skipped_bytes>>
          ELSE /\ input_end' = input_end + 2 /\ skipped_bytes' = skipped_bytes + 2
               /\ Touch({input_end}) /\ UNCHANGED <<pc, output, reserved>>
     ELSE /\ input_end' = input_end + 1 /\ Touch({input_end})
          /\ UNCHANGED <<pc, output, reserved, skipped_bytes>>
  /\ UNCHANGED <<parsing, input, input_pointer, output_pointer>>

\* One round of the loop that looks for the closing quote.
Scan ==
  /\ pc = "scan" /\ At(0) = QUOTE /\ Unescaped
  /\ IF At(input_end) = BACKSLASH
     THEN IF input_end + 1 >= Len(input)
          THEN Fail /\ Touch({input_end}) /\ UNCHANGED <<input_end, skipped_bytes>>
          ELSE /\ input_end' = input_end + 2 /\ skipped_bytes' = skipped_bytes + 1
               /\ Touch({input_end}) /\ UNCHANGED <<pc, output, reserved>>
     ELSE /\ input_end' = input_end + 1 /\ Touch({input_end})
          /\ UNCHANGED <<pc, output, reserved, skipped_bytes>>
  /\ UNCHANGED <<parsing, input, input_pointer, output_pointer>>

\* Not a string, or no closing quote.
NoString ==
  /\ pc = "scan" /\ (At(0) # QUOTE \/ input_end >= Len(input))
  /\ Fail /\ input_pointer' = 1 /\ Touch({0})
  /\ UNCHANGED <<parsing, input, input_end, skipped_bytes, output_pointer>>

\* malloc(allocation_length + sizeof("")).
Allocate ==
  /\ pc = "scan" /\ At(0) = QUOTE /\ ~Unescaped /\ input_end < Len(input)
  /\ reserved' = (input_end - skipped_bytes) + 1
  /\ input_pointer' = 1 /\ pc' = "decode" /\ Touch({input_end})
  /\ UNCHANGED <<parsing, input, input_end, skipped_bytes, output, output_pointer>>

Unescape == [l \in {Letter[c] : c \in DOMAIN Letter} \union {47} |->
               IF l = 47 THEN 47 ELSE CHOOSE c \in DOMAIN Letter : Letter[c] = l]

\* Mutant: small letters are no hexadecimal digits.
NibbleCapital(c) == IF c \in 48 .. 57 THEN c - 48 ELSE IF c \in 65 .. 70 THEN c - 55 ELSE 16

Nibble(c) ==
  IF c \in 48 .. 57 THEN c - 48
  ELSE IF c \in 65 .. 70 THEN c - 55
  ELSE IF c \in 97 .. 102 THEN c - 87 ELSE 16

\* parse_hex4: 0 when a digit is none.
Hex4(k) ==
  LET n == [j \in 0 .. 3 |-> Nibble(At(k + j))]
  IN IF \E j \in 0 .. 3 : n[j] = 16 THEN 0
     ELSE n[0] * 4096 + n[1] * 256 + n[2] * 16 + n[3]

\* The encoding at the end of utf16_literal_to_utf8.
Continuation(bits) == 128 + (bits % 64)

Utf8(p) ==
  IF p < 128 THEN <<p>>
  ELSE IF p < 2048 THEN <<192 + p \div 64, Continuation(p)>>
  ELSE IF p < 65536 THEN <<224 + p \div 4096, Continuation(p \div 64), Continuation(p)>>
  ELSE <<240 + p \div 262144, Continuation(p \div 4096), Continuation(p \div 64), Continuation(p)>>

High == 55296 .. 56319
Low == 56320 .. 57343

\* How far parse_hex4 reads: to the first digit that is none.
Hex4End(k) ==
  LET bad == {j \in 0 .. 3 : Nibble(At(k + j)) = 16}
  IN IF bad = {} THEN k + 3 ELSE k + (CHOOSE j \in bad : \A i \in bad : j <= i)

NoLiteral(last) == [length |-> 0, bytes |-> <<>>, reads |-> {last}]

\* Mutant: the second half of a pair is taken for granted.
LiteralHalf(k) ==
  IF input_end - k < 6 THEN NoLiteral(k + 1)
  ELSE [length |-> 6, bytes |-> Utf8(Hex4(k + 2)), reads |-> {Hex4End(k + 2)}]

\* utf16_literal_to_utf8 at position k: how much of the input it is, its bytes,
\* and the last position that was read.
Literal(k) ==
  LET first == Hex4(k + 2)
      second == Hex4(k + 8)
  IN IF k + 6 > input_end THEN NoLiteral(k + 1)
     ELSE IF first \in Low THEN NoLiteral(k + 5)
     ELSE IF first \notin High
     THEN [length |-> 6, bytes |-> Utf8(first), reads |-> {Hex4End(k + 2)}]
     ELSE IF k + 12 > input_end THEN NoLiteral(k + 5)
     ELSE IF At(k + 6) # BACKSLASH THEN NoLiteral(k + 6)
     ELSE IF At(k + 7) # U THEN NoLiteral(k + 7)
     ELSE IF second \notin Low THEN NoLiteral(Hex4End(k + 8))
     ELSE [length |-> 12, reads |-> {k + 11},
           bytes |-> Utf8(65536 + (first % 1024) * 1024 + (second % 1024))]

Emit(bytes, consumed) ==
  /\ output' = Put(output, output_pointer, bytes)
  /\ output_pointer' = output_pointer + Len(bytes)
  /\ input_pointer' = input_pointer + consumed
  /\ UNCHANGED <<pc, reserved>>

\* One round of the loop through the string literal.
Decode ==
  LET c == At(input_pointer)
      l == At(input_pointer + 1)
      u == Literal(input_pointer)
  IN /\ pc = "decode" /\ input_pointer < input_end
     /\ \/ c # BACKSLASH /\ Emit(<<c>>, 1) /\ Touch({input_pointer})
        \/ c = BACKSLASH /\ l \in DOMAIN Unescape
             /\ Emit(<<Unescape[l]>>, 2) /\ Touch({input_pointer + 1})
        \/ c = BACKSLASH /\ l = U /\ u.length > 0
             /\ Emit(u.bytes, u.length) /\ Touch(u.reads)
        \/ /\ c = BACKSLASH /\ l \notin DOMAIN Unescape /\ (l = U => u.length = 0)
           /\ Fail /\ Touch(IF l = U THEN u.reads ELSE {input_pointer + 1})
           /\ UNCHANGED <<input_pointer, output_pointer>>
     /\ UNCHANGED <<parsing, input, input_end, skipped_bytes>>

\* The NUL; the parser goes on behind the closing quote.
Parsed ==
  /\ pc = "decode" /\ input_pointer >= input_end
  /\ output' = Put(output, output_pointer, <<NUL>>)
  /\ input_pointer' = input_end + 1
  /\ pc' = "parsed"
  /\ UNCHANGED <<parsing, input, input_end, skipped_bytes, output_pointer, reserved, touched>>

Done == pc \in {"parsed", "failed"} /\ UNCHANGED vars

Next == Measure \/ Reserve \/ Write \/ WriteEnd \/ Arrive
          \/ Scan \/ NoString \/ Allocate \/ Decode \/ Parsed \/ Done

Spec == Init /\ [][Next]_vars

-----------------------------------------------------------------------------

\* Every variable has its type, and the loops stay inside what they run over.
TypeOK ==
  /\ pc \in {"measure", "write", "printed", "scan", "decode", "parsed", "failed"}
  /\ text \in Seq(Byte \ {NUL}) /\ input \in Seq(Byte)
  /\ DOMAIN output \subseteq Nat /\ \A k \in DOMAIN output : output[k] \in Byte
  /\ pc \in {"measure", "write"} => input_pointer <= Len(text)
  /\ pc \in {"scan", "decode"} => input_end \in 1 .. Len(input) + 1
  /\ input_pointer \in Nat /\ escape_characters \in Nat
  /\ 2 * skipped_bytes <= input_end /\ {output_pointer, reserved, touched} \subseteq Nat

\* Neither print_string_ptr nor parse_string writes past what it reserved by its
\* count, escapes of every kind included, and a string literal with broken
\* escapes that hide others no less (cJSON.c:953-955, 811-812).
WritesFit == pc # "failed" => \A k \in DOMAIN output : k < reserved

\* The printed text ends where the count says it does: what update_offset's
\* strlen finds is the quoted text, and no byte of it was left unwritten
\* (cJSON.c:1017-1018, 534).
EndsWhereCounted ==
  pc = "printed" =>
    LET end == Len(text) + escape_characters + 2
    IN /\ DOMAIN output = 0 .. end /\ output[end] = NUL
       /\ \A k \in 0 .. end - 1 : output[k] # NUL

\* The parser reads nothing behind the NUL that strlen found, whatever the text
\* ends with (cJSON.c:790-808, 821-834, 662, 684).
ReadsInBounds == input # <<>> => touched < Len(input)

\* What one loop counts is what the other writes and reads, when printing and
\* when parsing (cJSON.c:925-1043, 777-880).
InBounds == WritesFit /\ EndsWhereCounted /\ ReadsInBounds

\* Every text a packet can hold comes back as it was: what is escaped is
\* unescaped to the same bytes, and the rest is left alone.
ComesBack ==
  text # <<>> =>
    /\ pc # "failed"
    /\ pc = "parsed" =>
         /\ output = Put(Nothing, 0, Append(text, NUL))
         /\ input_pointer = Len(input) - 1

\* A byte that continues a UTF-8 character.
Continues(b) == b \in 128 .. 191

\* How many bytes a character has, by its first byte.
Extent(b) == IF b \in 192 .. 223 THEN 2 ELSE IF b \in 224 .. 239 THEN 3
             ELSE IF b \in 240 .. 247 THEN 4 ELSE 1

\* The character at k, if one begins there, is within the first n bytes of out, and
\* another one follows it; no surrogate and nothing beyond U+10FFFF begins at k.
Whole(out, k, n) ==
  /\ ~Continues(out[k]) =>
       /\ k + Extent(out[k]) <= n
       /\ \A j \in k + 1 .. k + Extent(out[k]) - 1 : Continues(out[j])
       /\ k + Extent(out[k]) < n => ~Continues(out[k + Extent(out[k])])
  /\ k = 0 => ~Continues(out[k])
  /\ out[k] = 237 => out[k + 1] < 160
  /\ out[k] = 244 => out[k + 1] < 144

\* What is decoded from ASCII is UTF-8: first bytes are followed by as many
\* continuations as they announce, no half of a surrogate pair gets through
\* (cJSON.c:672, 684-703), and nothing is beyond U+10FFFF.
DecodesToUtf8 ==
  pc = "parsed" /\ text = <<>> /\ (\A k \in DOMAIN input : input[k] < 128) =>
    \A k \in 0 .. output_pointer - 1 : Whole(output, k, output_pointer)

=============================================================================
