------------------------------- MODULE JsonText -------------------------------
(***************************************************************************)
(* The JSON text of a packet.  json_format (src/src/middle.c) builds an    *)
(* object of three members with cJSON (src/cJSON/cJSON.c) and prints it    *)
(* into a buffer that grows; json_unformat has the text parsed again at    *)
(* the other end, where it may be damaged or cut short and has no NUL of   *)
(* its own, and takes the members out.                                     *)
(*                                                                         *)
(* A text is a sequence of tokens: a string or a number is one token (what *)
(* is inside a string is the subject of JsonString), a white space too.    *)
(* The printer's positions count bytes, the parser's count tokens, both    *)
(* from 0.  An item of a tree is named by its path: the third child of the *)
(* root is <<3>>.                                                          *)
(***************************************************************************)
EXTENDS Naturals, Sequences, FiniteSets, SequencesExt

CONSTANTS
  Widths,          \* the bytes a printed message may take, its quotes included
  KeyWidth,        \* the bytes a printed key takes
  NumberWidth,     \* the bytes a printed number takes
  DefaultSize,     \* default_buffer_size
  IntMax,          \* INT_MAX
  NestingLimit,    \* CJSON_NESTING_LIMIT
  Damage,          \* what a token of the text may be replaced by
  Tails,           \* what may lie behind the text in memory, up to the next NUL
  MaxFailures      \* bound on the allocations that fail

\* Widths have two quotes, sizes are numbers, what replaces a token is a sequence.
ASSUME TextAssumption ==
  /\ Widths \subseteq Nat \ {0, 1} /\ {KeyWidth, NumberWidth, MaxFailures} \subseteq Nat
  /\ {DefaultSize, IntMax, NestingLimit} \subseteq Nat \ {0}
  /\ \A s \in Damage \union Tails : s \in Seq(Range(s))

Mark(m) == [t |-> m, v |-> ""]
Str(s) == [t |-> "str", v |-> s]
Num(n) == [t |-> "num", v |-> n]
Blank == Mark("ws")
NUL == Mark("nul")

Members == <<"message", "crc_checksum", "flag_last">>
Value == <<Str("text"), Num("crc"), Num("last")>>

VARIABLES
  pc,
  items,      \* the cJSON items that are allocated, by path
  width,      \* the bytes the message takes when printed
  failures,   \* how many allocations have failed
  text,       \* the tokens printed
  piece,      \* which piece of the object is printed next
  length,     \* of the print buffer, then of the parse buffer
  offset,
  buffer,     \* what became of the print buffer: "none", "live", "null" or "returned"
  frees,      \* how often it was freed
  high,       \* the highest position written in it
  nul,        \* where the last NUL was written
  content,    \* what the parser is given
  fate,       \* what happened to the text on its way
  depth,
  stack,      \* the calls of parse_object and parse_array that are under way
  touched,    \* the highest position the parser has read
  packet      \* what json_unformat puts into the packet

tree == <<items, failures>>
printer == <<text, piece, buffer, frees, high, nul, width>>
parser == <<depth, stack, touched>>
wire == <<content, fate, packet>>
vars == <<pc, tree, printer, length, offset, parser, wire>>

Nothing == [message |-> "", crc_checksum |-> "", flag_last |-> ""]

Init ==
  /\ pc = "create" /\ items = [p \in {} |-> Blank] /\ failures = 0
  /\ width \in Widths /\ text = <<>> /\ piece = 1 /\ length = 0 /\ offset = 0
  /\ buffer = "none" /\ frees = 0 /\ high = 0 /\ nul = 0
  /\ content = <<>> /\ fate = "none" /\ packet = Nothing
  /\ depth = 0 /\ stack = <<>> /\ touched = 0

\* One allocation more fails.
OutOfMemory == failures < MaxFailures /\ failures' = failures + 1

Item(kind, key, val) == [kind |-> kind, key |-> key, val |-> val]

WithItem(p, i) == [q \in DOMAIN items \union {p} |-> IF q = p THEN i ELSE items[q]]

\* cJSON_Delete of the list of children of p, all that is below them included.
WithoutChildren(p) == [q \in {r \in DOMAIN items : ~IsStrictPrefix(p, r)} |-> items[q]]

NoItems == [q \in {} |-> Blank]

-----------------------------------------------------------------------------
(* json_format: the tree.                                                  *)

CreateObject ==
  /\ pc = "create"
  /\ \/ items' = WithItem(<<>>, Item("object", "", "")) /\ UNCHANGED failures
     \/ OutOfMemory /\ UNCHANGED items
  /\ pc' = "message"
  /\ UNCHANGED <<printer, length, offset, parser, wire>>

Children(p) == {q \in DOMAIN items : Len(q) = Len(p) + 1 /\ IsPrefix(p, q)}

\* cJSON_AddStringToObject, cJSON_AddNumberToObject: the item is hung behind the
\* last one; when an allocation fails or there is no object it is deleted again.
AddMember(k) ==
  /\ pc = Members[k]
  /\ \/ /\ <<>> \in DOMAIN items
        /\ items' = WithItem(<<Cardinality(Children(<<>>)) + 1>>,
                             Item(Value[k].t, Members[k], Value[k].v))
        /\ UNCHANGED failures
     \/ <<>> \notin DOMAIN items /\ UNCHANGED tree
     \/ OutOfMemory /\ UNCHANGED items
  /\ pc' = IF k < Len(Members) THEN Members[k + 1] ELSE "print"
  /\ UNCHANGED <<printer, length, offset, parser, wire>>

-----------------------------------------------------------------------------
(* cJSON_Print: the pieces of the object, in the order print_object writes *)
(* them.  needed is what ensure is asked for; a piece that is not counted  *)
(* by the code leaves its length to update_offset's strlen.                *)

Piece(needed, tokens, bytes, ends, counted) ==
  [needed |-> needed, tokens |-> tokens, bytes |-> bytes, ends |-> ends, counted |-> counted]

ValueWidth(i) == IF i.kind = "str" THEN width ELSE NumberWidth

\* print_number writes, counts and ends; print_string_ptr leaves counting to its caller.
ValuePiece(i) ==
  Piece(ValueWidth(i) + 1, <<[t |-> i.kind, v |-> i.val]>>, ValueWidth(i), TRUE, i.kind = "num")

\* Mutants: print_string_ptr reserves the characters and the quotes only; the
\* key has no NUL behind it.
KeyPieceTight(i) == Piece(KeyWidth - 2, <<Str(i.key)>>, KeyWidth, TRUE, FALSE)
KeyPieceOpen(i) == Piece(KeyWidth + 1, <<Str(i.key)>>, KeyWidth, FALSE, FALSE)

KeyPiece(i) == Piece(KeyWidth + 1, <<Str(i.key)>>, KeyWidth, TRUE, FALSE)

\* Mutant: the comma is not left out behind the last member.
CommaPieceAlways(last) == Piece(3, <<Mark(","), Blank>>, 2, TRUE, TRUE)

CommaPiece(last) ==
  IF last THEN Piece(2, <<Blank>>, 1, TRUE, TRUE)
          ELSE Piece(3, <<Mark(","), Blank>>, 2, TRUE, TRUE)

\* Tab, key, colon and tab, value, comma and newline.
MemberPieces(i, last) ==
  << Piece(1, <<Blank>>, 1, FALSE, TRUE), KeyPiece(i),
     Piece(2, <<Mark(":"), Blank>>, 2, FALSE, TRUE), ValuePiece(i), CommaPiece(last) >>

Pieces ==
  LET n == Cardinality(Children(<<>>))
  IN <<Piece(3, <<Mark("{"), Blank>>, 2, FALSE, TRUE)>>
       \o FlattenSeq([k \in 1 .. n |-> MemberPieces(items[<<k>>], k = n)])
       \o <<Piece(2, <<Mark("}")>>, 1, TRUE, FALSE)>>

\* malloc of the buffer; an item that is not there is no value to print.
StartPrint ==
  /\ pc = "print"
  /\ \/ /\ buffer' = "live" /\ length' = DefaultSize
        /\ pc' = IF <<>> \in DOMAIN items THEN "pieces" ELSE "fail"
        /\ UNCHANGED failures
     \/ OutOfMemory /\ pc' = "fail" /\ UNCHANGED <<buffer, length>>
  /\ UNCHANGED <<items, text, piece, frees, high, nul, width, offset, parser, wire>>

\* ensure: the length the buffer must have for needed bytes more, or 0 when
\* there is none.
Ensured(needed) ==
  LET total == needed + offset + 1
  IN IF offset >= length \/ needed > IntMax THEN 0
     ELSE IF total <= length THEN length
     ELSE IF total <= IntMax \div 2 THEN total * 2
     ELSE IF total <= IntMax THEN IntMax
     ELSE 0

\* One piece of print_object, with ensure before it and update_offset after it.
PrintPiece ==
  LET p == Pieces[piece]
      end == offset + p.bytes
  IN /\ pc = "pieces" /\ piece <= Len(Pieces) /\ Ensured(p.needed) > 0
     /\ length' = Ensured(p.needed)
     /\ text' = text \o p.tokens
     /\ high' = IF p.ends THEN end ELSE end - 1
     /\ nul' = IF p.ends THEN end ELSE nul
     /\ offset' = IF p.counted THEN end ELSE nul'
     /\ piece' = piece + 1
     /\ UNCHANGED <<pc, tree, buffer, frees, width, parser, wire>>

NoRoom ==
  /\ pc = "pieces" /\ piece <= Len(Pieces) /\ Ensured(Pieces[piece].needed) = 0
  /\ pc' = "fail"
  /\ UNCHANGED <<tree, printer, length, offset, parser, wire>>

\* Mutant of ReallocFails: the buffer that was freed stays in the printbuffer.
ReallocFailsKeeps ==
  /\ pc = "pieces" /\ piece <= Len(Pieces) /\ Ensured(Pieces[piece].needed) > length
  /\ OutOfMemory
  /\ frees' = frees + 1 /\ length' = 0 /\ pc' = "fail"
  /\ UNCHANGED <<buffer, items, text, piece, high, nul, width, offset, parser, wire>>

\* realloc fails in ensure: the old buffer is freed and forgotten.
ReallocFails ==
  /\ pc = "pieces" /\ piece <= Len(Pieces) /\ Ensured(Pieces[piece].needed) > length
  /\ OutOfMemory
  /\ frees' = frees + 1 /\ buffer' = "null" /\ length' = 0 /\ pc' = "fail"
  /\ UNCHANGED <<items, text, piece, high, nul, width, offset, parser, wire>>

\* Mutant of FinishPrint: json_format does not delete its tree.
FinishPrintKeepsTree ==
  /\ pc = "pieces" /\ piece > Len(Pieces)
  /\ buffer' = "returned" /\ length' = offset + 1 /\ pc' = "sent"
  /\ UNCHANGED <<tree, text, piece, frees, high, nul, width, offset, parser, wire>>

\* The last realloc cuts the buffer to what was printed; then json_format deletes
\* the tree.
FinishPrint ==
  /\ pc = "pieces" /\ piece > Len(Pieces)
  /\ \/ /\ buffer' = "returned" /\ length' = offset + 1 /\ pc' = "sent"
        /\ items' = NoItems /\ UNCHANGED failures
     \/ OutOfMemory /\ pc' = "fail" /\ UNCHANGED <<buffer, length, items>>
  /\ UNCHANGED <<text, piece, frees, high, nul, width, offset, parser, wire>>

\* print's fail label; json_format returns NULL, and send_raw_data or
\* send_compress_data takes its strlen.
FailPrint ==
  /\ pc = "fail"
  /\ frees' = IF buffer = "live" THEN frees + 1 ELSE frees
  /\ items' = NoItems /\ pc' = "sender_crashed"
  /\ UNCHANGED <<failures, text, piece, buffer, high, nul, width, length, offset, parser, wire>>

-----------------------------------------------------------------------------
(* The way to the other end.  The buffer of receive_data has json_size     *)
(* bytes and no NUL: the parser's strlen goes on to the next one.          *)

\* The text with s in place of its k-th token.
ReplaceToken(old, k, s) == SubSeq(old, 1, k - 1) \o s \o SubSeq(old, k + 1, Len(old))

\* What strlen lets the parser see, the NUL included.
UpToNul(s) == SubSeq(s, 1, CHOOSE k \in DOMAIN s : s[k] = NUL /\ \A j \in 1 .. k - 1 : s[j] # NUL)

Receive(f, s) ==
  /\ fate' = f /\ content' = UpToNul(Append(s, NUL))
  /\ length' = Len(content') /\ offset' = 0 /\ pc' = "parse"
  /\ high' = 0 /\ nul' = 0 /\ width' = 0 /\ frees' = 0 /\ piece' = 1 /\ buffer' = "none"
  /\ text' = <<>>
  /\ UNCHANGED <<tree, parser, packet>>

Arrives == pc = "sent" /\ \E s \in Tails : Receive("whole", text \o s)

\* What a token that is cut in two leaves behind.
Stump(c) == CASE c.t = "str" -> {<<>>, <<Mark("bad")>>}
              [] c.t = "num" -> {<<>>, <<Num("stump")>>}
              [] OTHER -> {<<>>}

IsCut ==
  pc = "sent" /\ \E k \in DOMAIN text : \E s \in Stump(text[k]) :
    Receive("cut", SubSeq(text, 1, k - 1) \o s)

IsDamaged ==
  pc = "sent" /\ \E k \in DOMAIN text, s \in Damage, tail \in Tails :
    Receive("damaged", ReplaceToken(text, k, s) \o tail)

-----------------------------------------------------------------------------
(* cJSON_Parse.                                                            *)

Cell(o) == IF o < length THEN content[o + 1] ELSE NUL
Is(o, m) == o < length /\ content[o + 1].t = m
IsBlank(o) == Cell(o) \in {Blank, NUL}

\* Mutant: the position is left behind the last character.
SkipPast(o) ==
  IF o >= length THEN o
  ELSE CHOOSE e \in o .. length : /\ e < length => ~IsBlank(e)
                                  /\ \A k \in o .. e - 1 : IsBlank(k)

\* buffer_skip_whitespace: a NUL counts as white space, and at the end the
\* position is put back on the last character.
Skip(o) ==
  IF o >= length THEN o
  ELSE LET end == CHOOSE e \in o .. length : /\ e < length => ~IsBlank(e)
                                             /\ \A k \in o .. e - 1 : IsBlank(k)
       IN IF end = length THEN length - 1 ELSE end

\* The parser reads position o; Look: if it is inside the buffer.
Touch(o) == touched' = IF o > touched THEN o ELSE touched
Look(o) == Touch(IF o < length THEN o ELSE 0)

\* The item parse_value works on.
Here == IF stack = <<>> THEN <<>> ELSE Append(Last(stack).path, Last(stack).n)

\* The root item; skip_utf8_bom and white space.
StartParse ==
  /\ pc = "parse"
  /\ \/ /\ items' = WithItem(<<>>, Item("none", "", "")) /\ pc' = "value" /\ UNCHANGED failures
        /\ offset' = Skip(IF Is(0, "bom") /\ length > 2 THEN 1 ELSE 0)
     \/ OutOfMemory /\ pc' = "rejected" /\ UNCHANGED <<items, offset>>
  /\ UNCHANGED <<printer, length, parser, wire>>

Fails == pc' = "unwind" /\ UNCHANGED <<items, offset, stack, depth>>

\* parse_value with null, true, false, a string or a number.
Scalar ==
  /\ pc = "value" /\ \E m \in {"lit", "str", "num"} : Is(offset, m)
  /\ \/ /\ items' = [items EXCEPT ![Here] = Item(Cell(offset).t, @.key, Cell(offset).v)]
        /\ offset' = offset + 1 /\ pc' = "after" /\ UNCHANGED <<failures, stack, depth>>
     \/ Is(offset, "str") /\ OutOfMemory /\ Fails
  /\ Touch(offset)
  /\ UNCHANGED <<printer, length, wire>>

Closing == [object |-> "}", array |-> "]"]
Opening == [object |-> "{", array |-> "["]

\* parse_object and parse_array up to the first element.
Open(kind) ==
  LET first == Skip(offset + 1)
  IN /\ pc = "value" /\ Is(offset, Opening[kind]) /\ depth < NestingLimit
     /\ \/ /\ Is(first, Closing[kind])
           /\ items' = [items EXCEPT ![Here] = Item(kind, @.key, "")]
           /\ offset' = first + 1 /\ pc' = "after" /\ UNCHANGED <<stack, depth>>
        \/ /\ ~Is(first, Closing[kind])
           /\ IF first < length
              THEN /\ stack' = Append(stack, [path |-> Here, kind |-> kind, n |-> 0])
                   /\ depth' = depth + 1 /\ offset' = first - 1 /\ pc' = "element"
                   /\ UNCHANGED items
              ELSE Fails
     /\ Look(first)
     /\ UNCHANGED <<failures, printer, length, wire>>

\* No value, or nested too deeply.
NoValue ==
  /\ pc = "value"
  /\ ~\E m \in {"lit", "str", "num"} : Is(offset, m)
  /\ (\E kind \in DOMAIN Opening : Is(offset, Opening[kind])) => depth >= NestingLimit
  /\ Fails /\ Look(offset)
  /\ UNCHANGED <<failures, printer, length, wire>>

\* The next item is hung behind the last one.
Hang(key) ==
  /\ items' = WithItem(Append(Last(stack).path, Last(stack).n + 1), Item("none", key, ""))
  /\ stack' = [stack EXCEPT ![Len(stack)].n = @ + 1]

\* The next element of an array.
Element ==
  LET start == Skip(offset + 1)
  IN /\ pc = "element" /\ Last(stack).kind = "array"
     /\ \/ Hang("") /\ pc' = "value" /\ offset' = start /\ UNCHANGED failures
        \/ OutOfMemory /\ pc' = "unwind" /\ UNCHANGED <<items, stack, offset>>
     /\ Look(start)
     /\ UNCHANGED <<printer, length, depth, wire>>

\* The next member of an object: its name, for which parse_string allocates, a
\* colon, and the place of its value.
Member ==
  LET start == Skip(offset + 1)
      colon == Skip(start + 1)
      name == Is(start, "str")
  IN /\ pc = "element" /\ Last(stack).kind = "object"
     /\ \/ /\ name /\ Is(colon, ":") /\ Hang(Cell(start).v)
           /\ pc' = "value" /\ offset' = Skip(colon + 1) /\ UNCHANGED failures
        \/ /\ name /\ ~Is(colon, ":") /\ Hang(Cell(start).v)
           /\ pc' = "unwind" /\ offset' = start /\ UNCHANGED failures
        \/ /\ ~name /\ Hang("")
           /\ pc' = "unwind" /\ offset' = start /\ UNCHANGED failures
        \/ name /\ OutOfMemory /\ Hang("") /\ pc' = "unwind" /\ offset' = start
        \/ OutOfMemory /\ pc' = "unwind" /\ UNCHANGED <<items, stack, offset>>
     /\ Touch(start)
     /\ UNCHANGED <<printer, length, depth, wire>>

\* Mutant: the end of the text closes what is open.
ClosesAtEnd(o, kind) == Is(o, Closing[kind]) \/ Is(o, "nul")

Closes(o, kind) == Is(o, Closing[kind])

\* After a value: the next element, the end of the list, or neither.
After ==
  LET f == Last(stack)
      o == Skip(offset)
  IN /\ pc = "after" /\ stack # <<>>
     /\ \/ Is(o, ",") /\ pc' = "element" /\ offset' = o /\ UNCHANGED <<items, stack, depth>>
        \/ /\ Closes(o, f.kind)
           /\ items' = [items EXCEPT ![f.path] = Item(f.kind, @.key, "")]
           /\ stack' = Front(stack) /\ depth' = depth - 1 /\ offset' = o + 1 /\ pc' = "after"
        \/ ~Is(o, ",") /\ ~Closes(o, f.kind) /\ Fails
     /\ Look(o)
     /\ UNCHANGED <<failures, printer, length, wire>>

\* Mutant of Unwind: a call that fails leaves its list to the caller.
UnwindLeaves ==
  /\ pc = "unwind" /\ stack # <<>>
  /\ stack' = Front(stack)
  /\ UNCHANGED <<pc, items, failures, printer, length, offset, depth, touched, wire>>

\* fail: in parse_object or parse_array, whose list the item does not hold yet.
Unwind ==
  /\ pc = "unwind" /\ stack # <<>>
  /\ items' = WithoutChildren(Last(stack).path)
  /\ stack' = Front(stack)
  /\ UNCHANGED <<pc, failures, printer, length, offset, depth, touched, wire>>

\* fail: in cJSON_ParseWithLengthOpts; the root holds no list.
Reject ==
  /\ pc = "unwind" /\ stack = <<>>
  /\ items' = [q \in DOMAIN items \ {<<>>} |-> items[q]]
  /\ pc' = "rejected"
  /\ UNCHANGED <<failures, printer, length, offset, parser, wire>>

Accepted == pc = "after" /\ stack = <<>>

-----------------------------------------------------------------------------
(* json_unformat.                                                          *)

Fold == [k \in {"MESSAGE"} |-> "message"]
Lower(k) == IF k \in DOMAIN Fold THEN Fold[k] ELSE k

\* cJSON_GetObjectItem: the first member of that name in whatever capitals.
Find(name) ==
  LET named == {k \in {q[1] : q \in Children(<<>>)} : Lower(items[<<k>>].key) = name}
  IN IF named = {} THEN Item("absent", "", "")
     ELSE items[<<CHOOSE k \in named : \A j \in named : k <= j>>]

Double(i) == IF i.kind = "num" THEN i.val ELSE "0"

\* The members are used without a look whether they are there.
Unformat ==
  /\ Accepted
  /\ IF Find("message").kind = "str" /\ \A k \in 2 .. 3 : Find(Members[k]).kind # "absent"
     THEN /\ packet' = [message |-> Find("message").val,
                        crc_checksum |-> Double(Find("crc_checksum")),
                        flag_last |-> Double(Find("flag_last"))]
          /\ items' = NoItems /\ pc' = "done"
     ELSE pc' = "receiver_crashed" /\ UNCHANGED <<items, packet>>
  /\ UNCHANGED <<failures, printer, length, offset, parser, content, fate>>

\* cJSON_GetObjectItem(NULL, ...) is NULL, and its valuestring is read.
UnformatNothing ==
  /\ pc = "rejected" /\ pc' = "receiver_crashed"
  /\ UNCHANGED <<tree, printer, length, offset, parser, wire>>

Ended == pc \in {"done", "sender_crashed", "receiver_crashed"} /\ UNCHANGED vars

Format ==
  \/ CreateObject \/ (\E k \in DOMAIN Members : AddMember(k))
  \/ StartPrint \/ PrintPiece \/ NoRoom \/ ReallocFails \/ FinishPrint \/ FailPrint

Travel == Arrives \/ IsCut \/ IsDamaged

Parse ==
  \/ StartParse \/ Scalar \/ (\E kind \in DOMAIN Opening : Open(kind)) \/ NoValue
  \/ Element \/ Member \/ After \/ Unwind \/ Reject

Next == Format \/ Travel \/ Parse \/ Unformat \/ UnformatNothing \/ Ended

Spec == Init /\ [][Next]_vars

-----------------------------------------------------------------------------

\* Every variable has its type; the items are a tree whose lists have no gaps,
\* and the calls under way are for items that are there, each inside the one
\* before it.
TypeOK ==
  /\ width \in Widths \union {0} /\ failures \in 0 .. MaxFailures
  /\ {length, offset, high, nul, frees, touched, piece} \subseteq Nat
  /\ buffer \in {"none", "live", "null", "returned"}
  /\ fate \in {"none", "whole", "cut", "damaged"} /\ depth \in 0 .. NestingLimit
  /\ \A q \in DOMAIN items :
       /\ items[q].kind \in {"none", "object", "array", "str", "num", "lit"}
       /\ q # <<>> => Front(q) \in DOMAIN items
       /\ q # <<>> /\ Last(q) > 1 => Append(Front(q), Last(q) - 1) \in DOMAIN items
  /\ pc \in {"value", "element", "after"} => Len(stack) = depth
  /\ \A k \in DOMAIN stack :
       /\ stack[k].path \in DOMAIN items
       /\ stack[k].n = Cardinality(Children(stack[k].path))
       /\ k > 1 => stack[k].path = Append(stack[k - 1].path, stack[k - 1].n)

\* No piece of the text is written past the buffer ensure returned for it, the
\* NUL included, however often the buffer has grown (cJSON.c:461-486).
PrintFits == pc = "pieces" => high < length

\* Where each of the pieces ps ends.
Ends(ps) ==
  LET end[k \in 0 .. Len(ps)] == IF k = 0 THEN 0 ELSE end[k - 1] + ps[k].bytes IN end

\* The offset update_offset finds by the NUL is where the pieces printed so far
\* end: nothing is printed over, nothing is skipped (cJSON.c:524-535), and the
\* text that is returned has its NUL and no byte more.
OffsetCounts ==
  /\ pc = "pieces" => offset = Ends(Pieces)[piece - 1]
  /\ pc = "sent" => nul = offset /\ length = offset + 1

\* The print buffer is freed once when printing fails, by ensure or by print,
\* and not at all when it is returned (cJSON.c:489-500, 1237-1241).
BufferFreedOnce ==
  /\ pc = "sender_crashed" => frees = IF buffer \in {"live", "null"} THEN 1 ELSE 0
  /\ pc = "sent" => frees = 0

\* The parser reads nothing behind the NUL, whatever it is given
\* (cJSON.c:1045-1058, 1460-1471, 1619-1629, 1684-1689).
ReadsInBounds == fate # "none" => touched < length

\* Printer and parser stay inside their buffers, and the one counts what it has
\* written (cJSON.c:445-535, 1045-1058).
InBounds == PrintFits /\ OffsetCounts /\ ReadsInBounds

\* Neither a failed allocation nor a text of whatever form leaves an item
\* behind: the trees of both ends are gone when their owners are through
\* (middle.c:288, 301; cJSON.c:1143-1146, 1529-1533, 1704-1708).
NoLeak == pc \in {"sent", "sender_crashed", "rejected", "done"} => items = NoItems

\* Whatever fails, all memory is freed once at both ends (middle.c:288, 301).
FreedOnce == BufferFreedOnce /\ NoLeak

\* An undamaged packet comes out as it went in, whatever lies in memory behind
\* a text that has no NUL of its own (middle.c:131, 294-301), unless memory
\* ran out at one end.
ArrivesWhole ==
  fate = "whole" /\ failures = 0 =>
    /\ pc \notin {"unwind", "rejected", "receiver_crashed"}
    /\ pc = "done" => packet = [message |-> "text", crc_checksum |-> "crc", flag_last |-> "last"]

\* A text that was cut short is never accepted: recv without MSG_WAITALL cannot
\* make a shorter packet of one (middle.c:139, cJSON.c:1684-1689).
CutRejected == fate = "cut" => ~Accepted /\ pc # "done"

\* A packet arrives as it was or, cut short, not at all (middle.c:278-302).
WholeOrNothing == ArrivesWhole /\ CutRejected

=============================================================================
