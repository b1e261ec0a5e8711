---------------------------- MODULE MCJsonString ----------------------------
(***************************************************************************)
(* JsonString for every text of up to three characters of nine kinds, and  *)
(* for every input of a quote and up to four pieces of eight kinds, with   *)
(* and without a closing quote: pieces are put together so that escapes    *)
(* are cut short, follow each other and hide quotes.                       *)
(***************************************************************************)
EXTENDS JsonString

CONSTANTS MaxText, MaxPieces, MaxHidden

\* a, quote, backslash, /, newline, 0x01, 0x0b, 0x1f, a byte of a UTF-8 character
Characters == {97, QUOTE, BACKSLASH, 47, 10, 1, 11, 31, 195}

MCTexts == BoundedSeq(Characters, MaxText)

\* quote, backslash, a, n, \u, and the digits D83D, DE00 and 20ac
Pieces == {<<QUOTE>>, <<BACKSLASH>>, <<97>>, <<110>>, <<BACKSLASH, U>>,
           <<68, 56, 51, 68>>, <<68, 69, 48, 48>>, <<50, 48, 97, 99>>}

\* A \u that swallows what hides a quote: single characters after it.
Hiding == {<<BACKSLASH, U>> \o c : c \in BoundedSeq({QUOTE, BACKSLASH, 97, 110}, MaxHidden)}

Literals == {FlattenSeq(p) : p \in BoundedSeq(Pieces, MaxPieces)} \union Hiding

MCInputs == {<<QUOTE>> \o l \o e : l \in Literals, e \in {<<NUL>>, <<QUOTE, NUL>>}}
              \union {<<BACKSLASH, QUOTE, NUL>>}

=============================================================================
