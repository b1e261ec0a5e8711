----------------------------- MODULE MCJsonText -----------------------------
(***************************************************************************)
(* JsonText with messages of every width, so that the print buffer grows   *)
(* at every piece, up to some beyond INT_MAX; one allocation that may fail *)
(* anywhere; and texts cut anywhere, or with any token replaced by up to   *)
(* two others.                                                             *)
(***************************************************************************)
EXTENDS JsonText

CONSTANT MaxDamage

MCWidths == 2 .. 50

Tokens == {Mark(m) : m \in {"{", "}", "[", "]", ",", ":", "ws", "nul", "bad", "bom", "lit"}}
            \union {Str("text"), Str("message"), Str("MESSAGE"), Num("other")}

MCDamage == BoundedSeq(Tokens, MaxDamage)

MCTails == {<<>>, <<Mark("}")>>, <<Mark("bad"), Mark("{")>>}

=============================================================================
