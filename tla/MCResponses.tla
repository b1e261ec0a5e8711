----------------------------- MODULE MCResponses -----------------------------
(***************************************************************************)
(* Responses with two clients of any two types, one of them B, whose       *)
(* packets differ in size, two commands of the one and one of the other,   *)
(* and outputs of no byte, one byte and three.                             *)
(***************************************************************************)
EXTENDS Responses

CONSTANTS w1, w2

MCWorkers == {w1, w2}
MCTypes == {t \in [MCWorkers -> {"A", "B", "C"}] : t[w1] = "B"}
MCCommands == [w \in MCWorkers |-> IF w = w1 THEN 2 ELSE 1]
MCSizes == {0, 1, 3}
MCBulk == [w \in MCWorkers |-> IF w = w1 THEN 1 ELSE 2]

=============================================================================
