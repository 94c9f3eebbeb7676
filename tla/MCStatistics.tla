---------------------------- MODULE MCStatistics ----------------------------
(* Instances of Statistics for TLC. *)
EXTENDS Statistics

TwoAndOne == [c \in Client |-> IF c = 0 THEN 2 ELSE 1]
=============================================================================
