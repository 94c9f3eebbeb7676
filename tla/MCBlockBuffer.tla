---------------------------- MODULE MCBlockBuffer ----------------------------
(* Instances of BlockBuffer for TLC: two blocks fill a buffer, but five    *)
(* are the least for which DW has a choice of victim, and five reads the   *)
(* least after which it has read everything it chooses from; of three      *)
(* blocks DW looks at none.                                                *)
EXTENDS BlockBuffer

Sizes      == [s \in Strategy |-> IF s = "DW" THEN {3, 5} ELSE {2}]
WriteBound == [s \in Strategy |-> IF s = "DW" THEN 6 ELSE 4]
ReadBound  == [s \in Strategy |-> IF s = "DW" THEN 5 ELSE 3]
Symmetry   == Permutations(Block)
=============================================================================
