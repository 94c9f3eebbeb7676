--------------------------- MODULE MCManagerStream ---------------------------
(* Instances of ManagerStream for TLC. *)
EXTENDS ManagerStream

(* Client 0's video has any number, those of the message types among them. *)
AnyVideo == {l \in [Client -> File] : l[1] = 9}

ThreeAndOne == [c \in Client |-> IF c = 0 THEN 3 ELSE 1]
=============================================================================
