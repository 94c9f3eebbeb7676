-------------------------------- MODULE Buffer --------------------------------
(***************************************************************************)
(* What every replacement strategy promises the rest of the client: blocks *)
(* come and go one at a time, a block goes only when there is no room, and *)
(* the server is told of each change before the next is made.              *)
(***************************************************************************)
EXTENDS Naturals, FiniteSets

CONSTANT Block
VARIABLES capacity,    \* blocks there is room for
          held,        \* blocks in the buffer
          told         \* blocks the server was told the buffer has
vars == <<capacity, held, told>>

Init == capacity \in Nat \ {0} /\ held = {} /\ told = {}

Evict(b) == /\ told = held /\ b \in held /\ Cardinality(held) = capacity
            /\ held' = held \ {b} /\ UNCHANGED <<capacity, told>>
Add(b)   == /\ told = held /\ b \notin held /\ Cardinality(held) < capacity
            /\ held' = held \cup {b} /\ UNCHANGED <<capacity, told>>
Tell     == told # held /\ told' = held /\ UNCHANGED <<capacity, held>>

Next == Tell \/ \E b \in Block : Evict(b) \/ Add(b)
Spec == Init /\ [][Next]_vars
=============================================================================
