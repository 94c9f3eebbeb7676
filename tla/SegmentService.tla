--------------------------- MODULE SegmentService ---------------------------
(***************************************************************************)
(* What the delivery of segments promises, without server, directory,      *)
(* messages or bandwidth: a client plays a segment it holds, or wants one  *)
(* it does not hold, gets it from exactly one source - a peer that really  *)
(* holds it, or the server - stores it, and is credited with one block     *)
(* from that source.                                                       *)
(***************************************************************************)
EXTENDS Naturals, FiniteSets

CONSTANTS Client, Segment,
          Capacity,     \* blocks a client can hold
          None          \* no segment wanted

VARIABLES want,         \* the segment each client waits for, or None
          source,       \* where it comes from: "clients", "server" or "none"
          held,         \* the segments each client holds
          tally         \* blocks each client got from its buffer, the server, clients
vars == <<want, source, held, tally>>

Init ==
    /\ want = [c \in Client |-> None]
    /\ source = [c \in Client |-> "none"]
    /\ held = [c \in Client |-> {}]
    /\ tally = [c \in Client |-> [buf |-> 0, server |-> 0, clients |-> 0]]

PlayOwn(c) ==
    /\ want[c] = None /\ held[c] # {}
    /\ tally' = [tally EXCEPT ![c].buf = @ + 1]
    /\ UNCHANGED <<want, source, held>>

Ask(c, s) ==
    /\ want[c] = None /\ s \notin held[c]
    /\ want' = [want EXCEPT ![c] = s]
    /\ UNCHANGED <<source, held, tally>>

TakeFromPeer(c) ==
    /\ want[c] # None /\ source[c] = "none"
    /\ \E p \in Client \ {c} : want[c] \in held[p]
    /\ source' = [source EXCEPT ![c] = "clients"]
    /\ UNCHANGED <<want, held, tally>>

TakeFromServer(c) ==
    /\ want[c] # None /\ source[c] = "none"
    /\ source' = [source EXCEPT ![c] = "server"]
    /\ UNCHANGED <<want, held, tally>>

(* Room is made only when there is none. *)
MakeRoom(c) ==
    /\ source[c] # "none" /\ Cardinality(held[c]) = Capacity
    /\ \E v \in held[c] : held' = [held EXCEPT ![c] = @ \ {v}]
    /\ UNCHANGED <<want, source, tally>>

Store(c) ==
    /\ source[c] # "none" /\ want[c] \notin held[c]
    /\ Cardinality(held[c]) < Capacity
    /\ held' = [held EXCEPT ![c] = @ \cup {want[c]}]
    /\ UNCHANGED <<want, source, tally>>

Finish(c) ==
    /\ source[c] # "none" /\ want[c] \in held[c]
    /\ tally' = [tally EXCEPT ![c][source[c]] = @ + 1]
    /\ want' = [want EXCEPT ![c] = None]
    /\ source' = [source EXCEPT ![c] = "none"]
    /\ UNCHANGED held

Next == \E c \in Client :
            \/ PlayOwn(c) \/ \E s \in Segment : Ask(c, s)
            \/ TakeFromPeer(c) \/ TakeFromServer(c)
            \/ MakeRoom(c) \/ Store(c) \/ Finish(c)

Spec == Init /\ [][Next]_vars
=============================================================================
