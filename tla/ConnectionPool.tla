--------------------------- MODULE ConnectionPool ---------------------------
(***************************************************************************)
(* What the database pool promises its users: at most MaxConnections of    *)
(* them are working at a time, and one that works was let in.              *)
(***************************************************************************)
EXTENDS Naturals, FiniteSets

CONSTANTS Thread, MaxConnections
VARIABLE using                          \* the threads that hold a connection

Init == using = {}

Acquire(t) == /\ t \notin using /\ Cardinality(using) < MaxConnections
              /\ using' = using \cup {t}
Release(t) == t \in using /\ using' = using \ {t}

Next == \E t \in Thread : Acquire(t) \/ Release(t)
Spec == Init /\ [][Next]_using
=============================================================================
