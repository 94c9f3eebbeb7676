------------------------------ MODULE MysqlPool ------------------------------
(***************************************************************************)
(* The connection pool of the server (MYSQLPool.cpp): the server's threads *)
(* take a connection for each SQL statement and put it back; a keep-alive  *)
(* thread closes what exceeds the minimum.  The pool's mutex makes each    *)
(* critical section one action; pthread_cond_wait splits getConnection at  *)
(* the wait, and the woken thread competes for the mutex like any other.   *)
(* The destructor is not modelled: the server never deletes its pool.      *)
(***************************************************************************)
EXTENDS Naturals, Sequences, FiniteSets

CONSTANTS
    Thread,          \* the server's threads
    MinConnections,  \* opened at the start, kept by keepPoolAlive
    MaxConnections,  \* never exceeded
    MaxQueries       \* bound: statements a thread executes

ASSUME PoolAssumption ==
    /\ IsFiniteSet(Thread)
    /\ MaxConnections \in Nat \ {0}
    /\ MinConnections \in 0..MaxConnections
    /\ MaxQueries \in Nat

Connection == 1..(MaxConnections + 1)  \* addresses an open connection may have
NULL == 0

VARIABLES
    pool_deque,          \* the idle connections, taken at the front
    pooledConnections,   \* connections opened and not closed
    con,                 \* the connection of a thread that has one
    pc,                  \* ready, waiting on cond, woken, or query
    queries,             \* statements started (bounded by MaxQueries)
    up                   \* FALSE once a NULL connection was used
vars == <<pool_deque, pooledConnections, con, pc, queries, up>>

Using   == {t \in Thread : pc[t] = "query"}
Waiting == {t \in Thread : pc[t] = "waiting"}
Woken   == {t \in Thread : pc[t] = "woken"}
Idle    == {pool_deque[i] : i \in DOMAIN pool_deque}
Open    == Idle \cup {con[t] : t \in Using}

-----------------------------------------------------------------------------
(* Faults: each a plausible bug in the operator named beside it.           *)
WaitWhenOver == pool_deque = <<>> /\ pooledConnections > MaxConnections  \* MustWait
SignalNobody(p) == pc' = p                                              \* WakeOne
TakeCopy(t) == /\ con' = [con EXCEPT ![t] = Head(pool_deque)]           \* TakeIdle
               /\ UNCHANGED pool_deque
CountNothing == UNCHANGED pooledConnections                             \* CountOpened

-----------------------------------------------------------------------------
(* The constructor opens MinConnections, those the database lets it open.  *)
Init ==
    /\ \E n \in 0..MinConnections : /\ pool_deque = [i \in 1..n |-> i]
                                    /\ pooledConnections = n
    /\ con = [t \in Thread |-> NULL]
    /\ pc = [t \in Thread |-> "ready"]
    /\ queries = [t \in Thread |-> 0]
    /\ up = TRUE

MustWait == pool_deque = <<>> /\ pooledConnections = MaxConnections

TakeIdle(t) == /\ con' = [con EXCEPT ![t] = Head(pool_deque)]
               /\ pool_deque' = Tail(pool_deque)

CountOpened == pooledConnections' = pooledConnections + 1

(* The body of getConnection under the mutex, run on entry and again after *)
(* each wake-up: wait, take an idle connection, or open one.               *)
Wait(t) ==
    /\ MustWait
    /\ pc' = [pc EXCEPT ![t] = "waiting"]
    /\ UNCHANGED <<pool_deque, pooledConnections, con, up>>
TakePooled(t) ==
    /\ ~MustWait /\ pool_deque # <<>>
    /\ TakeIdle(t)
    /\ pc' = [pc EXCEPT ![t] = "query"]
    /\ UNCHANGED <<pooledConnections, up>>
OpenNew(t) ==
    /\ ~MustWait /\ pool_deque = <<>>
    /\ \E c \in Connection \ Open : con' = [con EXCEPT ![t] = c]
    /\ CountOpened
    /\ pc' = [pc EXCEPT ![t] = "query"]
    /\ UNCHANGED <<pool_deque, up>>
(* createConnection returns NULL when the database refuses; no caller      *)
(* tests for it, and calling through it ends the process.  (A connection   *)
(* whose setSchema throws is leaked first, which then no longer matters.)  *)
OpenRefused(t) ==
    /\ ~MustWait /\ pool_deque = <<>>
    /\ up' = FALSE
    /\ UNCHANGED <<pool_deque, pooledConnections, con, pc>>
Obtain(t) == Wait(t) \/ TakePooled(t) \/ OpenNew(t) \/ OpenRefused(t)

GetConnection(t) ==
    /\ pc[t] = "ready" /\ queries[t] < MaxQueries
    /\ queries' = [queries EXCEPT ![t] = @ + 1]
    /\ Obtain(t)

Resume(t) ==
    /\ pc[t] = "woken"
    /\ Obtain(t)
    /\ UNCHANGED queries

(* pthread_cond_wait may return without a signal. *)
SpuriousWakeup(t) ==
    /\ pc[t] = "waiting"
    /\ pc' = [pc EXCEPT ![t] = "woken"]
    /\ UNCHANGED <<pool_deque, pooledConnections, con, queries, up>>

(* pthread_cond_signal: one waiting thread, if there is one. *)
WakeOne(p) == LET W == {t \in Thread : p[t] = "waiting"}
              IN IF W = {} THEN pc' = p
                 ELSE \E t \in W : pc' = [p EXCEPT ![t] = "woken"]

(* Every query function puts its connection back, also after an exception. *)
ReleaseConnection(t) ==
    /\ pc[t] = "query"
    /\ pool_deque' = Append(pool_deque, con[t])
    /\ con' = [con EXCEPT ![t] = NULL]
    /\ WakeOne([pc EXCEPT ![t] = "ready"])
    /\ UNCHANGED <<pooledConnections, queries, up>>

(* One round of keepPoolAlive: close from the front what exceeds the       *)
(* minimum; the pings that follow change nothing.                          *)
KeepPoolAlive ==
    LET n == Len(pool_deque)
    IN /\ n > MinConnections
       /\ pool_deque' = SubSeq(pool_deque, n - MinConnections + 1, n)
       /\ pooledConnections' = pooledConnections - (n - MinConnections)
       /\ UNCHANGED <<con, pc, queries, up>>

-----------------------------------------------------------------------------
ThreadStep(t) == up /\ (GetConnection(t) \/ Resume(t) \/ ReleaseConnection(t))
Next == \/ \E t \in Thread : ThreadStep(t) \/ (up /\ SpuriousWakeup(t))
        \/ up /\ KeepPoolAlive
Spec == Init /\ [][Next]_vars

(* A thread that is not waiting keeps running, and a statement ends. *)
FairSpec == Spec /\ \A t \in Thread : WF_vars(ThreadStep(t))

-----------------------------------------------------------------------------
(* Every variable holds a value of its type. *)
TypeOK ==
    /\ pool_deque \in Seq(Connection)
    /\ pooledConnections \in Nat
    /\ con \in [Thread -> Connection \cup {NULL}]
    /\ pc \in [Thread -> {"ready", "waiting", "woken", "query"}]
    /\ queries \in [Thread -> Nat]
    /\ up \in BOOLEAN

(* An open connection is idle in one place or works for one thread: two    *)
(* threads never share one, and keep-alive never closes one in use.        *)
OneOwner ==
    /\ \A i, j \in DOMAIN pool_deque : pool_deque[i] = pool_deque[j] => i = j
    /\ \A t \in Using : con[t] \in Connection \ Idle
    /\ \A t, u \in Using : con[t] = con[u] => t = u

(* The counter getConnection decides by is the number of open connections, *)
(* and never exceeds the maximum.                                          *)
CountsOpen ==
    /\ pooledConnections = Len(pool_deque) + Cardinality(Using)
    /\ pooledConnections <= MaxConnections

(* No wake-up is lost: while a thread waits, the threads that will release *)
(* a connection or look again are as many as there are connections.        *)
NoLostSignal ==
    Waiting # {} => Cardinality(Using) + Cardinality(Woken) >= MaxConnections

(* The inductive invariant: no part is inductive without the others. *)
IInv == TypeOK /\ OneOwner /\ CountsOpen /\ NoLostSignal

(* The pool is a semaphore of MaxConnections over its users. *)
Semaphore == INSTANCE ConnectionPool WITH using <- Using
SemaphoreRefined == Semaphore!Spec

(* A thread that waits for a connection gets one, unless the process ends. *)
WaiterServed == \A t \in Thread : pc[t] = "waiting" ~> (pc[t] = "query" \/ ~up)
=============================================================================
