-------------------------- MODULE MysqlPoolProofs ---------------------------
(***************************************************************************)
(* Proofs about MysqlPool, for every finite set of threads and every       *)
(* minimum and maximum number of connections.                              *)
(***************************************************************************)
EXTENDS MysqlPool, FiniteSetTheorems, SequenceTheorems, TLAPS

(* The sets of threads the properties count are finite. *)
LEMMA Finite ==
    /\ IsFiniteSet(Using) /\ IsFiniteSet(Waiting) /\ IsFiniteSet(Woken)
    /\ Cardinality(Using) \in Nat /\ Cardinality(Woken) \in Nat
<1>1. Using \in SUBSET Thread /\ Waiting \in SUBSET Thread /\ Woken \in SUBSET Thread
  BY DEF Using, Waiting, Woken
<1>2. IsFiniteSet(Using) /\ IsFiniteSet(Waiting) /\ IsFiniteSet(Woken)
  BY <1>1, FS_Subset, PoolAssumption
<1> QED
  BY <1>2, FS_CardinalityType

(* What a step is to the invariant: a thread that is ready or woken looks  *)
(* for a connection, a waiting one is woken for no reason, one puts its    *)
(* connection back, or the surplus is closed.                              *)
LEMMA Steps ==
    ASSUME [Next]_vars
    PROVE  \/ \E t \in Thread : pc[t] \in {"ready", "woken"} /\ Obtain(t)
           \/ \E t \in Thread : SpuriousWakeup(t) \/ ReleaseConnection(t)
           \/ KeepPoolAlive
           \/ UNCHANGED <<pool_deque, pooledConnections, con, pc, up>>
BY DEF Next, ThreadStep, GetConnection, Resume, vars

(* The thread that goes to use a connection leaves the woken threads, if   *)
(* it was one, and no other thread moves.                                  *)
LEMMA GoesToUse ==
    ASSUME TypeOK, NEW t \in Thread, pc[t] \in {"ready", "woken"},
           pc' = [pc EXCEPT ![t] = "query"]
    PROVE  /\ Using' = Using \cup {t} /\ t \notin Using
           /\ Waiting' = Waiting /\ Woken' = Woken \ {t}
           /\ Cardinality(Using') = Cardinality(Using) + 1
           /\ Cardinality(Using') + Cardinality(Woken') >= Cardinality(Using) + Cardinality(Woken)
<1>1. Using' = Using \cup {t} /\ t \notin Using /\ Waiting' = Waiting /\ Woken' = Woken \ {t}
  BY DEF TypeOK, Using, Waiting, Woken
<1>2. Cardinality(Using \cup {t}) = Cardinality(Using) + 1
  BY <1>1, Finite, FS_AddElement
<1>3. Cardinality(Woken \ {t}) >= Cardinality(Woken) - 1
  BY Finite, FS_RemoveElement
<1>4. Cardinality(Woken \ {t}) \in Nat
  BY Finite, FS_RemoveElement, FS_CardinalityType
<1> QED
  BY <1>1, <1>2, <1>3, <1>4, Finite

(* WakeOne, after t has put its connection back: t uses none, and either   *)
(* nobody waits or one more thread is woken.                               *)
LEMMA PutsBack ==
    ASSUME TypeOK, NEW t \in Thread, pc[t] = "query",
           WakeOne([pc EXCEPT ![t] = "ready"])
    PROVE  /\ pc' \in [Thread -> {"ready", "waiting", "woken", "query"}]
           /\ Using' = Using \ {t}
           /\ Cardinality(Using') = Cardinality(Using) - 1
           /\ \/ Waiting' = {}
              \/ Cardinality(Woken') = Cardinality(Woken) + 1 /\ Waiting' \subseteq Waiting
<1> DEFINE p == [pc EXCEPT ![t] = "ready"]
<1>1. Cardinality(Using \ {t}) = Cardinality(Using) - 1
  <2>1. t \in Using
    BY DEF Using
  <2> QED
    BY <2>1, Finite, FS_RemoveElement
<1>2. CASE pc' = p /\ {u \in Thread : p[u] = "waiting"} = {}
  <2>1. Using' = Using \ {t} /\ Waiting' = {}
    BY <1>2 DEF TypeOK, Using, Waiting
  <2> QED
    BY <1>1, <1>2, <2>1 DEF TypeOK
<1>3. ASSUME NEW u \in Thread, p[u] = "waiting", pc' = [p EXCEPT ![u] = "woken"]
      PROVE  /\ pc' \in [Thread -> {"ready", "waiting", "woken", "query"}]
             /\ Using' = Using \ {t}
             /\ Cardinality(Using') = Cardinality(Using) - 1
             /\ Cardinality(Woken') = Cardinality(Woken) + 1 /\ Waiting' \subseteq Waiting
  <2>1. /\ pc' \in [Thread -> {"ready", "waiting", "woken", "query"}]
        /\ Using' = Using \ {t}
        /\ Woken' = Woken \cup {u} /\ u \notin Woken
        /\ Waiting' \subseteq Waiting
    BY <1>3 DEF TypeOK, Using, Waiting, Woken
  <2>2. Cardinality(Woken \cup {u}) = Cardinality(Woken) + 1
    BY <2>1, Finite, FS_AddElement
  <2> QED
    BY <1>1, <2>1, <2>2
<1> QED
  BY <1>2, <1>3 DEF WakeOne

-----------------------------------------------------------------------------
LEMMA InvInit == Init => IInv
<1> SUFFICES ASSUME Init PROVE IInv
  OBVIOUS
<1>1. PICK n \in 0..MinConnections : /\ pool_deque = [i \in 1..n |-> i]
                                     /\ pooledConnections = n
  BY DEF Init
<1>2. n \in Nat /\ n <= MaxConnections /\ 1..n \subseteq Connection
  BY PoolAssumption DEF Connection
<1>3. pool_deque \in Seq(Connection) /\ Len(pool_deque) = n
  BY <1>1, <1>2
<1>4. TypeOK
  BY <1>1, <1>2, <1>3 DEF TypeOK, Init
<1>5. Using = {} /\ Waiting = {}
  BY DEF Init, Using, Waiting
<1>6. OneOwner
  BY <1>1, <1>5 DEF OneOwner
<1>7. CountsOpen
  BY <1>1, <1>2, <1>3, <1>5, FS_EmptySet DEF CountsOpen
<1>8. NoLostSignal
  BY <1>5 DEF NoLostSignal
<1> QED
  BY <1>4, <1>6, <1>7, <1>8 DEF IInv

(* A thread that finds nothing idle and the maximum open goes to wait: the *)
(* connections are then all in use.                                        *)
LEMMA WaitStep ==
    ASSUME IInv, NEW t \in Thread, pc[t] \in {"ready", "woken"}, Wait(t), queries' \in [Thread -> Nat]
    PROVE  IInv'
<1>1. TypeOK'
  BY DEF IInv, TypeOK, Wait
<1>2. Using' = Using
  BY DEF IInv, TypeOK, Wait, Using
<1>3. OneOwner'
  BY <1>2 DEF IInv, OneOwner, Wait, Idle
<1>4. CountsOpen'
  BY <1>2 DEF IInv, CountsOpen, Wait
<1>5. NoLostSignal'
  <2>1. Cardinality(Using) = MaxConnections
    BY Finite, PoolAssumption DEF IInv, CountsOpen, Wait, MustWait
  <2>2. IsFiniteSet(Woken')
    <3>1. Woken' \in SUBSET Thread
      BY DEF Woken
    <3> QED
      BY <3>1, FS_Subset, PoolAssumption
  <2>3. Cardinality(Woken') \in Nat
    BY <2>2, FS_CardinalityType
  <2> QED
    BY <1>2, <2>1, <2>3, PoolAssumption DEF NoLostSignal
<1> QED
  BY <1>1, <1>3, <1>4, <1>5 DEF IInv

LEMMA TakeStep ==
    ASSUME IInv, NEW t \in Thread, pc[t] \in {"ready", "woken"}, TakePooled(t),
           queries' \in [Thread -> Nat]
    PROVE  IInv'
<1> USE DEF TakePooled, TakeIdle
<1>1. /\ Head(pool_deque) = pool_deque[1] /\ pool_deque[1] \in Connection
      /\ pool_deque' \in Seq(Connection) /\ Len(pool_deque') = Len(pool_deque) - 1
      /\ Len(pool_deque) \in Nat \ {0}
      /\ \A i \in 1..Len(pool_deque') : pool_deque'[i] = pool_deque[i + 1]
  BY HeadTailProperties DEF IInv, TypeOK
<1>2. TypeOK'
  BY <1>1 DEF IInv, TypeOK
<1>3. /\ Using' = Using \cup {t} /\ t \notin Using
      /\ Waiting' = Waiting /\ Woken' = Woken \ {t}
      /\ Cardinality(Using') = Cardinality(Using) + 1
      /\ Cardinality(Using') + Cardinality(Woken') >= Cardinality(Using) + Cardinality(Woken)
  BY GoesToUse DEF IInv
<1>4. OneOwner'
  <2>1. \A i, j \in DOMAIN pool_deque : pool_deque[i] = pool_deque[j] => i = j
    BY DEF IInv, OneOwner
  <2>2. DOMAIN pool_deque = 1..Len(pool_deque) /\ DOMAIN pool_deque' = 1..Len(pool_deque')
    BY <1>1 DEF IInv, TypeOK
  <2>3. \A i \in DOMAIN pool_deque' : i + 1 \in DOMAIN pool_deque /\ i + 1 # 1
                                     /\ pool_deque'[i] = pool_deque[i + 1]
    BY <1>1, <2>2
  <2>4. Idle' \subseteq Idle /\ pool_deque[1] \notin Idle' /\ pool_deque[1] \in Idle
    BY <1>1, <2>1, <2>2, <2>3 DEF Idle
  <2>5. \A i, j \in DOMAIN pool_deque' : pool_deque'[i] = pool_deque'[j] => i = j
    BY <1>1, <2>1, <2>2, <2>3
  <2>6. con'[t] = pool_deque[1] /\ \A u \in Using : con'[u] = con[u]
    BY <1>1, <1>3 DEF IInv, TypeOK, Using
  <2>7. \A u \in Using' : con'[u] \in Connection \ Idle'
    BY <1>1, <1>3, <2>4, <2>6 DEF IInv, OneOwner
  <2>8. \A u, v \in Using' : con'[u] = con'[v] => u = v
    BY <1>3, <2>4, <2>6 DEF IInv, OneOwner
  <2> QED
    BY <2>5, <2>7, <2>8 DEF OneOwner
<1>5. CountsOpen'
  BY <1>1, <1>3, Finite DEF IInv, CountsOpen
<1>6. NoLostSignal'
  <2>1. Cardinality(Woken') \in Nat /\ Cardinality(Using') \in Nat
    BY <1>3, Finite, FS_RemoveElement, FS_AddElement, FS_CardinalityType
  <2> QED
    BY <1>3, <2>1, Finite, PoolAssumption DEF IInv, NoLostSignal
<1> QED
  BY <1>2, <1>4, <1>5, <1>6 DEF IInv

LEMMA OpenStep ==
    ASSUME IInv, NEW t \in Thread, pc[t] \in {"ready", "woken"}, OpenNew(t),
           queries' \in [Thread -> Nat]
    PROVE  IInv'
<1> USE DEF OpenNew, CountOpened
<1>1. PICK c \in Connection \ Open : con' = [con EXCEPT ![t] = c]
  OBVIOUS
<1>2. TypeOK'
  <2>1. con' \in [Thread -> Connection \cup {NULL}]
    BY <1>1 DEF IInv, TypeOK
  <2>2. pc' \in [Thread -> {"ready", "waiting", "woken", "query"}]
    BY DEF IInv, TypeOK
  <2>3. pooledConnections' \in Nat
    BY DEF IInv, TypeOK
  <2> QED
    BY <2>1, <2>2, <2>3 DEF IInv, TypeOK
<1>3. /\ Using' = Using \cup {t} /\ t \notin Using
      /\ Waiting' = Waiting /\ Woken' = Woken \ {t}
      /\ Cardinality(Using') = Cardinality(Using) + 1
      /\ Cardinality(Using') + Cardinality(Woken') >= Cardinality(Using) + Cardinality(Woken)
  BY GoesToUse DEF IInv
<1>4. OneOwner'
  <2>1. c \in Connection \ Idle /\ \A u \in Using : con[u] # c
    BY <1>1 DEF Open
  <2>2. con'[t] = c /\ \A u \in Using : con'[u] = con[u]
    BY <1>1, <1>3 DEF IInv, TypeOK, Using
  <2>3. \A u \in Using' : con'[u] \in Connection \ Idle
    BY <1>3, <2>1, <2>2 DEF IInv, OneOwner
  <2>4. \A u, v \in Using' : con'[u] = con'[v] => u = v
    BY <1>3, <2>1, <2>2 DEF IInv, OneOwner
  <2>5. Idle' = Idle /\ pool_deque' = pool_deque
    BY DEF Idle
  <2> QED
    BY <2>3, <2>4, <2>5 DEF IInv, OneOwner
<1>5. CountsOpen'
  <2>1. pooledConnections < MaxConnections
    BY PoolAssumption DEF IInv, TypeOK, CountsOpen, MustWait
  <2>2. Len(pool_deque) = 0
    OBVIOUS
  <2> QED
    BY <1>3, <2>1, <2>2, Finite, PoolAssumption DEF IInv, TypeOK, CountsOpen
<1>6. NoLostSignal'
  <2>1. Cardinality(Woken') \in Nat /\ Cardinality(Using') \in Nat
    BY <1>3, Finite, FS_RemoveElement, FS_AddElement, FS_CardinalityType
  <2> QED
    BY <1>3, <2>1, Finite, PoolAssumption DEF IInv, NoLostSignal
<1> QED
  BY <1>2, <1>4, <1>5, <1>6 DEF IInv

LEMMA SpuriousStep ==
    ASSUME IInv, NEW t \in Thread, SpuriousWakeup(t)
    PROVE  IInv'
<1> USE DEF SpuriousWakeup
<1>1. TypeOK'
  BY DEF IInv, TypeOK
<1>2. /\ Using' = Using /\ Waiting' \subseteq Waiting
      /\ Woken' = Woken \cup {t} /\ t \notin Woken
  BY DEF IInv, TypeOK, Using, Waiting, Woken
<1>3. Cardinality(Woken') = Cardinality(Woken) + 1
  BY <1>2, Finite, FS_AddElement
<1>4. OneOwner'
  BY <1>2 DEF IInv, OneOwner, Idle
<1>5. CountsOpen'
  BY <1>2 DEF IInv, CountsOpen
<1>6. NoLostSignal'
  BY <1>2, <1>3, Finite, PoolAssumption DEF IInv, NoLostSignal
<1> QED
  BY <1>1, <1>4, <1>5, <1>6 DEF IInv

LEMMA ReleaseStep ==
    ASSUME IInv, NEW t \in Thread, ReleaseConnection(t)
    PROVE  IInv'
<1> USE DEF ReleaseConnection
<1>1. t \in Using /\ con[t] \in Connection \ Idle
  BY DEF IInv, OneOwner, Using
<1>2. /\ pc' \in [Thread -> {"ready", "waiting", "woken", "query"}]
      /\ Using' = Using \ {t}
      /\ Cardinality(Using') = Cardinality(Using) - 1
      /\ \/ Waiting' = {}
         \/ Cardinality(Woken') = Cardinality(Woken) + 1 /\ Waiting' \subseteq Waiting
  BY PutsBack DEF IInv
<1>3. /\ pool_deque' \in Seq(Connection) /\ Len(pool_deque') = Len(pool_deque) + 1
      /\ \A i \in 1..Len(pool_deque) : pool_deque'[i] = pool_deque[i]
      /\ pool_deque'[Len(pool_deque) + 1] = con[t]
  BY <1>1, AppendProperties DEF IInv, TypeOK
<1>4. TypeOK'
  BY <1>2, <1>3 DEF IInv, TypeOK
<1>5. OneOwner'
  <2>1. /\ Len(pool_deque) \in Nat
        /\ DOMAIN pool_deque = 1..Len(pool_deque)
        /\ DOMAIN pool_deque' = 1..(Len(pool_deque) + 1)
    BY <1>3 DEF IInv, TypeOK
  <2>2. Idle' = Idle \cup {con[t]}
    BY <1>3, <2>1 DEF Idle
  <2>3. \A i \in 1..Len(pool_deque) : pool_deque[i] # con[t]
    BY <1>1, <2>1 DEF Idle
  <2>4. \A i, j \in 1..Len(pool_deque) : pool_deque[i] = pool_deque[j] => i = j
    BY <2>1 DEF IInv, OneOwner
  <2>5. \A i \in 1..(Len(pool_deque) + 1) :
            i \in 1..Len(pool_deque) \/ i = Len(pool_deque) + 1
    BY <2>1
  <2>6. \A i, j \in DOMAIN pool_deque' : pool_deque'[i] = pool_deque'[j] => i = j
    BY <1>3, <2>1, <2>3, <2>4, <2>5
  <2>7. \A u \in Using' : u # t /\ u \in Using /\ con'[u] = con[u]
    BY <1>2 DEF IInv, TypeOK, Using
  <2>8. \A u \in Using' : con[u] # con[t]
    BY <1>1, <2>7 DEF IInv, OneOwner
  <2>9. \A u \in Using' : con'[u] \in Connection \ Idle'
    BY <2>2, <2>7, <2>8 DEF IInv, OneOwner
  <2>10. \A u, v \in Using' : con'[u] = con'[v] => u = v
    BY <2>7 DEF IInv, OneOwner
  <2> QED
    BY <2>6, <2>9, <2>10 DEF OneOwner
<1>6. CountsOpen'
  BY <1>2, <1>3, Finite DEF IInv, TypeOK, CountsOpen
<1>7. NoLostSignal'
  BY <1>2, Finite, PoolAssumption DEF IInv, NoLostSignal
<1> QED
  BY <1>4, <1>5, <1>6, <1>7 DEF IInv

LEMMA KeepAliveStep ==
    ASSUME IInv, KeepPoolAlive
    PROVE  IInv'
<1> DEFINE n == Len(pool_deque)
           k == n - MinConnections
<1>1. n \in Nat /\ k \in Nat \ {0} /\ MinConnections \in Nat /\ n = k + MinConnections
  BY PoolAssumption DEF IInv, TypeOK, KeepPoolAlive
<1>2. pool_deque' = SubSeq(pool_deque, k + 1, n) /\ DOMAIN pool_deque = 1..n
  BY DEF KeepPoolAlive, IInv, TypeOK
<1>3. \A i \in (k + 1)..n : pool_deque[i] \in Connection
  <2>1. \A i \in 1..n : pool_deque[i] \in Connection
    BY DEF IInv, TypeOK
  <2> HIDE DEF n, k
  <2> QED
    BY <1>1, <2>1
<1>4. /\ pool_deque' \in Seq(Connection)
      /\ Len(pool_deque') = MinConnections
      /\ \A i \in 1..MinConnections : pool_deque'[i] = pool_deque[k + i]
  <2> HIDE DEF n, k
  <2>1. k + 1 \in Int /\ n \in Int
    BY <1>1
  <2>2. /\ SubSeq(pool_deque, k + 1, n) \in Seq(Connection)
        /\ Len(SubSeq(pool_deque, k + 1, n)) = IF k + 1 <= n THEN n - (k + 1) + 1 ELSE 0
        /\ \A i \in 1 .. n - (k + 1) + 1 :
              SubSeq(pool_deque, k + 1, n)[i] = pool_deque[(k + 1) + i - 1]
    BY <1>3, <2>1, SubSeqProperties
  <2>3. n - (k + 1) + 1 = MinConnections
    BY <1>1
  <2>4. \A i \in 1..MinConnections : (k + 1) + i - 1 = k + i
    BY <1>1
  <2> QED
    BY <1>1, <1>2, <2>2, <2>3, <2>4
<1>5. Using' = Using /\ Waiting' = Waiting /\ Woken' = Woken
  BY DEF KeepPoolAlive, Using, Waiting, Woken
<1>6. pooledConnections >= n
  <2>1. pooledConnections = n + Cardinality(Using) /\ Cardinality(Using) \in Nat
    BY Finite DEF IInv, CountsOpen
  <2> HIDE DEF n, k
  <2> QED
    BY <1>1, <2>1
<1>7. TypeOK'
  <2>1. pooledConnections' = pooledConnections - k /\ pooledConnections \in Nat
    BY DEF KeepPoolAlive, IInv, TypeOK
  <2>2. pooledConnections' \in Nat
    <3> HIDE DEF n, k
    <3> QED
      BY <1>1, <1>6, <2>1
  <2> QED
    BY <1>4, <2>2 DEF KeepPoolAlive, IInv, TypeOK
<1>8. OneOwner'
  <2>1. DOMAIN pool_deque' = 1..MinConnections
    BY <1>4
  <2>2. \A i \in DOMAIN pool_deque' : k + i \in DOMAIN pool_deque
                                     /\ pool_deque'[i] = pool_deque[k + i]
    <3> HIDE DEF n, k
    <3> QED
      BY <1>1, <1>2, <1>4, <2>1
  <2>3. Idle' \subseteq Idle
    BY <2>2 DEF Idle
  <2>4. \A i, j \in DOMAIN pool_deque : pool_deque[i] = pool_deque[j] => i = j
    BY DEF IInv, OneOwner
  <2>5. \A i, j \in DOMAIN pool_deque' : pool_deque'[i] = pool_deque'[j] => k + i = k + j
    BY <2>2, <2>4
  <2>6. \A i, j \in DOMAIN pool_deque' : pool_deque'[i] = pool_deque'[j] => i = j
    <3> HIDE DEF n, k
    <3> QED
      BY <1>1, <2>1, <2>5
  <2> QED
    BY <1>5, <2>3, <2>6 DEF KeepPoolAlive, IInv, OneOwner
<1>9. CountsOpen'
  <2>1. pooledConnections' = pooledConnections - k
    BY DEF KeepPoolAlive
  <2>2. pooledConnections = n + Cardinality(Using) /\ pooledConnections <= MaxConnections
    BY DEF IInv, CountsOpen
  <2> HIDE DEF n, k
  <2> QED
    BY <1>1, <1>4, <1>5, <2>1, <2>2, Finite, PoolAssumption DEF CountsOpen
<1>10. NoLostSignal'
  BY <1>5 DEF IInv, NoLostSignal
<1> QED
  BY <1>7, <1>8, <1>9, <1>10 DEF IInv

LEMMA InvStep == IInv /\ [Next]_vars => IInv'
<1> SUFFICES ASSUME IInv, [Next]_vars PROVE IInv'
  OBVIOUS
<1>1. queries' \in [Thread -> Nat]
  <2>1. ASSUME NEW t \in Thread, GetConnection(t) PROVE queries' \in [Thread -> Nat]
    BY <2>1 DEF IInv, TypeOK, GetConnection
  <2>2. CASE UNCHANGED queries
    BY <2>2 DEF IInv, TypeOK
  <2> QED
    BY <2>1, <2>2 DEF Next, ThreadStep, Resume, SpuriousWakeup, ReleaseConnection,
                      KeepPoolAlive, vars
<1>2. ASSUME UNCHANGED <<pool_deque, pooledConnections, con, pc>>, up' \in BOOLEAN
      PROVE  IInv'
  BY <1>1, <1>2 DEF IInv, TypeOK, OneOwner, CountsOpen, NoLostSignal, Using, Waiting, Woken, Idle
<1>3. ASSUME NEW t \in Thread, pc[t] \in {"ready", "woken"}, Obtain(t) PROVE IInv'
  <2>1. CASE OpenRefused(t)
    BY <1>2, <2>1 DEF OpenRefused
  <2> QED
    BY <1>1, <1>3, <2>1, WaitStep, TakeStep, OpenStep DEF Obtain
<1>4. CASE UNCHANGED <<pool_deque, pooledConnections, con, pc, up>>
  BY <1>2, <1>4 DEF IInv, TypeOK
<1> QED
  BY <1>3, <1>4, Steps, SpuriousStep, ReleaseStep, KeepAliveStep

-----------------------------------------------------------------------------
(* The pool's invariant holds in every reachable state of the server. *)
THEOREM Invariant == Spec => []IInv
<1> QED
  BY InvInit, InvStep, PTL DEF Spec

(* Every variable holds a value of its type. *)
THEOREM TypeCorrect == Spec => []TypeOK
<1>1. IInv => TypeOK
  BY DEF IInv
<1> QED
  BY <1>1, Invariant, PTL

(* Two threads never work on one connection, and the keep-alive thread     *)
(* never closes one in use (getConnection, releaseConnection).             *)
THEOREM ConnectionsNotShared == Spec => []OneOwner
<1>1. IInv => OneOwner
  BY DEF IInv
<1> QED
  BY <1>1, Invariant, PTL

(* The count getConnection decides by is exact and within the maximum. *)
THEOREM CountExact == Spec => []CountsOpen
<1>1. IInv => CountsOpen
  BY DEF IInv
<1> QED
  BY <1>1, Invariant, PTL

(* pthread_cond_signal in releaseConnection, one thread at a time, is      *)
(* enough: while a thread waits, every connection has somebody who will    *)
(* put it back or somebody about to look.                                  *)
THEOREM SignalsSuffice == Spec => []NoLostSignal
<1>1. IInv => NoLostSignal
  BY DEF IInv
<1> QED
  BY <1>1, Invariant, PTL

(* A step of the pool is a step of the semaphore or leaves it alone. *)
LEMMA SemaphoreStep == IInv /\ [Next]_vars => [Semaphore!Next]_(Using)
<1> SUFFICES ASSUME IInv, [Next]_vars PROVE [Semaphore!Next]_(Using)
  OBVIOUS
<1>1. ASSUME NEW t \in Thread, pc[t] \in {"ready", "woken"},
             pc' = [pc EXCEPT ![t] = "query"], Cardinality(Using) < MaxConnections
      PROVE  Semaphore!Next
  <2>1. Using' = Using \cup {t} /\ t \notin Using
    BY <1>1, GoesToUse DEF IInv
  <2>2. Semaphore!Cardinality(Using) = Cardinality(Using)
    BY DEF Semaphore!Cardinality, Cardinality
  <2>3. Semaphore!Acquire(t)
    BY <1>1, <2>1, <2>2 DEF Semaphore!Acquire
  <2> QED
    BY <2>3 DEF Semaphore!Next
<1>2. ASSUME NEW t \in Thread, pc[t] \in {"ready", "woken"}, Obtain(t)
      PROVE  Semaphore!Next \/ Using' = Using
  <2>1. CASE Wait(t) \/ OpenRefused(t)
    BY <1>2, <2>1 DEF IInv, TypeOK, Wait, OpenRefused, Using
  <2>2. CASE TakePooled(t)
    <3>1. Len(pool_deque) \in Nat \ {0}
      BY <2>2 DEF TakePooled, IInv, TypeOK
    <3>2. Cardinality(Using) < MaxConnections
      BY <3>1, Finite, PoolAssumption DEF IInv, CountsOpen
    <3> QED
      BY <1>1, <1>2, <2>2, <3>2 DEF TakePooled
  <2>3. CASE OpenNew(t)
    <3>1. pooledConnections < MaxConnections /\ Len(pool_deque) = 0
      BY <2>3, PoolAssumption DEF OpenNew, MustWait, IInv, TypeOK, CountsOpen
    <3>2. Cardinality(Using) < MaxConnections
      BY <3>1, Finite DEF IInv, CountsOpen
    <3> QED
      BY <1>1, <1>2, <2>3, <3>2 DEF OpenNew
  <2> QED
    BY <1>2, <2>1, <2>2, <2>3 DEF Obtain
<1>3. ASSUME NEW t \in Thread, ReleaseConnection(t) PROVE Semaphore!Next
  <2>1. t \in Using /\ Using' = Using \ {t}
    BY <1>3, PutsBack DEF ReleaseConnection, IInv, Using
  <2>2. Semaphore!Release(t)
    BY <2>1 DEF Semaphore!Release
  <2> QED
    BY <2>2 DEF Semaphore!Next
<1>4. ASSUME NEW t \in Thread, SpuriousWakeup(t) PROVE Using' = Using
  BY <1>4 DEF IInv, TypeOK, SpuriousWakeup, Using
<1>5. CASE KeepPoolAlive \/ UNCHANGED <<pool_deque, pooledConnections, con, pc, up>>
  BY <1>5 DEF KeepPoolAlive, Using
<1> QED
  BY <1>2, <1>3, <1>4, <1>5, Steps

(* To the threads of the server the pool is a semaphore: at most           *)
(* MaxConnections of them execute a statement at a time.                   *)
THEOREM PoolIsSemaphore == Spec => SemaphoreRefined
<1>1. Init => Semaphore!Init
  BY DEF Init, Semaphore!Init, Using
<1> QED
  BY <1>1, Invariant, SemaphoreStep, PTL DEF Spec, SemaphoreRefined, Semaphore!Spec
=============================================================================
