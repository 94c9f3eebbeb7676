-------------------------- MODULE StatisticsProofs --------------------------
(***************************************************************************)
(* Proofs about Statistics, for every number of clients, plays and         *)
(* samples.                                                                *)
(***************************************************************************)
EXTENDS Statistics, FiniteSetTheorems, TLAPS

(* Requests the server has counted, or would have, and not yet provided    *)
(* for, and the transfers it is in the middle of.                          *)
Owed    == {c \in Client : spc[c] = "lookup" \/ cpc[c] \in {"fromPeer", "again"}}
Ticking == {c \in Client : spc[c] = "ticking"}

(* Each request that is still owed leaves room for one segment provided.   *)
RoomForOwed ==
    IF isP2pOpen THEN serverProvideSegments + Cardinality(Owed) <= requestedSegments + early
                 ELSE serverProvideSegments = 0

(* The load is the number of transfers; the record starts empty; and the   *)
(* minimum a sample has read stays below the maximum, which only grows.    *)
LoadInv ==
    /\ currentLoad = Cardinality(Ticking)
    /\ startRecord \/ (maxLoad = 0 /\ minLoad = NoMin)
    /\ LoadBracketed
    /\ sRead.recorded => maxLoad # 0
    /\ sRead.recorded /\ sRead.min # NoMin => sRead.min <= maxLoad

(* In its loop the client process's thread is at one of the clients.       *)
LoopInv == cstat \in {"fromBuf", "fromServer", "fromClients"} => i < clients

(* The server's thread for a client starts when the client is accepted.    *)
NewUnserved == \A c \in Client : cpc[c] = "new" => spc[c] = "none"

(* Among the clients the loop has passed, maxHitRate is highest; it is     *)
(* that of maxClientId if all of them had played and it is above 0.        *)
Best ==
    /\ DOMAIN ratesSeen \subseteq 0..(i - 1)
    /\ \A c \in DOMAIN ratesSeen :
          ratesSeen[c] \in Rate /\ ~Higher(ratesSeen[c], maxHitRate)
    /\ DOMAIN ratesSeen = 0..(i - 1) /\ maxHitRate[1] # 0 =>
          maxClientId \in 0..(i - 1) /\ ratesSeen[maxClientId] = maxHitRate

IInv == /\ TypeOK
        /\ RoomForOwed /\ requestServerTimes <= requestTotals
        /\ LoadInv /\ NewUnserved
        /\ LoopInv /\ Best

LEMMA Finite ==
    /\ IsFiniteSet(Owed) /\ IsFiniteSet(Ticking)
    /\ Cardinality(Owed) \in Nat /\ Cardinality(Ticking) \in Nat
<1>1. clients - 1 \in Int
  BY StatisticsAssumption
<1>2. IsFiniteSet(Client)
  BY <1>1, FS_Interval DEF Client
<1>3. Owed \in SUBSET Client /\ Ticking \in SUBSET Client
  BY DEF Owed, Ticking
<1> QED
  BY <1>2, <1>3, FS_Subset, FS_CardinalityType

LEMMA InitInv == Init => IInv
<1> SUFFICES ASSUME Init PROVE IInv
  OBVIOUS
<1> USE StatisticsAssumption
<1>1. ThreadTypes
  BY DEF Init, ThreadTypes
<1>2. CountTypes
  BY DEF Init, CountTypes, NoMin
<1>3. ServerReadTypes
  BY DEF Init, ServerReadTypes, NoMin
<1>4. ClientReadTypes
  BY DEF Init, ClientReadTypes, Rate
<1>5. Owed = {} /\ Ticking = {}
  BY DEF Init, Owed, Ticking
<1>6. Cardinality(Owed) = 0 /\ Cardinality(Ticking) = 0
  BY <1>5, FS_EmptySet
<1>7. RoomForOwed /\ LoadInv /\ LoopInv /\ requestServerTimes <= requestTotals
  BY <1>6 DEF Init, RoomForOwed, LoadInv, LoadBracketed, LoopInv, NoMin
<1>8. NewUnserved /\ Best
  BY DEF Init, NewUnserved, Best
<1> QED
  BY <1>1, <1>2, <1>3, <1>4, <1>7, <1>8 DEF IInv, TypeOK

(* Two sets that differ in at most one element.                            *)
LEMMA OneMoves ==
    ASSUME NEW S, NEW T, NEW c, IsFiniteSet(S), IsFiniteSet(T), S \ {c} = T \ {c}
    PROVE  /\ (c \in S <=> c \in T) => Cardinality(T) = Cardinality(S)
           /\ c \in S /\ c \notin T => Cardinality(T) = Cardinality(S) - 1
           /\ c \notin S /\ c \in T => Cardinality(T) = Cardinality(S) + 1
<1>1. /\ Cardinality(S \ {c}) = IF c \in S THEN Cardinality(S) - 1 ELSE Cardinality(S)
      /\ Cardinality(T \ {c}) = IF c \in T THEN Cardinality(T) - 1 ELSE Cardinality(T)
  BY FS_RemoveElement
<1>2. Cardinality(S) \in Nat /\ Cardinality(T) \in Nat
  BY FS_CardinalityType
<1> QED
  BY <1>1, <1>2

(* A step of one client's threads moves at most that client in and out of  *)
(* the two sets.                                                           *)
Moves(c) == /\ \A d \in Client \ {c} : spc'[d] = spc[d] /\ cpc'[d] = cpc[d]
            /\ UNCHANGED <<isP2pOpen, followed, startedStatistical>>
LEMMA ClientMoves ==
    ASSUME NEW c \in Client, Moves(c)
    PROVE  /\ Cardinality(Owed') \in Nat /\ Cardinality(Ticking') \in Nat
           /\ (c \in Owed <=> c \in Owed') => Cardinality(Owed') = Cardinality(Owed)
           /\ c \in Owed /\ c \notin Owed' => Cardinality(Owed') = Cardinality(Owed) - 1
           /\ c \notin Owed /\ c \in Owed' => Cardinality(Owed') = Cardinality(Owed) + 1
           /\ (c \in Ticking <=> c \in Ticking') => Cardinality(Ticking') = Cardinality(Ticking)
           /\ c \in Ticking /\ c \notin Ticking' => Cardinality(Ticking') = Cardinality(Ticking) - 1
           /\ c \notin Ticking /\ c \in Ticking' => Cardinality(Ticking') = Cardinality(Ticking) + 1
<1>1. IsFiniteSet(Owed') /\ IsFiniteSet(Ticking')
  <2>1. clients - 1 \in Int
    BY StatisticsAssumption
  <2>2. IsFiniteSet(Client)
    BY <2>1, FS_Interval DEF Client
  <2>3. Owed' \in SUBSET Client /\ Ticking' \in SUBSET Client
    BY DEF Owed, Ticking
  <2> QED
    BY <2>2, <2>3, FS_Subset
<1>2. Owed \ {c} = Owed' \ {c} /\ Ticking \ {c} = Ticking' \ {c}
  BY DEF Owed, Ticking, Moves
<1>3. Cardinality(Owed') \in Nat /\ Cardinality(Ticking') \in Nat
  BY <1>1, FS_CardinalityType
<1> QED
  BY <1>1, <1>2, <1>3, OneMoves, Finite
-----------------------------------------------------------------------------
(* Steps of the threads that deliver.  None touches what the two           *)
(* statistics threads have read.                                           *)
LEMMA ReadsKept ==
    ASSUME ServerReadTypes, ClientReadTypes, LoopInv, Best, UNCHANGED <<sThread, cThread>>
    PROVE  ServerReadTypes' /\ ClientReadTypes' /\ LoopInv' /\ Best'
<1>1. ServerReadTypes'
  BY DEF ServerReadTypes, sThread
<1>2. ClientReadTypes'
  BY DEF ClientReadTypes, cThread
<1>3. LoopInv' /\ Best'
  BY DEF LoopInv, Best, Higher, cThread
<1> QED
  BY <1>1, <1>2, <1>3

LEMMA AcceptStep == ASSUME IInv, NEW c \in Client, Accept(c) PROVE IInv'
<1> USE DEF Accept, started, load, serverCounts, clientCounts
<1>1. ThreadTypes'
  BY DEF IInv, TypeOK, ThreadTypes
<1>2. CountTypes'
  BY DEF IInv, TypeOK, CountTypes
<1>3. spc[c] = "none" /\ cpc[c] = "new" /\ spc'[c] = "idle" /\ cpc'[c] = "play"
  BY DEF IInv, TypeOK, ThreadTypes, NewUnserved
<1>4. Moves(c)
  BY DEF Moves, IInv, TypeOK, ThreadTypes
<1>5. NewUnserved'
  BY <1>3, <1>4 DEF NewUnserved, IInv, Moves
<1>6. c \notin Owed /\ c \notin Owed' /\ c \notin Ticking /\ c \notin Ticking'
  BY <1>3 DEF Owed, Ticking
<1>7. Cardinality(Owed') = Cardinality(Owed) /\ Cardinality(Ticking') = Cardinality(Ticking)
  BY <1>4, <1>6, ClientMoves
<1>8. RoomForOwed' /\ (requestServerTimes <= requestTotals)'
  BY <1>7 DEF IInv, RoomForOwed
<1>9. LoadInv'
  BY <1>7 DEF IInv, TypeOK, ThreadTypes, LoadInv, LoadBracketed, sThread
<1> QED
  BY <1>1, <1>2, <1>5, <1>8, <1>9, ReadsKept DEF IInv, TypeOK

(* What is common to the actions in which the server serves a client: only *)
(* the counters they change are left to each.                              *)
LEMMA ServeStep ==
    ASSUME IInv, NEW c \in Client, NEW here, NEW there,
           here # "none", there \in {"idle", "lookup", "replied", "ticking"},
           Serve(c, here, there),
           \/ cpc' = cpc
           \/ cpc' = [cpc EXCEPT ![c] = "fromServer"]
           \/ cpc' = [cpc EXCEPT ![c] = "fromPeer"],
           CountTypes', RoomForOwed', LoadInv'
    PROVE  IInv'
<1> USE DEF Serve, started, clientCounts
<1>1. ThreadTypes'
  BY DEF IInv, TypeOK, ThreadTypes
<1>2. NewUnserved'
  BY DEF NewUnserved, IInv, TypeOK, ThreadTypes
<1> QED
  BY <1>1, <1>2, ReadsKept DEF IInv, TypeOK

LEMMA ServeMoves ==
    ASSUME IInv, NEW c \in Client, NEW here, NEW there, Serve(c, here, there),
           \/ cpc' = cpc
           \/ cpc' = [cpc EXCEPT ![c] = "fromServer"]
           \/ cpc' = [cpc EXCEPT ![c] = "fromPeer"]
    PROVE  /\ Moves(c)
           /\ spc[c] = here /\ spc'[c] = there
           /\ cpc' = cpc => cpc'[c] = cpc[c]
           /\ cpc' = [cpc EXCEPT ![c] = "fromServer"] => cpc'[c] = "fromServer"
           /\ cpc' = [cpc EXCEPT ![c] = "fromPeer"] => cpc'[c] = "fromPeer"
BY DEF Serve, started, Moves, IInv, TypeOK, ThreadTypes

LEMMA ClientRequestSegmentStep ==
    ASSUME IInv, NEW c \in Client, ClientRequestSegment(c) PROVE IInv'
<1> USE DEF ClientRequestSegment, load
<1>1. Serve(c, "idle", "lookup") /\ cpc' = cpc /\ cpc[c] = "segment"
  OBVIOUS
<1>2. Moves(c) /\ spc[c] = "idle" /\ spc'[c] = "lookup" /\ cpc'[c] = "segment"
  BY <1>1, ServeMoves
<1>3. c \notin Owed /\ c \in Owed' /\ c \notin Ticking /\ c \notin Ticking'
  BY <1>1, <1>2 DEF Owed, Ticking
<1>4. Cardinality(Owed') = Cardinality(Owed) + 1 /\ Cardinality(Ticking') = Cardinality(Ticking)
  BY <1>2, <1>3, ClientMoves
<1>5. CountTypes'
  BY DEF IInv, TypeOK, CountTypes, Serve, clientCounts
<1>6. ASSUME isP2pOpen PROVE RoomForOwed'
  <2>1. requestedSegments' + early' = requestedSegments + early + 1
    BY <1>6 DEF IInv, TypeOK, CountTypes, Counting
  <2>2. serverProvideSegments' = serverProvideSegments /\ isP2pOpen'
    BY <1>6, <1>2 DEF Moves
  <2>3. serverProvideSegments + Cardinality(Owed) <= requestedSegments + early
    BY <1>6 DEF IInv, RoomForOwed
  <2>4. RoomForOwed'
    BY <2>1, <2>2, <2>3, <1>4, Finite DEF RoomForOwed, IInv, TypeOK, CountTypes
  <2> QED
    BY <2>4
<1>7. RoomForOwed'
  BY <1>6, <1>2 DEF IInv, RoomForOwed, Moves
<1>8. LoadInv'
  BY <1>4 DEF IInv, LoadInv, LoadBracketed, Serve, started, sThread
<1> QED
  BY <1>1, <1>5, <1>7, <1>8, ServeStep

LEMMA ProvideStep == ASSUME IInv, NEW c \in Client, Provide(c) PROVE IInv'
<1> USE DEF Provide, load
<1>1. PICK here \in {"lookup", "idle"} : /\ Serve(c, here, "replied")
                                         /\ here = "idle" => cpc[c] = "again"
  OBVIOUS
<1>2. Moves(c) /\ spc[c] = here /\ spc'[c] = "replied" /\ cpc'[c] = "fromServer"
  BY <1>1, ServeMoves
<1>3. c \in Owed /\ c \notin Owed' /\ c \notin Ticking /\ c \notin Ticking'
  BY <1>1, <1>2 DEF Owed, Ticking
<1>4. /\ Cardinality(Owed') = Cardinality(Owed) - 1 /\ Cardinality(Owed) \in Nat
      /\ Cardinality(Ticking') = Cardinality(Ticking)
  BY <1>2, <1>3, ClientMoves, Finite
<1>5. /\ serverProvideSegments' \in Nat
      /\ serverProvideSegments' <= serverProvideSegments + 1
      /\ ~isP2pOpen => serverProvideSegments' = serverProvideSegments
  BY DEF ProvideIfCounting, Counting, serverProvideSegment, IInv, TypeOK, CountTypes
<1>6. CountTypes'
  BY <1>1, <1>5 DEF IInv, TypeOK, CountTypes, Serve, clientCounts
<1>7. RoomForOwed'
  BY <1>2, <1>4, <1>5 DEF IInv, TypeOK, CountTypes, RoomForOwed, Moves
<1>8. LoadInv'
  BY <1>1, <1>4 DEF IInv, LoadInv, LoadBracketed, Serve, started, sThread
<1> QED
  BY <1>1, <1>6, <1>7, <1>8, ServeStep

LEMMA NamePeerStep == ASSUME IInv, NEW c \in Client, NamePeer(c) PROVE IInv'
<1> USE DEF NamePeer, load, serverCounts
<1>1. Moves(c) /\ spc[c] = "lookup" /\ spc'[c] = "idle" /\ cpc'[c] = "fromPeer"
  BY ServeMoves
<1>2. c \in Owed /\ c \in Owed' /\ c \notin Ticking /\ c \notin Ticking'
  BY <1>1 DEF Owed, Ticking
<1>3. Cardinality(Owed') = Cardinality(Owed) /\ Cardinality(Ticking') = Cardinality(Ticking)
  BY <1>1, <1>2, ClientMoves
<1>4. CountTypes'
  BY DEF IInv, TypeOK, CountTypes, Serve, clientCounts
<1>5. RoomForOwed'
  BY <1>1, <1>3 DEF IInv, RoomForOwed, Moves
<1>6. LoadInv'
  BY <1>3 DEF IInv, LoadInv, LoadBracketed, Serve, started, sThread
<1> QED
  BY <1>4, <1>5, <1>6, ServeStep

LEMMA IncreaseCurrentLoadStep ==
    ASSUME IInv, NEW c \in Client, IncreaseCurrentLoad(c) PROVE IInv'
<1> USE DEF IncreaseCurrentLoad, serverCounts
<1>1. /\ Moves(c) /\ spc[c] = "replied" /\ spc'[c] = "ticking" /\ cpc'[c] = cpc[c]
  BY ServeMoves
<1>2. (c \in Owed <=> c \in Owed') /\ c \notin Ticking /\ c \in Ticking'
  BY <1>1 DEF Owed, Ticking
<1>3. Cardinality(Owed') = Cardinality(Owed) /\ Cardinality(Ticking') = Cardinality(Ticking) + 1
  BY <1>1, <1>2, ClientMoves
<1>4. CountTypes'
  BY DEF IInv, TypeOK, CountTypes, Serve, clientCounts
<1>5. RoomForOwed'
  BY <1>1, <1>3 DEF IInv, RoomForOwed, Moves
<1>6. currentLoad' = Cardinality(Ticking')
  BY <1>3 DEF IInv, LoadInv
<1>7. startRecord' = startRecord /\ sRead' = sRead
  BY DEF Serve, started, sThread
<1>8. startRecord' \/ (maxLoad' = 0 /\ minLoad' = NoMin)
  BY <1>7 DEF IInv, LoadInv, raisesMax
<1>9. LoadBracketed' /\ maxLoad <= maxLoad'
  BY DEF IInv, TypeOK, CountTypes, LoadInv, LoadBracketed, raisesMax
<1>10. /\ sRead.recorded => maxLoad' # 0
       /\ sRead.recorded /\ sRead.min # NoMin => sRead.min <= maxLoad'
  BY <1>9 DEF IInv, TypeOK, CountTypes, ServerReadTypes, LoadInv
<1>11. LoadInv'
  BY <1>6, <1>7, <1>8, <1>9, <1>10 DEF LoadInv
<1> QED
  BY <1>4, <1>5, <1>11, ServeStep

LEMMA DecreaseCurrentLoadStep ==
    ASSUME IInv, NEW c \in Client, DecreaseCurrentLoad(c) PROVE IInv'
<1> USE DEF DecreaseCurrentLoad, serverCounts
<1>1. /\ Moves(c) /\ spc[c] = "ticking" /\ spc'[c] = "idle" /\ cpc'[c] = cpc[c]
  BY ServeMoves
<1>2. (c \in Owed <=> c \in Owed') /\ c \in Ticking /\ c \notin Ticking'
  BY <1>1 DEF Owed, Ticking
<1>3. /\ Cardinality(Owed') = Cardinality(Owed)
      /\ Cardinality(Ticking') = Cardinality(Ticking) - 1 /\ Cardinality(Ticking') \in Nat
  BY <1>1, <1>2, ClientMoves
<1>4. currentLoad - 1 \in Nat /\ currentLoad' = Cardinality(Ticking')
  BY <1>3 DEF IInv, LoadInv
<1>5. CountTypes'
  BY <1>4 DEF IInv, TypeOK, CountTypes, Serve, clientCounts
<1>6. RoomForOwed'
  BY <1>1, <1>3 DEF IInv, RoomForOwed, Moves
<1>7. startRecord' = startRecord /\ sRead' = sRead
  BY DEF Serve, started, sThread
<1>8. startRecord' \/ (maxLoad' = 0 /\ minLoad' = NoMin)
  BY <1>7 DEF IInv, LoadInv, lowersMin
<1>9. LoadBracketed'
  BY DEF IInv, TypeOK, CountTypes, LoadInv, LoadBracketed, lowersMin
<1>10. LoadInv'
  BY <1>4, <1>7, <1>8, <1>9 DEF IInv, LoadInv
<1> QED
  BY <1>5, <1>6, <1>10, ServeStep

(* What is common to the client's own steps: it does not come to owe, and  *)
(* its two counters stay in order.                                         *)
LEMMA FetchStep ==
    ASSUME IInv, NEW c \in Client,
           NEW here \in {"play", "segment", "fromServer", "tallyServer",
                         "fromPeer", "again", "tallyClients"},
           NEW there \in {"play", "segment", "fromServer", "tallyServer",
                          "fromPeer", "again", "tallyClients"},
           there \in {"fromPeer", "again"} => here \in {"fromPeer", "again"},
           Fetch(c, here, there),
           plays' \in [Client -> Nat],
           blocks' \in [Client -> [buf : Nat, server : Nat, clients : Nat]],
           requestTotals' \in Nat, requestServerTimes' \in Nat,
           requestServerTimes' <= requestTotals'
    PROVE  IInv'
<1> USE DEF Fetch, started, load, serverCounts
<1>1. ThreadTypes'
  BY DEF IInv, TypeOK, ThreadTypes
<1>2. CountTypes'
  BY DEF IInv, TypeOK, CountTypes
<1>3. Moves(c) /\ cpc[c] = here /\ cpc'[c] = there /\ spc'[c] = spc[c]
  BY DEF Moves, IInv, TypeOK, ThreadTypes
<1>4. NewUnserved'
  BY <1>3 DEF NewUnserved, IInv, Moves
<1>5. (c \in Owed' => c \in Owed) /\ (c \in Ticking <=> c \in Ticking')
  BY <1>3 DEF Owed, Ticking
<1>6. /\ Cardinality(Owed') <= Cardinality(Owed) /\ Cardinality(Owed') \in Nat
      /\ Cardinality(Ticking') = Cardinality(Ticking)
  BY <1>3, <1>5, ClientMoves, Finite
<1>7. RoomForOwed'
  BY <1>6, Finite DEF IInv, TypeOK, CountTypes, RoomForOwed
<1>8. LoadInv'
  BY <1>6 DEF IInv, LoadInv, LoadBracketed, sThread
<1> QED
  BY <1>1, <1>2, <1>4, <1>7, <1>8, ReadsKept DEF IInv, TypeOK

LEMMA ClientThreadStep == ASSUME IInv, NEW c \in Client, ClientThread(c) PROVE IInv'
<1>1. /\ plays \in [Client -> Nat] /\ requestTotals \in Nat /\ requestServerTimes \in Nat
      /\ blocks \in [Client -> [buf : Nat, server : Nat, clients : Nat]]
      /\ requestServerTimes <= requestTotals
  BY DEF IInv, TypeOK, ThreadTypes, CountTypes
<1>2. /\ [blocks EXCEPT ![c].buf = @ + 1] \in [Client -> [buf : Nat, server : Nat, clients : Nat]]
      /\ [blocks EXCEPT ![c].server = @ + 1] \in [Client -> [buf : Nat, server : Nat, clients : Nat]]
      /\ [blocks EXCEPT ![c].clients = @ + 1] \in [Client -> [buf : Nat, server : Nat, clients : Nat]]
  BY <1>1
<1>3. CASE Play(c)
  <2>1. plays' \in [Client -> Nat]
    BY <1>1, <1>3 DEF Play
  <2>2. /\ blocks' \in [Client -> [buf : Nat, server : Nat, clients : Nat]]
        /\ requestTotals' = requestTotals /\ requestServerTimes' = requestServerTimes
    BY <1>1, <1>2, <1>3 DEF Play
  <2>3. Fetch(c, "play", "play") \/ Fetch(c, "play", "segment")
    BY <1>3 DEF Play
  <2> QED
    BY <1>1, <2>1, <2>2, <2>3, FetchStep
<1>4. CASE IncreaseServerCounts(c)
  BY <1>1, <1>4, FetchStep DEF IncreaseServerCounts, increaseServerCounts
<1>5. CASE IncreaseBlockFromServer(c)
  BY <1>1, <1>2, <1>5, FetchStep DEF IncreaseBlockFromServer
<1>6. CASE PeerMiss(c)
  BY <1>1, <1>6, FetchStep DEF PeerMiss, clientCounts
<1>7. CASE IncreaseTotalCounts(c)
  BY <1>1, <1>7, FetchStep DEF IncreaseTotalCounts
<1>8. CASE IncreaseBlockFromClient(c)
  BY <1>1, <1>2, <1>8, FetchStep DEF IncreaseBlockFromClient
<1> QED
  BY <1>3, <1>4, <1>5, <1>6, <1>7, <1>8 DEF ClientThread

-----------------------------------------------------------------------------
(* Steps of the statistics threads.  Neither touches what the threads that *)
(* deliver have counted.                                                   *)
LEMMA CountsKept ==
    ASSUME IInv, UNCHANGED <<started, cpc, plays, spc, load, serverCounts, clientCounts>>
    PROVE  /\ ThreadTypes' /\ CountTypes' /\ RoomForOwed' /\ NewUnserved'
           /\ requestServerTimes' <= requestTotals'
           /\ currentLoad' = Cardinality(Ticking') /\ LoadBracketed'
           /\ startRecord' \/ (maxLoad' = 0 /\ minLoad' = NoMin)
<1> USE DEF started, load, serverCounts, clientCounts
<1>1. ThreadTypes' /\ NewUnserved'
  BY DEF IInv, TypeOK, ThreadTypes, NewUnserved
<1>2. CountTypes'
  BY DEF IInv, TypeOK, CountTypes
<1>3. Owed' = Owed /\ Ticking' = Ticking
  BY DEF Owed, Ticking
<1>4. RoomForOwed' /\ currentLoad' = Cardinality(Ticking') /\ LoadBracketed'
  BY <1>3 DEF IInv, RoomForOwed, LoadInv, LoadBracketed
<1>5. startRecord' \/ (maxLoad' = 0 /\ minLoad' = NoMin)
  BY DEF IInv, LoadInv
<1>6. requestServerTimes' <= requestTotals'
  BY DEF IInv
<1> QED
  BY <1>1, <1>2, <1>4, <1>5, <1>6

LEMMA SReadStep ==
    ASSUME IInv, NEW here, NEW there \in {"load", "total", "provided", "record", "min", "max"},
           SRead(here, there), ssamples' \in Nat,
           sRead' \in [load : Nat, total : Nat, clients : Nat, min : Nat, recorded : BOOLEAN],
           sRead'.recorded => maxLoad # 0,
           sRead'.recorded /\ sRead'.min # NoMin => sRead'.min <= maxLoad
    PROVE  IInv'
<1> USE DEF SRead
<1>1. ServerReadTypes'
  BY DEF ServerReadTypes
<1>2. ClientReadTypes' /\ LoopInv' /\ Best'
  <2>1. UNCHANGED cThread
    OBVIOUS
  <2>2. ClientReadTypes'
    BY <2>1 DEF IInv, TypeOK, ClientReadTypes, cThread
  <2>3. LoopInv' /\ Best'
    BY <2>1 DEF IInv, LoopInv, Best, Higher, cThread
  <2> QED
    BY <2>2, <2>3
<1>3. LoadInv'
  BY CountsKept DEF LoadInv, load
<1> QED
  BY <1>1, <1>2, <1>3, CountsKept DEF IInv, TypeOK

LEMMA MinusType == ASSUME NEW m \in Nat, NEW n \in Nat PROVE Minus(m, n) \in Nat
BY StatisticsAssumption DEF Minus

LEMMA ServerStatisticsStep == ASSUME IInv, ServerStatistics PROVE IInv'
<1>1. /\ sRead \in [load : Nat, total : Nat, clients : Nat, min : Nat, recorded : BOOLEAN]
      /\ ssamples \in Nat
      /\ sRead.recorded => maxLoad # 0
      /\ sRead.recorded /\ sRead.min # NoMin => sRead.min <= maxLoad
  BY DEF IInv, TypeOK, ServerReadTypes, LoadInv
<1>2. /\ currentLoad \in Nat /\ maxLoad \in Nat /\ minLoad \in Nat
      /\ requestedSegments \in Nat /\ serverProvideSegments \in Nat
  BY DEF IInv, TypeOK, CountTypes
<1>3. CASE GetCurrentLoad
  BY <1>1, <1>2, <1>3, SReadStep DEF GetCurrentLoad
<1>4. CASE GetRequestedSegments
  BY <1>1, <1>2, <1>4, SReadStep DEF GetRequestedSegments
<1>5. CASE GetServerProvideSegments
  <2>1. Minus(sRead.total, serverProvideSegments) \in Nat
    BY <1>1, <1>2, MinusType
  <2> QED
    BY <1>1, <2>1, <1>5, SReadStep DEF GetServerProvideSegments
<1>6. CASE GetMinLoad
  <2>1. ssamples' = ssamples
    BY <1>6 DEF GetMinLoad
  <2>2. CASE sRead' = sRead
    BY <1>1, <2>1, <2>2, <1>6, SReadStep DEF GetMinLoad
  <2>3. CASE ReadsMin
    <3> DEFINE more == maxLoad > 0
    <3>1. sRead' = [sRead EXCEPT !.min = minLoad, !.recorded = more] /\ more \in BOOLEAN
      BY <1>2, <2>3 DEF ReadsMin
    <3>2. sRead' \in [load : Nat, total : Nat, clients : Nat, min : Nat, recorded : BOOLEAN]
      <4> HIDE DEF more
      <4> QED
        BY <1>1, <1>2, <3>1
    <3>3. sRead'.min = minLoad /\ (sRead'.recorded => maxLoad # 0)
      BY <1>1, <1>2, <3>1
    <3>4. maxLoad # 0 /\ minLoad # NoMin => minLoad <= maxLoad
      BY <1>2 DEF IInv, LoadInv, LoadBracketed
    <3>5. PICK here \in {"record", "min"}, there \in {"max", "load"} : SRead(here, there)
      BY <1>6 DEF GetMinLoad
    <3> QED
      BY <1>1, <2>1, <3>2, <3>3, <3>4, <3>5, SReadStep
  <2> QED
    BY <2>2, <2>3, <1>6 DEF GetMinLoad
<1>7. CASE GetMaxLoad
  BY <1>1, <1>7, SReadStep DEF GetMaxLoad
<1> QED
  BY <1>3, <1>4, <1>5, <1>6, <1>7 DEF ServerStatistics

LEMMA CReadStep ==
    ASSUME IInv, NEW here, NEW there, CRead(here, there),
           ClientReadTypes', LoopInv', Best'
    PROVE  IInv'
<1> USE DEF CRead
<1>1. ServerReadTypes'
  BY DEF IInv, TypeOK, ServerReadTypes, sThread
<1>2. LoadInv'
  BY CountsKept DEF IInv, LoadInv, sThread, load
<1> QED
  BY <1>1, <1>2, CountsKept DEF IInv, TypeOK

LEMMA GetTotalCountsStep == ASSUME IInv, GetTotalCounts PROVE IInv'
<1> USE DEF GetTotalCounts
<1>1. CRead("total", "server") /\ cstat' = "server"
  BY DEF CRead
<1>2. ClientReadTypes'
  BY <1>1 DEF IInv, TypeOK, CountTypes, ClientReadTypes
<1>3. LoopInv' /\ Best'
  BY <1>1 DEF IInv, LoopInv, Best, Higher
<1> QED
  BY <1>1, <1>2, <1>3, CReadStep

LEMMA GetServerCountsStep == ASSUME IInv, GetServerCounts PROVE IInv'
<1> USE DEF GetServerCounts
<1>1. CRead("server", "fromBuf") /\ cstat' = "fromBuf"
  BY DEF CRead
<1>2. Minus(cRead.total, requestServerTimes) \in Nat
  BY MinusType DEF IInv, TypeOK, CountTypes, ClientReadTypes
<1>3. ClientReadTypes'
  BY <1>1, <1>2, StatisticsAssumption DEF IInv, TypeOK, ClientReadTypes, Rate
<1>4. LoopInv'
  BY StatisticsAssumption DEF LoopInv
<1>5. Best'
  BY DEF Best
<1> QED
  BY <1>1, <1>3, <1>4, <1>5, CReadStep

LEMMA GetBlockFromBufStep == ASSUME IInv, GetBlockFromBuf PROVE IInv'
<1> USE DEF GetBlockFromBuf
<1>1. CRead("fromBuf", "fromServer") /\ cstat = "fromBuf" /\ cstat' = "fromServer"
  BY DEF CRead
<1>2. i \in Client
  BY <1>1, StatisticsAssumption DEF IInv, LoopInv, TypeOK, ClientReadTypes, Client
<1>3. blocks[i].buf \in Nat
  BY <1>2 DEF IInv, TypeOK, CountTypes
<1>4. ClientReadTypes'
  BY <1>1, <1>3 DEF IInv, TypeOK, ClientReadTypes
<1>5. LoopInv' /\ Best'
  BY <1>1 DEF IInv, LoopInv, Best, Higher
<1> QED
  BY <1>1, <1>4, <1>5, CReadStep

LEMMA GetBlockFromServerStep == ASSUME IInv, GetBlockFromServer PROVE IInv'
<1> USE DEF GetBlockFromServer
<1>1. /\ CRead("fromServer", "fromClients")
      /\ cstat = "fromServer" /\ cstat' = "fromClients"
  BY DEF CRead
<1>2. i \in Client
  BY <1>1, StatisticsAssumption DEF IInv, LoopInv, TypeOK, ClientReadTypes, Client
<1>3. blocks[i].server \in Nat
  BY <1>2 DEF IInv, TypeOK, CountTypes
<1>4. ClientReadTypes'
  BY <1>1, <1>3 DEF IInv, TypeOK, ClientReadTypes
<1>5. LoopInv' /\ Best'
  BY <1>1 DEF IInv, LoopInv, Best, Higher
<1> QED
  BY <1>1, <1>4, <1>5, CReadStep

(* Rates are compared by cross-multiplication, with denominators above 0.  *)
LEMMA HigherTransitive ==
    ASSUME NEW r \in Rate, NEW m \in Rate, NEW s \in Rate, ~Higher(r, m), Higher(s, m)
    PROVE  ~Higher(r, s)
BY DEF Higher, Rate
LEMMA HigherIrreflexive == ASSUME NEW r \in Rate PROVE ~Higher(r, r)
BY DEF Higher, Rate

LEMMA GetBlockFromClientsStep == ASSUME IInv, GetBlockFromClients PROVE IInv'
<1> DEFINE totalNum == cRead.buf + cRead.server + blocks[i].clients
           rate == IF totalNum # 0 THEN <<totalNum - cRead.server, totalNum>> ELSE hitRate
<1>1. /\ cstat = "fromClients" /\ cstat' = IF i + 1 < clients THEN "fromBuf" ELSE "total"
      /\ CRead("fromClients", IF i + 1 < clients THEN "fromBuf" ELSE "total")
  BY DEF GetBlockFromClients, CRead
<1>2. i \in Client /\ i \in Nat /\ i < clients
  BY <1>1, StatisticsAssumption DEF IInv, LoopInv, TypeOK, ClientReadTypes, Client
<1>3. blocks[i].clients \in Nat /\ cRead.buf \in Nat /\ cRead.server \in Nat
  BY <1>2 DEF IInv, TypeOK, CountTypes, ClientReadTypes
<1>4. /\ hitRate \in Rate /\ maxHitRate \in Rate /\ maxClientId \in 0..clients
      /\ csamples \in Nat /\ DOMAIN ratesSeen \subseteq Client
      /\ cRead \in [total : Nat, clients : Nat, buf : Nat, server : Nat]
  BY DEF IInv, TypeOK, ClientReadTypes
<1>5. rate \in Rate
  <2>1. totalNum \in Nat /\ totalNum - cRead.server \in Nat
    BY <1>3
  <2> QED
    BY <2>1, <1>4 DEF Rate
<1>6. /\ hitRate' = rate
      /\ maxHitRate' = IF Higher(rate, maxHitRate) THEN rate ELSE maxHitRate
      /\ maxClientId' = IF Higher(rate, maxHitRate) THEN i ELSE maxClientId
      /\ ratesSeen' = IF totalNum = 0 THEN ratesSeen
                      ELSE [c \in DOMAIN ratesSeen \cup {i} |->
                               IF c = i THEN rate ELSE ratesSeen[c]]
      /\ i' = i + 1 /\ csamples' = csamples /\ cRead' = cRead
  BY DEF GetBlockFromClients, NewMax
<1> HIDE DEF rate, totalNum
<1>7. /\ DOMAIN ratesSeen \subseteq 0..(i - 1)
      /\ \A c \in DOMAIN ratesSeen :
            ratesSeen[c] \in Rate /\ ~Higher(ratesSeen[c], maxHitRate)
      /\ DOMAIN ratesSeen = 0..(i - 1) /\ maxHitRate[1] # 0 =>
            maxClientId \in 0..(i - 1) /\ ratesSeen[maxClientId] = maxHitRate
  BY DEF IInv, Best
<1>8. maxHitRate' \in Rate /\ maxClientId' \in 0..clients /\ DOMAIN ratesSeen' \subseteq Client
  <2>1. i \in 0..clients
    BY <1>2, StatisticsAssumption
  <2>2. maxHitRate' \in Rate /\ maxClientId' \in 0..clients
    BY <2>1, <1>4, <1>5, <1>6
  <2>3. DOMAIN ratesSeen' \subseteq Client
    BY <1>2, <1>4, <1>6
  <2> QED
    BY <2>2, <2>3
<1>9. ClientReadTypes'
  BY <1>1, <1>2, <1>4, <1>5, <1>6, <1>8, StatisticsAssumption DEF ClientReadTypes
<1>10. LoopInv'
  BY <1>1, <1>2, <1>6, StatisticsAssumption DEF LoopInv
<1>11. DOMAIN ratesSeen' \subseteq 0..(i' - 1)
  BY <1>2, <1>6, <1>7
<1>12. \A c \in DOMAIN ratesSeen : ~Higher(ratesSeen[c], maxHitRate')
  BY <1>4, <1>5, <1>6, <1>7, HigherTransitive
<1>13. ~Higher(rate, maxHitRate')
  BY <1>4, <1>5, <1>6, HigherIrreflexive
<1>14. ASSUME NEW c \in DOMAIN ratesSeen'
       PROVE  ratesSeen'[c] \in Rate /\ ~Higher(ratesSeen'[c], maxHitRate')
  BY <1>5, <1>6, <1>7, <1>12, <1>13
<1>15. ASSUME DOMAIN ratesSeen' = 0..(i' - 1), maxHitRate'[1] # 0
       PROVE  maxClientId' \in 0..(i' - 1) /\ ratesSeen'[maxClientId'] = maxHitRate'
  <2>1. i \notin DOMAIN ratesSeen /\ 0..(i' - 1) = 0..(i - 1) \cup {i} /\ i \notin 0..(i - 1)
    BY <1>2, <1>6, <1>7
  <2>2. /\ totalNum # 0 /\ DOMAIN ratesSeen = 0..(i - 1)
        /\ ratesSeen' = [c \in DOMAIN ratesSeen \cup {i} |->
                            IF c = i THEN rate ELSE ratesSeen[c]]
    BY <2>1, <1>6, <1>7, <1>15
  <2>3. CASE Higher(rate, maxHitRate)
    BY <2>1, <2>2, <2>3, <1>6
  <2>4. CASE ~Higher(rate, maxHitRate)
    <3>1. maxClientId' = maxClientId /\ maxHitRate' = maxHitRate
      BY <2>4, <1>6
    <3>2. maxClientId \in 0..(i - 1) /\ ratesSeen[maxClientId] = maxHitRate
      BY <3>1, <2>2, <1>7, <1>15
    <3> QED
      BY <3>1, <3>2, <2>1, <2>2
  <2> QED
    BY <2>3, <2>4
<1>16. Best'
  BY <1>11, <1>14, <1>15 DEF Best, Higher
<1> QED
  BY <1>1, <1>9, <1>10, <1>16, CReadStep

-----------------------------------------------------------------------------
LEMMA Step == IInv /\ [Next]_vars => IInv'
<1> SUFFICES ASSUME IInv, [Next]_vars PROVE IInv'
  OBVIOUS
<1>1. ASSUME NEW c \in Client, ServerThread(c) PROVE IInv'
  BY <1>1, AcceptStep, ClientRequestSegmentStep, ProvideStep, NamePeerStep,
     IncreaseCurrentLoadStep, DecreaseCurrentLoadStep DEF ServerThread
<1>2. ASSUME NEW c \in Client, ClientThread(c) PROVE IInv'
  BY <1>2, ClientThreadStep
<1>3. CASE StartStatistical
  <2> USE <1>3 DEF StartStatistical
  <2>1. ThreadTypes' /\ NewUnserved'
    BY DEF IInv, TypeOK, ThreadTypes, NewUnserved
  <2>2. CountTypes'
    BY DEF IInv, TypeOK, CountTypes, load, serverCounts, clientCounts
  <2>3. Owed' = Owed /\ Ticking' = Ticking
    BY DEF Owed, Ticking
  <2>4. RoomForOwed' /\ requestServerTimes' <= requestTotals'
    BY <2>3 DEF IInv, RoomForOwed, serverCounts, clientCounts
  <2>5. LoadInv'
    BY <2>3 DEF IInv, LoadInv, LoadBracketed, load, sThread
  <2> QED
    BY <2>1, <2>2, <2>4, <2>5, ReadsKept DEF IInv, TypeOK
<1>4. CASE ServerStatistics
  BY <1>4, ServerStatisticsStep
<1>5. CASE ClientStatistics
  BY <1>5, GetTotalCountsStep, GetServerCountsStep, GetBlockFromBufStep,
     GetBlockFromServerStep, GetBlockFromClientsStep DEF ClientStatistics
<1>6. CASE UNCHANGED vars
  <2>1. LoadInv'
    BY <1>6, CountsKept DEF IInv, LoadInv, vars, sThread, load
  <2> QED
    BY <1>6, <2>1, CountsKept, ReadsKept DEF IInv, TypeOK, vars
<1> QED
  BY <1>1, <1>2, <1>3, <1>4, <1>5, <1>6 DEF Next

(* The invariant from which the properties below follow: each request that *)
(* is still owed leaves room for one segment provided, the load is the     *)
(* number of transfers and lies in its record, and the statistics loop's   *)
(* maximum is highest among the clients it has passed.                     *)
THEOREM Invariant == Spec => []IInv
BY InitInv, Step, PTL DEF Spec

(* Every variable holds a value of its type; in particular the load, an    *)
(* unsigned counter in the code, never goes below 0, and maxClientId and   *)
(* the loop's index stay among the clients.                                *)
THEOREM TypeCorrect == Spec => []TypeOK
<1>1. IInv => TypeOK
  BY DEF IInv
<1> QED
  BY <1>1, Invariant, PTL

(* However the deliveries of any number of clients interleave, neither     *)
(* process counts more provided by the server than requested.              *)
THEOREM ProvidedWithin == Spec => []ProvidedWithinRequested
<1>1. IInv => ProvidedWithinRequested
  <2> SUFFICES ASSUME IInv PROVE ProvidedWithinRequested
    OBVIOUS
  <2>1. serverProvideSegments <= requestedSegments + early
    BY Finite DEF IInv, TypeOK, CountTypes, RoomForOwed
  <2> QED
    BY <2>1 DEF IInv, ProvidedWithinRequested
<1> QED
  BY <1>1, Invariant, PTL

(* The load lies between the minimum and the maximum on record from the    *)
(* first change that is recorded on.                                       *)
THEOREM LoadInRecord == Spec => []LoadBracketed
<1>1. IInv => LoadBracketed
  BY DEF IInv, LoadInv
<1> QED
  BY <1>1, Invariant, PTL

(* With peers a sample prints a minimum load not above its maximum.        *)
THEOREM PrintedInOrder == Spec => []LoadsInOrder
<1>1. IInv => LoadsInOrder
  BY DEF IInv, LoadInv, LoadsInOrder
<1> QED
  BY <1>1, Invariant, PTL

(* The client the client process names at the end of a sample needs the    *)
(* server least, if every client had played when it was looked at.         *)
THEOREM BestNamed == Spec => []NamesTheBest
<1>1. IInv => NamesTheBest
  <2> SUFFICES ASSUME IInv, cstat = "total", DOMAIN ratesSeen = Client
               PROVE  /\ \A c \in Client : ~Higher(ratesSeen[c], maxHitRate)
                      /\ maxHitRate[1] # 0 =>
                            maxClientId \in Client /\ ratesSeen[maxClientId] = maxHitRate
    BY DEF NamesTheBest
  <2>1. i \in 0..clients /\ DOMAIN ratesSeen \subseteq 0..(i - 1)
    BY DEF IInv, TypeOK, ClientReadTypes, Best
  <2>2. 0..(i - 1) = Client
    BY <2>1, StatisticsAssumption DEF Client
  <2> QED
    BY <2>2 DEF IInv, Best
<1> QED
  BY <1>1, Invariant, PTL

(* An unsigned difference of two counters read apart is at most the first, *)
(* if the first had not changed in between.                                *)
LEMMA MinusBounded ==
    ASSUME NEW m \in Nat, NEW n \in Nat, n <= m PROVE Minus(m, n) <= m
<1> DEFINE sum == m + Word - n
<1>1. sum \in Nat /\ sum >= Word /\ Word \in Nat \ {0} /\ sum - Word <= m
  BY StatisticsAssumption
<1>2. Minus(m, n) = sum % Word
  BY DEF Minus
<1> HIDE DEF sum
<1>3. sum % Word <= sum - Word /\ sum % Word \in Nat
  BY <1>1
<1> QED
  BY <1>1, <1>2, <1>3

(* The number of requests served by peers that a sample prints is at most  *)
(* the number of requests, unless one was counted between the two reads or *)
(* came before the server started counting.                                *)
THEOREM HitsBounded == Spec => HitsWithinTotal
<1> DEFINE Bounded ==
      /\ sRead'.clients # sRead.clients /\ requestedSegments = sRead.total /\ early = 0
            => sRead'.clients <= sRead.total
      /\ cRead'.clients # cRead.clients /\ requestTotals = cRead.total
            => cRead'.clients <= cRead.total
<1>1. ASSUME IInv, Next PROVE Bounded
  <2> USE <1>1
  <2>1. /\ sRead \in [load : Nat, total : Nat, clients : Nat, min : Nat, recorded : BOOLEAN]
        /\ cRead \in [total : Nat, clients : Nat, buf : Nat, server : Nat]
    BY DEF IInv, TypeOK, ServerReadTypes, ClientReadTypes
  <2>2. CASE GetServerProvideSegments
    <3>1. /\ serverProvideSegments \in Nat
          /\ early = 0 => serverProvideSegments <= requestedSegments
      BY Finite DEF IInv, TypeOK, CountTypes, RoomForOwed
    <3>2. sRead'.clients = Minus(sRead.total, serverProvideSegments) /\ cRead' = cRead
      BY <2>1, <2>2 DEF GetServerProvideSegments, SRead, cThread
    <3> QED
      BY <2>1, <3>1, <3>2, MinusBounded
  <2>3. CASE GetServerCounts
    <3>1. requestServerTimes \in Nat /\ requestServerTimes <= requestTotals
      BY DEF IInv, TypeOK, CountTypes
    <3>2. cRead'.clients = Minus(cRead.total, requestServerTimes) /\ sRead' = sRead
      BY <2>1, <2>3 DEF GetServerCounts, CRead, sThread
    <3> QED
      BY <2>1, <3>1, <3>2, MinusBounded
  <2>4. CASE sRead' = sRead /\ cRead' = cRead
    BY <2>4
  <2>5. CASE GetCurrentLoad \/ GetRequestedSegments \/ GetMinLoad \/ GetMaxLoad
    <3>1. cRead' = cRead
      BY <2>5 DEF GetCurrentLoad, GetRequestedSegments, GetMinLoad, GetMaxLoad, SRead, cThread
    <3>2. sRead'.clients = sRead.clients
      BY <2>1, <2>5 DEF GetCurrentLoad, GetRequestedSegments, GetMinLoad, GetMaxLoad, ReadsMin
    <3> QED
      BY <3>1, <3>2
  <2>6. CASE GetTotalCounts \/ GetBlockFromBuf \/ GetBlockFromServer \/ GetBlockFromClients
    <3>1. sRead' = sRead
      BY <2>6 DEF GetTotalCounts, GetBlockFromBuf, GetBlockFromServer, GetBlockFromClients,
                  CRead, sThread
    <3>2. cRead'.clients = cRead.clients
      BY <2>1, <2>6 DEF GetTotalCounts, GetBlockFromBuf, GetBlockFromServer, GetBlockFromClients
    <3> QED
      BY <3>1, <3>2
  <2>7. ASSUME NEW c \in Client, ServerThread(c) \/ ClientThread(c)
        PROVE  sRead' = sRead /\ cRead' = cRead
    <3>1. CASE ServerThread(c)
      BY <3>1 DEF ServerThread, Accept, ClientRequestSegment, Provide, NamePeer,
                  IncreaseCurrentLoad, DecreaseCurrentLoad, Serve, sThread, cThread
    <3>2. CASE ClientThread(c)
      BY <3>2 DEF ClientThread, Play, IncreaseServerCounts, IncreaseBlockFromServer, PeerMiss,
                  IncreaseTotalCounts, IncreaseBlockFromClient, Fetch, sThread, cThread
    <3> QED
      BY <2>7, <3>1, <3>2
  <2>8. StartStatistical => sRead' = sRead /\ cRead' = cRead
    BY DEF StartStatistical, sThread, cThread
  <2> QED
    BY <2>2, <2>3, <2>4, <2>5, <2>6, <2>7, <2>8 DEF Next, ServerStatistics, ClientStatistics
<1>2. IInv /\ [Next]_vars => [Bounded]_vars
  BY <1>1
<1> QED
  BY <1>2, Invariant, PTL DEF Spec, HitsWithinTotal
=============================================================================
