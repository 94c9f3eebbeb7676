----------------------------- MODULE Statistics -----------------------------
(***************************************************************************)
(* What the two statistics threads print while segments are delivered:     *)
(* Server::doStatistical (load, its record, the share of requests peers    *)
(* served) and ClientManager::doStatistical (the same share as the client  *)
(* process counts it, and the client that needs the server least).         *)
(*                                                                         *)
(* Each counter has a mutex but each is read in a critical section of its  *)
(* own, so what is printed together was not true together.  A delivery is  *)
(* reduced to the counters it changes, in the order the code changes them, *)
(* with the server's choice between itself and a peer, and the peer's      *)
(* miss, left open; bands and buffers are in SegmentDelivery.  Every       *)
(* thread may stop anywhere, so exit(1) needs no action of its own.  As    *)
(* neither statistics thread writes anything another thread reads, a       *)
(* behaviour follows only one of the two.                                  *)
(***************************************************************************)
EXTENDS Naturals, FiniteSets

CONSTANTS
    clients,       \* the number of clients; they are 0 .. clients-1
    clientNumber,  \* the number of clients the SERVER's configuration names
    Word,          \* 2^64 in the code: unsigned longs are modulo this
    MaxPlays,      \* bound: segments each client plays, by client
    MaxSamples     \* bound: samples of each statistics thread

Client == 0..(clients - 1)

ASSUME StatisticsAssumption ==
    /\ clients \in Nat \ {0} /\ clientNumber \in Nat
    /\ Word \in Nat \ {0} /\ MaxSamples \in Nat /\ MaxPlays \in [Client -> Nat]

VARIABLES
    isP2pOpen, followed,   \* the server's mode; whose statistics are followed
    cpc, plays,            \* each client's thread, and segments it has played
    spc,                   \* the server's thread for each client
    startedUser, startRecord, startedStatistical,
    currentLoad, maxLoad, minLoad,
    requestedSegments, serverProvideSegments,
    requestTotals, requestServerTimes,
    blocks,                \* blockFromBuf, blockFromServer, blockFromClients
    sstat, ssamples,       \* the server's statistics thread: next read, samples
    sRead,                 \* what its sample has read
    cstat, csamples,       \* the client process's: next read, samples begun
    i,                     \* its loop over the clients
    cRead,                 \* what its sample has read
    hitRate, maxHitRate,   \* rates as <<numerator, denominator>>
    maxClientId,
    ratesSeen,             \* history: the rates of this sample, by client
    early                  \* history: requests before startedStatistical was set
serverCounts == <<requestedSegments, serverProvideSegments, early>>
clientCounts == <<requestTotals, requestServerTimes, blocks>>
load    == <<currentLoad, maxLoad, minLoad>>
started == <<isP2pOpen, followed, startedUser, startRecord, startedStatistical>>
sThread == <<sstat, ssamples, sRead>>
cThread == <<cstat, csamples, i, cRead, hitRate, maxHitRate, maxClientId, ratesSeen>>
vars == <<started, cpc, plays, spc, load, serverCounts, clientCounts, sThread, cThread>>

-----------------------------------------------------------------------------
(* Faults: each a plausible bug in the operator named beside it.           *)
MinusSigned(m, n) == m - n                                                \* Minus
provideTwice      == serverProvideSegments' = serverProvideSegments + 2  \* serverProvideSegment
maxUnlessRecorded == startRecord /\ maxLoad = 0                           \* raisesMax
LowerThanMax(r)   == maxHitRate[1] * r[2] > r[1] * maxHitRate[2]          \* NewMax

-----------------------------------------------------------------------------
NoMin == 10000               \* minLoad before a load is recorded
Higher(r, s) == r[1] * s[2] > s[1] * r[2]
Minus(m, n)  == (m + Word - n) % Word

Init ==
    /\ isP2pOpen \in BOOLEAN /\ followed \in {"server", "clients"}
    /\ cpc = [c \in Client |-> "new"] /\ plays = [c \in Client |-> 0]
    /\ spc = [c \in Client |-> "none"]
    /\ startedUser = 0 /\ startRecord = FALSE
    /\ startedStatistical = (followed = "clients") /\ early = 0
    /\ currentLoad = 0 /\ maxLoad = 0 /\ minLoad = NoMin
    /\ requestedSegments = 0 /\ serverProvideSegments = 0
    /\ requestTotals = 0 /\ requestServerTimes = 0
    /\ blocks = [c \in Client |-> [buf |-> 0, server |-> 0, clients |-> 0]]
    /\ sstat = "load" /\ ssamples = 0
    /\ sRead = [load |-> 0, total |-> 0, clients |-> 0, min |-> NoMin, recorded |-> FALSE]
    /\ cstat = "total" /\ csamples = 0 /\ i = 0
    /\ cRead = [total |-> 0, clients |-> 0, buf |-> 0, server |-> 0]
    /\ hitRate \in {<<0, 1>>, <<2, 1>>}          \* not initialised in the code
    /\ maxHitRate = <<0, 1>>
    /\ maxClientId = clients                     \* not initialised in the code
    /\ ratesSeen = [c \in {} |-> <<0, 1>>]

-----------------------------------------------------------------------------
(* The server: startVodServer accepts, messageProcess counts and provides. *)
Accept(c) ==
    /\ cpc[c] = "new"
    /\ cpc' = [cpc EXCEPT ![c] = "play"]
    /\ spc' = [spc EXCEPT ![c] = "idle"]
    /\ startedUser' = startedUser + 1
    /\ startRecord' = (startRecord \/ startedUser' >= clientNumber)
    /\ UNCHANGED <<isP2pOpen, followed, startedStatistical, plays, load, serverCounts, clientCounts, sThread, cThread>>

(* initServer starts the threads that serve clients first, and then counts. *)
StartStatistical ==
    /\ ~startedStatistical
    /\ startedStatistical' = TRUE
    /\ UNCHANGED <<isP2pOpen, followed, startedUser, startRecord, cpc, plays, spc, load,
                   serverCounts, clientCounts, sThread, cThread>>

Serve(c, here, there) ==
    /\ spc[c] = here
    /\ spc' = [spc EXCEPT ![c] = there]
    /\ UNCHANGED <<started, plays, clientCounts, sThread, cThread>>

serverProvideSegment == serverProvideSegments' = serverProvideSegments + 1
Counting == startedStatistical /\ isP2pOpen
ProvideIfCounting == IF Counting THEN serverProvideSegment
                                 ELSE UNCHANGED serverProvideSegments

ClientRequestSegment(c) ==
    /\ Serve(c, "idle", "lookup") /\ cpc[c] = "segment"
    /\ requestedSegments' = requestedSegments + (IF Counting THEN 1 ELSE 0)
    /\ early' = early + (IF startedStatistical THEN 0 ELSE 1)
    /\ UNCHANGED <<cpc, load, serverProvideSegments>>

(* The server provides: no peer has it, or there are no peers to look for, *)
(* or the client asks again.                                               *)
Provide(c) ==
    /\ \/ Serve(c, "lookup", "replied")
       \/ Serve(c, "idle", "replied") /\ cpc[c] = "again"
    /\ ProvideIfCounting
    /\ cpc' = [cpc EXCEPT ![c] = "fromServer"]
    /\ UNCHANGED <<load, requestedSegments, early>>

NamePeer(c) ==
    /\ isP2pOpen
    /\ Serve(c, "lookup", "idle")
    /\ cpc' = [cpc EXCEPT ![c] = "fromPeer"]
    /\ UNCHANGED <<load, serverCounts>>

(* sendTimeTicks: the load, with its record under the same mutex.          *)
raisesMax == startRecord /\ currentLoad + 1 > maxLoad
lowersMin == startRecord /\ currentLoad - 1 < minLoad
IncreaseCurrentLoad(c) ==
    /\ Serve(c, "replied", "ticking")
    /\ currentLoad' = currentLoad + 1
    /\ maxLoad' = IF raisesMax THEN currentLoad + 1 ELSE maxLoad
    /\ UNCHANGED <<cpc, minLoad, serverCounts>>
DecreaseCurrentLoad(c) ==
    /\ Serve(c, "ticking", "idle")
    /\ currentLoad' = currentLoad - 1
    /\ minLoad' = IF lowersMin THEN currentLoad - 1 ELSE minLoad
    /\ UNCHANGED <<cpc, maxLoad, serverCounts>>

ServerThread(c) == \/ Accept(c) \/ ClientRequestSegment(c) \/ Provide(c) \/ NamePeer(c)
                   \/ IncreaseCurrentLoad(c) \/ DecreaseCurrentLoad(c)

-----------------------------------------------------------------------------
(* The client's thread: what requestFileSegments and playSegment count.    *)
Fetch(c, here, there) ==
    /\ cpc[c] = here
    /\ cpc' = [cpc EXCEPT ![c] = there]
    /\ UNCHANGED <<started, spc, load, serverCounts, sThread, cThread>>

Play(c) ==
    /\ plays[c] < MaxPlays[c]
    /\ plays' = [plays EXCEPT ![c] = @ + 1]
    /\ \/ /\ Fetch(c, "play", "play")            \* from the client's own buffer
          /\ blocks' = [blocks EXCEPT ![c].buf = @ + 1]
       \/ Fetch(c, "play", "segment") /\ UNCHANGED blocks
    /\ UNCHANGED <<requestTotals, requestServerTimes>>

increaseServerCounts == /\ requestServerTimes' = requestServerTimes + 1
                        /\ requestTotals' = requestTotals + 1
IncreaseServerCounts(c) ==
    /\ Fetch(c, "fromServer", "tallyServer")
    /\ increaseServerCounts
    /\ UNCHANGED <<plays, blocks>>
IncreaseBlockFromServer(c) ==
    /\ Fetch(c, "tallyServer", "play")
    /\ blocks' = [blocks EXCEPT ![c].server = @ + 1]
    /\ UNCHANGED <<plays, requestTotals, requestServerTimes>>

PeerMiss(c) ==
    Fetch(c, "fromPeer", "again") /\ UNCHANGED <<plays, clientCounts>>
IncreaseTotalCounts(c) ==
    /\ Fetch(c, "fromPeer", "tallyClients")
    /\ requestTotals' = requestTotals + 1
    /\ UNCHANGED <<plays, blocks, requestServerTimes>>
IncreaseBlockFromClient(c) ==
    /\ Fetch(c, "tallyClients", "play")
    /\ blocks' = [blocks EXCEPT ![c].clients = @ + 1]
    /\ UNCHANGED <<plays, requestTotals, requestServerTimes>>

ClientThread(c) == \/ Play(c) \/ IncreaseServerCounts(c) \/ IncreaseBlockFromServer(c)
                   \/ PeerMiss(c) \/ IncreaseTotalCounts(c) \/ IncreaseBlockFromClient(c)

-----------------------------------------------------------------------------
(* Server::doStatistical, one read after the other.  startRecord is read   *)
(* without the mutex.                                                      *)
SRead(here, there) ==
    /\ sstat = here
    /\ sstat' = there
    /\ UNCHANGED <<started, cpc, plays, spc, load, serverCounts, clientCounts, cThread>>

GetCurrentLoad ==
    /\ followed = "server" /\ startedStatistical /\ ssamples < MaxSamples
    /\ SRead("load", IF isP2pOpen THEN "total" ELSE "record")
    /\ ssamples' = ssamples + 1
    /\ sRead' = [sRead EXCEPT !.load = currentLoad]
GetRequestedSegments ==
    /\ SRead("total", "provided")
    /\ sRead' = [sRead EXCEPT !.total = requestedSegments]
    /\ UNCHANGED ssamples
GetServerProvideSegments ==
    /\ SRead("provided", "record")
    /\ sRead' = [sRead EXCEPT !.clients = Minus(sRead.total, serverProvideSegments)]
    /\ UNCHANGED ssamples
(* minLoad, then maxLoad; without peers both are operands of one statement *)
(* and are read in either order.                                           *)
ReadsMin == sRead' = [sRead EXCEPT !.min = minLoad, !.recorded = maxLoad > 0]
GetMinLoad ==
    /\ \/ startRecord /\ SRead("record", "max") /\ ReadsMin
       \/ ~startRecord /\ SRead("record", "load") /\ UNCHANGED sRead
       \/ SRead("min", "load") /\ ReadsMin
    /\ UNCHANGED ssamples
GetMaxLoad ==
    /\ \/ SRead("max", "load")
       \/ startRecord /\ ~isP2pOpen /\ SRead("record", "min")
    /\ UNCHANGED <<ssamples, sRead>>

ServerStatistics == \/ GetCurrentLoad \/ GetRequestedSegments \/ GetServerProvideSegments
                    \/ GetMinLoad \/ GetMaxLoad

-----------------------------------------------------------------------------
(* ClientManager::doStatistical.  hitRate keeps its value when a client    *)
(* has played nothing, from the client before it or the sample before.     *)
CRead(here, there) ==
    /\ cstat = here
    /\ cstat' = there
    /\ UNCHANGED <<started, cpc, plays, spc, load, serverCounts, clientCounts, sThread>>

GetTotalCounts ==
    /\ followed = "clients" /\ csamples < MaxSamples
    /\ CRead("total", "server")
    /\ csamples' = csamples + 1
    /\ cRead' = [cRead EXCEPT !.total = requestTotals]
    /\ UNCHANGED <<i, hitRate, maxHitRate, maxClientId, ratesSeen>>
GetServerCounts ==
    /\ CRead("server", "fromBuf")
    /\ cRead' = [cRead EXCEPT !.clients = Minus(cRead.total, requestServerTimes)]
    /\ maxHitRate' = <<0, 1>>
    /\ i' = 0
    /\ ratesSeen' = [c \in {} |-> <<0, 1>>]
    /\ UNCHANGED <<csamples, hitRate, maxClientId>>
GetBlockFromBuf ==
    /\ CRead("fromBuf", "fromServer")
    /\ cRead' = [cRead EXCEPT !.buf = blocks[i].buf]
    /\ UNCHANGED <<csamples, i, hitRate, maxHitRate, maxClientId, ratesSeen>>
GetBlockFromServer ==
    /\ CRead("fromServer", "fromClients")
    /\ cRead' = [cRead EXCEPT !.server = blocks[i].server]
    /\ UNCHANGED <<csamples, i, hitRate, maxHitRate, maxClientId, ratesSeen>>

NewMax(r) == Higher(r, maxHitRate)
GetBlockFromClients ==
    LET totalNum == cRead.buf + cRead.server + blocks[i].clients
        rate == IF totalNum # 0 THEN <<totalNum - cRead.server, totalNum>> ELSE hitRate
    IN /\ CRead("fromClients", IF i + 1 < clients THEN "fromBuf" ELSE "total")
       /\ hitRate' = rate
       /\ maxHitRate' = IF NewMax(rate) THEN rate ELSE maxHitRate
       /\ maxClientId' = IF NewMax(rate) THEN i ELSE maxClientId
       /\ ratesSeen' = IF totalNum = 0 THEN ratesSeen
                       ELSE [c \in DOMAIN ratesSeen \cup {i} |->
                                IF c = i THEN rate ELSE ratesSeen[c]]
       /\ i' = i + 1
       /\ UNCHANGED <<csamples, cRead>>

ClientStatistics == \/ GetTotalCounts \/ GetServerCounts \/ GetBlockFromBuf
                    \/ GetBlockFromServer \/ GetBlockFromClients

-----------------------------------------------------------------------------
Next == \/ \E c \in Client : ServerThread(c) \/ ClientThread(c)
        \/ StartStatistical
        \/ ServerStatistics \/ ClientStatistics
Spec == Init /\ [][Next]_vars

-----------------------------------------------------------------------------
Rate == Nat \X (Nat \ {0})

ThreadTypes ==
    /\ isP2pOpen \in BOOLEAN /\ followed \in {"server", "clients"}
    /\ startedUser \in Nat /\ startRecord \in BOOLEAN /\ startedStatistical \in BOOLEAN
    /\ cpc \in [Client -> {"new", "play", "segment", "fromServer", "tallyServer",
                           "fromPeer", "again", "tallyClients"}]
    /\ spc \in [Client -> {"none", "idle", "lookup", "replied", "ticking"}]
    /\ plays \in [Client -> Nat]
CountTypes ==
    /\ currentLoad \in Nat /\ maxLoad \in Nat /\ minLoad \in Nat
    /\ requestedSegments \in Nat /\ serverProvideSegments \in Nat /\ early \in Nat
    /\ requestTotals \in Nat /\ requestServerTimes \in Nat
    /\ blocks \in [Client -> [buf : Nat, server : Nat, clients : Nat]]
ServerReadTypes ==
    /\ sstat \in {"load", "total", "provided", "record", "min", "max"} /\ ssamples \in Nat
    /\ sRead \in [load : Nat, total : Nat, clients : Nat, min : Nat, recorded : BOOLEAN]
ClientReadTypes ==
    /\ cstat \in {"total", "server", "fromBuf", "fromServer", "fromClients"}
    /\ csamples \in Nat /\ i \in 0..clients
    /\ cRead \in [total : Nat, clients : Nat, buf : Nat, server : Nat]
    /\ hitRate \in Rate /\ maxHitRate \in Rate /\ maxClientId \in 0..clients
    /\ DOMAIN ratesSeen \subseteq Client

(* Every variable holds a value of its type. *)
TypeOK == ThreadTypes /\ CountTypes /\ ServerReadTypes /\ ClientReadTypes

(* The server never counts more segments provided than requested, though   *)
(* a segment can be asked for twice and is provided in another critical    *)
(* section than it is counted in - but for requests that came before it    *)
(* started counting.  Nor does the client process.                         *)
ProvidedWithinRequested ==
    /\ serverProvideSegments <= requestedSegments + early
    /\ requestServerTimes <= requestTotals

(* The load's record brackets the load from the first change on that is    *)
(* recorded: startRecord is set by the accepting thread without the mutex, *)
(* at any load, and maxLoad and minLoad start far outside.                 *)
LoadBracketed ==
    /\ maxLoad # 0 => currentLoad <= maxLoad
    /\ minLoad # NoMin => minLoad <= currentLoad

(* The two loads printed together with peers are in order, although read   *)
(* one after the other, if a maximum was on record when the minimum was    *)
(* read.  (Without peers the reads may come the other way round.)          *)
LoadsInOrder ==
    sstat = "max" /\ sRead.recorded /\ sRead.min # NoMin => sRead.min <= maxLoad

(* The number of requests peers served, an unsigned difference of two      *)
(* counters read apart, is at most the number of requests - in each        *)
(* process, unless a request was counted between the reads or came before  *)
(* the server started counting.                                            *)
HitsWithinTotal ==
    [][/\ sRead'.clients # sRead.clients /\ requestedSegments = sRead.total /\ early = 0
             => sRead'.clients <= sRead.total
       /\ cRead'.clients # cRead.clients /\ requestTotals = cRead.total
             => cRead'.clients <= cRead.total]_vars

(* The client a sample names is one whose rate is highest, if every client *)
(* had played when it was looked at and some rate is above 0.  (Otherwise  *)
(* it may be one that played nothing, by a rate left from the last sample, *)
(* or any number at all.)                                                  *)
NamesTheBest ==
    cstat = "total" /\ DOMAIN ratesSeen = Client =>
        /\ \A c \in Client : ~Higher(ratesSeen[c], maxHitRate)
        /\ maxHitRate[1] # 0 =>
              /\ maxClientId \in Client /\ ratesSeen[maxClientId] = maxHitRate
=============================================================================
