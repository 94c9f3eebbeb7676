--------------------------- MODULE SegmentDelivery ---------------------------
(***************************************************************************)
(* How a segment of a video reaches a client: the client's own buffer, a   *)
(* peer the server's directory names, or the server itself.                *)
(*                                                                         *)
(* Actors: one thread per client (client.cpp), one thread of the server    *)
(* per client connection (Server::receiveMessage, server.cpp), and the     *)
(* one manager thread of the server, which reads the clients' heartbeats   *)
(* and buffer updates from a second connection per client.  All clients    *)
(* are threads of ONE process, so exit(1) in any of them ends them all,    *)
(* and a peer fetch is a call into the peer's Client object.               *)
(*                                                                         *)
(* An action is what a thread does up to and including its next access to  *)
(* state another actor reads: a mutex-protected section, a socket          *)
(* operation or an SQL statement.  Sleeping is the gap between actions.    *)
(* The five replacement strategies differ in the block they evict; here    *)
(* the victim is any buffered block.  Peer-to-peer mode is on.             *)
(***************************************************************************)
EXTENDS Integers, Sequences, FiniteSets

CONSTANTS
    Client,      \* identifiers of the client threads, 0 .. clientNumber-1
    File,        \* identifiers of the videos in ivod_video_t
    Sid,         \* segment numbers the clients play
    BitRate,     \* the bit rate of each video
    RequestFile, \* the video each client was started on (requestFileId)
    BlockNum,    \* blocks a buffer holds (bufManager::_blockNum)
    ClientBand,  \* bandwidth of every client
    ServerBand,  \* bandwidth of the server
    SERVERID,    \* the reply that names the server itself
    MaxPlays,    \* bound: segments each client plays before it stops
    MaxQueue     \* bound: manager messages the socket buffers hold

MessageType == 0..6  \* REQUESTRESOURCE .. CLIENTQUIT (see HandleManager)

ASSUME DeliveryAssumption ==
    /\ Client \subseteq File          \* sendTimeTicks looks a client id up as a video
    /\ BitRate \in [File -> Nat \ {0}]
    /\ RequestFile \in [Client -> File]
    /\ Sid # {} /\ BlockNum \in Nat \ {0}
    /\ ClientBand \in Nat /\ ServerBand \in Nat
    /\ SERVERID \notin Client
    /\ MaxPlays \in [Client -> Nat] /\ MaxQueue \in Nat \ {0}

Segment == File \X Sid

VARIABLES
    pc, stage,            \* where each client thread is; which write it is in
    requestSegment,       \* the segment each client wants
    peer, victim, beat,   \* locals: chosen peer, block evicted, band read
    plays,                \* segments played so far (bounded by MaxPlays[c])
    buf,                  \* bufmanager: the blocks each client holds
    availableBand,        \* Client::availableBand
    blocks,               \* Client::blockFromBuf, blockFromServer, blockFromClients
    requestTotals, requestServerTimes,         \* ClientManager's counters
    request, reply,       \* the two directions of each client's connection
    managerSock,          \* heartbeats and buffer updates under way, per client
    chunk,                \* messages of the manager thread's last recv still to handle
    misread,              \* history: clients of whose messages it has misread some
    derailed,             \* a misread word passed for a type: ManagerStream's subject
    serving,              \* Server thread of each connection: idle, reply sent, ticking
    client_info,          \* availableBand column of the registered clients
    ivod_seg_t,           \* rows <<client, segment>> of the directory
    availableBandwidth, currentLoad, requestedSegments, serverProvideSegments,
    clientUp, serverUp    \* FALSE once the process has called exit(1)

clientLocals == <<stage, peer, victim, beat>>
counters     == <<plays, blocks, requestTotals, requestServerTimes>>
directory    == <<client_info, ivod_seg_t>>
reading      == <<chunk, misread, derailed>>
serverState  == <<serving, directory, reading, availableBandwidth, currentLoad,
                  requestedSegments, serverProvideSegments, serverUp>>
vars == <<pc, requestSegment, clientLocals, counters, buf, availableBand, request,
          reply, managerSock, serverState, clientUp>>

-----------------------------------------------------------------------------
(* Faults.  No action uses these: each is a plausible bug in the operator  *)
(* named beside it, put in its place to see which property notices.        *)
SegReqOnce(k, s)        == [kind |-> "segment", seg |-> s]          \* SegReq
VodHostOrder(id)        == [kind |-> "vod", from |-> id + 1]        \* Vod
UpdateAdd(k, s)         == [kind |-> "add", seg |-> s]              \* Update
haveNothing(c, s)       == FALSE                                    \* haveSegment
readUnchecked(c, s)     == TRUE                                     \* readFileSegment
OverFull(c)             == Cardinality(buf[c]) > BlockNum           \* Full
LeaseUnchecked(c, rate) == TRUE                                     \* CanLease
ReturnNothing(c, rate)  == availableBand' = availableBand           \* Return
provideUncounted        == UNCHANGED serverProvideSegments          \* serverProvideSegment

-----------------------------------------------------------------------------
NoBand   == -1                                   \* client not in client_info
NoMsg    == [kind |-> "none"]
Resource == [kind |-> "resource"]
Info     == [kind |-> "info"]
SegReq(k, s) == [kind |-> k, seg |-> s]          \* k: "segment" or "again"
Vod(id)      == [kind |-> "vod", from |-> id]
Beat(b)      == [kind |-> "beat", band |-> b]
Update(k, s) == [kind |-> k, seg |-> s]          \* k: "add" or "eliminate"

Request == {NoMsg, Resource} \cup [kind : {"segment", "again"}, seg : Segment]
Reply   == {NoMsg, Info} \cup [kind : {"vod"}, from : Client \cup {SERVERID}]
Manager == [kind : {"beat"}, band : Int] \cup [kind : {"add", "eliminate"}, seg : Segment]

Rate(c)     == BitRate[RequestFile[c]]           \* requestFileBitRate
TickRate(c) == BitRate[c]                        \* the server's: video number clientId

registered == {c \in Client : client_info[c] # NoBand}

(* getFileSegInfo: the registered holders, then those of the largest band. *)
Holders(s) == {p \in registered : <<p, s>> \in ivod_seg_t}
Best(S)    == {p \in S : \A q \in S : client_info[q] <= client_info[p]}

(* The buffer, as every strategy implements it. *)
haveSegment(c, s)     == s \in buf[c]
readFileSegment(c, s) == s \in buf[c]           \* also moves s in the order of eviction
Full(c)               == Cardinality(buf[c]) >= BlockNum

Goto(c, l) == pc' = [pc EXCEPT ![c] = l]
Send(c, m) == /\ Len(managerSock[c]) < MaxQueue
              /\ managerSock' = [managerSock EXCEPT ![c] = Append(@, m)]
CanLease(c, rate) == availableBand[c] > rate     \* decreaseAvailableBand: strictly
Lease(c, rate)    == availableBand' = [availableBand EXCEPT ![c] = @ - rate]
Return(c, rate)   == availableBand' = [availableBand EXCEPT ![c] = @ + rate]
                     \* its exit(1) above bandwidth: see BandLedger

(* The counters of the two processes, and the server's band and load.      *)
increaseBlockFromBuf(c)    == blocks' = [blocks EXCEPT ![c].buf = @ + 1]
increaseBlockFromServer(c) == blocks' = [blocks EXCEPT ![c].server = @ + 1]
increaseBlockFromClient(c) == blocks' = [blocks EXCEPT ![c].clients = @ + 1]
increaseTotalCounts  == requestTotals' = requestTotals + 1
increaseServerCounts == /\ requestServerTimes' = requestServerTimes + 1
                        /\ requestTotals' = requestTotals + 1
clientRequestSegment == requestedSegments' = requestedSegments + 1
serverProvideSegment == serverProvideSegments' = serverProvideSegments + 1
decreaseAvailableBand(rate) == availableBandwidth' = availableBandwidth - rate
increaseAvailableBand(rate) == availableBandwidth' = availableBandwidth + rate
increaseCurrentLoad == currentLoad' = currentLoad + 1
decreaseCurrentLoad == currentLoad' = currentLoad - 1

(* The directory's statements: a client is registered once, a heartbeat of *)
(* an unregistered one updates nothing, a second equal row is refused.     *)
insertP2pClient(c) ==
    client_info' = [client_info EXCEPT ![c] = IF @ = NoBand THEN ClientBand ELSE @]
updateP2pClient(c, m) ==
    client_info' = [client_info EXCEPT ![c] = IF m.kind = "beat" /\ @ # NoBand
                                              THEN m.band ELSE @]
insertFileSegment(c, s) == ivod_seg_t \cup {<<c, s>>}
deleteFileSegment(c, s) == ivod_seg_t \ {<<c, s>>}

Init ==
    /\ pc = [c \in Client |-> "new"]
    /\ stage = [c \in Client |-> "server"]
    /\ requestSegment = [c \in Client |-> <<RequestFile[c], CHOOSE i \in Sid : TRUE>>]
    /\ peer = [c \in Client |-> c]
    /\ victim = requestSegment
    /\ beat = [c \in Client |-> 0]
    /\ plays = [c \in Client |-> 0]
    /\ buf = [c \in Client |-> {}]
    /\ availableBand = [c \in Client |-> ClientBand]
    /\ blocks = [c \in Client |-> [buf |-> 0, server |-> 0, clients |-> 0]]
    /\ requestTotals = 0 /\ requestServerTimes = 0
    /\ request = [c \in Client |-> NoMsg]
    /\ reply = [c \in Client |-> NoMsg]
    /\ managerSock = [c \in Client |-> <<>>]
    /\ chunk = [c \in Client |-> 0] /\ misread = {} /\ derailed = FALSE
    /\ serving = [c \in Client |-> "idle"]
    /\ client_info = [c \in Client |-> NoBand]   \* resetClient
    /\ ivod_seg_t = {}                           \* resetClientSegment
    /\ availableBandwidth = ServerBand /\ currentLoad = 0
    /\ requestedSegments = 0 /\ serverProvideSegments = 0
    /\ clientUp = TRUE /\ serverUp = TRUE

-----------------------------------------------------------------------------
(* Run: ask for the video, and be registered by the server's reply.        *)
Run(c) ==
    /\ pc[c] = "new"
    /\ request' = [request EXCEPT ![c] = Resource]
    /\ Goto(c, "resource")
    /\ UNCHANGED <<requestSegment, clientLocals, counters, buf, availableBand, reply,
                   managerSock, serverState, clientUp>>

ReceiveInfo(c) ==
    /\ pc[c] = "resource" /\ reply[c] = Info
    /\ reply' = [reply EXCEPT ![c] = NoMsg]
    /\ Goto(c, "play")
    /\ UNCHANGED <<requestSegment, clientLocals, counters, buf, availableBand, request,
                   managerSock, serverState, clientUp>>

(* playSegment: the life circle decides which segment comes next. *)
WantSegment(c, s) ==
    /\ pc[c] = "play" /\ plays[c] < MaxPlays[c]
    /\ s[1] = RequestFile[c]
    /\ requestSegment' = [requestSegment EXCEPT ![c] = s]
    /\ \/ /\ haveSegment(c, s)
          /\ increaseBlockFromBuf(c)
          /\ plays' = [plays EXCEPT ![c] = @ + 1]
          /\ UNCHANGED <<pc, request>>
       \/ /\ ~haveSegment(c, s)
          /\ request' = [request EXCEPT ![c] = SegReq("segment", s)]
          /\ Goto(c, "segment")
          /\ UNCHANGED <<blocks, plays>>
    /\ UNCHANGED <<clientLocals, requestTotals, requestServerTimes, buf, availableBand,
                   reply, managerSock, serverState, clientUp>>

(* The loop of clientLifeCircle ends: the thread returns, saying nothing. *)
Stop(c) ==
    /\ pc[c] = "play"
    /\ Goto(c, "stop")
    /\ UNCHANGED <<requestSegment, clientLocals, counters, buf, availableBand, request,
                   reply, managerSock, serverState, clientUp>>

(* The reply names the server: count it and lease the client's own band,   *)
(* or exit(1) when there is not enough of it.                              *)
ReceiveServerReply(c) ==
    /\ pc[c] \in {"segment", "again"} /\ reply[c] = Vod(SERVERID)
    /\ reply' = [reply EXCEPT ![c] = NoMsg]
    /\ increaseServerCounts
    /\ \/ /\ CanLease(c, Rate(c))
          /\ Lease(c, Rate(c))
          /\ stage' = [stage EXCEPT ![c] = "server"]
          /\ Goto(c, "write")
          /\ UNCHANGED clientUp
       \/ /\ ~CanLease(c, Rate(c))
          /\ clientUp' = FALSE
          /\ UNCHANGED <<availableBand, stage, pc>>
    /\ UNCHANGED <<requestSegment, peer, victim, beat, plays, blocks, buf, request,
                   managerSock, serverState>>

(* The reply names a peer.  A second such reply, to REQUESTSEGMENTAGAIN,   *)
(* is "should get the resource from server!" and exit(1).                  *)
ReceivePeerReply(c) ==
    /\ pc[c] \in {"segment", "again"}
    /\ reply' = [reply EXCEPT ![c] = NoMsg]
    /\ \E p \in Client :
         /\ reply[c] = Vod(p)
         /\ \/ /\ pc[c] = "segment" /\ CanLease(c, Rate(c))
               /\ Lease(c, Rate(c))
               /\ peer' = [peer EXCEPT ![c] = p]
               /\ Goto(c, "ask")
               /\ UNCHANGED clientUp
            \/ /\ pc[c] = "segment" => ~CanLease(c, Rate(c))
               /\ clientUp' = FALSE
               /\ UNCHANGED <<availableBand, peer, pc>>
    /\ UNCHANGED <<requestSegment, stage, victim, beat, counters, buf, request,
                   managerSock, serverState>>

(* receiveRequest, first half: look into the peer's buffer.  On a miss the *)
(* client gives its own band back and turns to the server.                 *)
AskPeer(c) ==
    /\ pc[c] = "ask"
    /\ \/ /\ readFileSegment(peer[c], requestSegment[c])
          /\ Goto(c, "lease")
          /\ UNCHANGED <<availableBand, request>>
       \/ /\ ~readFileSegment(peer[c], requestSegment[c])
          /\ Return(c, Rate(c))
          /\ request' = [request EXCEPT ![c] = SegReq("again", requestSegment[c])]
          /\ Goto(c, "again")
    /\ UNCHANGED <<requestSegment, clientLocals, counters, buf, reply, managerSock,
                   serverState, clientUp>>

(* receiveRequest, second half: lease the peer's band at the requester's   *)
(* rate, or exit(1).                                                       *)
LeasePeer(c) ==
    /\ pc[c] = "lease"
    /\ \/ /\ CanLease(peer[c], Rate(c))
          /\ Lease(peer[c], Rate(c))
          /\ Goto(c, "read1")
          /\ UNCHANGED clientUp
       \/ /\ ~CanLease(peer[c], Rate(c))
          /\ clientUp' = FALSE
          /\ UNCHANGED <<availableBand, pc>>
    /\ UNCHANGED <<requestSegment, clientLocals, counters, buf, request, reply,
                   managerSock, serverState>>

(* sendCurrentLoad, twice, the transfer in between: the peer's band is     *)
(* read under its mutex and written to its manager connection without it.  *)
ReadBand(c) ==
    /\ pc[c] \in {"read1", "read2"}
    /\ beat' = [beat EXCEPT ![c] = availableBand[peer[c]]]
    /\ Goto(c, IF pc[c] = "read1" THEN "beat1" ELSE "beat2")
    /\ UNCHANGED <<requestSegment, stage, peer, victim, counters, buf, availableBand,
                   request, reply, managerSock, serverState, clientUp>>

SendCurrentLoad(c) ==
    /\ pc[c] \in {"beat1", "beat2"}
    /\ Send(peer[c], Beat(beat[c]))
    /\ Goto(c, IF pc[c] = "beat1" THEN "read2" ELSE "release")
    /\ UNCHANGED <<requestSegment, clientLocals, counters, buf, availableBand, request,
                   reply, serverState, clientUp>>

ReleasePeer(c) ==
    /\ pc[c] = "release"
    /\ Return(peer[c], Rate(c))
    /\ stage' = [stage EXCEPT ![c] = "peer1"]
    /\ Goto(c, "write")
    /\ UNCHANGED <<requestSegment, peer, victim, beat, counters, buf, request, reply,
                   managerSock, serverState, clientUp>>

-----------------------------------------------------------------------------
(* writeFileSegment: make room if the buffer is full, then add the block   *)
(* unless it is there; each change is told to the server after it is made. *)
MakeRoom(c) ==
    /\ pc[c] = "write"
    /\ \/ /\ Full(c)
          /\ \E v \in buf[c] : /\ buf' = [buf EXCEPT ![c] = @ \ {v}]
                               /\ victim' = [victim EXCEPT ![c] = v]
          /\ Goto(c, "tellEliminate")
       \/ /\ ~Full(c)
          /\ Goto(c, "add")
          /\ UNCHANGED <<buf, victim>>
    /\ UNCHANGED <<requestSegment, stage, peer, beat, counters, availableBand, request,
                   reply, managerSock, serverState, clientUp>>

SendEliminateBlock(c) ==
    /\ pc[c] = "tellEliminate"
    /\ Send(c, Update("eliminate", victim[c]))
    /\ Goto(c, "add")
    /\ UNCHANGED <<requestSegment, clientLocals, counters, buf, availableBand, request,
                   reply, serverState, clientUp>>

AddBlock(c) ==
    /\ pc[c] = "add"
    /\ buf' = [buf EXCEPT ![c] = @ \cup {requestSegment[c]}]
    /\ Goto(c, IF haveSegment(c, requestSegment[c]) THEN "written" ELSE "tellAdd")
    /\ UNCHANGED <<requestSegment, clientLocals, counters, availableBand, request, reply,
                   managerSock, serverState, clientUp>>

SendAddedBlock(c) ==
    /\ pc[c] = "tellAdd"
    /\ Send(c, Update("add", requestSegment[c]))
    /\ Goto(c, "written")
    /\ UNCHANGED <<requestSegment, clientLocals, counters, buf, availableBand, request,
                   reply, serverState, clientUp>>

(* requestFileSegment's write is done: give the own band back, count, and  *)
(* let requestFileSegments write the same segment a second time.           *)
WriteAgain(c) ==
    /\ pc[c] = "written" /\ stage[c] = "peer1"
    /\ Return(c, Rate(c))
    /\ increaseTotalCounts
    /\ stage' = [stage EXCEPT ![c] = "peer2"]
    /\ Goto(c, "write")
    /\ UNCHANGED <<requestSegment, peer, victim, beat, plays, blocks, requestServerTimes,
                   buf, request, reply, managerSock, serverState, clientUp>>

FinishFromPeer(c) ==
    /\ pc[c] = "written" /\ stage[c] = "peer2"
    /\ increaseBlockFromClient(c)
    /\ plays' = [plays EXCEPT ![c] = @ + 1]
    /\ Goto(c, "play")
    /\ UNCHANGED <<requestSegment, clientLocals, requestTotals, requestServerTimes, buf,
                   availableBand, request, reply, managerSock, serverState, clientUp>>

FinishFromServer(c) ==
    /\ pc[c] = "written" /\ stage[c] = "server"
    /\ increaseBlockFromServer(c)
    /\ plays' = [plays EXCEPT ![c] = @ + 1]
    /\ Return(c, Rate(c))
    /\ Goto(c, "play")
    /\ UNCHANGED <<requestSegment, clientLocals, requestTotals, requestServerTimes, buf,
                   request, reply, managerSock, serverState, clientUp>>

(* The server process is gone: a read returns 0, a write fails, exit(1). *)
ServerGone(c) ==
    /\ ~serverUp
    /\ \/ pc[c] \in {"resource", "segment", "again"} /\ reply[c] = NoMsg
       \/ pc[c] \in {"beat1", "beat2", "tellEliminate", "tellAdd"}
    /\ clientUp' = FALSE
    /\ UNCHANGED <<pc, requestSegment, clientLocals, counters, buf, availableBand, request,
                   reply, managerSock, serverState>>

-----------------------------------------------------------------------------
(* The server's thread for client c, and its manager thread. *)
HandleResource(c) ==
    /\ serving[c] = "idle" /\ request[c] = Resource
    /\ request' = [request EXCEPT ![c] = NoMsg]
    /\ insertP2pClient(c)
    /\ reply' = [reply EXCEPT ![c] = Info]
    /\ UNCHANGED <<pc, requestSegment, clientLocals, counters, buf, availableBand,
                   managerSock, serving, ivod_seg_t, reading, availableBandwidth,
                   currentLoad, requestedSegments, serverProvideSegments, serverUp,
                   clientUp>>

HandleSegment(c) ==
    \E s \in Segment :
        /\ serving[c] = "idle" /\ request[c] = SegReq("segment", s)
        /\ request' = [request EXCEPT ![c] = NoMsg]
        /\ clientRequestSegment
        /\ \/ /\ Holders(s) = {}
              /\ serverProvideSegment
              /\ reply' = [reply EXCEPT ![c] = Vod(SERVERID)]
              /\ serving' = [serving EXCEPT ![c] = "replied"]
           \/ /\ \E p \in Best(Holders(s)) : reply' = [reply EXCEPT ![c] = Vod(p)]
              /\ UNCHANGED <<serverProvideSegments, serving>>
        /\ UNCHANGED <<pc, requestSegment, clientLocals, counters, buf, availableBand,
                       managerSock, directory, reading, availableBandwidth, currentLoad,
                       serverUp, clientUp>>

HandleAgain(c) ==
    \E s \in Segment :
        /\ serving[c] = "idle" /\ request[c] = SegReq("again", s)
        /\ request' = [request EXCEPT ![c] = NoMsg]
        /\ serverProvideSegment
        /\ reply' = [reply EXCEPT ![c] = Vod(SERVERID)]
        /\ serving' = [serving EXCEPT ![c] = "replied"]
        /\ UNCHANGED <<pc, requestSegment, clientLocals, counters, buf, availableBand,
                       managerSock, directory, reading, availableBandwidth, currentLoad,
                       requestedSegments, serverUp, clientUp>>

(* sendTimeTicks, after the reply: hold the server's band and count the    *)
(* load for as long as the block plays; exit(1) on "too much load".        *)
StartTicks(c) ==
    /\ serving[c] = "replied"
    /\ \/ /\ availableBandwidth >= TickRate(c)
          /\ decreaseAvailableBand(TickRate(c))
          /\ increaseCurrentLoad
          /\ serving' = [serving EXCEPT ![c] = "ticking"]
          /\ UNCHANGED serverUp
       \/ /\ availableBandwidth < TickRate(c)
          /\ serverUp' = FALSE
          /\ UNCHANGED <<availableBandwidth, currentLoad, serving>>
    /\ UNCHANGED <<pc, requestSegment, clientLocals, counters, buf, availableBand, request,
                   reply, managerSock, directory, reading, requestedSegments,
                   serverProvideSegments, clientUp>>

EndTicks(c) ==
    /\ serving[c] = "ticking"
    /\ decreaseCurrentLoad
    /\ increaseAvailableBand(TickRate(c))
    /\ serving' = [serving EXCEPT ![c] = "idle"]
    /\ UNCHANGED <<pc, requestSegment, clientLocals, counters, buf, availableBand, request,
                   reply, managerSock, directory, reading, requestedSegments,
                   serverProvideSegments, serverUp, clientUp>>

(* The manager thread.  One recv takes k messages of client c's manager    *)
(* connection, and one thread handles them in turn.  A heartbeat has 12    *)
(* bytes but the handler steps over 20, the size of VodSegReq: what        *)
(* follows it in the chunk is read 8 bytes too far, where the band or the  *)
(* video's number of the next message stands for its type.  It is dropped  *)
(* as a "wrong message", unless that word is a type: then bytes of two     *)
(* messages are handled as one, or end the server (derailed).  This model  *)
(* ends there, and ManagerStream says what may follow.                     *)
Misreads(m, k) == m.kind = "beat" /\ k > 1
WordRead(m) == IF m.kind = "beat" THEN m.band ELSE m.seg[1]
HandleManager(c) ==
    \E k \in 1..Len(managerSock[c]) :
        LET m == Head(managerSock[c])
        IN /\ IF chunk[c] > 0 THEN k = chunk[c] ELSE \A d \in Client : chunk[d] = 0
           /\ updateP2pClient(c, m)
           /\ ivod_seg_t' = CASE m.kind = "add"       -> insertFileSegment(c, m.seg)
                              [] m.kind = "eliminate" -> deleteFileSegment(c, m.seg)
                              [] OTHER                -> ivod_seg_t
           /\ managerSock' = [managerSock EXCEPT ![c] =
                 IF Misreads(m, k) THEN SubSeq(@, k + 1, Len(@)) ELSE Tail(@)]
           /\ chunk' = [chunk EXCEPT ![c] = IF Misreads(m, k) THEN 0 ELSE k - 1]
           /\ misread' = IF Misreads(m, k) THEN misread \cup {c} ELSE misread
           /\ derailed' = (Misreads(m, k) /\ WordRead(managerSock[c][2]) \in MessageType)
           /\ UNCHANGED <<pc, requestSegment, clientLocals, counters, buf, availableBand,
                          request, reply, serving, availableBandwidth, currentLoad,
                          requestedSegments, serverProvideSegments, serverUp, clientUp>>

-----------------------------------------------------------------------------
ClientThread(c) ==
    /\ clientUp /\ ~derailed
    /\ \/ serverUp /\ Run(c)
       \/ ReceiveInfo(c)
       \/ \E s \in Segment : WantSegment(c, s)
       \/ Stop(c)
       \/ ReceiveServerReply(c) \/ ReceivePeerReply(c)
       \/ AskPeer(c) \/ LeasePeer(c)
       \/ ReadBand(c) \/ SendCurrentLoad(c) \/ ReleasePeer(c)
       \/ MakeRoom(c) \/ SendEliminateBlock(c)
       \/ AddBlock(c) \/ SendAddedBlock(c)
       \/ WriteAgain(c) \/ FinishFromPeer(c) \/ FinishFromServer(c)
       \/ ServerGone(c)

ServerThread(c) ==
    /\ serverUp /\ ~derailed
    /\ \/ HandleResource(c) \/ HandleSegment(c) \/ HandleAgain(c)
       \/ StartTicks(c) \/ EndTicks(c)

ManagerReads(c) == serverUp /\ ~derailed /\ HandleManager(c)

ManagerThread == \E c \in Client : ManagerReads(c)

Next == ManagerThread \/ \E c \in Client : ClientThread(c) \/ ServerThread(c)

Spec == Init /\ [][Next]_vars

(* Every thread keeps running: each waits only on a socket, a mutex held   *)
(* for a few instructions, or a sleep.  epoll_wait reports every readable  *)
(* connection, so the manager thread starves none.                         *)
Fairness == \A c \in Client : /\ WF_vars(ClientThread(c))
                              /\ WF_vars(ServerThread(c))
                              /\ WF_vars(ManagerReads(c))

FairSpec == Spec /\ Fairness

-----------------------------------------------------------------------------
ClientPC == {"new", "resource", "play", "segment", "again", "ask", "lease", "read1",
             "beat1", "read2", "beat2", "release", "write", "tellEliminate", "add",
             "tellAdd", "written", "stop"}

(* Every variable holds a value of its type, part by part. *)
ThreadTypes ==
    /\ pc \in [Client -> ClientPC]
    /\ stage \in [Client -> {"server", "peer1", "peer2"}]
    /\ requestSegment \in [Client -> Segment]
    /\ peer \in [Client -> Client]
BufferTypes ==
    /\ buf \in [Client -> SUBSET Segment]
    /\ victim \in [Client -> Segment]
CounterTypes ==
    /\ plays \in [Client -> Nat]
    /\ blocks \in [Client -> [buf : Nat, server : Nat, clients : Nat]]
    /\ requestTotals \in Nat /\ requestServerTimes \in Nat
    /\ requestedSegments \in Nat /\ serverProvideSegments \in Nat
BandTypes ==
    /\ availableBand \in [Client -> Int]
    /\ beat \in [Client -> Int]
    /\ availableBandwidth \in Int /\ currentLoad \in Int
SocketTypes ==
    /\ request \in [Client -> Request]
    /\ reply \in [Client -> Reply]
    /\ managerSock \in [Client -> Seq(Manager)]
ServerTypes ==
    /\ serving \in [Client -> {"idle", "replied", "ticking"}]
    /\ client_info \in [Client -> Int]
    /\ ivod_seg_t \subseteq Client \X Segment
    /\ chunk \in [Client -> Nat] /\ misread \subseteq Client /\ derailed \in BOOLEAN
    /\ clientUp \in BOOLEAN /\ serverUp \in BOOLEAN
TypeOK == /\ ThreadTypes /\ BufferTypes /\ CounterTypes
          /\ BandTypes /\ SocketTypes /\ ServerTypes

(* The directory is never wrong for good, unless a heartbeat made the      *)
(* manager thread misread the connection.  What it says of a block, or     *)
(* will say once the client's queued updates are applied, is whether the   *)
(* client's buffer holds it - but for the one change the client's thread   *)
(* has made and not yet told (between eliminateBlock or addBlock's         *)
(* push_back and the BLOCKELIMINATE or BLOCKADD message).                  *)
About(m, s) == m.kind \in {"add", "eliminate"} /\ m.seg = s
Known(c, s) == \/ s \in buf[c] /\ ~(pc[c] = "tellAdd" /\ s = requestSegment[c])
               \/ pc[c] = "tellEliminate" /\ s = victim[c]
Agree(Q, s, row, known) ==
    /\ (\A i \in DOMAIN Q : ~About(Q[i], s)) => (row <=> known)
    /\ \A i \in DOMAIN Q :
          (About(Q[i], s) /\ \A j \in DOMAIN Q : j > i => ~About(Q[j], s))
          => (Q[i].kind = "add" <=> known)
DirectoryFollowsBuffer ==
    \A c \in Client \ misread, s \in Segment :
        Agree(managerSock[c], s, <<c, s>> \in ivod_seg_t, Known(c, s))

(* A client only fetches what it does not hold, so the server's naming the *)
(* requester itself (a row whose removal is still queued) ends in a miss:  *)
(* no client is ever its own peer and leases its band twice.  A block the  *)
(* client fetched is in its buffer when the fetch is done, even though a   *)
(* peer fetch writes it twice and the second write may evict it again.     *)
Fetching(c) == \/ pc[c] \in {"segment", "again", "ask", "lease", "read1", "beat1", "read2",
                             "beat2", "release"}
               \/ pc[c] \in {"write", "tellEliminate", "add"} /\ stage[c] # "peer2"
OnPeersBand(c) == pc[c] \in {"read1", "beat1", "read2", "beat2", "release"}
FetchOnce ==
    \A c \in Client :
        /\ Fetching(c) => requestSegment[c] \notin buf[c]
        /\ pc[c] \in {"lease"} \/ OnPeersBand(c) => peer[c] # c
        /\ pc[c] \in {"tellAdd", "written"} => requestSegment[c] \in buf[c]

(* A buffer never holds more than _blockNum blocks, and has room for the   *)
(* block about to be added.                                                *)
BufferBound ==
    \A c \in Client :
        /\ IsFiniteSet(buf[c]) /\ Cardinality(buf[c]) <= BlockNum
        /\ pc[c] \in {"tellEliminate", "add"} => Cardinality(buf[c]) < BlockNum

(* The inductive invariant.  A block being told of as eliminated is out of *)
(* the buffer; the rest is what the properties above say.                  *)
VictimGone == \A c \in Client : pc[c] = "tellEliminate" => victim[c] \notin buf[c]
IInv == TypeOK /\ FetchOnce /\ BufferBound /\ VictimGone /\ DirectoryFollowsBuffer

-----------------------------------------------------------------------------
(* The refinement mapping: a client wants its requestSegment from the      *)
(* moment it asks the server until its tally has been raised; the source   *)
(* is settled when the server is the reply, or the peer's buffer has it.   *)
NoSegment == <<>>
Wanting(c) == pc[c] \notin {"new", "resource", "play", "stop"}
Sourced(c) == Wanting(c) /\ pc[c] \notin {"segment", "again", "ask"}
wanted(c)  == IF Wanting(c) THEN requestSegment[c] ELSE NoSegment
sourceOf(c) ==
    IF ~Sourced(c) THEN "none"
    ELSE IF pc[c] \in {"lease", "read1", "beat1", "read2", "beat2", "release"}
            \/ stage[c] # "server" THEN "clients" ELSE "server"
Service == INSTANCE SegmentService WITH
    Capacity <- BlockNum,
    None     <- NoSegment,
    want     <- [c \in Client |-> wanted(c)],
    source   <- [c \in Client |-> sourceOf(c)],
    held     <- buf,
    tally    <- blocks

(* Every run of the system is a run of the service: a fetch ends with the  *)
(* block stored and credited to the one source it came from, and a block   *)
(* credited to clients was in another client's buffer when it was taken.   *)
ServiceRefined == Service!Spec
=============================================================================
