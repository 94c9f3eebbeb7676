----------------------- MODULE SegmentDeliveryProofs -----------------------
(***************************************************************************)
(* Proofs about SegmentDelivery and SegmentAccounting, for every number of *)
(* clients, videos and segments, every buffer size and every bandwidth:    *)
(* the directory follows the buffers, fetches are made once, the abstract  *)
(* SegmentService is implemented; then, from "The books" on, what is       *)
(* leased is returned, once, to the one it was leased from, and the two    *)
(* processes count the same segments.                                      *)
(***************************************************************************)
EXTENDS SegmentAccounting, FiniteSetTheorems, TLAPS

(* The messages the threads build are of the types the sockets carry, and  *)
(* the rates they lease bandwidth at are integers.                         *)
LEMMA Messages ==
    /\ NoMsg \in Request /\ Resource \in Request
    /\ \A k \in {"segment", "again"}, s \in Segment : SegReq(k, s) \in Request
    /\ NoMsg \in Reply /\ Info \in Reply
    /\ \A id \in Client \cup {SERVERID} : Vod(id) \in Reply
    /\ \A b \in Int : Beat(b) \in Manager
    /\ \A k \in {"add", "eliminate"}, s \in Segment : Update(k, s) \in Manager
BY DEF NoMsg, Resource, Info, SegReq, Vod, Beat, Update, Request, Reply, Manager

LEMMA Rates ==
    /\ \A c \in Client : Rate(c) \in Int /\ TickRate(c) \in Int
BY DeliveryAssumption DEF Rate, TickRate

(* The type invariant is inductive as it stands. *)
LEMMA TypeInit == Init => TypeOK
<1> SUFFICES ASSUME Init PROVE TypeOK
  OBVIOUS
<1> USE DEF Init
<1>1. requestSegment \in [Client -> Segment]
  BY DeliveryAssumption DEF Segment
<1>2. ThreadTypes
  BY <1>1 DEF ThreadTypes, ClientPC
<1>3. BufferTypes
  BY <1>1 DEF BufferTypes
<1>4. CounterTypes
  BY DEF CounterTypes
<1>5. BandTypes
  BY DeliveryAssumption DEF BandTypes
<1>6. SocketTypes
  BY Messages DEF SocketTypes
<1>7. ServerTypes
  <2>1. serving \in [Client -> {"idle", "replied", "ticking"}] /\ client_info \in [Client -> Int]
    BY DEF NoBand
  <2>2. ivod_seg_t \subseteq Client \X Segment /\ chunk \in [Client -> Nat] /\ misread \subseteq Client
    OBVIOUS
  <2> QED
    BY <2>1, <2>2 DEF ServerTypes
<1> QED
  BY <1>2, <1>3, <1>4, <1>5, <1>6, <1>7 DEF TypeOK

LEMMA ThreadStep == TypeOK /\ [Next]_vars => ThreadTypes'
<1> SUFFICES ASSUME TypeOK, [Next]_vars PROVE ThreadTypes'
  OBVIOUS
<1> USE DEF TypeOK
<1>1. CASE UNCHANGED <<pc, stage, requestSegment, peer>>
  BY <1>1 DEF ThreadTypes
<1>2. ASSUME NEW c \in Client, Run(c) PROVE ThreadTypes'
  BY <1>2 DEF ThreadTypes, ClientPC, Run, Goto, clientLocals, counters, serverState, directory, reading
<1>3. ASSUME NEW c \in Client, ReceiveInfo(c) PROVE ThreadTypes'
  BY <1>3 DEF ThreadTypes, ClientPC, ReceiveInfo, Goto, clientLocals, counters, serverState, directory, reading
<1>4. ASSUME NEW c \in Client, NEW s \in Segment, WantSegment(c, s) PROVE ThreadTypes'
  BY <1>4 DEF ThreadTypes, ClientPC, WantSegment, increaseBlockFromBuf, Goto, clientLocals, counters, serverState, directory, reading
<1>5. ASSUME NEW c \in Client, Stop(c) PROVE ThreadTypes'
  BY <1>5 DEF ThreadTypes, ClientPC, Stop, Goto, clientLocals, counters, serverState, directory, reading
<1>6. ASSUME NEW c \in Client, ReceiveServerReply(c) PROVE ThreadTypes'
  BY <1>6 DEF ThreadTypes, ClientPC, ReceiveServerReply, increaseServerCounts, Goto, clientLocals, counters, serverState, directory, reading
<1>7. ASSUME NEW c \in Client, ReceivePeerReply(c) PROVE ThreadTypes'
  BY <1>7 DEF ThreadTypes, ClientPC, ReceivePeerReply, Goto, clientLocals, counters, serverState, directory, reading
<1>8. ASSUME NEW c \in Client, AskPeer(c) PROVE ThreadTypes'
  BY <1>8 DEF ThreadTypes, ClientPC, AskPeer, Goto, clientLocals, counters, serverState, directory, reading
<1>9. ASSUME NEW c \in Client, LeasePeer(c) PROVE ThreadTypes'
  BY <1>9 DEF ThreadTypes, ClientPC, LeasePeer, Goto, clientLocals, counters, serverState, directory, reading
<1>10. ASSUME NEW c \in Client, ReadBand(c) PROVE ThreadTypes'
  BY <1>10 DEF ThreadTypes, ClientPC, ReadBand, Goto, clientLocals, counters, serverState, directory, reading
<1>11. ASSUME NEW c \in Client, SendCurrentLoad(c) PROVE ThreadTypes'
  BY <1>11 DEF ThreadTypes, ClientPC, SendCurrentLoad, Goto, clientLocals, counters, serverState, directory, reading
<1>12. ASSUME NEW c \in Client, ReleasePeer(c) PROVE ThreadTypes'
  BY <1>12 DEF ThreadTypes, ClientPC, ReleasePeer, Goto, clientLocals, counters, serverState, directory, reading
<1>13. ASSUME NEW c \in Client, MakeRoom(c) PROVE ThreadTypes'
  BY <1>13 DEF ThreadTypes, ClientPC, MakeRoom, Goto, clientLocals, counters, serverState, directory, reading
<1>14. ASSUME NEW c \in Client, SendEliminateBlock(c) PROVE ThreadTypes'
  BY <1>14 DEF ThreadTypes, ClientPC, SendEliminateBlock, Goto, clientLocals, counters, serverState, directory, reading
<1>15. ASSUME NEW c \in Client, AddBlock(c) PROVE ThreadTypes'
  BY <1>15 DEF ThreadTypes, ClientPC, AddBlock, Goto, clientLocals, counters, serverState, directory, reading
<1>16. ASSUME NEW c \in Client, SendAddedBlock(c) PROVE ThreadTypes'
  BY <1>16 DEF ThreadTypes, ClientPC, SendAddedBlock, Goto, clientLocals, counters, serverState, directory, reading
<1>17. ASSUME NEW c \in Client, WriteAgain(c) PROVE ThreadTypes'
  BY <1>17 DEF ThreadTypes, ClientPC, WriteAgain, increaseTotalCounts, Goto, clientLocals, counters, serverState, directory, reading
<1>18. ASSUME NEW c \in Client, FinishFromPeer(c) PROVE ThreadTypes'
  BY <1>18 DEF ThreadTypes, ClientPC, FinishFromPeer, increaseBlockFromClient, Goto, clientLocals, counters, serverState, directory, reading
<1>19. ASSUME NEW c \in Client, FinishFromServer(c) PROVE ThreadTypes'
  BY <1>19 DEF ThreadTypes, ClientPC, FinishFromServer, increaseBlockFromServer, Goto, clientLocals, counters, serverState, directory, reading
<1> QED
  BY <1>1, <1>2, <1>3, <1>4, <1>5, <1>6, <1>7, <1>8, <1>9, <1>10, <1>11, <1>12, <1>13, <1>14, <1>15, <1>16, <1>17, <1>18, <1>19
  DEF vars, Next, ClientThread, ServerThread, ManagerThread, ManagerReads, clientLocals, counters, serverState, directory, reading,
      ServerGone, HandleResource, insertP2pClient, HandleSegment, HandleAgain, StartTicks, decreaseAvailableBand, increaseCurrentLoad, EndTicks, increaseAvailableBand, decreaseCurrentLoad, HandleManager, updateP2pClient, insertFileSegment, deleteFileSegment

LEMMA BufferStep == TypeOK /\ [Next]_vars => BufferTypes'
<1> SUFFICES ASSUME TypeOK, [Next]_vars PROVE BufferTypes'
  OBVIOUS
<1> USE DEF TypeOK
<1>1. CASE UNCHANGED <<buf, victim>>
  BY <1>1 DEF BufferTypes
<1>2. ASSUME NEW c \in Client, MakeRoom(c) PROVE BufferTypes'
  BY <1>2 DEF BufferTypes, ThreadTypes, MakeRoom, clientLocals, counters, serverState, directory, reading
<1>3. ASSUME NEW c \in Client, AddBlock(c) PROVE BufferTypes'
  BY <1>3 DEF BufferTypes, ThreadTypes, AddBlock, clientLocals, counters, serverState, directory, reading
<1> QED
  BY <1>1, <1>2, <1>3
  DEF vars, Next, ClientThread, ServerThread, ManagerThread, ManagerReads, clientLocals, counters, serverState, directory, reading,
      Run, ReceiveInfo, WantSegment, increaseBlockFromBuf, Stop, ReceiveServerReply, increaseServerCounts, ReceivePeerReply, AskPeer, LeasePeer, ReadBand, SendCurrentLoad, ReleasePeer, SendEliminateBlock, SendAddedBlock, WriteAgain, increaseTotalCounts, FinishFromPeer, increaseBlockFromClient, FinishFromServer, increaseBlockFromServer, ServerGone, HandleResource, insertP2pClient, HandleSegment, HandleAgain, StartTicks, decreaseAvailableBand, increaseCurrentLoad, EndTicks, increaseAvailableBand, decreaseCurrentLoad, HandleManager, updateP2pClient, insertFileSegment, deleteFileSegment

LEMMA CounterStep == TypeOK /\ [Next]_vars => CounterTypes'
<1> SUFFICES ASSUME TypeOK, [Next]_vars PROVE CounterTypes'
  OBVIOUS
<1> USE DEF TypeOK
<1>1. CASE UNCHANGED <<plays, blocks, requestTotals, requestServerTimes, requestedSegments, serverProvideSegments>>
  BY <1>1 DEF CounterTypes
<1>2. ASSUME NEW c \in Client, NEW s \in Segment, WantSegment(c, s) PROVE CounterTypes'
  BY <1>2 DEF CounterTypes, WantSegment, increaseBlockFromBuf, clientLocals, counters, serverState, directory, reading
<1>3. ASSUME NEW c \in Client, ReceiveServerReply(c) PROVE CounterTypes'
  BY <1>3 DEF CounterTypes, ReceiveServerReply, increaseServerCounts, clientLocals, counters, serverState, directory, reading
<1>4. ASSUME NEW c \in Client, WriteAgain(c) PROVE CounterTypes'
  BY <1>4 DEF CounterTypes, WriteAgain, increaseTotalCounts, clientLocals, counters, serverState, directory, reading
<1>5. ASSUME NEW c \in Client, FinishFromPeer(c) PROVE CounterTypes'
  BY <1>5 DEF CounterTypes, FinishFromPeer, increaseBlockFromClient, clientLocals, counters, serverState, directory, reading
<1>6. ASSUME NEW c \in Client, FinishFromServer(c) PROVE CounterTypes'
  BY <1>6 DEF CounterTypes, FinishFromServer, increaseBlockFromServer, clientLocals, counters, serverState, directory, reading
<1>7. ASSUME NEW c \in Client, HandleSegment(c) PROVE CounterTypes'
  BY <1>7 DEF CounterTypes, HandleSegment, clientRequestSegment, serverProvideSegment, clientLocals, counters, serverState, directory, reading
<1>8. ASSUME NEW c \in Client, HandleAgain(c) PROVE CounterTypes'
  BY <1>8 DEF CounterTypes, HandleAgain, serverProvideSegment, clientLocals, counters, serverState, directory, reading
<1> QED
  BY <1>1, <1>2, <1>3, <1>4, <1>5, <1>6, <1>7, <1>8
  DEF vars, Next, ClientThread, ServerThread, ManagerThread, ManagerReads, clientLocals, counters, serverState, directory, reading,
      Run, ReceiveInfo, Stop, ReceivePeerReply, AskPeer, LeasePeer, ReadBand, SendCurrentLoad, ReleasePeer, MakeRoom, SendEliminateBlock, AddBlock, SendAddedBlock, ServerGone, HandleResource, insertP2pClient, StartTicks, decreaseAvailableBand, increaseCurrentLoad, EndTicks, increaseAvailableBand, decreaseCurrentLoad, HandleManager, updateP2pClient, insertFileSegment, deleteFileSegment

LEMMA BandStep == TypeOK /\ [Next]_vars => BandTypes'
<1> SUFFICES ASSUME TypeOK, [Next]_vars PROVE BandTypes'
  OBVIOUS
<1> USE DEF TypeOK
<1>1. CASE UNCHANGED <<availableBand, beat, availableBandwidth, currentLoad>>
  BY <1>1 DEF BandTypes
<1>2. ASSUME NEW c \in Client, ReceiveServerReply(c) PROVE BandTypes'
  BY <1>2, Rates DEF BandTypes, ThreadTypes, ReceiveServerReply, increaseServerCounts, Lease, clientLocals, counters, serverState, directory, reading
<1>3. ASSUME NEW c \in Client, ReceivePeerReply(c) PROVE BandTypes'
  BY <1>3, Rates DEF BandTypes, ThreadTypes, ReceivePeerReply, Lease, clientLocals, counters, serverState, directory, reading
<1>4. ASSUME NEW c \in Client, AskPeer(c) PROVE BandTypes'
  BY <1>4, Rates DEF BandTypes, ThreadTypes, AskPeer, Return, clientLocals, counters, serverState, directory, reading
<1>5. ASSUME NEW c \in Client, LeasePeer(c) PROVE BandTypes'
  BY <1>5, Rates DEF BandTypes, ThreadTypes, LeasePeer, Lease, clientLocals, counters, serverState, directory, reading
<1>6. ASSUME NEW c \in Client, ReadBand(c) PROVE BandTypes'
  BY <1>6, Rates DEF BandTypes, ThreadTypes, ReadBand, clientLocals, counters, serverState, directory, reading
<1>7. ASSUME NEW c \in Client, ReleasePeer(c) PROVE BandTypes'
  BY <1>7, Rates DEF BandTypes, ThreadTypes, ReleasePeer, Return, clientLocals, counters, serverState, directory, reading
<1>8. ASSUME NEW c \in Client, WriteAgain(c) PROVE BandTypes'
  BY <1>8, Rates DEF BandTypes, ThreadTypes, WriteAgain, increaseTotalCounts, Return, clientLocals, counters, serverState, directory, reading
<1>9. ASSUME NEW c \in Client, FinishFromServer(c) PROVE BandTypes'
  BY <1>9, Rates DEF BandTypes, ThreadTypes, FinishFromServer, increaseBlockFromServer, Return, clientLocals, counters, serverState, directory, reading
<1>10. ASSUME NEW c \in Client, StartTicks(c) PROVE BandTypes'
  BY <1>10, Rates DEF BandTypes, ThreadTypes, StartTicks, decreaseAvailableBand, increaseCurrentLoad, clientLocals, counters, serverState, directory, reading
<1>11. ASSUME NEW c \in Client, EndTicks(c) PROVE BandTypes'
  BY <1>11, Rates DEF BandTypes, ThreadTypes, EndTicks, increaseAvailableBand, decreaseCurrentLoad, clientLocals, counters, serverState, directory, reading
<1> QED
  BY <1>1, <1>2, <1>3, <1>4, <1>5, <1>6, <1>7, <1>8, <1>9, <1>10, <1>11
  DEF vars, Next, ClientThread, ServerThread, ManagerThread, ManagerReads, clientLocals, counters, serverState, directory, reading,
      Run, ReceiveInfo, WantSegment, increaseBlockFromBuf, Stop, SendCurrentLoad, MakeRoom, SendEliminateBlock, AddBlock, SendAddedBlock, FinishFromPeer, increaseBlockFromClient, ServerGone, HandleResource, insertP2pClient, HandleSegment, HandleAgain, HandleManager, updateP2pClient, insertFileSegment, deleteFileSegment

LEMMA SocketStep == TypeOK /\ [Next]_vars => SocketTypes'
<1> SUFFICES ASSUME TypeOK, [Next]_vars PROVE SocketTypes'
  OBVIOUS
<1> USE DEF TypeOK
<1>1. CASE UNCHANGED <<request, reply, managerSock>>
  BY <1>1 DEF SocketTypes
<1>2. ASSUME NEW c \in Client, Run(c) PROVE SocketTypes'
  BY <1>2, Messages DEF SocketTypes, ThreadTypes, BufferTypes, BandTypes, Run, clientLocals, counters, serverState, directory, reading
<1>3. ASSUME NEW c \in Client, ReceiveInfo(c) PROVE SocketTypes'
  BY <1>3, Messages DEF SocketTypes, ThreadTypes, BufferTypes, BandTypes, ReceiveInfo, clientLocals, counters, serverState, directory, reading
<1>4. ASSUME NEW c \in Client, NEW s \in Segment, WantSegment(c, s) PROVE SocketTypes'
  <2>1. SegReq("segment", s) \in Request
    BY Messages
  <2>2. request' \in [Client -> Request] /\ UNCHANGED <<reply, managerSock>>
    BY <1>4, <2>1 DEF SocketTypes, WantSegment, increaseBlockFromBuf
  <2> QED
    BY <2>2 DEF SocketTypes
<1>5. ASSUME NEW c \in Client, ReceiveServerReply(c) PROVE SocketTypes'
  BY <1>5, Messages DEF SocketTypes, ThreadTypes, BufferTypes, BandTypes, ReceiveServerReply, increaseServerCounts, clientLocals, counters, serverState, directory, reading
<1>6. ASSUME NEW c \in Client, ReceivePeerReply(c) PROVE SocketTypes'
  BY <1>6, Messages DEF SocketTypes, ThreadTypes, BufferTypes, BandTypes, ReceivePeerReply, clientLocals, counters, serverState, directory, reading
<1>7. ASSUME NEW c \in Client, AskPeer(c) PROVE SocketTypes'
  <2>1. SegReq("again", requestSegment[c]) \in Request
    BY Messages DEF ThreadTypes
  <2>2. request' \in [Client -> Request] /\ UNCHANGED <<reply, managerSock>>
    BY <1>7, <2>1 DEF SocketTypes, AskPeer
  <2> QED
    BY <2>2 DEF SocketTypes
<1>8. ASSUME NEW c \in Client, SendCurrentLoad(c) PROVE SocketTypes'
  BY <1>8, Messages DEF SocketTypes, ThreadTypes, BufferTypes, BandTypes, SendCurrentLoad, Send, clientLocals, counters, serverState, directory, reading
<1>9. ASSUME NEW c \in Client, SendEliminateBlock(c) PROVE SocketTypes'
  BY <1>9, Messages DEF SocketTypes, ThreadTypes, BufferTypes, BandTypes, SendEliminateBlock, Send, clientLocals, counters, serverState, directory, reading
<1>10. ASSUME NEW c \in Client, SendAddedBlock(c) PROVE SocketTypes'
  BY <1>10, Messages DEF SocketTypes, ThreadTypes, BufferTypes, BandTypes, SendAddedBlock, Send, clientLocals, counters, serverState, directory, reading
<1>11. ASSUME NEW c \in Client, HandleResource(c) PROVE SocketTypes'
  BY <1>11, Messages DEF SocketTypes, ThreadTypes, BufferTypes, BandTypes, HandleResource, insertP2pClient, clientLocals, counters, serverState, directory, reading
<1>12. ASSUME NEW c \in Client, HandleSegment(c) PROVE SocketTypes'
  <2>1. PICK id \in Client \cup {SERVERID} : reply' = [reply EXCEPT ![c] = Vod(id)]
    BY <1>12 DEF HandleSegment, Best, Holders, registered
  <2>2. Vod(id) \in Reply
    BY <2>1, Messages
  <2>3. request' = [request EXCEPT ![c] = NoMsg] /\ UNCHANGED managerSock
    BY <1>12 DEF HandleSegment
  <2> QED
    BY <2>1, <2>2, <2>3, Messages DEF SocketTypes
<1>13. ASSUME NEW c \in Client, HandleAgain(c) PROVE SocketTypes'
  BY <1>13, Messages DEF SocketTypes, ThreadTypes, BufferTypes, BandTypes, HandleAgain, clientLocals, counters, serverState, directory, reading
<1>14. ASSUME NEW c \in Client, HandleManager(c) PROVE SocketTypes'
  BY <1>14, Messages DEF SocketTypes, ThreadTypes, BufferTypes, BandTypes, HandleManager, updateP2pClient, insertFileSegment, deleteFileSegment, clientLocals, counters, serverState, directory, reading
<1> QED
  BY <1>1, <1>2, <1>3, <1>4, <1>5, <1>6, <1>7, <1>8, <1>9, <1>10, <1>11, <1>12, <1>13, <1>14
  DEF vars, Next, ClientThread, ServerThread, ManagerThread, ManagerReads, clientLocals, counters, serverState, directory, reading,
      Stop, LeasePeer, ReadBand, ReleasePeer, MakeRoom, AddBlock, WriteAgain, increaseTotalCounts, FinishFromPeer, increaseBlockFromClient, FinishFromServer, increaseBlockFromServer, ServerGone, StartTicks, decreaseAvailableBand, increaseCurrentLoad, EndTicks, increaseAvailableBand, decreaseCurrentLoad

LEMMA ServerStep == TypeOK /\ [Next]_vars => ServerTypes'
<1> SUFFICES ASSUME TypeOK, [Next]_vars PROVE ServerTypes'
  OBVIOUS
<1> USE DEF TypeOK
<1>1. CASE UNCHANGED <<serving, client_info, ivod_seg_t, reading, clientUp, serverUp>>
  BY <1>1 DEF ServerTypes, reading
<1>2. ASSUME NEW c \in Client, ReceiveServerReply(c) PROVE ServerTypes'
  BY <1>2 DEF ServerTypes, SocketTypes, ReceiveServerReply, increaseServerCounts, clientLocals, counters, serverState, directory, reading
<1>3. ASSUME NEW c \in Client, ReceivePeerReply(c) PROVE ServerTypes'
  BY <1>3 DEF ServerTypes, SocketTypes, ReceivePeerReply, clientLocals, counters, serverState, directory, reading
<1>4. ASSUME NEW c \in Client, LeasePeer(c) PROVE ServerTypes'
  BY <1>4 DEF ServerTypes, SocketTypes, LeasePeer, clientLocals, counters, serverState, directory, reading
<1>5. ASSUME NEW c \in Client, ServerGone(c) PROVE ServerTypes'
  BY <1>5 DEF ServerTypes, SocketTypes, ServerGone, clientLocals, counters, serverState, directory, reading
<1>6. ASSUME NEW c \in Client, HandleResource(c) PROVE ServerTypes'
  BY <1>6, DeliveryAssumption DEF ServerTypes, SocketTypes, HandleResource, insertP2pClient, NoBand, clientLocals, counters, serverState, directory, reading
<1>7. ASSUME NEW c \in Client, HandleSegment(c) PROVE ServerTypes'
  BY <1>7 DEF ServerTypes, SocketTypes, HandleSegment, clientLocals, counters, serverState, directory, reading
<1>8. ASSUME NEW c \in Client, HandleAgain(c) PROVE ServerTypes'
  BY <1>8 DEF ServerTypes, SocketTypes, HandleAgain, clientLocals, counters, serverState, directory, reading
<1>9. ASSUME NEW c \in Client, StartTicks(c) PROVE ServerTypes'
  BY <1>9 DEF ServerTypes, SocketTypes, StartTicks, decreaseAvailableBand, increaseCurrentLoad, clientLocals, counters, serverState, directory, reading
<1>10. ASSUME NEW c \in Client, EndTicks(c) PROVE ServerTypes'
  BY <1>10 DEF ServerTypes, SocketTypes, EndTicks, increaseAvailableBand, decreaseCurrentLoad, clientLocals, counters, serverState, directory, reading
<1>11. ASSUME NEW c \in Client, HandleManager(c) PROVE ServerTypes'
  <2> DEFINE m == Head(managerSock[c])
  <2>1. m \in Manager
    BY <1>11 DEF HandleManager, updateP2pClient, insertFileSegment, deleteFileSegment, SocketTypes
  <2>2. m.kind = "beat" => m.band \in Int
    BY <2>1 DEF Manager
  <2>3. client_info' \in [Client -> Int]
    BY <1>11, <2>2 DEF HandleManager, updateP2pClient, insertFileSegment, deleteFileSegment, ServerTypes
  <2>4. m.kind = "add" => m.seg \in Segment
    BY <2>1 DEF Manager
  <2>5. ivod_seg_t' \subseteq Client \X Segment
    BY <1>11, <2>4 DEF HandleManager, updateP2pClient, insertFileSegment, deleteFileSegment, ServerTypes
  <2> QED
    BY <1>11, <2>3, <2>5 DEF HandleManager, updateP2pClient, insertFileSegment, deleteFileSegment, ServerTypes
<1> QED
  BY <1>1, <1>2, <1>3, <1>4, <1>5, <1>6, <1>7, <1>8, <1>9, <1>10, <1>11
  DEF vars, Next, ClientThread, ServerThread, ManagerThread, ManagerReads, clientLocals, counters, serverState, directory, reading,
      Run, ReceiveInfo, WantSegment, increaseBlockFromBuf, Stop, AskPeer, ReadBand, SendCurrentLoad, ReleasePeer, MakeRoom, SendEliminateBlock, AddBlock, SendAddedBlock, WriteAgain, increaseTotalCounts, FinishFromPeer, increaseBlockFromClient, FinishFromServer, increaseBlockFromServer

LEMMA TypeStep == TypeOK /\ [Next]_vars => TypeOK'
BY ThreadStep, BufferStep, CounterStep, BandStep, SocketStep, ServerStep DEF TypeOK

(* Every value stays of its type. *)
THEOREM TypeCorrect == Spec => []TypeOK
BY TypeInit, TypeStep, PTL DEF Spec

-----------------------------------------------------------------------------
(* What a client's own thread keeps true of its fetch and of its buffer:   *)
(* no other thread changes either.                                         *)
LEMMA FetchStep == TypeOK /\ FetchOnce /\ VictimGone /\ [Next]_vars => FetchOnce' /\ VictimGone'
<1> SUFFICES ASSUME TypeOK, FetchOnce, VictimGone, [Next]_vars PROVE FetchOnce' /\ VictimGone'
  OBVIOUS
<1> USE DEF TypeOK, FetchOnce, VictimGone, Fetching, OnPeersBand, ThreadTypes, BufferTypes
<1>1. CASE UNCHANGED <<pc, stage, requestSegment, peer, buf, victim>>
  BY <1>1
<1>2. ASSUME NEW c \in Client, Run(c) PROVE FetchOnce' /\ VictimGone'
  BY <1>2 DEF Run, Goto, clientLocals, counters, serverState, directory, reading
<1>3. ASSUME NEW c \in Client, ReceiveInfo(c) PROVE FetchOnce' /\ VictimGone'
  BY <1>3 DEF ReceiveInfo, Goto, clientLocals, counters, serverState, directory, reading
<1>4. ASSUME NEW c \in Client, NEW s \in Segment, WantSegment(c, s) PROVE FetchOnce' /\ VictimGone'
  BY <1>4 DEF WantSegment, increaseBlockFromBuf, Goto, haveSegment, clientLocals, counters, serverState, directory, reading
<1>5. ASSUME NEW c \in Client, Stop(c) PROVE FetchOnce' /\ VictimGone'
  BY <1>5 DEF Stop, Goto, clientLocals, counters, serverState, directory, reading
<1>6. ASSUME NEW c \in Client, ReceiveServerReply(c) PROVE FetchOnce' /\ VictimGone'
  BY <1>6 DEF ReceiveServerReply, increaseServerCounts, Goto, clientLocals, counters, serverState, directory, reading
<1>7. ASSUME NEW c \in Client, ReceivePeerReply(c) PROVE FetchOnce' /\ VictimGone'
  BY <1>7 DEF ReceivePeerReply, Goto, clientLocals, counters, serverState, directory, reading
<1>8. ASSUME NEW c \in Client, AskPeer(c) PROVE FetchOnce' /\ VictimGone'
  BY <1>8 DEF AskPeer, Goto, readFileSegment, clientLocals, counters, serverState, directory, reading
<1>9. ASSUME NEW c \in Client, LeasePeer(c) PROVE FetchOnce' /\ VictimGone'
  BY <1>9 DEF LeasePeer, Goto, clientLocals, counters, serverState, directory, reading
<1>10. ASSUME NEW c \in Client, ReadBand(c) PROVE FetchOnce' /\ VictimGone'
  BY <1>10 DEF ReadBand, Goto, clientLocals, counters, serverState, directory, reading
<1>11. ASSUME NEW c \in Client, SendCurrentLoad(c) PROVE FetchOnce' /\ VictimGone'
  BY <1>11 DEF SendCurrentLoad, Goto, clientLocals, counters, serverState, directory, reading
<1>12. ASSUME NEW c \in Client, ReleasePeer(c) PROVE FetchOnce' /\ VictimGone'
  BY <1>12 DEF ReleasePeer, Goto, clientLocals, counters, serverState, directory, reading
<1>13. ASSUME NEW c \in Client, MakeRoom(c) PROVE FetchOnce' /\ VictimGone'
  BY <1>13 DEF MakeRoom, Goto, clientLocals, counters, serverState, directory, reading
<1>14. ASSUME NEW c \in Client, SendEliminateBlock(c) PROVE FetchOnce' /\ VictimGone'
  BY <1>14 DEF SendEliminateBlock, Goto, clientLocals, counters, serverState, directory, reading
<1>15. ASSUME NEW c \in Client, AddBlock(c) PROVE FetchOnce' /\ VictimGone'
  BY <1>15 DEF AddBlock, Goto, haveSegment, clientLocals, counters, serverState, directory, reading
<1>16. ASSUME NEW c \in Client, SendAddedBlock(c) PROVE FetchOnce' /\ VictimGone'
  BY <1>16 DEF SendAddedBlock, Goto, clientLocals, counters, serverState, directory, reading
<1>17. ASSUME NEW c \in Client, WriteAgain(c) PROVE FetchOnce' /\ VictimGone'
  BY <1>17 DEF WriteAgain, increaseTotalCounts, Goto, clientLocals, counters, serverState, directory, reading
<1>18. ASSUME NEW c \in Client, FinishFromPeer(c) PROVE FetchOnce' /\ VictimGone'
  BY <1>18 DEF FinishFromPeer, increaseBlockFromClient, Goto, clientLocals, counters, serverState, directory, reading
<1>19. ASSUME NEW c \in Client, FinishFromServer(c) PROVE FetchOnce' /\ VictimGone'
  BY <1>19 DEF FinishFromServer, increaseBlockFromServer, Goto, clientLocals, counters, serverState, directory, reading
<1> QED
  BY <1>1, <1>2, <1>3, <1>4, <1>5, <1>6, <1>7, <1>8, <1>9, <1>10, <1>11, <1>12, <1>13, <1>14, <1>15, <1>16, <1>17, <1>18, <1>19
  DEF vars, Next, ClientThread, ServerThread, ManagerThread, ManagerReads, clientLocals, counters, serverState, directory, reading,
      ServerGone, HandleResource, insertP2pClient, HandleSegment, HandleAgain, StartTicks, decreaseAvailableBand, increaseCurrentLoad, EndTicks, increaseAvailableBand, decreaseCurrentLoad, HandleManager, updateP2pClient, insertFileSegment, deleteFileSegment

(* Taking a block out of a finite buffer and putting one in. *)
LEMMA OneBlock ==
    ASSUME NEW S, NEW v, IsFiniteSet(S)
    PROVE  /\ Cardinality(S) \in Nat
           /\ v \in S => /\ IsFiniteSet(S \ {v})
                         /\ Cardinality(S \ {v}) = Cardinality(S) - 1
           /\ IsFiniteSet(S \cup {v})
           /\ Cardinality(S \cup {v}) <= Cardinality(S) + 1
<1>1. Cardinality(S) \in Nat
  BY FS_CardinalityType
<1>2. v \in S => IsFiniteSet(S \ {v}) /\ Cardinality(S \ {v}) = Cardinality(S) - 1
  BY FS_RemoveElement
<1>3. /\ IsFiniteSet(S \cup {v})
      /\ Cardinality(S \cup {v}) = IF v \in S THEN Cardinality(S) ELSE Cardinality(S) + 1
  BY FS_AddElement
<1> QED
  BY <1>1, <1>2, <1>3

LEMMA BoundStep == TypeOK /\ BufferBound /\ [Next]_vars => BufferBound'
<1> SUFFICES ASSUME TypeOK, BufferBound, [Next]_vars PROVE BufferBound'
  OBVIOUS
<1> USE DEF TypeOK, ThreadTypes, BufferTypes
<1>1. CASE UNCHANGED <<pc, buf>>
  BY <1>1 DEF BufferBound
<1>2. ASSUME NEW c \in Client, Run(c) PROVE BufferBound'
  BY <1>2 DEF Run, Goto, BufferBound, clientLocals, counters, serverState, directory, reading
<1>3. ASSUME NEW c \in Client, ReceiveInfo(c) PROVE BufferBound'
  BY <1>3 DEF ReceiveInfo, Goto, BufferBound, clientLocals, counters, serverState, directory, reading
<1>4. ASSUME NEW c \in Client, NEW s \in Segment, WantSegment(c, s) PROVE BufferBound'
  BY <1>4 DEF WantSegment, increaseBlockFromBuf, Goto, BufferBound, clientLocals, counters, serverState, directory, reading
<1>5. ASSUME NEW c \in Client, Stop(c) PROVE BufferBound'
  BY <1>5 DEF Stop, Goto, BufferBound, clientLocals, counters, serverState, directory, reading
<1>6. ASSUME NEW c \in Client, ReceiveServerReply(c) PROVE BufferBound'
  BY <1>6 DEF ReceiveServerReply, increaseServerCounts, Goto, BufferBound, clientLocals, counters, serverState, directory, reading
<1>7. ASSUME NEW c \in Client, ReceivePeerReply(c) PROVE BufferBound'
  BY <1>7 DEF ReceivePeerReply, Goto, BufferBound, clientLocals, counters, serverState, directory, reading
<1>8. ASSUME NEW c \in Client, AskPeer(c) PROVE BufferBound'
  BY <1>8 DEF AskPeer, Goto, BufferBound, clientLocals, counters, serverState, directory, reading
<1>9. ASSUME NEW c \in Client, LeasePeer(c) PROVE BufferBound'
  BY <1>9 DEF LeasePeer, Goto, BufferBound, clientLocals, counters, serverState, directory, reading
<1>10. ASSUME NEW c \in Client, ReadBand(c) PROVE BufferBound'
  BY <1>10 DEF ReadBand, Goto, BufferBound, clientLocals, counters, serverState, directory, reading
<1>11. ASSUME NEW c \in Client, SendCurrentLoad(c) PROVE BufferBound'
  BY <1>11 DEF SendCurrentLoad, Goto, BufferBound, clientLocals, counters, serverState, directory, reading
<1>12. ASSUME NEW c \in Client, ReleasePeer(c) PROVE BufferBound'
  BY <1>12 DEF ReleasePeer, Goto, BufferBound, clientLocals, counters, serverState, directory, reading
<1>13. ASSUME NEW c \in Client, MakeRoom(c) PROVE BufferBound'
  <2>1. CASE ~Full(c)
    <3>1. Cardinality(buf[c]) \in Nat
      BY OneBlock DEF BufferBound
    <3>2. Cardinality(buf[c]) < BlockNum
      BY <2>1, <3>1, DeliveryAssumption DEF Full
    <3>3. pc' = [pc EXCEPT ![c] = "add"] /\ buf' = buf
      BY <1>13, <2>1 DEF MakeRoom, Goto
    <3> QED
      BY <3>2, <3>3 DEF BufferBound
  <2>2. CASE Full(c)
    <3>1. PICK v \in buf[c] : buf' = [buf EXCEPT ![c] = @ \ {v}]
      BY <1>13, <2>2 DEF MakeRoom
    <3>2. pc' = [pc EXCEPT ![c] = "tellEliminate"]
      BY <1>13, <2>2 DEF MakeRoom, Goto
    <3>3. IsFiniteSet(buf[c]) /\ Cardinality(buf[c]) <= BlockNum
      BY DEF BufferBound
    <3>4. /\ Cardinality(buf[c]) \in Nat
          /\ IsFiniteSet(buf[c] \ {v})
          /\ Cardinality(buf[c] \ {v}) = Cardinality(buf[c]) - 1
      BY <3>3, OneBlock
    <3>5. IsFiniteSet(buf'[c]) /\ Cardinality(buf'[c]) < BlockNum
      BY <3>1, <3>3, <3>4, DeliveryAssumption
    <3>6. Cardinality(buf'[c]) <= BlockNum
      BY <3>1, <3>3, <3>4, DeliveryAssumption
    <3> QED
      BY <3>1, <3>2, <3>5, <3>6 DEF BufferBound
  <2> QED
    BY <2>1, <2>2
<1>14. ASSUME NEW c \in Client, SendEliminateBlock(c) PROVE BufferBound'
  BY <1>14 DEF SendEliminateBlock, Goto, BufferBound, clientLocals, counters, serverState, directory, reading
<1>15. ASSUME NEW c \in Client, AddBlock(c) PROVE BufferBound'
  <2>1. IsFiniteSet(buf[c])
    BY DEF BufferBound
  <2>2. \A d \in Client : buf'[d] = IF d = c THEN buf[c] \cup {requestSegment[c]} ELSE buf[d]
    BY <1>15 DEF AddBlock
  <2>3. Cardinality(buf[c]) < BlockNum
    BY <1>15 DEF AddBlock, BufferBound
  <2>4. pc' = [pc EXCEPT ![c] = pc'[c]] /\ pc'[c] \in {"written", "tellAdd"}
    BY <1>15 DEF AddBlock, Goto
  <2> DEFINE S == buf[c] \cup {requestSegment[c]}
  <2>5. IsFiniteSet(S) /\ Cardinality(S) \in Nat /\ Cardinality(S) <= Cardinality(buf[c]) + 1
    BY <2>1, OneBlock
  <2>6. Cardinality(buf[c]) \in Nat
    BY <2>1, OneBlock
  <2>7. IsFiniteSet(buf'[c]) /\ Cardinality(buf'[c]) <= BlockNum
    BY <2>2, <2>3, <2>5, <2>6, DeliveryAssumption
  <2> QED
    BY <2>2, <2>4, <2>7 DEF BufferBound
<1>16. ASSUME NEW c \in Client, SendAddedBlock(c) PROVE BufferBound'
  BY <1>16 DEF SendAddedBlock, Goto, BufferBound, clientLocals, counters, serverState, directory, reading
<1>17. ASSUME NEW c \in Client, WriteAgain(c) PROVE BufferBound'
  BY <1>17 DEF WriteAgain, increaseTotalCounts, Goto, BufferBound, clientLocals, counters, serverState, directory, reading
<1>18. ASSUME NEW c \in Client, FinishFromPeer(c) PROVE BufferBound'
  BY <1>18 DEF FinishFromPeer, increaseBlockFromClient, Goto, BufferBound, clientLocals, counters, serverState, directory, reading
<1>19. ASSUME NEW c \in Client, FinishFromServer(c) PROVE BufferBound'
  BY <1>19 DEF FinishFromServer, increaseBlockFromServer, Goto, BufferBound, clientLocals, counters, serverState, directory, reading
<1> QED
  BY <1>1, <1>2, <1>3, <1>4, <1>5, <1>6, <1>7, <1>8, <1>9, <1>10, <1>11, <1>12, <1>13, <1>14, <1>15, <1>16, <1>17, <1>18, <1>19
  DEF vars, Next, ClientThread, ServerThread, ManagerThread, ManagerReads, clientLocals, counters, serverState, directory, reading,
      ServerGone, HandleResource, insertP2pClient, HandleSegment, HandleAgain, StartTicks, decreaseAvailableBand, increaseCurrentLoad, EndTicks, increaseAvailableBand, decreaseCurrentLoad, HandleManager, updateP2pClient, insertFileSegment, deleteFileSegment

-----------------------------------------------------------------------------
(* A queue of updates that tells, at its end, whether a row holds: adding  *)
(* a message about another block, adding one about this block, and         *)
(* applying the first message.                                             *)
LEMMA AppendOther ==
    ASSUME NEW Q \in Seq(Manager), NEW m \in Manager, NEW s, ~About(m, s),
           NEW row \in BOOLEAN, NEW known \in BOOLEAN, Agree(Q, s, row, known)
    PROVE  Agree(Append(Q, m), s, row, known)
<1> DEFINE R == Append(Q, m)
<1>1. /\ DOMAIN Q = 1..Len(Q) /\ DOMAIN R = 1..(Len(Q) + 1) /\ Len(Q) \in Nat
      /\ R[Len(Q) + 1] = m /\ \A i \in 1..Len(Q) : R[i] = Q[i]
  OBVIOUS
<1> HIDE DEF R
<1>2. (\A i \in DOMAIN R : ~About(R[i], s)) => (row <=> known)
  BY <1>1 DEF Agree
<1>3. ASSUME NEW i \in DOMAIN R, About(R[i], s), \A j \in DOMAIN R : j > i => ~About(R[j], s)
      PROVE  R[i].kind = "add" <=> known
  <2>1. i \in DOMAIN Q /\ R[i] = Q[i]
    BY <1>1, <1>3
  <2>2. \A j \in DOMAIN Q : j > i => ~About(Q[j], s)
    BY <1>1, <1>3
  <2> QED
    BY <1>3, <2>1, <2>2 DEF Agree
<1> QED
  BY <1>2, <1>3 DEF Agree, R

LEMMA AppendAbout ==
    ASSUME NEW Q \in Seq(Manager), NEW m \in Manager, NEW s, About(m, s),
           NEW row \in BOOLEAN, NEW known \in BOOLEAN, m.kind = "add" <=> known
    PROVE  Agree(Append(Q, m), s, row, known)
<1> DEFINE R == Append(Q, m)
<1>1. /\ DOMAIN R = 1..(Len(Q) + 1) /\ Len(Q) \in Nat
      /\ R[Len(Q) + 1] = m
  OBVIOUS
<1> HIDE DEF R
<1>2. ~ \A i \in DOMAIN R : ~About(R[i], s)
  BY <1>1
<1>3. ASSUME NEW i \in DOMAIN R, \A j \in DOMAIN R : j > i => ~About(R[j], s)
      PROVE  R[i] = m
  BY <1>1, <1>3
<1> QED
  BY <1>2, <1>3 DEF Agree, R

LEMMA ApplyHead ==
    ASSUME NEW Q \in Seq(Manager), Q # <<>>, NEW s,
           NEW row \in BOOLEAN, NEW known \in BOOLEAN, Agree(Q, s, row, known),
           NEW after \in BOOLEAN,
           after <=> IF About(Head(Q), s) THEN Head(Q).kind = "add" ELSE row
    PROVE  Agree(Tail(Q), s, after, known)
<1> DEFINE R == Tail(Q)
<1>1. /\ DOMAIN Q = 1..Len(Q) /\ DOMAIN R = 1..(Len(Q) - 1)
      /\ Len(Q) \in Nat \ {0} /\ Head(Q) = Q[1]
      /\ \A i \in 1..(Len(Q) - 1) : R[i] = Q[i + 1]
  OBVIOUS
<1> HIDE DEF R
<1>2. \A i \in DOMAIN Q : i = 1 \/ (i - 1 \in DOMAIN R /\ Q[i] = R[i - 1])
  BY <1>1
<1>3. ASSUME \A i \in DOMAIN R : ~About(R[i], s)
      PROVE  after <=> known
  <2>1. \A i \in DOMAIN Q : i > 1 => ~About(Q[i], s)
    BY <1>1, <1>2, <1>3
  <2>2. CASE About(Q[1], s)
    BY <1>1, <2>1, <2>2 DEF Agree
  <2>3. CASE ~About(Q[1], s)
    BY <1>1, <2>1, <2>3 DEF Agree
  <2> QED
    BY <2>2, <2>3
<1>4. ASSUME NEW i \in DOMAIN R, About(R[i], s), \A j \in DOMAIN R : j > i => ~About(R[j], s)
      PROVE  R[i].kind = "add" <=> known
  <2>1. i + 1 \in DOMAIN Q /\ Q[i + 1] = R[i]
    BY <1>1
  <2>2. \A j \in DOMAIN Q : j > i + 1 => ~About(Q[j], s)
    BY <1>1, <1>2, <1>4
  <2> QED
    BY <1>4, <2>1, <2>2 DEF Agree
<1> QED
  BY <1>3, <1>4 DEF Agree, R

-----------------------------------------------------------------------------
(* A step that changes no buffer, no queue and no row, and enters or       *)
(* leaves no point where a change is still to be told, changes nothing the *)
(* directory is or will be told.                                           *)
Telling == {"tellEliminate", "tellAdd"}
Quiet ==
    /\ UNCHANGED <<buf, managerSock, ivod_seg_t, misread>>
    /\ \A d \in Client : \/ pc[d] \notin Telling /\ pc'[d] \notin Telling
                        \/ UNCHANGED <<pc[d], requestSegment[d], victim[d]>>

LEMMA KnownBoolean == \A c \in Client, s \in Segment : Known(c, s) \in BOOLEAN
BY DEF Known

LEMMA DirectoryStep ==
    TypeOK /\ FetchOnce /\ VictimGone /\ DirectoryFollowsBuffer /\ [Next]_vars
        => DirectoryFollowsBuffer'
<1> SUFFICES ASSUME TypeOK, FetchOnce, VictimGone, DirectoryFollowsBuffer, [Next]_vars
             PROVE  DirectoryFollowsBuffer'
  OBVIOUS
<1> USE DEF TypeOK
<1>1. ASSUME Quiet PROVE DirectoryFollowsBuffer'
  <2>1. \A d \in Client, s \in Segment : Known(d, s)' <=> Known(d, s)
    BY <1>1 DEF Quiet, Telling, Known
  <2>2. UNCHANGED <<managerSock, ivod_seg_t, misread>>
    BY <1>1 DEF Quiet
  <2> QED
    BY <2>1, <2>2 DEF DirectoryFollowsBuffer, Agree
<1>2. ASSUME NEW c \in Client, Run(c) PROVE Quiet
  BY <1>2 DEF Quiet, Telling, ThreadTypes, BufferTypes, Run, Goto, clientLocals, counters, serverState, directory, reading
<1>3. ASSUME NEW c \in Client, ReceiveInfo(c) PROVE Quiet
  BY <1>3 DEF Quiet, Telling, ThreadTypes, BufferTypes, ReceiveInfo, Goto, clientLocals, counters, serverState, directory, reading
<1>4. ASSUME NEW c \in Client, NEW s \in Segment, WantSegment(c, s) PROVE Quiet
  BY <1>4 DEF Quiet, Telling, ThreadTypes, BufferTypes, WantSegment, increaseBlockFromBuf, Goto, clientLocals, counters, serverState, directory, reading
<1>5. ASSUME NEW c \in Client, Stop(c) PROVE Quiet
  BY <1>5 DEF Quiet, Telling, ThreadTypes, BufferTypes, Stop, Goto, clientLocals, counters, serverState, directory, reading
<1>6. ASSUME NEW c \in Client, ReceiveServerReply(c) PROVE Quiet
  BY <1>6 DEF Quiet, Telling, ThreadTypes, BufferTypes, ReceiveServerReply, increaseServerCounts, Goto, clientLocals, counters, serverState, directory, reading
<1>7. ASSUME NEW c \in Client, ReceivePeerReply(c) PROVE Quiet
  BY <1>7 DEF Quiet, Telling, ThreadTypes, BufferTypes, ReceivePeerReply, Goto, clientLocals, counters, serverState, directory, reading
<1>8. ASSUME NEW c \in Client, AskPeer(c) PROVE Quiet
  BY <1>8 DEF Quiet, Telling, ThreadTypes, BufferTypes, AskPeer, Goto, clientLocals, counters, serverState, directory, reading
<1>9. ASSUME NEW c \in Client, LeasePeer(c) PROVE Quiet
  BY <1>9 DEF Quiet, Telling, ThreadTypes, BufferTypes, LeasePeer, Goto, clientLocals, counters, serverState, directory, reading
<1>10. ASSUME NEW c \in Client, ReadBand(c) PROVE Quiet
  BY <1>10 DEF Quiet, Telling, ThreadTypes, BufferTypes, ReadBand, Goto, clientLocals, counters, serverState, directory, reading
<1>11. ASSUME NEW c \in Client, ReleasePeer(c) PROVE Quiet
  BY <1>11 DEF Quiet, Telling, ThreadTypes, BufferTypes, ReleasePeer, Goto, clientLocals, counters, serverState, directory, reading
<1>12. ASSUME NEW c \in Client, WriteAgain(c) PROVE Quiet
  BY <1>12 DEF Quiet, Telling, ThreadTypes, BufferTypes, WriteAgain, increaseTotalCounts, Goto, clientLocals, counters, serverState, directory, reading
<1>13. ASSUME NEW c \in Client, FinishFromPeer(c) PROVE Quiet
  BY <1>13 DEF Quiet, Telling, ThreadTypes, BufferTypes, FinishFromPeer, increaseBlockFromClient, Goto, clientLocals, counters, serverState, directory, reading
<1>14. ASSUME NEW c \in Client, FinishFromServer(c) PROVE Quiet
  BY <1>14 DEF Quiet, Telling, ThreadTypes, BufferTypes, FinishFromServer, increaseBlockFromServer, Goto, clientLocals, counters, serverState, directory, reading
<1>15. ASSUME NEW c \in Client, ServerGone(c) PROVE Quiet
  BY <1>15 DEF Quiet, ServerGone, clientLocals, counters, serverState, directory, reading
<1>16. ASSUME NEW c \in Client, HandleResource(c) PROVE Quiet
  BY <1>16 DEF Quiet, HandleResource, insertP2pClient, clientLocals, counters, serverState, directory, reading
<1>17. ASSUME NEW c \in Client, HandleSegment(c) PROVE Quiet
  BY <1>17 DEF Quiet, HandleSegment, clientLocals, counters, serverState, directory, reading
<1>18. ASSUME NEW c \in Client, HandleAgain(c) PROVE Quiet
  BY <1>18 DEF Quiet, HandleAgain, clientLocals, counters, serverState, directory, reading
<1>19. ASSUME NEW c \in Client, StartTicks(c) PROVE Quiet
  BY <1>19 DEF Quiet, StartTicks, decreaseAvailableBand, increaseCurrentLoad, clientLocals, counters, serverState, directory, reading
<1>20. ASSUME NEW c \in Client, EndTicks(c) PROVE Quiet
  BY <1>20 DEF Quiet, EndTicks, increaseAvailableBand, decreaseCurrentLoad, clientLocals, counters, serverState, directory, reading
<1>21. ASSUME NEW c \in Client, SendCurrentLoad(c) PROVE DirectoryFollowsBuffer'
  <2>1. Beat(beat[c]) \in Manager /\ \A s \in Segment : ~About(Beat(beat[c]), s)
    BY Messages DEF BandTypes, About, Beat
  <2>2. /\ managerSock' = [managerSock EXCEPT ![peer[c]] = Append(@, Beat(beat[c]))]
        /\ peer[c] \in Client
        /\ managerSock \in [Client -> Seq(Manager)]
    BY <1>21 DEF SendCurrentLoad, Send, ThreadTypes, SocketTypes
  <2>3. \A d \in Client, s \in Segment : Known(d, s)' <=> Known(d, s)
    BY <1>21 DEF SendCurrentLoad, Goto, ThreadTypes, BufferTypes, Known, clientLocals
  <2>4. ASSUME NEW d \in Client \ misread, NEW s \in Segment
        PROVE  Agree(managerSock[d], s, <<d, s>> \in ivod_seg_t, Known(d, s))'
    <3>1. Agree(managerSock[d], s, <<d, s>> \in ivod_seg_t, Known(d, s))
      BY DEF DirectoryFollowsBuffer
    <3>2. ASSUME d = peer[c]
          PROVE  Agree(managerSock'[d], s, <<d, s>> \in ivod_seg_t, Known(d, s))
      <4>1. /\ managerSock[d] \in Seq(Manager) /\ Known(d, s) \in BOOLEAN
            /\ (<<d, s>> \in ivod_seg_t) \in BOOLEAN
            /\ managerSock'[d] = Append(managerSock[d], Beat(beat[c]))
        BY <2>2, <3>2, KnownBoolean
      <4> QED
        BY <2>1, <3>1, <4>1, AppendOther, Zenon
    <3>4. ASSUME d # peer[c]
          PROVE  Agree(managerSock'[d], s, <<d, s>> \in ivod_seg_t, Known(d, s))
      BY <2>2, <3>1, <3>4
    <3>3. ivod_seg_t' = ivod_seg_t /\ misread' = misread
      BY <1>21 DEF SendCurrentLoad, serverState, directory, reading
    <3>5. Agree(managerSock'[d], s, <<d, s>> \in ivod_seg_t, Known(d, s))
      BY <3>2, <3>4
    <3> QED
      BY <2>3, <3>5, <3>3 DEF Agree
  <2>5. misread' = misread
    BY <1>21 DEF SendCurrentLoad, serverState, reading
  <2> QED
    BY <2>4, <2>5 DEF DirectoryFollowsBuffer
<1>22. ASSUME NEW c \in Client, MakeRoom(c) PROVE DirectoryFollowsBuffer'
  <2>1. \A d \in Client, s \in Segment : Known(d, s)' <=> Known(d, s)
    BY <1>22 DEF MakeRoom, Goto, ThreadTypes, BufferTypes, Known
  <2>2. UNCHANGED <<managerSock, ivod_seg_t, misread>>
    BY <1>22 DEF MakeRoom, serverState, directory, reading
  <2> QED
    BY <2>1, <2>2 DEF DirectoryFollowsBuffer, Agree
<1>23. ASSUME NEW c \in Client, AddBlock(c) PROVE DirectoryFollowsBuffer'
  <2>1. \A d \in Client, s \in Segment : Known(d, s)' <=> Known(d, s)
    BY <1>23 DEF AddBlock, haveSegment, Goto, ThreadTypes, BufferTypes, Known, clientLocals
  <2>2. UNCHANGED <<managerSock, ivod_seg_t, misread>>
    BY <1>23 DEF AddBlock, serverState, directory, reading
  <2> QED
    BY <2>1, <2>2 DEF DirectoryFollowsBuffer, Agree
<1>24. ASSUME NEW c \in Client, SendEliminateBlock(c) PROVE DirectoryFollowsBuffer'
  <2> DEFINE m == Update("eliminate", victim[c])
  <2>1. m \in Manager /\ m.kind = "eliminate" /\ m.seg = victim[c]
    BY Messages DEF ThreadTypes, BufferTypes, Update
  <2>2. \A s \in Segment : About(m, s) <=> s = victim[c]
    BY <2>1 DEF About
  <2>3. /\ managerSock' = [managerSock EXCEPT ![c] = Append(@, m)]
        /\ managerSock \in [Client -> Seq(Manager)]
    BY <1>24 DEF SendEliminateBlock, Send, SocketTypes
  <2>4. \A d \in Client, s \in Segment :
          (d # c \/ s # victim[c]) => (Known(d, s)' <=> Known(d, s))
    BY <1>24 DEF SendEliminateBlock, Goto, ThreadTypes, BufferTypes, Known, clientLocals
  <2>5. \A s \in Segment : s = victim[c] => (m.kind = "add" <=> Known(c, s)')
    BY <1>24, <2>1 DEF SendEliminateBlock, Goto, ThreadTypes, BufferTypes, Known, clientLocals, VictimGone
  <2>6. ivod_seg_t' = ivod_seg_t /\ misread' = misread
    BY <1>24 DEF SendEliminateBlock, serverState, directory, reading
  <2> HIDE DEF m
  <2>7. ASSUME NEW d \in Client \ misread, NEW s \in Segment
        PROVE  Agree(managerSock'[d], s, <<d, s>> \in ivod_seg_t, Known(d, s)')
    <3>1. Agree(managerSock[d], s, <<d, s>> \in ivod_seg_t, Known(d, s))
      BY DEF DirectoryFollowsBuffer
    <3>2. CASE d # c
      BY <2>3, <2>4, <3>1, <3>2 DEF Agree
    <3>3. CASE d = c /\ s # victim[c]
      <4>1. Agree(Append(managerSock[d], m), s, <<d, s>> \in ivod_seg_t, Known(d, s))
        <5>1. /\ managerSock[d] \in Seq(Manager) /\ Known(d, s) \in BOOLEAN
              /\ (<<d, s>> \in ivod_seg_t) \in BOOLEAN
              /\ m \in Manager /\ ~About(m, s)
          BY <2>1, <2>2, <2>3, <3>3, KnownBoolean
        <5> QED
          BY <3>1, <5>1, AppendOther, Zenon
      <4> QED
        BY <2>3, <2>4, <3>3, <4>1 DEF Agree
    <3>4. CASE d = c /\ s = victim[c]
      <4>1. Known(d, s)' \in BOOLEAN
        BY DEF Known
      <4>2. Agree(Append(managerSock[d], m), s, <<d, s>> \in ivod_seg_t, Known(d, s)')
        <5>1. /\ managerSock[d] \in Seq(Manager) /\ (<<d, s>> \in ivod_seg_t) \in BOOLEAN
              /\ m \in Manager /\ About(m, s) /\ (m.kind = "add" <=> Known(d, s)')
          BY <2>1, <2>2, <2>3, <2>5, <3>4
        <5> QED
          BY <4>1, <5>1, AppendAbout, Zenon
      <4> QED
        BY <2>3, <3>4, <4>2
    <3> QED
      BY <3>2, <3>3, <3>4
  <2> QED
    BY <2>6, <2>7 DEF DirectoryFollowsBuffer, Agree
<1>25. ASSUME NEW c \in Client, SendAddedBlock(c) PROVE DirectoryFollowsBuffer'
  <2> DEFINE m == Update("add", requestSegment[c])
  <2>1. m \in Manager /\ m.kind = "add" /\ m.seg = requestSegment[c]
    BY Messages DEF ThreadTypes, BufferTypes, Update
  <2>2. \A s \in Segment : About(m, s) <=> s = requestSegment[c]
    BY <2>1 DEF About
  <2>3. /\ managerSock' = [managerSock EXCEPT ![c] = Append(@, m)]
        /\ managerSock \in [Client -> Seq(Manager)]
    BY <1>25 DEF SendAddedBlock, Send, SocketTypes
  <2>4. \A d \in Client, s \in Segment :
          (d # c \/ s # requestSegment[c]) => (Known(d, s)' <=> Known(d, s))
    BY <1>25 DEF SendAddedBlock, Goto, ThreadTypes, BufferTypes, Known, clientLocals
  <2>5. \A s \in Segment : s = requestSegment[c] => (m.kind = "add" <=> Known(c, s)')
    BY <1>25, <2>1 DEF SendAddedBlock, Goto, ThreadTypes, BufferTypes, Known, clientLocals, FetchOnce
  <2>6. ivod_seg_t' = ivod_seg_t /\ misread' = misread
    BY <1>25 DEF SendAddedBlock, serverState, directory, reading
  <2> HIDE DEF m
  <2>7. ASSUME NEW d \in Client \ misread, NEW s \in Segment
        PROVE  Agree(managerSock'[d], s, <<d, s>> \in ivod_seg_t, Known(d, s)')
    <3>1. Agree(managerSock[d], s, <<d, s>> \in ivod_seg_t, Known(d, s))
      BY DEF DirectoryFollowsBuffer
    <3>2. CASE d # c
      BY <2>3, <2>4, <3>1, <3>2 DEF Agree
    <3>3. CASE d = c /\ s # requestSegment[c]
      <4>1. Agree(Append(managerSock[d], m), s, <<d, s>> \in ivod_seg_t, Known(d, s))
        <5>1. /\ managerSock[d] \in Seq(Manager) /\ Known(d, s) \in BOOLEAN
              /\ (<<d, s>> \in ivod_seg_t) \in BOOLEAN
              /\ m \in Manager /\ ~About(m, s)
          BY <2>1, <2>2, <2>3, <3>3, KnownBoolean
        <5> QED
          BY <3>1, <5>1, AppendOther, Zenon
      <4> QED
        BY <2>3, <2>4, <3>3, <4>1 DEF Agree
    <3>4. CASE d = c /\ s = requestSegment[c]
      <4>1. Known(d, s)' \in BOOLEAN
        BY DEF Known
      <4>2. Agree(Append(managerSock[d], m), s, <<d, s>> \in ivod_seg_t, Known(d, s)')
        <5>1. /\ managerSock[d] \in Seq(Manager) /\ (<<d, s>> \in ivod_seg_t) \in BOOLEAN
              /\ m \in Manager /\ About(m, s) /\ (m.kind = "add" <=> Known(d, s)')
          BY <2>1, <2>2, <2>3, <2>5, <3>4
        <5> QED
          BY <4>1, <5>1, AppendAbout, Zenon
      <4> QED
        BY <2>3, <3>4, <4>2
    <3> QED
      BY <3>2, <3>3, <3>4
  <2> QED
    BY <2>6, <2>7 DEF DirectoryFollowsBuffer, Agree
<1>26. ASSUME NEW c \in Client, HandleManager(c) PROVE DirectoryFollowsBuffer'
  <2> DEFINE m == Head(managerSock[c])
  <2>1. PICK k \in 1..Len(managerSock[c]) :
          /\ ivod_seg_t' = CASE m.kind = "add"       -> ivod_seg_t \cup {<<c, m.seg>>}
                             [] m.kind = "eliminate" -> ivod_seg_t \ {<<c, m.seg>>}
                             [] OTHER                -> ivod_seg_t
          /\ managerSock' = [managerSock EXCEPT ![c] =
                IF Misreads(m, k) THEN SubSeq(@, k + 1, Len(@)) ELSE Tail(@)]
          /\ misread' = IF Misreads(m, k) THEN misread \cup {c} ELSE misread
    BY <1>26 DEF HandleManager, updateP2pClient, insertFileSegment, deleteFileSegment
  <2>2. managerSock \in [Client -> Seq(Manager)] /\ managerSock[c] # <<>>
    BY <2>1 DEF SocketTypes
  <2>3. \A d \in Client, s \in Segment : Known(d, s)' <=> Known(d, s)
    BY <1>26 DEF HandleManager, updateP2pClient, insertFileSegment, deleteFileSegment, Known, clientLocals
  <2>4. \A s \in Segment : <<c, s>> \in ivod_seg_t' <=>
            IF About(m, s) THEN m.kind = "add" ELSE <<c, s>> \in ivod_seg_t
    BY <2>1 DEF About
  <2>5. \A d \in Client \ {c}, s \in Segment : <<d, s>> \in ivod_seg_t' <=> <<d, s>> \in ivod_seg_t
    BY <2>1
  <2>6. ASSUME NEW d \in Client \ misread', NEW s \in Segment
        PROVE  Agree(managerSock'[d], s, <<d, s>> \in ivod_seg_t', Known(d, s))
    <3>1. d \in Client \ misread
      BY <2>1
    <3>2. Agree(managerSock[d], s, <<d, s>> \in ivod_seg_t, Known(d, s))
      BY <3>1 DEF DirectoryFollowsBuffer
    <3>3. CASE d # c
      <4>1. managerSock'[d] = managerSock[d]
        BY <2>1, <2>2, <3>3
      <4> QED
        BY <2>5, <3>2, <3>3, <4>1 DEF Agree
    <3>4. CASE d = c
      <4>1. managerSock'[c] = Tail(managerSock[c])
        BY <2>1, <2>2, <3>4
      <4>2. Agree(Tail(managerSock[c]), s, <<c, s>> \in ivod_seg_t', Known(c, s))
        <5>1. /\ managerSock[c] \in Seq(Manager) /\ managerSock[c] # <<>>
              /\ Known(c, s) \in BOOLEAN /\ (<<c, s>> \in ivod_seg_t) \in BOOLEAN
              /\ (<<c, s>> \in ivod_seg_t') \in BOOLEAN
          BY <2>2, KnownBoolean
        <5>2. <<c, s>> \in ivod_seg_t' <=>
                IF About(Head(managerSock[c]), s) THEN Head(managerSock[c]).kind = "add"
                ELSE <<c, s>> \in ivod_seg_t
          BY <2>4
        <5> QED
          BY <3>2, <3>4, <5>1, <5>2, ApplyHead, Zenon
      <4> QED
        BY <3>4, <4>1, <4>2
    <3> QED
      BY <3>3, <3>4
  <2> QED
    BY <2>3, <2>6 DEF DirectoryFollowsBuffer, Agree
<1>27. CASE UNCHANGED vars
  BY <1>1, <1>27 DEF vars, Quiet, clientLocals, counters, serverState, directory, reading
<1> QED
  BY <1>1, <1>2, <1>3, <1>4, <1>5, <1>6, <1>7, <1>8, <1>9, <1>10, <1>11, <1>12, <1>13, <1>14, <1>15, <1>16, <1>17, <1>18, <1>19, <1>20, <1>21, <1>22, <1>23, <1>24, <1>25, <1>26, <1>27 DEF Next, ClientThread, ServerThread, ManagerThread, ManagerReads

-----------------------------------------------------------------------------
LEMMA InvInit == Init => IInv
<1> SUFFICES ASSUME Init PROVE IInv
  OBVIOUS
<1> USE DEF Init
<1>1. TypeOK
  BY TypeInit
<1>2. FetchOnce /\ VictimGone
  BY DEF FetchOnce, VictimGone, Fetching, OnPeersBand
<1>3. BufferBound
  BY FS_EmptySet, DeliveryAssumption DEF BufferBound
<1>4. DirectoryFollowsBuffer
  BY DEF DirectoryFollowsBuffer, Agree, Known
<1> QED
  BY <1>1, <1>2, <1>3, <1>4 DEF IInv

LEMMA InvStep == IInv /\ [Next]_vars => IInv'
BY TypeStep, FetchStep, BoundStep, DirectoryStep DEF IInv

(* The inductive invariant holds in every reachable state. *)
THEOREM Invariant == Spec => []IInv
BY InvInit, InvStep, PTL DEF Spec

(* The directory of the server and the buffer of a client of whose messages *)
(* none was misread differ only by the messages under way and the one      *)
(* change not told yet, whatever the number of clients, the order in which *)
(* their updates arrive and the chunks recv takes them in.                 *)
THEOREM DirectoryNeverWrong == Spec => []DirectoryFollowsBuffer
<1>1. IInv => DirectoryFollowsBuffer
  BY DEF IInv
<1> QED
  BY <1>1, Invariant, PTL

(* No client fetches what it holds or fetches from itself, and a fetch     *)
(* that is done has left its block in the buffer.                          *)
THEOREM FetchesOnce == Spec => []FetchOnce
<1>1. IInv => FetchOnce
  BY DEF IInv
<1> QED
  BY <1>1, Invariant, PTL

(* No buffer outgrows its number of blocks. *)
THEOREM BuffersBounded == Spec => []BufferBound
<1>1. IInv => BufferBound
  BY DEF IInv
<1> QED
  BY <1>1, Invariant, PTL

-----------------------------------------------------------------------------
(* SegmentDelivery implements SegmentService: server, directory, messages  *)
(* and bandwidth, whatever their order, only ever move a client through    *)
(* asking, taking from one source, storing and counting.                   *)

LEMMA NoneApart == NoSegment \notin Segment
<1> SUFFICES ASSUME NEW f \in File, NEW i \in Sid PROVE <<f, i>> # <<>>
  BY DEF NoSegment, Segment
<1>1. Len(<<f, i>>) = 2 /\ Len(<<>>) = 0
  OBVIOUS
<1> QED
  BY <1>1

(* A step of client c's thread leaves every other client where it was in   *)
(* the abstract service, so c's new values tell the whole step.            *)
Local(c) == \A d \in Client \ {c} : UNCHANGED <<pc[d], requestSegment[d], stage[d]>>

LEMMA OneMoves ==
    ASSUME NEW c \in Client, Local(c)
    PROVE  /\ [d \in Client |-> wanted(d)]' = [[d \in Client |-> wanted(d)] EXCEPT ![c] = wanted(c)']
           /\ [d \in Client |-> sourceOf(d)]' = [[d \in Client |-> sourceOf(d)] EXCEPT ![c] = sourceOf(c)']
<1>1. \A d \in Client \ {c} : wanted(d)' = wanted(d) /\ sourceOf(d)' = sourceOf(d)
  BY DEF Local, wanted, sourceOf, Sourced, Wanting
<1> QED
  BY <1>1

LEMMA NoneMoves ==
    ASSUME \A d \in Client : wanted(d)' = wanted(d) /\ sourceOf(d)' = sourceOf(d),
           UNCHANGED <<buf, blocks>>
    PROVE  UNCHANGED Service!vars
<1>1. UNCHANGED <<[d \in Client |-> wanted(d)], [d \in Client |-> sourceOf(d)]>>
  OBVIOUS
<1> QED
  BY <1>1 DEF Service!vars

(* A client's own step that changes neither what it wants, nor the source, *)
(* nor its buffer or tally, is no step of the service.                     *)
LEMMA Stutters ==
    ASSUME NEW c \in Client, Local(c),
           wanted(c)' = wanted(c), sourceOf(c)' = sourceOf(c), UNCHANGED <<buf, blocks>>
    PROVE  UNCHANGED Service!vars
<1>1. \A d \in Client \ {c} : wanted(d)' = wanted(d) /\ sourceOf(d)' = sourceOf(d)
  BY DEF Local, wanted, sourceOf, Sourced, Wanting
<1> QED
  BY <1>1, NoneMoves

LEMMA ServiceInit == Init => Service!Init
<1> SUFFICES ASSUME Init PROVE Service!Init
  OBVIOUS
<1>1. \A c \in Client : wanted(c) = NoSegment /\ sourceOf(c) = "none"
  BY DEF Init, wanted, sourceOf, Sourced, Wanting
<1> QED
  BY <1>1 DEF Init, Service!Init

(* The steps of a client thread that the service does not see. *)
LEMMA UnseenStep ==
    ASSUME TypeOK, NEW c \in Client,
           Run(c) \/ ReceiveInfo(c) \/ Stop(c) \/ ReceivePeerReply(c) \/ LeasePeer(c) \/ ReadBand(c)
             \/ SendCurrentLoad(c) \/ ReleasePeer(c) \/ SendEliminateBlock(c) \/ SendAddedBlock(c) \/ WriteAgain(c)
    PROVE  UNCHANGED Service!vars
<1>1. CASE Run(c)
  <2>1. Local(c) /\ UNCHANGED <<buf, blocks>>
    BY <1>1 DEF Run, Local, Goto, clientLocals, counters, TypeOK, ThreadTypes
  <2>2. wanted(c)' = wanted(c) /\ sourceOf(c)' = sourceOf(c)
    BY <1>1 DEF Run, Goto, clientLocals, counters, TypeOK, ThreadTypes, wanted, sourceOf, Sourced, Wanting
  <2> QED
    BY <2>1, <2>2, Stutters
<1>2. CASE ReceiveInfo(c)
  <2>1. Local(c) /\ UNCHANGED <<buf, blocks>>
    BY <1>2 DEF ReceiveInfo, Local, Goto, clientLocals, counters, TypeOK, ThreadTypes
  <2>2. wanted(c)' = wanted(c) /\ sourceOf(c)' = sourceOf(c)
    BY <1>2 DEF ReceiveInfo, Goto, clientLocals, counters, TypeOK, ThreadTypes, wanted, sourceOf, Sourced, Wanting
  <2> QED
    BY <2>1, <2>2, Stutters
<1>3. CASE Stop(c)
  <2>1. Local(c) /\ UNCHANGED <<buf, blocks>>
    BY <1>3 DEF Stop, Local, Goto, clientLocals, counters, TypeOK, ThreadTypes
  <2>2. wanted(c)' = wanted(c) /\ sourceOf(c)' = sourceOf(c)
    BY <1>3 DEF Stop, Goto, clientLocals, counters, TypeOK, ThreadTypes, wanted, sourceOf, Sourced, Wanting
  <2> QED
    BY <2>1, <2>2, Stutters
<1>4. CASE ReceivePeerReply(c)
  <2>1. Local(c) /\ UNCHANGED <<buf, blocks>>
    BY <1>4 DEF ReceivePeerReply, Local, Goto, clientLocals, counters, TypeOK, ThreadTypes
  <2>2. wanted(c)' = wanted(c) /\ sourceOf(c)' = sourceOf(c)
    BY <1>4 DEF ReceivePeerReply, Goto, clientLocals, counters, TypeOK, ThreadTypes, wanted, sourceOf, Sourced, Wanting
  <2> QED
    BY <2>1, <2>2, Stutters
<1>5. CASE LeasePeer(c)
  <2>1. Local(c) /\ UNCHANGED <<buf, blocks>>
    BY <1>5 DEF LeasePeer, Local, Goto, clientLocals, counters, TypeOK, ThreadTypes
  <2>2. wanted(c)' = wanted(c) /\ sourceOf(c)' = sourceOf(c)
    BY <1>5 DEF LeasePeer, Goto, clientLocals, counters, TypeOK, ThreadTypes, wanted, sourceOf, Sourced, Wanting
  <2> QED
    BY <2>1, <2>2, Stutters
<1>6. CASE ReadBand(c)
  <2>1. Local(c) /\ UNCHANGED <<buf, blocks>>
    BY <1>6 DEF ReadBand, Local, Goto, clientLocals, counters, TypeOK, ThreadTypes
  <2>2. wanted(c)' = wanted(c) /\ sourceOf(c)' = sourceOf(c)
    BY <1>6 DEF ReadBand, Goto, clientLocals, counters, TypeOK, ThreadTypes, wanted, sourceOf, Sourced, Wanting
  <2> QED
    BY <2>1, <2>2, Stutters
<1>7. CASE SendCurrentLoad(c)
  <2>1. Local(c) /\ UNCHANGED <<buf, blocks>>
    BY <1>7 DEF SendCurrentLoad, Local, Goto, clientLocals, counters, TypeOK, ThreadTypes
  <2>2. wanted(c)' = wanted(c) /\ sourceOf(c)' = sourceOf(c)
    BY <1>7 DEF SendCurrentLoad, Goto, clientLocals, counters, TypeOK, ThreadTypes, wanted, sourceOf, Sourced, Wanting
  <2> QED
    BY <2>1, <2>2, Stutters
<1>8. CASE ReleasePeer(c)
  <2>1. Local(c) /\ UNCHANGED <<buf, blocks>>
    BY <1>8 DEF ReleasePeer, Local, Goto, clientLocals, counters, TypeOK, ThreadTypes
  <2>2. wanted(c)' = wanted(c) /\ sourceOf(c)' = sourceOf(c)
    BY <1>8 DEF ReleasePeer, Goto, clientLocals, counters, TypeOK, ThreadTypes, wanted, sourceOf, Sourced, Wanting
  <2> QED
    BY <2>1, <2>2, Stutters
<1>9. CASE SendEliminateBlock(c)
  <2>1. Local(c) /\ UNCHANGED <<buf, blocks>>
    BY <1>9 DEF SendEliminateBlock, Local, Goto, clientLocals, counters, TypeOK, ThreadTypes
  <2>2. wanted(c)' = wanted(c) /\ sourceOf(c)' = sourceOf(c)
    BY <1>9 DEF SendEliminateBlock, Goto, clientLocals, counters, TypeOK, ThreadTypes, wanted, sourceOf, Sourced, Wanting
  <2> QED
    BY <2>1, <2>2, Stutters
<1>10. CASE SendAddedBlock(c)
  <2>1. Local(c) /\ UNCHANGED <<buf, blocks>>
    BY <1>10 DEF SendAddedBlock, Local, Goto, clientLocals, counters, TypeOK, ThreadTypes
  <2>2. wanted(c)' = wanted(c) /\ sourceOf(c)' = sourceOf(c)
    BY <1>10 DEF SendAddedBlock, Goto, clientLocals, counters, TypeOK, ThreadTypes, wanted, sourceOf, Sourced, Wanting
  <2> QED
    BY <2>1, <2>2, Stutters
<1>11. CASE WriteAgain(c)
  <2>1. Local(c) /\ UNCHANGED <<buf, blocks>>
    BY <1>11 DEF WriteAgain, increaseTotalCounts, Local, Goto, clientLocals, counters, TypeOK, ThreadTypes
  <2>2. wanted(c)' = wanted(c) /\ sourceOf(c)' = sourceOf(c)
    BY <1>11 DEF WriteAgain, increaseTotalCounts, Goto, clientLocals, counters, TypeOK, ThreadTypes, wanted, sourceOf, Sourced, Wanting
  <2> QED
    BY <2>1, <2>2, Stutters
<1> QED
  BY <1>1, <1>2, <1>3, <1>4, <1>5, <1>6, <1>7, <1>8, <1>9, <1>10, <1>11

(* The steps of the server, and the end of the client process. *)
LEMMA ServerUnseen ==
    ASSUME NEW c \in Client,
           ServerGone(c) \/ HandleResource(c) \/ HandleSegment(c) \/ HandleAgain(c)
             \/ StartTicks(c) \/ EndTicks(c) \/ HandleManager(c)
    PROVE  UNCHANGED Service!vars
<1>1. UNCHANGED <<pc, requestSegment, stage, buf, blocks>>
  BY DEF ServerGone, HandleResource, insertP2pClient, HandleSegment, HandleAgain, StartTicks, decreaseAvailableBand, increaseCurrentLoad, EndTicks, increaseAvailableBand, decreaseCurrentLoad, HandleManager, updateP2pClient, insertFileSegment, deleteFileSegment, clientLocals, counters
<1> QED
  BY <1>1, NoneMoves DEF wanted, sourceOf, Sourced, Wanting

(* A client plays what it holds, or asks for what it does not.             *)
LEMMA WantStep ==
    ASSUME IInv, NEW c \in Client, NEW s \in Segment, WantSegment(c, s)
    PROVE  [Service!Next]_(Service!vars)
<1> DEFINE W == [d \in Client |-> wanted(d)]
           S == [d \in Client |-> sourceOf(d)]
<1> USE DEF IInv
<1>1. Local(c) /\ wanted(c) = NoSegment /\ sourceOf(c) = "none" /\ buf' = buf
  BY DEF WantSegment, increaseBlockFromBuf, Local, Goto, clientLocals, counters, TypeOK, ThreadTypes, wanted, sourceOf, Sourced, Wanting
<1>2. CASE haveSegment(c, s)
  <2>1. /\ wanted(c)' = NoSegment /\ sourceOf(c)' = "none"
        /\ blocks' = [blocks EXCEPT ![c].buf = @ + 1] /\ buf[c] # {}
    BY <1>2 DEF WantSegment, increaseBlockFromBuf, haveSegment, Local, Goto, clientLocals, counters, TypeOK, ThreadTypes, wanted, sourceOf, Sourced, Wanting
  <2>2. W' = [W EXCEPT ![c] = NoSegment] /\ S' = [S EXCEPT ![c] = "none"]
    BY <1>1, <2>1, OneMoves
  <2>3. W' = W /\ S' = S /\ W[c] = NoSegment
    BY <1>1, <2>2
  <2>4. Service!PlayOwn(c)
    BY <1>1, <2>1, <2>3 DEF Service!PlayOwn
  <2> QED
    BY <2>4 DEF Service!Next
<1>3. CASE ~haveSegment(c, s)
  <2>1. /\ wanted(c)' = s /\ sourceOf(c)' = "none"
        /\ UNCHANGED blocks /\ s \notin buf[c]
    BY <1>3 DEF WantSegment, increaseBlockFromBuf, haveSegment, Local, Goto, clientLocals, counters, TypeOK, ThreadTypes, wanted, sourceOf, Sourced, Wanting
  <2>2. W' = [W EXCEPT ![c] = s] /\ S' = [S EXCEPT ![c] = "none"]
    BY <1>1, <2>1, OneMoves
  <2>3. S' = S /\ W[c] = NoSegment
    BY <1>1, <2>2
  <2>4. Service!Ask(c, s)
    BY <1>1, <2>1, <2>2, <2>3 DEF Service!Ask
  <2> QED
    BY <2>4 DEF Service!Next
<1> QED
  BY <1>2, <1>3

(* The server's reply makes it the source, or ends the client process.     *)
LEMMA ServerReplyStep ==
    ASSUME IInv, NEW c \in Client, ReceiveServerReply(c)
    PROVE  [Service!Next]_(Service!vars)
<1> DEFINE W == [d \in Client |-> wanted(d)]
           S == [d \in Client |-> sourceOf(d)]
<1> USE DEF IInv
<1>1. Local(c) /\ UNCHANGED <<buf, blocks>>
  BY DEF ReceiveServerReply, increaseServerCounts, Local, Goto, clientLocals, counters, TypeOK, ThreadTypes
<1>2. CASE UNCHANGED <<pc, stage>>
  <2>1. wanted(c)' = wanted(c) /\ sourceOf(c)' = sourceOf(c)
    BY <1>2 DEF ReceiveServerReply, increaseServerCounts, wanted, sourceOf, Sourced, Wanting
  <2> QED
    BY <1>1, <2>1, Stutters
<1>3. CASE stage' = [stage EXCEPT ![c] = "server"] /\ Goto(c, "write")
  <2>1. /\ wanted(c) = requestSegment[c] /\ wanted(c)' = wanted(c)
        /\ sourceOf(c) = "none" /\ sourceOf(c)' = "server"
    BY <1>3 DEF ReceiveServerReply, increaseServerCounts, Local, Goto, clientLocals, counters, TypeOK, ThreadTypes, wanted, sourceOf, Sourced, Wanting
  <2>2. W' = W /\ S' = [S EXCEPT ![c] = "server"] /\ W[c] # NoSegment /\ S[c] = "none"
    <3>1. W' = [W EXCEPT ![c] = W[c]] /\ S' = [S EXCEPT ![c] = "server"]
      BY <1>1, <2>1, OneMoves
    <3>2. requestSegment[c] # NoSegment
      BY NoneApart DEF TypeOK, ThreadTypes
    <3>3. W' = W
      BY <3>1
    <3> QED
      BY <2>1, <3>1, <3>2, <3>3
  <2>3. Service!TakeFromServer(c)
    BY <1>1, <2>2 DEF Service!TakeFromServer
  <2> QED
    BY <2>3 DEF Service!Next
<1> QED
  BY <1>2, <1>3 DEF ReceiveServerReply, increaseServerCounts

(* A hit in the peer's buffer: the peer is another client and holds it.    *)
LEMMA AskStep ==
    ASSUME IInv, NEW c \in Client, AskPeer(c)
    PROVE  [Service!Next]_(Service!vars)
<1> DEFINE W == [d \in Client |-> wanted(d)]
           S == [d \in Client |-> sourceOf(d)]
<1> USE DEF IInv
<1>1. Local(c) /\ UNCHANGED <<buf, blocks>>
  BY DEF AskPeer, Local, Goto, clientLocals, counters, TypeOK, ThreadTypes
<1>2. CASE ~readFileSegment(peer[c], requestSegment[c])
  <2>1. wanted(c)' = wanted(c) /\ sourceOf(c)' = sourceOf(c)
    BY <1>2 DEF AskPeer, Local, Goto, clientLocals, counters, TypeOK, ThreadTypes, wanted, sourceOf, Sourced, Wanting
  <2> QED
    BY <1>1, <2>1, Stutters
<1>3. CASE readFileSegment(peer[c], requestSegment[c])
  <2>1. /\ wanted(c) = requestSegment[c] /\ wanted(c)' = wanted(c)
        /\ sourceOf(c) = "none" /\ sourceOf(c)' = "clients"
    BY <1>3 DEF AskPeer, Local, Goto, clientLocals, counters, TypeOK, ThreadTypes, wanted, sourceOf, Sourced, Wanting
  <2>2. W' = W /\ S' = [S EXCEPT ![c] = "clients"] /\ W[c] # NoSegment /\ S[c] = "none"
    <3>1. W' = [W EXCEPT ![c] = W[c]] /\ S' = [S EXCEPT ![c] = "clients"]
      BY <1>1, <2>1, OneMoves
    <3>2. requestSegment[c] # NoSegment
      BY NoneApart DEF TypeOK, ThreadTypes
    <3>3. W' = W
      BY <3>1
    <3> QED
      BY <2>1, <3>1, <3>2, <3>3
  <2>3. W[c] \in buf[peer[c]] /\ peer[c] \in Client \ {c}
    BY <1>3, <2>1 DEF AskPeer, readFileSegment, FetchOnce, Fetching, TypeOK, ThreadTypes
  <2>4. Service!TakeFromPeer(c)
    BY <1>1, <2>2, <2>3 DEF Service!TakeFromPeer
  <2> QED
    BY <2>4 DEF Service!Next
<1> QED
  BY <1>2, <1>3

(* A full buffer holds exactly as many blocks as it may.                   *)
LEMMA RoomStep ==
    ASSUME IInv, NEW c \in Client, MakeRoom(c)
    PROVE  [Service!Next]_(Service!vars)
<1> DEFINE W == [d \in Client |-> wanted(d)]
           S == [d \in Client |-> sourceOf(d)]
<1> USE DEF IInv
<1>1. /\ Local(c) /\ UNCHANGED blocks
      /\ wanted(c)' = wanted(c) /\ sourceOf(c)' = sourceOf(c) /\ sourceOf(c) # "none"
  BY DEF MakeRoom, Local, Goto, clientLocals, counters, TypeOK, ThreadTypes, wanted, sourceOf, Sourced, Wanting
<1>2. CASE UNCHANGED buf
  BY <1>1, <1>2, Stutters
<1>3. ASSUME Full(c), NEW v \in buf[c], buf' = [buf EXCEPT ![c] = @ \ {v}]
      PROVE  Service!Next
  <2>1. Service!Cardinality(buf[c]) = Cardinality(buf[c])
    BY DEF Service!Cardinality, Cardinality
  <2>2. Cardinality(buf[c]) \in Nat
    BY FS_CardinalityType DEF BufferBound
  <2>3. Cardinality(buf[c]) = BlockNum
    BY <1>3, <2>2, DeliveryAssumption DEF Full, BufferBound
  <2>4. W' = W /\ S' = S /\ S[c] # "none"
    BY <1>1, OneMoves
  <2>5. Service!MakeRoom(c)
    BY <1>1, <1>3, <2>1, <2>3, <2>4 DEF Service!MakeRoom
  <2> QED
    BY <2>5 DEF Service!Next
<1> QED
  BY <1>2, <1>3 DEF MakeRoom

(* addBlock stores a block that is not there, in room that is.             *)
LEMMA AddStep ==
    ASSUME IInv, NEW c \in Client, AddBlock(c)
    PROVE  [Service!Next]_(Service!vars)
<1> DEFINE W == [d \in Client |-> wanted(d)]
           S == [d \in Client |-> sourceOf(d)]
<1> USE DEF IInv
<1>1. /\ Local(c) /\ UNCHANGED blocks /\ wanted(c) = requestSegment[c]
      /\ wanted(c)' = wanted(c) /\ sourceOf(c)' = sourceOf(c) /\ sourceOf(c) # "none"
  BY DEF AddBlock, Local, Goto, clientLocals, counters, TypeOK, ThreadTypes, wanted, sourceOf, Sourced, Wanting
<1>2. buf' = [buf EXCEPT ![c] = @ \cup {requestSegment[c]}]
  BY DEF AddBlock
<1>3. CASE requestSegment[c] \in buf[c]
  <2>1. UNCHANGED buf
    BY <1>2, <1>3 DEF TypeOK, BufferTypes
  <2> QED
    BY <1>1, <2>1, Stutters
<1>4. CASE requestSegment[c] \notin buf[c]
  <2>1. Service!Cardinality(buf[c]) = Cardinality(buf[c])
    BY DEF Service!Cardinality, Cardinality
  <2>2. Cardinality(buf[c]) < BlockNum
    BY DEF AddBlock, BufferBound
  <2>3. W' = W /\ S' = S /\ S[c] # "none" /\ W[c] = requestSegment[c]
    BY <1>1, OneMoves
  <2>4. Service!Store(c)
    BY <1>1, <1>2, <1>4, <2>1, <2>2, <2>3 DEF Service!Store
  <2> QED
    BY <2>4 DEF Service!Next
<1> QED
  BY <1>3, <1>4

(* A fetch is over with its block stored and its one source credited.      *)
LEMMA FinishStep ==
    ASSUME IInv, NEW c \in Client, FinishFromPeer(c) \/ FinishFromServer(c)
    PROVE  [Service!Next]_(Service!vars)
<1> DEFINE W == [d \in Client |-> wanted(d)]
           S == [d \in Client |-> sourceOf(d)]
<1> USE DEF IInv
<1>1. /\ Local(c) /\ UNCHANGED buf /\ wanted(c) = requestSegment[c]
      /\ wanted(c)' = NoSegment /\ sourceOf(c)' = "none"
  BY DEF FinishFromPeer, increaseBlockFromClient, FinishFromServer, increaseBlockFromServer, Local, Goto, clientLocals, counters, TypeOK, ThreadTypes, wanted, sourceOf, Sourced, Wanting
<1>2. requestSegment[c] \in buf[c]
  BY DEF FinishFromPeer, increaseBlockFromClient, FinishFromServer, increaseBlockFromServer, FetchOnce
<1>3. /\ sourceOf(c) # "none"
      /\ blocks' = [blocks EXCEPT ![c][sourceOf(c)] = @ + 1]
  BY DEF FinishFromPeer, increaseBlockFromClient, FinishFromServer, increaseBlockFromServer, wanted, sourceOf, Sourced, Wanting
<1>4. /\ W' = [W EXCEPT ![c] = NoSegment] /\ S' = [S EXCEPT ![c] = "none"]
      /\ W[c] = requestSegment[c] /\ S[c] = sourceOf(c)
  BY <1>1, OneMoves
<1>5. Service!Finish(c)
  BY <1>1, <1>2, <1>3, <1>4 DEF Service!Finish
<1> QED
  BY <1>5 DEF Service!Next

LEMMA ServiceStep == IInv /\ [Next]_vars => [Service!Next]_(Service!vars)
<1> SUFFICES ASSUME IInv, [Next]_vars PROVE [Service!Next]_(Service!vars)
  OBVIOUS
<1>1. CASE UNCHANGED vars
  BY <1>1, NoneMoves DEF vars, clientLocals, counters, wanted, sourceOf, Sourced, Wanting
<1>2. ASSUME NEW c \in Client, ClientThread(c) PROVE [Service!Next]_(Service!vars)
  BY <1>2, UnseenStep, ServerUnseen, WantStep, ServerReplyStep, AskStep, RoomStep, AddStep,
     FinishStep DEF ClientThread, IInv
<1>3. ASSUME NEW c \in Client, ServerThread(c) \/ HandleManager(c)
      PROVE  [Service!Next]_(Service!vars)
  BY <1>3, ServerUnseen DEF ServerThread
<1> QED
  BY <1>1, <1>2, <1>3 DEF Next, ManagerThread, ManagerReads

(* Every run of clients and server is a run of the service: no client is   *)
(* its own peer, a block credited to clients came out of another client's  *)
(* buffer, one credited to the server from the server, and a fetch that is *)
(* counted has stored its block.                                           *)
THEOREM DeliveryImplementsService == Spec => ServiceRefined
BY ServiceInit, ServiceStep, Invariant, PTL DEF Spec, ServiceRefined, Service!Spec

-----------------------------------------------------------------------------
(* The books: sums over the clients, the band ledger, the counters. *)

(* Every collection of subsets of a finite set has a smallest one: what    *)
(* holds of no smallest exception holds of all.                            *)
LEMMA Minimal ==
    ASSUME NEW C, IsFiniteSet(C), NEW B, B \subseteq SUBSET C, B # {}
    PROVE  \E S \in B : \A T \in B : T \subseteq S => T = S
<1>1. IsWellFoundedOn(StrictSubsetOrdering(C), SUBSET C)
  BY FS_StrictSubsetOrderingWellFounded, FS_FiniteSubsetsOfFinite
<1>2. PICK S \in B : \A T \in B : <<T, S>> \notin StrictSubsetOrdering(C)
  BY <1>1, WFMin
<1>3. ASSUME NEW T \in B, T \subseteq S PROVE T = S
  BY <1>2, <1>3 DEF StrictSubsetOrdering
<1> QED
  BY <1>3

(* The sum of the community modules, one element at a time.                *)
Pick(s) == CHOOSE x \in s : TRUE
Adds(g, f, S) == g = [s \in SUBSET S |-> IF s = {} THEN 0 ELSE f[Pick(s)] + g[s \ {Pick(s)}]]

LEMMA SumIs == ASSUME NEW f, NEW S PROVE SumFunctionOnSet(f, S) = (CHOOSE g : Adds(g, f, S))[S]
BY DEF SumFunctionOnSet, FoldFunctionOnSet, MapThenFoldSet, Adds, Pick

LEMMA PickIn == \A s : s # {} => Pick(s) \in s
BY DEF Pick

(* Two ways to add agree where both are defined. *)
LEMMA AddsOnce ==
    ASSUME NEW C, IsFiniteSet(C), NEW f, NEW S, S \subseteq C, NEW T, T \subseteq S,
           NEW g, Adds(g, f, S), NEW h, Adds(h, f, T)
    PROVE  g[T] = h[T]
<1> DEFINE B == {s \in SUBSET T : g[s] # h[s]}
<1>1. SUFFICES B = {}
  OBVIOUS
<1>2. SUFFICES ASSUME B # {} PROVE FALSE
  OBVIOUS
<1>3. PICK s \in B : \A t \in B : t \subseteq s => t = s
  <2>1. B \subseteq SUBSET C
    OBVIOUS
  <2> HIDE DEF B
  <2> QED
    BY <1>2, <2>1, Minimal
<1>4. s \in SUBSET S /\ s \in SUBSET T
  OBVIOUS
<1>5. /\ g[s] = IF s = {} THEN 0 ELSE f[Pick(s)] + g[s \ {Pick(s)}]
      /\ h[s] = IF s = {} THEN 0 ELSE f[Pick(s)] + h[s \ {Pick(s)}]
  BY <1>4 DEF Adds
<1>6. CASE s = {}
  BY <1>5, <1>6
<1>7. CASE s # {}
  <2>1. PICK t : t = s \ {Pick(s)}
    OBVIOUS
  <2>2. t \subseteq s /\ t # s /\ t \in SUBSET T
    BY <1>4, <1>7, <2>1, PickIn
  <2>3. g[t] = h[t]
    BY <1>3, <2>2
  <2> QED
    BY <1>5, <1>7, <2>1, <2>3
<1> QED
  BY <1>6, <1>7

(* There is a way to add every finite set. *)
LEMMA AddsExists ==
    ASSUME NEW C, IsFiniteSet(C), NEW f, NEW S, S \subseteq C
    PROVE  \E g : Adds(g, f, S)
<1> DEFINE B == {s \in SUBSET C : ~ \E g : Adds(g, f, s)}
<1>1. SUFFICES ASSUME B # {} PROVE FALSE
  OBVIOUS
<1>2. PICK s \in B : \A t \in B : t \subseteq s => t = s
  <2>1. B \subseteq SUBSET C
    OBVIOUS
  <2> HIDE DEF B
  <2> QED
    BY <1>1, <2>1, Minimal
<1> DEFINE G(t) == CHOOSE g : Adds(g, f, t)
           h == [t \in SUBSET s |-> IF t = {} THEN 0
                                    ELSE f[Pick(t)] + G(t \ {Pick(t)})[t \ {Pick(t)}]]
<1>3. ASSUME NEW t, t \subseteq s, t # s PROVE Adds(G(t), f, t)
  <2>1. t \in SUBSET C /\ t \notin B
    BY <1>2, <1>3
  <2> QED
    BY <2>1
<1>4. ASSUME NEW t, t \subseteq s, t # s PROVE h[t] = G(t)[t]
  <2>1. Adds(G(t), f, t)
    BY <1>3, <1>4
  <2>2. G(t)[t] = IF t = {} THEN 0 ELSE f[Pick(t)] + G(t)[t \ {Pick(t)}]
    <3> HIDE DEF G
    <3> QED
      BY <2>1 DEF Adds
  <2>3. h[t] = IF t = {} THEN 0 ELSE f[Pick(t)] + G(t \ {Pick(t)})[t \ {Pick(t)}]
    <3> HIDE DEF G
    <3> QED
      BY <1>4
  <2>4. ASSUME t # {} PROVE G(t)[t \ {Pick(t)}] = G(t \ {Pick(t)})[t \ {Pick(t)}]
    <3>1. PICK u : u = t \ {Pick(t)}
      OBVIOUS
    <3>2. u \subseteq t /\ u \subseteq s /\ u # s /\ t \subseteq C
      BY <1>4, <2>4, <3>1, PickIn
    <3>3. Adds(G(u), f, u)
      BY <1>3, <3>2
    <3>4. G(t)[u] = G(u)[u]
      <4> HIDE DEF G
      <4> QED
        BY <2>1, <3>2, <3>3, AddsOnce
    <3> QED
      BY <3>1, <3>4
  <2> HIDE DEF G, h
  <2> QED
    BY <2>2, <2>3, <2>4
<1>5. Adds(h, f, s)
  <2>1. ASSUME NEW t \in SUBSET s, t # {}
        PROVE  h[t \ {Pick(t)}] = G(t \ {Pick(t)})[t \ {Pick(t)}]
    <3>1. PICK u : u = t \ {Pick(t)}
      OBVIOUS
    <3>2. u \subseteq s /\ u # s
      BY <2>1, <3>1, PickIn
    <3>3. h[u] = G(u)[u]
      BY <1>4, <3>2
    <3> QED
      BY <3>1, <3>3
  <2>2. h = [t \in SUBSET s |-> IF t = {} THEN 0 ELSE f[Pick(t)] + h[t \ {Pick(t)}]]
    <3>1. \A t \in SUBSET s : h[t] = IF t = {} THEN 0 ELSE f[Pick(t)] + h[t \ {Pick(t)}]
      <4>1. \A t \in SUBSET s : h[t] = IF t = {} THEN 0
                                       ELSE f[Pick(t)] + G(t \ {Pick(t)})[t \ {Pick(t)}]
        <5> HIDE DEF G
        <5> QED
          OBVIOUS
      <4> HIDE DEF G, h
      <4> QED
        BY <2>1, <4>1
    <3>2. h = [t \in SUBSET s |-> h[t]]
      OBVIOUS
    <3> HIDE DEF h, G
    <3> QED
      BY <3>1, <3>2
  <2> HIDE DEF h, G
  <2> QED
    BY <2>2 DEF Adds
<1> QED
  <2> HIDE DEF h, G
  <2> QED
    BY <1>2, <1>5

(* A sum over a finite set of integers is an integer; any element may be   *)
(* added last.                                                             *)
LEMMA SumPick ==
    ASSUME NEW C, IsFiniteSet(C), NEW f, NEW S, S \subseteq C
    PROVE  SumFunctionOnSet(f, S) = IF S = {} THEN 0
                                    ELSE f[Pick(S)] + SumFunctionOnSet(f, S \ {Pick(S)})
<1> DEFINE G(t) == CHOOSE g : Adds(g, f, t)
<1>1. \A t : t \subseteq C => Adds(G(t), f, t)
  BY AddsExists
<1>2. \A t : SumFunctionOnSet(f, t) = G(t)[t]
  BY SumIs
<1> HIDE DEF G
<1>3. Adds(G(S), f, S)
  BY <1>1
<1>4. G(S)[S] = IF S = {} THEN 0 ELSE f[Pick(S)] + G(S)[S \ {Pick(S)}]
  BY <1>3 DEF Adds
<1>5. PICK u : u = S \ {Pick(S)}
  OBVIOUS
<1>6. u \subseteq S /\ u \subseteq C
  BY <1>5
<1>7. G(S)[u] = G(u)[u]
  BY <1>1, <1>3, <1>6, AddsOnce
<1> QED
  BY <1>2, <1>4, <1>5, <1>7

LEMMA SumInt ==
    ASSUME NEW C, IsFiniteSet(C), NEW f \in [C -> Int], NEW S, S \subseteq C
    PROVE  SumFunctionOnSet(f, S) \in Int
<1> DEFINE B == {s \in SUBSET C : SumFunctionOnSet(f, s) \notin Int}
<1>1. SUFFICES ASSUME B # {} PROVE FALSE
  OBVIOUS
<1>2. PICK s \in B : \A t \in B : t \subseteq s => t = s
  <2>1. B \subseteq SUBSET C
    OBVIOUS
  <2> HIDE DEF B
  <2> QED
    BY <1>1, <2>1, Minimal
<1>3. PICK u : u = s \ {Pick(s)}
  OBVIOUS
<1>4. SumFunctionOnSet(f, s) = IF s = {} THEN 0 ELSE f[Pick(s)] + SumFunctionOnSet(f, u)
  BY <1>3, SumPick
<1>5. CASE s = {}
  BY <1>4, <1>5
<1>6. CASE s # {}
  <2>1. Pick(s) \in C /\ u \subseteq s /\ u # s /\ u \in SUBSET C
    BY <1>3, <1>6, PickIn
  <2>2. SumFunctionOnSet(f, u) \in Int
    BY <1>2, <2>1
  <2> QED
    BY <1>4, <1>6, <2>1, <2>2
<1> QED
  BY <1>5, <1>6

LEMMA SumTake ==
    ASSUME NEW C, IsFiniteSet(C), NEW f \in [C -> Int], NEW S, S \subseteq C, NEW x \in S
    PROVE  SumFunctionOnSet(f, S) = f[x] + SumFunctionOnSet(f, S \ {x})
<1> DEFINE Sum(s) == SumFunctionOnSet(f, s)
           B == {s \in SUBSET C : \E y \in s : Sum(s) # f[y] + Sum(s \ {y})}
<1>1. SUFFICES ASSUME B # {} PROVE FALSE
  OBVIOUS
<1>2. PICK s \in B : \A t \in B : t \subseteq s => t = s
  <2>1. B \subseteq SUBSET C
    OBVIOUS
  <2> HIDE DEF B
  <2> QED
    BY <1>1, <2>1, Minimal
<1>3. PICK y \in s : Sum(s) # f[y] + Sum(s \ {y})
  OBVIOUS
<1>4. PICK z : z = Pick(s)
  OBVIOUS
<1>5. z \in s /\ z # y /\ s \subseteq C /\ Sum(s) = f[z] + Sum(s \ {z})
  <2>1. z \in s /\ s \subseteq C
    BY <1>3, <1>4, PickIn
  <2>2. Sum(s) = f[z] + Sum(s \ {z})
    BY <2>1, <1>4, SumPick
  <2> QED
    BY <1>3, <2>1, <2>2
<1>6. PICK t, u, v : t = s \ {z} /\ u = s \ {y} /\ v = (s \ {z}) \ {y}
  OBVIOUS
<1>7. Sum(t) = f[y] + Sum(v)
  <2>1. t \in SUBSET C /\ t \subseteq s /\ t # s /\ y \in t /\ v = t \ {y}
    BY <1>5, <1>6
  <2>2. t \notin B
    BY <1>2, <2>1
  <2> QED
    BY <2>1, <2>2
<1>8. Sum(u) = f[z] + Sum(v)
  <2>1. u \in SUBSET C /\ u \subseteq s /\ u # s /\ z \in u /\ v = u \ {z}
    BY <1>5, <1>6
  <2>2. u \notin B
    BY <1>2, <2>1
  <2> QED
    BY <2>1, <2>2
<1>9. f[y] \in Int /\ f[z] \in Int /\ Sum(v) \in Int
  <2>1. v \subseteq C
    BY <1>5, <1>6
  <2> QED
    BY <1>5, <2>1, SumInt
<1> HIDE DEF B, Sum
<1> QED
  BY <1>3, <1>5, <1>6, <1>7, <1>8, <1>9

(* Equal functions have equal sums. *)
LEMMA SumSame ==
    ASSUME NEW C, IsFiniteSet(C), NEW f, NEW g, NEW S, S \subseteq C,
           \A x \in S : f[x] = g[x]
    PROVE  SumFunctionOnSet(f, S) = SumFunctionOnSet(g, S)
<1> DEFINE B == {s \in SUBSET S : SumFunctionOnSet(f, s) # SumFunctionOnSet(g, s)}
<1>1. SUFFICES ASSUME B # {} PROVE FALSE
  OBVIOUS
<1>2. PICK s \in B : \A t \in B : t \subseteq s => t = s
  <2>1. B \subseteq SUBSET C
    OBVIOUS
  <2> HIDE DEF B
  <2> QED
    BY <1>1, <2>1, Minimal
<1>3. PICK u : u = s \ {Pick(s)}
  OBVIOUS
<1>4. /\ SumFunctionOnSet(f, s) = IF s = {} THEN 0 ELSE f[Pick(s)] + SumFunctionOnSet(f, u)
      /\ SumFunctionOnSet(g, s) = IF s = {} THEN 0 ELSE g[Pick(s)] + SumFunctionOnSet(g, u)
  BY <1>3, SumPick
<1>5. CASE s = {}
  BY <1>4, <1>5
<1>6. CASE s # {}
  <2>1. Pick(s) \in S /\ u \subseteq s /\ u # s /\ u \in SUBSET S
    BY <1>3, <1>6, PickIn
  <2>2. SumFunctionOnSet(f, u) = SumFunctionOnSet(g, u)
    BY <1>2, <2>1
  <2> QED
    BY <1>4, <1>6, <2>1, <2>2
<1> QED
  BY <1>5, <1>6

(* One element comes, goes or stays: the sum and the count follow it.      *)
LEMMA SumMoves ==
    ASSUME NEW C, IsFiniteSet(C), NEW f \in [C -> Int], NEW c \in C,
           NEW S, S \subseteq C, NEW T, T \subseteq C,
           \A d \in C : d # c => (d \in S <=> d \in T)
    PROVE  SumFunctionOnSet(f, T) = SumFunctionOnSet(f, S) - (IF c \in S THEN f[c] ELSE 0)
                                                           + (IF c \in T THEN f[c] ELSE 0)
<1>1. PICK R : R = S \ {c}
  OBVIOUS
<1>2. R = T \ {c} /\ R \subseteq C
  BY <1>1
<1>3. ASSUME NEW X, X \subseteq C, R = X \ {c}
      PROVE  SumFunctionOnSet(f, X) = (IF c \in X THEN f[c] ELSE 0) + SumFunctionOnSet(f, R)
  <2>1. CASE c \in X
    BY <1>3, <2>1, SumTake
  <2>2. CASE c \notin X
    <3>1. X = R
      BY <1>3, <2>2
    <3>2. SumFunctionOnSet(f, R) \in Int
      BY <1>2, SumInt
    <3> QED
      BY <2>2, <3>1, <3>2
  <2> QED
    BY <2>1, <2>2
<1>4. SumFunctionOnSet(f, R) \in Int /\ f[c] \in Int
  BY <1>2, SumInt
<1> QED
  BY <1>1, <1>2, <1>3, <1>4

LEMMA CountMoves ==
    ASSUME NEW C, IsFiniteSet(C), NEW c \in C, NEW S, S \subseteq C, NEW T, T \subseteq C,
           \A d \in C : d # c => (d \in S <=> d \in T)
    PROVE  /\ Cardinality(S) \in Nat
           /\ Cardinality(T) = Cardinality(S) - (IF c \in S THEN 1 ELSE 0)
                                              + (IF c \in T THEN 1 ELSE 0)
<1>1. PICK R : R = S \ {c}
  OBVIOUS
<1>2. R = T \ {c} /\ R \subseteq C
  BY <1>1
<1>3. IsFiniteSet(S) /\ IsFiniteSet(T) /\ IsFiniteSet(R)
  BY <1>2, FS_Subset
<1>4. Cardinality(S) \in Nat /\ Cardinality(T) \in Nat /\ Cardinality(R) \in Nat
  BY <1>3, FS_CardinalityType
<1>5. /\ Cardinality(R) = IF c \in S THEN Cardinality(S) - 1 ELSE Cardinality(S)
      /\ Cardinality(R) = IF c \in T THEN Cardinality(T) - 1 ELSE Cardinality(T)
  BY <1>1, <1>2, <1>3, FS_RemoveElement
<1> QED
  BY <1>4, <1>5

-----------------------------------------------------------------------------
(* The books of the clients and of the server, apart.  Own(c) is what c    *)
(* holds of its own band, Out(c, d) what it holds of client d's.           *)
Own(c)    == IF OnOwnBand(c) THEN Rate(c) ELSE 0
Out(c, d) == IF OnPeersBand(c) /\ peer[c] = d THEN Rate(c) ELSE 0
Lent(d)   == SumFunctionOnSet(RateOf, Borrowers(d))
ClientBook(d) == /\ availableBand[d] = ClientBand - Own(d) - Lent(d)
                 /\ availableBand[d] >= 0
ServerBook == /\ availableBandwidth = ServerBand - SumFunctionOnSet(TickRateOf, Ticking)
              /\ availableBandwidth >= 0
              /\ currentLoad = Cardinality(Ticking)

LEMMA Books == BandLedger <=> (\A d \in Client : ClientBook(d)) /\ ServerBook
BY DEF BandLedger, ClientBook, ServerBook, Own, Lent

LEMMA RatesOf ==
    /\ RateOf \in [Client -> Int] /\ TickRateOf \in [Client -> Int]
    /\ \A c \in Client : /\ RateOf[c] = Rate(c) /\ Rate(c) \in Nat
                         /\ TickRateOf[c] = TickRate(c) /\ TickRate(c) \in Nat
<1>1. \A c \in Client : Rate(c) \in Nat /\ TickRate(c) \in Nat
  BY DeliveryAssumption DEF Rate, TickRate
<1> HIDE DEF Rate
<1> QED
  BY <1>1 DEF RateOf, TickRateOf

(* When one client moves, the sum lent by each other follows it. *)
LEMMA LentMoves ==
    ASSUME TypeOK, NEW c \in Client, NEW d \in Client,
           \A e \in Client : e # c => /\ pc'[e] = pc[e] /\ peer'[e] = peer[e]
    PROVE  Lent(d)' = Lent(d) - Out(c, d) + Out(c, d)' /\ Lent(d) \in Int
<1>1. PICK S, T : S = Borrowers(d) /\ T = Borrowers(d)'
  OBVIOUS
<1>2. S \subseteq Client /\ T \subseteq Client
  BY <1>1 DEF Borrowers
<1>3. \A e \in Client : e # c => (e \in S <=> e \in T)
  BY <1>1 DEF Borrowers, OnPeersBand
<1>4. SumFunctionOnSet(RateOf, T) = SumFunctionOnSet(RateOf, S)
          - (IF c \in S THEN RateOf[c] ELSE 0) + (IF c \in T THEN RateOf[c] ELSE 0)
  BY <1>2, <1>3, RatesOf, AccountingAssumption, SumMoves
<1>5. SumFunctionOnSet(RateOf, S) \in Int
  BY <1>2, RatesOf, AccountingAssumption, SumInt
<1>6. Lent(d) = SumFunctionOnSet(RateOf, S) /\ Lent(d)' = SumFunctionOnSet(RateOf, T)
  BY <1>1 DEF Lent, RateOf, Rate
<1>7. /\ Out(c, d) = IF c \in S THEN RateOf[c] ELSE 0
      /\ Out(c, d)' = IF c \in T THEN RateOf[c] ELSE 0
  BY <1>1, RatesOf DEF Out, Borrowers, Rate
<1> QED
  BY <1>4, <1>5, <1>6, <1>7

(* A step of client c keeps the clients' books when every band changes by  *)
(* what c stops or begins to hold of it, and none falls below zero.        *)
LEMMA BooksMove ==
    ASSUME TypeOK, BandLedger, NEW c \in Client,
           \A e \in Client : e # c => /\ pc'[e] = pc[e] /\ peer'[e] = peer[e]
                                      /\ stage'[e] = stage[e],
           \A d \in Client :
              /\ availableBand'[d] = availableBand[d] + Out(c, d) - Out(c, d)'
                                       + (IF d = c THEN Own(c) - Own(c)' ELSE 0)
              /\ availableBand'[d] >= 0
    PROVE  \A d \in Client : ClientBook(d)'
<1> SUFFICES ASSUME NEW d \in Client PROVE ClientBook(d)'
  OBVIOUS
<1>1. Lent(d)' = Lent(d) - Out(c, d) + Out(c, d)' /\ Lent(d) \in Int
  BY LentMoves
<1>2. availableBand[d] = ClientBand - Own(d) - Lent(d)
  BY Books DEF ClientBook
<1>3. Own(d) \in Int /\ Own(d)' \in Int /\ Own(c) \in Int /\ Own(c)' \in Int
      /\ Out(c, d) \in Int /\ Out(c, d)' \in Int
  <2>1. Rate(c) \in Int /\ Rate(d) \in Int
    BY Rates
  <2> QED
    BY <2>1 DEF Own, Out, Rate
<1>4. d # c => Own(d)' = Own(d)
  BY DEF Own, OnOwnBand, Rate
<1>5. /\ availableBand'[d] = availableBand[d] + Out(c, d) - Out(c, d)'
                               + (IF d = c THEN Own(c) - Own(c)' ELSE 0)
      /\ availableBand'[d] >= 0
  OBVIOUS
<1>6. ClientBand \in Int
  BY DeliveryAssumption
<1>7. availableBand'[d] = ClientBand - Own(d)' - Lent(d)'
  <2>1. CASE d = c
    BY <1>1, <1>2, <1>3, <1>5, <1>6, <2>1
  <2>2. CASE d # c
    BY <1>1, <1>2, <1>3, <1>4, <1>5, <1>6, <2>2
  <2> QED
    BY <2>1, <2>2
<1> QED
  BY <1>5, <1>7 DEF ClientBook

(* A step after which c holds what it held before leaves them as they are. *)
LEMMA BooksStay ==
    ASSUME TypeOK, BandLedger, NEW c \in Client, UNCHANGED availableBand,
           \A e \in Client : e # c => /\ pc'[e] = pc[e] /\ peer'[e] = peer[e]
                                      /\ stage'[e] = stage[e],
           OnOwnBand(c)' <=> OnOwnBand(c),
           OnPeersBand(c)' <=> OnPeersBand(c),
           OnPeersBand(c) => peer'[c] = peer[c]
    PROVE  \A d \in Client : ClientBook(d)'
<1>1. Own(c)' = Own(c) /\ Own(c) \in Int
  BY Rates DEF Own, Rate
<1>2. ASSUME NEW d \in Client PROVE Out(c, d)' = Out(c, d) /\ Out(c, d) \in Int
  BY Rates DEF Out, Rate
<1>3. \A d \in Client : availableBand[d] \in Int /\ availableBand[d] >= 0
  BY Books DEF ClientBook, TypeOK, BandTypes
<1>4. ASSUME NEW d \in Client
      PROVE  /\ availableBand'[d] = availableBand[d] + Out(c, d) - Out(c, d)'
                                      + (IF d = c THEN Own(c) - Own(c)' ELSE 0)
             /\ availableBand'[d] >= 0
  BY <1>1, <1>2, <1>3
<1> QED
  BY <1>4, BooksMove

(* What c takes of its own band or of a peer's it holds afterwards, and    *)
(* what it returns it held.                                                *)
LEMMA ClientBooksStep ==
    ASSUME TypeOK, BandLedger, NEW c \in Client, ClientThread(c)
    PROVE  \A d \in Client : ClientBook(d)'
<1> USE DEF TypeOK, ThreadTypes, BandTypes
<1>0. /\ \A d \in Client : availableBand[d] \in Int /\ availableBand[d] >= 0
      /\ Rate(c) \in Nat
      /\ Own(c) = IF OnOwnBand(c) THEN Rate(c) ELSE 0
      /\ Own(c)' = IF OnOwnBand(c)' THEN Rate(c) ELSE 0
      /\ \A d \in Client : Out(c, d) = IF OnPeersBand(c) /\ peer[c] = d THEN Rate(c) ELSE 0
      /\ \A d \in Client : Out(c, d)' = IF OnPeersBand(c)' /\ peer'[c] = d THEN Rate(c) ELSE 0
  BY Books, RatesOf DEF ClientBook, Own, Out, Rate
<1> DEFINE Same(d) == pc'[d] = pc[d] /\ peer'[d] = peer[d] /\ stage'[d] = stage[d]
           Others  == \A e \in Client : e # c => Same(e)
           Stays   == /\ UNCHANGED availableBand /\ Others
                      /\ OnOwnBand(c)' <=> OnOwnBand(c)
                      /\ OnPeersBand(c)' <=> OnPeersBand(c)
                      /\ OnPeersBand(c) => peer'[c] = peer[c]
<1>s. Stays => \A d \in Client : ClientBook(d)'
  BY BooksStay
<1>1. CASE UNCHANGED <<pc, stage, peer, availableBand>>
  BY <1>1, <1>s DEF OnOwnBand, OnPeersBand
<1>2. ASSUME \/ Run(c) \/ ReceiveInfo(c) \/ Stop(c)
             \/ \E s \in Segment : WantSegment(c, s)
      PROVE  Stays
  <2>1. UNCHANGED <<stage, peer, availableBand>>
    BY <1>2 DEF Run, ReceiveInfo, Stop, WantSegment, clientLocals, serverState
  <2>2. /\ pc[c] \in {"new", "resource", "play"}
        /\ UNCHANGED pc \/ \E l \in {"resource", "play", "stop", "segment"} : Goto(c, l)
    BY <1>2 DEF Run, ReceiveInfo, Stop, WantSegment
  <2> QED
    BY <2>1, <2>2 DEF OnOwnBand, OnPeersBand, Goto
<1>3. ASSUME ReadBand(c) \/ SendCurrentLoad(c) PROVE Stays
  <2>1. UNCHANGED <<stage, peer, availableBand>>
    BY <1>3 DEF ReadBand, SendCurrentLoad, clientLocals
  <2>2. /\ pc[c] \in {"read1", "read2", "beat1", "beat2"}
        /\ \E l \in {"read2", "beat1", "beat2", "release"} : Goto(c, l)
    BY <1>3 DEF ReadBand, SendCurrentLoad
  <2> QED
    BY <2>1, <2>2 DEF OnOwnBand, OnPeersBand, Goto
<1>4. ASSUME \/ MakeRoom(c) \/ SendEliminateBlock(c)
             \/ AddBlock(c) \/ SendAddedBlock(c)
      PROVE  Stays
  <2>1. UNCHANGED <<stage, peer, availableBand>>
    BY <1>4 DEF MakeRoom, SendEliminateBlock, AddBlock, SendAddedBlock, clientLocals
  <2>2. /\ pc[c] \in {"write", "tellEliminate", "add", "tellAdd"}
        /\ \E l \in {"tellEliminate", "add", "tellAdd", "written"} : Goto(c, l)
    BY <1>4 DEF MakeRoom, SendEliminateBlock, AddBlock, SendAddedBlock
  <2> QED
    BY <2>1, <2>2 DEF OnOwnBand, OnPeersBand, Goto
<1>5. ASSUME FinishFromPeer(c) PROVE Stays
  BY <1>5 DEF FinishFromPeer, clientLocals, OnOwnBand, OnPeersBand, Goto
<1>6. CASE ServerGone(c)
  BY <1>1, <1>6 DEF ServerGone, clientLocals
<1> DEFINE Moves == \A d \in Client :
              /\ availableBand'[d] = availableBand[d] + Out(c, d) - Out(c, d)'
                                       + (IF d = c THEN Own(c) - Own(c)' ELSE 0)
              /\ availableBand'[d] >= 0
<1>m. Others /\ Moves => \A d \in Client : ClientBook(d)'
  BY BooksMove
<1>7. CASE ReceiveServerReply(c)
  <2>1. CASE UNCHANGED <<availableBand, stage, pc>>
    BY <1>1, <1>7, <2>1 DEF ReceiveServerReply
  <2>2. CASE /\ CanLease(c, Rate(c)) /\ Lease(c, Rate(c)) /\ Goto(c, "write")
             /\ stage' = [stage EXCEPT ![c] = "server"]
    <3>1. ~OnOwnBand(c) /\ OnOwnBand(c)' /\ ~OnPeersBand(c) /\ ~OnPeersBand(c)'
      BY <1>7, <2>2 DEF ReceiveServerReply, OnOwnBand, OnPeersBand, Goto
    <3>2. Others
      BY <1>7, <2>2 DEF ReceiveServerReply, Goto
    <3>3. Moves
      BY <1>0, <2>2, <3>1 DEF Lease, CanLease
    <3> QED
      BY <1>m, <3>2, <3>3
  <2> QED
    BY <1>7, <2>1, <2>2 DEF ReceiveServerReply
<1>8. CASE ReceivePeerReply(c)
  <2>1. CASE UNCHANGED <<availableBand, peer, pc>>
    BY <1>1, <1>8, <2>1 DEF ReceivePeerReply
  <2>2. CASE /\ CanLease(c, Rate(c)) /\ Lease(c, Rate(c)) /\ Goto(c, "ask")
             /\ \E p \in Client : peer' = [peer EXCEPT ![c] = p]
    <3>1. ~OnOwnBand(c) /\ OnOwnBand(c)' /\ ~OnPeersBand(c) /\ ~OnPeersBand(c)'
      BY <1>8, <2>2 DEF ReceivePeerReply, OnOwnBand, OnPeersBand, Goto
    <3>2. Others
      BY <1>8, <2>2 DEF ReceivePeerReply, Goto
    <3>3. Moves
      BY <1>0, <2>2, <3>1 DEF Lease, CanLease
    <3> QED
      BY <1>m, <3>2, <3>3
  <2> QED
    BY <1>8, <2>1, <2>2 DEF ReceivePeerReply
<1>9. CASE AskPeer(c)
  <2>1. UNCHANGED <<stage, peer>>
    BY <1>9 DEF AskPeer, clientLocals
  <2>2. CASE Goto(c, "lease") /\ UNCHANGED availableBand
    BY <1>9, <1>s, <2>1, <2>2 DEF AskPeer, OnOwnBand, OnPeersBand, Goto
  <2>3. CASE Return(c, Rate(c)) /\ Goto(c, "again")
    <3>1. OnOwnBand(c) /\ ~OnOwnBand(c)' /\ ~OnPeersBand(c) /\ ~OnPeersBand(c)'
      BY <1>9, <2>1, <2>3 DEF AskPeer, OnOwnBand, OnPeersBand, Goto
    <3>2. Others
      BY <2>1, <2>3 DEF Goto
    <3>3. Moves
      BY <1>0, <2>3, <3>1 DEF Return
    <3> QED
      BY <1>m, <3>2, <3>3
  <2> QED
    BY <1>9, <2>2, <2>3 DEF AskPeer
<1>10. CASE LeasePeer(c)
  <2>1. UNCHANGED <<stage, peer>>
    BY <1>10 DEF LeasePeer, clientLocals
  <2>2. CASE UNCHANGED <<availableBand, pc>>
    BY <1>1, <2>1, <2>2
  <2>3. CASE CanLease(peer[c], Rate(c)) /\ Lease(peer[c], Rate(c)) /\ Goto(c, "read1")
    <3>1. OnOwnBand(c) /\ OnOwnBand(c)' /\ ~OnPeersBand(c) /\ OnPeersBand(c)'
      BY <1>10, <2>1, <2>3 DEF LeasePeer, OnOwnBand, OnPeersBand, Goto
    <3>2. Others
      BY <2>1, <2>3 DEF Goto
    <3>3. Moves
      BY <1>0, <2>1, <2>3, <3>1 DEF Lease, CanLease
    <3> QED
      BY <1>m, <3>2, <3>3
  <2> QED
    BY <1>10, <2>2, <2>3 DEF LeasePeer
<1>11. CASE ReleasePeer(c)
  <2>1. /\ UNCHANGED peer /\ Return(peer[c], Rate(c)) /\ Goto(c, "write")
        /\ stage' = [stage EXCEPT ![c] = "peer1"]
    BY <1>11 DEF ReleasePeer
  <2>2. OnOwnBand(c) /\ OnOwnBand(c)' /\ OnPeersBand(c) /\ ~OnPeersBand(c)'
    BY <1>11, <2>1 DEF ReleasePeer, OnOwnBand, OnPeersBand, Goto
  <2>3. Others
    BY <2>1 DEF Goto
  <2>4. Moves
    BY <1>0, <2>1, <2>2 DEF Return
  <2> QED
    BY <1>m, <2>3, <2>4
<1>12. CASE WriteAgain(c)
  <2>1. /\ UNCHANGED peer /\ Return(c, Rate(c)) /\ Goto(c, "write")
        /\ stage' = [stage EXCEPT ![c] = "peer2"]
    BY <1>12 DEF WriteAgain
  <2>2. OnOwnBand(c) /\ ~OnOwnBand(c)' /\ ~OnPeersBand(c) /\ ~OnPeersBand(c)'
    BY <1>12, <2>1 DEF WriteAgain, OnOwnBand, OnPeersBand, Goto
  <2>3. Others
    BY <2>1 DEF Goto
  <2>4. Moves
    BY <1>0, <2>1, <2>2 DEF Return
  <2> QED
    BY <1>m, <2>3, <2>4
<1>13. CASE FinishFromServer(c)
  <2>1. UNCHANGED <<stage, peer>> /\ Return(c, Rate(c)) /\ Goto(c, "play")
    BY <1>13 DEF FinishFromServer, clientLocals
  <2>2. OnOwnBand(c) /\ ~OnOwnBand(c)' /\ ~OnPeersBand(c) /\ ~OnPeersBand(c)'
    BY <1>13, <2>1 DEF FinishFromServer, OnOwnBand, OnPeersBand, Goto
  <2>3. Others
    BY <2>1 DEF Goto
  <2>4. Moves
    BY <1>0, <2>1, <2>2 DEF Return
  <2> QED
    BY <1>m, <2>3, <2>4
<1> HIDE DEF Stays, Moves, Others
<1> QED
  BY <1>s, <1>2, <1>3, <1>4, <1>5, <1>6, <1>7, <1>8, <1>9, <1>10, <1>11, <1>12, <1>13
  DEF ClientThread

(* A block being played holds the server's band, and one unit of its load. *)
LEMMA ServerBookStep ==
    ASSUME TypeOK, BandLedger, NEW c \in Client, ServerThread(c)
    PROVE  ServerBook'
<1> USE DEF TypeOK, ServerTypes, BandTypes
<1>0. PICK S, T : S = Ticking /\ T = Ticking'
  OBVIOUS
<1>1. /\ S \subseteq Client /\ T \subseteq Client
      /\ \A d \in Client : (d \in S <=> serving[d] = "ticking")
                           /\ (d \in T <=> serving'[d] = "ticking")
  BY <1>0 DEF Ticking
<1>2. /\ SumFunctionOnSet(TickRateOf, S) \in Int /\ Cardinality(S) \in Nat
      /\ (\A d \in Client : d # c => serving'[d] = serving[d]) =>
           /\ SumFunctionOnSet(TickRateOf, T) = SumFunctionOnSet(TickRateOf, S)
                - (IF c \in S THEN TickRateOf[c] ELSE 0)
                + (IF c \in T THEN TickRateOf[c] ELSE 0)
           /\ Cardinality(T) = Cardinality(S) - (IF c \in S THEN 1 ELSE 0)
                                              + (IF c \in T THEN 1 ELSE 0)
  BY <1>1, RatesOf, AccountingAssumption, SumInt, SumMoves, CountMoves
<1>3. /\ availableBandwidth = ServerBand - SumFunctionOnSet(TickRateOf, S)
      /\ availableBandwidth >= 0 /\ currentLoad = Cardinality(S)
      /\ TickRateOf[c] = TickRate(c) /\ TickRate(c) \in Nat /\ ServerBand \in Int
  BY <1>0, Books, RatesOf, DeliveryAssumption DEF ServerBook
<1>4. SUFFICES /\ availableBandwidth' = ServerBand - SumFunctionOnSet(TickRateOf, T)
               /\ availableBandwidth' >= 0 /\ currentLoad' = Cardinality(T)
  BY <1>0 DEF ServerBook, TickRateOf, TickRate
<1>5. CASE /\ UNCHANGED <<availableBandwidth, currentLoad>>
           /\ \A d \in Client : serving'[d] = "ticking" <=> serving[d] = "ticking"
  <2>1. T = S
    BY <1>1, <1>5
  <2> QED
    BY <1>3, <1>5, <2>1
<1>6. CASE HandleResource(c) \/ HandleSegment(c) \/ HandleAgain(c)
  BY <1>5, <1>6 DEF HandleResource, HandleSegment, HandleAgain
<1>7. CASE StartTicks(c)
  <2>1. CASE UNCHANGED <<availableBandwidth, currentLoad, serving>>
    BY <1>5, <2>1
  <2>2. CASE /\ availableBandwidth >= TickRate(c) /\ decreaseAvailableBand(TickRate(c))
             /\ increaseCurrentLoad /\ serving' = [serving EXCEPT ![c] = "ticking"]
    <3>1. c \notin S /\ c \in T /\ \A d \in Client : d # c => serving'[d] = serving[d]
      BY <1>1, <1>7, <2>2 DEF StartTicks
    <3> QED
      BY <1>2, <1>3, <2>2, <3>1 DEF decreaseAvailableBand, increaseCurrentLoad
  <2> QED
    BY <1>7, <2>1, <2>2 DEF StartTicks
<1>8. CASE EndTicks(c)
  <2>1. c \in S /\ c \notin T /\ \A d \in Client : d # c => serving'[d] = serving[d]
    BY <1>1, <1>8 DEF EndTicks
  <2> QED
    BY <1>2, <1>3, <1>8, <2>1 DEF EndTicks, increaseAvailableBand, decreaseCurrentLoad
<1> QED
  BY <1>6, <1>7, <1>8 DEF ServerThread

LEMMA LedgerInit == Init => BandLedger
<1> SUFFICES ASSUME Init PROVE BandLedger
  OBVIOUS
<1> USE DEF Init
<1>1. ASSUME NEW d \in Client PROVE ClientBook(d)
  <2>1. Borrowers(d) = {} /\ Own(d) = 0
    BY DEF Borrowers, OnPeersBand, Own, OnOwnBand
  <2>2. SumFunctionOnSet(RateOf, {}) = 0
    BY AccountingAssumption, SumPick
  <2> QED
    BY <2>1, <2>2, DeliveryAssumption DEF ClientBook, Lent
<1>2. ServerBook
  <2>1. Ticking = {} /\ Cardinality({}) = 0
    BY FS_EmptySet DEF Ticking
  <2>2. SumFunctionOnSet(TickRateOf, {}) = 0
    BY AccountingAssumption, SumPick
  <2> QED
    BY <2>1, <2>2, DeliveryAssumption DEF ServerBook
<1> QED
  BY <1>1, <1>2, Books

LEMMA LedgerStep == TypeOK /\ BandLedger /\ [Next]_vars => BandLedger'
<1> SUFFICES ASSUME TypeOK, BandLedger, [Next]_vars PROVE BandLedger'
  OBVIOUS
<1>0. SUFFICES (\A d \in Client : ClientBook(d)') /\ ServerBook'
  BY DEF BandLedger, ClientBook, ServerBook, Own, Lent
<1> DEFINE AtClients == UNCHANGED <<pc, stage, peer, availableBand>>
           AtServer  == UNCHANGED <<serving, availableBandwidth, currentLoad>>
<1>1. ASSUME AtClients, NEW d \in Client PROVE ClientBook(d)'
  <2>1. Own(d)' = Own(d) /\ Lent(d)' = Lent(d)
    BY <1>1 DEF Own, OnOwnBand, Lent, Borrowers, OnPeersBand, RateOf, Rate
  <2> QED
    BY <1>1, <2>1, Books DEF ClientBook
<1>2. ASSUME AtServer PROVE ServerBook'
  <2>1. Ticking' = Ticking /\ TickRateOf' = TickRateOf
    BY <1>2 DEF Ticking, TickRateOf, TickRate
  <2> QED
    BY <1>2, <2>1, Books DEF ServerBook
<1>3. CASE UNCHANGED vars
  <2>1. AtClients /\ AtServer
    BY <1>3 DEF vars, clientLocals, serverState
  <2> QED
    BY <1>1, <1>2, <2>1
<1>4. CASE ManagerThread
  <2>1. AtClients /\ AtServer
    BY <1>4 DEF ManagerThread, ManagerReads, HandleManager, clientLocals
  <2> QED
    BY <1>1, <1>2, <2>1
<1>5. ASSUME NEW c \in Client, ClientThread(c) PROVE AtServer
  BY <1>5 DEF ClientThread, Run, ReceiveInfo, WantSegment, Stop, ReceiveServerReply,
     ReceivePeerReply, AskPeer, LeasePeer, ReadBand, SendCurrentLoad, ReleasePeer, MakeRoom,
     SendEliminateBlock, AddBlock, SendAddedBlock, WriteAgain, FinishFromPeer,
     FinishFromServer, ServerGone, serverState
<1>6. ASSUME NEW c \in Client, ServerThread(c) PROVE AtClients
  BY <1>6 DEF ServerThread, HandleResource, HandleSegment, HandleAgain, StartTicks, EndTicks,
     clientLocals
<1> HIDE DEF AtClients, AtServer
<1> QED
  BY <1>1, <1>2, <1>3, <1>4, <1>5, <1>6, ClientBooksStep, ServerBookStep DEF Next

(* Bandwidth is neither lost nor invented, whatever the number of clients  *)
(* and however their transfers overlap: what a client or the server has    *)
(* left is its bandwidth less the leases of this moment, and never below   *)
(* zero, so the "program error" exit of increaseAvailableBand is dead.     *)
THEOREM BandsBalanced == Spec => []BandLedger
<1>1. TypeOK /\ BandLedger /\ [Next]_vars => (TypeOK /\ BandLedger)'
  BY TypeStep, LedgerStep
<1>2. Init => TypeOK /\ BandLedger
  BY TypeInit, LedgerInit
<1> QED
  BY <1>1, <1>2, PTL DEF Spec

-----------------------------------------------------------------------------
(* The two directions of a connection: a request is under way or its reply *)
(* is, never both, and the client waits for it where it sent the request.  *)
Waiting(c) ==
    /\ request[c] # NoMsg => reply[c] = NoMsg
    /\ request[c] = Resource => pc[c] = "resource"
    /\ \A s \in Segment : /\ request[c] = SegReq("segment", s) => pc[c] = "segment"
                          /\ request[c] = SegReq("again", s) => pc[c] = "again"
    /\ reply[c] = Info => pc[c] = "resource"
    /\ \A p \in Client \cup {SERVERID} : reply[c] = Vod(p) => pc[c] \in {"segment", "again"}
Conversations == \A c \in Client : Waiting(c)

LEMMA Kinds ==
    /\ \A r \in Request : \/ r = NoMsg \/ r = Resource
                          \/ \E s \in Segment : r = SegReq("segment", s) \/ r = SegReq("again", s)
    /\ \A r \in Reply : r = NoMsg \/ r = Info \/ \E p \in Client \cup {SERVERID} : r = Vod(p)
    /\ NoMsg # Resource /\ NoMsg # Info
    /\ \A p : Vod(p) # NoMsg /\ Vod(p) # Info
    /\ \A p, q : Vod(p) = Vod(q) => p = q
    /\ \A s, t : /\ SegReq("segment", s) # SegReq("again", t)
                 /\ SegReq("segment", s) # NoMsg /\ SegReq("again", s) # NoMsg
                 /\ SegReq("segment", s) # Resource /\ SegReq("again", s) # Resource
<1>1. \A r \in Request : \/ r = NoMsg \/ r = Resource
                         \/ \E s \in Segment : r = SegReq("segment", s) \/ r = SegReq("again", s)
  BY DEF Request, SegReq
<1>2. \A r \in Reply : r = NoMsg \/ r = Info \/ \E p \in Client \cup {SERVERID} : r = Vod(p)
  BY DEF Reply, Vod
<1>3. NoMsg # Resource /\ NoMsg # Info
  BY DEF NoMsg, Resource, Info
<1>4. \A p : Vod(p).kind = "vod" /\ Vod(p).from = p
  BY DEF Vod
<1>5. NoMsg.kind = "none" /\ Info.kind = "info" /\ Resource.kind = "resource"
  BY DEF NoMsg, Info, Resource
<1>6. \A s : SegReq("segment", s).kind = "segment" /\ SegReq("again", s).kind = "again"
  BY DEF SegReq
<1> QED
  BY <1>1, <1>2, <1>3, <1>4, <1>5, <1>6

LEMMA ConversationsStep == TypeOK /\ Conversations /\ [Next]_vars => Conversations'
<1> SUFFICES ASSUME TypeOK, Conversations, [Next]_vars, NEW d \in Client PROVE Waiting(d)'
  BY DEF Conversations
<1> USE Kinds DEF TypeOK, ThreadTypes, SocketTypes
<1>0. Waiting(d)
  BY DEF Conversations
<1>1. CASE pc'[d] = pc[d] /\ request'[d] = request[d] /\ reply'[d] = reply[d]
  BY <1>0, <1>1 DEF Waiting
<1>2. CASE UNCHANGED <<pc, request, reply>>
  BY <1>1, <1>2
<1>3. ASSUME NEW c \in Client, Run(c) \/ \E s \in Segment : WantSegment(c, s) PROVE Waiting(d)'
  <2>1. CASE d # c
    BY <1>1, <1>3, <2>1 DEF Run, WantSegment, Goto
  <2>2. CASE d = c
    <3>1. reply[c] = NoMsg
      BY <1>0, <1>3, <2>2 DEF Waiting, Run, WantSegment
    <3>2. CASE Run(c)
      BY <2>2, <3>1, <3>2 DEF Waiting, Run, Goto
    <3>3. ASSUME NEW s \in Segment, WantSegment(c, s) PROVE Waiting(d)'
      <4>1. CASE request' = [request EXCEPT ![c] = SegReq("segment", s)] /\ Goto(c, "segment")
        BY <2>2, <3>1, <3>3, <4>1 DEF Waiting, WantSegment, Goto
      <4>2. CASE UNCHANGED <<pc, request>>
        BY <1>2, <3>3, <4>2 DEF WantSegment
      <4> QED
        BY <3>3, <4>1, <4>2 DEF WantSegment
    <3> QED
      BY <1>3, <3>2, <3>3
  <2> QED
    BY <2>1, <2>2
<1>4. ASSUME NEW c \in Client, ReceiveInfo(c) \/ ReceiveServerReply(c) \/ ReceivePeerReply(c)
      PROVE  Waiting(d)'
  <2>1. /\ UNCHANGED request /\ reply' = [reply EXCEPT ![c] = NoMsg]
        /\ reply[c] # NoMsg
        /\ UNCHANGED pc \/ \E l \in {"play", "write", "ask"} : Goto(c, l)
    BY <1>4 DEF ReceiveInfo, ReceiveServerReply, ReceivePeerReply
  <2>2. CASE d # c
    BY <1>1, <2>1, <2>2 DEF Goto
  <2>3. CASE d = c
    <3>1. request'[d] = NoMsg /\ reply'[d] = NoMsg
      BY <1>0, <2>1, <2>3 DEF Waiting
    <3> QED
      BY <3>1 DEF Waiting
  <2> QED
    BY <2>2, <2>3
<1>5. ASSUME NEW c \in Client,
             \/ Stop(c) \/ LeasePeer(c) \/ ReadBand(c) \/ SendCurrentLoad(c) \/ ReleasePeer(c)
             \/ MakeRoom(c) \/ SendEliminateBlock(c) \/ AddBlock(c) \/ SendAddedBlock(c)
             \/ WriteAgain(c) \/ FinishFromPeer(c) \/ FinishFromServer(c)
      PROVE  Waiting(d)'
  <2>1. /\ UNCHANGED <<request, reply>>
        /\ pc[c] \notin {"resource", "segment", "again"}
        /\ \A e \in Client : e # c => pc'[e] = pc[e]
    BY <1>5 DEF Stop, LeasePeer, ReadBand, SendCurrentLoad, ReleasePeer, MakeRoom,
       SendEliminateBlock, AddBlock, SendAddedBlock, WriteAgain, FinishFromPeer,
       FinishFromServer, Goto
  <2>2. CASE d # c
    BY <1>1, <2>1, <2>2
  <2>3. CASE d = c
    <3>1. request[d] = NoMsg /\ reply[d] = NoMsg
      BY <1>0, <2>1, <2>3 DEF Waiting
    <3> QED
      BY <2>1, <3>1 DEF Waiting
  <2> QED
    BY <2>2, <2>3
<1>6. ASSUME NEW c \in Client, AskPeer(c) PROVE Waiting(d)'
  <2>1. CASE d # c
    BY <1>1, <1>6, <2>1 DEF AskPeer, Goto
  <2>2. CASE d = c
    <3>1. request[c] = NoMsg /\ reply[c] = NoMsg
      BY <1>0, <1>6, <2>2 DEF Waiting, AskPeer
    <3>2. CASE Goto(c, "lease") /\ UNCHANGED request
      BY <1>6, <2>2, <3>1, <3>2 DEF Waiting, AskPeer
    <3>3. CASE Goto(c, "again") /\ request' = [request EXCEPT ![c] = SegReq("again", requestSegment[c])]
      BY <1>6, <2>2, <3>1, <3>3 DEF Waiting, AskPeer, Goto
    <3> QED
      BY <1>6, <3>2, <3>3 DEF AskPeer
  <2> QED
    BY <2>1, <2>2
<1>7. ASSUME NEW c \in Client, HandleResource(c) \/ HandleSegment(c) \/ HandleAgain(c)
      PROVE  Waiting(d)'
  <2>1. /\ UNCHANGED pc /\ request' = [request EXCEPT ![c] = NoMsg]
        /\ \/ request[c] = Resource /\ reply' = [reply EXCEPT ![c] = Info]
           \/ /\ \E s \in Segment : request[c] = SegReq("segment", s) \/ request[c] = SegReq("again", s)
              /\ \E p \in Client \cup {SERVERID} : reply' = [reply EXCEPT ![c] = Vod(p)]
    BY <1>7 DEF HandleResource, HandleSegment, HandleAgain, Best, Holders, registered
  <2>2. CASE d # c
    BY <1>1, <2>1, <2>2
  <2>3. CASE d = c
    BY <1>0, <2>1, <2>3 DEF Waiting
  <2> QED
    BY <2>2, <2>3
<1>8. CASE ManagerThread
  BY <1>2, <1>8 DEF ManagerThread, ManagerReads, HandleManager
<1>9. ASSUME NEW c \in Client, ServerGone(c) \/ StartTicks(c) \/ EndTicks(c) PROVE Waiting(d)'
  BY <1>2, <1>9 DEF ServerGone, StartTicks, EndTicks
<1>10. CASE UNCHANGED vars
  BY <1>2, <1>10 DEF vars
<1> QED
  BY <1>3, <1>4, <1>5, <1>6, <1>7, <1>8, <1>9, <1>10 DEF Next, ClientThread, ServerThread

(* What a client adds to each pair of books.  When they stay as far apart  *)
(* as its own request accounts for, the books agree.                       *)
One(b) == IF b THEN 1 ELSE 0
Requested(c) == requestedSegments - requestTotals - One(Uncounted(c))
Provided(c)  == serverProvideSegments - requestServerTimes - One(reply[c] = Vod(SERVERID))
Tallied(c)   == requestTotals - FromOthers(c) - One(Untallied(c))

LEMMA AgreesMove ==
    ASSUME TypeOK, TypeOK', AccountingAgrees, clientUp, NEW c \in Client,
           \A e \in Client : e # c => /\ pc'[e] = pc[e] /\ stage'[e] = stage[e]
                                      /\ request'[e] = request[e] /\ reply'[e] = reply[e]
                                      /\ blocks'[e] = blocks[e],
           Requested(c)' = Requested(c), Provided(c)' = Provided(c), Tallied(c)' = Tallied(c)
    PROVE  AccountingAgrees'
<1>1. PICK U, V, X, Y, W, Z :
        /\ U = {d \in Client : Uncounted(d)} /\ V = {d \in Client : Uncounted(d)}'
        /\ X = {d \in Client : reply[d] = Vod(SERVERID)}
        /\ Y = {d \in Client : reply[d] = Vod(SERVERID)}'
        /\ W = {d \in Client : Untallied(d)} /\ Z = {d \in Client : Untallied(d)}'
  OBVIOUS
<1>2. PICK f, g : f = [d \in Client |-> FromOthers(d)] /\ g = [d \in Client |-> FromOthers(d)]'
  OBVIOUS
<1>3. /\ requestedSegments = requestTotals + Cardinality(U)
      /\ serverProvideSegments = requestServerTimes + Cardinality(X)
      /\ requestTotals = SumFunction(f) + Cardinality(W)
  BY <1>1, <1>2 DEF AccountingAgrees
<1>4. /\ Cardinality(U) \in Nat /\ Cardinality(X) \in Nat /\ Cardinality(W) \in Nat
      /\ Cardinality(V) = Cardinality(U) - One(Uncounted(c)) + One(Uncounted(c))'
      /\ Cardinality(Y) = Cardinality(X) - One(reply[c] = Vod(SERVERID))
                                         + One(reply[c] = Vod(SERVERID))'
      /\ Cardinality(Z) = Cardinality(W) - One(Untallied(c)) + One(Untallied(c))'
  <2>1. U \subseteq Client /\ V \subseteq Client /\ \A d \in Client : d # c => (d \in U <=> d \in V)
    BY <1>1 DEF Uncounted
  <2>2. X \subseteq Client /\ Y \subseteq Client /\ \A d \in Client : d # c => (d \in X <=> d \in Y)
    BY <1>1 DEF Vod
  <2>3. W \subseteq Client /\ Z \subseteq Client /\ \A d \in Client : d # c => (d \in W <=> d \in Z)
    BY <1>1 DEF Untallied
  <2>4. /\ Cardinality(U) \in Nat
        /\ Cardinality(V) = Cardinality(U) - (IF c \in U THEN 1 ELSE 0) + (IF c \in V THEN 1 ELSE 0)
    BY <2>1, AccountingAssumption, CountMoves
  <2>5. /\ Cardinality(X) \in Nat
        /\ Cardinality(Y) = Cardinality(X) - (IF c \in X THEN 1 ELSE 0) + (IF c \in Y THEN 1 ELSE 0)
    BY <2>2, AccountingAssumption, CountMoves
  <2>6. /\ Cardinality(W) \in Nat
        /\ Cardinality(Z) = Cardinality(W) - (IF c \in W THEN 1 ELSE 0) + (IF c \in Z THEN 1 ELSE 0)
    BY <2>3, AccountingAssumption, CountMoves
  <2>7. /\ One(Uncounted(c)) = IF c \in U THEN 1 ELSE 0
        /\ One(Uncounted(c))' = IF c \in V THEN 1 ELSE 0
    BY <1>1 DEF One
  <2>8. /\ One(reply[c] = Vod(SERVERID)) = IF c \in X THEN 1 ELSE 0
        /\ One(reply[c] = Vod(SERVERID))' = IF c \in Y THEN 1 ELSE 0
    BY <1>1 DEF One
  <2>9. /\ One(Untallied(c)) = IF c \in W THEN 1 ELSE 0
        /\ One(Untallied(c))' = IF c \in Z THEN 1 ELSE 0
    BY <1>1 DEF One
  <2> QED
    BY <2>4, <2>5, <2>6, <2>7, <2>8, <2>9
<1>5. /\ f \in [Client -> Int] /\ g \in [Client -> Int]
      /\ f[c] = FromOthers(c) /\ g[c] = FromOthers(c)'
      /\ \A d \in Client : d # c => f[d] = g[d]
  <2>1. \A d \in Client : FromOthers(d) \in Int /\ FromOthers(d)' \in Int
    BY DEF TypeOK, CounterTypes, FromOthers
  <2>2. \A d \in Client : d # c => FromOthers(d)' = FromOthers(d)
    BY DEF FromOthers
  <2> QED
    BY <1>2, <2>1, <2>2
<1>6. SumFunction(g) = SumFunction(f) - FromOthers(c) + FromOthers(c)' /\ SumFunction(f) \in Int
  <2>1. SumFunction(f) = SumFunctionOnSet(f, Client) /\ SumFunction(g) = SumFunctionOnSet(g, Client)
    BY <1>5 DEF SumFunction
  <2>2. PICK R : R = Client \ {c}
    OBVIOUS
  <2>3. R \subseteq Client
    BY <2>2
  <2>4. /\ SumFunctionOnSet(f, Client) = f[c] + SumFunctionOnSet(f, R)
        /\ SumFunctionOnSet(g, Client) = g[c] + SumFunctionOnSet(g, R)
    BY <1>5, <2>2, AccountingAssumption, SumTake
  <2>5. SumFunctionOnSet(f, R) = SumFunctionOnSet(g, R)
    <3>1. \A d \in R : f[d] = g[d]
      BY <1>5, <2>2
    <3> QED
      BY <2>3, <3>1, AccountingAssumption, SumSame
  <2>6. SumFunctionOnSet(f, R) \in Int
    BY <1>5, <2>3, AccountingAssumption, SumInt
  <2> QED
    BY <1>5, <2>1, <2>4, <2>5, <2>6
<1>7. /\ One(Uncounted(c)) \in Int /\ One(Uncounted(c))' \in Int
      /\ One(reply[c] = Vod(SERVERID)) \in Int /\ One(reply[c] = Vod(SERVERID))' \in Int
      /\ One(Untallied(c)) \in Int /\ One(Untallied(c))' \in Int
      /\ FromOthers(c) \in Int /\ FromOthers(c)' \in Int
  BY <1>5 DEF One
<1>8. /\ requestedSegments' = requestTotals' + Cardinality(V)
      /\ serverProvideSegments' = requestServerTimes' + Cardinality(Y)
      /\ requestTotals' = SumFunction(g) + Cardinality(Z)
  <2> USE <1>3, <1>4, <1>7 DEF TypeOK, CounterTypes
  <2>1. requestedSegments' = requestTotals' + Cardinality(V)
    BY DEF Requested
  <2>2. serverProvideSegments' = requestServerTimes' + Cardinality(Y)
    BY DEF Provided
  <2>3. requestTotals' = SumFunction(g) + Cardinality(Z)
    <3>1. PICK a, b, x, y, r, t :
            /\ a = One(Untallied(c)) /\ b = One(Untallied(c))'
            /\ x = FromOthers(c) /\ y = FromOthers(c)'
            /\ r = requestTotals /\ t = requestTotals'
      OBVIOUS
    <3>2. r - x - a = t - y - b
      BY <3>1 DEF Tallied
    <3>3. a \in Int /\ b \in Int /\ x \in Int /\ y \in Int /\ r \in Int /\ t \in Int
      BY <3>1
    <3>4. r = SumFunction(f) + Cardinality(W) /\ Cardinality(W) \in Int
      BY <3>1
    <3>5. Cardinality(Z) = Cardinality(W) - a + b
      BY <3>1
    <3>6. SumFunction(g) = SumFunction(f) - x + y /\ SumFunction(f) \in Int
      BY <1>6, <3>1
    <3>7. t = SumFunction(g) + Cardinality(Z)
      BY ONLY <3>2, <3>3, <3>4, <3>5, <3>6
    <3> QED
      BY <3>1, <3>7
  <2> QED
    BY <2>1, <2>2, <2>3
<1> QED
  BY <1>1, <1>2, <1>8 DEF AccountingAgrees

LEMMA AgreesStay ==
    ASSUME TypeOK, TypeOK', AccountingAgrees, clientUp, NEW c \in Client,
           \A e \in Client : e # c => pc'[e] = pc[e] /\ stage'[e] = stage[e],
           UNCHANGED <<request, reply, blocks, requestTotals, requestServerTimes,
                       requestedSegments, serverProvideSegments>>,
           Uncounted(c)' = Uncounted(c), Untallied(c)' = Untallied(c)
    PROVE  AccountingAgrees'
<1>1. Requested(c)' = Requested(c) /\ Provided(c)' = Provided(c) /\ Tallied(c)' = Tallied(c)
  BY DEF Requested, Provided, Tallied, FromOthers, One, Vod
<1> QED
  BY <1>1, AgreesMove

(* A step of the client's thread. *)
LEMMA ClientAgreesStep ==
    ASSUME TypeOK, TypeOK', Conversations, AccountingAgrees, clientUp, clientUp',
           NEW c \in Client, ClientThread(c)
    PROVE  AccountingAgrees'
<1> DEFINE Others == \A e \in Client : e # c =>
                        /\ pc'[e] = pc[e] /\ stage'[e] = stage[e]
                        /\ request'[e] = request[e] /\ reply'[e] = reply[e]
                        /\ blocks'[e] = blocks[e]
           Kept    == Requested(c)' = Requested(c) /\ Provided(c)' = Provided(c)
                        /\ Tallied(c)' = Tallied(c)
<1>0. Others /\ Kept => AccountingAgrees'
  BY AgreesMove
<1>1. /\ Waiting(c)
      /\ requestedSegments \in Nat /\ requestTotals \in Nat
      /\ serverProvideSegments \in Nat /\ requestServerTimes \in Nat
      /\ blocks[c].server \in Nat /\ blocks[c].clients \in Nat
  BY DEF Conversations, TypeOK, CounterTypes
<1>t. /\ pc \in [Client -> ClientPC] /\ stage \in [Client -> {"server", "peer1", "peer2"}]
      /\ request \in [Client -> Request] /\ reply \in [Client -> Reply]
      /\ blocks \in [Client -> [buf : Nat, server : Nat, clients : Nat]]
      /\ SERVERID \notin Client
  BY DeliveryAssumption DEF TypeOK, ThreadTypes, SocketTypes, CounterTypes
<1> USE <1>t
<1>2. ASSUME \/ LeasePeer(c) \/ ReadBand(c) \/ SendCurrentLoad(c) \/ ReleasePeer(c)
             \/ MakeRoom(c) \/ SendEliminateBlock(c) \/ AddBlock(c) \/ SendAddedBlock(c)
      PROVE  AccountingAgrees'
  <2>1. UNCHANGED <<request, reply, blocks, requestTotals, requestServerTimes,
                    requestedSegments, serverProvideSegments>>
    BY <1>2 DEF LeasePeer, ReadBand, SendCurrentLoad, ReleasePeer, MakeRoom,
       SendEliminateBlock, AddBlock, SendAddedBlock, counters, serverState
  <2>2. CASE LeasePeer(c) \/ ReadBand(c) \/ SendCurrentLoad(c)
    <3>1. /\ pc[c] \in {"lease", "read1", "beat1", "read2", "beat2"} /\ UNCHANGED stage
          /\ \E l \in {"read1", "beat1", "read2", "beat2", "release"} : Goto(c, l)
      BY <2>2 DEF LeasePeer, ReadBand, SendCurrentLoad, clientLocals
    <3> QED
      BY <2>1, <3>1, AgreesStay DEF Goto, Uncounted, Untallied
  <2>3. CASE ReleasePeer(c)
    <3>1. /\ pc[c] = "release" /\ Goto(c, "write")
          /\ stage' = [stage EXCEPT ![c] = "peer1"]
      BY <2>3 DEF ReleasePeer
    <3> QED
      BY <2>1, <3>1, AgreesStay DEF Goto, Uncounted, Untallied
  <2>4. CASE MakeRoom(c) \/ SendEliminateBlock(c) \/ AddBlock(c) \/ SendAddedBlock(c)
    <3>1. /\ pc[c] \in {"write", "tellEliminate", "add", "tellAdd"} /\ UNCHANGED stage
          /\ \E l \in {"tellEliminate", "add", "tellAdd", "written"} : Goto(c, l)
      BY <2>4 DEF MakeRoom, SendEliminateBlock, AddBlock, SendAddedBlock, clientLocals
    <3> QED
      BY <2>1, <3>1, AgreesStay DEF Goto, Uncounted, Untallied
  <2> QED
    BY <1>2, <2>2, <2>3, <2>4
<1>3. ASSUME Run(c) \/ ReceiveInfo(c) \/ Stop(c) PROVE AccountingAgrees'
  <2>1. /\ UNCHANGED <<stage, blocks, requestTotals, requestServerTimes,
                       requestedSegments, serverProvideSegments>>
        /\ pc[c] \in {"new", "resource", "play"}
        /\ \E l \in {"resource", "play", "stop"} : Goto(c, l)
        /\ UNCHANGED request \/ request' = [request EXCEPT ![c] = Resource]
        /\ UNCHANGED reply \/ reply' = [reply EXCEPT ![c] = NoMsg]
    BY <1>3 DEF Run, ReceiveInfo, Stop, clientLocals, counters, serverState
  <2>2. Others
    BY <2>1 DEF Goto
  <2>3. reply[c] # Vod(SERVERID) /\ reply'[c] # Vod(SERVERID)
    BY <1>1, <2>1, Kinds DEF Waiting
  <2>4. ~Uncounted(c) /\ ~Uncounted(c)' /\ ~Untallied(c) /\ ~Untallied(c)'
    BY <2>1 DEF Goto, Uncounted, Untallied
  <2>5. Kept
    BY <2>1, <2>3, <2>4 DEF Requested, Provided, Tallied, One, FromOthers, Vod
  <2> QED
    BY <1>0, <2>2, <2>5
<1>4. ASSUME NEW s \in Segment, WantSegment(c, s) PROVE AccountingAgrees'
  <2>1. /\ UNCHANGED <<stage, reply, requestTotals, requestServerTimes,
                       requestedSegments, serverProvideSegments>>
        /\ pc[c] = "play"
    BY <1>4 DEF WantSegment, clientLocals, serverState
  <2>2. CASE UNCHANGED <<pc, request>> /\ increaseBlockFromBuf(c)
    <3>1. Others
      BY <2>1, <2>2 DEF increaseBlockFromBuf
    <3>2. blocks'[c].server = blocks[c].server /\ blocks'[c].clients = blocks[c].clients
      BY <2>2 DEF increaseBlockFromBuf
    <3>3. Kept
      BY <2>1, <2>2, <3>2 DEF Requested, Provided, Tallied, One, FromOthers, Vod, Uncounted, Untallied
    <3> QED
      BY <1>0, <3>1, <3>3
  <2>3. CASE /\ request' = [request EXCEPT ![c] = SegReq("segment", s)]
             /\ Goto(c, "segment") /\ UNCHANGED blocks
    <3>1. Others
      BY <2>1, <2>3 DEF Goto
    <3>2. ~Uncounted(c) /\ ~Uncounted(c)' /\ ~Untallied(c) /\ ~Untallied(c)'
      BY <2>1, <2>3, Kinds DEF Goto, Uncounted, Untallied
    <3>3. Kept
      BY <2>1, <2>3, <3>2 DEF Requested, Provided, Tallied, One, FromOthers, Vod
    <3> QED
      BY <1>0, <3>1, <3>3
  <2> QED
    BY <1>4, <2>2, <2>3 DEF WantSegment
<1>5. ASSUME ReceiveServerReply(c) PROVE AccountingAgrees'
  <2>1. /\ pc[c] \in {"segment", "again"} /\ reply[c] = Vod(SERVERID)
        /\ reply' = [reply EXCEPT ![c] = NoMsg]
        /\ requestServerTimes' = requestServerTimes + 1
        /\ requestTotals' = requestTotals + 1
        /\ stage' = [stage EXCEPT ![c] = "server"] /\ Goto(c, "write")
        /\ UNCHANGED <<request, blocks, requestedSegments, serverProvideSegments>>
    BY <1>5 DEF ReceiveServerReply, increaseServerCounts, serverState
  <2>2. Others
    BY <2>1 DEF Goto
  <2>3. request[c] = NoMsg /\ reply'[c] # Vod(SERVERID)
    BY <1>1, <2>1, Kinds DEF Waiting
  <2>4. Uncounted(c) /\ ~Uncounted(c)' /\ ~Untallied(c) /\ Untallied(c)'
    BY <2>1, <2>3 DEF Goto, Uncounted, Untallied
  <2>5. Requested(c)' = Requested(c)
    BY <1>1, <2>1, <2>4 DEF Requested, One
  <2>6. Provided(c)' = Provided(c)
    BY <1>1, <2>1, <2>3 DEF Provided, One, Vod
  <2>7. Tallied(c)' = Tallied(c)
    <3>1. FromOthers(c)' = FromOthers(c) /\ FromOthers(c) \in Nat
      BY <1>1, <2>1 DEF FromOthers
    <3>2. One(Untallied(c)) = 0 /\ One(Untallied(c))' = 1
      BY <2>4 DEF One
    <3> QED
      BY <1>1, <2>1, <3>1, <3>2 DEF Tallied
  <2> QED
    BY <1>0, <2>2, <2>5, <2>6, <2>7
<1>6. ASSUME ReceivePeerReply(c) PROVE AccountingAgrees'
  <2>1. /\ pc[c] = "segment" /\ \E p \in Client : reply[c] = Vod(p)
        /\ reply' = [reply EXCEPT ![c] = NoMsg]
        /\ Goto(c, "ask")
        /\ UNCHANGED <<stage, request, blocks, requestTotals, requestServerTimes,
                       requestedSegments, serverProvideSegments>>
    BY <1>6 DEF ReceivePeerReply, counters, serverState
  <2>2. Others
    BY <2>1 DEF Goto
  <2>3. request[c] = NoMsg /\ reply[c] # Vod(SERVERID) /\ reply'[c] # Vod(SERVERID)
    BY <1>1, <2>1, Kinds DEF Waiting
  <2>4. Uncounted(c) /\ Uncounted(c)' /\ ~Untallied(c) /\ ~Untallied(c)'
    BY <2>1, <2>3 DEF Goto, Uncounted, Untallied
  <2>5. Kept
    BY <2>1, <2>3, <2>4 DEF Requested, Provided, Tallied, One, FromOthers, Vod
  <2> QED
    BY <1>0, <2>2, <2>5
<1>7. ASSUME AskPeer(c) PROVE AccountingAgrees'
  <2>1. /\ pc[c] = "ask" /\ \E l \in {"lease", "again"} : Goto(c, l)
        /\ \A e \in Client : e # c => request'[e] = request[e]
        /\ UNCHANGED <<stage, reply, blocks, requestTotals, requestServerTimes,
                       requestedSegments, serverProvideSegments>>
    BY <1>7 DEF AskPeer, clientLocals, counters, serverState
  <2>2. Others
    BY <2>1 DEF Goto
  <2>3. Uncounted(c) /\ Uncounted(c)' /\ ~Untallied(c) /\ ~Untallied(c)'
    BY <2>1 DEF Goto, Uncounted, Untallied
  <2>4. Kept
    BY <2>1, <2>3 DEF Requested, Provided, Tallied, One, FromOthers, Vod
  <2> QED
    BY <1>0, <2>2, <2>4
<1>8. ASSUME WriteAgain(c) PROVE AccountingAgrees'
  <2>1. /\ pc[c] = "written" /\ stage[c] = "peer1"
        /\ requestTotals' = requestTotals + 1
        /\ stage' = [stage EXCEPT ![c] = "peer2"] /\ Goto(c, "write")
        /\ UNCHANGED <<request, reply, blocks, requestServerTimes, requestedSegments,
                       serverProvideSegments>>
    BY <1>8 DEF WriteAgain, increaseTotalCounts, serverState
  <2>2. Others
    BY <2>1 DEF Goto
  <2>3. Uncounted(c) /\ ~Uncounted(c)' /\ ~Untallied(c) /\ Untallied(c)'
    BY <2>1 DEF Goto, Uncounted, Untallied
  <2>4. Requested(c)' = Requested(c) /\ Provided(c)' = Provided(c)
    BY <1>1, <2>1, <2>3 DEF Requested, Provided, One, Vod
  <2>5. Tallied(c)' = Tallied(c)
    BY <1>1, <2>1, <2>3 DEF Tallied, One, FromOthers
  <2> QED
    BY <1>0, <2>2, <2>4, <2>5
<1>9. ASSUME FinishFromPeer(c) \/ FinishFromServer(c) PROVE AccountingAgrees'
  <2>1. /\ pc[c] = "written" /\ stage[c] # "peer1" /\ Goto(c, "play")
        /\ \/ blocks' = [blocks EXCEPT ![c].server = @ + 1]
           \/ blocks' = [blocks EXCEPT ![c].clients = @ + 1]
        /\ UNCHANGED <<stage, request, reply, requestTotals, requestServerTimes,
                       requestedSegments, serverProvideSegments>>
    BY <1>9 DEF FinishFromPeer, FinishFromServer, increaseBlockFromClient,
       increaseBlockFromServer, clientLocals, serverState
  <2>2. Others
    BY <2>1 DEF Goto
  <2>3. ~Uncounted(c) /\ ~Uncounted(c)' /\ Untallied(c) /\ ~Untallied(c)'
    BY <2>1 DEF Goto, Uncounted, Untallied
  <2>4. blocks'[c].server + blocks'[c].clients = blocks[c].server + blocks[c].clients + 1
    BY <1>1, <2>1
  <2>5. Requested(c)' = Requested(c) /\ Provided(c)' = Provided(c)
    BY <1>1, <2>1, <2>3 DEF Requested, Provided, One, Vod
  <2>6. Tallied(c)' = Tallied(c)
    BY <1>1, <2>1, <2>3, <2>4 DEF Tallied, One, FromOthers
  <2> QED
    BY <1>0, <2>2, <2>5, <2>6
<1>10. ~ServerGone(c)
  BY DEF ServerGone
<1> QED
  BY <1>2, <1>3, <1>4, <1>5, <1>6, <1>7, <1>8, <1>9, <1>10 DEF ClientThread

(* A step of the server's thread. *)
LEMMA ServerAgreesStep ==
    ASSUME TypeOK, TypeOK', Conversations, AccountingAgrees, clientUp, clientUp',
           NEW c \in Client, ServerThread(c)
    PROVE  AccountingAgrees'
<1> DEFINE Kept == Requested(c)' = Requested(c) /\ Provided(c)' = Provided(c)
                     /\ Tallied(c)' = Tallied(c)
<1>1. /\ Waiting(c) /\ c \in Client /\ SERVERID \notin Client
      /\ requestedSegments \in Nat /\ requestTotals \in Nat
      /\ serverProvideSegments \in Nat /\ requestServerTimes \in Nat
      /\ request \in [Client -> Request] /\ reply \in [Client -> Reply]
  BY DeliveryAssumption DEF Conversations, TypeOK, CounterTypes, SocketTypes
<1>2. CASE StartTicks(c) \/ EndTicks(c)
  <2>1. /\ UNCHANGED <<pc, stage, request, reply, blocks, requestTotals, requestServerTimes,
                       requestedSegments, serverProvideSegments>>
    BY <1>2 DEF StartTicks, EndTicks, clientLocals, counters
  <2> QED
    BY <2>1, AgreesStay DEF Uncounted, Untallied
<1>3. ASSUME HandleResource(c) \/ HandleSegment(c) \/ HandleAgain(c) PROVE AccountingAgrees'
  <2>1. /\ UNCHANGED <<pc, stage, blocks, requestTotals, requestServerTimes>>
        /\ request' = [request EXCEPT ![c] = NoMsg] /\ request[c] # NoMsg
        /\ \E r : reply' = [reply EXCEPT ![c] = r]
    BY <1>3, Kinds DEF HandleResource, HandleSegment, HandleAgain, clientLocals, counters
  <2>2. reply[c] = NoMsg /\ reply[c] # Vod(SERVERID) /\ FromOthers(c)' = FromOthers(c)
        /\ Untallied(c)' = Untallied(c)
    BY <1>1, <2>1, Kinds DEF Waiting, FromOthers, Untallied
  <2>3. Kept => AccountingAgrees'
    BY <2>1, AgreesMove
  <2>4. Tallied(c)' = Tallied(c)
    BY <2>1, <2>2 DEF Tallied, One
  <2>5. CASE HandleResource(c)
    <3>1. /\ pc[c] = "resource" /\ reply'[c] = Info
          /\ UNCHANGED <<requestedSegments, serverProvideSegments>>
      BY <1>1, <2>5 DEF HandleResource, Waiting
    <3>2. ~Uncounted(c) /\ ~Uncounted(c)' /\ reply'[c] # Vod(SERVERID)
      BY <2>1, <3>1, Kinds DEF Uncounted
    <3>3. Requested(c)' = Requested(c) /\ Provided(c)' = Provided(c)
      BY <2>1, <2>2, <3>1, <3>2 DEF Requested, Provided, One, Vod
    <3> QED
      BY <2>3, <2>4, <3>3
  <2>6. CASE HandleSegment(c)
    <3>1. /\ pc[c] = "segment" /\ requestedSegments' = requestedSegments + 1
          /\ \/ /\ serverProvideSegments' = serverProvideSegments + 1
                /\ reply'[c] = Vod(SERVERID)
             \/ /\ serverProvideSegments' = serverProvideSegments
                /\ \E p \in Client : reply'[c] = Vod(p)
      BY <1>1, <2>6 DEF HandleSegment, Waiting, clientRequestSegment, serverProvideSegment,
         Best, Holders, registered
    <3>2. ~Uncounted(c) /\ Uncounted(c)'
      BY <1>1, <2>1, <3>1 DEF Uncounted
    <3>3. Requested(c)' = Requested(c)
      BY <1>1, <2>1, <3>1, <3>2 DEF Requested, One
    <3>4. Provided(c)' = Provided(c)
      BY <1>1, <2>1, <2>2, <3>1, Kinds DEF Provided, One, Vod
    <3> QED
      BY <2>3, <2>4, <3>3, <3>4
  <2>7. CASE HandleAgain(c)
    <3>1. /\ pc[c] = "again" /\ UNCHANGED requestedSegments
          /\ serverProvideSegments' = serverProvideSegments + 1
          /\ reply'[c] = Vod(SERVERID)
      BY <1>1, <2>7 DEF HandleAgain, Waiting, serverProvideSegment
    <3>2. Uncounted(c) /\ Uncounted(c)'
      BY <2>1, <3>1 DEF Uncounted
    <3>3. Requested(c)' = Requested(c)
      BY <1>1, <2>1, <3>1, <3>2 DEF Requested, One
    <3>4. Provided(c)' = Provided(c)
      BY <1>1, <2>1, <2>2, <3>1 DEF Provided, One, Vod
    <3> QED
      BY <2>3, <2>4, <3>3, <3>4
  <2> QED
    BY <1>3, <2>5, <2>6, <2>7
<1> QED
  BY <1>2, <1>3 DEF ServerThread

LEMMA AgreesInit == Init => AccountingAgrees /\ Conversations
<1> SUFFICES ASSUME Init PROVE AccountingAgrees /\ Conversations
  OBVIOUS
<1> USE DEF Init
<1>1. PICK f : f = [c \in Client |-> FromOthers(c)]
  OBVIOUS
<1>2. PICK z : z = [c \in Client |-> 0]
  OBVIOUS
<1>3. f = z
  BY <1>1, <1>2 DEF FromOthers
<1>4. SumFunction(f) = 0
  <2> HIDE DEF Init
  <2> DEFINE B == {s \in SUBSET Client : SumFunctionOnSet(f, s) # 0}
  <2>1. ASSUME B # {} PROVE FALSE
    <3>1. PICK s \in B : \A t \in B : t \subseteq s => t = s
      <4>1. B \subseteq SUBSET Client
        OBVIOUS
      <4> HIDE DEF B
      <4> QED
        BY <2>1, <4>1, Minimal, AccountingAssumption
    <3>2. PICK u : u = s \ {Pick(s)}
      OBVIOUS
    <3>3. SumFunctionOnSet(f, s) = IF s = {} THEN 0 ELSE f[Pick(s)] + SumFunctionOnSet(f, u)
      BY <3>2, SumPick, AccountingAssumption
    <3>4. s # {}
      BY <3>3
    <3>5. Pick(s) \in Client /\ u \subseteq s /\ u # s /\ u \in SUBSET Client
      BY <3>2, <3>4, PickIn
    <3>6. SumFunctionOnSet(f, u) = 0 /\ f[Pick(s)] = 0
      BY <3>1, <3>5, <1>2, <1>3
    <3> QED
      BY <3>1, <3>3, <3>4, <3>6
  <2>2. Client \notin B
    BY <2>1
  <2>3. DOMAIN f = Client
    BY <1>1
  <2> QED
    BY <2>2, <2>3 DEF SumFunction
<1>5. /\ {c \in Client : Uncounted(c)} = {} /\ {c \in Client : Untallied(c)} = {}
      /\ {c \in Client : reply[c] = Vod(SERVERID)} = {} /\ Cardinality({}) = 0
  BY FS_EmptySet, Kinds DEF Uncounted, Untallied
<1>6. AccountingAgrees
  <2>1. SumFunction([c \in Client |-> FromOthers(c)]) = 0
    BY <1>1, <1>4
  <2>2. /\ requestedSegments = 0 /\ requestTotals = 0
        /\ serverProvideSegments = 0 /\ requestServerTimes = 0
    OBVIOUS
  <2>3. /\ Cardinality({c \in Client : Uncounted(c)}) = 0
        /\ Cardinality({c \in Client : Untallied(c)}) = 0
        /\ Cardinality({c \in Client : reply[c] = Vod(SERVERID)}) = 0
    BY <1>5
  <2> QED
    BY ONLY <2>1, <2>2, <2>3 DEF AccountingAgrees
<1>7. Conversations
  BY Kinds DEF Conversations, Waiting
<1> QED
  BY <1>6, <1>7

LEMMA AgreesStep ==
    TypeOK /\ Conversations /\ AccountingAgrees /\ [Next]_vars => AccountingAgrees'
<1> SUFFICES ASSUME TypeOK, Conversations, AccountingAgrees, [Next]_vars, clientUp'
             PROVE  AccountingAgrees'
  BY DEF AccountingAgrees
<1>1. TypeOK'
  BY TypeStep
<1>2. CASE UNCHANGED vars \/ ManagerThread
  <2>1. UNCHANGED <<pc, stage, request, reply, blocks, requestTotals, requestServerTimes,
                    requestedSegments, serverProvideSegments, clientUp>>
    BY <1>2 DEF ManagerThread, ManagerReads, HandleManager, vars, clientLocals, counters, serverState
  <2>2. /\ {c \in Client : Uncounted(c)}' = {c \in Client : Uncounted(c)}
        /\ {c \in Client : Untallied(c)}' = {c \in Client : Untallied(c)}
        /\ {c \in Client : reply[c] = Vod(SERVERID)}' = {c \in Client : reply[c] = Vod(SERVERID)}
        /\ [c \in Client |-> FromOthers(c)]' = [c \in Client |-> FromOthers(c)]
    BY <2>1 DEF Uncounted, Untallied, Vod, FromOthers
  <2> QED
    BY <2>1, <2>2 DEF AccountingAgrees
<1>3. ASSUME NEW c \in Client, ClientThread(c) PROVE AccountingAgrees'
  <2>1. clientUp
    BY <1>3 DEF ClientThread
  <2> QED
    BY <1>1, <1>3, <2>1, ClientAgreesStep
<1>4. ASSUME NEW c \in Client, ServerThread(c) PROVE AccountingAgrees'
  <2>1. clientUp
    BY <1>4 DEF ServerThread, HandleResource, HandleSegment, HandleAgain, StartTicks, EndTicks
  <2> QED
    BY <1>1, <1>4, <2>1, ServerAgreesStep
<1> QED
  BY <1>2, <1>3, <1>4 DEF Next

(* The statistics of the two processes count the same segments, for every  *)
(* number of clients, as long as the client process runs.                  *)
THEOREM StatisticsAgree == Spec => []AccountingAgrees
<1>1. Init => TypeOK /\ Conversations /\ AccountingAgrees
  BY TypeInit, AgreesInit
<1>2. TypeOK /\ Conversations /\ AccountingAgrees /\ [Next]_vars
      => (TypeOK /\ Conversations /\ AccountingAgrees)'
  BY TypeStep, ConversationsStep, AgreesStep
<1> QED
  BY <1>1, <1>2, PTL DEF Spec

-----------------------------------------------------------------------------
(* A process ends only for want of bandwidth. *)

(* A request made again is only answered with the server itself. *)
ServerAnswersAgain ==
    \A c \in Client : pc[c] = "again" => \A p \in Client : reply[c] # Vod(p)

LEMMA AgainStep ==
    ASSUME TypeOK, Conversations, ServerAnswersAgain, [Next]_vars
    PROVE  ServerAnswersAgain'
<1> SUFFICES ASSUME NEW d \in Client, pc'[d] = "again", NEW p \in Client PROVE reply'[d] # Vod(p)
  BY DEF ServerAnswersAgain
<1> USE Kinds DEF TypeOK, ThreadTypes, SocketTypes
<1>1. CASE reply'[d] = reply[d] /\ pc[d] = "again"
  BY <1>1 DEF ServerAnswersAgain
<1>2. CASE reply'[d] \in {NoMsg, Info, Vod(SERVERID)}
  BY <1>2, DeliveryAssumption
<1>3. ASSUME NEW c \in Client, AskPeer(c) PROVE reply'[d] # Vod(p)
  <2>1. CASE d = c
    BY <1>3, <2>1 DEF AskPeer, Conversations, Waiting
  <2>2. CASE d # c
    BY <1>1, <1>3, <2>2 DEF AskPeer, Goto
  <2> QED
    BY <2>1, <2>2
<1>4. ASSUME NEW c \in Client, \/ ReceiveInfo(c) \/ ReceiveServerReply(c) \/ ReceivePeerReply(c)
                               \/ HandleResource(c) \/ HandleAgain(c)
      PROVE  reply'[d] # Vod(p)
  <2>1. /\ \E r \in {NoMsg, Info, Vod(SERVERID)} : reply' = [reply EXCEPT ![c] = r]
        /\ UNCHANGED pc \/ \E l \in {"play", "write", "ask"} : Goto(c, l)
    BY <1>4 DEF ReceiveInfo, ReceiveServerReply, ReceivePeerReply, HandleResource, HandleAgain
  <2>2. CASE d = c
    BY <1>2, <2>1, <2>2
  <2>3. CASE d # c
    BY <1>1, <2>1, <2>3 DEF Goto
  <2> QED
    BY <2>2, <2>3
<1>5. ASSUME NEW c \in Client, HandleSegment(c) PROVE reply'[d] # Vod(p)
  <2>1. UNCHANGED pc /\ \A e \in Client : e # c => reply'[e] = reply[e]
    BY <1>5 DEF HandleSegment
  <2>2. pc[c] = "segment"
    BY <1>5 DEF HandleSegment, Conversations, Waiting
  <2> QED
    BY <1>1, <2>1, <2>2
<1>6. ASSUME NEW c \in Client,
             \/ Run(c) \/ (\E s \in Segment : WantSegment(c, s))
             \/ Stop(c) \/ LeasePeer(c) \/ ReadBand(c) \/ SendCurrentLoad(c) \/ ReleasePeer(c)
             \/ MakeRoom(c) \/ SendEliminateBlock(c) \/ AddBlock(c) \/ SendAddedBlock(c)
             \/ WriteAgain(c) \/ FinishFromPeer(c) \/ FinishFromServer(c)
      PROVE  reply'[d] # Vod(p)
  <2>1. UNCHANGED reply
    BY <1>6 DEF Run, WantSegment, Stop, LeasePeer, ReadBand, SendCurrentLoad, ReleasePeer, MakeRoom,
       SendEliminateBlock, AddBlock, SendAddedBlock, WriteAgain, FinishFromPeer, FinishFromServer
  <2>2. UNCHANGED pc \/ \E l \in ClientPC \ {"again"} : Goto(c, l)
    BY <1>6 DEF Run, WantSegment, Stop, LeasePeer, ReadBand, SendCurrentLoad, ReleasePeer, MakeRoom,
       SendEliminateBlock, AddBlock, SendAddedBlock, WriteAgain, FinishFromPeer, FinishFromServer,
       ClientPC
  <2> QED
    BY <1>1, <2>1, <2>2 DEF Goto
<1>7. ASSUME \/ ManagerThread \/ UNCHANGED vars
             \/ \E c \in Client : ServerGone(c) \/ StartTicks(c) \/ EndTicks(c)
      PROVE  reply'[d] # Vod(p)
  BY <1>1, <1>7 DEF ManagerThread, ManagerReads, HandleManager, vars, ServerGone, StartTicks, EndTicks
<1> QED
  BY <1>3, <1>4, <1>5, <1>6, <1>7 DEF Next, ClientThread, ServerThread

(* What a client has not got left is what running transfers hold of it. *)
LEMMA ShortLease ==
    ASSUME TypeOK, BandLedger, NEW c \in Client, NEW p \in Client, ~CanLease(p, Rate(c))
    PROVE  Leased(p) + Rate(c) >= ClientBand
<1>1. PICK own, lent : /\ own = (IF OnOwnBand(p) THEN Rate(p) ELSE 0)
                       /\ lent = SumFunctionOnSet(RateOf, Borrowers(p))
  OBVIOUS
<1>2. availableBand[p] = ClientBand - own - lent
  BY <1>1 DEF BandLedger
<1>3. ~(availableBand[p] > Rate(c))
  BY DEF CanLease
<1>4. own \in Int /\ lent \in Int
  <2>1. PICK S : S = Borrowers(p)
    OBVIOUS
  <2>2. S \subseteq Client
    BY <2>1 DEF Borrowers
  <2>3. SumFunctionOnSet(RateOf, S) \in Int
    BY <2>2, RatesOf, AccountingAssumption, SumInt
  <2> QED
    BY <1>1, <2>1, <2>3, RatesOf
<1>5. Rate(c) \in Int /\ ClientBand \in Int
  BY RatesOf, DeliveryAssumption
<1>6. Leased(p) = own + lent
  BY <1>1 DEF Leased
<1> QED
  BY <1>2, <1>3, <1>4, <1>5, <1>6

LEMMA ShortLoad ==
    ASSUME TypeOK, BandLedger, NEW c \in Client, availableBandwidth < TickRate(c)
    PROVE  SumFunctionOnSet(TickRateOf, Ticking) + TickRate(c) > ServerBand
<1>1. PICK S, s : S = Ticking /\ s = SumFunctionOnSet(TickRateOf, Ticking)
  OBVIOUS
<1>2. S \subseteq Client
  BY <1>1 DEF Ticking
<1>3. SumFunctionOnSet(TickRateOf, S) \in Int
  BY <1>2, RatesOf, AccountingAssumption, SumInt
<1>4. s \in Int /\ availableBandwidth = ServerBand - s
  BY <1>1, <1>3 DEF BandLedger
<1>5. TickRate(c) \in Int /\ ServerBand \in Int
  BY RatesOf, DeliveryAssumption
<1> QED
  BY <1>1, <1>4, <1>5

LEMMA EndStep ==
    ASSUME TypeOK, BandLedger, ServerAnswersAgain, [Next]_vars
    PROVE  EndsForBand
<1> USE DEF TypeOK, ThreadTypes
<1>1. ASSUME NEW c \in Client, ReceiveServerReply(c) PROVE EndsForBand
  <2>1. reply[c] # NoMsg /\ pc[c] \in {"segment", "again"}
    BY <1>1, Kinds DEF ReceiveServerReply
  <2>2. ~CanLease(c, Rate(c)) => ClientShort
    BY <2>1, ShortLease DEF ClientShort
  <2> QED
    BY <1>1, <2>2 DEF ReceiveServerReply, EndsForBand, serverState
<1>2. ASSUME NEW c \in Client, ReceivePeerReply(c) PROVE EndsForBand
  <2>1. PICK p \in Client :
          /\ reply[c] = Vod(p)
          /\ clientUp /\ ~clientUp' => (pc[c] = "segment" => ~CanLease(c, Rate(c)))
    BY <1>2 DEF ReceivePeerReply
  <2>2. reply[c] # NoMsg /\ pc[c] = "segment"
    BY <1>2, <2>1, Kinds DEF ReceivePeerReply, ServerAnswersAgain
  <2>3. ~CanLease(c, Rate(c)) => ClientShort
    BY <2>2, ShortLease DEF ClientShort
  <2> QED
    BY <1>2, <2>1, <2>2, <2>3 DEF ReceivePeerReply, EndsForBand, serverState
<1>3. ASSUME NEW c \in Client, LeasePeer(c) PROVE EndsForBand
  <2>1. PICK p \in Client : p = peer[c]
    OBVIOUS
  <2>2. ~CanLease(p, Rate(c)) => ClientShort
    BY <1>3, <2>1, ShortLease DEF LeasePeer, ClientShort
  <2> QED
    BY <1>3, <2>1, <2>2 DEF LeasePeer, EndsForBand, serverState
<1>4. ASSUME NEW c \in Client, StartTicks(c) PROVE EndsForBand
  <2>1. availableBandwidth < TickRate(c) => ServerShort
    BY <1>4, ShortLoad DEF StartTicks, ServerShort
  <2> QED
    BY <1>4, <2>1 DEF StartTicks, EndsForBand
<1>5. ASSUME NEW c \in Client, ServerGone(c) PROVE EndsForBand
  BY <1>5 DEF ServerGone, EndsForBand, serverState
<1>6. ASSUME NEW c \in Client,
             \/ Run(c) \/ ReceiveInfo(c) \/ (\E s \in Segment : WantSegment(c, s)) \/ Stop(c)
             \/ AskPeer(c) \/ ReadBand(c) \/ SendCurrentLoad(c) \/ ReleasePeer(c)
             \/ MakeRoom(c) \/ SendEliminateBlock(c) \/ AddBlock(c) \/ SendAddedBlock(c)
             \/ WriteAgain(c) \/ FinishFromPeer(c) \/ FinishFromServer(c)
      PROVE  EndsForBand
  <2>1. UNCHANGED <<clientUp, serverUp>>
    BY <1>6 DEF Run, ReceiveInfo, WantSegment, Stop, AskPeer, ReadBand, SendCurrentLoad, ReleasePeer,
       MakeRoom, SendEliminateBlock, AddBlock, SendAddedBlock, WriteAgain, FinishFromPeer,
       FinishFromServer, serverState
  <2> QED
    BY <2>1 DEF EndsForBand
<1>7. ASSUME \/ ManagerThread \/ UNCHANGED vars
             \/ \E c \in Client : HandleResource(c) \/ HandleSegment(c) \/ HandleAgain(c) \/ EndTicks(c)
      PROVE  EndsForBand
  <2>1. UNCHANGED <<clientUp, serverUp>>
    BY <1>7 DEF ManagerThread, ManagerReads, HandleManager, HandleResource, HandleSegment,
       HandleAgain, EndTicks, vars, serverState
  <2> QED
    BY <2>1 DEF EndsForBand
<1> QED
  BY <1>1, <1>2, <1>3, <1>4, <1>5, <1>6, <1>7 DEF Next, ClientThread, ServerThread

(* For any number of clients, videos, rates and bandwidths: a client calls *)
(* exit(1) only when transfers running at that moment hold so much of the  *)
(* band it asks for that its own does not fit, or the server has gone; the *)
(* server only when the blocks it is sending leave no room for the next.   *)
(* No bandwidth is lost to a process, and "should get the resource from    *)
(* server!" is dead code.  Of a server that took a misread word for a type *)
(* (derailed, which the model does not go beyond) nothing is claimed.      *)
THEOREM ExitsOnlyWhenShort == Spec => ExitsWhenShort
<1> DEFINE Good == TypeOK /\ BandLedger /\ Conversations /\ ServerAnswersAgain
<1>1. Init => Good
  <2>1. Init => ServerAnswersAgain
    BY DEF Init, ServerAnswersAgain
  <2> QED
    BY <2>1, TypeInit, LedgerInit, AgreesInit
<1>2. Good /\ [Next]_vars => Good'
  BY TypeStep, LedgerStep, ConversationsStep, AgainStep
<1>3. Good /\ [Next]_vars => [EndsForBand]_vars
  BY EndStep
<1> QED
  BY <1>1, <1>2, <1>3, PTL DEF Spec, ExitsWhenShort
=============================================================================
