-------------------------- MODULE SegmentAccounting --------------------------
(***************************************************************************)
(* The books of the segment delivery: bandwidth leased and returned, and   *)
(* the counters the client's and the server's statistics are printed from. *)
(***************************************************************************)
EXTENDS SegmentDelivery, Functions

ASSUME AccountingAssumption == IsFiniteSet(Client)    \* clientNumber threads

OnOwnBand(c) ==
    \/ pc[c] \in {"ask", "lease", "read1", "beat1", "read2", "beat2", "release"}
    \/ pc[c] \in {"write", "tellEliminate", "add", "tellAdd", "written"}
         /\ stage[c] # "peer2"

RateOf     == [c \in Client |-> Rate(c)]
TickRateOf == [c \in Client |-> TickRate(c)]
Borrowers(c) == {d \in Client : OnPeersBand(d) /\ peer[d] = c}
Ticking      == {c \in Client : serving[c] = "ticking"}

(* Bandwidth is neither lost nor invented: what a client or the server has *)
(* available is its bandwidth less the leases running at this moment, so   *)
(* the exit(1) of increaseAvailableBand ("program error") is unreachable.  *)
BandLedger ==
    /\ \A c \in Client :
         /\ availableBand[c] =
                ClientBand - (IF OnOwnBand(c) THEN Rate(c) ELSE 0)
                  - SumFunctionOnSet(RateOf, Borrowers(c))
         /\ availableBand[c] >= 0
    /\ availableBandwidth = ServerBand - SumFunctionOnSet(TickRateOf, Ticking)
    /\ availableBandwidth >= 0
    /\ currentLoad = Cardinality(Ticking)

(* The two statistics agree: the segments the server counted as requested  *)
(* and as provided by itself are the ones the clients counted, but for the *)
(* requests under way, and each request the clients counted is in one      *)
(* client's tally or about to be.                                          *)
Uncounted(c) ==  \* answered by the server, not yet counted by the client
    \/ pc[c] = "segment" /\ request[c] = NoMsg
    \/ pc[c] \in {"again", "ask", "lease", "read1", "beat1", "read2", "beat2", "release"}
    \/ pc[c] \in {"write", "tellEliminate", "add", "tellAdd", "written"}
         /\ stage[c] = "peer1"
Untallied(c) ==  \* counted by the client process, not yet in the client's tally
    /\ pc[c] \in {"write", "tellEliminate", "add", "tellAdd", "written"}
    /\ stage[c] # "peer1"
FromOthers(c) == blocks[c].server + blocks[c].clients
AccountingAgrees ==
    clientUp =>
        /\ requestedSegments = requestTotals + Cardinality({c \in Client : Uncounted(c)})
        /\ serverProvideSegments = requestServerTimes
              + Cardinality({c \in Client : reply[c] = Vod(SERVERID)})
        /\ requestTotals = SumFunction([c \in Client |-> FromOthers(c)])
              + Cardinality({c \in Client : Untallied(c)})

(* A process ends only for want of bandwidth that running transfers hold.  *)
(* A client calls exit(1) for the leases of the client whose band it asks  *)
(* for, its own or its peer's, or because the server has gone; the server  *)
(* for the blocks it is sending.  Neither a band some thread has not given *)
(* back nor a peer named to a second request ("should get the resource     *)
(* from server!") ends one.  What a misread word that passes for a type    *)
(* does to the server is ManagerStream's subject, not this property's.     *)
Leased(p) == (IF OnOwnBand(p) THEN Rate(p) ELSE 0) + SumFunctionOnSet(RateOf, Borrowers(p))
ClientShort ==
    \E c \in Client, p \in Client :
        /\ \/ pc[c] \in {"segment", "again"} /\ reply[c] # NoMsg /\ p = c
           \/ pc[c] = "lease" /\ p = peer[c]
        /\ Leased(p) + Rate(c) >= ClientBand
ServerShort ==
    \E c \in Client :
        /\ serving[c] = "replied"
        /\ SumFunctionOnSet(TickRateOf, Ticking) + TickRate(c) > ServerBand
EndsForBand ==
    /\ clientUp /\ ~clientUp' => ~serverUp \/ ClientShort
    /\ serverUp /\ ~serverUp' => ServerShort
ExitsWhenShort == [][EndsForBand]_vars

(* A client that asked for a segment goes on to play, whatever the server, *)
(* the directory and the peers do meanwhile.                               *)
SegmentDelivered ==
    \A c \in Client : pc[c] = "segment" ~> pc[c] = "play"

(* When the clients have stopped, the directory comes to list exactly the  *)
(* blocks their buffers hold, and stays so - for every client of whose     *)
(* messages the manager thread has misread none.                           *)
Listed(C) == \A c \in C, s \in Segment : <<c, s>> \in ivod_seg_t <=> s \in buf[c]
DirectoryConverges == <>[]Listed(Client \ misread)

(* What message.h says of the packet a heartbeat is sent in (ClientState,  *)
(* 12 bytes): read as that, it costs no other message of the connection,   *)
(* so the directory comes to list every client's buffer.  The code steps   *)
(* over a VodSegReq instead and may lose a BLOCKADD or BLOCKELIMINATE.     *)
DirectoryComplete == <>[]Listed(Client)
=============================================================================
