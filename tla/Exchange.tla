------------------------------ MODULE Exchange ------------------------------
(***************************************************************************)
(* One client's own connection, word by word: the client's writen of a     *)
(* request and readn of its reply, the server's receiveMessage and         *)
(* sendMessage, and what each of them meets when the process at the other  *)
(* end ends.  SegmentDelivery takes this connection for a slot in each     *)
(* direction, the abstract RequestReply.                                   *)
(*                                                                         *)
(* The loops are written for a write or read that moves only a part, so    *)
(* here it may move any.  What a request does to the directory and the     *)
(* bands is in SegmentDelivery; here the server picks any reply the        *)
(* request can have.  Either process may end at any time, by exit(1) in    *)
(* another of its threads.  No process handles or ignores SIGPIPE.         *)
(***************************************************************************)
EXTENDS Naturals, Sequences

CONSTANTS
    Word,        \* 2^32 in the code: offset and bytesLen are modulo this
    MaxRequests  \* bound: requests the client makes
ASSUME ExchangeAssumption == Word \in Nat /\ Word > 8 /\ MaxRequests \in Nat

Kind == {"resource", "segment", "again"}
Answers(k) == CASE k = "resource" -> {"info"}
                [] k = "segment"  -> {"server", "peer"}
                [] k = "again"    -> {"server"}
None == "none"

VARIABLES
    cpc, asked,       \* the client's thread; requests it has made
    kind, answer,     \* its request, and the server's reply to it
    out, got,         \* words writen has still to write, readn has read
    toServer, toClient,     \* words under way
    conn,             \* the server's end: open, fin, reset, or shut (error told)
    spc, chunk,       \* the server's thread; what is left of its last recv
    offset, bytesLen, \* locals of sendMessage
    clientUp, serverUp
client == <<cpc, asked, kind, out, got>>
server == <<spc, chunk, answer, offset, bytesLen>>
wires  == <<toServer, toClient>>
vars == <<client, server, wires, conn, clientUp, serverUp>>

-----------------------------------------------------------------------------
(* Faults: each a plausible bug in the operator named beside it.           *)
NeverEnded      == FALSE                                                    \* Ended
FromTheStart(n) == [i \in 1..n |-> [of |-> <<asked, answer>>, part |-> i]]  \* Slice
LeftWider(n)    == bytesLen + Word - n                                      \* Left
TestedBefore(n) == offset = IF answer = "info" THEN 6 ELSE 3                \* AllSent
FirstRead       == got' # <<>>                                              \* ReadAll

-----------------------------------------------------------------------------
RequestSize(k) == IF k = "resource" THEN 4 ELSE 5    \* VideoInfoReq, VodSegReq
ReplySize(a)   == IF a = "info" THEN 6 ELSE 3        \* VideoInfo, VodSeg
Message(m, n)  == [i \in 1..n |-> [of |-> m, part |-> i]]
Request == Message(<<asked, kind>>, RequestSize(kind))
Reply   == Message(<<asked, answer>>, ReplySize(answer))
Front(s, n) == SubSeq(s, 1, n)
Behind(s, n) == SubSeq(s, n + 1, Len(s))

Init ==
    /\ cpc = "idle" /\ asked = 0
    /\ kind = "resource" /\ answer = "info"
    /\ out = <<>> /\ got = <<>> /\ toServer = <<>> /\ toClient = <<>>
    /\ conn = "open"
    /\ spc = "recv" /\ chunk = <<>> /\ offset = 0 /\ bytesLen = 0
    /\ clientUp = TRUE /\ serverUp = TRUE

-----------------------------------------------------------------------------
(* The client.  Run asks for the video, requestFileSegments for segments,  *)
(* again after a reply that named a peer.                                  *)
Ask(k) ==
    /\ clientUp /\ cpc = "idle" /\ asked < MaxRequests
    /\ k = "resource" <=> asked = 0
    /\ k = "again" => kind = "segment" /\ answer = "peer"
    /\ asked' = asked + 1
    /\ kind' = k
    /\ out' = Message(<<asked', k>>, RequestSize(k))
    /\ cpc' = "write"
    /\ UNCHANGED <<got, server, wires, conn, clientUp, serverUp>>

writen ==
    /\ clientUp /\ cpc = "write"
    /\ \E n \in 1..Len(out) : /\ toServer' = toServer \o Front(out, n)
                              /\ out' = Behind(out, n)
    /\ cpc' = IF out' = <<>> THEN "read" ELSE "write"
    /\ got' = <<>>
    /\ UNCHANGED <<asked, kind, server, toClient, conn, clientUp, serverUp>>

(* readn returns the whole reply and the client uses it. *)
ReadAll == Len(got') = ReplySize(IF kind = "resource" THEN "info" ELSE "server")
readn ==
    /\ clientUp /\ cpc = "read"
    /\ \E n \in 1..Len(toClient) : /\ got' = got \o Front(toClient, n)
                                   /\ toClient' = Behind(toClient, n)
    /\ cpc' = IF ReadAll THEN "idle" ELSE "read"
    /\ UNCHANGED <<asked, kind, out, server, toServer, conn, clientUp, serverUp>>

(* The process ends: the server's end of the connection sees it ended, or  *)
(* reset if words for the client were still unread.                        *)
End ==
    /\ clientUp' = FALSE
    /\ conn' = IF toClient # <<>> THEN "reset" ELSE "fin"
    /\ UNCHANGED <<client, server, wires, serverUp>>

ClientExit == clientUp /\ End

(* The server is gone: read returns 0 and readn less than was asked for,   *)
(* or the read or write fails.  exit(1), or SIGPIPE.                       *)
ServerGone ==
    /\ clientUp /\ ~serverUp
    /\ \/ cpc = "write"
       \/ cpc = "read" /\ toClient = <<>>
       \/ cpc = "read" /\ toServer # <<>>     \* unread there: a reset
    /\ End

-----------------------------------------------------------------------------
(* The server's thread: receiveMessage. *)
Recv ==
    /\ serverUp /\ spc = "recv" /\ chunk = <<>>
    /\ \E n \in 1..Len(toServer) : /\ chunk' = Front(toServer, n)
                                   /\ toServer' = Behind(toServer, n)
    /\ UNCHANGED <<client, spc, answer, offset, bytesLen, toClient, conn, clientUp, serverUp>>

(* recv returns 0, or an error: the thread returns.                        *)
Ended == \/ conn = "fin" /\ toServer = <<>>
         \/ conn \in {"reset", "shut"}
RecvEnd ==
    /\ serverUp /\ spc = "recv" /\ chunk = <<>> /\ Ended
    /\ spc' = "returned"
    /\ UNCHANGED <<client, chunk, answer, offset, bytesLen, wires, conn, clientUp, serverUp>>

(* messageProcess on a whole request: the reply is chosen.                 *)
Whole(n) == Len(chunk) >= n
messageProcess ==
    /\ serverUp /\ spc = "recv" /\ chunk # <<>> /\ Whole(RequestSize(kind))
    /\ answer' \in Answers(kind)
    /\ chunk' = Behind(chunk, RequestSize(kind))
    /\ offset' = 0 /\ bytesLen' = ReplySize(answer')
    /\ spc' = "send"
    /\ UNCHANGED <<client, wires, conn, clientUp, serverUp>>

(* ... and on a part of one: "recv error", exit(1). *)
ShortRequest ==
    /\ serverUp /\ spc = "recv" /\ chunk # <<>> /\ ~Whole(RequestSize(kind))
    /\ serverUp' = FALSE
    /\ UNCHANGED <<client, server, wires, conn, clientUp>>

(* sendMessage: nsent is unsigned, and so is the -1 of a failed send.      *)
Left(n)    == (bytesLen + Word - n) % Word
AllSent(n) == (offset + n) % Word = ReplySize(answer)
Sent(n) ==
    /\ offset' = (offset + n) % Word
    /\ bytesLen' = Left(n)
    /\ spc' = IF ~AllSent(n) THEN "send" ELSE IF answer = "server" THEN "tick" ELSE "recv"
    /\ UNCHANGED <<client, chunk, answer, toServer, clientUp>>

Slice(n) == SubSeq(Reply, offset + 1, offset + n)
Send ==
    /\ serverUp /\ spc = "send" /\ conn \in {"open", "fin"}
    /\ \E n \in 1..bytesLen : Sent(n) /\ toClient' = toClient \o Slice(n)
    /\ conn' \in (IF conn = "fin" THEN {"fin", "reset"} ELSE {"open"})
    /\ UNCHANGED serverUp

SendFails ==
    /\ serverUp /\ spc = "send" /\ conn = "reset"
    /\ Sent(Word - 1)
    /\ conn' = "shut"
    /\ UNCHANGED <<toClient, serverUp>>

SigPipe ==
    /\ serverUp /\ spc = "send" /\ conn \in {"reset", "shut"}
    /\ serverUp' = FALSE
    /\ UNCHANGED <<client, server, wires, conn, clientUp>>

(* sendTimeTicks, during which nothing is received. *)
TicksOver ==
    /\ serverUp /\ spc = "tick"
    /\ spc' = "recv"
    /\ UNCHANGED <<client, chunk, answer, offset, bytesLen, wires, conn, clientUp, serverUp>>

ServerExit == serverUp /\ serverUp' = FALSE
              /\ UNCHANGED <<client, server, wires, conn, clientUp>>

-----------------------------------------------------------------------------
ClientThread == writen \/ readn \/ ServerGone
ServerThread == \/ Recv \/ RecvEnd \/ messageProcess \/ ShortRequest
                \/ Send \/ SendFails \/ SigPipe \/ TicksOver
Next == ClientThread \/ ServerThread \/ (\E k \in Kind : Ask(k)) \/ ClientExit \/ ServerExit
Spec == Init /\ [][Next]_vars
FairSpec == Spec /\ WF_vars(ClientThread) /\ WF_vars(ServerThread)

-----------------------------------------------------------------------------
Names == Kind \cup UNION {Answers(k) : k \in Kind}
Words == [of : Nat \X Names, part : Nat]

(* Every variable holds a value of its type. *)
TypeOK ==
    /\ cpc \in {"idle", "write", "read"} /\ asked \in 0..MaxRequests
    /\ kind \in Kind /\ answer \in UNION {Answers(k) : k \in Kind}
    /\ \A w \in {out, got, toServer, toClient, chunk} : w \in Seq(Words)
    /\ conn \in {"open", "fin", "reset", "shut"}
    /\ spc \in {"recv", "send", "tick", "returned"}
    /\ offset \in 0..(Word - 1) /\ bytesLen \in 0..(Word - 1)
    /\ clientUp \in BOOLEAN /\ serverUp \in BOOLEAN

(* While the client is there, offset counts what has been sent and         *)
(* bytesLen what is left ("already sent", "the left bytes for send"), and  *)
(* what the client has read and what is under way to it are the reply to   *)
(* the request it is waiting on, from its first byte, in order.            *)
SentIsOffset ==
    clientUp =>
        /\ spc = "send" => /\ offset + bytesLen = ReplySize(answer)
                           /\ got \o toClient = SubSeq(Reply, 1, offset)
        /\ spc = "tick" /\ cpc = "read" /\ out = <<>> /\ toServer = <<>> =>
              got \o toClient = Reply

(* The bytes implement the two slots: the request's is full from the first *)
(* write until the server handles it, the reply's from then until readn    *)
(* has all of it.                                                          *)
Handled == out = <<>> /\ toServer = <<>> /\ chunk = <<>>
Slots == INSTANCE RequestReply WITH
    request <- IF cpc # "idle" /\ ~Handled THEN kind ELSE None,
    reply   <- IF cpc = "read" /\ Handled THEN answer ELSE None
SlotsImplemented == Slots!Spec

(* A request is answered, or the process that waits for it ends: a server  *)
(* that is gone, or ends on a short request, leaves no client waiting.     *)
Answered == cpc \in {"write", "read"} ~> cpc = "idle" \/ ~clientUp

(* When the client's process has ended the server's thread does not go on  *)
(* for ever, not even in the middle of a reply, where a failed send is     *)
(* taken for 2^32-1 bytes sent: the thread returns or the server ends.     *)
ThreadEnds == ~clientUp ~> spc = "returned" \/ ~serverUp
=============================================================================
