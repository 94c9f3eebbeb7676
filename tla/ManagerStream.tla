---------------------------- MODULE ManagerStream ----------------------------
(***************************************************************************)
(* The manager connections word by word.  SegmentDelivery takes what a     *)
(* client sends to the server's manager thread for a queue of messages;    *)
(* the code has a stream of bytes: writen puts a message into the socket   *)
(* in as many pieces as the socket has room for, several threads write to  *)
(* one socket, recv returns any part of what has been written, and         *)
(* messageProcess finds the next message by the sizes of C structs.        *)
(*                                                                         *)
(* All numbers on the wire are 4-byte words.  A word is the message it was *)
(* sent in and its place there: the code sees the number at that place     *)
(* only (Val), the properties also where a message begins and ends.        *)
(* The clients are threads of one process, which may end and be started    *)
(* again; each run of it opens new connections, while the directory and    *)
(* what the old connections still hold stay.                               *)
(***************************************************************************)
EXTENDS Naturals, Sequences

CONSTANTS
    Client,      \* numbers of the clients
    File,        \* numbers of the videos
    RequestList, \* the request lists considered: a video for each client
    Seg,         \* numbers of the segments they buffer
    Band,        \* bands a heartbeat may report
    blockSize,   \* the length of a block, 10 in the code
    SockWords,   \* bound: words a connection's socket buffers hold
    MaxMessages, \* bound: messages of each client's connection, by client
    MaxRuns      \* bound: runs of the client process

REQUESTRESOURCE == 0
REQUESTSEGMENT == 1
REQUESTSEGMENTAGAIN == 2
HEARTBEAT == 3
BLOCKADD == 4
BLOCKELIMINATE == 5
CLIENTQUIT == 6
MessageType == 0..6

ASSUME StreamAssumption ==
    /\ Client \subseteq Nat /\ File \subseteq Nat /\ Seg \subseteq Nat
    /\ RequestList \subseteq [Client -> File]
    /\ Band \subseteq Nat /\ blockSize \in Nat \ MessageType
    /\ SockWords \in Nat \ {0} /\ MaxRuns \in Nat \ {0}
    /\ MaxMessages \in [Client -> Nat]

Run    == 1..MaxRuns
Conn   == Client \X Run
Writer == {"owner", "peer"}   \* the client's thread; a peer's, for heartbeats
NoConn == <<>>

VARIABLES
    requestFile,   \* the video of each client (the request list outlives a run)
    isP2pOpen,     \* the server's mode
    run, clientUp, \* the client process: its run, and whether it is running
    held,          \* the segments in each client's buffer
    out,           \* per client and writer: words writen has still to write
    messages,      \* messages begun on each client's connection (bounded)
    sock,          \* written and not yet received, per connection
    open,          \* connections the server has not closed
    from, chunk,   \* the manager thread: connection and rest of the last recv
    quit,          \* CLIENTQUITs of this chunk, each with a close still to come
    client_info,   \* availableBand of the registered clients
    ivod_seg_t,    \* rows <<client, video, segment>>
    serverUp,
    (* history, read by the properties only *)
    ever,          \* segments a client has held in any run
    torn,          \* connections on which a recv was not whole messages
    misread,       \* connections of which a word inside a message was taken for a type
    mixed,         \* connections on which a write began inside another's message
    newest,        \* the newest run of each client the manager thread has heard
    overtaken      \* clients heard from an old connection after a newer one

connection == <<sock, open>>
reading    == <<from, chunk, quit>>
directory  == <<client_info, ivod_seg_t>>
history    == <<ever, torn, misread, mixed, newest, overtaken>>
client     == <<run, clientUp, held, out, messages>>
setting    == <<requestFile, isP2pOpen>>
vars == <<setting, client, connection, reading, directory, serverUp, history>>

-----------------------------------------------------------------------------
(* Faults.  No action uses these: each is a plausible bug in the operator  *)
(* named beside it, put in its place to see which property notices.        *)
RoomAfter(q)      == SockWords - Len(sock[q]) + 1                              \* Room
SizeOfPadded(t)   == CASE t \in {HEARTBEAT, CLIENTQUIT} -> 4 [] OTHER -> 5     \* Size
UpdateSwapped(t, c, s)  ==                                                     \* Update
    [i \in 1..5 |-> [msg |-> <<t, c, s, requestFile[c], blockSize>>, at |-> i]]
UpdateEveryone(n, b)    == [d \in DOMAIN client_info |-> b]                    \* updateP2pClient
DropUnread(q, n)        == [sock EXCEPT ![q] = <<>>]                           \* Taken

-----------------------------------------------------------------------------
Word(m)  == [i \in 1..Len(m) |-> [msg |-> m, at |-> i]]
Val(x)   == x.msg[x.at]
First(x) == x.at = 1
Last(x)  == x.at = Len(x.msg)
Beat(c, b)      == Word(<<HEARTBEAT, c, b>>)
Update(t, c, s) == Word(<<t, c, requestFile[c], s, blockSize>>)

(* Whole messages one behind the other, none inside another. *)
Framed(w) ==
    /\ First(w[1]) /\ Last(w[Len(w)])
    /\ \A i \in 1..(Len(w) - 1) : Last(w[i]) <=> First(w[i + 1])

(* In words: the size messageProcess asks of a message of type t before it *)
(* reads it, and how far behind it the next one is looked for.             *)
Size(t) == CASE t = REQUESTRESOURCE -> 4
             [] t \in {HEARTBEAT, CLIENTQUIT} -> 3
             [] OTHER -> 5
Stride(t) == CASE t = REQUESTRESOURCE -> 4
               [] t = CLIENTQUIT -> 3
               [] OTHER -> 5      \* HEARTBEAT too: sizeof(VodSegReq)

Init ==
    /\ requestFile \in RequestList
    /\ isP2pOpen \in BOOLEAN
    /\ run = 1 /\ clientUp = TRUE
    /\ held = [c \in Client |-> {}]
    /\ out = [c \in Client |-> [w \in Writer |-> <<>>]]
    /\ messages = [c \in Client |-> 0]
    /\ sock = [q \in Conn |-> <<>>]
    /\ open = Client \X {1}
    /\ from = NoConn /\ chunk = <<>> /\ quit = 0
    /\ client_info = IF isP2pOpen THEN [c \in Client |-> 0] ELSE [c \in {} |-> 0]
    /\ ivod_seg_t = {}
    /\ serverUp = TRUE
    /\ ever = held /\ torn = {} /\ misread = {} /\ mixed = {}
    /\ newest = [c \in Client |-> 0] /\ overtaken = {}

-----------------------------------------------------------------------------
(* The client process. *)
Begin(c, w, m) ==
    /\ clientUp /\ out[c][w] = <<>> /\ messages[c] < MaxMessages[c]
    /\ out' = [out EXCEPT ![c][w] = m]
    /\ messages' = [messages EXCEPT ![c] = @ + 1]
    /\ UNCHANGED <<setting, run, clientUp, connection, reading, directory, serverUp,
                   torn, misread, mixed, newest, overtaken>>

(* A peer's thread, while it reads from c's buffer (peers' mode only). *)
sendCurrentLoad(c) ==
    /\ isP2pOpen
    /\ \E b \in Band : Begin(c, "peer", Beat(c, b))
    /\ UNCHANGED <<held, ever>>

sendAddedBlock(c) ==
    \E s \in Seg \ held[c] :
        /\ Begin(c, "owner", Update(BLOCKADD, c, s))
        /\ held' = [held EXCEPT ![c] = @ \cup {s}]
        /\ ever' = [ever EXCEPT ![c] = @ \cup {s}]

sendEliminateBlock(c) ==
    \E s \in held[c] :
        /\ Begin(c, "owner", Update(BLOCKELIMINATE, c, s))
        /\ held' = [held EXCEPT ![c] = @ \ {s}]
        /\ UNCHANGED ever

(* One write of writen: as much as the socket has room for.  A write that  *)
(* must wait lets the other writer of the connection in.                   *)
Room(q) == SockWords - Len(sock[q])
Cut(c, w) == out[c][w] # <<>> /\ ~First(out[c][w][1])
writen(c, w) ==
    LET q == <<c, run>>
        n == IF Len(out[c][w]) < Room(q) THEN Len(out[c][w]) ELSE Room(q)
    IN /\ clientUp /\ out[c][w] # <<>> /\ q \in open /\ n > 0
       /\ sock' = [sock EXCEPT ![q] = @ \o SubSeq(out[c][w], 1, n)]
       /\ out' = [out EXCEPT ![c][w] = SubSeq(@, n + 1, Len(@))]
       /\ mixed' = IF \E v \in Writer \ {w} : Cut(c, v) THEN mixed \cup {q} ELSE mixed
       /\ UNCHANGED <<setting, run, clientUp, held, messages, open, reading, directory,
                      serverUp, ever, torn, misread, newest, overtaken>>

(* A write to a connection the server has closed ends the client process,  *)
(* as does any other of its exit(1)s.                                      *)
ClientExit ==
    /\ clientUp
    /\ clientUp' = FALSE
    /\ held' = [c \in Client |-> {}]
    /\ out' = [c \in Client |-> [w \in Writer |-> <<>>]]
    /\ UNCHANGED <<setting, run, messages, connection, reading, directory, serverUp,
                   history>>

(* A new process: empty buffers, new connections.  Registering fails on    *)
(* the primary key, so the directory's rows stay as they are.              *)
Restart ==
    /\ ~clientUp /\ serverUp /\ run < MaxRuns
    /\ run' = run + 1 /\ clientUp' = TRUE
    /\ open' = open \cup (Client \X {run + 1})
    /\ UNCHANGED <<setting, held, out, messages, sock, reading, directory, serverUp, history>>

-----------------------------------------------------------------------------
(* The manager thread: readPacket, then messageProcess on what it got. *)
Taken(q, n) == [sock EXCEPT ![q] = SubSeq(@, n + 1, Len(@))]
Idle == serverUp /\ chunk = <<>> /\ quit = 0

Recv(q) ==
    /\ Idle /\ q \in open
    /\ \E n \in 1..Len(sock[q]) :
          LET w == SubSeq(sock[q], 1, n)
          IN /\ chunk' = w
             /\ torn' = IF Framed(w) THEN torn ELSE torn \cup {q}
             /\ sock' = Taken(q, n)
    /\ from' = q
    /\ newest' = [newest EXCEPT ![q[1]] = IF q[2] > @ THEN q[2] ELSE @]
    /\ overtaken' = IF q[2] < newest[q[1]] THEN overtaken \cup {q[1]} ELSE overtaken
    /\ UNCHANGED <<setting, client, open, quit, directory, serverUp, ever, misread, mixed>>

(* recv returns 0: the client has gone and everything it wrote was read. *)
RecvEnd(q) ==
    /\ Idle /\ q \in open /\ sock[q] = <<>>
    /\ q[2] < run \/ ~clientUp
    /\ open' = open \ {q}
    /\ UNCHANGED <<setting, client, sock, reading, directory, serverUp, history>>

Type == Val(chunk[1])
Arg(i) == Val(chunk[i])
Reads(types) ==
    /\ serverUp /\ chunk # <<>> /\ Type \in types
    /\ misread' = IF First(chunk[1]) THEN misread ELSE misread \cup {from}
    /\ UNCHANGED <<setting, client, connection, from, ever, torn, mixed, newest, overtaken>>
Whole == Len(chunk) >= Size(Type)
Rest  == SubSeq(chunk, Stride(Type) + 1, Len(chunk))

updateP2pClient(n, b) ==
    IF n \in DOMAIN client_info THEN [client_info EXCEPT ![n] = b] ELSE client_info
insertP2pClient(n, b) ==
    IF n \in DOMAIN client_info THEN client_info
    ELSE [m \in DOMAIN client_info \cup {n} |-> IF m = n THEN b ELSE client_info[m]]

HandleHeartbeat ==
    /\ Reads({HEARTBEAT}) /\ Whole
    /\ client_info' = updateP2pClient(Arg(2), Arg(3))
    /\ chunk' = Rest
    /\ UNCHANGED <<quit, ivod_seg_t, serverUp>>

HandleUpdate ==
    /\ Reads({BLOCKADD, BLOCKELIMINATE}) /\ isP2pOpen /\ Whole
    /\ LET row == <<Arg(2), Arg(3), Arg(4)>>
       IN ivod_seg_t' = IF Type = BLOCKADD THEN ivod_seg_t \cup {row}
                                           ELSE ivod_seg_t \ {row}
    /\ chunk' = Rest
    /\ UNCHANGED <<quit, client_info, serverUp>>

(* Without peers an update is not looked at, nor what follows it. *)
IgnoreUpdate ==
    /\ Reads({BLOCKADD, BLOCKELIMINATE}) /\ ~isP2pOpen
    /\ chunk' = <<>>
    /\ UNCHANGED <<quit, directory, serverUp>>

(* deleteClient names a column the table has not: no row goes.  The close  *)
(* comes when the rest of the chunk has been handled.                      *)
HandleQuit ==
    /\ Reads({CLIENTQUIT}) /\ Whole
    /\ chunk' = Rest
    /\ quit' = quit + 1
    /\ UNCHANGED <<directory, serverUp>>

CloseQuit ==
    /\ serverUp /\ chunk = <<>> /\ quit > 0
    /\ open' = open \ {from}
    /\ quit' = 0
    /\ UNCHANGED <<setting, client, sock, from, chunk, directory, serverUp, history>>

(* Requests never come on this connection, but words may look like one:    *)
(* the manager thread then registers, replies and holds the server's band, *)
(* or ends the server on too much load.                                    *)
HandleResource ==
    /\ Reads({REQUESTRESOURCE}) /\ Whole
    /\ client_info' = IF isP2pOpen THEN insertP2pClient(Arg(2), Arg(4)) ELSE client_info
    /\ chunk' = Rest
    /\ UNCHANGED <<quit, ivod_seg_t, serverUp>>
HandleSegment ==
    /\ Reads({REQUESTSEGMENT, REQUESTSEGMENTAGAIN}) /\ Whole
    /\ serverUp' \in (IF Arg(5) = 0 THEN {TRUE} ELSE BOOLEAN)
    /\ chunk' = Rest
    /\ UNCHANGED <<quit, directory>>

(* "recv error": the chunk ends before the message does, exit(1). *)
HandleShort ==
    /\ Reads(MessageType) /\ ~Whole
    /\ isP2pOpen \/ Type \notin {BLOCKADD, BLOCKELIMINATE}
    /\ serverUp' = FALSE
    /\ UNCHANGED <<chunk, quit, directory>>

WrongMessage ==
    /\ serverUp /\ chunk # <<>> /\ Type \notin MessageType
    /\ misread' = IF First(chunk[1]) THEN misread ELSE misread \cup {from}
    /\ chunk' = <<>>
    /\ UNCHANGED <<setting, client, connection, from, quit, directory, serverUp, ever,
                   torn, mixed, newest, overtaken>>

-----------------------------------------------------------------------------
messageProcess == \/ HandleHeartbeat \/ HandleUpdate \/ IgnoreUpdate \/ HandleQuit
                  \/ HandleResource \/ HandleSegment \/ HandleShort \/ WrongMessage
                  \/ CloseQuit
ManagerThread == messageProcess \/ \E q \in Conn : Recv(q) \/ RecvEnd(q)
ClientProcess ==
    \/ ClientExit \/ Restart
    \/ \E c \in Client : \/ sendCurrentLoad(c) \/ sendAddedBlock(c) \/ sendEliminateBlock(c)
                         \/ \E w \in Writer : writen(c, w)
Next == ManagerThread \/ ClientProcess
Spec == Init /\ [][Next]_vars

-----------------------------------------------------------------------------
WordType == {x \in [msg : Seq(Nat), at : Nat] : x.at \in 1..Len(x.msg)}

(* Every variable holds a value of its type. *)
TypeOK ==
    /\ requestFile \in RequestList /\ isP2pOpen \in BOOLEAN
    /\ run \in Run /\ clientUp \in BOOLEAN /\ serverUp \in BOOLEAN
    /\ held \in [Client -> SUBSET Seg] /\ ever \in [Client -> SUBSET Seg]
    /\ out \in [Client -> [Writer -> Seq(WordType)]]
    /\ messages \in [Client -> Nat]
    /\ sock \in [Conn -> Seq(WordType)]
    /\ \A q \in Conn : Len(sock[q]) <= SockWords
    /\ open \subseteq Conn /\ from \in Conn \cup {NoConn}
    /\ chunk \in Seq(WordType) /\ quit \in Nat
    /\ DOMAIN client_info \subseteq Nat /\ \A n \in DOMAIN client_info : client_info[n] \in Nat
    /\ ivod_seg_t \subseteq Nat \X Nat \X Nat
    /\ torn \subseteq Conn /\ misread \subseteq Conn /\ mixed \subseteq Conn
    /\ newest \in [Client -> Nat] /\ overtaken \subseteq Client

Clean(c) == misread = {} /\ mixed = {} /\ \A r \in Run : <<c, r>> \notin torn
Quiet(c) == /\ chunk = <<>> /\ quit = 0
            /\ \A w \in Writer : out[c][w] = <<>>
            /\ \A r \in Run : sock[<<c, r>>] = <<>>
Listed(c) == {s \in Seg : <<c, requestFile[c], s>> \in ivod_seg_t}

(* The stream is as good as a queue of messages while every recv from the  *)
(* client returned whole messages and no connection was misread or its     *)
(* messages mixed: when all that was sent has been handled, the directory  *)
(* lists what the client holds.  After a restart it may list more, what    *)
(* the earlier run held; it lists less only if a message of the old        *)
(* connection was read when the new one was already in use.                *)
NothingLost ==
    \A c \in Client :
        isP2pOpen /\ clientUp /\ serverUp /\ Quiet(c) /\ Clean(c) =>
            /\ run = 1 => Listed(c) = held[c]
            /\ c \notin overtaken => held[c] \subseteq Listed(c)
            /\ Listed(c) \subseteq ever[c]

(* A row of the directory is never an invention: it names a client, its    *)
(* video and a segment it has held, unless some connection was misread     *)
(* from the middle of a message, or two writers' messages mixed on it.     *)
RowsWereTrue ==
    misread = {} /\ mixed = {} => \A row \in ivod_seg_t :
        /\ row[1] \in Client
        /\ row[2] = requestFile[row[1]] /\ row[3] \in ever[row[1]]

(* What SegmentDelivery assumes: a client whose video has a number above   *)
(* the message types, and whose bands are above them, can neither end the  *)
(* server nor have its connection closed by it, however its messages fall  *)
(* together - as long as no message is cut in two.                         *)
LargeNumbers(c) == requestFile[c] \notin MessageType /\ Band \cap MessageType = {}
SafeConnection ==
    from # NoConn /\ LargeNumbers(from[1]) /\ from \notin torn => serverUp /\ quit = 0

(* No message handled changes the directory of another client than the one *)
(* whose connection it came from, unless that connection was misread or    *)
(* the messages of its two writers mixed - cut or not.                     *)
RowsOf(n) == {row \in ivod_seg_t : row[1] = n}
OwnRowsOnly ==
    [][\A c \in Client :
          from # NoConn /\ from[1] # c /\ from \notin mixed \cup misread'
          => RowsOf(c)' = RowsOf(c)
             /\ (c \in DOMAIN client_info => client_info'[c] = client_info[c])]_vars
=============================================================================
