# vodserver in TLA+

`vodserver` simulates peer-assisted video on demand. One server process keeps
a directory of who buffers which segment in MySQL; one client process runs many
client threads, each of which plays a video segment by segment. A segment comes
from the client's own buffer, from a peer the server names, or from the server.
No video data is sent: a transfer is a sleep during which bandwidth is leased.

## 1. Inventory

| Component | Code | State | Operations | Hard behaviour |
|---|---|---|---|---|
| Client fetch path | `client.cpp` | position, `availableBand`, block counters | `Run`, `playSegment`, `requestFileSegments`, `receiveRequest`, `sendCurrentLoad`, `send{Added,Eliminate}Block` | a peer's code runs in the requester's thread; band of one client changed by many; told-after-done updates; `exit(1)` on every failure |
| Request handling | `server.cpp` `receiveMessage`, `messageProcess`, `sendTimeTicks` | server bandwidth, load, counters | REQUESTRESOURCE, REQUESTSEGMENT, REQUESTSEGMENTAGAIN | reply first, bookkeeping after; stale directory |
| Client connection | `server.cpp` `receiveMessage`, `sendMessage`, `lib/sock.cpp` `writen`, `readn` | offset and bytes left | send, receive in parts | partial writes, the other process ending, `SIGPIPE` |
| Manager thread | `server.cpp` `startClientManager`, `readPacket`, `messageProcess` | one chunk of up to 1024 bytes | HEARTBEAT, BLOCKADD, BLOCKELIMINATE, CLIENTQUIT | messages framed by fixed lengths; one wrong length; two writers on a socket; restarts |
| Directory | `MYSQLPool.cpp` 218-560, `script/db.sql` | `client_info`, `ivod_seg_t` | register, update band, insert, delete, best holder | statements of many threads |
| Connection pool | `MYSQLPool.cpp` 1-216 | idle queue, count of connections | `getConnection`, `releaseConnection`, `keepPoolAlive` | condition variable, limit, keep-alive |
| Replacement strategies | `bufManagerBy{LRU,LFU,LRFU,LFRU,DW}.cpp` | list of blocks with weights | write, read, have, eliminate, add, reset | lock released and taken again; double unlock; victim choice |
| Playback life circle | `client.cpp` 329-515 | status, segment cursor | play, pause, jump | unsigned arithmetic, probabilities |
| Alarm clock | `clientManager.cpp` 38-50, 138-168 | list of alarms | add, remove, tick | unlocked check, callback under a lock |
| Statistics | `server.cpp` 88-234, `clientManager.cpp` 52-136 | counters, load and its record, block counters | count, print | counters read one by one; counting starts late |
| Request generation, configuration, test tools | `clientManager.cpp` 170-290, `config.cpp`, `test/` | none shared | | none |

What makes each right:

* *delivery*: a client fetches only what it lacks, gets it exactly once from
  somebody who has it, holds it afterwards, and is credited once; every request
  is answered in the end;
* *directory*: it follows the buffers, through any delay of the updates;
* *books*: bandwidth available is bandwidth less running leases; the two
  processes' counters agree;
* *pool*: a connection has one user, the count is exact, the limit holds, and a
  waiting thread is served;
* *strategies*: the victim is a buffered block and is the block the server is
  told of; the list is only touched under its mutex;
* *playback*: the cursor stays inside the video;
* *alarm*: each reset comes once per period;
* *connections*: a request gets its own reply, whole, whatever the parts it is
  sent in; the manager's stream is as good as a queue of messages while no
  message is cut or misread; a process that ends leaves nobody waiting;
* *statistics*: what is printed together is in order although it was read apart.

The full list of hazards, each at its line, is in `PROJECT.json`.

## 2. Modules

| Module | What it is |
|---|---|
| `SegmentService` | abstract: what the delivery of segments promises |
| `SegmentDelivery` | the client threads, the server's connection threads, its manager thread, and what they share |
| `SegmentAccounting` | band ledger, counters, liveness and directory properties of `SegmentDelivery` |
| `MCSegmentDelivery` | its instances for TLC |
| `SegmentDeliveryProofs` | types, inductive invariant, the safety theorems; `SegmentDelivery` implements `SegmentService`; sums over the clients, the band ledger, the agreement of the counters, and that a process ends only for want of band that running transfers hold |
| `RequestReply` | abstract: a slot for a request and a slot for its reply |
| `Exchange` | one client's connection word by word: `writen`, `readn`, `receiveMessage`, `sendMessage` |
| `ExchangeProofs` | types, inductive invariant; `Exchange` implements `RequestReply` |
| `ManagerStream`, `MCManagerStream` | the manager connections word by word, with restarts of the client process; its instance |
| `ManagerStreamProofs` | inductive invariant; all properties of `ManagerStream` |
| `Statistics`, `MCStatistics` | the counters of both processes and the two threads that print them; its instance |
| `StatisticsProofs` | inductive invariant; all properties of `Statistics` |
| `ConnectionPool` | abstract: a semaphore |
| `MysqlPool` | the connection pool |
| `MysqlPoolProofs` | inductive invariant, safety theorems, `MysqlPool` implements `ConnectionPool` |
| `Playback`, `MCPlayback` | where a client is in its video: statuses, jumps, cursor; its instances |
| `PlaybackProofs` | the cursor leaves the video only after a length that overflows or is played in a part of a block |
| `Buffer` | abstract: a buffer of so many blocks and what the server was told of it |
| `BlockBuffer`, `MCBlockBuffer` | LRU, LFU, DW and LFRU with their mutex, readers and alarm; its instances |
| `BlockBufferProofs` | inductive invariant; the four strategies implement `Buffer`; what the mutex excludes, what LRU and DW spare, and when no victim is found |
| `AlarmClock` | registration of the periodic resets and the threads that count them down |
| `AlarmClockProofs` | inductive invariant; no count is skipped, no reset early but for the two races |

`SegmentDelivery` leaves two choices open that other modules settle: which
segment a client wants next (`Playback`) and which block a full buffer gives up
(`BlockBuffer`). Whatever they choose, the properties of the delivery hold. It
takes the connections for slots and queues of messages; `Exchange` shows that a
client's own connection implements the slots (`RequestReply`), and
`ManagerStream` says when a manager connection is as good as a queue.

### SegmentDelivery and the code

A client thread is at a label `pc[c]`; an action runs from one access to state
that another actor uses (a critical section, a socket operation, an SQL
statement) up to the next. Increments of the counters that only statistics read
ride on the neighbouring access.

| Action | Code |
|---|---|
| `Run`, `ReceiveInfo` | `Client::Run`: REQUESTRESOURCE and its reply |
| `WantSegment` | one round of `playSegment`: own buffer, or REQUESTSEGMENT |
| `ReceiveServerReply`, `ReceivePeerReply` | `requestFileSegments` on the reply, with the lease and its `exit(1)` |
| `AskPeer`, `LeasePeer` | `receiveRequest` on the peer's object: look, lease |
| `ReadBand`, `SendCurrentLoad` | the two heartbeats of `sendTimeTicks`, value read and value sent apart |
| `ReleasePeer` | `receiveRequest` returns the peer's band |
| `MakeRoom`, `SendEliminateBlock`, `AddBlock`, `SendAddedBlock` | `writeFileSegment`, `eliminateBlock`, `addBlock` of the buffer, with any block as victim |
| `WriteAgain`, `FinishFromPeer`, `FinishFromServer` | the end of `requestFileSegments`; a peer's block is written twice, as in the code |
| `ServerGone` | a read of 0 bytes or a failing write, `exit(1)` |
| `HandleResource`, `HandleSegment`, `HandleAgain` | the cases of `messageProcess` on a client connection |
| `StartTicks`, `EndTicks` | `sendTimeTicks` of the server, after the reply |
| `HandleManager` | one message of a chunk the manager thread received, with the heartbeat's wrong length |

All clients are threads of one process, so `clientUp` is one flag: `exit(1)` in
any of them ends all. The server's `serverUp` likewise.

Abstractions. Video data and lengths are left out; a segment is a pair of
numbers. TCP keeps each connection's bytes in order, so `request`, `reply` and
`managerSock` are the messages under way. A chunk is a prefix of the messages
waiting; it is cut at message boundaries, which is exact while less than 1024
bytes wait (`MaxQueue` messages of at most 20 bytes) and the writers of a socket
do not mix; `ManagerStream` drops both assumptions. Behind a heartbeat the
handler reads the band or the video's number of the next message as its type
(`WordRead`). Above 6 it is a "wrong message" and is dropped with the rest of
the chunk. At most 6, as the most requested videos of a Zipf list are, it is a
type: bytes of two messages are handled as one, or the server exits. Then
`derailed` is set and the behaviour ends, so every property of the delivery
speaks of what happens up to that moment; `ManagerStream`, which has the words
of the messages, follows such a chunk to its end. Bands are
doubles in the code; rates and bands are integers here, for which sums are
exact. The bit rate the server's ticks use is that of the video whose number is
the *client's* number, as the code has it (server.cpp:474).

`BlockNum = 1` in the instances is a buffer of one block, which LRU, LFU, LRFU
and (but for the crash `BlockBuffer` has) LFRU handle; DW needs four. The proofs
are for every size.

### Exchange and the code

| Action | Code |
|---|---|
| `Ask` | `Run` and `requestFileSegments` prepare a request |
| `writen`, `readn` | one round of the loops in `lib/sock.cpp`, moving any part |
| `ClientExit`, `ServerExit` | `exit(1)` in another thread of the process |
| `ServerGone` | `readn` short of its count, a failing read or write, `SIGPIPE` |
| `Recv`, `RecvEnd` | `recv` in `receiveMessage`: any part of what waits, or the end |
| `messageProcess`, `ShortRequest` | a whole request, answered with any reply to it; a part of one, `exit(1)` |
| `Send` | one round of `sendMessage`, moving any part |
| `SendFails`, `SigPipe` | a `send` on a connection that is reset, then on one whose error was told |
| `TicksOver` | the end of `sendTimeTicks`, during which nothing is received |

`nsent` is unsigned in `sendMessage`, so a failed send counts as 2^32-1 bytes
sent: `offset` goes one back and `bytesLen` one up. Nothing handles `SIGPIPE`,
so the next send ends the server; `ThreadEnds` is what remains true. A partial
request ends the server, which a `recv` that splits one causes; so the
refinement lets either process end at any time. A word stands for 4 bytes and
carries, for the properties, which request it belongs to and its place.

### ManagerStream and the code

| Action | Code |
|---|---|
| `sendCurrentLoad`, `sendAddedBlock`, `sendEliminateBlock` | the message is built; the buffer has changed |
| `writen` | one write: whole if there is room, else what there is room for |
| `ClientExit`, `Restart` | the process ends; `Run` opens new connections, and registering fails on the primary key |
| `Recv`, `RecvEnd` | `readPacket` on a connection `epoll_wait` reports |
| `HandleHeartbeat` ... `WrongMessage` | the cases of `messageProcess` on the words of a chunk |
| `CloseQuit` | the descriptor closed by CLIENTQUIT, after the chunk |

`Size` is what a case asks of the chunk before it reads, `Stride` how far it
steps: they differ for HEARTBEAT, 3 words long and stepped over as 5. A `Recv`
of any prefix covers the cut at 1024 bytes without 1024 bytes in the model.
A word is the message it was sent in and its place there: the code's tests see
the number at that place (`Val`), the properties also where messages begin and
end. `torn`, `misread` and `mixed` record when the framing was lost: a recv that
was not whole messages, a word inside a message taken for a type, a write begun
inside another's message. The two writers of a socket are the client's thread
(updates) and a peer's thread (heartbeats); a write is cut, and the other one let
in, only when the socket is full. Two messages that mix can look like a third,
with any client's number in it, to a recv that starts at a message and steps by
the right lengths; so `RowsWereTrue`, `NothingLost` and `OwnRowsOnly` all except
mixed connections. Nothing in the code excludes them, only the size of the
socket buffers makes them rare.
A video number or a band of at most 6 is a message type when the code
reads it as one: `RequestList` has every such number, and `LargeNumbers` is the
case in which `SegmentDelivery` never derails.

### Statistics and the code

The delivery is reduced to its counters, in the order the code changes them:
`ClientRequestSegment`, `Provide`, `NamePeer`, `IncreaseCurrentLoad` and
`DecreaseCurrentLoad` are `messageProcess` and `sendTimeTicks`; `Play` to
`IncreaseBlockFromClient` are `playSegment` and `requestFileSegments`. A
statistics thread is one action per counter it reads, since each read is a
critical section of its own. A behaviour follows one of the two threads
(`followed`): they write nothing that another thread reads. `startRecord` is set
and read without the mutex. `startedStatistical` is set after the threads that
serve clients exist, so requests may come before (`early`); `SegmentDelivery`
starts after it. Without peers `getMinLoad` and `getMaxLoad` are operands of one
statement and are read in either order. Rates are fractions, compared by
cross-multiplication. `ratesSeen` is a history variable.

### MysqlPool and the code

Each critical section of the pool's mutex is one action: `GetConnection` and
`Resume` both run the body of `getConnection` (`Obtain`: wait, take, open, or be
refused by the database), `ReleaseConnection` signals one waiter,
`KeepPoolAlive` closes what exceeds the minimum, `SpuriousWakeup` is allowed by
POSIX. A refused connection is a NULL that the caller uses: `up` becomes FALSE.

### Playback and the code

One action per `case` of `clientLifeCircle`, `PlayBlock` per round of
`playSegment`, `EndPlay` for its return and `getNextStatus`. Lengths are
unsigned and wrap at `Word`. `Drawn` is the set of entries some draw can take:
the entries are sorted by probability, equal ones in any order (`compare` is not
a strict order), and taken when the running sum reaches the draw; `NoneDrawn`
when it never does, which leaves the status as it is. `odd` is a history
variable: a length whose end overflows unsigned int, which the clamp does not
see (`Overflows`), or one handed to `playSegment` that is no whole number of
blocks (`Partial`), has been used. The case of STOP inside
the loop is unreachable, so no CLIENTQUIT is sent.

### BlockBuffer and the code

| Action | Code |
|---|---|
| `Write`, `CheckFull` | `writeFileSegment` up to the size check; its lock is given up again |
| `ReadClock`, `Evict`, `TellEvicted` | `eliminateBlock`; only LFRU reads a clock, before it locks |
| `UnlockAgain` | the second unlock of LRU and LFU |
| `AddBlock`, `PushBack`, `TellAdded` | `addBlock`: `haveSegment`, insertion, message, in two critical sections |
| `ReadLock`, `ReadUnlock` | `readFileSegment`, split so that a thread can be found inside |
| `ResetClock`, `BlockReset` | `blockReset` of LFRU and DW, called by the alarm |
| `Tick` | time passes (LFRU) |

`Touched` and `Victim` say what a read does to the list and which block goes,
by strategy. DW with fewer than four blocks has no candidate, and LFRU finds no
weight above 0.0 when its clock stands where the alarm left it and no block has
been touched since (`VictimUnset`): the iterator dereferenced was never set.
`std::list`'s iterators are null until set in libstdc++, with which the makefile
builds, so the process ends (`crashed`). Two threads inside one list set `corrupt` and end the behaviour: a
data race on a `std::list` has no useful set of outcomes. `stolen` records that
a second unlock released the mutex under a reader. Sums of weights are
multiplied out, so no rounding is modelled. `recent` and `stolen` are history
variables.

### AlarmClock and the code

`Write` to `AddBlock` are the steps of a `writeFileSegment`, with `MakeRoom` for
the eviction from a full buffer (of which only the size matters here), `SetAlarm` to `PushAlarm` those of `addAlarmEvent`. The test of
`size()`, of `needTimeScheduleList`, and the write of `timeleft` are outside any
mutex and each an action. `ReadErase` and `ReadPush` are the two halves of a
peer's read of a DW buffer; an LFRU buffer never looks empty, which is the case
without them. `LockList` to `CallBack` are one pass of `checkAlarmEvent`, whose
decrement is a load and a store. `Second` is the clock.

## 3. Runs

| Run | Instance | Shows |
|---|---|---|
| `delivery_ample` | 2 clients on one video of 2 segments, buffers of 1 block, band for all transfers, 3+1 plays, 1.1M states | types, directory, fetching, buffer bound, ledger, counters, implements `SegmentService` |
| `delivery_tight` | band for one transfer each, video 0 (whose number is a message type), 2+2 plays, 451,000 states | the band ledger when leases fail and the processes end; they end for want of band only |
| `delivery_live` | 2+1 plays, fairness | every request is served; the directory converges |
| `directory_misread` | as `delivery_live` | **violation**: an update behind a heartbeat is lost (finding) |
| `pool` | 4 threads, 2 statements each, 2 connections, 1 kept | one owner, exact count, no lost wake-up, semaphore, waiters served |
| `playback` | a video of 10 blocks and a half, jumps of 0, 1, 1½, 5 and 25 blocks, the last of which overflows | until a length overflows or is played in a part: cursor in the video, only existing segments played, `playSegment` returns |
| `playback_part` | a video of 10 blocks, jumps of 0, 1, 1½ and 5 | **violation**: the length wraps and the cursor leaves the video (finding) |
| `buffer` | LRU, LFU, LFRU with 2 blocks, DW with 3 and 5; 4 to 6 writes, 3 to 5 reads, one reset, 1.2M states | two threads in a list only by the second unlock, what LRU and DW spare, no victim in two cases only, all implement `Buffer` |
| `alarm` | 2 clients with buffers of 2 blocks, 3 writes and 1 read in all, periods of 3 seconds, 841,000 states | no count passes zero, no reset is early but for the two races, resets never stop |
| `exchange` | 5 requests, messages of 3 to 6 words in any parts, fairness | parts arrive in order and whole, slots implemented, every request answered, no thread left behind |
| `stream` | 3+1 messages of two clients on 8 words of socket, every kind of video number, one restart, 8.6M states | types, nothing lost while the framing holds, rows true, the server survives large numbers, no row of another client changed |
| `statistics` | 2 clients, 2+1 plays, 2 samples of either thread, with and without peers, 4.1M states | provided within requested, load in its record, printed share does not wrap, best client named |

Bounds. Two clients are a requester and a peer, and each may be the other's
peer at once. With one block per buffer every second write evicts, so the stale
directory entry, the miss and REQUESTSEGMENTAGAIN, the client named as its own
peer, and the second write that evicts the block it is about to add all occur
within three plays. `MaxQueue = 2` is the least with which a heartbeat and an
update share a chunk; a full queue blocks the sender, as a full socket does.
`CHECK_DEADLOCK FALSE`: the clients stop after `MaxPlays` plays, and processes
exit. In `pool`, four threads on two connections make two wait while two work.
`delivery_tight` leases more than there is and derails: a heartbeat followed by
an update of video 0 in one recv, or by another heartbeat, whose band is 8.
In `playback` the probabilities add up to 9 of 10, so that a draw can miss
every entry; `Word = 128` is above every position in a video of 42, and jumps of
100 pass it from the seventh block on; the state space is finite
without a bound on the plays. In `buffer`, two blocks are the least with a
choice of victim; DW weighs two of five, and five reads and a reset reach both
its branches (an unread candidate, or the least weight), and none of three. One block more than
fits makes every strategy evict; `MaxTime = 2` lets the clock differ between
start, read and eviction. Blocks are symmetric. In `alarm`,
two clients are enough for two threads, one read during the second write for an
alarm listed twice, and both can happen in one behaviour; three seconds tell a
halved period from a whole one. In `buffer` there is one reader: with the mutex
held by one reader a second one only waits.

In `exchange` five requests are a resource, segments, and REQUESTSEGMENTAGAIN
after a peer was named; `Word = 16` is above every count of words and lets -1
wrap. In `stream` the client whose video has any number sends three messages, such
as a heartbeat between two updates or two heartbeats (the misstep needs one and
what follows it); 8 words hold a heartbeat and an update, so the third message
may be cut and the other writer's begin inside it; one restart is enough for a
message of the old connection to be read after one of the new. The second
client's one message gives it a row and a band that the first must not change.
In
`statistics` two samples let a rate stay from the one before; a request between
two reads, a request before counting starts, and a transfer on either side of
`startRecord` all occur with three plays.

Fairness (`Fairness`, `FairSpec`). Each client thread, each connection thread
and the manager thread's handling of each connection is weakly fair: a thread
waits only for a socket, a mutex held for a few instructions, or a sleep, and
`epoll_wait` reports every readable connection. In the pool, weak fairness of
each thread is enough: a thread woken and overtaken waits again, but each thread
executes finitely many statements in the instance (`MaxQueries`); with unbounded
statements POSIX promises no order among waiters, and `WaiterServed` is claimed
for the bounded system only. In `playback` the one thread keeps running;
in `alarm` time passes and every client, reader and scheduling thread is weakly
fair, which is enough because reads are bounded and `time_mutex` is held by a
thread only while it can go on. In `exchange` the client's thread and the
server's thread of the connection are weakly fair: each is a thread of its own
that waits for nothing but its socket. That a process ends is never assumed.

## 4. Proofs

All for every value of the constants, checked by TLAPS, from the named
assumptions on them: `DeliveryAssumption`, `AccountingAssumption` (finitely many
clients), `PoolAssumption`, `StatisticsAssumption`, `ExchangeAssumption`,
`BufferAssumption`, `AlarmAssumption`, `PlaybackAssumption`,
`StreamAssumption`. TLC evaluates each
in a run.

* `TypeCorrect`: `Spec => []TypeOK`, one lemma per group of variables.
* `Invariant`: `Spec => []IInv`. `DirectoryFollowsBuffer` is not inductive
  alone: appending "add s" to the queue keeps it only if no later step of the
  same write contradicts it, which needs that the block being told is in the
  buffer (`FetchOnce`, third part) and that a block being told as eliminated is
  not (`VictimGone`); `FetchOnce` in turn needs that a second write makes room
  again. From it `DirectoryNeverWrong`, `FetchesOnce`, `BuffersBounded`.
* `DeliveryImplementsService`: every step maps to a step of `SegmentService` or
  a stutter, with `want`, `source`, `held` and `tally` as the mapping says.
* `MysqlPoolProofs!Invariant`: `OneOwner` makes `Cardinality(Using)` count
  connections, `CountsOpen` relates it to the counter the wait tests, and
  `NoLostSignal` follows because a thread waits only when all connections are
  in use. From it `ConnectionsNotShared`, `CountExact`, `SignalsSuffice`,
  `PoolIsSemaphore`, and `TypeCorrect`.
* `StatisticsProofs!Invariant`: `ProvidedWithinRequested` is not inductive;
  `RoomForOwed` counts the clients whose request has been counted and not yet
  been provided for (waiting for the lookup, sent to a peer, or asking again),
  and each leaves room for one more segment provided. The load is the number of
  clients in `ticking`, so it is never decreased below 0 and, once recorded,
  lies in its record; `LoadInv` carries what a sample has read across the
  changes in between. `Best` is the loop invariant of the search for the best
  client, with transitivity of rates by cross-multiplication. From it
  `TypeCorrect`, `ProvidedWithin`, `LoadInRecord`, `PrintedInOrder`,
  `BestNamed`; `HitsBounded` adds that an unsigned difference within range is
  the true one.

* `BandsBalanced`, `StatisticsAgree`: the ledger adds over the clients, and a sum of the
  library is a recursive function over subsets in an order nobody knows. The
  lemmas up to `CountMoves` show by smallest counterexample (a finite set has a
  smallest subset among any) that sums exist, may take any element last, and
  follow one element that comes or goes. The ledger's proof then goes action by
  action: each band changes by what the moving client stops or begins to hold
  of it (`BooksMove`). The counters need `Conversations`: a request or
  its reply is under way, never both, and the client waits where it asked.
  Each pair of counters stays as far apart as the moving client's own request
  accounts for (`AgreesMove`).
* `ExitsOnlyWhenShort`: a step that ends a process is a step of a client that
  cannot lease, of the server that cannot tick, or of a client whose server has
  gone. By `BandLedger` what is missing is then a sum over transfers that run in
  that state (`ShortLease`, `ShortLoad`), not bandwidth some thread failed to
  return. "should get the resource from server!" is dead: REQUESTSEGMENTAGAIN
  is answered by the server with itself (`ServerAnswersAgain`, which needs
  `Conversations`). Nothing is assumed of bandwidths, rates or video numbers;
  that running transfers leave too little does happen (`delivery_tight`), and
  what happens to a `derailed` server is `ManagerStream`'s `SafeConnection`.
* `ManagerStreamProofs!StreamInvariant`: what waits on a connection, and what
  its writers have still to write, is whole messages one behind the other
  (`WritersTakeTurns`, `Streams`, `ChunkWhole`), except behind the first mixed
  write, which no recv reaches without being cut. So a message that is read from
  its first word is a message that was sent (`WordsKnown`), and what the
  directory has yet to hear is the updates still under way (`DirectoryFollows`,
  with `Runs` and `PeersSilent` for the old connections of a restarted process
  and the mode without peers). From it `TypesKept`, `RowsAreTrue`,
  `LargeNumbersAreSafe`, `OnlyOwnRows`, `NoUpdateLost`. Mixed messages broke the
  first attempt: `RowsWereTrue` had not excepted them, and the instance's socket
  was too large for a write to be cut.
* `ExchangeProofs!Invariant`: the words of a request not handled yet, spread
  over what is written, what waits and the server's chunk, are all of it or
  none of it; what has arrived at the client is the first part of the reply and
  the rest is still to be sent or on its way. From it `TypeCorrect`,
  `SentExactly`, and `WordsImplementSlots` (a whole request fills the slot when
  its first word leaves, the reply when it is made).
* `BlockBufferProofs!Invariant`: blocks are distinct, the list is full exactly
  where the check said so and has room from the eviction to the push, and the
  server knows all but the block about to be told of; the mutex is held while a
  reader is inside unless it was stolen by a second unlock. From it
  `MutexExcludes` and `StrategiesAreBuffers` (four strategies, any sizes);
  `RecentSpared` adds that under LRU and DW the list is the order of the last
  reads and additions, that DW has a candidate from four blocks on, and that the
  weights of LFRU are all 0 only if nothing has aged since the reset.
* `AlarmClockProofs!Invariant`: the mutex, what each step of a registration
  knows of the list, and `Paced`: seconds since the last reset and seconds left
  add up to the period less one at least, even if the count is set anew by a
  late `SetAlarm`. It holds for any number of clients, writes and reads, any
  period that fits the word and any buffer size.
  From it `TypeCorrect`, `CountNeverSkipped`, `PeriodKept`.
* `PlaybackProofs`: until `odd`, what is left to play is a number of blocks that
  fits behind the cursor (`CInv`). From it `CursorStays`, `AsksForExisting`,
  without an assumption on the lengths. The code avoids neither kind of odd
  length, since a length is a random time multiplied by a bit rate;
  `playback_part` shows what one of them does.

Only model-checked: the liveness properties (`SegmentDelivered`,
`DirectoryConverges`, `WaiterServed`, `Answered`, `ThreadEnds`, `PlayEnds`,
`EveryPeriod`), which the prover does not reach, and the two violations. Every
invariant and every action property of a passing run, and every refinement, is
stated by a theorem.

## 5. Not modelled, and the plan

Not modelled: the random draws of request generation, configuration parsing,
socket set-up, error printing, the test tools, the two strategies the build
leaves out, and data races on a list without a mutex (LRFU), which have no
useful set of outcomes; nor which block LFU tells the server of through the
iterator it erased (normally the evicted one still). `createConnection` leaks a
connection whose `setSchema` throws (MYSQLPool.cpp:114-122); the model counts
the refusal only, since the NULL it returns ends the process.

Hazards the code does not avoid. Several properties do not forbid what a hazard
describes, because the code lets it happen, but name it as an exception and so
show it to be the only cause: `KeepsPeriod` the two registration races,
`HitsWithinTotal` a request between two reads or before counting starts,
`ListExclusive` the second unlock, `RecentKept` the evictions without a victim,
`CursorWhole` and `PlayEnds` the two odd lengths, and the properties of
`ManagerStream` the messages cut, misread or mixed. `NamesTheBest` says nothing
of a client that had played nothing, and no property says of LFRU or LFU which
block they should have evicted.

Differences between the code and what its comments say that no run shows,
because they are told by one or two steps:

* the last heartbeat of a transfer is sent before the band is returned
  (client.cpp:674), so the directory's band stays short until the next one;
* LFRU's `eliminateBlock` reads its clock before it locks, so a block read in
  between is weighed by a time in the future (`ReadClock`, `Evict`);
* a DW buffer of one block looks empty while a peer reads it (`ReadErase`), and
  its alarm is registered twice; `KeepsPeriod` excepts this;
* the entry commented "for play" carries the status PAUSE (client.cpp:337), so a
  client never goes straight on playing, and a next status of probability 0 is
  taken when the draw is 0 (client.cpp:366).

What would come next, in this order: that a `ManagerStream` without cut or mixed
messages implements the queues of `SegmentDelivery` step by step, and the failed
statement of a directory query, which both take to succeed.
