----------------------------- MODULE AlarmClock -----------------------------
(***************************************************************************)
(* The alarms of a client process (clientManager.cpp 38-50, 156-168): each *)
(* client registers its buffer's reset with its first write; a thread      *)
(* created by the first to register counts the seconds of all of them.     *)
(* Registration tests two things without a lock: whether the buffer is     *)
(* empty, which a DW buffer of one block also looks while a peer reads it, *)
(* and whether the thread exists.                                          *)
(*                                                                         *)
(* Buffers are seen by their sizes only, up to an eviction that finds no   *)
(* victim (BlockBuffer).  A thread is named by the client that created it. *)
(***************************************************************************)
EXTENDS Integers, FiniteSets, SequencesExt

CONSTANTS
    Client,
    Period,               \* myAlarmEvent.period, in seconds
    Word,                 \* 2^32: timeleft is unsigned
    BlockNum,             \* _blockNum
    MaxWrites, MaxReads   \* bounds, of all clients together

ASSUME AlarmAssumption ==
    /\ IsFiniteSet(Client)
    /\ Period \in Nat \ {0} /\ Word \in Nat /\ Period < Word
    /\ BlockNum \in Nat \ {0}
    /\ MaxWrites \in Nat /\ MaxReads \in Nat

VARIABLES
    pc,                    \* where a client's own thread is in a write
    size, erased,          \* blocks listed; one of them is taken out by a peer's read
    needTimeScheduleList,  \* the thread exists
    scheduleList, timeleft,
    thread, at, loaded,    \* a thread: what it does next, to which entry, with what
    due,                   \* seconds it still sleeps
    age,                   \* history: seconds since the last reset, up to Period - 1
    writes, reads
owners == <<pc, writes>>
buffer == <<size, erased, reads>>
scheduler == <<thread, at, loaded>>
clock  == <<due, age>>
vars == <<owners, buffer, needTimeScheduleList, scheduleList, timeleft, scheduler, clock>>

Labels  == {"lock", "load", "store", "test", "call"}
Threads == {c \in Client : thread[c] # "none"}
TimeFree == \A t \in Client : thread[t] \in {"none", "lock"}   \* time_mutex
Listed(c) == c \in {scheduleList[i] : i \in DOMAIN scheduleList}
event(t) == scheduleList[at[t]]

-----------------------------------------------------------------------------
(* Faults: each a plausible bug in the operator named beside it.           *)
NeverNeeded      == needTimeScheduleList                           \* NeedThread
RearmShort(c)    == timeleft' = [timeleft EXCEPT ![c] = Period \div 2]   \* Arm
HasPast(t)       == at[t] <= Len(scheduleList)                    \* HasNext
RearmNot(c)      == UNCHANGED timeleft                             \* Arm
-----------------------------------------------------------------------------
NeedThread == ~needTimeScheduleList
HasNext(t) == at[t] < Len(scheduleList)    \* it != scheduleList.end()
Arm(c)     == timeleft' = [timeleft EXCEPT ![c] = Period]
LooksEmpty(c) == size[c] = (IF erased[c] THEN 1 ELSE 0)

Init ==
    /\ pc = [c \in Client |-> "idle"]
    /\ size = [c \in Client |-> 0] /\ erased = [c \in Client |-> FALSE]
    /\ needTimeScheduleList = FALSE
    /\ scheduleList = <<>> /\ timeleft = [c \in Client |-> 0]
    /\ thread = [c \in Client |-> "none"] /\ at = [c \in Client |-> 1]
    /\ loaded = [c \in Client |-> 0]
    /\ due = [c \in Client |-> 0] /\ age = [c \in Client |-> 0]
    /\ writes = 0 /\ reads = 0

goto(c, label) == pc' = [pc EXCEPT ![c] = label]

(* writeFileSegment and addAlarmEvent, by the owner. *)
Write(c) ==
    /\ pc[c] = "idle" /\ writes < MaxWrites
    /\ goto(c, IF LooksEmpty(c) THEN "arm" ELSE "check")
    /\ writes' = writes + 1
    /\ UNCHANGED <<buffer, needTimeScheduleList, scheduleList, timeleft, scheduler, clock>>

SetAlarm(c) ==
    /\ pc[c] = "arm"
    /\ Arm(c)
    /\ age' = IF Listed(c) THEN age ELSE [age EXCEPT ![c] = 0]
    /\ goto(c, "test")
    /\ UNCHANGED <<writes, buffer, needTimeScheduleList, scheduleList, scheduler, due>>

TestThread(c) ==
    /\ pc[c] = "test"
    /\ goto(c, IF NeedThread THEN "create" ELSE "push")
    /\ UNCHANGED <<writes, buffer, needTimeScheduleList, scheduleList, timeleft, scheduler,
                   clock>>

CreateThread(c) ==
    /\ pc[c] = "create"
    /\ needTimeScheduleList' = TRUE
    /\ thread' = [thread EXCEPT ![c] = "lock"]
    /\ goto(c, "push")
    /\ UNCHANGED <<writes, buffer, scheduleList, timeleft, at, loaded, clock>>

PushAlarm(c) ==
    /\ pc[c] = "push" /\ TimeFree
    /\ scheduleList' = Append(scheduleList, c)
    /\ goto(c, "check")
    /\ UNCHANGED <<writes, buffer, needTimeScheduleList, timeleft, scheduler, clock>>

MakeRoom(c) ==    \* eliminateBlock, if the buffer is full
    /\ pc[c] = "check" /\ ~erased[c]
    /\ size' = IF size[c] >= BlockNum THEN [size EXCEPT ![c] = @ - 1] ELSE size
    /\ goto(c, "add")
    /\ UNCHANGED <<writes, erased, reads, needTimeScheduleList, scheduleList, timeleft,
                   scheduler, clock>>

AddBlock(c) ==    \* or the block is there already
    /\ pc[c] = "add" /\ ~erased[c]
    /\ \/ size' = [size EXCEPT ![c] = @ + 1]
       \/ size[c] > 0 /\ UNCHANGED size
    /\ goto(c, "idle")
    /\ UNCHANGED <<writes, erased, reads, needTimeScheduleList, scheduleList, timeleft,
                   scheduler, clock>>

(* readFileSegment of DW, by a peer, under the buffer's mutex. *)
ReadErase(c) ==
    /\ size[c] > 0 /\ ~erased[c] /\ reads < MaxReads
    /\ erased' = [erased EXCEPT ![c] = TRUE]
    /\ reads' = reads + 1
    /\ UNCHANGED <<owners, size, needTimeScheduleList, scheduleList, timeleft, scheduler,
                   clock>>

ReadPush(c) ==
    /\ erased[c]
    /\ erased' = [erased EXCEPT ![c] = FALSE]
    /\ UNCHANGED <<owners, size, reads, needTimeScheduleList, scheduleList, timeleft,
                   scheduler, clock>>

(* checkAlarmEvent: the loop of thread t. *)
advance(t) ==
    \/ /\ HasNext(t)
       /\ thread' = [thread EXCEPT ![t] = "load"]
       /\ at' = [at EXCEPT ![t] = @ + 1]
       /\ UNCHANGED due
    \/ /\ ~HasNext(t)                               \* unlock, and mysleep
       /\ thread' = [thread EXCEPT ![t] = "lock"]
       /\ at' = [at EXCEPT ![t] = 1]
       /\ due' = [due EXCEPT ![t] = 1]

LockList(t) ==
    /\ thread[t] = "lock" /\ due[t] = 0 /\ TimeFree
    /\ IF scheduleList = <<>>
       THEN due' = [due EXCEPT ![t] = 1] /\ UNCHANGED thread
       ELSE thread' = [thread EXCEPT ![t] = "load"] /\ UNCHANGED due
    /\ UNCHANGED <<owners, buffer, needTimeScheduleList, scheduleList, timeleft, at, loaded,
                   age>>

LoadTime(t) ==    \* timeleft -= 1 races with SetAlarm
    /\ thread[t] = "load"
    /\ loaded' = [loaded EXCEPT ![t] = timeleft[event(t)]]
    /\ thread' = [thread EXCEPT ![t] = "store"]
    /\ UNCHANGED <<owners, buffer, needTimeScheduleList, scheduleList, timeleft, at, clock>>

StoreTime(t) ==
    /\ thread[t] = "store"
    /\ timeleft' = [timeleft EXCEPT ![event(t)] = (loaded[t] - 1) % Word]
    /\ loaded' = [loaded EXCEPT ![t] = 0]
    /\ thread' = [thread EXCEPT ![t] = "test"]
    /\ UNCHANGED <<owners, buffer, needTimeScheduleList, scheduleList, at, clock>>

TestTime(t) ==
    /\ thread[t] = "test"
    /\ IF timeleft[event(t)] = 0
       THEN thread' = [thread EXCEPT ![t] = "call"] /\ UNCHANGED <<at, due>>
       ELSE advance(t)
    /\ UNCHANGED <<owners, buffer, needTimeScheduleList, scheduleList, timeleft, loaded, age>>

CallBack(t) ==    \* blockReset waits for the buffer's mutex, with time_mutex locked
    /\ thread[t] = "call" /\ ~erased[event(t)]
    /\ Arm(event(t))
    /\ age' = [age EXCEPT ![event(t)] = 0]
    /\ advance(t)
    /\ UNCHANGED <<owners, buffer, needTimeScheduleList, scheduleList, loaded>>

Second ==
    /\ due' = [t \in Client |-> 0]
    /\ age' = [c \in Client |-> IF age[c] = Period - 1 THEN age[c] ELSE age[c] + 1]
    /\ UNCHANGED <<owners, buffer, needTimeScheduleList, scheduleList, timeleft, scheduler>>

OwnerStep(c)  == \/ Write(c) \/ SetAlarm(c) \/ TestThread(c) \/ CreateThread(c)
                 \/ PushAlarm(c) \/ MakeRoom(c) \/ AddBlock(c)
ReaderStep(c) == ReadErase(c) \/ ReadPush(c)
ThreadStep(t) == LockList(t) \/ LoadTime(t) \/ StoreTime(t) \/ TestTime(t) \/ CallBack(t)

Next == Second \/ \E c \in Client : OwnerStep(c) \/ ReaderStep(c) \/ ThreadStep(c)
Spec == Init /\ [][Next]_vars

(* Time passes, and no thread holds a mutex for ever or is not scheduled.  *)
FairSpec == /\ Spec /\ WF_vars(Second)
            /\ \A c \in Client : /\ WF_vars(OwnerStep(c))
                                 /\ WF_vars(ReaderStep(c))
                                 /\ WF_vars(ThreadStep(c))

-----------------------------------------------------------------------------
(* Every variable holds a value of its type. *)
TypeOK ==
    /\ pc \in [Client -> {"idle", "arm", "test", "create", "push", "check", "add"}]
    /\ size \in [Client -> 0..BlockNum] /\ erased \in [Client -> BOOLEAN]
    /\ needTimeScheduleList \in BOOLEAN
    /\ scheduleList \in Seq(Client)
    /\ timeleft \in [Client -> 0..(Word - 1)]
    /\ thread \in [Client -> Labels \cup {"none"}]
    /\ at \in [Client -> Nat \ {0}] /\ \A t \in Client : at[t] = 1 \/ at[t] <= Len(scheduleList)
    /\ loaded \in [Client -> 0..(Word - 1)]
    /\ due \in [Client -> 0..1] /\ age \in [Client -> 0..(Period - 1)]
    /\ writes \in 0..MaxWrites /\ reads \in 0..MaxReads

(* The count of a registered alarm never passes zero, however registering  *)
(* again races with it: it is zero only under the callback.                *)
NeverSkipped ==
    \A c \in Client : Listed(c) =>
        /\ timeleft[c] <= Period
        /\ timeleft[c] = 0 => \E t \in Threads : thread[t] \in {"test", "call"} /\ event(t) = c

(* A buffer is reset no more than a second early, except when the two      *)
(* races happened: a second thread, or an alarm listed twice.              *)
ListedOnce(c) == Cardinality({i \in DOMAIN scheduleList : scheduleList[i] = c}) <= 1
KeepsPeriod ==
    [][\A t \in Client :
          thread[t] = "call" /\ thread'[t] # "call" =>
             \/ age[event(t)] = Period - 1
             \/ Cardinality(Threads) > 1 \/ ~ListedOnce(event(t))]_vars

(* Every registered buffer is reset again and again: neither the mutexes,  *)
(* taken one inside the other, nor the races stop the alarm.               *)
EveryPeriod == \A c \in Client : (Listed(c) /\ age[c] > 0) ~> age[c] = 0
=============================================================================
