-------------------------- MODULE AlarmClockProofs ---------------------------
(***************************************************************************)
(* Proofs about AlarmClock, for any clients, writes, reads and period:     *)
(* the unlocked count of an alarm is never lost below zero, and its reset  *)
(* keeps the period while one thread counts it once.                       *)
(***************************************************************************)
EXTENDS AlarmClock, SequenceTheorems, FiniteSetTheorems, TLAPS

Inside(t) == thread[t] \notin {"none", "lock"}     \* holds time_mutex

(* A client that adds a block has room for it.                             *)
Room == \A c \in Client : pc[c] = "add" => size[c] < BlockNum

(* time_mutex excludes, and a thread inside is at an entry of the list.    *)
Walking ==
    /\ \A t, u \in Client : Inside(t) /\ Inside(u) => t = u
    /\ \A t \in Client : IF Inside(t) THEN at[t] \in 1..Len(scheduleList) ELSE at[t] = 1
    /\ \A t \in Client : thread[t] = "store" => loaded[t] \in 1..Period

(* A client not listed yet has an empty buffer and, once its alarm is set, *)
(* the whole period to go; there is a thread before any is listed.         *)
Registering ==
    /\ \A c \in Client : ~Listed(c) =>
          /\ pc[c] \notin {"check", "add"} /\ size[c] = 0 /\ ~erased[c]
          /\ pc[c] \in {"test", "create", "push"} => timeleft[c] = Period
    /\ (\E c \in Client : pc[c] = "push" \/ Listed(c)) => needTimeScheduleList
    /\ needTimeScheduleList <=> Threads # {}
    /\ \A c \in Client : pc[c] = "create" => thread[c] = "none"

(* Of the thread t that alone counts, the entries it has still to reach in *)
(* this pass, or all of them when it has slept its second.                 *)
Ahead(t, c) ==
    IF Inside(t)
    THEN \E j \in 1..Len(scheduleList) :
            /\ scheduleList[j] = c
            /\ j > at[t] \/ (j = at[t] /\ thread[t] \in {"load", "store"})
    ELSE due[t] = 0
Once(c) == \A i, j \in 1..Len(scheduleList) : scheduleList[i] = c /\ scheduleList[j] = c => i = j

(* The seconds gone and the seconds left make a period, less the one that  *)
(* a pass takes off before its second has been slept; the callback comes   *)
(* at the end of the period even if the count is set anew before it.       *)
Paced ==
    \A t, c \in Client : Threads = {t} /\ Listed(c) /\ Once(c) =>
        /\ timeleft[c] + age[c] >= Period - 1
        /\ Ahead(t, c) => timeleft[c] + age[c] >= Period
        /\ thread[t] = "store" /\ event(t) = c => loaded[t] + age[c] >= Period
        /\ thread[t] = "call" /\ event(t) = c => age[c] = Period - 1

SafetyInv == TypeOK /\ Room /\ Walking /\ Registering /\ NeverSkipped
IInv == SafetyInv /\ Paced

-----------------------------------------------------------------------------
(* An unsigned number within its width is itself. *)
LEMMA Within == \A n, w \in Nat : n < w => n % w = n
OBVIOUS

(* What is written of the constants, and the types, as the steps use them. *)
LEMMA Numbers == /\ Period \in Nat /\ Period > 0 /\ BlockNum \in Nat /\ BlockNum > 0 /\ Word \in Nat /\ Period < Word
                 /\ MaxWrites \in Nat /\ MaxReads \in Nat
BY AlarmAssumption

LEMMA SameList ==
    ASSUME UNCHANGED scheduleList
    PROVE  /\ \A d \in Client : Listed(d)' <=> Listed(d)
           /\ \A d \in Client : Once(d)' <=> Once(d)
BY DEF Listed, Once

LEMMA SameThreads ==
    ASSUME UNCHANGED thread
    PROVE  Threads' = Threads /\ \A t \in Client : Inside(t)' <=> Inside(t)
BY DEF Threads, Inside

(* A count that is set anew, or left alone, is not zero but where it was.  *)
LEMMA NeverSkippedKept ==
    ASSUME NeverSkipped, UNCHANGED <<at, scheduleList>>,
           \A t \in Client : thread[t] \in {"test", "call"} => thread'[t] = thread[t],
           \A d \in Client : Listed(d) => timeleft'[d] = timeleft[d] \/ timeleft'[d] = Period
    PROVE  NeverSkipped'
<1> SUFFICES ASSUME NEW d \in Client, Listed(d)'
             PROVE  /\ timeleft'[d] <= Period
                    /\ timeleft'[d] = 0 => \E t \in Threads' : /\ thread'[t] \in {"test", "call"}
                                                              /\ event(t)' = d
  BY DEF NeverSkipped
<1>1. Listed(d)
  BY SameList
<1>2. ASSUME timeleft'[d] = 0 PROVE timeleft[d] = 0
  BY <1>1, <1>2, Numbers
<1>3. ASSUME NEW t \in Threads, thread[t] \in {"test", "call"}, event(t) = d
      PROVE  t \in Threads' /\ thread'[t] \in {"test", "call"} /\ event(t)' = d
  BY <1>3 DEF Threads, event
<1> QED
  BY <1>1, <1>2, <1>3, Numbers DEF NeverSkipped

(* Appending an alarm lists its client and keeps the entries. *)
LEMMA Pushed ==
    ASSUME scheduleList \in Seq(Client), NEW c \in Client, scheduleList' = Append(scheduleList, c)
    PROVE  /\ scheduleList' \in Seq(Client) /\ Len(scheduleList') = Len(scheduleList) + 1
           /\ scheduleList'[Len(scheduleList) + 1] = c
           /\ \A i \in 1..Len(scheduleList) : scheduleList'[i] = scheduleList[i]
           /\ \A d \in Client : Listed(d)' <=> Listed(d) \/ d = c
<1>1. /\ scheduleList' \in Seq(Client) /\ Len(scheduleList') = Len(scheduleList) + 1
      /\ scheduleList'[Len(scheduleList) + 1] = c
      /\ \A i \in 1..Len(scheduleList) : scheduleList'[i] = scheduleList[i]
  OBVIOUS
<1>2. \A d \in Client : Listed(d)' <=> Listed(d) \/ d = c
  BY <1>1 DEF Listed
<1> QED
  BY <1>1, <1>2

LEMMA InitInv == Init => IInv
<1> SUFFICES ASSUME Init PROVE IInv
  OBVIOUS
<1>1. TypeOK
  <2>1. 0 \in 0..(Word - 1) /\ 0 \in 0..(Period - 1) /\ 0 \in 0..MaxWrites /\ 0 \in 0..MaxReads /\ 0 \in 0..BlockNum
    BY AlarmAssumption
  <2>2. scheduleList \in Seq(Client)
    BY DEF Init
  <2>3. /\ timeleft \in [Client -> 0..(Word - 1)] /\ loaded \in [Client -> 0..(Word - 1)]
        /\ age \in [Client -> 0..(Period - 1)] /\ size \in [Client -> 0..BlockNum]
        /\ due \in [Client -> 0..1]
    BY <2>1 DEF Init
  <2>4. /\ pc \in [Client -> {"idle", "arm", "test", "create", "push", "check", "add"}]
        /\ thread \in [Client -> Labels \cup {"none"}]
        /\ at \in [Client -> Nat \ {0}] /\ \A t \in Client : at[t] = 1
        /\ writes \in 0..MaxWrites /\ reads \in 0..MaxReads
    BY <2>1 DEF Init
  <2>5. erased \in [Client -> BOOLEAN] /\ needTimeScheduleList \in BOOLEAN
    BY Zenon DEF Init
  <2> QED
    BY <2>2, <2>3, <2>4, <2>5 DEF TypeOK
<1>2. Room /\ Walking
  BY DEF Init, Room, Walking, Inside
<1>3. \A c \in Client : ~Listed(c)
  BY DEF Init, Listed
<1>4. Registering /\ NeverSkipped /\ Paced
  BY <1>3 DEF Init, Registering, NeverSkipped, Paced, Threads
<1> QED
  BY <1>1, <1>2, <1>4 DEF IInv, SafetyInv

-----------------------------------------------------------------------------
(* The owner. *)
LEMMA WriteStep == ASSUME SafetyInv, NEW c \in Client, Write(c) PROVE SafetyInv'
<1> USE DEF Write, goto, SafetyInv, TypeOK, buffer, scheduler, clock
<1>1. TypeOK'
  BY Numbers
<1>2. Room'
  BY Numbers DEF Room
<1>3. Walking'
  BY DEF Walking, Inside
<1>4. Registering'
  BY SameList, SameThreads DEF Registering, LooksEmpty
<1>5. NeverSkipped'
  BY NeverSkippedKept
<1> QED
  BY <1>1, <1>2, <1>3, <1>4, <1>5

LEMMA SetAlarmStep == ASSUME SafetyInv, NEW c \in Client, SetAlarm(c) PROVE SafetyInv'
<1> USE DEF SetAlarm, Arm, goto, SafetyInv, TypeOK, buffer, scheduler
<1>1. TypeOK'
  BY Numbers
<1>2. Room'
  BY Numbers DEF Room
<1>3. Walking'
  BY DEF Walking, Inside
<1>4. Registering'
  BY SameList, SameThreads DEF Registering
<1>5. NeverSkipped'
  <2>1. \A d \in Client : timeleft'[d] = timeleft[d] \/ timeleft'[d] = Period
    OBVIOUS
  <2> QED
    BY <2>1, NeverSkippedKept
<1> QED
  BY <1>1, <1>2, <1>3, <1>4, <1>5

LEMMA TestThreadStep == ASSUME SafetyInv, NEW c \in Client, TestThread(c) PROVE SafetyInv'
<1> USE DEF TestThread, NeedThread, goto, SafetyInv, TypeOK, buffer, scheduler, clock
<1>1. TypeOK'
  OBVIOUS
<1>2. Room'
  BY Numbers DEF Room
<1>3. Walking'
  BY DEF Walking, Inside
<1>4. Registering'
  BY SameList, SameThreads DEF Registering, Threads
<1>5. NeverSkipped'
  BY NeverSkippedKept
<1> QED
  BY <1>1, <1>2, <1>3, <1>4, <1>5

LEMMA CreateThreadStep == ASSUME SafetyInv, NEW c \in Client, CreateThread(c) PROVE SafetyInv'
<1> USE DEF CreateThread, goto, SafetyInv, TypeOK, buffer
<1>0. thread[c] = "none" /\ Threads \subseteq Threads' /\ c \in Threads'
  BY DEF Threads, Registering
<1>1. TypeOK'
  BY DEF Labels, clock
<1>2. Room'
  BY Numbers DEF Room
<1>3. Walking'
  <2>1. \A t \in Client : Inside(t)' <=> Inside(t)
    BY <1>0 DEF Inside
  <2>2. \A t \in Client : thread'[t] = "store" => thread[t] = "store"
    BY <1>0
  <2> QED
    BY <2>1, <2>2 DEF Walking
<1>4. Registering'
  BY <1>0, SameList DEF Registering
<1>5. NeverSkipped'
  <2>1. \A t \in Client : thread[t] \in {"test", "call"} => thread'[t] = thread[t]
    BY <1>0
  <2>2. UNCHANGED <<timeleft, at, scheduleList>> /\ NeverSkipped
    BY DEF clock
  <2> QED
    BY <2>1, <2>2, NeverSkippedKept
<1> QED
  BY <1>1, <1>2, <1>3, <1>4, <1>5

LEMMA PushAlarmStep == ASSUME SafetyInv, NEW c \in Client, PushAlarm(c) PROVE SafetyInv'
<1> USE DEF PushAlarm, goto, SafetyInv, TypeOK, buffer, scheduler, clock
<1>0. /\ scheduleList' \in Seq(Client) /\ Len(scheduleList') = Len(scheduleList) + 1
      /\ \A d \in Client : Listed(d)' <=> Listed(d) \/ d = c
  BY Pushed
<1>a. \A t \in Client : ~Inside(t)
  BY DEF TimeFree, Inside
<1>1. TypeOK'
  <2>1. Len(scheduleList) \in Nat
    OBVIOUS
  <2>2. \A t \in Client : at'[t] = 1
    BY <1>a DEF Walking
  <2>3. pc' \in [Client -> {"idle", "arm", "test", "create", "push", "check", "add"}]
    OBVIOUS
  <2> QED
    BY <1>0, <2>2, <2>3
<1>2. Room'
  BY Numbers DEF Room
<1>3. Walking'
  BY <1>a, SameThreads DEF Walking, Inside
<1>4. Registering'
  BY <1>0, SameThreads DEF Registering
<1>5. NeverSkipped'
  <2>1. \A d \in Client : Listed(d) => timeleft[d] # 0
    BY <1>a DEF NeverSkipped, Threads, Inside
  <2>2. ~Listed(c) => timeleft[c] = Period
    BY DEF Registering
  <2> QED
    BY <1>0, <2>1, <2>2, Numbers DEF NeverSkipped
<1> QED
  BY <1>1, <1>2, <1>3, <1>4, <1>5

LEMMA MakeRoomStep == ASSUME SafetyInv, NEW c \in Client, MakeRoom(c) PROVE SafetyInv'
<1> USE DEF MakeRoom, goto, SafetyInv, TypeOK, scheduler, clock
<1>0. PICK n \in 0..BlockNum : n = size[c]
  OBVIOUS
<1>1. \/ n >= BlockNum /\ size' = [size EXCEPT ![c] = n - 1] /\ n - 1 \in 0..BlockNum
      \/ n < BlockNum /\ size' = size
  BY <1>0, Numbers
<1>2. size' \in [Client -> 0..BlockNum] /\ size'[c] < BlockNum
  BY <1>0, <1>1, Numbers
<1>3. \A d \in Client : d # c => size'[d] = size[d]
  BY <1>1
<1>4. TypeOK'
  BY <1>2
<1>5. Room'
  BY <1>2, <1>3 DEF Room
<1>6. Walking'
  BY DEF Walking, Inside
<1>7. Registering'
  <2>1. Listed(c)
    BY DEF Registering
  <2> QED
    BY <1>3, <2>1, SameList, SameThreads DEF Registering
<1>8. NeverSkipped'
  BY NeverSkippedKept
<1> QED
  BY <1>4, <1>5, <1>6, <1>7, <1>8

LEMMA AddBlockStep == ASSUME SafetyInv, NEW c \in Client, AddBlock(c) PROVE SafetyInv'
<1> USE DEF AddBlock, goto, SafetyInv, TypeOK, scheduler, clock
<1>0. PICK n \in 0..BlockNum : n = size[c] /\ n < BlockNum
  BY DEF Room
<1>1. \/ size' = [size EXCEPT ![c] = n + 1] /\ n + 1 \in 0..BlockNum
      \/ size' = size
  BY <1>0, Numbers
<1>2. TypeOK'
  BY <1>1
<1>a. \A d \in Client : d # c => size'[d] = size[d]
  BY <1>1
<1>b. Room'
  BY <1>a DEF Room
<1>3. Walking'
  BY DEF Walking, Inside
<1>4. Registering'
  <2>1. Listed(c)
    BY DEF Registering
  <2> QED
    BY <1>a, <2>1, SameList, SameThreads DEF Registering
<1>5. NeverSkipped'
  BY NeverSkippedKept
<1> QED
  BY <1>2, <1>b, <1>3, <1>4, <1>5

-----------------------------------------------------------------------------
(* A peer. *)
LEMMA ReaderStepKeeps == ASSUME SafetyInv, NEW c \in Client, ReaderStep(c) PROVE SafetyInv'
<1> USE DEF ReaderStep, ReadErase, ReadPush, SafetyInv, TypeOK, owners, scheduler, clock
<1>1. TypeOK'
  <2>1. reads' \in 0..MaxReads /\ UNCHANGED size
    BY Numbers
  <2>2. erased' \in [Client -> BOOLEAN]
    BY Zenon
  <2> QED
    BY <2>1, <2>2
<1>2. Room'
  BY DEF Room
<1>3. Walking'
  BY DEF Walking, Inside
<1>4. Registering'
  <2>1. \A d \in Client : ~Listed(d) => size[d] = 0 /\ ~erased[d]
    BY DEF Registering
  <2>2. \A d \in Client : d # c => erased'[d] = erased[d]
    BY Zenon
  <2>3. Listed(c)
    BY <2>1
  <2> QED
    BY <2>1, <2>2, <2>3, SameList, SameThreads DEF Registering
<1>5. NeverSkipped'
  BY NeverSkippedKept
<1> QED
  BY <1>1, <1>2, <1>3, <1>4, <1>5

-----------------------------------------------------------------------------
(* The thread.  It alone is inside, so no other alarm's count is zero.     *)
LEMMA OnlyHere ==
    ASSUME SafetyInv, NEW t \in Client, Inside(t)
    PROVE  /\ at[t] \in 1..Len(scheduleList) /\ Len(scheduleList) \in Nat
           /\ event(t) \in Client /\ Listed(event(t))
           /\ \A u \in Client : u # t => ~Inside(u)
           /\ \A d \in Client : Listed(d) /\ timeleft[d] = 0 =>
                 d = event(t) /\ thread[t] \in {"test", "call"}
           /\ timeleft[event(t)] \in 0..Period
<1>1. /\ at[t] \in 1..Len(scheduleList) /\ Len(scheduleList) \in Nat
      /\ scheduleList \in Seq(Client)
  BY DEF SafetyInv, TypeOK, Walking
<1>2. event(t) \in Client /\ Listed(event(t))
  BY <1>1 DEF event, Listed
<1>3. \A u \in Client : u # t => ~Inside(u)
  BY DEF SafetyInv, Walking
<1>4. \A d \in Client : Listed(d) /\ timeleft[d] = 0 =>
         d = event(t) /\ thread[t] \in {"test", "call"}
  BY <1>3 DEF SafetyInv, NeverSkipped, Inside, Threads
<1>5. timeleft[event(t)] \in 0..Period
  BY <1>2, Numbers DEF SafetyInv, NeverSkipped, TypeOK
<1> QED
  BY <1>1, <1>2, <1>3, <1>4, <1>5

LEMMA LockListStep == ASSUME SafetyInv, NEW t \in Client, LockList(t) PROVE SafetyInv'
<1> USE DEF LockList, SafetyInv, TypeOK, owners, buffer
<1>0. \/ scheduleList = <<>> /\ due' = [due EXCEPT ![t] = 1] /\ UNCHANGED thread
      \/ scheduleList # <<>> /\ thread' = [thread EXCEPT ![t] = "load"] /\ UNCHANGED due
  OBVIOUS
<1>1. TypeOK'
  <2>1. thread' \in [Client -> Labels \cup {"none"}] /\ due' \in [Client -> 0..1]
    <3>1. CASE due' = [due EXCEPT ![t] = 1] /\ UNCHANGED thread
      BY <3>1
    <3>2. CASE thread' = [thread EXCEPT ![t] = "load"] /\ UNCHANGED due
      <4>1. "load" \in Labels
        BY DEF Labels
      <4> QED
        BY <3>2, <4>1
    <3> QED
      BY <1>0, <3>1, <3>2
  <2> QED
    BY <2>1
<1>2. Room'
  BY DEF Room
<1>3. Walking'
  <2>1. scheduleList # <<>> => 1 \in 1..Len(scheduleList)
    OBVIOUS
  <2>2. \A u \in Client : ~Inside(u) /\ at'[u] = 1
    BY DEF TimeFree, Walking, Inside
  <2>3. \A u \in Client : Inside(u)' => u = t /\ thread'[u] = "load" /\ scheduleList # <<>>
    BY <1>0, <2>2 DEF Inside
  <2>4. \A u \in Client : thread'[u] # "store"
    BY <1>0, <2>2 DEF Inside
  <2> QED
    BY <2>1, <2>2, <2>3, <2>4 DEF Walking
<1>4. Registering'
  <2>1. Threads' = Threads /\ \A c \in Client : thread'[c] = "none" <=> thread[c] = "none"
    BY DEF Threads
  <2> QED
    BY <2>1, SameList DEF Registering
<1>5. NeverSkipped'
  BY NeverSkippedKept
<1> QED
  BY <1>1, <1>2, <1>3, <1>4, <1>5

(* A step of a thread inside keeps it one. *)
LEMMA RegisteringKept ==
    ASSUME Registering, UNCHANGED <<owners, buffer, needTimeScheduleList, scheduleList>>,
           \A c \in Client : thread'[c] = "none" <=> thread[c] = "none",
           \A c \in Client : ~Listed(c) => timeleft'[c] = timeleft[c]
    PROVE  Registering'
<1>1. Threads' = Threads
  BY DEF Threads
<1> QED
  BY <1>1, SameList DEF Registering, owners, buffer

LEMMA LoadTimeStep == ASSUME SafetyInv, NEW t \in Client, LoadTime(t) PROVE SafetyInv'
<1> USE DEF LoadTime, SafetyInv, TypeOK
<1>0. Inside(t)
  BY DEF Inside
<1>a. UNCHANGED <<pc, writes, size, erased, reads>>
  BY DEF owners, buffer
<1>b. /\ event(t) \in Client /\ Listed(event(t)) /\ timeleft[event(t)] \in 0..Period
      /\ timeleft[event(t)] # 0
  BY <1>0, OnlyHere
<1>1. event(t) \in Client /\ timeleft[event(t)] \in 1..Period /\ UNCHANGED <<pc, writes, size, erased, reads>>
  BY <1>a, <1>b, Numbers
<1>2. TypeOK'
  BY <1>1 DEF Labels, clock
<1>3. Room'
  BY <1>1 DEF Room
<1>4. Walking'
  BY <1>1 DEF Walking, Inside
<1>5. Registering'
  BY RegisteringKept
<1>6. NeverSkipped'
  BY NeverSkippedKept
<1> QED
  BY <1>2, <1>3, <1>4, <1>5, <1>6

LEMMA StoreTimeStep == ASSUME SafetyInv, NEW t \in Client, StoreTime(t) PROVE SafetyInv'
<1>0. Inside(t) /\ thread[t] = "store"
  BY DEF StoreTime, Inside
<1>1. /\ event(t) \in Client /\ Listed(event(t)) /\ loaded[t] \in 1..Period
      /\ \A d \in Client : Listed(d) => timeleft[d] # 0
  BY <1>0, OnlyHere DEF SafetyInv, Walking
<1>2. /\ thread' = [thread EXCEPT ![t] = "test"] /\ loaded' = [loaded EXCEPT ![t] = 0]
      /\ UNCHANGED <<pc, writes, size, erased, reads, needTimeScheduleList, scheduleList, at, due, age>>
  BY DEF StoreTime, owners, buffer, clock
<1>3. timeleft' = [timeleft EXCEPT ![event(t)] = loaded[t] - 1]
  <2>1. PICK n \in Nat : n = loaded[t] - 1 /\ n < Word
    BY <1>1, Numbers
  <2>2. n % Word = n
    BY <2>1, Numbers, Within
  <2> QED
    BY <2>1, <2>2 DEF StoreTime
<1>4. TypeOK'
  <2>1. timeleft' \in [Client -> 0..(Word - 1)] /\ loaded' \in [Client -> 0..(Word - 1)]
    BY <1>1, <1>2, <1>3, Numbers DEF SafetyInv, TypeOK
  <2>2. thread' \in [Client -> Labels \cup {"none"}]
    BY <1>2 DEF SafetyInv, TypeOK, Labels
  <2> QED
    BY <1>2, <2>1, <2>2 DEF SafetyInv, TypeOK
<1>5. Room'
  BY <1>2 DEF SafetyInv, Room
<1>6. Walking'
  BY <1>0, <1>2 DEF SafetyInv, TypeOK, Walking, Inside
<1>7. Registering'
  <2>1. \A c \in Client : thread'[c] = "none" <=> thread[c] = "none"
    BY <1>0, <1>2 DEF SafetyInv, TypeOK
  <2>2. \A c \in Client : ~Listed(c) => timeleft'[c] = timeleft[c]
    BY <1>1, <1>3 DEF SafetyInv, TypeOK
  <2>3. UNCHANGED <<owners, buffer, needTimeScheduleList, scheduleList>>
    BY DEF StoreTime
  <2> QED
    BY <2>1, <2>2, <2>3, RegisteringKept DEF SafetyInv
<1>8. NeverSkipped'
  <2>1. t \in Threads' /\ thread'[t] = "test" /\ event(t)' = event(t)
    BY <1>2 DEF Threads, event, SafetyInv, TypeOK
  <2>2. \A d \in Client : Listed(d) => timeleft[d] # 0 /\ timeleft[d] <= Period
    BY <1>1, Numbers DEF SafetyInv, NeverSkipped
  <2>3. \A d \in Client : timeleft'[d] = IF d = event(t) THEN loaded[t] - 1 ELSE timeleft[d]
    BY <1>1, <1>3 DEF SafetyInv, TypeOK
  <2>4. \A d \in Client : Listed(d)' =>
           timeleft'[d] <= Period /\ (timeleft'[d] = 0 => d = event(t))
    BY <1>1, <1>2, <2>2, <2>3, SameList, Numbers
  <2>5. thread'[t] \in {"test", "call"}
    BY <2>1
  <2> QED
    BY <2>1, <2>4, <2>5 DEF NeverSkipped
<1> QED
  BY <1>4, <1>5, <1>6, <1>7, <1>8 DEF SafetyInv

(* Going on to the next entry, or to sleep. *)
LEMMA Advance ==
    ASSUME SafetyInv, NEW t \in Client, Inside(t), advance(t),
           UNCHANGED <<owners, buffer, needTimeScheduleList, scheduleList, loaded>>
    PROVE  /\ thread' \in [Client -> Labels \cup {"none"}] /\ due' \in [Client -> 0..1]
           /\ at' \in [Client -> Nat \ {0}]
           /\ \A u \in Client : at'[u] = 1 \/ at'[u] <= Len(scheduleList)
           /\ Room' /\ Walking'
           /\ \A u \in Client : thread'[u] = "none" <=> thread[u] = "none"
<1>1. at[t] \in 1..Len(scheduleList) /\ Len(scheduleList) \in Nat
  BY OnlyHere
<1>2. /\ Room' /\ (\A u \in Client : u # t => ~Inside(u))
  BY OnlyHere DEF SafetyInv, Room, owners, buffer
<1>3. /\ thread \in [Client -> Labels \cup {"none"}] /\ due \in [Client -> 0..1]
      /\ at \in [Client -> Nat \ {0}] /\ UNCHANGED scheduleList
      /\ \A u \in Client : IF Inside(u) THEN at[u] \in 1..Len(scheduleList) ELSE at[u] = 1
  BY DEF SafetyInv, TypeOK, Walking
<1>4. CASE HasNext(t)
  <2>1. /\ thread' = [thread EXCEPT ![t] = "load"] /\ at' = [at EXCEPT ![t] = at[t] + 1]
        /\ UNCHANGED due
    BY <1>4 DEF advance
  <2>2. at[t] + 1 \in 1..Len(scheduleList)
    BY <1>1, <1>4 DEF HasNext
  <2>3. \A u \in Client : Inside(u)' => u = t
    BY <1>2, <2>1 DEF Inside
  <2>4. Walking'
    BY <1>2, <1>3, <2>1, <2>2, <2>3 DEF Walking, Inside
  <2> QED
    BY <1>2, <1>3, <2>1, <2>2, <2>4 DEF Labels, Inside
<1>5. CASE ~HasNext(t)
  <2>1. /\ thread' = [thread EXCEPT ![t] = "lock"] /\ at' = [at EXCEPT ![t] = 1]
        /\ due' = [due EXCEPT ![t] = 1]
    BY <1>5 DEF advance
  <2>2. \A u \in Client : ~Inside(u)' /\ at'[u] = 1
    BY <1>2, <1>3, <2>1 DEF Inside
  <2>3. Walking'
    BY <2>2 DEF Walking, Inside
  <2> QED
    BY <1>2, <1>3, <2>1, <2>2, <2>3 DEF Labels, Inside
<1> QED
  BY <1>4, <1>5

LEMMA TestTimeStep == ASSUME SafetyInv, NEW t \in Client, TestTime(t) PROVE SafetyInv'
<1> USE DEF TestTime, SafetyInv
<1>1. CASE timeleft[event(t)] = 0
  <2>1. thread' = [thread EXCEPT ![t] = "call"] /\ UNCHANGED <<at, due>>
    BY <1>1
  <2>2. TypeOK'
    BY <2>1 DEF TypeOK, Labels, owners, buffer
  <2>3. Room' /\ Walking'
    BY <2>1 DEF TypeOK, Room, Walking, Inside, owners, buffer
  <2>4. Registering'
    BY <2>1, RegisteringKept DEF TypeOK
  <2>5. NeverSkipped'
    <3>1. t \in Threads' /\ thread'[t] = "call" /\ event(t)' = event(t)
      BY <2>1 DEF Threads, event, TypeOK
    <3>2. \A d \in Client : Listed(d) /\ timeleft[d] = 0 => d = event(t)
      BY OnlyHere DEF Inside
    <3> QED
      BY <3>1, <3>2, SameList DEF NeverSkipped
  <2> QED
    BY <2>2, <2>3, <2>4, <2>5
<1>2. CASE timeleft[event(t)] # 0
  <2>1. /\ Inside(t) /\ advance(t)
        /\ UNCHANGED <<owners, buffer, needTimeScheduleList, scheduleList, loaded, timeleft, age>>
    BY <1>2 DEF Inside
  <2>2. TypeOK' /\ Room' /\ Walking'
    BY <2>1, Advance DEF TypeOK, owners, buffer
  <2>3. Registering'
    BY <2>1, Advance, RegisteringKept
  <2>4. NeverSkipped'
    <3>1. \A d \in Client : Listed(d) => timeleft[d] # 0
      BY <1>2, <2>1, OnlyHere
    <3> QED
      BY <2>1, <3>1, SameList DEF NeverSkipped
  <2> QED
    BY <2>2, <2>3, <2>4
<1> QED
  BY <1>1, <1>2

LEMMA CallBackStep == ASSUME SafetyInv, NEW t \in Client, CallBack(t) PROVE SafetyInv'
<1>1. /\ Inside(t) /\ advance(t) /\ event(t) \in Client /\ Listed(event(t))
      /\ UNCHANGED <<owners, buffer, needTimeScheduleList, scheduleList, loaded>>
      /\ timeleft' = [timeleft EXCEPT ![event(t)] = Period]
      /\ age' = [age EXCEPT ![event(t)] = 0]
  BY OnlyHere DEF CallBack, Arm, Inside
<1>2. TypeOK' /\ Room' /\ Walking'
  <2>1. timeleft' \in [Client -> 0..(Word - 1)] /\ age' \in [Client -> 0..(Period - 1)]
    BY <1>1, Numbers DEF SafetyInv, TypeOK
  <2> QED
    BY <1>1, <2>1, Advance DEF SafetyInv, TypeOK, owners, buffer
<1>3. Registering'
  BY <1>1, Advance, RegisteringKept DEF SafetyInv, TypeOK
<1>4. NeverSkipped'
  <2>1. \A d \in Client : Listed(d) =>
           timeleft[d] <= Period /\ (timeleft[d] = 0 => d = event(t))
    BY <1>1, OnlyHere DEF SafetyInv, NeverSkipped
  <2>2. \A d \in Client : timeleft'[d] = IF d = event(t) THEN Period ELSE timeleft[d]
    BY <1>1 DEF SafetyInv, TypeOK
  <2>3. \A d \in Client : Listed(d) => timeleft'[d] # 0 /\ timeleft'[d] <= Period
    BY <2>1, <2>2, Numbers
  <2> QED
    BY <1>1, <2>3, SameList DEF NeverSkipped
<1> QED
  BY <1>2, <1>3, <1>4 DEF SafetyInv

LEMMA SecondStep == ASSUME SafetyInv, Second PROVE SafetyInv'
<1> USE DEF Second, SafetyInv
<1>1. TypeOK'
  BY Numbers DEF TypeOK, owners, buffer, scheduler
<1>2. Room' /\ Walking'
  BY DEF Room, Walking, Inside, owners, buffer, scheduler
<1>3. Registering'
  BY RegisteringKept DEF scheduler
<1>4. NeverSkipped'
  BY NeverSkippedKept DEF scheduler
<1> QED
  BY <1>1, <1>2, <1>3, <1>4

-----------------------------------------------------------------------------
(* The seconds.  Steps of the owners and the readers change no count but   *)
(* to a whole period, and the passes of the thread not at all.             *)
LEMMA Alive == ASSUME NEW t \in Client, Threads = {t}
               PROVE  \A u \in Client : thread[u] # "none" <=> u = t
BY DEF Threads

LEMMA ReadyKept ==
    ASSUME IInv, UNCHANGED <<scheduleList, scheduler, due, age>>,
           \A d \in Client : Listed(d) => timeleft'[d] = timeleft[d] \/ timeleft'[d] = Period
    PROVE  Paced'
<1> SUFFICES ASSUME NEW t \in Client, NEW c \in Client, Threads' = {t}, Listed(c)', Once(c)'
             PROVE  /\ timeleft'[c] + age[c] >= Period - 1
                    /\ Ahead(t, c)' => timeleft'[c] + age[c] >= Period
                    /\ thread[t] = "store" /\ event(t) = c => loaded[t] + age[c] >= Period
                    /\ thread[t] = "call" /\ event(t) = c => age[c] = Period - 1
  BY DEF Paced, scheduler, event
<1>1. Threads = {t} /\ Listed(c) /\ Once(c) /\ (Ahead(t, c)' <=> Ahead(t, c))
  BY SameList, SameThreads DEF Ahead, Inside, scheduler
<1>2. /\ timeleft[c] + age[c] >= Period - 1
      /\ Ahead(t, c) => timeleft[c] + age[c] >= Period
      /\ thread[t] = "store" /\ event(t) = c => loaded[t] + age[c] >= Period
      /\ thread[t] = "call" /\ event(t) = c => age[c] = Period - 1
  BY <1>1 DEF IInv, Paced
<1>3. age[c] \in Nat /\ timeleft[c] \in Nat
  BY Numbers DEF IInv, SafetyInv, TypeOK
<1> QED
  BY <1>1, <1>2, <1>3, Numbers

LEMMA OwnersReady ==
    ASSUME IInv, NEW c \in Client,
           \/ Write(c) \/ TestThread(c) \/ SetAlarm(c)
           \/ MakeRoom(c) \/ AddBlock(c) \/ ReaderStep(c)
    PROVE  Paced'
<1>1. CASE Write(c) \/ TestThread(c) \/ MakeRoom(c) \/ AddBlock(c) \/ ReaderStep(c)
  <2>1. UNCHANGED <<scheduleList, scheduler, due, age, timeleft>>
    BY <1>1 DEF Write, TestThread, MakeRoom, AddBlock, ReaderStep, ReadErase, ReadPush, clock
  <2> QED
    BY <2>1, ReadyKept
<1>2. CASE SetAlarm(c)
  <2>1. CASE Listed(c)
    <3>1. UNCHANGED <<scheduleList, scheduler, due, age>>
      BY <1>2, <2>1 DEF SetAlarm
    <3>2. \A d \in Client : timeleft'[d] = timeleft[d] \/ timeleft'[d] = Period
      BY <1>2 DEF SetAlarm, Arm, IInv, SafetyInv, TypeOK
    <3> QED
      BY <3>1, <3>2, ReadyKept
  <2>2. CASE ~Listed(c)
    <3>1. UNCHANGED <<scheduleList, scheduler, due>>
      BY <1>2 DEF SetAlarm
    <3>2. \A d \in Client : d # c => timeleft'[d] = timeleft[d] /\ age'[d] = age[d]
      BY <1>2, <2>2 DEF SetAlarm, Arm, IInv, SafetyInv, TypeOK
    <3> SUFFICES ASSUME NEW t \in Client, NEW d \in Client, Threads' = {t}, Listed(d)', Once(d)'
                 PROVE  /\ timeleft'[d] + age'[d] >= Period - 1
                        /\ Ahead(t, d)' => timeleft'[d] + age'[d] >= Period
                        /\ thread'[t] = "store" /\ event(t)' = d => loaded'[t] + age'[d] >= Period
                        /\ thread'[t] = "call" /\ event(t)' = d => age'[d] = Period - 1
      BY DEF Paced
    <3>3. d # c /\ Threads = {t} /\ Listed(d) /\ Once(d) /\ (Ahead(t, d)' <=> Ahead(t, d))
          /\ UNCHANGED <<thread, loaded>> /\ event(t)' = event(t)
      BY <2>2, <3>1, SameList, SameThreads DEF Ahead, Inside, scheduler, event
    <3> QED
      BY <3>2, <3>3 DEF IInv, Paced
  <2> QED
    BY <2>1, <2>2
<1> QED
  BY <1>1, <1>2

(* Nothing is listed before there is a thread. *)
LEMMA CreateReady == ASSUME IInv, NEW c \in Client, CreateThread(c) PROVE Paced'
<1>1. Threads' = Threads \cup {c} /\ thread[c] = "none"
  BY DEF CreateThread, Threads, IInv, SafetyInv, TypeOK, Registering
<1>2. ASSUME NEW t \in Client, Threads' = {t} PROVE Threads = {}
  BY <1>1, <1>2 DEF Threads
<1>3. Threads = {} => \A d \in Client : ~Listed(d)
  BY DEF IInv, SafetyInv, Registering
<1>4. \A d \in Client : Listed(d)' <=> Listed(d)
  BY SameList DEF CreateThread
<1> QED
  BY <1>2, <1>3, <1>4 DEF Paced

LEMMA PushReady == ASSUME IInv, NEW c \in Client, PushAlarm(c) PROVE Paced'
<1>1. /\ scheduleList' \in Seq(Client) /\ Len(scheduleList') = Len(scheduleList) + 1
      /\ Len(scheduleList) \in Nat
      /\ scheduleList'[Len(scheduleList) + 1] = c
      /\ \A i \in 1..Len(scheduleList) : scheduleList'[i] = scheduleList[i]
      /\ \A d \in Client : Listed(d)' <=> Listed(d) \/ d = c
  BY Pushed DEF PushAlarm, IInv, SafetyInv, TypeOK
<1>2. \A t \in Client : ~Inside(t) /\ UNCHANGED <<thread, due, timeleft, age>>
  BY DEF PushAlarm, TimeFree, Inside, scheduler, clock
<1> SUFFICES ASSUME NEW t \in Client, NEW d \in Client, Threads' = {t}, Listed(d)', Once(d)'
             PROVE  /\ timeleft[d] + age[d] >= Period - 1
                    /\ Ahead(t, d)' => timeleft[d] + age[d] >= Period
                    /\ thread[t] \notin {"store", "call"}
  BY <1>2 DEF Paced
<1>3. thread[t] \notin {"store", "call"} /\ Threads = {t} /\ (Ahead(t, d)' => due[t] = 0)
  BY <1>2 DEF Inside, Threads, Ahead
<1>4. age[d] \in Nat /\ timeleft[d] \in Nat
  BY Numbers DEF IInv, SafetyInv, TypeOK
<1>5. CASE Listed(d)
  <2>1. Once(d)
    BY <1>1 DEF Once
  <2>2. Ahead(t, d)' => Ahead(t, d)
    BY <1>2, <1>3 DEF Ahead
  <2> QED
    BY <1>3, <1>5, <2>1, <2>2 DEF IInv, Paced
<1>6. CASE ~Listed(d)
  <2>1. d = c /\ pc[c] = "push"
    BY <1>1, <1>6 DEF PushAlarm
  <2>2. timeleft[d] = Period
    BY <1>6, <2>1 DEF IInv, SafetyInv, Registering
  <2> QED
    BY <1>3, <1>4, <2>2, Numbers
<1> QED
  BY <1>5, <1>6

(* What is to be shown of a step of the thread t, which is the only one.   *)
LEMMA ActorReady ==
    ASSUME NEW t \in Client, thread'[t] # "none",
           \A c \in Client : Threads' = {t} /\ Listed(c)' /\ Once(c)' =>
             /\ timeleft'[c] + age'[c] >= Period - 1
             /\ Ahead(t, c)' => timeleft'[c] + age'[c] >= Period
             /\ thread'[t] = "store" /\ event(t)' = c => loaded'[t] + age'[c] >= Period
             /\ thread'[t] = "call" /\ event(t)' = c => age'[c] = Period - 1
    PROVE  Paced'
<1>1. \A s \in Client : Threads' = {s} => s = t
  BY DEF Threads
<1> QED
  BY <1>1 DEF Paced

LEMMA LockReady == ASSUME IInv, NEW t \in Client, LockList(t) PROVE Paced'
<1>1. /\ UNCHANGED <<scheduleList, timeleft, age, loaded>> /\ ~Inside(t) /\ due[t] = 0
      /\ thread'[t] \in {"lock", "load"} /\ thread[t] = "lock"
      /\ \A c \in Client : thread'[c] # "none" <=> thread[c] # "none"
  BY DEF LockList, Inside, IInv, SafetyInv, TypeOK
<1>2. Threads' = Threads
  BY <1>1 DEF Threads
<1>3. \A c \in Client : age[c] \in Nat /\ timeleft[c] \in Nat
  BY Numbers DEF IInv, SafetyInv, TypeOK
<1>4. \A c \in Client : Threads' = {t} /\ Listed(c)' /\ Once(c)' => timeleft[c] + age[c] >= Period
  BY <1>1, <1>2, SameList DEF IInv, Paced, Ahead
<1>5. \A c \in Client : timeleft[c] + age[c] >= Period => timeleft[c] + age[c] >= Period - 1
  BY <1>3, Numbers
<1> QED
  BY <1>1, <1>4, <1>5, ActorReady

LEMMA LoadReady == ASSUME IInv, NEW t \in Client, LoadTime(t) PROVE Paced'
<1>1. /\ UNCHANGED <<scheduleList, timeleft, age, at>> /\ thread[t] = "load"
      /\ thread' = [thread EXCEPT ![t] = "store"] /\ thread'[t] = "store"
      /\ loaded'[t] = timeleft[event(t)]
  BY DEF LoadTime, clock, IInv, SafetyInv, TypeOK
<1>2. Threads' = Threads /\ event(t)' = event(t)
  BY <1>1 DEF Threads, event, IInv, SafetyInv, TypeOK
<1>3. Inside(t) /\ Inside(t)' /\ at[t] \in 1..Len(scheduleList)
  BY <1>1, OnlyHere DEF Inside, IInv
<1>4. \A c \in Client : Ahead(t, c)' => Ahead(t, c)
  BY <1>1, <1>3 DEF Ahead
<1>5. Ahead(t, event(t))
  BY <1>1, <1>3 DEF Ahead, event
<1>6. \A c \in Client : Threads' = {t} /\ Listed(c)' /\ Once(c)' =>
         /\ timeleft[c] + age[c] >= Period - 1
         /\ Ahead(t, c) => timeleft[c] + age[c] >= Period
  BY <1>1, <1>2, SameList DEF IInv, Paced
<1> QED
  BY <1>1, <1>2, <1>4, <1>5, <1>6, ActorReady

LEMMA StoreReady == ASSUME IInv, NEW t \in Client, StoreTime(t) PROVE Paced'
<1>1. /\ UNCHANGED <<scheduleList, age, at>> /\ thread[t] = "store" /\ thread'[t] = "test"
      /\ \A u \in Client : u # t => thread'[u] = thread[u]
  BY DEF StoreTime, clock, IInv, SafetyInv, TypeOK
<1>2. Threads' = Threads
  BY <1>1 DEF Threads
<1>3. Inside(t) /\ Inside(t)'
  BY <1>1 DEF Inside
<1>4. at[t] \in 1..Len(scheduleList) /\ event(t) \in Client
  BY <1>3, OnlyHere DEF IInv
<1>5. loaded[t] \in 1..Period
  BY <1>1 DEF IInv, SafetyInv, Walking
<1>6. timeleft' = [timeleft EXCEPT ![event(t)] = loaded[t] - 1]
  <2>1. PICK n \in Nat : n = loaded[t] - 1 /\ n < Word
    BY <1>5, Numbers
  <2>2. n % Word = n
    BY <2>1, Numbers, Within
  <2> QED
    BY <2>1, <2>2 DEF StoreTime
<1>7. \A c \in Client : timeleft'[c] = IF c = event(t) THEN loaded[t] - 1 ELSE timeleft[c]
  BY <1>6, <1>4 DEF IInv, SafetyInv, TypeOK
<1>8. \A c \in Client : Ahead(t, c)' => Ahead(t, c)
  BY <1>1, <1>3 DEF Ahead
<1>9. \A c \in Client : c = event(t) /\ Once(c) => ~Ahead(t, c)'
  BY <1>1, <1>3, <1>4 DEF Ahead, Once, event
<1>10. \A c \in Client : Threads' = {t} /\ Listed(c)' /\ Once(c)' =>
         /\ Once(c) /\ timeleft[c] + age[c] >= Period - 1
         /\ Ahead(t, c) => timeleft[c] + age[c] >= Period
         /\ event(t) = c => loaded[t] + age[c] >= Period
  BY <1>1, <1>2, SameList DEF IInv, Paced
<1>11. \A c \in Client : age[c] \in Nat
  BY Numbers DEF IInv, SafetyInv, TypeOK
<1>12. \A c \in Client : Threads' = {t} /\ Listed(c)' /\ Once(c)' =>
         /\ timeleft'[c] + age[c] >= Period - 1
         /\ Ahead(t, c)' => timeleft'[c] + age[c] >= Period
  <2> SUFFICES ASSUME NEW c \in Client, Threads' = {t}, Listed(c)', Once(c)'
               PROVE  /\ timeleft'[c] + age[c] >= Period - 1
                      /\ Ahead(t, c)' => timeleft'[c] + age[c] >= Period
    OBVIOUS
  <2>1. CASE c = event(t)
    <3>1. loaded[t] + age[c] >= Period /\ ~Ahead(t, c)' /\ timeleft'[c] = loaded[t] - 1
      BY <2>1, <1>7, <1>9, <1>10
    <3> QED
      BY <3>1, <1>5, <1>11, Numbers
  <2>2. CASE c # event(t)
    BY <2>2, <1>7, <1>8, <1>10
  <2> QED
    BY <2>1, <2>2
<1> QED
  BY <1>1, <1>12, ActorReady

LEMMA AdvanceReady ==
    ASSUME IInv, NEW t \in Client, Inside(t), advance(t), UNCHANGED scheduleList
    PROVE  /\ Threads' = Threads /\ thread'[t] \in {"load", "lock"}
           /\ \A c \in Client : Ahead(t, c)' => Ahead(t, c)
<1>1. at[t] \in 1..Len(scheduleList)
  BY OnlyHere DEF IInv
<1>2. \/ thread' = [thread EXCEPT ![t] = "load"] /\ at' = [at EXCEPT ![t] = at[t] + 1]
      \/ thread' = [thread EXCEPT ![t] = "lock"] /\ due' = [due EXCEPT ![t] = 1]
  BY DEF advance
<1>3. Threads' = Threads /\ thread'[t] \in {"load", "lock"}
  BY <1>2 DEF Threads, Inside, IInv, SafetyInv, TypeOK
<1>4. \A c \in Client : Ahead(t, c)' => Ahead(t, c)
  <2>1. CASE thread' = [thread EXCEPT ![t] = "load"] /\ at' = [at EXCEPT ![t] = at[t] + 1]
    <3>1. at'[t] = at[t] + 1 /\ Inside(t)'
      BY <2>1 DEF Inside, IInv, SafetyInv, TypeOK
    <3> QED
      BY <1>1, <3>1 DEF Ahead
  <2>2. CASE thread' = [thread EXCEPT ![t] = "lock"] /\ due' = [due EXCEPT ![t] = 1]
    BY <2>2 DEF Ahead, Inside, IInv, SafetyInv, TypeOK
  <2> QED
    BY <1>2, <2>1, <2>2
<1> QED
  BY <1>3, <1>4

LEMMA TestReady == ASSUME IInv, NEW t \in Client, TestTime(t) PROVE Paced'
<1>1. UNCHANGED <<scheduleList, age, timeleft>> /\ thread[t] = "test" /\ Inside(t)
  BY DEF TestTime, Inside
<1>2. /\ Threads' = Threads /\ thread'[t] \in {"call", "load", "lock"}
      /\ \A c \in Client : Ahead(t, c)' => Ahead(t, c)
  <2>1. CASE timeleft[event(t)] = 0
    <3>1. /\ thread' = [thread EXCEPT ![t] = "call"] /\ UNCHANGED at /\ thread'[t] = "call"
          /\ Inside(t)'
      BY <2>1 DEF TestTime, IInv, SafetyInv, TypeOK, Inside
    <3> QED
      BY <1>1, <3>1 DEF Threads, Ahead, IInv, SafetyInv, TypeOK
  <2>2. CASE timeleft[event(t)] # 0
    BY <1>1, <2>2, AdvanceReady DEF TestTime
  <2> QED
    BY <2>1, <2>2
<1>3. \A c \in Client : Threads' = {t} /\ Listed(c)' /\ Once(c)' =>
         /\ timeleft[c] + age[c] >= Period - 1
         /\ Ahead(t, c) => timeleft[c] + age[c] >= Period
  BY <1>1, <1>2, SameList DEF IInv, Paced
<1>4. \A c \in Client : age[c] \in 0..(Period - 1)
  BY DEF IInv, SafetyInv, TypeOK
<1>5. thread'[t] = "call" => event(t)' = event(t) /\ timeleft[event(t)] = 0
  <2>1. CASE timeleft[event(t)] = 0
    <3>1. UNCHANGED <<at, scheduleList>>
      BY <2>1 DEF TestTime
    <3> QED
      BY <2>1, <3>1 DEF event
  <2>2. CASE timeleft[event(t)] # 0
    BY <1>1, <2>2, AdvanceReady DEF TestTime
  <2> QED
    BY <2>1, <2>2
<1>6. \A c \in Client : Threads' = {t} /\ Listed(c)' /\ Once(c)' /\ timeleft[c] = 0 =>
         age[c] = Period - 1
  BY <1>3, <1>4, Numbers
<1> QED
  BY <1>1, <1>2, <1>3, <1>5, <1>6, ActorReady

LEMMA CallReady == ASSUME IInv, NEW t \in Client, CallBack(t) PROVE Paced'
<1>1. /\ UNCHANGED scheduleList /\ advance(t) /\ Inside(t)
      /\ timeleft' = [timeleft EXCEPT ![event(t)] = Period]
      /\ age' = [age EXCEPT ![event(t)] = 0]
  BY DEF CallBack, Arm, Inside
<1>2. /\ Threads' = Threads /\ thread'[t] \in {"load", "lock"}
      /\ \A c \in Client : Ahead(t, c)' => Ahead(t, c)
  BY <1>1, AdvanceReady
<1>3. \A c \in Client : Threads' = {t} /\ Listed(c)' /\ Once(c)' =>
         /\ timeleft[c] + age[c] >= Period - 1
         /\ Ahead(t, c) => timeleft[c] + age[c] >= Period
  BY <1>1, <1>2, SameList DEF IInv, Paced
<1>4. \A c \in Client : IF c = event(t) THEN timeleft'[c] = Period /\ age'[c] = 0
                         ELSE timeleft'[c] = timeleft[c] /\ age'[c] = age[c]
  BY <1>1 DEF IInv, SafetyInv, TypeOK
<1>5. \A c \in Client : c = event(t) => timeleft'[c] + age'[c] = Period
  BY <1>4, Numbers
<1> QED
  BY <1>2, <1>3, <1>4, <1>5, Numbers, ActorReady

LEMMA SecondReady == ASSUME IInv, Second PROVE Paced'
<1>1. /\ UNCHANGED <<scheduleList, timeleft, thread, at, loaded>>
      /\ \A t \in Client : due'[t] = 0
      /\ \A c \in Client : age'[c] = IF age[c] = Period - 1 THEN age[c] ELSE age[c] + 1
  BY DEF Second, scheduler
<1> SUFFICES ASSUME NEW t \in Client, NEW c \in Client, Threads = {t}, Listed(c), Once(c)
             PROVE  /\ timeleft[c] + age'[c] >= Period - 1
                    /\ Ahead(t, c)' => timeleft[c] + age'[c] >= Period
                    /\ thread[t] = "store" /\ event(t) = c => loaded[t] + age'[c] >= Period
                    /\ thread[t] = "call" /\ event(t) = c => age'[c] = Period - 1
  BY <1>1, SameList, SameThreads DEF Paced, event
<1>2. /\ timeleft[c] + age[c] >= Period - 1
      /\ Ahead(t, c) => timeleft[c] + age[c] >= Period
      /\ thread[t] = "store" /\ event(t) = c => loaded[t] + age[c] >= Period
      /\ thread[t] = "call" /\ event(t) = c => age[c] = Period - 1
  BY DEF IInv, Paced
<1>3. /\ age[c] \in Nat /\ timeleft[c] \in Nat /\ loaded[t] \in Nat
      /\ age'[c] = (IF age[c] = Period - 1 THEN age[c] ELSE age[c] + 1)
  BY <1>1, Numbers DEF IInv, SafetyInv, TypeOK
<1>4. CASE Inside(t)
  <2>1. Ahead(t, c)' => Ahead(t, c)
    BY <1>1, <1>4 DEF Ahead, Inside
  <2> QED
    BY <1>2, <1>3, <2>1, Numbers
<1>5. CASE ~Inside(t)
  <2>1. timeleft[c] # 0 /\ thread[t] \notin {"store", "call"}
    BY <1>5 DEF IInv, SafetyInv, NeverSkipped, Inside
  <2> QED
    BY <1>2, <1>3, <2>1, Numbers
<1> QED
  BY <1>4, <1>5

-----------------------------------------------------------------------------
LEMMA Step == IInv /\ [Next]_vars => IInv'
<1> SUFFICES ASSUME IInv, [Next]_vars PROVE IInv'
  OBVIOUS
<1>1. ASSUME NEW c \in Client, OwnerStep(c) \/ ReaderStep(c) PROVE IInv'
  BY <1>1, WriteStep, SetAlarmStep, TestThreadStep, CreateThreadStep, PushAlarmStep,
     MakeRoomStep, AddBlockStep, ReaderStepKeeps, OwnersReady, CreateReady, PushReady DEF OwnerStep, IInv
<1>2. ASSUME NEW t \in Client, ThreadStep(t) PROVE IInv'
  BY <1>2, LockListStep, LoadTimeStep, StoreTimeStep, TestTimeStep, CallBackStep, LockReady,
     LoadReady, StoreReady, TestReady, CallReady DEF ThreadStep, IInv
<1>3. CASE Second
  BY <1>3, SecondStep, SecondReady DEF IInv
<1>4. CASE UNCHANGED vars
  <2>1. UNCHANGED <<owners, buffer, needTimeScheduleList, scheduleList, timeleft, scheduler, clock>>
    BY <1>4 DEF vars
  <2>2. TypeOK' /\ Room' /\ Walking'
    BY <2>1 DEF IInv, SafetyInv, TypeOK, Room, Walking, Inside, owners, buffer, scheduler,
       clock
  <2>3. Registering'
    BY <2>1, RegisteringKept DEF IInv, SafetyInv, scheduler
  <2>4. NeverSkipped'
    BY <2>1, NeverSkippedKept DEF IInv, SafetyInv, scheduler
  <2>5. Paced'
    BY <2>1, ReadyKept DEF clock
  <2> QED
    BY <2>2, <2>3, <2>4, <2>5 DEF IInv, SafetyInv
<1> QED
  BY <1>1, <1>2, <1>3, <1>4 DEF Next

(* The inductive invariant: what the mutex excludes, what registering has  *)
(* done by each of its steps, and the seconds gone and left of each alarm. *)
THEOREM Invariant == Spec => []IInv
BY InitInv, Step, PTL DEF Spec

(* Every variable holds a value of its type; the unsigned count stays      *)
(* within its word, and a thread within the list.                          *)
THEOREM TypeCorrect == Spec => []TypeOK
<1>1. IInv => TypeOK
  BY DEF IInv, SafetyInv
<1> QED
  BY <1>1, Invariant, PTL

(* Although SetAlarm races with the thread's load, decrement and store, a  *)
(* count is never above its period and is zero only under the callback: it *)
(* cannot pass zero and wrap to 2^32-1 seconds.                            *)
THEOREM CountNeverSkipped == Spec => []NeverSkipped
<1>1. IInv => NeverSkipped
  BY DEF IInv, SafetyInv
<1> QED
  BY <1>1, Invariant, PTL

(* While one thread counts and the alarm is listed once, a buffer is reset *)
(* no more than a second before its period is over, whenever its owner     *)
(* registers again.                                                        *)
THEOREM PeriodKept == Spec => KeepsPeriod
<1>1. IInv /\ [Next]_vars =>
        [\A t \in Client : thread[t] = "call" /\ thread'[t] # "call" =>
             \/ age[event(t)] = Period - 1
             \/ Cardinality(Threads) > 1 \/ ~ListedOnce(event(t))]_vars
  <2> SUFFICES ASSUME IInv, Next, NEW t \in Client, thread[t] = "call", thread'[t] # "call",
                      ~(Cardinality(Threads) > 1), ListedOnce(event(t))
               PROVE  age[event(t)] = Period - 1
    OBVIOUS
  <2>1. Inside(t) /\ t \in Threads
    BY DEF Inside, Threads
  <2>2. event(t) \in Client /\ Listed(event(t))
    BY <2>1, OnlyHere DEF IInv
  <2>3. Threads = {t}
    <3>1. IsFiniteSet(Threads)
      BY FS_Subset, AlarmAssumption DEF Threads
    <3>2. Cardinality(Threads) \in Nat /\ Cardinality(Threads) # 0
      BY <2>1, <3>1, FS_CardinalityType, FS_EmptySet
    <3>3. Cardinality(Threads) = 1
      BY <3>2
    <3>4. PICK x : Threads = {x}
      BY <3>1, <3>3, FS_Singleton
    <3> QED
      BY <2>1, <3>4
  <2>4. Once(event(t))
    <3> DEFINE S == {i \in 1..Len(scheduleList) : scheduleList[i] = event(t)}
    <3>1. scheduleList \in Seq(Client) /\ Len(scheduleList) \in Nat
      BY DEF IInv, SafetyInv, TypeOK
    <3>2. IsFiniteSet(S)
      <4>1. IsFiniteSet(1..Len(scheduleList)) /\ S \in SUBSET (1..Len(scheduleList))
        BY <3>1, FS_Interval
      <4> QED
        BY <4>1, FS_Subset
    <3>3. Cardinality(S) <= 1
      <4>1. DOMAIN scheduleList = 1..Len(scheduleList)
        BY <3>1
      <4> QED
        BY <4>1 DEF ListedOnce
    <3>4. ASSUME NEW i \in S, NEW j \in S PROVE i = j
      <4>1. Cardinality(S) \in Nat /\ Cardinality(S) # 0
        BY <3>2, FS_CardinalityType, FS_EmptySet
      <4>2. Cardinality(S) = 1
        BY <3>3, <4>1
      <4>3. PICK x : S = {x}
        BY <3>2, <4>2, FS_Singleton
      <4> QED
        BY <4>3
    <3> QED
      BY <3>4 DEF Once
  <2> QED
    BY <2>2, <2>3, <2>4 DEF IInv, Paced
<1> QED
  BY <1>1, Invariant, PTL DEF Spec, KeepsPeriod
=============================================================================
