----------------------------- MODULE BlockBuffer -----------------------------
(***************************************************************************)
(* One client's buffer under LRU, LFU, DW or LFRU (bufManagerBy*.cpp):     *)
(* which block a strategy evicts, and what its mutex protects while the    *)
(* owner writes, peers read and the alarm resets the counts.               *)
(*                                                                         *)
(* A critical section of the owner or the alarm is one action; a peer's    *)
(* read is two, so that another thread can be found inside.  Two threads   *)
(* inside the list at once are a data race: corrupt is set and nothing     *)
(* more is said of the buffer.  An eviction that finds no victim ends the  *)
(* process: it dereferences an iterator never set, which libstdc++ makes   *)
(* null.  LRFU has no mutex and is left out.                               *)
(***************************************************************************)
EXTENDS Integers, SequencesExt

CONSTANTS
    Strategy,   \* the strategies checked
    BlockNum,   \* values of _blockNum, by strategy
    Block,      \* pairs of file and segment numbers
    Reader,     \* threads that read the buffer: peers', and its own client's
    Period,     \* _period, added to times although not in their unit
    Word,       \* 2^64: times are unsigned long
    MaxWrites, MaxReads, MaxTime, MaxResets    \* bounds, the first two by strategy

ASSUME BufferAssumption ==
    /\ Strategy \subseteq {"LRU", "LFU", "DW", "LFRU"}
    /\ BlockNum \in [Strategy -> SUBSET (Nat \ {0})]
    /\ <<>> \notin Block             \* NoBlock
    /\ Word \in Nat /\ Period \in 1..(Word - 1)
    /\ MaxWrites \in [Strategy -> Nat] /\ MaxReads \in [Strategy -> Nat]
    /\ MaxTime \in 0..(Word - 1) /\ MaxResets \in Nat

VARIABLES
    strategy, blockNum,        \* chosen by the configuration
    queue,          \* buf or lruQueue
    pc,             \* where the owner is in writeFileSegment; crashed: the process is gone
    block, victim,  \* the block it writes, the block it evicted
    recallTime,     \* LFRU: the clock eliminateBlock read
    t0, resetting,  \* LFRU: start of the period; clock the alarm read, or NoTime
    reading,        \* the block each reader looks for, inside the mutex, or NoBlock
    locked,         \* the mutex
    corrupt,        \* two threads were inside the list
    told,           \* what the server has been told of
    now,            \* the clock
    recent,         \* history: buffered blocks, least recently read or added first
    stolen,         \* history: the reader inside has lost the mutex to a second unlock
    writes, reads, resets                      \* bounded
vars == <<strategy, blockNum, queue, pc, block, victim, recallTime, t0, resetting, reading,
          locked, corrupt, told, now, recent, stolen, writes, reads, resets>>

NoBlock == <<>>
NoTime  == -1
config    == <<strategy, blockNum>>
lock      == <<locked, stolen>>
mutexVars == <<lock, corrupt>>
history   == <<recent, reads, resets>>
clocks    == <<t0, resetting, now>>

Blocks  == {queue[i].blk : i \in DOMAIN queue}
inside  == {r \in Reader : reading[r] # NoBlock}
Without(s, b) == RemoveAt(s, CHOOSE k \in DOMAIN s : s[k] = b)   \* for recent

-----------------------------------------------------------------------------
(* Faults: each a plausible bug in the operator named beside it.           *)
AlwaysTwice     == TRUE                                          \* UnlocksTwice
OverFull        == Len(queue) > blockNum               \* Full
TouchInPlace(i) == [queue EXCEPT ![i].new = @ + 1]               \* Touched

-----------------------------------------------------------------------------
(* The blocks and what the strategies keep of them: counts, periodCounter  *)
(* or m_histNew in new, m_histOld in old, lastAccessTime in last.          *)
NewBlock(b) == [blk |-> b, new |-> IF strategy = "DW" THEN 0 ELSE 1,
                old |-> 0, last |-> t0]
Full == Len(queue) >= blockNum

(* readFileSegment on the block at i. *)
Touched(i) ==
    CASE strategy = "LRU"  -> Append(RemoveAt(queue, i), queue[i])
      [] strategy = "DW"   -> Append(RemoveAt(queue, i), [queue[i] EXCEPT !.new = @ + 1])
      [] strategy = "LFU"  -> [queue EXCEPT ![i].new = @ + 1]
      [] strategy = "LFRU" -> [queue EXCEPT ![i] =
                           [blk |-> @.blk, new |-> @.new + 1, old |-> @.old, last |-> now]]

(* eliminateBlock's choice.  LFRU's weight is the sum of two doubles; x is *)
(* heavier than y when it is so after both are multiplied out.  LFRU's     *)
(* iterator stays unset when no block weighs more than 0.0, DW's when its  *)
(* buffer is too small for it to look at any.                              *)
FirstLeast(C, w) == {i \in C : \A j \in C : w[i] < w[j] \/ (w[i] = w[j] /\ i <= j)}
maxIndex  == (618 * blockNum) \div 1000
Candidate == 1..(maxIndex - 1)
elapsed   == (recallTime - t0) % Word
Age(x)    == ((Period - elapsed) % Word) * ((recallTime - x.last) % Word)
Heavier(x, y) == (Age(x) * x.new + elapsed * elapsed) * y.new
                   > (Age(y) * y.new + elapsed * elapsed) * x.new
Heaviest  == {i \in DOMAIN queue : Age(queue[i]) > 0 \/ elapsed > 0}
VictimLRU == {1}
VictimLFU == FirstLeast(DOMAIN queue, [i \in DOMAIN queue |-> queue[i].new])
VictimDW  ==
    LET unread == {i \in Candidate : queue[i].new = 0}
        weight == [i \in Candidate |-> queue[i].old * 5 + queue[i].new * 6]
    IN IF unread # {} THEN {i \in unread : \A j \in unread : i <= j}
       ELSE FirstLeast(Candidate, weight)
VictimLFRU ==
    {i \in Heaviest : \A j \in Heaviest :
        ~Heavier(queue[j], queue[i]) /\ (~Heavier(queue[i], queue[j]) => i <= j)}
Victim == CASE strategy = "LRU" -> VictimLRU [] strategy = "LFU"  -> VictimLFU
            [] strategy = "DW"  -> VictimDW  [] strategy = "LFRU" -> VictimLFRU
VictimUnset == \/ strategy = "DW" /\ Candidate = {}
               \/ strategy = "LFRU" /\ Heaviest = {}

(* The mutex: a thread that enters while another is inside races with it.  *)
UnlocksTwice == strategy \in {"LRU", "LFU"}
EnterAlone   == ~locked /\ corrupt' = (inside # {})

-----------------------------------------------------------------------------
Init ==
    /\ strategy \in Strategy /\ blockNum \in BlockNum[strategy]
    /\ queue = <<>> /\ told = {} /\ recent = <<>>
    /\ pc = "idle" /\ block = NoBlock /\ victim = NoBlock
    /\ recallTime = 0 /\ t0 = 0 /\ resetting = NoTime /\ now = 0
    /\ reading = [r \in Reader |-> NoBlock]
    /\ locked = FALSE /\ corrupt = FALSE /\ stolen = FALSE
    /\ writes = 0 /\ reads = 0 /\ resets = 0

(* writeFileSegment, by the owner. *)
Write(b) ==
    /\ pc = "idle" /\ writes < MaxWrites[strategy]
    /\ block' = b /\ writes' = writes + 1
    /\ pc' = "check"
    /\ UNCHANGED <<config, queue, victim, recallTime, clocks, reading, mutexVars, told,
                   history>>

CheckFull ==
    /\ pc = "check" /\ EnterAlone
    /\ pc' = IF ~Full THEN "add" ELSE IF strategy = "LFRU" THEN "clock" ELSE "evict"
    /\ UNCHANGED <<config, queue, block, victim, recallTime, clocks, reading, lock, told,
                   history, writes>>

ReadClock ==    \* LFRU's eliminateBlock reads the clock before it locks
    /\ pc = "clock"
    /\ recallTime' = now
    /\ pc' = "evict"
    /\ UNCHANGED <<config, queue, block, victim, clocks, reading, mutexVars, told,
                   history, writes>>

Evict ==
    /\ pc = "evict" /\ EnterAlone
    /\ \/ \E i \in Victim : /\ victim' = queue[i].blk
                            /\ queue' = RemoveAt(queue, i)
                            /\ recent' = Without(recent, queue[i].blk)
                            /\ pc' = "tellEvicted"
       \/ VictimUnset /\ pc' = "crashed" /\ UNCHANGED <<victim, queue, recent>>
    /\ UNCHANGED <<config, block, recallTime, clocks, reading, lock, told, reads, resets,
                   writes>>

TellEvicted ==
    /\ pc = "tellEvicted"
    /\ told' = told \ {victim}
    /\ pc' = IF UnlocksTwice THEN "unlock" ELSE "add"
    /\ UNCHANGED <<config, queue, block, victim, recallTime, clocks, reading, mutexVars,
                   history, writes>>

UnlockAgain ==  \* whoever holds the mutex by now
    /\ pc = "unlock"
    /\ locked' = FALSE
    /\ stolen' = (inside # {})
    /\ pc' = "add"
    /\ UNCHANGED <<config, queue, block, victim, recallTime, clocks, reading, corrupt, told,
                   history, writes>>

AddBlock ==     \* haveSegment
    /\ pc = "add" /\ EnterAlone
    /\ pc' = IF block \in Blocks THEN "idle" ELSE "push"
    /\ UNCHANGED <<config, queue, block, victim, recallTime, clocks, reading, lock, told,
                   history, writes>>

PushBack ==
    /\ pc = "push" /\ EnterAlone
    /\ queue' = Append(queue, NewBlock(block))
    /\ recent' = Append(recent, block)
    /\ pc' = "tellAdded"
    /\ UNCHANGED <<config, block, victim, recallTime, clocks, reading, lock, told, reads,
                   resets, writes>>

TellAdded ==
    /\ pc = "tellAdded"
    /\ told' = told \cup {block}
    /\ pc' = "idle"
    /\ UNCHANGED <<config, queue, block, victim, recallTime, clocks, reading, mutexVars,
                   history, writes>>

(* readFileSegment, by a reader. *)
ReadLock(r, b) ==
    /\ reading[r] = NoBlock /\ reads < MaxReads[strategy]
    /\ EnterAlone
    /\ reading' = [reading EXCEPT ![r] = b]
    /\ reads' = reads + 1
    /\ locked' = TRUE
    /\ UNCHANGED <<config, queue, pc, block, victim, recallTime, clocks, stolen, told, recent,
                   resets, writes>>

ReadUnlock(r) ==
    /\ reading[r] # NoBlock
    /\ \/ \E i \in DOMAIN queue :
             /\ queue[i].blk = reading[r]
             /\ queue' = Touched(i)
             /\ recent' = Append(Without(recent, reading[r]), reading[r])
       \/ reading[r] \notin Blocks /\ UNCHANGED <<queue, recent>>
    /\ reading' = [reading EXCEPT ![r] = NoBlock]
    /\ locked' = FALSE /\ stolen' = FALSE
    /\ UNCHANGED <<config, pc, block, victim, recallTime, clocks, corrupt, told, reads, resets,
                   writes>>

(* blockReset, by the alarm thread, which the first write registers with;  *)
(* LFRU reads the clock before it locks.                                   *)
ResetClock ==
    /\ strategy \in {"DW", "LFRU"} /\ block # NoBlock
    /\ resetting = NoTime /\ resets < MaxResets
    /\ resetting' = now
    /\ UNCHANGED <<config, queue, pc, block, victim, recallTime, t0, now, reading, mutexVars,
                   told, history, writes>>

BlockReset ==
    /\ resetting # NoTime /\ EnterAlone
    /\ queue' = [i \in DOMAIN queue |->
          LET x == queue[i]
          IN IF strategy = "DW"
             THEN [blk |-> x.blk, new |-> 0, old |-> x.new, last |-> x.last]
             ELSE [blk |-> x.blk, new |-> 1, old |-> x.old, last |-> resetting]]
    /\ t0' = IF strategy = "DW" THEN t0 ELSE resetting
    /\ resetting' = NoTime
    /\ resets' = resets + 1
    /\ UNCHANGED <<config, pc, block, victim, recallTime, now, reading, lock, told, recent,
                   reads, writes>>

Tick ==
    /\ strategy = "LFRU" /\ now < MaxTime
    /\ now' = now + 1
    /\ UNCHANGED <<config, queue, pc, block, victim, recallTime, t0, resetting, reading,
                   mutexVars, told, history, writes>>

Owner == \/ \E b \in Block : Write(b)
         \/ CheckFull \/ ReadClock \/ Evict \/ TellEvicted \/ UnlockAgain
         \/ AddBlock \/ PushBack \/ TellAdded
Read  == \E r \in Reader : ReadUnlock(r) \/ \E b \in Block : ReadLock(r, b)
Alarm == ResetClock \/ BlockReset

Next == ~corrupt /\ pc # "crashed" /\ (Owner \/ Read \/ Alarm \/ Tick)
Spec == Init /\ [][Next]_vars

-----------------------------------------------------------------------------
(* Every variable holds a value of its type. *)
TypeOK ==
    /\ strategy \in Strategy /\ blockNum \in BlockNum[strategy]
    /\ queue \in Seq([blk : Block, new : Nat, old : Nat, last : 0..MaxTime])
    /\ recent \in Seq(Block)
    /\ pc \in {"idle", "check", "clock", "evict", "tellEvicted", "unlock", "add", "push",
               "tellAdded", "crashed"}
    /\ block \in Block \cup {NoBlock} /\ victim \in Block \cup {NoBlock}
    /\ reading \in [Reader -> Block \cup {NoBlock}]
    /\ recallTime \in Nat /\ t0 \in Nat /\ now \in 0..MaxTime
    /\ resetting \in Nat \cup {NoTime}
    /\ {locked, corrupt, stolen} \subseteq BOOLEAN /\ told \subseteq Block
    /\ writes \in Nat /\ reads \in Nat /\ resets \in Nat

(* The mutex keeps the owner, its peers and the alarm apart: two of them   *)
(* get into the list only under LRU or LFU, and only after a write into a  *)
(* full buffer unlocked the mutex a second time, in a reader's place.      *)
ListExclusive == corrupt => strategy \in {"LRU", "LFU"} /\ stolen

(* LRU evicts the block least recently read or added, whoever read it and  *)
(* between whichever steps of the write; DW one of the 0.618 of them that  *)
(* have been left longest.  No eviction fails to find a victim but DW's    *)
(* from fewer than four blocks, and LFRU's when the clock has not moved    *)
(* since the counts were reset nor any block been read since.              *)
Exposed == IF strategy = "DW" THEN 1..(maxIndex - 1) ELSE {1}
NoneAged == recallTime = t0 /\ \A i \in DOMAIN queue : queue[i].last = t0
RecentKept ==
    [][pc = "evict" =>
         /\ pc' = "tellEvicted" /\ strategy \in {"LRU", "DW"}
              => victim' \in {recent[i] : i \in Exposed}
         /\ pc' = "crashed" => \/ strategy = "DW" /\ blockNum < 4
                               \/ strategy = "LFRU" /\ NoneAged]_vars

(* Seen from outside every strategy is a buffer of _blockNum blocks, until *)
(* two threads are in its list or an eviction ends the process.            *)
Abstract == INSTANCE Buffer WITH capacity <- blockNum, held <- Blocks
BufferRefined == Abstract!Spec
=============================================================================
