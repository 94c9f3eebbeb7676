-------------------------- MODULE BlockBufferProofs --------------------------
(***************************************************************************)
(* Proofs about BlockBuffer, for every capacity, number of readers and     *)
(* length of a run: what lets two threads into the list, LRU and DW spare  *)
(* what was read last and when no victim is found, and LRU, LFU, DW and    *)
(* LFRU are the abstract Buffer seen from outside.                         *)
(***************************************************************************)
EXTENDS BlockBuffer, FiniteSetTheorems, TLAPS

USE DEF config, lock     \* groups of variables

Entry == [blk : Block, new : Nat, old : Nat, last : 0..MaxTime]

(* The variables the blocks depend on; recent is history and left out.     *)
Typed ==
    /\ strategy \in Strategy /\ blockNum \in BlockNum[strategy]
    /\ queue \in Seq(Entry)
    /\ block \in Block \cup {NoBlock} /\ (pc # "idle" => block \in Block)
    /\ reading \in [Reader -> Block \cup {NoBlock}]
    /\ t0 \in 0..MaxTime /\ recallTime \in 0..MaxTime /\ now \in 0..MaxTime /\ resetting \in (0..MaxTime) \cup {NoTime}
    /\ told \subseteq Block

Listing(q)  == {q[i].blk : i \in DOMAIN q}
Distinct(q) == \A i, j \in DOMAIN q : q[i].blk = q[j].blk => i = j

(* Only LRU and LFU can be in "unlock".  Until two threads are inside the *)
(* list, at most one reader is, and it holds the mutex or has been robbed  *)
(* of it.                                                                  *)
Excludes ==
    /\ pc = "unlock" => UnlocksTwice
    /\ stolen => UnlocksTwice
    /\ corrupt => stolen
    /\ ~corrupt => /\ inside # {} <=> locked \/ stolen
                   /\ \A r, s \in inside : r = s

(* There is room from the check, or the eviction, to the push; the server  *)
(* knows the buffer but for the block the owner is about to tell of.       *)
Writing ==
    /\ Distinct(queue) /\ Len(queue) <= blockNum
    /\ pc \in {"clock", "evict"} => Len(queue) = blockNum
    /\ pc \in {"tellEvicted", "unlock", "add", "push"} => Len(queue) < blockNum
    /\ pc = "push" => block \notin Blocks
    /\ told = CASE pc = "tellEvicted" -> Blocks \cup {victim}
                [] pc = "tellAdded"   -> Blocks \ {block}
                [] OTHER              -> Blocks
    /\ pc = "tellEvicted" => victim \notin Blocks
    /\ pc = "tellAdded" => block \in Blocks

IInv == Typed /\ Excludes /\ Writing

-----------------------------------------------------------------------------
(* A list of distinct blocks has as many blocks as entries.                *)
LEMMA Counted ==
    ASSUME NEW q \in Seq(Entry), Distinct(q)
    PROVE  IsFiniteSet(Listing(q)) /\ Cardinality(Listing(q)) = Len(q)
<1> DEFINE f == [i \in 1..Len(q) |-> q[i].blk]
<1>1. f \in Bijection(1..Len(q), Listing(q))
  BY DEF Bijection, Injection, Surjection, IsInjective, Listing, Distinct
<1>2. ExistsBijection(1..Len(q), Listing(q))
  BY <1>1 DEF ExistsBijection
<1>3. \A n \in Nat : IsFiniteSet(1..n) /\ Cardinality(1..n) = n
  BY FS_Interval
<1>4. Len(q) \in Nat
  OBVIOUS
<1> QED
  BY <1>2, <1>3, <1>4, FS_Bijection

(* Taking an element out moves the later ones up. *)
LEMMA Cut ==
    ASSUME NEW S, NEW q \in Seq(S), NEW i \in 1..Len(q)
    PROVE  LET r == RemoveAt(q, i)
           IN  /\ r \in Seq(S) /\ Len(r) = Len(q) - 1
               /\ \A k \in 1..Len(r) : r[k] = IF k < i THEN q[k] ELSE q[k + 1]
<1> DEFINE r == RemoveAt(q, i)
           a == SubSeq(q, 1, i - 1)  b == SubSeq(q, i + 1, Len(q))
<1>1. a \in Seq(S) /\ Len(a) = i - 1 /\ \A k \in 1..(i - 1) : a[k] = q[k]
  OBVIOUS
<1>2. b \in Seq(S) /\ Len(b) = Len(q) - i /\ \A k \in 1..(Len(q) - i) : b[k] = q[i + k]
  OBVIOUS
<1>3. r = a \o b
  BY DEF RemoveAt
<1> HIDE DEF a, b, r
<1>4. r \in Seq(S) /\ Len(r) = Len(a) + Len(b) /\ Len(r) = Len(q) - 1
  <2>1. a \in Seq(S) /\ b \in Seq(S)
    BY <1>1, <1>2
  <2>2. a \o b \in Seq(S) /\ Len(a \o b) = Len(a) + Len(b)
    BY ONLY <2>1
  <2>3. Len(q) \in Nat
    OBVIOUS
  <2> QED
    BY <1>1, <1>2, <1>3, <2>2, <2>3
<1>5. ASSUME NEW k \in 1..Len(r) PROVE r[k] = IF k < i THEN q[k] ELSE q[k + 1]
  <2>1. r[k] = IF k <= Len(a) THEN a[k] ELSE b[k - Len(a)]
    BY <1>1, <1>2, <1>3, <1>4
  <2>2. CASE k < i
    BY <1>1, <2>1, <2>2
  <2>3. CASE ~(k < i)
    <3>1. k - (i - 1) \in 1..(Len(q) - i) /\ i + (k - (i - 1)) = k + 1
      BY <1>4, <2>3
    <3> QED
      BY <1>1, <1>2, <2>1, <2>3, <3>1
  <2> QED
    BY <2>2, <2>3
<1> QED
  BY <1>4, <1>5 DEF r

(* Taking an entry out takes its block out. *)
LEMMA Removed ==
    ASSUME NEW q \in Seq(Entry), Distinct(q), NEW i \in 1..Len(q)
    PROVE  LET r == RemoveAt(q, i)
           IN  /\ r \in Seq(Entry) /\ Len(r) = Len(q) - 1 /\ Distinct(r)
               /\ Listing(r) = Listing(q) \ {q[i].blk}
<1> DEFINE r == RemoveAt(q, i)
<1>1. /\ r \in Seq(Entry) /\ Len(r) = Len(q) - 1
      /\ \A k \in 1..Len(r) : r[k] = IF k < i THEN q[k] ELSE q[k + 1]
  BY Cut
<1> HIDE DEF r
<1>2. \A k \in 1..Len(r) : \E n \in 1..Len(q) : n # i /\ r[k] = q[n]
  BY <1>1
<1>3. \A n \in 1..Len(q) : n # i => \E k \in 1..Len(r) : r[k] = q[n]
  <2> SUFFICES ASSUME NEW n \in 1..Len(q), n # i PROVE \E k \in 1..Len(r) : r[k] = q[n]
    OBVIOUS
  <2>1. CASE n < i
    BY <2>1, <1>1
  <2>2. CASE n > i
    <3>1. n - 1 \in 1..Len(r) /\ r[n - 1] = q[n]
      BY <2>2, <1>1
    <3> QED
      BY <3>1
  <2> QED
    BY <2>1, <2>2
<1>4. Distinct(r)
  BY <1>1 DEF Distinct
<1>5. Listing(r) = Listing(q) \ {q[i].blk}
  <2>1. DOMAIN r = 1..Len(r) /\ DOMAIN q = 1..Len(q)
    BY <1>1
  <2>2. ASSUME NEW x \in Listing(r) PROVE x \in Listing(q) \ {q[i].blk}
    <3>1. PICK k \in 1..Len(r) : x = r[k].blk
      BY <2>1 DEF Listing
    <3>2. PICK n \in 1..Len(q) : n # i /\ r[k] = q[n]
      BY <1>2
    <3> QED
      BY <2>1, <3>1, <3>2 DEF Listing, Distinct
  <2>3. ASSUME NEW x \in Listing(q), x # q[i].blk PROVE x \in Listing(r)
    <3>1. PICK n \in 1..Len(q) : x = q[n].blk
      BY <2>1 DEF Listing
    <3>2. PICK k \in 1..Len(r) : r[k] = q[n]
      BY <1>3, <2>3, <3>1
    <3> QED
      BY <2>1, <3>1, <3>2 DEF Listing
  <2> QED
    BY <2>2, <2>3
<1> QED
  BY <1>1, <1>4, <1>5 DEF r

(* Appending an entry adds its block. *)
LEMMA Appended ==
    ASSUME NEW q \in Seq(Entry), Distinct(q), NEW e \in Entry, e.blk \notin Listing(q)
    PROVE  LET r == Append(q, e)
           IN  /\ r \in Seq(Entry) /\ Len(r) = Len(q) + 1 /\ Distinct(r)
               /\ Listing(r) = Listing(q) \cup {e.blk}
<1> DEFINE r == Append(q, e)
<1>1. /\ r \in Seq(Entry) /\ Len(r) = Len(q) + 1 /\ r[Len(q) + 1] = e
      /\ \A k \in 1..Len(q) : r[k] = q[k]
  OBVIOUS
<1> HIDE DEF r
<1>2. Distinct(r)
  BY <1>1 DEF Distinct, Listing
<1>3. Listing(r) = Listing(q) \cup {e.blk}
  BY <1>1 DEF Listing
<1> QED
  BY <1>1, <1>2, <1>3 DEF r

(* Changing what is kept of the blocks changes no block. *)
LEMMA Kept ==
    ASSUME NEW q \in Seq(Entry), Distinct(q), NEW r \in Seq(Entry), Len(r) = Len(q),
           \A i \in 1..Len(q) : r[i].blk = q[i].blk
    PROVE  Distinct(r) /\ Listing(r) = Listing(q)
BY DEF Distinct, Listing

(* What a strategy chooses is in the list, which is full at that moment.   *)
LEMMA VictimListed ==
    ASSUME IInv, pc = "evict", NEW i \in Victim
    PROVE  i \in 1..Len(queue)
<1>1. /\ strategy \in {"LRU", "LFU", "DW", "LFRU"} /\ blockNum \in Nat \ {0}
      /\ Len(queue) = blockNum /\ DOMAIN queue = 1..Len(queue)
  BY BufferAssumption DEF IInv, Typed, Writing
<1>2. CASE strategy = "LRU"
  BY <1>1, <1>2 DEF Victim, VictimLRU
<1>3. CASE strategy = "LFU"
  BY <1>1, <1>3 DEF Victim, VictimLFU, FirstLeast
<1>4. CASE strategy = "DW"
  <2>1. \A n \in Nat : (618 * n) \div 1000 <= n /\ (618 * n) \div 1000 \in Nat
    OBVIOUS
  <2>2. i \in Candidate
    BY <1>4 DEF Victim, VictimDW, FirstLeast
  <2> QED
    BY <1>1, <2>1, <2>2 DEF Candidate, maxIndex
<1>5. CASE strategy = "LFRU"
  BY <1>1, <1>5 DEF Victim, VictimLFRU, Heaviest
<1> QED
  BY <1>1, <1>2, <1>3, <1>4, <1>5

-----------------------------------------------------------------------------
LEMMA InitInv == Init => IInv
<1> SUFFICES ASSUME Init PROVE IInv
  OBVIOUS
<1>1. Typed
  BY BufferAssumption DEF Init, Typed
<1>2. Excludes
  BY DEF Init, Excludes, inside
<1>3. Writing
  BY <1>1, BufferAssumption DEF Init, Writing, Distinct, Blocks, Typed
<1> QED
  BY <1>1, <1>2, <1>3 DEF IInv

(* A thread that enters an unlocked list is alone, where the mutex works.  *)
LEMMA Alone ==
    ASSUME Excludes, ~corrupt, EnterAlone, UNCHANGED <<strategy, reading, locked, stolen>>,
           pc' = "unlock" => UnlocksTwice
    PROVE  Excludes'
BY DEF Excludes, EnterAlone, UnlocksTwice, inside

LEMMA WriteStep == ASSUME IInv, ~corrupt, NEW b \in Block, Write(b) PROVE IInv'
<1>1. Typed'
  BY DEF Write, IInv, Typed, clocks, mutexVars, history
<1>2. Excludes'
  BY DEF Write, IInv, Excludes, UnlocksTwice, inside, mutexVars
<1>3. Writing'
  BY DEF Write, IInv, Writing, Blocks, Distinct
<1> QED
  BY <1>1, <1>2, <1>3 DEF IInv

LEMMA CheckFullStep == ASSUME IInv, ~corrupt, CheckFull PROVE IInv'
<1>1. Typed'
  BY DEF CheckFull, IInv, Typed, clocks, history
<1>2. Excludes'
  BY Alone DEF CheckFull, IInv
<1>3. Writing'
  BY BufferAssumption DEF CheckFull, IInv, Typed, Writing, Blocks, Distinct, Full
<1> QED
  BY <1>1, <1>2, <1>3 DEF IInv

LEMMA ReadClockStep == ASSUME IInv, ~corrupt, ReadClock PROVE IInv'
<1>1. Typed'
  BY DEF ReadClock, IInv, Typed, clocks, mutexVars, history
<1>2. Excludes'
  BY DEF ReadClock, IInv, Excludes, UnlocksTwice, inside, mutexVars
<1>3. Writing'
  BY DEF ReadClock, IInv, Writing, Blocks, Distinct
<1> QED
  BY <1>1, <1>2, <1>3 DEF IInv

(* An eviction takes a listed block out, or the process with it. *)
LEMMA Evicts ==
    ASSUME IInv, Evict
    PROVE  \/ \E i \in 1..Len(queue) : /\ i \in Victim /\ pc' = "tellEvicted"
                                       /\ victim' = queue[i].blk /\ queue' = RemoveAt(queue, i)
                                       /\ recent' = Without(recent, queue[i].blk)
           \/ VictimUnset /\ pc' = "crashed" /\ UNCHANGED <<queue, recent, victim>>
BY VictimListed DEF Evict

LEMMA EvictStep == ASSUME IInv, ~corrupt, Evict PROVE IInv'
<1>1. queue \in Seq(Entry) /\ Distinct(queue)
  BY DEF IInv, Typed, Writing
<1>2. Excludes'
  BY Alone DEF Evict, IInv
<1>3. Len(queue) = blockNum /\ blockNum \in Nat \ {0} /\ told = Blocks
  BY BufferAssumption DEF Evict, IInv, Typed, Writing
<1>4. UNCHANGED <<strategy, blockNum, told, block>>
  BY DEF Evict
<1>5. Blocks = Listing(queue) /\ Blocks' = Listing(queue')
  BY DEF Blocks, Listing
<1>6. ASSUME NEW i \in 1..Len(queue), victim' = queue[i].blk, queue' = RemoveAt(queue, i),
             pc' = "tellEvicted"
      PROVE  IInv'
  <2>1. /\ queue' \in Seq(Entry) /\ Len(queue') = Len(queue) - 1 /\ Distinct(queue')
        /\ Listing(queue') = Listing(queue) \ {victim'}
    BY <1>1, <1>6, Removed
  <2>2. victim' \in Listing(queue)
    BY <1>1, <1>6 DEF Listing
  <2>3. Typed'
    BY <2>1 DEF Evict, IInv, Typed, clocks
  <2>4. told' = Blocks' \cup {victim'} /\ victim' \notin Blocks'
    BY <1>3, <1>4, <1>5, <2>1, <2>2
  <2>5. Writing'
    BY <1>1, <1>3, <1>4, <1>6, <2>1, <2>4 DEF Writing
  <2> QED
    BY <1>2, <2>3, <2>5 DEF IInv
<1>7. ASSUME pc' = "crashed", UNCHANGED <<queue, victim>> PROVE IInv'
  <2>1. Typed'
    BY <1>7 DEF Evict, IInv, Typed, clocks
  <2>2. Writing'
    BY <1>1, <1>3, <1>4, <1>5, <1>7 DEF Writing
  <2> QED
    BY <1>2, <2>1, <2>2 DEF IInv
<1> QED
  BY <1>6, <1>7, Evicts

LEMMA TellEvictedStep == ASSUME IInv, ~corrupt, TellEvicted PROVE IInv'
<1>1. Typed'
  BY DEF TellEvicted, IInv, Typed, clocks, mutexVars, history
<1>2. Excludes'
  BY DEF TellEvicted, IInv, Excludes, UnlocksTwice, inside, mutexVars
<1>3. Writing'
  BY DEF TellEvicted, IInv, Writing, Blocks, Distinct
<1> QED
  BY <1>1, <1>2, <1>3 DEF IInv

LEMMA UnlockAgainStep == ASSUME IInv, ~corrupt, UnlockAgain PROVE IInv'
<1>1. Typed'
  BY DEF UnlockAgain, IInv, Typed, clocks, history
<1>2. Excludes'
  BY DEF UnlockAgain, IInv, Excludes, UnlocksTwice, inside
<1>3. Writing'
  BY DEF UnlockAgain, IInv, Writing, Blocks, Distinct
<1> QED
  BY <1>1, <1>2, <1>3 DEF IInv

LEMMA AddBlockStep == ASSUME IInv, ~corrupt, AddBlock PROVE IInv'
<1>1. Typed'
  BY DEF AddBlock, IInv, Typed, clocks, history
<1>2. Excludes'
  BY Alone DEF AddBlock, IInv
<1>3. Writing'
  BY DEF AddBlock, IInv, Writing, Blocks, Distinct
<1> QED
  BY <1>1, <1>2, <1>3 DEF IInv

LEMMA PushBackStep == ASSUME IInv, ~corrupt, PushBack PROVE IInv'
<1>1. queue \in Seq(Entry) /\ Distinct(queue) /\ block \notin Listing(queue)
  BY DEF PushBack, IInv, Typed, Writing, Blocks, Listing
<1>2. NewBlock(block) \in Entry /\ NewBlock(block).blk = block
  BY DEF PushBack, IInv, Typed, NewBlock, Entry
<1>3. /\ queue' \in Seq(Entry) /\ Len(queue') = Len(queue) + 1 /\ Distinct(queue')
      /\ Listing(queue') = Listing(queue) \cup {block}
  BY <1>1, <1>2, Appended DEF PushBack
<1>4. Typed'
  BY <1>3 DEF PushBack, IInv, Typed, clocks
<1>5. Excludes'
  BY Alone DEF PushBack, IInv
<1>6. Writing'
  <2>1. /\ Len(queue) < blockNum /\ blockNum \in Nat /\ Len(queue) \in Nat
        /\ told = Blocks
    BY <1>1, BufferAssumption DEF PushBack, IInv, Typed, Writing
  <2>2. pc' = "tellAdded" /\ UNCHANGED <<strategy, blockNum, told, block>>
    BY DEF PushBack
  <2>3. Blocks = Listing(queue) /\ Blocks' = Listing(queue')
    BY DEF Blocks, Listing
  <2>4. told' = Blocks' \ {block'} /\ block' \in Blocks'
    BY <1>1, <1>3, <2>1, <2>2, <2>3
  <2> QED
    BY <1>3, <2>1, <2>2, <2>4 DEF Writing
<1> QED
  BY <1>4, <1>5, <1>6 DEF IInv

LEMMA TellAddedStep == ASSUME IInv, ~corrupt, TellAdded PROVE IInv'
<1>1. Typed'
  BY DEF TellAdded, IInv, Typed, clocks, mutexVars, history
<1>2. Excludes'
  BY DEF TellAdded, IInv, Excludes, UnlocksTwice, inside, mutexVars
<1>3. Writing'
  BY DEF TellAdded, IInv, Typed, Writing, Blocks, Distinct
<1> QED
  BY <1>1, <1>2, <1>3 DEF IInv

LEMMA ReadLockStep == ASSUME IInv, ~corrupt, NEW r \in Reader, NEW b \in Block, ReadLock(r, b) PROVE IInv'
<1>1. Typed'
  BY DEF ReadLock, IInv, Typed, clocks
<1>2. Excludes'
  <2>1. b # NoBlock
    BY BufferAssumption DEF NoBlock
  <2>2. inside' = inside \cup {r} /\ r \notin inside
    BY <2>1 DEF ReadLock, inside, IInv, Typed
  <2>3. /\ ~locked /\ locked' /\ corrupt' = (inside # {})
        /\ UNCHANGED <<strategy, pc, stolen>>
    BY DEF ReadLock, EnterAlone
  <2> QED
    BY <2>2, <2>3 DEF IInv, Excludes, UnlocksTwice
<1>3. Writing'
  BY DEF ReadLock, IInv, Writing, Blocks, Distinct
<1> QED
  BY <1>1, <1>2, <1>3 DEF IInv

(* A read moves the block or counts, and keeps the blocks. *)
LEMMA TouchedKeeps ==
    ASSUME IInv, NEW i \in 1..Len(queue)
    PROVE  /\ Touched(i) \in Seq(Entry) /\ Len(Touched(i)) = Len(queue)
           /\ Distinct(Touched(i)) /\ Listing(Touched(i)) = Listing(queue)
<1>1. /\ queue \in Seq(Entry) /\ Distinct(queue) /\ now \in 0..MaxTime
      /\ strategy \in {"LRU", "LFU", "DW", "LFRU"}
  BY BufferAssumption DEF IInv, Typed, Writing
<1>2. /\ RemoveAt(queue, i) \in Seq(Entry) /\ Len(RemoveAt(queue, i)) = Len(queue) - 1
      /\ Distinct(RemoveAt(queue, i))
      /\ Listing(RemoveAt(queue, i)) = Listing(queue) \ {queue[i].blk}
  BY <1>1, Removed
<1>3. queue[i] \in Entry /\ queue[i].blk \in Listing(queue)
  BY <1>1 DEF Listing
<1>4. ASSUME NEW e \in Entry, e.blk = queue[i].blk, Touched(i) = Append(RemoveAt(queue, i), e)
      PROVE  /\ Touched(i) \in Seq(Entry) /\ Len(Touched(i)) = Len(queue)
             /\ Distinct(Touched(i)) /\ Listing(Touched(i)) = Listing(queue)
  <2>1. PICK q \in Seq(Entry) : q = RemoveAt(queue, i)
    BY <1>2
  <2>2. /\ Append(q, e) \in Seq(Entry) /\ Len(Append(q, e)) = Len(q) + 1
        /\ Distinct(Append(q, e)) /\ Listing(Append(q, e)) = Listing(q) \cup {e.blk}
    BY <1>2, <1>4, <2>1, Appended
  <2> QED
    BY <1>1, <1>2, <1>3, <1>4, <2>1, <2>2
<1>5. ASSUME NEW e \in Entry, e.blk = queue[i].blk, Touched(i) = [queue EXCEPT ![i] = e]
      PROVE  /\ Touched(i) \in Seq(Entry) /\ Len(Touched(i)) = Len(queue)
             /\ Distinct(Touched(i)) /\ Listing(Touched(i)) = Listing(queue)
  <2>1. PICK q : q = Touched(i)
    OBVIOUS
  <2>2. /\ q \in Seq(Entry) /\ Len(q) = Len(queue)
        /\ \A k \in 1..Len(queue) : q[k].blk = queue[k].blk
    BY <1>1, <1>5, <2>1
  <2> QED
    BY <1>1, <2>1, <2>2, Kept
<1>6. CASE strategy = "LRU"
  BY <1>3, <1>4, <1>6 DEF Touched
<1>7. CASE strategy = "DW"
  <2>1. [queue[i] EXCEPT !.new = @ + 1] \in Entry /\ [queue[i] EXCEPT !.new = @ + 1].blk = queue[i].blk
    BY <1>3 DEF Entry
  <2> QED
    BY <1>4, <1>7, <2>1 DEF Touched
<1>8. CASE strategy = "LFU"
  <2>1. [queue[i] EXCEPT !.new = @ + 1] \in Entry /\ [queue[i] EXCEPT !.new = @ + 1].blk = queue[i].blk
    BY <1>3 DEF Entry
  <2>2. Touched(i) = [queue EXCEPT ![i] = [queue[i] EXCEPT !.new = @ + 1]]
    BY <1>1, <1>8 DEF Touched
  <2> QED
    BY <1>5, <2>1, <2>2
<1>9. CASE strategy = "LFRU"
  <2> DEFINE x == queue[i]
             e == [blk |-> x.blk, new |-> x.new + 1, old |-> x.old, last |-> now]
  <2>1. e \in Entry /\ e.blk = queue[i].blk
    BY <1>1, <1>3 DEF Entry
  <2>2. Touched(i) = [queue EXCEPT ![i] = e]
    BY <1>1, <1>3, <1>9 DEF Touched, Entry
  <2> QED
    BY <1>5, <2>1, <2>2
<1> QED
  BY <1>1, <1>6, <1>7, <1>8, <1>9

LEMMA ReadUnlockStep ==
    ASSUME IInv, ~corrupt, NEW r \in Reader, ReadUnlock(r)
    PROVE  IInv' /\ Blocks' = Blocks
<1>1. /\ queue' \in Seq(Entry) /\ Len(queue') = Len(queue)
      /\ Distinct(queue') /\ Listing(queue') = Listing(queue)
  <2>1. CASE UNCHANGED queue
    BY <2>1 DEF IInv, Typed, Writing
  <2>2. CASE \E i \in DOMAIN queue : queue' = Touched(i)
    <3>1. DOMAIN queue = 1..Len(queue)
      BY DEF IInv, Typed
    <3> QED
      BY <2>2, <3>1, TouchedKeeps
  <2> QED
    BY <2>1, <2>2 DEF ReadUnlock
<1>2. Blocks = Listing(queue) /\ Blocks' = Listing(queue')
  BY DEF Blocks, Listing
<1>3. Typed'
  BY <1>1 DEF ReadUnlock, IInv, Typed, clocks
<1>4. Excludes'
  <2>1. inside' = inside \ {r} /\ r \in inside
    BY DEF ReadUnlock, inside, IInv, Typed
  <2>2. inside' = {}
    BY <2>1 DEF IInv, Excludes
  <2> QED
    BY <2>2 DEF ReadUnlock, IInv, Excludes, UnlocksTwice
<1>5. Writing'
  BY <1>1, <1>2 DEF ReadUnlock, IInv, Writing
<1> QED
  BY <1>1, <1>2, <1>3, <1>4, <1>5 DEF IInv

LEMMA ResetClockStep == ASSUME IInv, ~corrupt, ResetClock PROVE IInv'
<1>1. Typed'
  BY DEF ResetClock, IInv, Typed, mutexVars, history
<1>2. Excludes'
  BY DEF ResetClock, IInv, Excludes, UnlocksTwice, inside, mutexVars
<1>3. Writing'
  BY DEF ResetClock, IInv, Writing, Blocks, Distinct
<1> QED
  BY <1>1, <1>2, <1>3 DEF IInv

LEMMA BlockResetBlocks ==
    ASSUME IInv, BlockReset
    PROVE  /\ queue' \in Seq(Entry) /\ Len(queue') = Len(queue)
           /\ \A i \in 1..Len(queue) : queue'[i].blk = queue[i].blk
<1>1. queue \in Seq(Entry) /\ resetting \in 0..MaxTime
  BY DEF BlockReset, IInv, Typed
<1> DEFINE aged(x) ==
             IF strategy = "DW"
             THEN [blk |-> x.blk, new |-> 0, old |-> x.new, last |-> x.last]
             ELSE [blk |-> x.blk, new |-> 1, old |-> x.old, last |-> resetting]
<1>2. \A x \in Entry : aged(x) \in Entry /\ aged(x).blk = x.blk
  BY <1>1 DEF Entry
<1>3. queue' = [i \in 1..Len(queue) |-> aged(queue[i])]
  BY <1>1 DEF BlockReset
<1> HIDE DEF aged
<1> QED
  BY <1>1, <1>2, <1>3

LEMMA BlockResetStep == ASSUME IInv, ~corrupt, BlockReset PROVE IInv' /\ Blocks' = Blocks
<1>1. queue \in Seq(Entry) /\ Distinct(queue) /\ resetting \in 0..MaxTime
  BY DEF BlockReset, IInv, Typed, Writing
<1>2. /\ queue' \in Seq(Entry) /\ Len(queue') = Len(queue)
      /\ \A i \in 1..Len(queue) : queue'[i].blk = queue[i].blk
  BY BlockResetBlocks
<1>3. Distinct(queue') /\ Listing(queue') = Listing(queue)
  <2>1. PICK q \in Seq(Entry) : q = queue'
    BY <1>2
  <2> QED
    BY <1>1, <1>2, <2>1, Kept
<1>4. Blocks = Listing(queue) /\ Blocks' = Listing(queue')
  BY DEF Blocks, Listing
<1>5. Typed'
  BY <1>1, <1>2 DEF BlockReset, IInv, Typed
<1>6. Excludes'
  BY Alone DEF BlockReset, IInv, Excludes
<1>7. Writing'
  BY <1>2, <1>3, <1>4 DEF BlockReset, IInv, Writing
<1> QED
  BY <1>3, <1>4, <1>5, <1>6, <1>7 DEF IInv

LEMMA TickStep == ASSUME IInv, ~corrupt, Tick PROVE IInv'
<1>1. Typed'
  BY BufferAssumption DEF Tick, IInv, Typed, mutexVars, history
<1>2. Excludes'
  BY DEF Tick, IInv, Excludes, UnlocksTwice, inside, mutexVars
<1>3. Writing'
  BY DEF Tick, IInv, Writing, Blocks, Distinct
<1> QED
  BY <1>1, <1>2, <1>3 DEF IInv

LEMMA Step == IInv /\ [Next]_vars => IInv'
<1> SUFFICES ASSUME IInv, [Next]_vars PROVE IInv'
  OBVIOUS
<1>0. Next => ~corrupt
  BY DEF Next
<1>1. CASE Next /\ Owner
  BY <1>0, <1>1, WriteStep, CheckFullStep, ReadClockStep, EvictStep, TellEvictedStep, UnlockAgainStep,
     AddBlockStep, PushBackStep, TellAddedStep DEF Owner
<1>2. CASE Next /\ Read
  BY <1>0, <1>2, ReadLockStep, ReadUnlockStep DEF Read
<1>3. CASE Next /\ Alarm
  BY <1>0, <1>3, ResetClockStep, BlockResetStep DEF Alarm
<1>4. CASE Next /\ Tick
  BY <1>0, <1>4, TickStep
<1>5. CASE UNCHANGED vars
  BY <1>5 DEF vars, IInv, Typed, Excludes, Writing, UnlocksTwice, inside, Blocks, Distinct
<1> QED
  BY <1>1, <1>2, <1>3, <1>4, <1>5 DEF Next

(* The inductive invariant: what the mutex excludes, and at each step of a *)
(* write how full the list is and what the server has been told.           *)
THEOREM Invariant == Spec => []IInv
BY InitInv, Step, PTL DEF Spec

(* The mutex excludes under DW and LFRU, and under LRU and LFU until a     *)
(* write into a full buffer unlocks it a second time while a reader is     *)
(* inside: the double unlock is the only way to two threads in the list.   *)
THEOREM MutexExcludes == Spec => []ListExclusive
<1>1. IInv => ListExclusive
  BY DEF IInv, Excludes, ListExclusive, UnlocksTwice
<1> QED
  BY <1>1, Invariant, PTL

-----------------------------------------------------------------------------
(* A step of the owner is a step of the abstract buffer, and so is what    *)
(* it tells the server; no other thread's is one.                          *)
LEMMA AbstractStep == IInv /\ [Next]_vars => [Abstract!Next]_(Abstract!vars)
<1> SUFFICES ASSUME IInv, [Next]_vars PROVE [Abstract!Next]_(Abstract!vars)
  OBVIOUS
<1>1. /\ IsFiniteSet(Blocks) /\ Cardinality(Blocks) = Len(queue)
      /\ queue \in Seq(Entry) /\ Blocks = Listing(queue) /\ Blocks' = Listing(queue')
      /\ blockNum \in Nat
  BY Counted, BufferAssumption DEF IInv, Typed, Writing, Blocks, Listing
<1>0. Abstract!Cardinality(Blocks) = Cardinality(Blocks)
  BY DEF Abstract!Cardinality, Cardinality
<1>2. ASSUME UNCHANGED <<strategy, blockNum, Blocks, told>> PROVE UNCHANGED Abstract!vars
  BY <1>2 DEF Abstract!vars
<1>3. ASSUME NEW b \in Block, Write(b) PROVE UNCHANGED <<strategy, blockNum, Blocks, told>>
  BY <1>3 DEF Write, Blocks
<1>4. CASE CheckFull \/ ReadClock \/ UnlockAgain \/ AddBlock
  <2>1. UNCHANGED <<strategy, blockNum, Blocks, told>>
    BY <1>4 DEF CheckFull, ReadClock, UnlockAgain, AddBlock, Blocks
  <2> QED
    BY <2>1, <1>2
<1>5. CASE Evict
  <2>1. UNCHANGED <<strategy, blockNum, told>> /\ pc = "evict"
    BY <1>5 DEF Evict
  <2>2. Distinct(queue) /\ told = Blocks /\ Len(queue) = blockNum
    BY <2>1 DEF IInv, Writing
  <2>3. ASSUME NEW i \in 1..Len(queue), victim' = queue[i].blk, queue' = RemoveAt(queue, i)
        PROVE  Abstract!Next
    <3>1. Blocks' = Blocks \ {victim'}
      BY <1>1, <2>2, <2>3, Removed
    <3>2. queue[i] \in Entry
      BY <1>1
    <3>3. victim' \in Blocks /\ victim' \in Block
      BY <1>1, <2>3, <3>2 DEF Listing, Entry
    <3>4. Abstract!Evict(victim')
      BY <1>0, <1>1, <2>1, <2>2, <3>1, <3>3 DEF Abstract!Evict
    <3> QED
      BY <3>3, <3>4 DEF Abstract!Next
  <2>4. ASSUME UNCHANGED queue PROVE UNCHANGED Abstract!vars
    BY <1>2, <2>1, <2>4 DEF Blocks
  <2> QED
    BY <1>5, <2>3, <2>4, Evicts
<1>6. CASE PushBack
  <2>1. pc = "push" /\ queue' = Append(queue, NewBlock(block)) /\ UNCHANGED <<strategy, blockNum, told>>
    BY <1>6 DEF PushBack
  <2>2. /\ block \in Block /\ block \notin Blocks /\ told = Blocks
        /\ Len(queue) < blockNum /\ Distinct(queue)
    BY <2>1 DEF IInv, Typed, Writing
  <2>3. NewBlock(block) \in Entry /\ NewBlock(block).blk = block
    BY <2>2 DEF IInv, Typed, NewBlock, Entry
  <2>4. Blocks' = Blocks \cup {block}
    BY <1>1, <2>1, <2>2, <2>3, Appended
  <2>5. Cardinality(Blocks) < blockNum
    BY <1>1, <2>2
  <2>6. Abstract!Add(block)
    BY <1>0, <2>1, <2>2, <2>4, <2>5 DEF Abstract!Add
  <2> QED
    BY <2>2, <2>6 DEF Abstract!Next
<1>7. CASE TellEvicted \/ TellAdded
  <2>1. UNCHANGED <<strategy, blockNum, Blocks>>
    BY <1>7 DEF TellEvicted, TellAdded, Blocks
  <2>2. told # Blocks /\ told' = Blocks
    BY <1>7 DEF TellEvicted, TellAdded, IInv, Writing
  <2> QED
    BY <2>1, <2>2 DEF Abstract!Next, Abstract!Tell
<1>8. CASE Next /\ Read
  <2>1. ASSUME NEW r \in Reader, ReadUnlock(r) PROVE UNCHANGED <<strategy, blockNum, Blocks, told>>
    BY <1>8, <2>1, ReadUnlockStep DEF ReadUnlock, Next
  <2>2. ASSUME NEW r \in Reader, NEW b \in Block, ReadLock(r, b)
        PROVE UNCHANGED <<strategy, blockNum, Blocks, told>>
    BY <2>2 DEF ReadLock, Blocks
  <2> QED
    BY <1>2, <1>8, <2>1, <2>2 DEF Read
<1>9. CASE Next /\ (Alarm \/ Tick)
  <2>1. ASSUME BlockReset PROVE UNCHANGED <<strategy, blockNum, Blocks, told>>
    BY <1>9, <2>1, BlockResetStep DEF BlockReset, Next
  <2>2. ASSUME ResetClock \/ Tick PROVE UNCHANGED <<strategy, blockNum, Blocks, told>>
    BY <2>2 DEF ResetClock, Tick, Blocks
  <2> QED
    BY <1>2, <1>9, <2>1, <2>2 DEF Alarm
<1>10. CASE UNCHANGED vars
  <2>1. UNCHANGED <<strategy, blockNum, Blocks, told>>
    BY <1>10 DEF vars, Blocks
  <2> QED
    BY <2>1, <1>2
<1> QED
  BY <1>2, <1>3, <1>4, <1>5, <1>6, <1>7, <1>8, <1>9, <1>10 DEF Next, Owner

(* Whatever LRU, LFU, DW or LFRU evicts, and whichever threads read, count *)
(* and reset in between, blocks come and go one at a time within the       *)
(* capacity, and the server is told of each change before the next one; up *)
(* to a race in the list or an eviction that ends the process, whose only  *)
(* causes the other theorems name.                                         *)
THEOREM StrategiesAreBuffers == Spec => BufferRefined
<1>1. Init => Abstract!Init
  <2> SUFFICES ASSUME Init PROVE Abstract!Init
    OBVIOUS
  <2>1. blockNum \in Nat \ {0} /\ Blocks = {} /\ told = {}
    BY BufferAssumption DEF Init, Blocks
  <2> QED
    BY <2>1 DEF Abstract!Init
<1> QED
  BY <1>1, AbstractStep, Invariant, PTL DEF Spec, BufferRefined, Abstract!Spec

-----------------------------------------------------------------------------
(* Under LRU and DW the list is the order of the last reads and additions. *)
Ordered == strategy \in {"LRU", "DW"} =>
              /\ recent \in Seq(Block) /\ Len(recent) = Len(queue)
              /\ \A i \in 1..Len(queue) : recent[i] = queue[i].blk

(* So a block taken out of the one is taken out of the other at its place. *)
LEMMA OrderedCut ==
    ASSUME IInv, Ordered, strategy \in {"LRU", "DW"}, NEW i \in 1..Len(queue)
    PROVE  LET q == RemoveAt(queue, i)  r == Without(recent, queue[i].blk)
           IN  /\ q \in Seq(Entry) /\ r \in Seq(Block) /\ Len(r) = Len(q)
               /\ \A k \in 1..Len(q) : r[k] = q[k].blk
<1>1. /\ queue \in Seq(Entry) /\ Distinct(queue)
      /\ recent \in Seq(Block) /\ Len(recent) = Len(queue)
      /\ \A k \in 1..Len(queue) : recent[k] = queue[k].blk
  BY DEF IInv, Typed, Writing, Ordered
<1>2. \A k \in DOMAIN recent : recent[k] = queue[i].blk <=> k = i
  BY <1>1 DEF Distinct
<1>3. i \in DOMAIN recent
  BY <1>1
<1>4. (CHOOSE k \in DOMAIN recent : recent[k] = queue[i].blk) = i
  BY <1>2, <1>3
<1>5. Without(recent, queue[i].blk) = RemoveAt(recent, i)
  BY <1>4 DEF Without
<1>6. PICK q : q = RemoveAt(queue, i)
  OBVIOUS
<1>7. PICK r : r = RemoveAt(recent, i)
  OBVIOUS
<1>8. /\ q \in Seq(Entry) /\ Len(q) = Len(queue) - 1
      /\ \A k \in 1..Len(q) : q[k] = IF k < i THEN queue[k] ELSE queue[k + 1]
  BY <1>1, <1>6, Cut
<1>9. /\ r \in Seq(Block) /\ Len(r) = Len(recent) - 1
      /\ \A k \in 1..Len(r) : r[k] = IF k < i THEN recent[k] ELSE recent[k + 1]
  BY <1>1, <1>3, <1>7, Cut
<1>10. \A k \in 1..Len(q) : r[k] = q[k].blk
  BY <1>1, <1>8, <1>9
<1> QED
  BY <1>1, <1>5, <1>6, <1>7, <1>8, <1>9, <1>10

LEMMA OrderedStep == IInv /\ Ordered /\ [Next]_vars => Ordered'
<1> SUFFICES ASSUME IInv, Ordered, [Next]_vars, strategy' \in {"LRU", "DW"} PROVE Ordered'
  BY DEF Ordered
<1>1. strategy' = strategy
  BY DEF Next, Owner, Read, Alarm, Write, CheckFull, ReadClock, Evict, TellEvicted, UnlockAgain,
     AddBlock, PushBack, TellAdded, ReadLock, ReadUnlock, ResetClock, BlockReset, Tick, vars
<1>2. /\ queue \in Seq(Entry) /\ recent \in Seq(Block) /\ Len(recent) = Len(queue)
      /\ \A k \in 1..Len(queue) : recent[k] = queue[k].blk
  BY <1>1 DEF IInv, Typed, Ordered
<1>3. CASE UNCHANGED <<queue, recent>>
  BY <1>2, <1>3 DEF Ordered
<1>4. CASE Evict
  <2>1. ASSUME NEW i \in 1..Len(queue), queue' = RemoveAt(queue, i),
               recent' = Without(recent, queue[i].blk)
        PROVE  Ordered'
    BY <1>1, <2>1, OrderedCut DEF Ordered
  <2> QED
    BY <1>3, <1>4, <2>1, Evicts
<1>5. CASE PushBack
  <2>1. NewBlock(block) \in Entry /\ NewBlock(block).blk = block /\ block \in Block
    BY <1>5 DEF PushBack, IInv, Typed, NewBlock, Entry
  <2>2. PICK e : e = NewBlock(block)
    OBVIOUS
  <2>3. queue' = Append(queue, e) /\ recent' = Append(recent, block)
    BY <1>5, <2>2 DEF PushBack
  <2> QED
    BY <1>2, <2>1, <2>2, <2>3 DEF Ordered
<1>6. ASSUME NEW r \in Reader, NEW i \in DOMAIN queue, queue[i].blk = reading[r],
             queue' = Touched(i), recent' = Append(Without(recent, reading[r]), reading[r])
      PROVE  Ordered'
  <2>1. i \in 1..Len(queue) /\ queue[i] \in Entry
    BY <1>2
  <2>2. PICK e \in Entry : e.blk = queue[i].blk /\ Touched(i) = Append(RemoveAt(queue, i), e)
    <3>1. [queue[i] EXCEPT !.new = @ + 1] \in Entry /\ [queue[i] EXCEPT !.new = @ + 1].blk = queue[i].blk
      BY <2>1 DEF Entry
    <3> QED
      BY <1>1, <2>1, <3>1 DEF Touched
  <2>3. PICK q, s : q = RemoveAt(queue, i) /\ s = Without(recent, queue[i].blk)
    OBVIOUS
  <2>4. q \in Seq(Entry) /\ s \in Seq(Block) /\ Len(s) = Len(q) /\ \A k \in 1..Len(q) : s[k] = q[k].blk
    BY <1>1, <2>1, <2>3, OrderedCut
  <2>5. queue' = Append(q, e) /\ recent' = Append(s, e.blk) /\ e.blk \in Block
    BY <1>6, <2>2, <2>3 DEF Entry
  <2> QED
    BY <2>4, <2>5 DEF Ordered
<1>7. ASSUME NEW r \in Reader, ReadUnlock(r) PROVE Ordered'
  BY <1>3, <1>6, <1>7 DEF ReadUnlock
<1>8. CASE BlockReset
  <2>1. /\ UNCHANGED recent /\ queue' \in Seq(Entry) /\ Len(queue') = Len(queue)
        /\ \A k \in 1..Len(queue) : queue'[k].blk = queue[k].blk
    BY <1>2, <1>8, BlockResetBlocks DEF BlockReset
  <2> QED
    BY <1>2, <2>1 DEF Ordered
<1>9. ASSUME \/ \E b \in Block : Write(b)
             \/ CheckFull \/ ReadClock \/ TellEvicted \/ UnlockAgain \/ AddBlock \/ TellAdded
             \/ \E r \in Reader, b \in Block : ReadLock(r, b)
             \/ ResetClock \/ Tick \/ UNCHANGED vars
      PROVE  UNCHANGED <<queue, recent>>
  BY <1>9 DEF Write, CheckFull, ReadClock, TellEvicted, UnlockAgain, AddBlock, TellAdded,
     ReadLock, ResetClock, Tick, vars, history
<1> QED
  BY <1>3, <1>4, <1>5, <1>7, <1>8, <1>9 DEF Next, Owner, Read, Alarm

(* LFRU's weights are all 0.0 only when nothing has aged. *)
LEMMA NoneHeavy ==
    ASSUME IInv, pc = "evict", Heaviest = {}
    PROVE  NoneAged
<1>1. /\ Word \in Nat /\ Period \in 1..(Word - 1) /\ MaxTime \in 0..(Word - 1)
      /\ recallTime \in 0..MaxTime /\ t0 \in 0..MaxTime
      /\ queue \in Seq(Entry) /\ Len(queue) = blockNum /\ blockNum \in Nat \ {0}
  BY BufferAssumption DEF IInv, Typed, Writing
<1>2. \A i \in 1..Len(queue) : ~(Age(queue[i]) > 0) /\ ~(elapsed > 0)
  BY <1>1 DEF Heaviest
<1>3. \A d \in (-MaxTime)..MaxTime : d % Word \in Nat /\ (d % Word = 0 => d = 0)
  BY <1>1
<1>4. elapsed = 0 /\ recallTime = t0
  <2>1. ~(elapsed > 0)
    BY <1>1, <1>2
  <2> QED
    BY <1>1, <1>3, <2>1 DEF elapsed
<1>5. ASSUME NEW i \in 1..Len(queue) PROVE queue[i].last = t0
  <2>1. queue[i].last \in 0..MaxTime
    <3>1. queue[i] \in Entry
      BY <1>1
    <3> QED
      BY <3>1 DEF Entry
  <2>2. PICK a : a = (recallTime - queue[i].last) % Word
    OBVIOUS
  <2>3. a \in Nat /\ (a = 0 => queue[i].last = recallTime)
    BY <1>1, <1>3, <2>1, <2>2
  <2>4. Age(queue[i]) = Period * a
    BY <1>1, <1>4, <2>2 DEF Age
  <2>5. Period \in Nat \ {0} /\ ~(Period * a > 0)
    BY <1>1, <1>2, <2>4
  <2>6. a = 0
    BY <2>3, <2>5
  <2> QED
    BY <1>4, <2>3, <2>6
<1> QED
  BY <1>1, <1>4, <1>5 DEF NoneAged

(* LRU never evicts but the block least recently read or added, and DW one *)
(* of the 0.618 of them left longest, whoever read between which steps;    *)
(* and only DW with fewer than four blocks and LFRU with none aged ever    *)
(* dereference an iterator they did not set.                               *)
THEOREM RecentSpared == Spec => RecentKept
<1>1. Init => Ordered
  BY DEF Init, Ordered
<1>2. IInv /\ Ordered /\ [Next]_vars =>
        [pc = "evict" =>
           /\ pc' = "tellEvicted" /\ strategy \in {"LRU", "DW"}
                => victim' \in {recent[i] : i \in Exposed}
           /\ pc' = "crashed" => \/ strategy = "DW" /\ blockNum < 4
                                 \/ strategy = "LFRU" /\ NoneAged]_vars
  <2> SUFFICES ASSUME IInv, Ordered, Next, pc = "evict", pc' # pc
               PROVE  /\ pc' = "tellEvicted" /\ strategy \in {"LRU", "DW"}
                           => victim' \in {recent[i] : i \in Exposed}
                      /\ pc' = "crashed" => \/ strategy = "DW" /\ blockNum < 4
                                            \/ strategy = "LFRU" /\ NoneAged
    OBVIOUS
  <2>1. Evict
    BY DEF Next, Owner, Read, Alarm, Write, CheckFull, ReadClock, TellEvicted, UnlockAgain,
       AddBlock, PushBack, TellAdded, ReadLock, ReadUnlock, ResetClock, BlockReset, Tick
  <2>2. ASSUME pc' = "tellEvicted", strategy \in {"LRU", "DW"}
        PROVE  victim' \in {recent[i] : i \in Exposed}
    <3>1. PICK i \in 1..Len(queue) : i \in Victim /\ victim' = queue[i].blk
      BY <2>1, <2>2, Evicts
    <3>2. victim' = recent[i]
      BY <2>2, <3>1 DEF Ordered
    <3>3. i \in Exposed
      BY <2>2, <3>1 DEF Victim, VictimLRU, VictimDW, FirstLeast, Candidate, Exposed
    <3> QED
      BY <3>2, <3>3
  <2>3. ASSUME pc' = "crashed"
        PROVE  \/ strategy = "DW" /\ blockNum < 4
               \/ strategy = "LFRU" /\ NoneAged
    <3>1. VictimUnset
      BY <2>1, <2>3 DEF Evict
    <3>2. blockNum \in Nat /\ \A n \in Nat : n >= 4 => (618 * n) \div 1000 >= 2
      BY BufferAssumption DEF IInv, Typed
    <3>3. Candidate = {} => blockNum < 4
      <4>1. ASSUME blockNum >= 4 PROVE 1 \in Candidate
        BY <3>2, <4>1 DEF Candidate, maxIndex
      <4> QED
        BY <3>2, <4>1
    <3>4. Heaviest = {} => NoneAged
      BY NoneHeavy
    <3> QED
      BY <3>1, <3>3, <3>4 DEF VictimUnset
  <2> QED
    BY <2>2, <2>3
<1> QED
  BY <1>1, <1>2, OrderedStep, InitInv, Step, PTL DEF Spec, RecentKept
=============================================================================
