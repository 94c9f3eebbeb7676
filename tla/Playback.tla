------------------------------- MODULE Playback -------------------------------
(***************************************************************************)
(* Where a client is in its video: the life circle of client.cpp draws a   *)
(* status, plays or jumps by a random length, and moves requestSegment.    *)
(* Lengths and positions are unsigned int in the code: arithmetic is       *)
(* modulo Word here.  Fetching a segment is SegmentDelivery's business and *)
(* takes no time here; random lengths are any of JumpLength.               *)
(***************************************************************************)
EXTENDS Integers

CONSTANTS
    Word,            \* 2^32 in the code
    BlockSize,       \* blockSize
    FileLen,         \* requestFileLen
    JumpLength,      \* values of jumpLength before it is clamped
    Prob,            \* playToPlay, playToPause, ... by name
    Scale            \* bound of the draw: Randomi(0, 1000)

Status == {"STOP", "PAUSE", "FORWARD", "BACKWARD", "PLAY"}
Entry  == {"play", "pause", "stop", "forward", "backward"}

ASSUME PlaybackAssumption ==
    /\ Word \in Nat \ {0} /\ BlockSize \in 1..(Word - 1)
    /\ FileLen \in 0..(Word - 1)
    /\ JumpLength \subseteq 0..(Word - 1)
    /\ Prob \in [Entry -> Nat] /\ Scale \in Nat

VARIABLES
    clientStatus,
    requestSegment,  \* the next segment to play
    fileLen,         \* what playSegment has left to play
    pc,              \* "circle", "play" (in playSegment), or "returned"
    odd              \* history: a length was used that nothing here can mend
vars == <<clientStatus, requestSegment, fileLen, pc, odd>>

-----------------------------------------------------------------------------
(* Faults: each a plausible bug in the operator named beside it.           *)
ClampNever(l)   == l                                   \* Clamp
KeepLength(l)   == l                                   \* LessBlock
BackAlways(l)   == (requestSegment - l \div BlockSize) % Word   \* Behind
-----------------------------------------------------------------------------
segs == FileLen \div BlockSize + (IF FileLen % BlockSize = 0 THEN 0 ELSE 1)

position     == (requestSegment * BlockSize) % Word
Clamp(l)     == IF (l + position) % Word > FileLen THEN (FileLen - position) % Word ELSE l
LessBlock(l) == (l - BlockSize) % Word
Behind(l)    == IF position <= l THEN 0
                ELSE (requestSegment - l \div BlockSize) % Word

(* Of two lengths there is no mending: one whose end is beyond Word, which *)
(* no clamp sees, and one to play that is no whole number of blocks.       *)
Overflows(l) == l + position >= Word
Partial(l)   == Clamp(l) % BlockSize # 0

(* getNextStatus in PLAY sorts the five entries by probability, entries of *)
(* equal probability in any order, and takes the first at which the sum of *)
(* the probabilities reaches the draw - or none.                           *)
Sorted == {o \in [1..5 -> Entry] :
              \A i, j \in 1..5 : i < j => o[i] # o[j] /\ Prob[o[i]] <= Prob[o[j]]}
upTo[o \in Sorted, i \in 0..5] == IF i = 0 THEN 0 ELSE upTo[o, i - 1] + Prob[o[i]]
Drawn == {e \in Entry : \E o \in Sorted, t \in 0..Scale, i \in 1..5 :
             /\ o[i] = e /\ upTo[o, i] >= t
             /\ \A j \in 1..(i - 1) : upTo[o, j] < t}
NoneDrawn == \E o \in Sorted, t \in 0..Scale : upTo[o, 5] < t

(* The entry commented "for play" also carries PAUSE. *)
NextStatus(e) == CASE e = "play"     -> "PAUSE"    [] e = "pause"   -> "PAUSE"
                   [] e = "stop"     -> "STOP"     [] e = "forward" -> "FORWARD"
                   [] e = "backward" -> "BACKWARD"

Init ==
    /\ clientStatus = "PLAY" /\ requestSegment = 0
    /\ fileLen = 0 /\ pc = "circle" /\ odd = FALSE

(* One round of clientLifeCircle, by status. *)
Play(l) ==
    /\ pc = "circle" /\ clientStatus = "PLAY"
    /\ fileLen' = Clamp(l)
    /\ pc' = "play"
    /\ odd' = (odd \/ Overflows(l) \/ Partial(l))
    /\ UNCHANGED <<clientStatus, requestSegment>>

PlayBlock ==    \* one round of playSegment, from the buffer or fetched
    /\ pc = "play" /\ fileLen > 0
    /\ requestSegment' = (requestSegment + 1) % Word
    /\ fileLen' = LessBlock(fileLen)
    /\ UNCHANGED <<clientStatus, pc, odd>>

EndPlay ==      \* playSegment returns; getNextStatus
    /\ pc = "play" /\ fileLen = 0
    /\ pc' = "circle"
    /\ \/ \E e \in Drawn : clientStatus' = NextStatus(e)
       \/ NoneDrawn /\ UNCHANGED clientStatus
    /\ UNCHANGED <<requestSegment, fileLen, odd>>

Pause ==
    /\ pc = "circle" /\ clientStatus = "PAUSE"
    /\ clientStatus' = "PLAY"
    /\ UNCHANGED <<requestSegment, fileLen, pc, odd>>

Forward(l) ==
    /\ pc = "circle" /\ clientStatus = "FORWARD"
    /\ LET s == (requestSegment + Clamp(l) \div BlockSize) % Word
       IN requestSegment' = IF s > segs THEN 0 ELSE s
    /\ odd' = (odd \/ Overflows(l))
    /\ clientStatus' = "PLAY"
    /\ UNCHANGED <<fileLen, pc>>

Backward(l) ==
    /\ pc = "circle" /\ clientStatus = "BACKWARD"
    /\ requestSegment' = Behind(l)
    /\ clientStatus' = "PLAY"
    /\ UNCHANGED <<fileLen, pc, odd>>

(* The loop's condition fails: the STOP case, which would send CLIENTQUIT, *)
(* is never reached.                                                       *)
Stop ==
    /\ pc = "circle" /\ clientStatus = "STOP"
    /\ pc' = "returned"
    /\ UNCHANGED <<clientStatus, requestSegment, fileLen, odd>>

Next == \/ \E l \in JumpLength : Play(l) \/ Forward(l) \/ Backward(l)
        \/ PlayBlock \/ EndPlay \/ Pause \/ Stop
Spec == Init /\ [][Next]_vars

(* The client's thread keeps running. *)
FairSpec == Spec /\ WF_vars(Next)

-----------------------------------------------------------------------------
(* Every variable holds a value of its type. *)
TypeOK ==
    /\ clientStatus \in Status
    /\ requestSegment \in 0..(Word - 1) /\ fileLen \in 0..(Word - 1)
    /\ pc \in {"circle", "play", "returned"} /\ odd \in BOOLEAN

(* What the check in FORWARD calls an error never happens: the cursor is   *)
(* at most one past the last segment.                                      *)
CursorChecked == requestSegment <= segs

(* The two lengths that cannot be mended are all that can break this: with *)
(* any others, in any order, the video reaches at least up to the cursor.  *)
CursorWhole == ~odd => requestSegment * BlockSize <= FileLen

(* Until there is one, a client only ever asks for a whole segment of its  *)
(* video.                                                                  *)
PlaysExisting == ~odd /\ pc = "play" /\ fileLen > 0 => requestSegment < FileLen \div BlockSize

(* ... and a call of playSegment returns.                                  *)
PlayEnds == (pc = "play" /\ ~odd) ~> pc # "play"
=============================================================================
