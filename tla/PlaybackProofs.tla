---------------------------- MODULE PlaybackProofs ----------------------------
(***************************************************************************)
(* Proofs about Playback, for every video, block size, set of lengths and  *)
(* probabilities: only a length whose end overflows, or one to play that   *)
(* is no whole number of blocks, takes the cursor out of the video.        *)
(***************************************************************************)
EXTENDS Playback, TLAPS

(* Arithmetic with whole blocks.                                           *)
LEMMA Division == \A a \in Int, b \in Nat \ {0} : a = (b * (a \div b)) + (a % b)
OBVIOUS
LEMMA Wraps == \A a \in Int, b \in Nat \ {0} : a % b \in 0..(b - 1)
OBVIOUS
LEMMA Unwrapped == \A a \in Int, b \in Nat \ {0} : a \in 0..(b - 1) => a % b = a
OBVIOUS
LEMMA Fewer == \A b \in Nat \ {0}, x \in Int, y \in Int : x * b <= y * b <=> x <= y
OBVIOUS
LEMMA Quotient == \A b \in Nat \ {0}, x \in Int : (x * b) \div b = x
OBVIOUS
LEMMA Together == \A b \in Nat \ {0}, x \in Int, y \in Int :
    (x * b) + (y * b) = (x + y) * b /\ (x * b) - (y * b) = (x - y) * b
OBVIOUS

B == BlockSize
Blocks(l, k) == k \in Nat /\ l = k * B

LEMMA Constants ==
    /\ B \in Nat \ {0} /\ Word \in Nat \ {0} /\ B < Word
    /\ FileLen \in Nat /\ FileLen < Word
    /\ \A l \in JumpLength : l \in Nat
BY PlaybackAssumption DEF B

LEMMA Divided ==
    ASSUME NEW a \in Nat
    PROVE  /\ a \div B \in Nat /\ a % B \in 0..(B - 1)
           /\ a = (B * (a \div B)) + (a % B)
<1>1. \A x \in Nat, b \in Nat \ {0} : x \div b \in Nat
  OBVIOUS
<1>2. B \in Nat \ {0}
  BY Constants
<1>3. a \div B \in Nat
  BY <1>1, <1>2
<1>4. a % B \in 0..(B - 1)
  BY <1>2, Wraps
<1>5. a = (B * (a \div B)) + (a % B)
  BY <1>2, Division
<1> QED
  BY <1>3, <1>4, <1>5

(* As many blocks as fit into the video are as many as its whole segments, *)
(* and a number of blocks that fit does not wrap.                          *)
LEMMA Fits ==
    ASSUME NEW n \in Nat, n * B <= FileLen
    PROVE  n <= FileLen \div B /\ n * B \in 0..(Word - 1) /\ n \in 0..(Word - 1)
<1>1. PICK q, m : q = FileLen \div B /\ m = FileLen % B
  OBVIOUS
<1>2. FileLen = (B * q) + m /\ m \in 0..(B - 1) /\ q \in Nat
  BY <1>1, Constants, Divided
<1>3. PICK x \in Nat : x = n * B
  BY Constants
<1>4. (q + 1) * B = (B * q) + B
  BY <1>2, Constants
<1>5. ~((q + 1) * B <= n * B)
  BY <1>2, <1>3, <1>4, Constants
<1>6. n <= q
  BY <1>2, <1>5, Constants, Fewer
<1>7. n <= x
  <2>1. n * 1 <= n * B
    BY Constants
  <2> QED
    BY <1>3, <2>1
<1> QED
  BY <1>1, <1>3, <1>6, <1>7, Constants

(* The cursor is in the video, and what is left to play fits behind it.    *)
Left(j) == Blocks(fileLen, j) /\ (requestSegment + j) * B <= FileLen
Held == /\ requestSegment \in Nat /\ requestSegment * B <= FileLen
        /\ \E j \in Nat : Left(j)
CInv == (pc # "play" => fileLen = 0) /\ (~odd => Held)

(* A position in the video does not wrap, and the clamp of PLAY and        *)
(* FORWARD leaves no more than the video still has.                        *)
LEMMA Position ==
    ASSUME Held
    PROVE  position = requestSegment * B /\ position \in 0..FileLen
<1>1. PICK p : p = requestSegment * B
  OBVIOUS
<1>2. p \in 0..(Word - 1) /\ p <= FileLen
  BY <1>1, Fits DEF Held
<1>3. p % Word = p
  BY <1>2, Constants, Unwrapped
<1> QED
  BY <1>1, <1>2, <1>3, Constants DEF position, B

LEMMA Clamped ==
    ASSUME Held, NEW l \in JumpLength, ~Overflows(l)
    PROVE  Clamp(l) \in Nat /\ Clamp(l) + position <= FileLen
<1>1. PICK p \in 0..FileLen : p = position
  BY Position
<1>2. l \in Nat /\ l + p \in 0..(Word - 1) /\ FileLen - p \in 0..(Word - 1)
  BY <1>1, Constants DEF Overflows
<1>3. (l + p) % Word = l + p /\ (FileLen - p) % Word = FileLen - p
  BY <1>2, Constants, Unwrapped
<1>4. Clamp(l) = IF l + p > FileLen THEN FileLen - p ELSE l
  BY <1>1, <1>3 DEF Clamp
<1>5. PICK c : c = Clamp(l)
  OBVIOUS
<1>6. c \in Nat /\ c + p <= FileLen
  BY <1>1, <1>2, <1>4, <1>5, Constants
<1> QED
  BY <1>1, <1>5, <1>6

(* The blocks of a length that fits. *)
LEMMA Whole ==
    ASSUME Held, NEW c \in Nat, c + position <= FileLen
    PROVE  /\ c \div B \in Nat /\ (requestSegment + c \div B) * B <= FileLen
           /\ c % B = 0 => Blocks(c, c \div B)
<1>1. PICK k, m : k = c \div B /\ m = c % B
  OBVIOUS
<1>2. c = (B * k) + m /\ m \in 0..(B - 1) /\ k \in Nat
  BY <1>1, Divided
<1>3. PICK p \in 0..FileLen : p = position /\ p = requestSegment * B
  BY Position
<1>4. (requestSegment + k) * B = p + (k * B) /\ k * B = B * k
  BY <1>2, <1>3, Constants, Together DEF Held
<1>5. PICK x \in Nat : x = B * k
  BY <1>2, Constants
<1>6. p + x <= FileLen
  BY <1>2, <1>3, <1>5, Constants
<1>7. (requestSegment + k) * B <= FileLen
  BY <1>4, <1>5, <1>6
<1>8. m = 0 => c = k * B
  BY <1>2, <1>4, <1>5
<1> QED
  BY <1>1, <1>2, <1>7, <1>8 DEF Blocks

LEMMA InvInit == Init => CInv
<1> SUFFICES ASSUME Init PROVE CInv
  OBVIOUS
<1>1. 0 * B = 0 /\ requestSegment = 0 /\ fileLen = 0
  BY Constants DEF Init
<1>2. Left(0)
  BY <1>1, Constants DEF Left, Blocks
<1> QED
  BY <1>1, <1>2, Constants DEF CInv, Held

(* A jump leaves nothing to play. *)
LEMMA Jumped ==
    ASSUME fileLen' = 0, requestSegment' \in Nat, requestSegment' * B <= FileLen
    PROVE  Held'
<1>1. 0 = 0 * B
  BY Constants
<1>2. PICK r \in Nat : r = requestSegment' /\ r * B <= FileLen /\ r + 0 = r
  OBVIOUS
<1>3. Left(0)'
  BY <1>1, <1>2 DEF Left, Blocks
<1> QED
  BY <1>3 DEF Held

LEMMA HeldStep ==
    ASSUME Held, pc # "play" => fileLen = 0, Next, ~odd'
    PROVE  Held'
<1>1. CASE UNCHANGED <<requestSegment, fileLen>>
  BY <1>1 DEF Held, Left, Blocks
<1>2. ASSUME NEW l \in JumpLength, Play(l) PROVE Held'
  <2>1. ~Overflows(l) /\ Clamp(l) % B = 0
    BY <1>2 DEF Play, Partial, B
  <2>2. PICK c \in Nat : c = Clamp(l) /\ c + position <= FileLen
    BY <2>1, Clamped
  <2>3. PICK k \in Nat : Blocks(c, k) /\ (requestSegment + k) * B <= FileLen
    BY <2>1, <2>2, Whole
  <2>4. Left(k)'
    BY <1>2, <2>2, <2>3 DEF Play, Left, Blocks
  <2> QED
    BY <1>2, <2>4 DEF Play, Held
<1>3. CASE PlayBlock
  <2>1. PICK j \in Nat : fileLen = j * B /\ (requestSegment + j) * B <= FileLen
    BY DEF Held, Left, Blocks
  <2>2. fileLen > 0
    BY <1>3 DEF PlayBlock
  <2>3. j >= 1
    BY <2>1, <2>2, Constants
  <2>4. PICK r \in Nat : r = requestSegment + 1 /\ r + (j - 1) = requestSegment + j
    BY DEF Held
  <2>5. r * B <= (requestSegment + j) * B
    BY <2>3, <2>4, Constants, Fewer DEF Held
  <2>6. r * B <= FileLen
    <3>1. PICK x, y \in Int : x = r * B /\ y = (requestSegment + j) * B
      BY Constants DEF Held
    <3> QED
      BY <2>1, <2>5, <3>1, Constants
  <2>7. requestSegment' = r
    <3>1. r \in 0..(Word - 1)
      BY <2>6, Fits
    <3> QED
      BY <1>3, <2>4, <3>1, Constants, Unwrapped DEF PlayBlock
  <2>8. fileLen' = (j - 1) * B
    <3>1. j * B <= FileLen
      <4>1. j * B <= (requestSegment + j) * B
        BY Constants, Fewer DEF Held
      <4>2. PICK x, y \in Int : x = j * B /\ y = (requestSegment + j) * B
        BY Constants DEF Held
      <4> QED
        BY <2>1, <4>1, <4>2, Constants
    <3>2. (j - 1) * B = fileLen - B /\ 0 <= (j - 1) * B
      BY <2>1, <2>3, Constants
    <3>3. fileLen - B \in 0..(Word - 1)
      <4>1. PICK x, y \in Int : x = fileLen /\ y = fileLen - B /\ x = j * B /\ y = (j - 1) * B
        BY <2>1, <3>2, Constants
      <4> QED
        BY <3>1, <3>2, <4>1, Constants
    <3> QED
      BY <1>3, <3>2, <3>3, Constants, Unwrapped DEF PlayBlock, LessBlock, B
  <2>9. Left(j - 1)'
    BY <2>1, <2>3, <2>4, <2>7, <2>8 DEF Left, Blocks
  <2> QED
    BY <2>3, <2>6, <2>7, <2>9 DEF Held
<1>4. ASSUME NEW l \in JumpLength, Forward(l) PROVE Held'
  <2>1. ~Overflows(l) /\ pc # "play" /\ UNCHANGED fileLen
    BY <1>4 DEF Forward
  <2>2. PICK c \in Nat : c = Clamp(l) /\ c + position <= FileLen
    BY <2>1, Clamped
  <2>3. PICK k \in Nat : k = c \div B /\ (requestSegment + k) * B <= FileLen
    BY <2>2, Whole
  <2>4. PICK s \in Nat : s = requestSegment + k /\ s * B <= FileLen
    BY <2>3 DEF Held
  <2>5. s % Word = s /\ s <= FileLen \div B
    BY <2>4, Fits, Constants, Unwrapped
  <2>6. requestSegment' \in {0, s}
    BY <1>4, <2>2, <2>3, <2>4, <2>5 DEF Forward, B
  <2>7. requestSegment' \in Nat /\ requestSegment' * B <= FileLen
    <3>1. 0 * B = 0
      BY Constants
    <3>2. CASE requestSegment' = 0
      BY <3>1, <3>2, Constants
    <3>3. CASE requestSegment' = s
      BY <2>4, <3>3
    <3> QED
      BY <2>6, <3>2, <3>3
  <2> QED
    BY <2>1, <2>7, Jumped
<1>5. ASSUME NEW l \in JumpLength, Backward(l) PROVE Held'
  <2>1. fileLen' = 0
    BY <1>5 DEF Backward
  <2>2. CASE position <= l
    <3>1. requestSegment' = 0 /\ 0 * B = 0
      BY <1>5, <2>2, Constants DEF Backward, Behind
    <3> QED
      BY <2>1, <3>1, Constants, Jumped
  <2>3. CASE ~(position <= l)
    <3>1. PICK p \in 0..FileLen : p = position /\ p = requestSegment * B
      BY Position
    <3>2. PICK k, m : k = l \div B /\ m = l % B
      OBVIOUS
    <3>3. l \in Nat /\ l = (B * k) + m /\ m \in 0..(B - 1) /\ k \in Nat
      BY <3>2, Constants, Divided
    <3>4. k * B <= requestSegment * B
      <4>1. PICK x \in Nat : x = k * B /\ x = B * k
        BY <3>3, Constants
      <4> QED
        BY <2>3, <3>1, <3>3, <4>1
    <3>5. k <= requestSegment
      BY <3>3, <3>4, Constants, Fewer DEF Held
    <3>6. PICK r \in Nat : r = requestSegment - k /\ r <= requestSegment
      BY <3>3, <3>5 DEF Held
    <3>7. r * B <= FileLen
      <4>1. r * B <= requestSegment * B
        BY <3>6, Constants, Fewer DEF Held
      <4>2. PICK x \in Nat : x = r * B
        BY Constants
      <4>3. PICK y \in Nat : y = requestSegment * B /\ y <= FileLen
        BY <3>1, Constants
      <4> QED
        BY <4>1, <4>2, <4>3, Constants
    <3>8. r % Word = r
      BY <3>7, Fits, Constants, Unwrapped
    <3>9. requestSegment' = r
      BY <1>5, <2>3, <3>2, <3>6, <3>8 DEF Backward, Behind, B
    <3> QED
      BY <2>1, <3>7, <3>9, Jumped
  <2> QED
    BY <2>2, <2>3
<1>6. EndPlay \/ Pause \/ Stop => UNCHANGED <<requestSegment, fileLen>>
  BY DEF EndPlay, Pause, Stop
<1> QED
  BY <1>1, <1>2, <1>3, <1>4, <1>5, <1>6 DEF Next

LEMMA InvStep == CInv /\ [Next]_vars => CInv'
<1> SUFFICES ASSUME CInv, [Next]_vars PROVE CInv'
  OBVIOUS
<1>1. CASE Next
  <2>1. ~odd' => ~odd
    BY <1>1 DEF Next, Play, PlayBlock, EndPlay, Pause, Forward, Backward, Stop
  <2>2. pc' # "play" => fileLen' = 0
    BY <1>1 DEF CInv, Next, Play, PlayBlock, EndPlay, Pause, Forward, Backward, Stop
  <2> QED
    BY <1>1, <2>1, <2>2, HeldStep DEF CInv
<1>2. CASE UNCHANGED vars
  BY <1>2 DEF vars, CInv, Held, Left, Blocks
<1> QED
  BY <1>1, <1>2

LEMMA Invariant == Spec => []CInv
BY InvInit, InvStep, PTL DEF Spec

(* Whatever lengths and statuses are drawn, the cursor passes the end of   *)
(* the video only after a length whose end overflows unsigned int, or one  *)
(* played that is no whole number of blocks.                               *)
THEOREM CursorStays == Spec => []CursorWhole
<1>1. CInv => CursorWhole
  BY DEF CInv, Held, CursorWhole, B
<1> QED
  BY <1>1, Invariant, PTL

(* ... and only then does a client ask for a segment its video does not    *)
(* have.                                                                   *)
THEOREM AsksForExisting == Spec => []PlaysExisting
<1>1. CInv => PlaysExisting
  <2> SUFFICES ASSUME Held, fileLen > 0 PROVE requestSegment < FileLen \div BlockSize
    BY DEF PlaysExisting, CInv
  <2>1. PICK j \in Nat : fileLen = j * B /\ (requestSegment + j) * B <= FileLen
    BY DEF Held, Left, Blocks
  <2>2. j >= 1
    BY <2>1, Constants
  <2>3. PICK n \in Nat : n = requestSegment + j /\ n * B <= FileLen
    BY <2>1 DEF Held
  <2>4. n <= FileLen \div B
    BY <2>3, Fits
  <2>5. PICK q \in Int : q = FileLen \div B
    BY Constants
  <2> QED
    BY <2>2, <2>3, <2>4, <2>5 DEF Held, B
<1> QED
  BY <1>1, Invariant, PTL
=============================================================================
