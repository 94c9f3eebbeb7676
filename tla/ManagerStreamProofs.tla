------------------------- MODULE ManagerStreamProofs -------------------------
(***************************************************************************)
(* Proofs about ManagerStream, for any number of clients, any size of the  *)
(* socket buffers and any split of the streams.                            *)
(***************************************************************************)
EXTENDS ManagerStream, SequenceTheorems, TLAPS

-----------------------------------------------------------------------------
(* The inductive invariant. *)

(* Every word is of a message its client may have sent. *)
Message(c) ==
    {<<HEARTBEAT, c, b>> : b \in Band}
    \cup {<<t, c, requestFile[c], s, blockSize>> :
             t \in {BLOCKADD, BLOCKELIMINATE}, s \in ever[c]}
WordIn(M) == {x \in [msg : M, at : Nat] : x.at \in 1..Len(x.msg)}
WordOf(c) == WordIn(Message(c))

WordsKnown ==
    /\ \A c \in Client : \A w \in Writer : out[c][w] \in Seq(WordOf(c))
    /\ \A q \in Conn : sock[q] \in Seq(WordOf(q[1]))
    /\ chunk # <<>> => from \in Conn
    /\ \A c \in Client : chunk # <<>> /\ from[1] = c => chunk \in Seq(WordOf(c))

(* Words follow each other as in a message, and messages each other. *)
Follows(x, y) == IF Last(x) THEN First(y) ELSE y.msg = x.msg /\ y.at = x.at + 1
Flows(s) == \A i \in 1..(Len(s) - 1) : Follows(s[i], s[i + 1])

(* One write began inside another's message, and nothing behind that place *)
(* has been received.                                                      *)
Broken(s) ==
    \E n \in 1..(Len(s) - 1) :
        /\ First(s[1]) /\ ~Last(s[n]) /\ First(s[n + 1])
        /\ \A i \in 1..(n - 1) : Follows(s[i], s[i + 1])

(* What a writer has still to write goes on where the socket's words end. *)
WritersTakeTurns ==
    \A c \in Client :
        /\ \A w \in Writer :
              Flows(out[c][w]) /\ (out[c][w] # <<>> => Last(out[c][w][Len(out[c][w])]))
        /\ clientUp /\ <<c, run>> \notin mixed =>
              /\ \A v, w \in Writer : Cut(c, v) /\ Cut(c, w) => v = w
              /\ LET s == sock[<<c, run>>]
                 IN s # <<>> => IF \E w \in Writer : Cut(c, w)
                                THEN \A w \in Writer :
                                        Cut(c, w) => Follows(s[Len(s)], out[c][w][1])
                                ELSE Last(s[Len(s)])

Streams ==
    \A q \in Conn :
        /\ q \notin mixed => Flows(sock[q])
        /\ q \notin mixed \cup torn =>
              /\ sock[q] # <<>> => First(sock[q][1])
              /\ clientUp /\ q[2] = run /\ sock[q] = <<>> => \A w \in Writer : ~Cut(q[1], w)
        /\ q \in mixed \ torn => Broken(sock[q])

ChunkWhole ==
    chunk # <<>> =>
        /\ from \notin mixed => Flows(chunk)
        /\ from \notin torn /\ (LargeNumbers(from[1]) \/ from \notin misread) =>
              Flows(chunk) /\ Last(chunk[Len(chunk)]) /\ chunk[1].at \in {1, 3}

(* Runs and the connections they opened. *)
Runs ==
    /\ \A q \in Conn : q[2] > run => sock[q] = <<>> /\ q \notin open \cup mixed \cup torn
    /\ from # NoConn => from[2] <= run
    /\ \A c \in Client : newest[c] <= run /\ held[c] \subseteq ever[c]
    /\ ~clientUp => /\ held = [c \in Client |-> {}]
                    /\ out = [c \in Client |-> [w \in Writer |-> <<>>]]
    /\ chunk # <<>> /\ from[1] \notin overtaken => from[2] = newest[from[1]]

(* What the words of a stream say last of a segment, if anything. *)
Of(x, s) == First(x) /\ x.msg[1] \in {BLOCKADD, BLOCKELIMINATE} /\ x.msg[4] = s
Silent(w, s) == \A i \in 1..Len(w) : ~Of(w[i], s)
Says(w, s, listed) ==
    \E i \in 1..Len(w) :
        /\ Of(w[i], s) /\ (w[i].msg[1] = BLOCKADD <=> listed)
        /\ \A j \in (i + 1)..Len(w) : ~Of(w[j], s)

Pending(c) == IF from = <<c, run>> THEN chunk \o sock[<<c, run>>] ELSE sock[<<c, run>>]
Agree(c, s) == IF run = 1 THEN s \in Listed(c) <=> s \in held[c]
                          ELSE s \in held[c] => s \in Listed(c) /\ newest[c] = run

(* What is under way leaves the directory with what the client holds. *)
Told(c, s) ==
    LET o == out[c]["owner"]
        k == Pending(c)
    IN \/ Says(o, s, s \in held[c])
       \/ Silent(o, s) /\ Says(k, s, s \in held[c])
       \/ Silent(o, s) /\ Silent(k, s) /\ Agree(c, s)
Faithful(c) ==
    /\ isP2pOpen /\ clientUp /\ Clean(c)
    /\ chunk # <<>> /\ from[1] = c => First(chunk[1])
    /\ run = 1 \/ c \notin overtaken
DirectoryFollows == \A c \in Client : Faithful(c) => \A s \in Seg : Told(c, s)

(* A peer's thread writes heartbeats only. *)
PeersSilent == \A c \in Client, s \in Seg : Silent(out[c]["peer"], s)

Inv ==
    /\ TypeOK /\ WordsKnown /\ WritersTakeTurns /\ Streams /\ ChunkWhole /\ Runs
    /\ RowsWereTrue /\ SafeConnection /\ PeersSilent /\ DirectoryFollows

-----------------------------------------------------------------------------
(* Sequences: the first n elements, the others, one behind the other. *)
LEMMA Front ==
    ASSUME NEW S, NEW s \in Seq(S), NEW n \in 0..Len(s)
    PROVE  /\ SubSeq(s, 1, n) \in Seq(S) /\ Len(SubSeq(s, 1, n)) = n
           /\ \A i \in 1..n : SubSeq(s, 1, n)[i] = s[i]
<1>1. \A i \in 1..n : s[i] \in S
  OBVIOUS
<1> QED
  BY <1>1, SubSeqProperties

LEMMA Back ==
    ASSUME NEW S, NEW s \in Seq(S), NEW n \in 0..Len(s)
    PROVE  /\ SubSeq(s, n + 1, Len(s)) \in Seq(S)
           /\ Len(SubSeq(s, n + 1, Len(s))) = Len(s) - n
           /\ \A i \in 1..(Len(s) - n) : SubSeq(s, n + 1, Len(s))[i] = s[n + i]
<1>1. \A i \in (n + 1)..Len(s) : s[i] \in S
  OBVIOUS
<1> QED
  BY <1>1, SubSeqProperties

LEMMA Joined ==
    ASSUME NEW S, NEW s \in Seq(S), NEW t \in Seq(S)
    PROVE  /\ s \o t \in Seq(S) /\ Len(s \o t) = Len(s) + Len(t)
           /\ \A i \in 1..Len(s) : (s \o t)[i] = s[i]
           /\ \A i \in 1..Len(t) : (s \o t)[Len(s) + i] = t[i]
BY ConcatProperties

LEMMA EmptyIs == ASSUME NEW S, NEW s \in Seq(S) PROVE s = <<>> <=> Len(s) = 0
OBVIOUS

(* A stream that flows does so in each part, and two parts make one when   *)
(* the second goes on where the first ends.                                *)
LEMMA FlowsFront ==
    ASSUME NEW S, NEW s \in Seq(S), NEW n \in 0..Len(s), Flows(s)
    PROVE  Flows(SubSeq(s, 1, n))
BY Front DEF Flows

LEMMA FlowsBack ==
    ASSUME NEW S, NEW s \in Seq(S), NEW n \in 0..Len(s), Flows(s)
    PROVE  Flows(SubSeq(s, n + 1, Len(s)))
BY Back DEF Flows

LEMMA FlowsJoined ==
    ASSUME NEW S, NEW s \in Seq(S), NEW t \in Seq(S), Flows(s), Flows(t),
           s # <<>> /\ t # <<>> => Follows(s[Len(s)], t[1])
    PROVE  Flows(s \o t)
<1>1. PICK u : u = s \o t
  OBVIOUS
<1>2. u \in Seq(S) /\ Len(u) = Len(s) + Len(t)
  BY <1>1, Joined
<1>3. \A i \in 1..Len(s) : u[i] = s[i]
  BY <1>1, Joined
<1>4. \A i \in 1..Len(t) : u[Len(s) + i] = t[i]
  BY <1>1, Joined
<1>5. ASSUME NEW i \in 1..(Len(u) - 1) PROVE Follows(u[i], u[i + 1])
  <2>1. CASE i < Len(s)
    <3>1. u[i] = s[i] /\ u[i + 1] = s[i + 1] /\ i \in 1..(Len(s) - 1)
      BY <1>3, <2>1
    <3> QED
      BY <3>1 DEF Flows
  <2>2. CASE i = Len(s)
    <3>1. s # <<>> /\ t # <<>>
      BY <1>2, <2>2
    <3>2. u[i] = s[Len(s)]
      BY <1>3, <2>2
    <3>3. 1 \in 1..Len(t)
      BY <3>1
    <3>4. u[i + 1] = t[1]
      BY <1>4, <2>2, <3>3
    <3> QED
      BY <3>1, <3>2, <3>4
  <2>3. CASE i > Len(s)
    <3>1. PICK j : j = i - Len(s)
      OBVIOUS
    <3>2. j \in 1..(Len(t) - 1) /\ i = Len(s) + j
      BY <1>2, <2>3, <3>1
    <3>3. u[i] = t[j] /\ u[Len(s) + (j + 1)] = t[j + 1] /\ i + 1 = Len(s) + (j + 1)
      BY <1>4, <3>2
    <3> QED
      BY <3>2, <3>3 DEF Flows
  <2> QED
    BY <2>1, <2>2, <2>3, <1>2
<1> QED
  BY <1>1, <1>5 DEF Flows

(* What a stream says of a segment, of its parts. *)
LEMMA SaysBehind ==
    ASSUME NEW S, NEW k \in Seq(S), NEW t \in Seq(S), NEW s, NEW x
    PROVE  /\ Silent(k, s) /\ Silent(t, s) => Silent(k \o t, s)
           /\ Says(k, s, x) /\ Silent(t, s) => Says(k \o t, s, x)
           /\ Says(t, s, x) => Says(k \o t, s, x)
<1>1. PICK u : u = k \o t
  OBVIOUS
<1>2. u \in Seq(S) /\ Len(u) = Len(k) + Len(t)
  BY <1>1, Joined
<1>3. \A i \in 1..Len(k) : u[i] = k[i]
  BY <1>1, Joined
<1>4. \A i \in 1..Len(t) : u[Len(k) + i] = t[i]
  BY <1>1, Joined
<1>5. \A i \in (Len(k) + 1)..Len(u) : i - Len(k) \in 1..Len(t) /\ u[i] = t[i - Len(k)]
  BY <1>2, <1>4
<1>6. Silent(k, s) /\ Silent(t, s) => Silent(u, s)
  BY <1>2, <1>3, <1>5 DEF Silent
<1>7. ASSUME Says(k, s, x), Silent(t, s) PROVE Says(u, s, x)
  <2>1. PICK i \in 1..Len(k) : /\ Of(k[i], s) /\ (k[i].msg[1] = BLOCKADD <=> x)
                               /\ \A j \in (i + 1)..Len(k) : ~Of(k[j], s)
    BY <1>7 DEF Says
  <2>2. \A j \in (i + 1)..Len(u) : ~Of(u[j], s)
    BY <2>1, <1>7, <1>2, <1>3, <1>5 DEF Silent
  <2> QED
    BY <2>1, <2>2, <1>2, <1>3 DEF Says
<1>8. ASSUME Says(t, s, x) PROVE Says(u, s, x)
  <2>1. PICK i \in 1..Len(t) : /\ Of(t[i], s) /\ (t[i].msg[1] = BLOCKADD <=> x)
                               /\ \A j \in (i + 1)..Len(t) : ~Of(t[j], s)
    BY <1>8 DEF Says
  <2>2. \A j \in (Len(k) + i + 1)..Len(u) : ~Of(u[j], s)
    <3> SUFFICES ASSUME NEW j \in (Len(k) + i + 1)..Len(u) PROVE ~Of(u[j], s)
      OBVIOUS
    <3>1. j \in (Len(k) + 1)..Len(u) /\ j - Len(k) \in (i + 1)..Len(t)
      BY <1>2
    <3> QED
      BY <3>1, <2>1, <1>5
  <2>3. u[Len(k) + i] = t[i] /\ Len(k) + i \in 1..Len(u)
    BY <1>2, <1>4
  <2> QED
    BY <2>1, <2>2, <2>3 DEF Says
<1> QED
  BY <1>1, <1>6, <1>7, <1>8

LEMMA SaysParts ==
    ASSUME NEW S, NEW u \in Seq(S), NEW n \in 0..Len(u), NEW s, NEW x
    PROVE  /\ Silent(u, s) => /\ Silent(SubSeq(u, 1, n), s)
                              /\ Silent(SubSeq(u, n + 1, Len(u)), s)
           /\ Says(u, s, x) =>
                  \/ Says(SubSeq(u, n + 1, Len(u)), s, x)
                  \/ Silent(SubSeq(u, n + 1, Len(u)), s) /\ Says(SubSeq(u, 1, n), s, x)
<1>1. PICK k : k = SubSeq(u, 1, n)
  OBVIOUS
<1>2. PICK t : t = SubSeq(u, n + 1, Len(u))
  OBVIOUS
<1>3. k \in Seq(S) /\ Len(k) = n /\ \A i \in 1..n : k[i] = u[i]
  BY <1>1, Front
<1>4. t \in Seq(S) /\ Len(t) = Len(u) - n /\ \A i \in 1..(Len(u) - n) : t[i] = u[n + i]
  BY <1>2, Back
<1>5. ASSUME Silent(u, s) PROVE Silent(k, s) /\ Silent(t, s)
  <2>1. \A i \in 1..Len(k) : i \in 1..Len(u) /\ k[i] = u[i]
    BY <1>3
  <2>2. \A i \in 1..Len(t) : n + i \in 1..Len(u) /\ t[i] = u[n + i]
    BY <1>4
  <2> QED
    BY <1>5, <2>1, <2>2 DEF Silent
<1>6. ASSUME Says(u, s, x) PROVE Says(t, s, x) \/ (Silent(t, s) /\ Says(k, s, x))
  <2>1. PICK i \in 1..Len(u) : /\ Of(u[i], s) /\ (u[i].msg[1] = BLOCKADD <=> x)
                               /\ \A j \in (i + 1)..Len(u) : ~Of(u[j], s)
    BY <1>6 DEF Says
  <2>2. CASE i <= n
    <3>1. Silent(t, s)
      BY <2>1, <2>2, <1>4 DEF Silent
    <3>2. Says(k, s, x)
      BY <2>1, <2>2, <1>3 DEF Says
    <3> QED
      BY <3>1, <3>2
  <2>3. CASE i > n
    <3>1. PICK h : h = i - n
      OBVIOUS
    <3>2. h \in 1..Len(t) /\ t[h] = u[i]
      BY <2>3, <3>1, <1>4
    <3>3. \A j \in (h + 1)..Len(t) : ~Of(t[j], s)
      <4> SUFFICES ASSUME NEW j \in (h + 1)..Len(t) PROVE ~Of(t[j], s)
        OBVIOUS
      <4>1. t[j] = u[n + j] /\ n + j \in (i + 1)..Len(u)
        BY <1>4, <3>1, <3>2
      <4> QED
        BY <4>1, <2>1
    <3> QED
      BY <2>1, <3>2, <3>3 DEF Says
  <2> QED
    BY <2>2, <2>3
<1> QED
  BY <1>1, <1>2, <1>5, <1>6

-----------------------------------------------------------------------------
(* Words and messages. *)
LEMMA WordIs == \A x \in WordType : /\ x.msg \in Seq(Nat) /\ x.at \in 1..Len(x.msg)
                                    /\ Val(x) \in Nat
BY DEF WordType, Val

LEMMA Sizes ==
    /\ \A t \in Nat : Size(t) \in 3..5 /\ Stride(t) \in 3..5
    /\ Size(HEARTBEAT) = 3 /\ Stride(HEARTBEAT) = 5 /\ Size(REQUESTRESOURCE) = 4
    /\ \A t \in {BLOCKADD, BLOCKELIMINATE} : Size(t) = 5 /\ Stride(t) = 5
BY DEF Size, Stride, HEARTBEAT, BLOCKADD, BLOCKELIMINATE, REQUESTRESOURCE, CLIENTQUIT

LEMMA WordsOf ==
    ASSUME NEW m \in Seq(Nat), m # <<>>
    PROVE  /\ Word(m) \in Seq(WordType) /\ Len(Word(m)) = Len(m) /\ Flows(Word(m))
           /\ \A i \in 1..Len(m) : Word(m)[i].msg = m /\ Word(m)[i].at = i
           /\ First(Word(m)[1]) /\ Last(Word(m)[Len(m)])
<1>1. \A i \in 1..Len(m) : [msg |-> m, at |-> i] \in WordType
  BY DEF WordType
<1>2. Word(m) \in Seq(WordType) /\ Len(Word(m)) = Len(m)
  BY <1>1 DEF Word
<1>3. \A i \in 1..Len(m) : Word(m)[i] = [msg |-> m, at |-> i]
  BY DEF Word
<1>4. Len(m) \in Nat \ {0}
  OBVIOUS
<1>5. ASSUME NEW i \in 1..Len(m) PROVE Word(m)[i].msg = m /\ Word(m)[i].at = i
  <2>1. Word(m)[i] = [msg |-> m, at |-> i]
    BY <1>3
  <2> QED
    BY <2>1
<1>6. First(Word(m)[1]) /\ Last(Word(m)[Len(m)])
  BY <1>4, <1>5 DEF First, Last
<1>7. Flows(Word(m))
  BY <1>2, <1>4, <1>5 DEF Flows, Follows, First, Last
<1> QED
  BY <1>2, <1>5, <1>6, <1>7

LEMMA BeatIs ==
    ASSUME TypeOK, NEW c \in Client, NEW b \in Band
    PROVE  /\ <<HEARTBEAT, c, b>> \in Seq(Nat) /\ <<HEARTBEAT, c, b>> # <<>>
           /\ Beat(c, b) = Word(<<HEARTBEAT, c, b>>)
BY StreamAssumption DEF Beat, HEARTBEAT

LEMMA UpdateIs ==
    ASSUME TypeOK, NEW t \in {BLOCKADD, BLOCKELIMINATE}, NEW c \in Client, NEW s \in Seg
    PROVE  /\ <<t, c, requestFile[c], s, blockSize>> \in Seq(Nat)
           /\ <<t, c, requestFile[c], s, blockSize>> # <<>>
           /\ Update(t, c, s) = Word(<<t, c, requestFile[c], s, blockSize>>)
<1>1. requestFile \in [Client -> File]
  BY StreamAssumption DEF TypeOK
<1>2. requestFile[c] \in Nat
  BY <1>1, StreamAssumption
<1>3. c \in Nat /\ s \in Nat /\ blockSize \in Nat
  BY StreamAssumption
<1>4. t \in Nat
  BY DEF BLOCKADD, BLOCKELIMINATE
<1> QED
  BY <1>2, <1>3, <1>4 DEF Update

-----------------------------------------------------------------------------
(* Types. *)
LEMMA TypeInit == Init => TypeOK
<1> SUFFICES ASSUME Init PROVE TypeOK
  OBVIOUS
<1>1. <<>> \in Seq(WordType) /\ Len(<<>>) = 0
  OBVIOUS
<1>2. run \in Run /\ Client \X {1} \subseteq Conn
  BY StreamAssumption DEF Init, Run, Conn
<1>3. DOMAIN client_info \subseteq Nat /\ \A n \in DOMAIN client_info : client_info[n] \in Nat
  BY StreamAssumption DEF Init
<1>4. /\ requestFile \in RequestList /\ isP2pOpen \in BOOLEAN
      /\ clientUp \in BOOLEAN /\ serverUp \in BOOLEAN
      /\ quit \in Nat /\ ivod_seg_t \subseteq Nat \X Nat \X Nat
      /\ torn \subseteq Conn /\ misread \subseteq Conn /\ mixed \subseteq Conn
      /\ overtaken \subseteq Client /\ from \in Conn \cup {NoConn}
  BY DEF Init
<1>5. /\ held \in [Client -> SUBSET Seg] /\ ever \in [Client -> SUBSET Seg]
      /\ messages \in [Client -> Nat] /\ newest \in [Client -> Nat]
  BY DEF Init
<1>6. /\ out \in [Client -> [Writer -> Seq(WordType)]]
      /\ sock \in [Conn -> Seq(WordType)] /\ chunk \in Seq(WordType)
      /\ \A q \in Conn : Len(sock[q]) <= SockWords
  BY <1>1, StreamAssumption DEF Init
<1> QED
  BY <1>2, <1>3, <1>4, <1>5, <1>6 DEF TypeOK, Init

LEMMA BeginTypes ==
    ASSUME TypeOK, NEW c \in Client, NEW w \in Writer, NEW m \in Seq(WordType), Begin(c, w, m),
           held' \in [Client -> SUBSET Seg], ever' \in [Client -> SUBSET Seg]
    PROVE  TypeOK'
<1>1. out' \in [Client -> [Writer -> Seq(WordType)]]
  BY DEF TypeOK, Begin
<1>2. messages' \in [Client -> Nat]
  BY DEF TypeOK, Begin
<1> QED
  BY <1>1, <1>2 DEF TypeOK, Begin, setting, connection, reading, directory

LEMMA writenTypes ==
    ASSUME TypeOK, NEW c \in Client, NEW w \in Writer, writen(c, w)
    PROVE  TypeOK'
<1> DEFINE q == <<c, run>>
           o == out[c][w]
           n == IF Len(o) < Room(q) THEN Len(o) ELSE Room(q)
<1>1. q \in Conn
  BY DEF TypeOK, Conn
<1>2. o \in Seq(WordType) /\ sock[q] \in Seq(WordType) /\ Len(sock[q]) <= SockWords
  BY <1>1 DEF TypeOK
<1>3. n \in 1..Len(o) /\ n <= SockWords - Len(sock[q])
  BY <1>2, StreamAssumption DEF writen, Room
<1>4. /\ sock' = [sock EXCEPT ![q] = sock[q] \o SubSeq(o, 1, n)]
      /\ out' = [out EXCEPT ![c][w] = SubSeq(o, n + 1, Len(o))]
      /\ mixed' = mixed \/ mixed' = mixed \cup {q}
      /\ UNCHANGED <<setting, run, clientUp, held, messages, open, reading, directory,
                     serverUp, ever, torn, misread, newest, overtaken>>
  BY DEF writen, TypeOK
<1> HIDE DEF n, o, q
<1>5. SubSeq(o, 1, n) \in Seq(WordType) /\ Len(SubSeq(o, 1, n)) = n
  BY <1>2, <1>3, Front
<1>6. SubSeq(o, n + 1, Len(o)) \in Seq(WordType)
  BY <1>2, <1>3, Back
<1>7. /\ sock[q] \o SubSeq(o, 1, n) \in Seq(WordType)
      /\ Len(sock[q] \o SubSeq(o, 1, n)) = Len(sock[q]) + n
  BY <1>2, <1>5, Joined
<1>8. sock' \in [Conn -> Seq(WordType)] /\ \A p \in Conn : Len(sock'[p]) <= SockWords
  <2>1. Len(sock[q] \o SubSeq(o, 1, n)) <= SockWords
    BY <1>2, <1>3, <1>7, StreamAssumption
  <2> QED
    BY <2>1, <1>1, <1>4, <1>7 DEF TypeOK
<1>9. out' \in [Client -> [Writer -> Seq(WordType)]]
  BY <1>4, <1>6 DEF TypeOK
<1>10. mixed' \subseteq Conn
  BY <1>1, <1>4 DEF TypeOK
<1> QED
  BY <1>4, <1>8, <1>9, <1>10 DEF TypeOK, setting, reading, directory

LEMMA RecvTypes ==
    ASSUME TypeOK, NEW q \in Conn, Recv(q)
    PROVE  TypeOK'
<1>1. sock[q] \in Seq(WordType) /\ Len(sock[q]) <= SockWords /\ q[1] \in Client /\ q[2] \in Nat
  BY DEF TypeOK, Conn, Run
<1>8. PICK w : w = sock[q]
  OBVIOUS
<1>2. PICK n \in 1..Len(w) : /\ chunk' = SubSeq(w, 1, n)
                             /\ torn' = torn \/ torn' = torn \cup {q}
                             /\ sock' = Taken(q, n)
  BY <1>8 DEF Recv
<1>9. w \in Seq(WordType) /\ n \in 0..Len(w)
  BY <1>1, <1>2, <1>8
<1>3. chunk' \in Seq(WordType)
  BY <1>2, <1>9, Front
<1>4. /\ SubSeq(w, n + 1, Len(w)) \in Seq(WordType)
      /\ Len(SubSeq(w, n + 1, Len(w))) = Len(w) - n
  BY <1>9, Back
<1>5. sock' \in [Conn -> Seq(WordType)] /\ \A p \in Conn : Len(sock'[p]) <= SockWords
  <2>1. Len(SubSeq(w, n + 1, Len(w))) <= SockWords
    BY <1>1, <1>2, <1>4, <1>8, StreamAssumption
  <2> QED
    BY <2>1, <1>2, <1>4, <1>8 DEF TypeOK, Taken
<1>6. newest' \in [Client -> Nat] /\ overtaken' \subseteq Client
  BY <1>1 DEF TypeOK, Recv
<1>7. torn' \subseteq Conn /\ from' \in Conn \cup {NoConn}
  BY <1>2 DEF TypeOK, Recv
<1> QED
  BY <1>3, <1>5, <1>6, <1>7 DEF TypeOK, Recv, setting, client, directory

(* What the cases of messageProcess have in common. *)
Handles ==
    /\ serverUp /\ chunk # <<>>
    /\ misread' = IF First(chunk[1]) THEN misread ELSE misread \cup {from}
    /\ UNCHANGED <<setting, client, connection, from, ever, torn, mixed, newest, overtaken>>
    /\ chunk' \in {chunk, <<>>} \/ (Type \in MessageType /\ Whole /\ chunk' = Rest)

LEMMA MessageTypes ==
    /\ {HEARTBEAT, BLOCKADD, BLOCKELIMINATE, CLIENTQUIT, REQUESTRESOURCE} \subseteq MessageType
    /\ {REQUESTSEGMENT, REQUESTSEGMENTAGAIN} \subseteq MessageType
BY DEF MessageType, HEARTBEAT, BLOCKADD, BLOCKELIMINATE, CLIENTQUIT, REQUESTRESOURCE,
       REQUESTSEGMENT, REQUESTSEGMENTAGAIN

LEMMA HandlerFrame == messageProcess => Handles \/ CloseQuit
<1>2. HandleHeartbeat => Handles
  BY MessageTypes DEF HandleHeartbeat, Reads, Handles
<1>3. HandleUpdate => Handles
  BY MessageTypes DEF HandleUpdate, Reads, Handles
<1>4. IgnoreUpdate => Handles
  BY DEF IgnoreUpdate, Reads, Handles
<1>5. HandleQuit => Handles
  BY MessageTypes DEF HandleQuit, Reads, Handles
<1>6. HandleResource => Handles
  BY MessageTypes DEF HandleResource, Reads, Handles
<1>7. HandleSegment => Handles
  BY MessageTypes DEF HandleSegment, Reads, Handles
<1>8. HandleShort => Handles
  BY DEF HandleShort, Reads, Handles
<1>9. WrongMessage => Handles
  BY DEF WrongMessage, Handles
<1> QED
  BY <1>2, <1>3, <1>4, <1>5, <1>6, <1>7, <1>8, <1>9 DEF messageProcess

LEMMA RestIs ==
    ASSUME NEW S, chunk \in Seq(S), Whole, Type \in Nat
    PROVE  Rest \in Seq(S)
<1>1. Stride(Type) \in 3..5 /\ Size(Type) \in 3..5
  BY Sizes
<1>2. CASE Stride(Type) <= Len(chunk)
  BY <1>1, <1>2, Back DEF Rest
<1>3. CASE Stride(Type) > Len(chunk)
  <2>1. Rest = <<>>
    BY <1>1, <1>3, SubSeqEmpty DEF Rest
  <2> QED
    BY <2>1
<1> QED
  BY <1>1, <1>2, <1>3

LEMMA HandlerTypes ==
    ASSUME TypeOK, chunk # <<>> => from \in Conn, messageProcess
    PROVE  TypeOK'
<1>1. CASE CloseQuit
  BY <1>1 DEF TypeOK, CloseQuit, setting, client, directory, history
<1>2. CASE Handles
  <2>1. chunk \in Seq(WordType) /\ chunk # <<>> /\ 1 \in 1..Len(chunk)
    BY <1>2 DEF TypeOK, Handles
  <2>2. \A i \in 1..Len(chunk) : Arg(i) \in Nat
    BY <2>1, WordIs DEF Arg
  <2>3. Type \in Nat
    BY <2>1, WordIs DEF Type
  <2>4. chunk' \in Seq(WordType)
    <3>1. <<>> \in Seq(WordType)
      OBVIOUS
    <3>2. Whole /\ chunk' = Rest => chunk' \in Seq(WordType)
      BY <2>1, <2>3, RestIs
    <3>3. chunk' = chunk \/ chunk' = <<>> \/ (Whole /\ chunk' = Rest)
      BY <1>2 DEF Handles
    <3> QED
      BY <3>1, <3>2, <3>3, <2>1
  <2>5. misread' \subseteq Conn
    BY <1>2 DEF TypeOK, Handles
  <2>6. /\ Type = HEARTBEAT /\ Whole => Len(chunk) >= 3
        /\ Type \in {BLOCKADD, BLOCKELIMINATE} /\ Whole => Len(chunk) >= 5
        /\ Type = REQUESTRESOURCE /\ Whole => Len(chunk) >= 4
    BY <2>1, Sizes DEF Whole
  <2>7. /\ quit' \in Nat /\ serverUp' \in BOOLEAN /\ ivod_seg_t' \subseteq Nat \X Nat \X Nat
        /\ DOMAIN client_info' \subseteq Nat
        /\ \A n \in DOMAIN client_info' : client_info'[n] \in Nat
    <3>1. CASE HandleHeartbeat
      <4>1. Arg(2) \in Nat /\ Arg(3) \in Nat
        BY <2>1, <2>2, <2>6, <3>1 DEF HandleHeartbeat, Reads
      <4> QED
        BY <3>1, <4>1 DEF HandleHeartbeat, TypeOK, updateP2pClient
    <3>2. CASE HandleUpdate
      <4>1. Arg(2) \in Nat /\ Arg(3) \in Nat /\ Arg(4) \in Nat
        BY <2>1, <2>2, <2>6, <3>2 DEF HandleUpdate, Reads
      <4> QED
        BY <3>2, <4>1 DEF HandleUpdate, TypeOK
    <3>3. CASE IgnoreUpdate
      BY <3>3 DEF IgnoreUpdate, TypeOK, directory
    <3>4. CASE HandleQuit
      BY <3>4 DEF HandleQuit, TypeOK, directory
    <3>5. CASE HandleResource
      <4>1. Arg(2) \in Nat /\ Arg(4) \in Nat
        BY <2>1, <2>2, <2>6, <3>5 DEF HandleResource, Reads
      <4> QED
        BY <3>5, <4>1 DEF HandleResource, TypeOK, insertP2pClient
    <3>6. CASE HandleSegment
      BY <3>6 DEF HandleSegment, TypeOK, directory
    <3>7. CASE HandleShort
      BY <3>7 DEF HandleShort, TypeOK, directory
    <3>8. CASE WrongMessage
      BY <3>8 DEF WrongMessage, TypeOK, directory
    <3>9. CASE CloseQuit
      BY <1>2, <3>9 DEF CloseQuit, Handles
    <3> QED
      BY <3>1, <3>2, <3>3, <3>4, <3>5, <3>6, <3>7, <3>8, <3>9 DEF messageProcess
  <2> QED
    BY <1>2, <2>4, <2>5, <2>7 DEF TypeOK, Handles, setting, client, connection
<1> QED
  BY <1>1, <1>2, HandlerFrame

LEMMA TypeStep ==
    ASSUME TypeOK, chunk # <<>> => from \in Conn, [Next]_vars
    PROVE  TypeOK'
<1>1. CASE messageProcess
  BY <1>1, HandlerTypes
<1>2. ASSUME NEW q \in Conn, Recv(q) PROVE TypeOK'
  BY <1>2, RecvTypes
<1>3. ASSUME NEW q \in Conn, RecvEnd(q) PROVE TypeOK'
  BY <1>3 DEF RecvEnd, TypeOK, setting, client, reading, directory, history
<1>4. CASE ClientExit
  <2>1. <<>> \in Seq(WordType)
    OBVIOUS
  <2>2. out' \in [Client -> [Writer -> Seq(WordType)]] /\ held' \in [Client -> SUBSET Seg]
    BY <1>4, <2>1 DEF ClientExit
  <2> QED
    BY <1>4, <2>2 DEF ClientExit, TypeOK, setting, connection, reading, directory, history
<1>5. CASE Restart
  <2>1. run' \in Run /\ Client \X {run'} \subseteq Conn
    BY <1>5, StreamAssumption DEF Restart, TypeOK, Run, Conn
  <2> QED
    BY <1>5, <2>1 DEF Restart, TypeOK, setting, reading, directory, history
<1>6. ASSUME NEW c \in Client, sendCurrentLoad(c) PROVE TypeOK'
  <2>1. PICK b \in Band : Begin(c, "peer", Beat(c, b))
    BY <1>6 DEF sendCurrentLoad
  <2>2. Beat(c, b) \in Seq(WordType)
    BY BeatIs, WordsOf
  <2>3. held' \in [Client -> SUBSET Seg] /\ ever' \in [Client -> SUBSET Seg]
    BY <1>6 DEF sendCurrentLoad, TypeOK
  <2> QED
    BY <2>1, <2>2, <2>3, BeginTypes DEF Writer
<1>7. ASSUME NEW c \in Client, sendAddedBlock(c) PROVE TypeOK'
  <2>1. PICK s \in Seg : /\ Begin(c, "owner", Update(BLOCKADD, c, s))
                         /\ held' = [held EXCEPT ![c] = @ \cup {s}]
                         /\ ever' = [ever EXCEPT ![c] = @ \cup {s}]
    BY <1>7 DEF sendAddedBlock
  <2>2. Update(BLOCKADD, c, s) \in Seq(WordType)
    <3>1. BLOCKADD \in {BLOCKADD, BLOCKELIMINATE}
      OBVIOUS
    <3>2. PICK m : m = <<BLOCKADD, c, requestFile[c], s, blockSize>>
      OBVIOUS
    <3>3. m \in Seq(Nat) /\ m # <<>> /\ Update(BLOCKADD, c, s) = Word(m)
      BY <3>1, <3>2, UpdateIs
    <3> QED
      BY <3>3, WordsOf
  <2>3. held' \in [Client -> SUBSET Seg] /\ ever' \in [Client -> SUBSET Seg]
    BY <2>1 DEF TypeOK
  <2> QED
    BY <2>1, <2>2, <2>3, BeginTypes DEF Writer
<1>8. ASSUME NEW c \in Client, sendEliminateBlock(c) PROVE TypeOK'
  <2>1. PICK s \in held[c] : /\ Begin(c, "owner", Update(BLOCKELIMINATE, c, s))
                             /\ held' = [held EXCEPT ![c] = @ \ {s}]
                             /\ UNCHANGED ever
    BY <1>8 DEF sendEliminateBlock
  <2>2. s \in Seg
    BY DEF TypeOK
  <2>3. Update(BLOCKELIMINATE, c, s) \in Seq(WordType)
    <3>1. BLOCKELIMINATE \in {BLOCKADD, BLOCKELIMINATE}
      OBVIOUS
    <3>2. PICK m : m = <<BLOCKELIMINATE, c, requestFile[c], s, blockSize>>
      OBVIOUS
    <3>3. m \in Seq(Nat) /\ m # <<>> /\ Update(BLOCKELIMINATE, c, s) = Word(m)
      BY <2>2, <3>1, <3>2, UpdateIs
    <3> QED
      BY <3>3, WordsOf
  <2>4. held' \in [Client -> SUBSET Seg] /\ ever' \in [Client -> SUBSET Seg]
    BY <2>1 DEF TypeOK
  <2> QED
    BY <2>1, <2>3, <2>4, BeginTypes DEF Writer
<1>9. ASSUME NEW c \in Client, NEW w \in Writer, writen(c, w) PROVE TypeOK'
  BY <1>9, writenTypes
<1>10. CASE UNCHANGED vars
  BY <1>10 DEF TypeOK, vars, setting, client, connection, reading, directory, history
<1> QED
  BY <1>1, <1>2, <1>3, <1>4, <1>5, <1>6, <1>7, <1>8, <1>9, <1>10
     DEF Next, ManagerThread, ClientProcess

-----------------------------------------------------------------------------
(* Every word is of a message that was sent. *)
IsBeat(m, c)   == m[1] = HEARTBEAT /\ Len(m) = 3 /\ m[2] = c /\ m[3] \in Band
IsUpdate(m, c) == /\ m[1] \in {BLOCKADD, BLOCKELIMINATE} /\ Len(m) = 5
                  /\ m[2] = c /\ m[3] = requestFile[c] /\ m[4] \in ever[c]

LEMMA MessageIs ==
    ASSUME TypeOK, NEW c \in Client, NEW m \in Message(c)
    PROVE  m \in Seq(Nat) /\ m # <<>> /\ (IsBeat(m, c) \/ IsUpdate(m, c))
<1>1. CASE \E b \in Band : m = <<HEARTBEAT, c, b>>
  <2>1. PICK b \in Band : m = <<HEARTBEAT, c, b>>
    BY <1>1
  <2>2. IsBeat(m, c)
    BY <2>1 DEF IsBeat
  <2> QED
    BY <2>1, <2>2, BeatIs
<1>2. CASE \E t \in {BLOCKADD, BLOCKELIMINATE}, s \in ever[c] :
              m = <<t, c, requestFile[c], s, blockSize>>
  <2>1. PICK t \in {BLOCKADD, BLOCKELIMINATE}, s \in ever[c] :
              m = <<t, c, requestFile[c], s, blockSize>>
    BY <1>2
  <2>2. s \in Seg
    BY DEF TypeOK
  <2>3. m \in Seq(Nat) /\ m # <<>>
    BY <2>1, <2>2, UpdateIs
  <2>4. IsUpdate(m, c)
    BY <2>1 DEF IsUpdate
  <2> QED
    BY <2>3, <2>4
<1> QED
  BY <1>1, <1>2 DEF Message

LEMMA WordsIn ==
    ASSUME NEW M, NEW m \in M, m \in Seq(Nat), m # <<>>
    PROVE  Word(m) \in Seq(WordIn(M))
<1>1. \A i \in 1..Len(m) : [msg |-> m, at |-> i] \in WordIn(M)
  BY DEF WordIn
<1> QED
  BY <1>1 DEF Word

(* What no step changes, and what it only adds to. *)
LEMMA Keeps ==
    ASSUME TypeOK, [Next]_vars
    PROVE  /\ UNCHANGED <<requestFile, isP2pOpen>>
           /\ \A c \in Client : ever[c] \subseteq ever'[c]
<1>1. CASE messageProcess
  BY <1>1, HandlerFrame DEF Handles, CloseQuit, setting, history
<1>2. ASSUME NEW q \in Conn, Recv(q) \/ RecvEnd(q)
      PROVE  UNCHANGED <<requestFile, isP2pOpen, ever>>
  BY <1>2 DEF Recv, RecvEnd, setting, history
<1>3. CASE ClientExit \/ Restart \/ UNCHANGED vars
  BY <1>3 DEF ClientExit, Restart, vars, setting, history
<1>4. ASSUME NEW c \in Client, sendCurrentLoad(c) \/ sendAddedBlock(c) \/ sendEliminateBlock(c)
      PROVE  /\ UNCHANGED <<requestFile, isP2pOpen>>
             /\ \A d \in Client : ever[d] \subseteq ever'[d]
  <2>1. CASE sendAddedBlock(c)
    BY <2>1 DEF sendAddedBlock, Begin, setting, TypeOK
  <2>2. CASE sendCurrentLoad(c)
    BY <2>2 DEF sendCurrentLoad, Begin, setting
  <2>3. CASE sendEliminateBlock(c)
    BY <2>3 DEF sendEliminateBlock, Begin, setting
  <2> QED
    BY <1>4, <2>1, <2>2, <2>3
<1>5. ASSUME NEW c \in Client, NEW w \in Writer, writen(c, w)
      PROVE  UNCHANGED <<requestFile, isP2pOpen, ever>>
  BY <1>5 DEF writen, setting
<1> QED
  BY <1>1, <1>2, <1>3, <1>4, <1>5 DEF Next, ManagerThread, ClientProcess

LEMMA WordsGrow ==
    ASSUME TypeOK, [Next]_vars, NEW c \in Client
    PROVE  Message(c) \subseteq Message(c)' /\ WordOf(c) \subseteq WordOf(c)'
<1>1. Message(c) \subseteq Message(c)'
  BY Keeps DEF Message
<1>2. \A M, N : M \subseteq N => WordIn(M) \subseteq WordIn(N)
  BY DEF WordIn
<1> QED
  BY <1>1, <1>2 DEF WordOf

LEMMA SeqsGrow ==
    ASSUME TypeOK, [Next]_vars, NEW c \in Client
    PROVE  \A s \in Seq(WordOf(c)) : s \in Seq(WordOf(c)')
<1>1. \A S, T : S \subseteq T => \A s \in Seq(S) : s \in Seq(T)
  BY SeqMonotonic
<1>2. WordOf(c) \subseteq WordOf(c)'
  BY WordsGrow
<1> QED
  BY <1>1, <1>2

(* A message is begun in one of three ways, and is one its client may send. *)
Begins(c, w, m) == m \in Message(c)' /\ m \in Seq(Nat) /\ m # <<>> /\ Begin(c, w, Word(m))

LEMMA BeginCases ==
    ASSUME TypeOK, Runs, [Next]_vars, NEW c \in Client,
           sendCurrentLoad(c) \/ sendAddedBlock(c) \/ sendEliminateBlock(c)
    PROVE  \E w \in Writer, m \in Seq(Nat) : Begins(c, w, m)
<1> USE DEF Begins
<1>1. CASE sendCurrentLoad(c)
  <2>1. PICK b \in Band : Begin(c, "peer", Beat(c, b))
    BY <1>1 DEF sendCurrentLoad
  <2>2. PICK m : m = <<HEARTBEAT, c, b>>
    OBVIOUS
  <2>3. m \in Seq(Nat) /\ m # <<>> /\ Beat(c, b) = Word(m)
    BY <2>2, BeatIs
  <2>4. m \in Message(c)'
    BY <2>2 DEF Message
  <2> QED
    BY <2>1, <2>3, <2>4 DEF Writer
<1>2. CASE sendAddedBlock(c)
  <2>1. PICK s \in Seg : /\ Begin(c, "owner", Update(BLOCKADD, c, s))
                         /\ ever' = [ever EXCEPT ![c] = @ \cup {s}]
    BY <1>2 DEF sendAddedBlock
  <2>2. PICK m : m = <<BLOCKADD, c, requestFile[c], s, blockSize>>
    OBVIOUS
  <2>3. BLOCKADD \in {BLOCKADD, BLOCKELIMINATE} /\ s \in ever'[c] /\ requestFile'[c] = requestFile[c]
    BY <2>1, Keeps DEF TypeOK
  <2>4. m \in Seq(Nat) /\ m # <<>> /\ Update(BLOCKADD, c, s) = Word(m)
    BY <2>2, <2>3, UpdateIs
  <2>5. m \in Message(c)'
    BY <2>2, <2>3 DEF Message
  <2> QED
    BY <2>1, <2>4, <2>5 DEF Writer
<1>3. CASE sendEliminateBlock(c)
  <2>1. PICK s \in held[c] : Begin(c, "owner", Update(BLOCKELIMINATE, c, s))
    BY <1>3 DEF sendEliminateBlock
  <2>2. PICK m : m = <<BLOCKELIMINATE, c, requestFile[c], s, blockSize>>
    OBVIOUS
  <2>3. /\ BLOCKELIMINATE \in {BLOCKADD, BLOCKELIMINATE} /\ s \in Seg
        /\ s \in ever'[c] /\ requestFile'[c] = requestFile[c]
    BY <2>1, Keeps DEF TypeOK, Runs
  <2>4. m \in Seq(Nat) /\ m # <<>> /\ Update(BLOCKELIMINATE, c, s) = Word(m)
    BY <2>2, <2>3, UpdateIs
  <2>5. m \in Message(c)'
    BY <2>2, <2>3 DEF Message
  <2> QED
    BY <2>1, <2>4, <2>5 DEF Writer
<1> QED
  BY <1>1, <1>2, <1>3

LEMMA writenMoves ==
    ASSUME TypeOK, NEW c \in Client, NEW w \in Writer, writen(c, w)
    PROVE  \E n \in 1..Len(out[c][w]) :
              /\ sock' = [sock EXCEPT ![<<c, run>>] = @ \o SubSeq(out[c][w], 1, n)]
              /\ out' = [out EXCEPT ![c][w] = SubSeq(out[c][w], n + 1, Len(out[c][w]))]
<1> DEFINE o == out[c][w]
           n == IF Len(o) < Room(<<c, run>>) THEN Len(o) ELSE Room(<<c, run>>)
<1>1. o \in Seq(WordType) /\ sock[<<c, run>>] \in Seq(WordType)
  BY DEF TypeOK, Conn
<1>2. n \in 1..Len(o)
  BY <1>1, StreamAssumption DEF writen, Room
<1> QED
  BY <1>2 DEF writen, TypeOK

LEMMA KnownStep ==
    ASSUME TypeOK, WordsKnown, Runs, [Next]_vars
    PROVE  WordsKnown'
<1>1. /\ \A c \in Client : \A w \in Writer : out[c][w] \in Seq(WordOf(c)')
      /\ \A q \in Conn : sock[q] \in Seq(WordOf(q[1])')
      /\ chunk # <<>> => from \in Conn
      /\ \A c \in Client : chunk # <<>> /\ from[1] = c => chunk \in Seq(WordOf(c)')
  <2>1. \A c \in Client : \A s \in Seq(WordOf(c)) : s \in Seq(WordOf(c)')
    BY SeqsGrow
  <2>2. \A q \in Conn : q[1] \in Client
    BY DEF Conn
  <2> QED
    BY <2>1, <2>2 DEF WordsKnown
<1>2. <<>> \in Seq(WordType) /\ \A S : <<>> \in Seq(S)
  OBVIOUS
<1>3. CASE messageProcess
  <2>1. UNCHANGED <<out, sock, from>>
    BY <1>3, HandlerFrame DEF Handles, CloseQuit, client, connection
  <2>2. ASSUME chunk' # <<>>, NEW c \in Client
        PROVE  from' \in Conn /\ (from'[1] = c => chunk' \in Seq(WordOf(c)'))
    <3>1. Handles
      BY <1>3, <2>2, HandlerFrame DEF CloseQuit
    <3>2. chunk # <<>> /\ Type \in Nat
      BY <3>1, WordIs DEF Handles, TypeOK, Type
    <3>3. from \in Conn /\ (from[1] = c => chunk \in Seq(WordOf(c)'))
      BY <1>1, <3>2
    <3>4. from[1] = c /\ Whole /\ chunk' = Rest => chunk' \in Seq(WordOf(c)')
      BY <3>2, <3>3, RestIs
    <3>5. chunk' = chunk \/ (Whole /\ chunk' = Rest)
      BY <3>1, <2>2 DEF Handles
    <3> QED
      BY <3>3, <3>4, <3>5, <2>1
  <2>3. chunk' # <<>> => from' \in Conn
    BY <1>1, <1>3, <2>1, HandlerFrame DEF Handles, CloseQuit
  <2> QED
    BY <1>1, <2>1, <2>2, <2>3 DEF WordsKnown
<1>4. ASSUME NEW q \in Conn, Recv(q) PROVE WordsKnown'
  <2>1. PICK w : w = sock[q]
    OBVIOUS
  <2>2. PICK n \in 1..Len(w) : chunk' = SubSeq(w, 1, n) /\ sock' = Taken(q, n)
    BY <1>4, <2>1 DEF Recv
  <2>3. w \in Seq(WordOf(q[1])') /\ w \in Seq(WordType)
    BY <1>1, <2>1 DEF TypeOK
  <2>4. n \in 0..Len(w)
    BY <2>2, <2>3
  <2>5. SubSeq(w, 1, n) \in Seq(WordOf(q[1])')
    BY <2>3, <2>4, Front
  <2>6. SubSeq(w, n + 1, Len(w)) \in Seq(WordOf(q[1])')
    BY <2>3, <2>4, Back
  <2>7. \A p \in Conn : sock'[p] = IF p = q THEN SubSeq(w, n + 1, Len(w)) ELSE sock[p]
    BY <2>1, <2>2 DEF Taken, TypeOK
  <2>8. from' = q /\ UNCHANGED out
    BY <1>4 DEF Recv, client
  <2>9. \A p \in Conn : sock'[p] \in Seq(WordOf(p[1])')
    BY <1>1, <2>6, <2>7
  <2>10. chunk' \in Seq(WordOf(q[1])')
    BY <2>2, <2>5
  <2> QED
    BY <1>1, <2>8, <2>9, <2>10 DEF WordsKnown
<1>5. ASSUME NEW q \in Conn, RecvEnd(q) PROVE WordsKnown'
  BY <1>1, <1>5 DEF RecvEnd, WordsKnown, client, reading
<1>6. CASE ClientExit
  <2>1. \A c \in Client : \A w \in Writer : out'[c][w] = <<>>
    BY <1>6 DEF ClientExit
  <2> QED
    BY <1>1, <1>2, <1>6, <2>1 DEF ClientExit, WordsKnown, connection, reading
<1>7. CASE Restart
  BY <1>1, <1>7 DEF Restart, WordsKnown, reading
<1>8. ASSUME NEW c \in Client,
             sendCurrentLoad(c) \/ sendAddedBlock(c) \/ sendEliminateBlock(c)
      PROVE  WordsKnown'
  <2>1. PICK w \in Writer, m \in Seq(Nat) : Begins(c, w, m)
    BY <1>8, BeginCases
  <2>2. Word(m) \in Seq(WordOf(c)')
    BY <2>1, WordsIn DEF Begins, WordOf
  <2>3. \A d \in Client : \A v \in Writer :
           out'[d][v] = IF d = c /\ v = w THEN Word(m) ELSE out[d][v]
    BY <2>1 DEF Begins, Begin, TypeOK
  <2>4. \A d \in Client : \A v \in Writer : out'[d][v] \in Seq(WordOf(d)')
    BY <1>1, <2>2, <2>3
  <2> QED
    BY <1>1, <2>1, <2>4 DEF Begins, Begin, WordsKnown, connection, reading
<1>9. ASSUME NEW c \in Client, NEW w \in Writer, writen(c, w) PROVE WordsKnown'
  <2>1. PICK o : o = out[c][w]
    OBVIOUS
  <2>2. PICK q : q = <<c, run>>
    OBVIOUS
  <2>3. PICK k : k = sock[q]
    OBVIOUS
  <2>4. q \in Conn /\ q[1] = c
    BY <2>2 DEF TypeOK, Conn
  <2>5. /\ o \in Seq(WordOf(c)') /\ k \in Seq(WordOf(c)') /\ Len(o) \in Nat
    BY <1>1, <2>1, <2>3, <2>4
  <2>6. PICK n : /\ n \in 1..Len(o)
                 /\ sock' = [sock EXCEPT ![q] = k \o SubSeq(o, 1, n)]
                 /\ out' = [out EXCEPT ![c][w] = SubSeq(o, n + 1, Len(o))]
    BY <1>9, <2>1, <2>2, <2>3, writenMoves
  <2>7. SubSeq(o, 1, n) \in Seq(WordOf(c)')
    BY <2>5, <2>6, Front
  <2>8. SubSeq(o, n + 1, Len(o)) \in Seq(WordOf(c)')
    BY <2>5, <2>6, Back
  <2>9. k \o SubSeq(o, 1, n) \in Seq(WordOf(c)')
    BY <2>5, <2>7, Joined
  <2>10. \A p \in Conn : sock'[p] \in Seq(WordOf(p[1])')
    BY <1>1, <2>4, <2>6, <2>9 DEF TypeOK
  <2>11. \A d \in Client : \A v \in Writer : out'[d][v] \in Seq(WordOf(d)')
    BY <1>1, <2>6, <2>8 DEF TypeOK
  <2> QED
    BY <1>1, <1>9, <2>10, <2>11 DEF writen, WordsKnown, reading
<1>10. CASE UNCHANGED vars
  BY <1>1, <1>10 DEF WordsKnown, vars, client, connection, reading
<1> QED
  BY <1>3, <1>4, <1>5, <1>6, <1>7, <1>8, <1>9, <1>10 DEF Next, ManagerThread, ClientProcess

-----------------------------------------------------------------------------
(* Runs of the client process. *)
LEMMA BeginHeld ==
    ASSUME TypeOK, Runs, NEW c \in Client,
           sendCurrentLoad(c) \/ sendAddedBlock(c) \/ sendEliminateBlock(c)
    PROVE  \A d \in Client : held'[d] \subseteq ever'[d]
<1>1. \A d \in Client : held[d] \subseteq ever[d]
  BY DEF Runs
<1>2. CASE sendCurrentLoad(c)
  BY <1>1, <1>2 DEF sendCurrentLoad
<1>3. CASE sendAddedBlock(c)
  BY <1>1, <1>3 DEF sendAddedBlock, TypeOK
<1>4. CASE sendEliminateBlock(c)
  BY <1>1, <1>4 DEF sendEliminateBlock, TypeOK
<1> QED
  BY <1>2, <1>3, <1>4

LEMMA RunsStep ==
    ASSUME TypeOK, WordsKnown, Runs, [Next]_vars
    PROVE  Runs'
<1>1. \A q \in Conn : q[1] \in Client /\ q[2] \in Nat
  BY DEF Conn, Run
<1>2. run \in Nat /\ newest \in [Client -> Nat]
  BY DEF TypeOK, Run
<1>3. CASE messageProcess
  <2>1. CASE CloseQuit
    BY <2>1 DEF Runs, CloseQuit, setting, client, history
  <2>2. CASE Handles
    BY <2>2 DEF Runs, Handles, client, connection
  <2> QED
    BY <1>3, <2>1, <2>2, HandlerFrame
<1>4. ASSUME NEW q \in Conn, Recv(q) PROVE Runs'
  <2>1. q \in open /\ from' = q /\ UNCHANGED <<run, clientUp, held, out, open, ever, mixed>>
    BY <1>4 DEF Recv, client
  <2>2. q[2] <= run
    BY <1>1, <1>2, <2>1 DEF Runs
  <2>3. PICK n \in 1..Len(sock[q]) : sock' = Taken(q, n)
    BY <1>4 DEF Recv
  <2>4. \A p \in Conn : p # q => sock'[p] = sock[p] /\ (p \in torn' <=> p \in torn)
    BY <1>4, <2>3 DEF Recv, Taken, TypeOK
  <2>5. \A p \in Conn : p[2] > run => sock'[p] = <<>> /\ p \notin open' \cup mixed' \cup torn'
    <3> SUFFICES ASSUME NEW p \in Conn, p[2] > run
                 PROVE  sock'[p] = <<>> /\ p \notin open' \cup mixed' \cup torn'
      OBVIOUS
    <3>1. p # q
      BY <1>1, <1>2, <2>2
    <3> QED
      BY <3>1, <2>1, <2>4 DEF Runs
  <2>6. newest' = [newest EXCEPT ![q[1]] = IF q[2] > @ THEN q[2] ELSE @]
    BY <1>4 DEF Recv
  <2>7. \A c \in Client : newest'[c] <= run
    BY <1>1, <1>2, <2>2, <2>6 DEF Runs
  <2>8. q[1] \notin overtaken' => q[2] = newest'[q[1]]
    <3>1. q[2] < newest[q[1]] => q[1] \in overtaken'
      BY <1>4 DEF Recv
    <3> QED
      BY <3>1, <1>1, <1>2, <2>6
  <2> QED
    BY <2>1, <2>2, <2>5, <2>7, <2>8 DEF Runs
<1>5. ASSUME NEW q \in Conn, RecvEnd(q) PROVE Runs'
  BY <1>5 DEF RecvEnd, Runs, setting, client, reading, history
<1>6. CASE ClientExit
  BY <1>6 DEF ClientExit, Runs, setting, connection, reading, history
<1>7. CASE Restart
  <2>1. \A q \in Conn : q[2] > run + 1 => q[2] > run /\ q \notin Client \X {run + 1}
    BY <1>1, <1>2
  <2>2. run' = run + 1 /\ open' = open \cup (Client \X {run + 1}) /\ clientUp'
        /\ UNCHANGED <<held, out, sock, reading, history>>
    BY <1>7 DEF Restart
  <2>3. from # NoConn => from[2] <= run + 1
    BY <1>1, <1>2 DEF Runs, TypeOK
  <2>4. \A c \in Client : newest[c] <= run + 1
    BY <1>2 DEF Runs
  <2> QED
    BY <2>1, <2>2, <2>3, <2>4 DEF Runs, reading, history
<1>8. ASSUME NEW c \in Client,
             sendCurrentLoad(c) \/ sendAddedBlock(c) \/ sendEliminateBlock(c)
      PROVE  Runs'
  <2>1. PICK w \in Writer, m \in Seq(Nat) : Begins(c, w, m)
    BY <1>8, BeginCases
  <2>2. \A d \in Client : held'[d] \subseteq ever'[d]
    BY <1>8, BeginHeld
  <2> QED
    BY <2>1, <2>2 DEF Begins, Begin, Runs, setting, connection, reading
<1>9. ASSUME NEW c \in Client, NEW w \in Writer, writen(c, w) PROVE Runs'
  <2>1. /\ clientUp /\ mixed' \subseteq mixed \cup {<<c, run>>}
        /\ UNCHANGED <<run, clientUp, held, open, reading, ever, torn, newest, overtaken>>
    BY <1>9 DEF writen
  <2>2. \A p \in Conn : p # <<c, run>> => sock'[p] = sock[p]
    BY <1>9, writenMoves DEF TypeOK
  <2>3. \A p \in Conn : p[2] > run => p # <<c, run>>
    BY <1>1, <1>2
  <2> QED
    BY <2>1, <2>2, <2>3 DEF Runs, reading
<1>10. CASE UNCHANGED vars
  BY <1>10 DEF Runs, vars, client, connection, reading, history
<1> QED
  BY <1>3, <1>4, <1>5, <1>6, <1>7, <1>8, <1>9, <1>10 DEF Next, ManagerThread, ClientProcess

-----------------------------------------------------------------------------
(* The streams on the sockets. *)
LEMMA FollowsFirst ==
    ASSUME NEW x \in WordType, NEW y \in WordType, Follows(x, y)
    PROVE  First(y) <=> Last(x)
BY WordIs DEF Follows, First, Last

LEMMA FramedStarts ==
    ASSUME NEW s \in Seq(WordType), NEW n \in 1..Len(s), Framed(SubSeq(s, 1, n))
    PROVE  /\ First(s[1]) /\ Last(s[n])
           /\ \A i \in 1..(n - 1) : Last(s[i]) <=> First(s[i + 1])
<1>1. PICK w : w = SubSeq(s, 1, n)
  OBVIOUS
<1>2. n \in 0..Len(s)
  OBVIOUS
<1>3. Len(w) = n /\ \A i \in 1..n : w[i] = s[i]
  BY <1>1, <1>2, Front
<1>4. First(w[1]) /\ Last(w[n]) /\ \A i \in 1..(n - 1) : Last(w[i]) <=> First(w[i + 1])
  BY <1>1, <1>3 DEF Framed
<1> QED
  BY <1>3, <1>4

LEMMA BrokenBack ==
    ASSUME NEW s \in Seq(WordType), NEW n \in 1..Len(s), Framed(SubSeq(s, 1, n)), Broken(s)
    PROVE  Broken(SubSeq(s, n + 1, Len(s)))
<1>1. PICK b \in 1..(Len(s) - 1) : /\ ~Last(s[b]) /\ First(s[b + 1])
                                  /\ \A i \in 1..(b - 1) : Follows(s[i], s[i + 1])
  BY DEF Broken
<1>2. /\ First(s[1]) /\ Last(s[n])
      /\ \A i \in 1..(n - 1) : Last(s[i]) <=> First(s[i + 1])
  BY FramedStarts
<1>3. n < b
  BY <1>1, <1>2
<1>4. PICK r : r = SubSeq(s, n + 1, Len(s))
  OBVIOUS
<1>5. Len(r) = Len(s) - n /\ \A i \in 1..(Len(s) - n) : r[i] = s[n + i]
  BY <1>4, Back
<1>6. First(r[1])
  <2>1. Follows(s[n], s[n + 1]) /\ r[1] = s[n + 1]
    BY <1>1, <1>3, <1>5
  <2> QED
    BY <2>1, <1>2 DEF Follows
<1>7. PICK d : d = b - n
  OBVIOUS
<1>8. d \in 1..(Len(r) - 1) /\ r[d] = s[b] /\ r[d + 1] = s[b + 1]
  BY <1>1, <1>3, <1>5, <1>7
<1>9. ASSUME NEW i \in 1..(d - 1) PROVE Follows(r[i], r[i + 1])
  <2>1. r[i] = s[n + i] /\ r[i + 1] = s[(n + i) + 1] /\ n + i \in 1..(b - 1)
    BY <1>1, <1>3, <1>5, <1>7
  <2> QED
    BY <2>1, <1>1
<1> QED
  BY <1>1, <1>4, <1>6, <1>8, <1>9 DEF Broken

LEMMA BrokenJoined ==
    ASSUME NEW k \in Seq(WordType), NEW t \in Seq(WordType),
           \/ Broken(k)
           \/ /\ k # <<>> /\ t # <<>> /\ Flows(k) /\ First(k[1])
              /\ ~Last(k[Len(k)]) /\ First(t[1])
    PROVE  Broken(k \o t)
<1>1. PICK u : u = k \o t
  OBVIOUS
<1>2. Len(u) = Len(k) + Len(t) /\ \A i \in 1..Len(k) : u[i] = k[i]
  BY <1>1, Joined
<1>3. \A i \in 1..Len(t) : u[Len(k) + i] = t[i]
  BY <1>1, Joined
<1>4. CASE Broken(k)
  <2>1. PICK b \in 1..(Len(k) - 1) : /\ First(k[1]) /\ ~Last(k[b]) /\ First(k[b + 1])
                                    /\ \A i \in 1..(b - 1) : Follows(k[i], k[i + 1])
    BY <1>4 DEF Broken
  <2>2. b \in 1..(Len(u) - 1) /\ u[1] = k[1] /\ u[b] = k[b] /\ u[b + 1] = k[b + 1]
    BY <1>2, <2>1
  <2>3. \A i \in 1..(b - 1) : u[i] = k[i] /\ u[i + 1] = k[i + 1]
    BY <1>2, <2>1
  <2> QED
    BY <1>1, <2>1, <2>2, <2>3 DEF Broken
<1>5. CASE /\ k # <<>> /\ t # <<>> /\ Flows(k) /\ First(k[1])
           /\ ~Last(k[Len(k)]) /\ First(t[1])
  <2>1. Len(k) \in 1..(Len(u) - 1) /\ u[1] = k[1] /\ u[Len(k)] = k[Len(k)]
    BY <1>2, <1>5
  <2>2. u[Len(k) + 1] = t[1]
    <3>1. 1 \in 1..Len(t)
      BY <1>5
    <3> QED
      BY <1>3, <3>1
  <2>3. \A i \in 1..(Len(k) - 1) : u[i] = k[i] /\ u[i + 1] = k[i + 1] /\ Follows(k[i], k[i + 1])
    BY <1>2, <1>5 DEF Flows
  <2>4. \A i \in 1..(Len(k) - 1) : Follows(u[i], u[i + 1])
    BY <2>3
  <2>5. First(u[1]) /\ ~Last(u[Len(k)]) /\ First(u[Len(k) + 1])
    BY <1>5, <2>1, <2>2
  <2> QED
    BY <1>1, <2>1, <2>4, <2>5 DEF Broken
<1> QED
  BY <1>4, <1>5

LEMMA writenStreams ==
    ASSUME TypeOK, Runs, WritersTakeTurns, Streams,
           NEW c \in Client, NEW w \in Writer, writen(c, w)
    PROVE  WritersTakeTurns' /\ Streams'
<1>1. PICK o : o = out[c][w]
  OBVIOUS
<1>2. PICK q : q = <<c, run>>
  OBVIOUS
<1>3. PICK k : k = sock[q]
  OBVIOUS
<1>4. q \in Conn /\ q[1] = c /\ q[2] = run
  BY <1>2 DEF TypeOK, Conn
<1>5. PICK n : /\ n \in 1..Len(o)
               /\ sock' = [sock EXCEPT ![q] = k \o SubSeq(o, 1, n)]
               /\ out' = [out EXCEPT ![c][w] = SubSeq(o, n + 1, Len(o))]
  BY <1>1, <1>2, <1>3, writenMoves
<1>6. o \in Seq(WordType) /\ k \in Seq(WordType) /\ n \in 0..Len(o)
  BY <1>1, <1>3, <1>4, <1>5 DEF TypeOK
<1>7. PICK p : p = SubSeq(o, 1, n)
  OBVIOUS
<1>8. PICK r : r = SubSeq(o, n + 1, Len(o))
  OBVIOUS
<1>9. PICK u : u = k \o p
  OBVIOUS
<1>10. p \in Seq(WordType) /\ Len(p) = n /\ \A i \in 1..n : p[i] = o[i]
  BY <1>6, <1>7, Front
<1>11. r \in Seq(WordType) /\ Len(r) = Len(o) - n /\ \A i \in 1..(Len(o) - n) : r[i] = o[n + i]
  BY <1>6, <1>8, Back
<1>12. /\ u \in Seq(WordType) /\ Len(u) = Len(k) + n
       /\ \A i \in 1..Len(k) : u[i] = k[i]
       /\ \A i \in 1..n : u[Len(k) + i] = p[i]
  BY <1>6, <1>9, <1>10, Joined
<1>13. Flows(o) /\ Last(o[Len(o)])
  BY <1>1, <1>5 DEF WritersTakeTurns, writen
<1>14. Flows(p) /\ Flows(r) /\ (r # <<>> => Last(r[Len(r)]))
  <2>1. Flows(p) /\ Flows(r)
    BY <1>6, <1>7, <1>8, <1>13, FlowsFront, FlowsBack
  <2>2. r # <<>> => r[Len(r)] = o[Len(o)]
    BY <1>5, <1>6, <1>11
  <2> QED
    BY <2>1, <2>2, <1>13
<1>15. /\ clientUp /\ q \in open
       /\ mixed' = IF \E v \in Writer \ {w} : Cut(c, v) THEN mixed \cup {q} ELSE mixed
       /\ UNCHANGED <<run, clientUp, torn>>
  BY <1>2 DEF writen
<1>16. /\ \A d \in Client : \A v \in Writer : ~(d = c /\ v = w) => out'[d][v] = out[d][v]
       /\ out'[c][w] = r
       /\ \A x \in Conn : x # q => sock'[x] = sock[x]
       /\ sock'[q] = u
  BY <1>4, <1>5, <1>7, <1>8, <1>9 DEF TypeOK
<1>17. /\ \A d \in Client : \A v \in Writer : ~(d = c /\ v = w) => (Cut(d, v)' <=> Cut(d, v))
       /\ Cut(c, w)' <=> (r # <<>> /\ ~First(r[1]))
       /\ Cut(c, w) <=> ~First(o[1])
  <2>1. o # <<>>
    BY <1>5
  <2> QED
    BY <2>1, <1>1, <1>16 DEF Cut
<1>18. u # <<>> /\ u[Len(u)] = o[n]
  <2>1. u[Len(k) + n] = p[n] /\ p[n] = o[n]
    BY <1>5, <1>10, <1>12
  <2> QED
    BY <2>1, <1>5, <1>6, <1>12
<1>19. r # <<>> => Follows(o[n], r[1])
  <2>1. r # <<>> => n \in 1..(Len(o) - 1) /\ r[1] = o[n + 1]
    BY <1>5, <1>11
  <2> QED
    BY <2>1, <1>13 DEF Flows
<1>20. ~Cut(c, w)' => Last(u[Len(u)])
  <2>1. CASE r = <<>>
    <3>1. n = Len(o)
      BY <2>1, <1>6, <1>11
    <3> QED
      BY <3>1, <1>13, <1>18
  <2>2. CASE r # <<>> /\ First(r[1])
    <3>1. o[n] \in WordType /\ r[1] \in WordType
      BY <1>5, <1>6, <1>11, <2>2
    <3> QED
      BY <3>1, <2>2, <1>18, <1>19, FollowsFirst
  <2> QED
    BY <2>1, <2>2, <1>17
<1>21. PICK l : l = k[Len(k)]
  OBVIOUS
<1>22. q \notin mixed /\ k # <<>> =>
           IF \E v \in Writer : Cut(c, v)
           THEN \A v \in Writer : Cut(c, v) => Follows(l, out[c][v][1])
           ELSE Last(l)
  BY <1>2, <1>3, <1>15, <1>21 DEF WritersTakeTurns
<1>23. \A v \in Writer : q \notin mixed /\ Cut(c, v) /\ Cut(c, w) => v = w
  BY <1>2, <1>15 DEF WritersTakeTurns
<1>24. q \notin mixed => Flows(k)
  BY <1>3, <1>4 DEF Streams
<1>25. q \notin mixed \cup torn /\ k = <<>> => \A v \in Writer : ~Cut(c, v)
  BY <1>3, <1>4, <1>15 DEF Streams
<1>26. q \notin mixed \cup torn /\ k # <<>> => First(k[1])
  BY <1>3, <1>4 DEF Streams
<1>27. \E i \in 1..Len(p) : i = 1 /\ p[1] = o[1]
  BY <1>5, <1>10
<1>28. q \notin mixed' => /\ q \notin mixed /\ \A v \in Writer : Cut(c, v) => v = w
                         /\ Flows(u)
  <2> SUFFICES ASSUME q \notin mixed' PROVE /\ q \notin mixed /\ Flows(u)
                                            /\ \A v \in Writer : Cut(c, v) => v = w
    OBVIOUS
  <2>1. q \notin mixed /\ \A v \in Writer : Cut(c, v) => v = w
    BY <1>15
  <2>2. k # <<>> => Follows(l, o[1])
    <3>1. CASE Cut(c, w)
      BY <3>1, <2>1, <1>1, <1>22
    <3>2. CASE ~Cut(c, w)
      BY <3>2, <2>1, <1>17, <1>22 DEF Follows
    <3> QED
      BY <3>1, <3>2
  <2> QED
    BY <2>1, <2>2, <1>6, <1>9, <1>10, <1>14, <1>21, <1>24, <1>27, FlowsJoined
<1>29. WritersTakeTurns'
  <2>1. ASSUME NEW d \in Client, NEW v \in Writer
        PROVE  /\ Flows(out'[d][v])
               /\ out'[d][v] # <<>> => Last(out'[d][v][Len(out'[d][v])])
    <3>1. CASE d = c /\ v = w
      BY <3>1, <1>14, <1>16
    <3>2. CASE ~(d = c /\ v = w)
      BY <3>2, <1>16 DEF WritersTakeTurns
    <3> QED
      BY <3>1, <3>2
  <2>2. ASSUME NEW d \in Client, <<d, run>> \notin mixed'
        PROVE  /\ \A v, x \in Writer : Cut(d, v)' /\ Cut(d, x)' => v = x
               /\ sock'[<<d, run>>] # <<>> =>
                     IF \E v \in Writer : Cut(d, v)'
                     THEN \A v \in Writer : Cut(d, v)' =>
                             Follows(sock'[<<d, run>>][Len(sock'[<<d, run>>])], out'[d][v][1])
                     ELSE Last(sock'[<<d, run>>][Len(sock'[<<d, run>>])])
    <3>1. CASE d = c
      <4>1. \A v \in Writer : Cut(c, v)' => v = w
        BY <3>1, <2>2, <1>2, <1>17, <1>28
      <4>2. Cut(c, w)' => Follows(u[Len(u)], out'[c][w][1])
        BY <1>16, <1>17, <1>18, <1>19
      <4> QED
        BY <3>1, <4>1, <4>2, <1>2, <1>16, <1>20
    <3>2. CASE d # c
      <4>1. <<d, run>> \in Conn /\ <<d, run>> # q
        BY <3>2, <1>2 DEF TypeOK, Conn
      <4>2. sock'[<<d, run>>] = sock[<<d, run>>] /\ <<d, run>> \notin mixed
        BY <4>1, <2>2, <1>15, <1>16
      <4>3. \A v \in Writer : (Cut(d, v)' <=> Cut(d, v)) /\ out'[d][v] = out[d][v]
        BY <3>2, <1>16, <1>17
      <4>4. /\ \A v, x \in Writer : Cut(d, v) /\ Cut(d, x) => v = x
            /\ sock[<<d, run>>] # <<>> =>
                  IF \E v \in Writer : Cut(d, v)
                  THEN \A v \in Writer : Cut(d, v) =>
                          Follows(sock[<<d, run>>][Len(sock[<<d, run>>])], out[d][v][1])
                  ELSE Last(sock[<<d, run>>][Len(sock[<<d, run>>])])
        BY <4>2, <1>15 DEF WritersTakeTurns
      <4> QED
        BY <4>2, <4>3, <4>4
    <3> QED
      BY <3>1, <3>2
  <2> QED
    BY <2>1, <2>2, <1>15 DEF WritersTakeTurns
<1>30. Streams'
  <2> SUFFICES ASSUME NEW x \in Conn
               PROVE  /\ x \notin mixed' => Flows(sock'[x])
                      /\ x \notin mixed' \cup torn' =>
                            /\ sock'[x] # <<>> => First(sock'[x][1])
                            /\ clientUp' /\ x[2] = run' /\ sock'[x] = <<>> =>
                                  \A v \in Writer : ~Cut(x[1], v)'
                      /\ x \in mixed' \ torn' => Broken(sock'[x])
    BY DEF Streams
  <2>1. CASE x # q
    <3>1. sock'[x] = sock[x] /\ (x \in mixed' <=> x \in mixed) /\ torn' = torn
      BY <2>1, <1>15, <1>16
    <3>2. x[1] \in Client /\ (x[2] = run => x[1] # c)
      BY <2>1, <1>2 DEF Conn
    <3>3. x[2] = run => \A v \in Writer : Cut(x[1], v)' <=> Cut(x[1], v)
      BY <3>2, <1>17
    <3> QED
      BY <3>1, <3>3, <1>15 DEF Streams
  <2>2. CASE x = q
    <3>1. x \notin mixed' \cup torn' => First(u[1])
      <4> SUFFICES ASSUME x \notin mixed' \cup torn' PROVE First(u[1])
        OBVIOUS
      <4>1. q \notin mixed \cup torn
        BY <2>2, <1>15, <1>28
      <4>2. CASE k # <<>>
        BY <4>1, <4>2, <1>6, <1>12, <1>26
      <4>3. CASE k = <<>>
        <5>1. u[1] = o[1]
          <6>1. Len(k) = 0 /\ 1 \in 1..n /\ p[1] = o[1]
            BY <4>3, <1>5, <1>10
          <6>2. u[Len(k) + 1] = p[1]
            BY <6>1, <1>12
          <6> QED
            BY <6>1, <6>2
        <5> QED
          BY <5>1, <4>1, <4>3, <1>17, <1>25
      <4> QED
        BY <4>2, <4>3
    <3>2. x \in mixed' \ torn' => Broken(u)
      <4> SUFFICES ASSUME x \in mixed' \ torn' PROVE Broken(u)
        OBVIOUS
      <4>1. CASE q \in mixed
        <5>1. Broken(k)
          BY <4>1, <2>2, <1>3, <1>15 DEF Streams
        <5> QED
          BY <5>1, <1>6, <1>9, <1>10, BrokenJoined
      <4>2. CASE q \notin mixed
        <5>1. PICK v \in Writer \ {w} : Cut(c, v)
          BY <4>2, <2>2, <1>15
        <5>2. q \notin mixed \cup torn /\ k # <<>> /\ First(k[1]) /\ Flows(k)
          BY <4>2, <5>1, <2>2, <1>15, <1>24, <1>25, <1>26
        <5>3. ~Last(l)
          BY <5>1, <5>2, <1>22 DEF Cut, Follows
        <5>4. First(o[1]) /\ p # <<>> /\ p[1] = o[1]
          BY <5>1, <4>2, <1>17, <1>23, <1>27
        <5> QED
          BY <5>2, <5>3, <5>4, <1>6, <1>9, <1>10, <1>21, BrokenJoined
      <4> QED
        BY <4>1, <4>2
    <3> QED
      BY <2>2, <3>1, <3>2, <1>16, <1>18, <1>28
  <2> QED
    BY <2>1, <2>2
<1> QED
  BY <1>29, <1>30

LEMMA RecvStreams ==
    ASSUME TypeOK, WritersTakeTurns, Streams, NEW q \in Conn, Recv(q)
    PROVE  WritersTakeTurns' /\ Streams'
<1>1. PICK s : s = sock[q]
  OBVIOUS
<1>2. PICK n : /\ n \in 1..Len(s)
               /\ torn' = IF Framed(SubSeq(s, 1, n)) THEN torn ELSE torn \cup {q}
               /\ sock' = [sock EXCEPT ![q] = SubSeq(s, n + 1, Len(s))]
  BY <1>1 DEF Recv, Taken
<1>3. UNCHANGED <<run, clientUp, out, mixed>>
  BY DEF Recv, client
<1>4. s \in Seq(WordType) /\ n \in 0..Len(s)
  BY <1>1, <1>2 DEF TypeOK
<1>5. PICK r : r = SubSeq(s, n + 1, Len(s))
  OBVIOUS
<1>6. Len(r) = Len(s) - n /\ \A i \in 1..(Len(s) - n) : r[i] = s[n + i]
  BY <1>4, <1>5, Back
<1>7. r \in Seq(WordType)
  BY <1>4, <1>5, Back
<1>8. /\ sock'[q] = r
      /\ \A x \in Conn : x # q => sock'[x] = sock[x] /\ (x \in torn' <=> x \in torn)
  BY <1>2, <1>5 DEF TypeOK
<1>9. r # <<>> => s # <<>> /\ r[Len(r)] = s[Len(s)]
  BY <1>2, <1>4, <1>6, <1>7
<1>10. \A d \in Client : \A v \in Writer : Cut(d, v)' <=> Cut(d, v)
  BY <1>3 DEF Cut
<1>11. WritersTakeTurns'
  <2>1. ASSUME NEW d \in Client, clientUp', <<d, run>> \notin mixed
        PROVE  sock'[<<d, run>>] # <<>> =>
                     IF \E v \in Writer : Cut(d, v)
                     THEN \A v \in Writer : Cut(d, v) =>
                             Follows(sock'[<<d, run>>][Len(sock'[<<d, run>>])], out[d][v][1])
                     ELSE Last(sock'[<<d, run>>][Len(sock'[<<d, run>>])])
    <3>1. sock[<<d, run>>] # <<>> =>
              IF \E v \in Writer : Cut(d, v)
              THEN \A v \in Writer : Cut(d, v) =>
                      Follows(sock[<<d, run>>][Len(sock[<<d, run>>])], out[d][v][1])
              ELSE Last(sock[<<d, run>>][Len(sock[<<d, run>>])])
      BY <2>1, <1>3 DEF WritersTakeTurns
    <3>2. sock'[<<d, run>>] # <<>> =>
              /\ sock[<<d, run>>] # <<>>
              /\ sock'[<<d, run>>][Len(sock'[<<d, run>>])] = sock[<<d, run>>][Len(sock[<<d, run>>])]
      <4>1. <<d, run>> \in Conn
        BY DEF TypeOK, Conn
      <4> QED
        BY <4>1, <1>1, <1>8, <1>9
    <3> QED
      BY <3>1, <3>2
  <2> QED
    BY <2>1, <1>3, <1>10 DEF WritersTakeTurns
<1>12. Streams'
  <2> SUFFICES ASSUME NEW x \in Conn
               PROVE  /\ x \notin mixed' => Flows(sock'[x])
                      /\ x \notin mixed' \cup torn' =>
                            /\ sock'[x] # <<>> => First(sock'[x][1])
                            /\ clientUp' /\ x[2] = run' /\ sock'[x] = <<>> =>
                                  \A v \in Writer : ~Cut(x[1], v)'
                      /\ x \in mixed' \ torn' => Broken(sock'[x])
    BY DEF Streams
  <2>1. x[1] \in Client /\ \A v \in Writer : Cut(x[1], v)' <=> Cut(x[1], v)
    BY <1>10 DEF Conn
  <2>2. CASE x # q
    BY <2>1, <2>2, <1>3, <1>8 DEF Streams
  <2>3. CASE x = q
    <3>1. x \notin mixed => Flows(r)
      BY <2>3, <1>1, <1>4, <1>5, FlowsBack DEF Streams
    <3>2. x \notin torn' => q \notin torn /\ Framed(SubSeq(s, 1, n))
      BY <2>3, <1>2
    <3>3. x \notin torn' => /\ First(s[1]) /\ Last(s[n])
                            /\ \A i \in 1..(n - 1) : Last(s[i]) <=> First(s[i + 1])
      BY <3>2, <1>2, <1>4, FramedStarts
    <3>4. ASSUME x \notin mixed \cup torn', r # <<>> PROVE First(r[1])
      <4>1. r[1] = s[n + 1] /\ n \in 1..(Len(s) - 1)
        BY <3>4, <1>2, <1>6, <1>7
      <4>2. Follows(s[n], s[n + 1])
        BY <3>4, <4>1, <2>3, <1>1 DEF Streams, Flows
      <4> QED
        BY <3>3, <3>4, <4>1, <4>2 DEF Follows
    <3>5. ASSUME x \notin mixed \cup torn', clientUp, x[2] = run, r = <<>>, NEW v \in Writer
          PROVE  ~Cut(x[1], v)
      <4>1. n = Len(s) /\ s # <<>> /\ Last(s[Len(s)])
        BY <3>3, <3>5, <1>2, <1>4, <1>6
      <4>2. PICK d \in Client : d = x[1] /\ x = <<d, run>>
        BY <3>5 DEF Conn
      <4>3. Cut(d, v) => Follows(s[Len(s)], out[d][v][1])
        BY <3>5, <4>1, <4>2, <2>3, <1>1 DEF WritersTakeTurns
      <4> QED
        BY <4>1, <4>2, <4>3 DEF Follows, Cut
    <3>6. x \in mixed \ torn' => Broken(r)
      <4>1. x \in mixed \ torn' => Broken(s)
        BY <3>2, <2>3, <1>1 DEF Streams
      <4> QED
        BY <4>1, <3>2, <1>2, <1>4, <1>5, BrokenBack
    <3> QED
      BY <2>1, <2>3, <1>3, <1>8, <3>1, <3>4, <3>5, <3>6
  <2> QED
    BY <2>2, <2>3
<1> QED
  BY <1>11, <1>12

LEMMA StreamsStep ==
    ASSUME TypeOK, TypeOK', Runs, WritersTakeTurns, Streams, [Next]_vars
    PROVE  WritersTakeTurns' /\ Streams'
<1>1. ASSUME UNCHANGED <<run, clientUp, out, sock, mixed, torn>>
      PROVE  WritersTakeTurns' /\ Streams'
  <2>1. \A d, v : Cut(d, v)' <=> Cut(d, v)
    BY <1>1 DEF Cut
  <2> QED
    BY <1>1, <2>1 DEF WritersTakeTurns, Streams
<1>2. CASE messageProcess
  <2>1. UNCHANGED <<run, clientUp, out, sock, mixed, torn>>
    BY <1>2, HandlerFrame DEF Handles, CloseQuit, client, connection, history
  <2> QED
    BY <1>1, <2>1
<1>3. ASSUME NEW q \in Conn, RecvEnd(q) PROVE WritersTakeTurns' /\ Streams'
  <2>1. UNCHANGED <<run, clientUp, out, sock, mixed, torn>>
    BY <1>3 DEF RecvEnd, client, history
  <2> QED
    BY <1>1, <2>1
<1>4. CASE UNCHANGED vars
  BY <1>1, <1>4 DEF vars, client, connection, history
<1>5. ASSUME UNCHANGED <<sock, mixed, torn>>, ~clientUp \/ ~clientUp',
             \A d \in Client : \A v \in Writer : out'[d][v] = <<>>,
             clientUp' => run' = run + 1
      PROVE  WritersTakeTurns' /\ Streams'
  <2>1. \A d \in Client : \A v \in Writer : ~Cut(d, v)'
    BY <1>5 DEF Cut
  <2>2. clientUp' => \A d \in Client : sock'[<<d, run'>>] = <<>>
    <3>1. \A d \in Client : <<d, run'>> \in Conn
      BY DEF TypeOK, Conn
    <3>2. clientUp' => run' > run
      BY <1>5 DEF TypeOK, Run
    <3> QED
      BY <3>1, <3>2, <1>5 DEF Runs
  <2>3. \A w : w = <<>> => Flows(w)
    BY DEF Flows
  <2>4. \A x \in Conn : x[1] \in Client
    BY DEF Conn
  <2>5. WritersTakeTurns'
    BY <1>5, <2>1, <2>2, <2>3 DEF WritersTakeTurns
  <2>6. Streams'
    BY <1>5, <2>1, <2>4 DEF Streams
  <2> QED
    BY <2>5, <2>6
<1>6. CASE ClientExit
  <2>1. \A d \in Client : \A v \in Writer : out'[d][v] = <<>>
    BY <1>6 DEF ClientExit
  <2> QED
    BY <1>5, <1>6, <2>1 DEF ClientExit, connection, history
<1>7. CASE Restart
  <2>1. \A d \in Client : \A v \in Writer : out'[d][v] = <<>>
    BY <1>7 DEF Restart, Runs
  <2> QED
    BY <1>5, <1>7, <2>1 DEF Restart, history
<1>8. ASSUME NEW c \in Client,
             sendCurrentLoad(c) \/ sendAddedBlock(c) \/ sendEliminateBlock(c)
      PROVE  WritersTakeTurns' /\ Streams'
  <2>1. PICK w \in Writer, m \in Seq(Nat) : Begins(c, w, m)
    BY <1>8, BeginCases
  <2>2. PICK o : o = Word(m)
    OBVIOUS
  <2>3. o \in Seq(WordType) /\ Flows(o) /\ First(o[1]) /\ Last(o[Len(o)])
    BY <2>1, <2>2, WordsOf DEF Begins
  <2>4. /\ out[c][w] = <<>> /\ out'[c][w] = o
        /\ \A d \in Client : \A v \in Writer : ~(d = c /\ v = w) => out'[d][v] = out[d][v]
        /\ UNCHANGED <<run, clientUp, sock, mixed, torn>>
    BY <2>1, <2>2 DEF Begins, Begin, TypeOK, connection
  <2>5. \A d \in Client : \A v \in Writer : (Cut(d, v)' <=> Cut(d, v)) /\ (Cut(d, v) => out'[d][v] = out[d][v])
    BY <2>3, <2>4 DEF Cut
  <2>6. ASSUME NEW d \in Client, NEW v \in Writer
        PROVE  Flows(out'[d][v]) /\ (out'[d][v] # <<>> => Last(out'[d][v][Len(out'[d][v])]))
    BY <2>3, <2>4 DEF WritersTakeTurns
  <2>7. ASSUME NEW d \in Client, clientUp', <<d, run'>> \notin mixed'
        PROVE  /\ \A v, x \in Writer : Cut(d, v)' /\ Cut(d, x)' => v = x
               /\ sock'[<<d, run'>>] # <<>> =>
                     IF \E v \in Writer : Cut(d, v)'
                     THEN \A v \in Writer : Cut(d, v)' =>
                             Follows(sock'[<<d, run'>>][Len(sock'[<<d, run'>>])], out'[d][v][1])
                     ELSE Last(sock'[<<d, run'>>][Len(sock'[<<d, run'>>])])
    BY <2>4, <2>5, <2>7 DEF WritersTakeTurns
  <2>8. WritersTakeTurns'
    BY <2>6, <2>7 DEF WritersTakeTurns
  <2>9. \A x \in Conn : x[1] \in Client
    BY DEF Conn
  <2>10. Streams'
    BY <2>4, <2>5, <2>9 DEF Streams
  <2> QED
    BY <2>8, <2>10
<1> QED
  BY <1>2, <1>3, <1>4, <1>6, <1>7, <1>8, RecvStreams, writenStreams
     DEF Next, ManagerThread, ClientProcess

-----------------------------------------------------------------------------
(* The chunk the manager thread is reading. *)
LEMMA Heads ==
    ASSUME NEW s \in Seq(WordType), Flows(s), NEW f \in 1..Len(s), First(s[f])
    PROVE  \A i \in 1..5 : i <= Len(s[f].msg) /\ f + (i - 1) <= Len(s) =>
              s[f + (i - 1)].msg = s[f].msg /\ s[f + (i - 1)].at = i
<1> DEFINE P(i) == i <= Len(s[f].msg) /\ f + (i - 1) <= Len(s) =>
                      s[f + (i - 1)].msg = s[f].msg /\ s[f + (i - 1)].at = i
<1>1. s[f].msg \in Seq(Nat) /\ Len(s[f].msg) \in Nat
  BY WordIs
<1>2. P(1)
  BY DEF First
<1>3. ASSUME NEW i \in 1..4, P(i) PROVE P(i + 1)
  <2> SUFFICES ASSUME i + 1 <= Len(s[f].msg), f + ((i + 1) - 1) <= Len(s)
               PROVE  s[f + ((i + 1) - 1)].msg = s[f].msg /\ s[f + ((i + 1) - 1)].at = i + 1
    OBVIOUS
  <2>1. PICK j : j = f + (i - 1)
    OBVIOUS
  <2>2. s[j].msg = s[f].msg /\ s[j].at = i
    BY <1>1, <1>3, <2>1
  <2>3. Follows(s[j], s[j + 1])
    BY <2>1 DEF Flows
  <2>4. s[j + 1].msg = s[f].msg /\ s[j + 1].at = i + 1
    BY <1>1, <2>2, <2>3 DEF Follows, Last
  <2>5. f + ((i + 1) - 1) = j + 1
    BY <2>1
  <2> QED
    BY <2>4, <2>5
<1> HIDE DEF P
<1>4. P(2) /\ P(3) /\ P(4) /\ P(5)
  <2>1. P(1 + 1)
    BY <1>2, <1>3
  <2>2. P(2 + 1)
    BY <2>1, <1>3
  <2>3. P(3 + 1)
    BY <2>2, <1>3
  <2>4. P(4 + 1)
    BY <2>3, <1>3
  <2> QED
    BY <2>1, <2>2, <2>3, <2>4
<1>5. \A i \in 1..5 : P(i)
  BY <1>2, <1>4
<1> QED
  BY <1>5 DEF P

(* A chunk that begins with a message: the words of it are the message's. *)
Leads(c, m) ==
    /\ c = from[1] /\ from \in Conn /\ m = chunk[1].msg /\ m \in Seq(Nat)
    /\ IsBeat(m, c) \/ IsUpdate(m, c)
    /\ Type = m[1] /\ Len(m) = Size(Type) /\ Type \in {HEARTBEAT, BLOCKADD, BLOCKELIMINATE}
    /\ \A i \in 1..Len(m) : i <= Len(chunk) =>
          chunk[i].msg = m /\ chunk[i].at = i /\ Arg(i) = m[i]

LEMMA HeadIs ==
    ASSUME TypeOK, WordsKnown, chunk # <<>>, Flows(chunk), First(chunk[1])
    PROVE  \E c \in Client, m \in Message(from[1]) : Leads(c, m)
<1>1. PICK c \in Client : c = from[1] /\ from \in Conn
  BY DEF WordsKnown, Conn
<1>2. chunk \in Seq(WordOf(c)) /\ chunk \in Seq(WordType) /\ 1 \in 1..Len(chunk)
  BY <1>1 DEF WordsKnown, TypeOK
<1>3. PICK m : m = chunk[1].msg
  OBVIOUS
<1>4. chunk[1] \in WordOf(c)
  BY <1>2
<1>5. m \in Message(c)
  BY <1>3, <1>4 DEF WordOf, WordIn
<1>6. m \in Seq(Nat) /\ m # <<>> /\ (IsBeat(m, c) \/ IsUpdate(m, c))
  BY <1>5, MessageIs
<1>7. Type = m[1]
  BY <1>3 DEF Type, Val, First
<1>8. Len(m) = Size(Type) /\ Type \in {HEARTBEAT, BLOCKADD, BLOCKELIMINATE} /\ Len(m) \in {3, 5}
  BY <1>6, <1>7, Sizes DEF IsBeat, IsUpdate
<1>9. ASSUME NEW i \in 1..Len(m), i <= Len(chunk)
      PROVE  chunk[i].msg = m /\ chunk[i].at = i /\ Arg(i) = m[i]
  <2>1. i \in 1..5 /\ 1 + (i - 1) = i
    BY <1>8
  <2>2. i <= Len(chunk[1].msg) /\ 1 + (i - 1) <= Len(chunk) =>
           chunk[1 + (i - 1)].msg = chunk[1].msg /\ chunk[1 + (i - 1)].at = i
    BY <1>2, <2>1, Heads
  <2>3. chunk[i].msg = m /\ chunk[i].at = i
    BY <1>3, <1>9, <2>1, <2>2
  <2> QED
    BY <2>3 DEF Arg, Val
<1> QED
  BY <1>1, <1>3, <1>5, <1>6, <1>7, <1>8, <1>9 DEF Leads

LEMMA RecvChunk ==
    ASSUME TypeOK, Streams, NEW q \in Conn, Recv(q)
    PROVE  ChunkWhole'
<1>1. PICK s : s = sock[q]
  OBVIOUS
<1>2. PICK n : /\ n \in 1..Len(s) /\ chunk' = SubSeq(s, 1, n)
               /\ torn' = IF Framed(SubSeq(s, 1, n)) THEN torn ELSE torn \cup {q}
  BY <1>1 DEF Recv
<1>3. s \in Seq(WordType) /\ n \in 0..Len(s)
  BY <1>1, <1>2 DEF TypeOK
<1>4. PICK w : w = SubSeq(s, 1, n)
  OBVIOUS
<1>5. Len(w) = n /\ \A i \in 1..n : w[i] = s[i]
  BY <1>3, <1>4, Front
<1>6. from' = q /\ chunk' = w /\ UNCHANGED mixed
  BY <1>2, <1>4 DEF Recv
<1>7. q \notin mixed => Flows(w)
  BY <1>1, <1>3, <1>4, FlowsFront DEF Streams
<1>8. ASSUME q \notin torn'
      PROVE  Flows(w) /\ Last(w[Len(w)]) /\ w[1].at \in {1, 3}
  <2>1. q \notin torn /\ Framed(SubSeq(s, 1, n))
    BY <1>2, <1>8
  <2>2. First(s[1]) /\ Last(s[n]) /\ \A i \in 1..(n - 1) : Last(s[i]) <=> First(s[i + 1])
    BY <2>1, <1>2, <1>3, FramedStarts
  <2>3. Last(w[Len(w)]) /\ w[1].at \in {1, 3}
    BY <2>2, <1>2, <1>5 DEF First
  <2>4. CASE q \in mixed
    <3>1. Broken(s)
      BY <2>1, <2>4, <1>1 DEF Streams
    <3>2. PICK b \in 1..(Len(s) - 1) : /\ ~Last(s[b]) /\ First(s[b + 1])
                                      /\ \A i \in 1..(b - 1) : Follows(s[i], s[i + 1])
      BY <3>1 DEF Broken
    <3>3. n < b
      BY <3>2, <2>2, <1>2
    <3>4. \A i \in 1..(n - 1) : Follows(w[i], w[i + 1])
      BY <3>2, <3>3, <1>5
    <3> QED
      BY <3>4, <2>3, <1>5 DEF Flows
  <2> QED
    BY <2>3, <2>4, <1>7
<1> QED
  BY <1>6, <1>7, <1>8 DEF ChunkWhole

(* Behind a heartbeat the third word of the next message is looked at,     *)
(* behind an update the first.                                             *)
LEMMA RestFlows ==
    ASSUME TypeOK, chunk # <<>>, Whole, Flows(chunk), Rest # <<>>
    PROVE  /\ Stride(Type) < Len(chunk) /\ Flows(Rest)
           /\ Rest[1] = chunk[Stride(Type) + 1] /\ Rest[Len(Rest)] = chunk[Len(chunk)]
<1>1. chunk \in Seq(WordType) /\ 1 \in 1..Len(chunk)
  BY DEF TypeOK
<1>2. Type \in Nat
  BY <1>1, WordIs DEF Type
<1>3. PICK k : k = Stride(Type) /\ k \in 3..5
  BY <1>2, Sizes
<1>4. k < Len(chunk)
  <2>1. CASE k > Len(chunk)
    BY <2>1, <1>1, <1>3, SubSeqEmpty DEF Rest
  <2>2. CASE k = Len(chunk)
    <3>1. Len(chunk) < k + 1
      BY <2>2, <1>3
    <3> QED
      BY <3>1, <1>1, <1>3, SubSeqEmpty DEF Rest
  <2> QED
    BY <2>1, <2>2, <1>1, <1>3
<1>5. k \in 0..Len(chunk)
  BY <1>3, <1>4
<1>6. PICK r : r = SubSeq(chunk, k + 1, Len(chunk))
  OBVIOUS
<1>7. Len(r) = Len(chunk) - k /\ \A i \in 1..(Len(chunk) - k) : r[i] = chunk[k + i]
  BY <1>1, <1>5, <1>6, Back
<1>8. Flows(r)
  BY <1>1, <1>5, <1>6, FlowsBack
<1>9. r[1] = chunk[k + 1] /\ r[Len(r)] = chunk[Len(chunk)]
  BY <1>1, <1>4, <1>5, <1>7
<1> QED
  BY <1>3, <1>4, <1>6, <1>8, <1>9 DEF Rest

LEMMA HandlerChunk ==
    ASSUME TypeOK, WordsKnown, ChunkWhole, Handles
    PROVE  ChunkWhole'
<1>1. UNCHANGED <<from, mixed, torn, requestFile>> /\ misread \subseteq misread'
  BY DEF Handles, setting
<1>2. CASE chunk' = chunk
  BY <1>1, <1>2 DEF ChunkWhole, LargeNumbers
<1>3. CASE chunk' = <<>>
  BY <1>3 DEF ChunkWhole
<1>4. CASE Type \in MessageType /\ Whole /\ chunk' = Rest /\ Rest # <<>>
  <2>1. chunk # <<>> /\ chunk \in Seq(WordType)
    BY DEF Handles, TypeOK
  <2>2. from \notin mixed => Flows(Rest)
    BY <1>4, <2>1, RestFlows DEF ChunkWhole
  <2>3. ASSUME from \notin torn, LargeNumbers(from[1]) \/ from \notin misread'
        PROVE  Flows(Rest) /\ Last(Rest[Len(Rest)]) /\ Rest[1].at \in {1, 3}
    <3>1. Flows(chunk) /\ Last(chunk[Len(chunk)]) /\ chunk[1].at \in {1, 3}
      BY <1>1, <2>1, <2>3 DEF ChunkWhole
    <3>2. /\ Stride(Type) < Len(chunk) /\ Flows(Rest)
          /\ Rest[1] = chunk[Stride(Type) + 1] /\ Rest[Len(Rest)] = chunk[Len(chunk)]
      BY <1>4, <2>1, <3>1, RestFlows
    <3>3. CASE First(chunk[1])
      <4>1. PICK c \in Client, m \in Message(from[1]) : Leads(c, m)
        BY <2>1, <3>1, <3>3, HeadIs
      <4>2. CASE Type \in {BLOCKADD, BLOCKELIMINATE}
        <5>1. Stride(Type) = 5 /\ Len(m) = 5 /\ 5 < Len(chunk)
          BY <3>2, <4>1, <4>2, Sizes DEF Leads
        <5>2. Last(chunk[5])
          <6>1. 5 \in 1..Len(m) /\ 5 <= Len(chunk)
            BY <2>1, <5>1
          <6>2. chunk[5].msg = m /\ chunk[5].at = 5
            BY <4>1, <6>1 DEF Leads
          <6> QED
            BY <5>1, <6>2 DEF Last
        <5>3. Follows(chunk[5], chunk[6])
          BY <2>1, <3>1, <5>1 DEF Flows
        <5> QED
          BY <3>1, <3>2, <5>1, <5>2, <5>3 DEF Follows, First
      <4>3. CASE Type = HEARTBEAT
        <5>1. Stride(Type) = 5 /\ Len(m) = 3 /\ 5 < Len(chunk)
          BY <3>2, <4>1, <4>3, Sizes DEF Leads
        <5>2. Last(chunk[3])
          <6>1. 3 \in 1..Len(m) /\ 3 <= Len(chunk)
            BY <2>1, <5>1
          <6>2. chunk[3].msg = m /\ chunk[3].at = 3
            BY <4>1, <6>1 DEF Leads
          <6> QED
            BY <5>1, <6>2 DEF Last
        <5>3. Follows(chunk[3], chunk[4])
          BY <2>1, <3>1, <5>1 DEF Flows
        <5>4. First(chunk[4]) /\ 4 \in 1..Len(chunk) /\ 4 + (3 - 1) = 6
          BY <2>1, <5>1, <5>2, <5>3 DEF Follows
        <5>5. 3 <= Len(chunk[4].msg) => chunk[6].at = 3
          <6>1. 3 <= Len(chunk[4].msg) /\ 4 + (3 - 1) <= Len(chunk) => chunk[4 + (3 - 1)].at = 3
            BY <2>1, <3>1, <5>4, Heads
          <6> QED
            BY <6>1, <5>1, <5>4
        <5>6. chunk[4] \in WordOf(c)
          BY <2>1, <4>1, <5>4 DEF WordsKnown, Leads
        <5>7. chunk[4].msg \in Message(c)
          BY <5>6 DEF WordOf, WordIn
        <5>8. Len(chunk[4].msg) \in {3, 5}
          BY <5>7, MessageIs DEF IsBeat, IsUpdate
        <5>9. chunk[6].at = 3
          <6>1. PICK l : l = Len(chunk[4].msg)
            OBVIOUS
          <6>2. l \in {3, 5}
            BY <5>8, <6>1
          <6>3. 3 <= l
            BY <6>2
          <6>4. 3 <= Len(chunk[4].msg)
            BY <6>1, <6>3 
          <6> QED
            BY <6>4, <5>5
        <5>10. Rest[1] = chunk[6]
          BY <3>2, <5>1
        <5> QED
          BY <3>1, <3>2, <5>9, <5>10
      <4> QED
        BY <4>1, <4>2, <4>3 DEF Leads
    <3>4. CASE ~First(chunk[1])
      <4>1. from \in misread'
        BY <3>4 DEF Handles
      <4>2. LargeNumbers(from[1])
        BY <2>3, <4>1
      <4>3. PICK c \in Client : c = from[1]
        BY <2>1 DEF WordsKnown, Conn
      <4>4. chunk[1] \in WordOf(c)
        BY <2>1, <4>3 DEF WordsKnown
      <4>5. PICK m \in Message(c) : m = chunk[1].msg
        BY <4>4 DEF WordOf, WordIn
      <4>6. chunk[1].at = 3 /\ Type = m[3]
        BY <3>1, <3>4, <4>5 DEF First, Type, Val
      <4>7. m[3] \in Band \/ m[3] = requestFile[c]
        BY MessageIs DEF IsBeat, IsUpdate
      <4> QED
        BY <1>4, <4>2, <4>3, <4>6, <4>7 DEF LargeNumbers
    <3> QED
      BY <3>3, <3>4
  <2> QED
    BY <1>1, <1>4, <2>2, <2>3 DEF ChunkWhole, LargeNumbers
<1> QED
  BY <1>2, <1>3, <1>4 DEF Handles

(* The steps in which the manager thread neither receives nor handles. *)
Outside == ClientProcess \/ UNCHANGED vars \/ \E q \in Conn : RecvEnd(q)

LEMMA NextCases ==
    [Next]_vars => Handles \/ CloseQuit \/ Outside \/ \E q \in Conn : Recv(q)
BY HandlerFrame DEF Next, ManagerThread, Outside

LEMMA OutsideKeeps ==
    ASSUME Outside
    PROVE  /\ UNCHANGED <<setting, reading, directory, serverUp, torn, misread, newest, overtaken>>
           /\ mixed \subseteq mixed'
<1>1. ASSUME NEW c \in Client, sendCurrentLoad(c) \/ sendAddedBlock(c) \/ sendEliminateBlock(c)
      PROVE  /\ UNCHANGED <<setting, reading, directory, serverUp, torn, misread, newest, overtaken>>
             /\ UNCHANGED mixed
  BY <1>1 DEF sendCurrentLoad, sendAddedBlock, sendEliminateBlock, Begin
<1>2. ASSUME NEW c \in Client, NEW w \in Writer, writen(c, w)
      PROVE  /\ UNCHANGED <<setting, reading, directory, serverUp, torn, misread, newest, overtaken>>
             /\ mixed \subseteq mixed'
  BY <1>2 DEF writen
<1>3. CASE ClientExit \/ Restart
  BY <1>3 DEF ClientExit, Restart, history
<1>4. CASE UNCHANGED vars \/ \E q \in Conn : RecvEnd(q)
  BY <1>4 DEF vars, RecvEnd, history
<1> QED
  BY <1>1, <1>2, <1>3, <1>4 DEF Outside, ClientProcess

LEMMA ChunkStep ==
    ASSUME TypeOK, WordsKnown, Streams, ChunkWhole, [Next]_vars
    PROVE  ChunkWhole'
<1>1. CASE Handles
  BY <1>1, HandlerChunk
<1>2. CASE CloseQuit
  BY <1>2 DEF CloseQuit, ChunkWhole
<1>3. CASE Outside
  <2>1. UNCHANGED <<from, chunk, torn, misread, requestFile>> /\ mixed \subseteq mixed'
    BY <1>3, OutsideKeeps DEF setting, reading
  <2> QED
    BY <2>1 DEF ChunkWhole, LargeNumbers
<1>4. ASSUME NEW q \in Conn, Recv(q) PROVE ChunkWhole'
  BY <1>4, RecvChunk
<1> QED
  BY <1>1, <1>2, <1>3, <1>4, NextCases

-----------------------------------------------------------------------------
(* A client with large numbers does the server no harm. *)
LEMMA SafeChunk ==
    ASSUME TypeOK, WordsKnown, ChunkWhole, chunk # <<>>, from \notin torn, LargeNumbers(from[1])
    PROVE  \/ Type \notin MessageType
           \/ Type \in {HEARTBEAT, BLOCKADD, BLOCKELIMINATE} /\ Whole
<1>1. chunk \in Seq(WordType) /\ Flows(chunk) /\ Last(chunk[Len(chunk)]) /\ chunk[1].at \in {1, 3}
  BY DEF ChunkWhole, TypeOK
<1>2. Len(chunk) \in Nat \ {0}
  BY <1>1
<1>3. CASE First(chunk[1])
  <2>1. PICK c \in Client, m \in Message(from[1]) : Leads(c, m)
    BY <1>1, <1>3, HeadIs
  <2>2. ASSUME ~Whole PROVE FALSE
    <3>1. Len(chunk) \in 1..Len(m) /\ Len(chunk) # Len(m)
      BY <1>2, <2>1, <2>2 DEF Whole, Leads
    <3>2. chunk[Len(chunk)].msg = m /\ chunk[Len(chunk)].at = Len(chunk)
      BY <2>1, <3>1 DEF Leads
    <3> QED
      BY <1>1, <3>1, <3>2 DEF Last
  <2> QED
    BY <2>1, <2>2 DEF Leads
<1>4. CASE ~First(chunk[1])
  <2>1. PICK c \in Client : c = from[1]
    BY DEF WordsKnown, Conn
  <2>2. chunk[1] \in WordOf(c)
    BY <1>2, <2>1 DEF WordsKnown
  <2>3. PICK m \in Message(c) : m = chunk[1].msg
    BY <2>2 DEF WordOf, WordIn
  <2>4. chunk[1].at = 3 /\ Type = m[3]
    BY <1>1, <1>4, <2>3 DEF First, Type, Val
  <2>5. m[3] \in Band \/ m[3] = requestFile[c]
    BY MessageIs DEF IsBeat, IsUpdate
  <2> QED
    BY <2>1, <2>4, <2>5 DEF LargeNumbers
<1> QED
  BY <1>3, <1>4

LEMMA SafeStep ==
    ASSUME TypeOK, WordsKnown, ChunkWhole, SafeConnection, [Next]_vars
    PROVE  SafeConnection'
<1>1. CASE Outside
  <2>1. UNCHANGED <<from, torn, requestFile, serverUp, quit>>
    BY <1>1, OutsideKeeps DEF setting, reading
  <2> QED
    BY <2>1 DEF SafeConnection, LargeNumbers
<1>2. ASSUME NEW q \in Conn, Recv(q) PROVE SafeConnection'
  BY <1>2 DEF Recv, Idle, SafeConnection
<1>3. CASE CloseQuit
  BY <1>3 DEF CloseQuit, SafeConnection
<1>4. CASE messageProcess /\ Handles
  <2> SUFFICES ASSUME from # NoConn, LargeNumbers(from[1]), from \notin torn
               PROVE  serverUp' /\ quit' = 0
    BY <1>4 DEF SafeConnection, Handles, LargeNumbers, setting
  <2>1. quit = 0 /\ serverUp /\ chunk # <<>>
    BY <1>4 DEF SafeConnection, Handles
  <2>2. Type \notin MessageType \/ (Type \in {HEARTBEAT, BLOCKADD, BLOCKELIMINATE} /\ Whole)
    BY <2>1, SafeChunk
  <2>3. CASE HandleHeartbeat \/ HandleUpdate \/ IgnoreUpdate \/ WrongMessage
    BY <2>1, <2>3 DEF HandleHeartbeat, HandleUpdate, IgnoreUpdate, WrongMessage
  <2>4. ~HandleQuit /\ ~HandleSegment /\ ~HandleShort
    <3>1. /\ CLIENTQUIT \notin {HEARTBEAT, BLOCKADD, BLOCKELIMINATE}
          /\ REQUESTSEGMENT \notin {HEARTBEAT, BLOCKADD, BLOCKELIMINATE}
          /\ REQUESTSEGMENTAGAIN \notin {HEARTBEAT, BLOCKADD, BLOCKELIMINATE}
      BY DEF HEARTBEAT, BLOCKADD, BLOCKELIMINATE, CLIENTQUIT, REQUESTSEGMENT, REQUESTSEGMENTAGAIN
    <3>2. Type \in {CLIENTQUIT, REQUESTSEGMENT, REQUESTSEGMENTAGAIN} => FALSE
      BY <2>2, <3>1, MessageTypes
    <3>3. HandleQuit \/ HandleSegment => Type \in {CLIENTQUIT, REQUESTSEGMENT, REQUESTSEGMENTAGAIN}
      BY DEF HandleQuit, HandleSegment, Reads
    <3>4. HandleShort => Type \in MessageType /\ ~Whole
      BY DEF HandleShort, Reads
    <3> QED
      BY <2>2, <3>2, <3>3, <3>4
  <2>5. CASE HandleResource
    BY <2>1, <2>5 DEF HandleResource
  <2>6. CASE CloseQuit
    BY <2>1, <2>6 DEF CloseQuit
  <2> QED
    BY <1>4, <2>3, <2>4, <2>5, <2>6 DEF messageProcess
<1> QED
  BY <1>1, <1>2, <1>3, <1>4, HandlerFrame DEF Next, ManagerThread, Outside

-----------------------------------------------------------------------------
(* What a message does to the directory. *)
LEMMA UpdateRow ==
    ASSUME TypeOK, WordsKnown, HandleUpdate, Flows(chunk), First(chunk[1])
    PROVE  \E c \in Client : \E s \in ever[c] :
              /\ c = from[1] /\ Len(chunk[1].msg) = 5 /\ Len(chunk) >= 5
              /\ Type = chunk[1].msg[1] /\ s = chunk[1].msg[4] /\ Type \in {BLOCKADD, BLOCKELIMINATE}
              /\ ivod_seg_t' = IF Type = BLOCKADD
                               THEN ivod_seg_t \cup {<<c, requestFile[c], s>>}
                               ELSE ivod_seg_t \ {<<c, requestFile[c], s>>}
<1>1. chunk # <<>> /\ chunk \in Seq(WordType) /\ Type \in {BLOCKADD, BLOCKELIMINATE} /\ Whole
  BY DEF HandleUpdate, Reads, TypeOK
<1>2. PICK c \in Client, m \in Message(from[1]) : Leads(c, m)
  BY <1>1, HeadIs
<1>3. m[1] \in {BLOCKADD, BLOCKELIMINATE}
  BY <1>1, <1>2 DEF Leads
<1>4. IsUpdate(m, c)
  BY <1>2, <1>3 DEF Leads, IsBeat, HEARTBEAT, BLOCKADD, BLOCKELIMINATE
<1>5. Len(m) = 5 /\ Len(chunk) >= 5
  BY <1>1, <1>2, <1>4 DEF Whole, Leads, IsUpdate
<1>6. Arg(2) = m[2] /\ Arg(3) = m[3] /\ Arg(4) = m[4]
  <2>1. 2 \in 1..Len(m) /\ 3 \in 1..Len(m) /\ 4 \in 1..Len(m)
    BY <1>5
  <2>2. 2 <= Len(chunk) /\ 3 <= Len(chunk) /\ 4 <= Len(chunk)
    BY <1>1, <1>5
  <2> QED
    BY <1>2, <2>1, <2>2 DEF Leads
<1>7. <<Arg(2), Arg(3), Arg(4)>> = <<c, requestFile[c], m[4]>> /\ m[4] \in ever[c]
  BY <1>4, <1>6 DEF IsUpdate
<1>8. c = from[1] /\ m = chunk[1].msg /\ Type = m[1]
  BY <1>2 DEF Leads
<1> QED
  BY <1>1, <1>5, <1>7, <1>8 DEF HandleUpdate

(* Other steps than an update leave the rows as they are. *)
LEMMA RowsChange ==
    ASSUME [Next]_vars
    PROVE  HandleUpdate \/ UNCHANGED ivod_seg_t
<1>1. CASE messageProcess
  BY <1>1 DEF messageProcess, HandleHeartbeat, IgnoreUpdate, HandleQuit, HandleResource,
              HandleSegment, HandleShort, WrongMessage, CloseQuit, directory
<1>2. CASE Outside
  BY <1>2, OutsideKeeps DEF directory
<1>3. ASSUME NEW q \in Conn, Recv(q) PROVE UNCHANGED ivod_seg_t
  BY <1>3 DEF Recv, directory
<1> QED
  BY <1>1, <1>2, <1>3 DEF Next, ManagerThread, Outside

LEMMA HistoryGrows ==
    ASSUME [Next]_vars
    PROVE  misread \subseteq misread' /\ mixed \subseteq mixed' /\ torn \subseteq torn'
<1>1. CASE Handles
  BY <1>1 DEF Handles
<1>2. CASE CloseQuit
  BY <1>2 DEF CloseQuit, history
<1>3. CASE Outside
  BY <1>3, OutsideKeeps
<1>4. ASSUME NEW q \in Conn, Recv(q)
      PROVE  misread \subseteq misread' /\ mixed \subseteq mixed' /\ torn \subseteq torn'
  BY <1>4 DEF Recv
<1> QED
  BY <1>1, <1>2, <1>3, <1>4, NextCases

LEMMA RowsStep ==
    ASSUME TypeOK, WordsKnown, ChunkWhole, RowsWereTrue, [Next]_vars
    PROVE  RowsWereTrue'
<1> SUFFICES ASSUME misread' = {}, mixed' = {}, NEW row \in ivod_seg_t'
             PROVE  /\ row[1] \in Client
                    /\ row[2] = requestFile'[row[1]] /\ row[3] \in ever'[row[1]]
  BY DEF RowsWereTrue
<1>1. misread = {} /\ mixed = {}
  BY HistoryGrows
<1>2. UNCHANGED requestFile /\ \A c \in Client : ever[c] \subseteq ever'[c]
  BY Keeps
<1>3. CASE row \in ivod_seg_t
  BY <1>1, <1>2, <1>3 DEF RowsWereTrue
<1>4. CASE row \notin ivod_seg_t
  <2>1. HandleUpdate
    BY <1>4, RowsChange
  <2>2. chunk # <<>> /\ First(chunk[1])
    BY <2>1 DEF HandleUpdate, Reads
  <2>3. Flows(chunk)
    BY <1>1, <2>2 DEF ChunkWhole
  <2>4. PICK c \in Client : \E s \in ever[c] : row = <<c, requestFile[c], s>>
    BY <1>4, <2>1, <2>2, <2>3, UpdateRow
  <2> QED
    BY <1>2, <2>4
<1> QED
  BY <1>3, <1>4

LEMMA OwnRowsStep ==
    ASSUME TypeOK, WordsKnown, ChunkWhole, [Next]_vars, NEW c \in Client,
           from # NoConn, from[1] # c, from \notin mixed \cup misread'
    PROVE  /\ RowsOf(c)' = RowsOf(c)
           /\ c \in DOMAIN client_info => client_info'[c] = client_info[c]
<1>1. CASE Handles /\ messageProcess
  <2>1. chunk # <<>> /\ First(chunk[1])
    BY <1>1 DEF Handles
  <2>2. Flows(chunk)
    BY <2>1 DEF ChunkWhole
  <2>3. PICK d \in Client, m \in Message(from[1]) : Leads(d, m)
    BY <2>1, <2>2, HeadIs
  <2>4. RowsOf(c)' = RowsOf(c)
    <3>1. CASE HandleUpdate
      <4>1. PICK s : ivod_seg_t' = IF Type = BLOCKADD
                                   THEN ivod_seg_t \cup {<<from[1], requestFile[from[1]], s>>}
                                   ELSE ivod_seg_t \ {<<from[1], requestFile[from[1]], s>>}
        BY <2>1, <2>2, <3>1, UpdateRow
      <4> QED
        BY <4>1 DEF RowsOf
    <3> QED
      BY <3>1, RowsChange DEF RowsOf
  <2>5. c \in DOMAIN client_info => client_info'[c] = client_info[c]
    <3>1. CASE HandleHeartbeat
      <4>1. Type = HEARTBEAT /\ Whole
        BY <3>1 DEF HandleHeartbeat, Reads
      <4>2. 2 \in 1..Len(m) /\ 2 <= Len(chunk)
        BY <2>3, <4>1, Sizes DEF Whole, Leads, TypeOK
      <4>3. Arg(2) = d /\ d # c
        BY <2>3, <4>2 DEF Leads, IsBeat, IsUpdate
      <4> QED
        BY <3>1, <4>3 DEF HandleHeartbeat, updateP2pClient
    <3>2. ~HandleResource
      BY <2>3 DEF Leads, HandleResource, Reads, REQUESTRESOURCE, HEARTBEAT, BLOCKADD, BLOCKELIMINATE
    <3> QED
      BY <1>1, <3>1, <3>2 DEF messageProcess, HandleUpdate, IgnoreUpdate, HandleQuit, HandleSegment,
                              HandleShort, WrongMessage, CloseQuit, directory
  <2> QED
    BY <2>4, <2>5
<1>2. CASE CloseQuit \/ Outside \/ \E q \in Conn : Recv(q)
  BY <1>2, OutsideKeeps DEF CloseQuit, Recv, directory, RowsOf
<1> QED
  BY <1>1, <1>2, HandlerFrame DEF Next, ManagerThread, Outside

-----------------------------------------------------------------------------
(* The directory follows the buffers. *)
LEMMA PeersStep ==
    ASSUME TypeOK, PeersSilent, [Next]_vars
    PROVE  PeersSilent'
<1>1. CASE UNCHANGED out
  BY <1>1 DEF PeersSilent
<1>2. CASE ClientExit
  <2>1. \A c \in Client : out'[c]["peer"] = <<>>
    BY <1>2 DEF ClientExit, Writer
  <2> QED
    BY <2>1 DEF PeersSilent, Silent
<1>3. ASSUME NEW c \in Client, NEW w \in Writer, NEW m, Begin(c, w, m),
             w = "peer" => \A s \in Seg : Silent(m, s)
      PROVE  PeersSilent'
  <2>1. out' = [out EXCEPT ![c][w] = m]
    BY <1>3 DEF Begin
  <2>2. \A d \in Client : out'[d]["peer"] = out[d]["peer"] \/ (w = "peer" /\ out'[d]["peer"] = m)
    BY <2>1 DEF TypeOK, Writer
  <2> QED
    BY <1>3, <2>2 DEF PeersSilent
<1>4. ASSUME NEW c \in Client, sendCurrentLoad(c) PROVE PeersSilent'
  <2>1. PICK b \in Band : Begin(c, "peer", Beat(c, b))
    BY <1>4 DEF sendCurrentLoad
  <2>2. PICK m : m = <<HEARTBEAT, c, b>>
    OBVIOUS
  <2>3. m \in Seq(Nat) /\ m # <<>> /\ Beat(c, b) = Word(m) /\ m[1] = HEARTBEAT
    BY <2>2, BeatIs
  <2>4. PICK o : o = Word(m)
    OBVIOUS
  <2>5. Len(o) = Len(m) /\ \A i \in 1..Len(m) : o[i].msg = m
    BY <2>3, <2>4, WordsOf
  <2>6. \A s \in Seg : Silent(o, s)
    BY <2>3, <2>5 DEF Silent, Of, HEARTBEAT, BLOCKADD, BLOCKELIMINATE
  <2> QED
    BY <1>3, <2>1, <2>3, <2>4, <2>6 DEF Writer
<1>5. ASSUME NEW c \in Client, sendAddedBlock(c) \/ sendEliminateBlock(c) PROVE PeersSilent'
  BY <1>3, <1>5 DEF sendAddedBlock, sendEliminateBlock, Writer
<1>6. ASSUME NEW c \in Client, NEW w \in Writer, writen(c, w) PROVE PeersSilent'
  <2>1. PICK n \in 1..Len(out[c][w]) :
           out' = [out EXCEPT ![c][w] = SubSeq(out[c][w], n + 1, Len(out[c][w]))]
    BY <1>6, writenMoves
  <2>2. PICK o : o = out[c][w]
    OBVIOUS
  <2>3. o \in Seq(WordType) /\ n \in 0..Len(o)
    BY <2>1, <2>2 DEF TypeOK
  <2>4. PICK r : r = SubSeq(o, n + 1, Len(o))
    OBVIOUS
  <2>5. \A s : Silent(o, s) => Silent(r, s)
    BY <2>3, <2>4, SaysParts
  <2>6. out' = [out EXCEPT ![c][w] = r]
    BY <2>1, <2>2, <2>4
  <2>7. \A d \in Client : out'[d]["peer"] = out[d]["peer"]
                          \/ (d = c /\ w = "peer" /\ out'[d]["peer"] = r)
    BY <2>6 DEF TypeOK, Writer
  <2> QED
    BY <2>2, <2>5, <2>7 DEF PeersSilent
<1>7. messageProcess => UNCHANGED out
  BY HandlerFrame DEF Handles, CloseQuit, client
<1>8. ASSUME NEW q \in Conn, Recv(q) \/ RecvEnd(q) PROVE UNCHANGED out
  BY <1>8 DEF Recv, RecvEnd, client
<1>9. Restart \/ UNCHANGED vars => UNCHANGED out
  BY DEF Restart, vars, client
<1> QED
  BY <1>1, <1>2, <1>4, <1>5, <1>6, <1>7, <1>8, <1>9 DEF Next, ManagerThread, ClientProcess

LEMMA ToldSame ==
    ASSUME NEW c \in Client, NEW s \in Seg, Told(c, s),
           UNCHANGED <<run, requestFile, out[c]["owner"], newest[c]>>, Pending(c)' = Pending(c),
           s \in held'[c] <=> s \in held[c],
           <<c, requestFile[c], s>> \in ivod_seg_t' <=> <<c, requestFile[c], s>> \in ivod_seg_t
    PROVE  Told(c, s)'
<1>1. s \in Listed(c)' <=> s \in Listed(c)
  BY DEF Listed
<1>2. Agree(c, s)' <=> Agree(c, s)
  BY <1>1 DEF Agree
<1>3. PICK o : o = out[c]["owner"] /\ o = out'[c]["owner"]
  OBVIOUS
<1>4. PICK k : k = Pending(c) /\ k = Pending(c)'
  OBVIOUS
<1>5. Says(o, s, s \in held[c]) => Says(o, s, s \in held'[c])
  BY DEF Says
<1>6. Says(k, s, s \in held[c]) => Says(k, s, s \in held'[c])
  BY DEF Says
<1> QED
  BY <1>2, <1>3, <1>4, <1>5, <1>6 DEF Told

(* What a client has yet to be told from, as a sequence of its own. *)
LEMMA PendingIs ==
    ASSUME TypeOK, NEW c \in Client
    PROVE  /\ out[c]["owner"] \in Seq(WordType) /\ Pending(c) \in Seq(WordType)
           /\ <<c, run>> \in Conn /\ sock[<<c, run>>] \in Seq(WordType)
           /\ chunk \in Seq(WordType)
           /\ chunk = <<>> => Pending(c) = sock[<<c, run>>]
           /\ from # <<c, run>> => Pending(c) = sock[<<c, run>>]
           /\ from = <<c, run>> => Pending(c) = chunk \o sock[<<c, run>>]
<1>1. <<c, run>> \in Conn /\ "owner" \in Writer
  BY DEF TypeOK, Conn, Writer
<1>2. out[c]["owner"] \in Seq(WordType) /\ chunk \in Seq(WordType)
  BY <1>1 DEF TypeOK
<1>3. PICK t : t = sock[<<c, run>>]
  OBVIOUS
<1>4. t \in Seq(WordType)
  BY <1>1, <1>3 DEF TypeOK
<1>5. chunk \o t \in Seq(WordType)
  BY <1>2, <1>4, ConcatProperties
<1>6. <<>> \o t = t
  BY <1>4, ConcatEmptySeq
<1> QED
  BY <1>1, <1>2, <1>3, <1>4, <1>5, <1>6 DEF Pending

LEMMA FaithfulBefore ==
    ASSUME TypeOK, [Next]_vars, ~Restart, NEW c \in Client, Faithful(c)'
    PROVE  Faithful(c)
<1>1. Clean(c)
  BY HistoryGrows DEF Faithful, Clean
<1>2. isP2pOpen
  BY Keeps DEF Faithful
<1>3. CASE Handles
  <2>1. UNCHANGED <<clientUp, run, overtaken>> /\ First(chunk[1])
    BY <1>3 DEF Handles, client, Faithful, Clean
  <2> QED
    BY <1>1, <1>2, <2>1 DEF Faithful
<1>4. CASE CloseQuit
  BY <1>1, <1>2, <1>4 DEF Faithful, CloseQuit, client, history
<1>5. ASSUME NEW q \in Conn, Recv(q) PROVE Faithful(c)
  BY <1>1, <1>2, <1>5 DEF Faithful, Recv, Idle, client
<1>6. CASE Outside
  <2>1. UNCHANGED <<chunk, from, overtaken>>
    BY <1>6, OutsideKeeps DEF reading
  <2>2. clientUp /\ run' = run
    <3>1. ASSUME NEW d \in Client, sendCurrentLoad(d) \/ sendAddedBlock(d) \/ sendEliminateBlock(d)
          PROVE  UNCHANGED <<clientUp, run>>
      BY <3>1 DEF sendCurrentLoad, sendAddedBlock, sendEliminateBlock, Begin
    <3>2. ASSUME NEW d \in Client, NEW w \in Writer, writen(d, w)
          PROVE  UNCHANGED <<clientUp, run>>
      BY <3>2 DEF writen
    <3>3. CASE UNCHANGED vars \/ \E q \in Conn : RecvEnd(q)
      BY <3>3 DEF vars, RecvEnd, client, Faithful
    <3>4. ~ClientExit
      BY DEF ClientExit, Faithful
    <3> QED
      BY <1>6, <3>1, <3>2, <3>3, <3>4 DEF Outside, ClientProcess, Faithful
  <2> QED
    BY <1>1, <1>2, <2>1, <2>2 DEF Faithful
<1> QED
  BY <1>3, <1>4, <1>5, <1>6, NextCases

(* A new process holds nothing, and its connections carry nothing. *)
LEMMA RestartTold ==
    ASSUME TypeOK, Runs, Restart, NEW c \in Client, NEW s \in Seg
    PROVE  Told(c, s)'
<1>1. run \in Nat \ {0} /\ run' = run + 1 /\ run + 1 \in Run
  BY StreamAssumption DEF Restart, TypeOK, Run
<1>2. <<c, run'>> \in Conn /\ <<c, run'>>[2] > run
  BY <1>1 DEF Conn
<1>3. sock'[<<c, run'>>] = <<>>
  BY <1>2 DEF Restart, Runs
<1>4. from # <<c, run'>>
  <2>1. from = <<c, run'>> => from # NoConn /\ from[2] = run + 1
    BY <1>1 DEF NoConn
  <2> QED
    BY <1>1, <2>1 DEF Runs
<1>5. Pending(c)' = <<>>
  BY <1>3, <1>4 DEF Pending, Restart, reading
<1>6. held'[c] = {} /\ out'[c]["owner"] = <<>>
  BY DEF Restart, Runs, Writer
<1>7. Agree(c, s)'
  BY <1>1, <1>6 DEF Agree
<1>8. Silent(<<>>, s)
  BY DEF Silent
<1> QED
  BY <1>5, <1>6, <1>7, <1>8 DEF Told

(* A new message of its owner is the last word on its segment. *)
LEMMA BeginTold ==
    ASSUME TypeOK, NEW c \in Client, NEW s \in Seg, Told(c, s), NEW d \in Client,
           sendCurrentLoad(d) \/ sendAddedBlock(d) \/ sendEliminateBlock(d)
    PROVE  Told(c, s)'
<1>1. UNCHANGED <<run, requestFile, newest, sock, from, chunk, ivod_seg_t>>
  BY DEF sendCurrentLoad, sendAddedBlock, sendEliminateBlock, Begin, setting, connection,
         reading, directory
<1>2. Pending(c)' = Pending(c)
  BY <1>1 DEF Pending
<1>3. CASE out'[c]["owner"] = out[c]["owner"] /\ held'[c] = held[c]
  BY <1>1, <1>2, <1>3, ToldSame
<1>4. ASSUME NEW t \in {BLOCKADD, BLOCKELIMINATE}, NEW a \in Seg, Begin(c, "owner", Update(t, c, a)),
             a \in held'[c] <=> t = BLOCKADD, \A b \in Seg \ {a} : b \in held'[c] <=> b \in held[c]
      PROVE  Told(c, s)'
  <2>1. PICK m : m = <<t, c, requestFile[c], a, blockSize>>
    OBVIOUS
  <2>2. m \in Seq(Nat) /\ m # <<>> /\ Update(t, c, a) = Word(m)
    BY <2>1, UpdateIs
  <2>3. m[1] = t /\ m[4] = a /\ Len(m) = 5
    BY <2>1
  <2>4. PICK o : o = Word(m)
    OBVIOUS
  <2>5. Len(o) = 5 /\ \A i \in 1..5 : o[i].msg = m /\ o[i].at = i
    BY <2>2, <2>3, <2>4, WordsOf
  <2>6. out[c]["owner"] = <<>> /\ out'[c]["owner"] = o
    BY <1>4, <2>2, <2>4 DEF Begin, TypeOK, Writer
  <2>7. CASE s = a
    <3>1. Of(o[1], s) /\ (o[1].msg[1] = BLOCKADD <=> s \in held'[c])
      BY <1>4, <2>3, <2>5, <2>7 DEF Of, First
    <3>2. \A j \in (1 + 1)..Len(o) : ~Of(o[j], s)
      BY <2>5 DEF Of, First
    <3>3. Says(o, s, s \in held'[c])
      BY <2>5, <3>1, <3>2 DEF Says
    <3> QED
      BY <2>6, <3>3 DEF Told
  <2>8. CASE s # a
    <3>1. Silent(o, s)
      BY <2>3, <2>5, <2>8 DEF Silent, Of, First
    <3>2. ~Says(<<>>, s, s \in held[c])
      BY DEF Says
    <3>3. s \in held'[c] <=> s \in held[c]
      BY <1>4, <2>8
    <3>4. PICK k : k = Pending(c)
      OBVIOUS
    <3>5. Says(k, s, s \in held[c]) \/ (Silent(k, s) /\ Agree(c, s))
      BY <2>6, <3>2, <3>4 DEF Told
    <3>6. Says(k, s, s \in held[c]) => Says(k, s, s \in held'[c])
      BY <3>3 DEF Says
    <3>7. Agree(c, s) => Agree(c, s)'
      BY <1>1, <3>3 DEF Agree, Listed
    <3> QED
      BY <1>2, <2>6, <3>1, <3>4, <3>5, <3>6, <3>7 DEF Told
  <2> QED
    BY <2>7, <2>8
<1>5. CASE sendCurrentLoad(d)
  <2>1. out'[c]["owner"] = out[c]["owner"] /\ held'[c] = held[c]
    BY <1>5 DEF sendCurrentLoad, Begin, TypeOK, Writer
  <2> QED
    BY <1>3, <2>1
<1>6. CASE d # c
  <2>1. out'[c]["owner"] = out[c]["owner"] /\ held'[c] = held[c]
    BY <1>6 DEF sendCurrentLoad, sendAddedBlock, sendEliminateBlock, Begin, TypeOK, Writer
  <2> QED
    BY <1>3, <2>1
<1>7. CASE sendAddedBlock(c)
  <2>1. PICK a \in Seg : /\ Begin(c, "owner", Update(BLOCKADD, c, a))
                         /\ held' = [held EXCEPT ![c] = @ \cup {a}]
    BY <1>7 DEF sendAddedBlock
  <2>2. a \in held'[c] /\ \A b \in Seg \ {a} : b \in held'[c] <=> b \in held[c]
    BY <2>1 DEF TypeOK
  <2> QED
    BY <1>4, <2>1, <2>2
<1>8. CASE sendEliminateBlock(c)
  <2>1. PICK a \in held[c] : /\ Begin(c, "owner", Update(BLOCKELIMINATE, c, a))
                             /\ held' = [held EXCEPT ![c] = @ \ {a}]
    BY <1>8 DEF sendEliminateBlock
  <2>2. a \in Seg /\ a \notin held'[c] /\ \A b \in Seg \ {a} : b \in held'[c] <=> b \in held[c]
    BY <2>1 DEF TypeOK
  <2>3. BLOCKELIMINATE # BLOCKADD
    BY DEF BLOCKADD, BLOCKELIMINATE
  <2> QED
    BY <1>4, <2>1, <2>2, <2>3
<1> QED
  BY <1>5, <1>6, <1>7, <1>8

(* Writing moves words from the writers' ends to the socket's. *)
LEMMA writenTold ==
    ASSUME TypeOK, PeersSilent, NEW c \in Client, NEW s \in Seg, Told(c, s),
           NEW d \in Client, NEW w \in Writer, writen(d, w)
    PROVE  Told(c, s)'
<1>1. UNCHANGED <<run, requestFile, newest, held, from, chunk, ivod_seg_t>>
  BY DEF writen, setting, reading, directory
<1>2. PICK o : o = out[d][w]
  OBVIOUS
<1>3. PICK n : /\ n \in 1..Len(o)
               /\ sock' = [sock EXCEPT ![<<d, run>>] = @ \o SubSeq(o, 1, n)]
               /\ out' = [out EXCEPT ![d][w] = SubSeq(o, n + 1, Len(o))]
  <2>1. PICK n \in 1..Len(out[d][w]) :
           /\ sock' = [sock EXCEPT ![<<d, run>>] = @ \o SubSeq(out[d][w], 1, n)]
           /\ out' = [out EXCEPT ![d][w] = SubSeq(out[d][w], n + 1, Len(out[d][w]))]
    BY writenMoves
  <2> QED
    BY <1>2, <2>1
<1>4. o \in Seq(WordType) /\ n \in 0..Len(o)
  BY <1>2, <1>3 DEF TypeOK
<1>5. PICK p : p = SubSeq(o, 1, n)
  OBVIOUS
<1>6. PICK r : r = SubSeq(o, n + 1, Len(o))
  OBVIOUS
<1>7. p \in Seq(WordType) /\ r \in Seq(WordType)
  BY <1>4, <1>5, <1>6, Front, Back
<1>8. \A x : /\ Silent(o, s) => Silent(p, s) /\ Silent(r, s)
             /\ Says(o, s, x) => Says(r, s, x) \/ (Silent(r, s) /\ Says(p, s, x))
  BY <1>4, <1>5, <1>6, SaysParts
<1>9. CASE d # c
  <2>1. out'[c]["owner"] = out[c]["owner"] /\ sock'[<<c, run>>] = sock[<<c, run>>]
    BY <1>3, <1>9 DEF TypeOK, Writer, Conn
  <2>2. Pending(c)' = Pending(c)
    BY <1>1, <2>1 DEF Pending
  <2> QED
    BY <1>1, <2>1, <2>2, ToldSame
<1>10. CASE d = c
  <2>1. PICK k : k = Pending(c)
    OBVIOUS
  <2>2. k \in Seq(WordType)
    BY <2>1, PendingIs
  <2>3. Pending(c)' = k \o p
    <3>1. PICK t : t = sock[<<c, run>>]
      OBVIOUS
    <3>2. sock'[<<c, run>>] = t \o p
      BY <1>3, <1>5, <1>10, <3>1 DEF TypeOK, Conn
    <3>3. chunk \in Seq(WordType) /\ t \in Seq(WordType)
      BY <3>1, PendingIs
    <3>4. (chunk \o t) \o p = chunk \o (t \o p)
      BY <1>7, <3>3, ConcatAssociative
    <3> QED
      BY <1>1, <2>1, <3>1, <3>2, <3>4 DEF Pending
  <2>4. PICK u : u = k \o p
    OBVIOUS
  <2>5. \A x : /\ Silent(k, s) /\ Silent(p, s) => Silent(u, s)
               /\ Says(k, s, x) /\ Silent(p, s) => Says(u, s, x)
               /\ Says(p, s, x) => Says(u, s, x)
    BY <1>7, <2>2, <2>4, SaysBehind
  <2>6. Agree(c, s) => Agree(c, s)'
    BY <1>1 DEF Agree, Listed
  <2>7. CASE w = "owner"
    <3>1. out'[c]["owner"] = r
      BY <1>3, <1>6, <1>10, <2>7 DEF TypeOK, Writer
    <3>2. PICK x : x = (s \in held[c])
      OBVIOUS
    <3>3. \/ Says(o, s, x)
          \/ Silent(o, s) /\ Says(k, s, x)
          \/ Silent(o, s) /\ Silent(k, s) /\ Agree(c, s)
      BY <1>2, <1>10, <2>1, <2>7, <3>2 DEF Told
    <3>4. \/ Says(r, s, x)
          \/ Silent(r, s) /\ Says(u, s, x)
          \/ Silent(r, s) /\ Silent(u, s) /\ Agree(c, s)'
      BY <1>8, <2>5, <2>6, <3>3
    <3> QED
      BY <1>1, <2>3, <2>4, <3>1, <3>2, <3>4 DEF Told
  <2>8. CASE w = "peer"
    <3>1. out'[c]["owner"] = out[c]["owner"]
      BY <1>3, <1>10, <2>8 DEF TypeOK, Writer
    <3>2. PICK x : x = (s \in held[c])
      OBVIOUS
    <3>3. Silent(p, s)
      BY <1>2, <1>8, <1>10, <2>8 DEF PeersSilent
    <3>4. PICK y : y = out[c]["owner"]
      OBVIOUS
    <3>5. \/ Says(y, s, x)
          \/ Silent(y, s) /\ Says(k, s, x)
          \/ Silent(y, s) /\ Silent(k, s) /\ Agree(c, s)
      BY <2>1, <3>2, <3>4 DEF Told
    <3>6. \/ Says(y, s, x)
          \/ Silent(y, s) /\ Says(u, s, x)
          \/ Silent(y, s) /\ Silent(u, s) /\ Agree(c, s)'
      BY <2>5, <2>6, <3>3, <3>5
    <3> QED
      BY <1>1, <2>3, <2>4, <3>1, <3>2, <3>4, <3>6 DEF Told
  <2> QED
    BY <2>7, <2>8 DEF Writer
<1> QED
  BY <1>9, <1>10

(* Receiving moves words from the socket to the chunk.  A message from an  *)
(* old connection comes before any from the new one.                       *)
LEMMA RecvTold ==
    ASSUME TypeOK, Runs, NEW c \in Client, NEW s \in Seg, Told(c, s), Faithful(c)',
           NEW q \in Conn, Recv(q)
    PROVE  Told(c, s)'
<1>1. /\ UNCHANGED <<run, requestFile, held, out, ivod_seg_t>>
      /\ chunk = <<>> /\ from' = q /\ q \in open
  BY DEF Recv, Idle, setting, client, directory
<1>2. PICK n \in 1..Len(sock[q]) : /\ chunk' = SubSeq(sock[q], 1, n)
                                   /\ sock' = [sock EXCEPT ![q] = SubSeq(sock[q], n + 1, Len(sock[q]))]
  BY DEF Recv, Taken
<1>3. newest' = [newest EXCEPT ![q[1]] = IF q[2] > @ THEN q[2] ELSE @]
  BY DEF Recv
<1>4. q[1] \in Client /\ q[2] \in Nat \ {0} /\ q = <<q[1], q[2]>> /\ run \in Nat
  BY DEF Conn, Run, TypeOK
<1>5. q[2] <= run
  BY <1>1, <1>4 DEF Runs
<1>6. newest \in [Client -> Nat] /\ newest[c] <= run
  BY DEF Runs, TypeOK
<1>7. Pending(c) = sock[<<c, run>>] /\ <<c, run>> \in Conn
  BY <1>1, PendingIs
<1>8. Pending(c)' = Pending(c)
  <2>1. CASE q = <<c, run>>
    <3>1. PICK t : t = sock[q]
      OBVIOUS
    <3>2. t \in Seq(WordType) /\ n \in 1..Len(t)
      BY <1>2, <3>1 DEF TypeOK
    <3>3. 1 \in 1..(Len(t) + 1) /\ n \in (1 - 1)..Len(t) /\ Len(t) \in n..Len(t)
      BY <3>2
    <3>4. SubSeq(t, 1, n) \o SubSeq(t, n + 1, Len(t)) = SubSeq(t, 1, Len(t))
      BY <3>2, <3>3, ConcatAdjacentSubSeq
    <3>5. SubSeq(t, 1, Len(t)) = t
      BY <3>2, SubSeqFull
    <3>6. sock'[<<c, run>>] = SubSeq(t, n + 1, Len(t)) /\ chunk' = SubSeq(t, 1, n)
      BY <1>2, <2>1, <3>1 DEF TypeOK
    <3>7. Pending(c)' = chunk' \o sock'[<<c, run>>]
      BY <1>1, <2>1 DEF Pending
    <3> QED
      BY <1>7, <2>1, <3>1, <3>4, <3>5, <3>6, <3>7
  <2>2. CASE q # <<c, run>>
    <3>1. sock'[<<c, run>>] = sock[<<c, run>>]
      BY <1>2, <1>7, <2>2 DEF TypeOK
    <3> QED
      BY <1>1, <1>7, <2>2, <3>1 DEF Pending
  <2> QED
    BY <2>1, <2>2
<1>9. CASE q[1] # c
  <2>1. newest'[c] = newest[c]
    BY <1>3, <1>4, <1>6, <1>9
  <2> QED
    BY <1>1, <1>8, <2>1, ToldSame
<1>10. CASE q[1] = c
  <2>1. Agree(c, s) => Agree(c, s)'
    <3> SUFFICES ASSUME Agree(c, s), run # 1, s \in held[c]
                 PROVE  s \in Listed(c)' /\ newest'[c] = run
      BY <1>1 DEF Agree, Listed
    <3>1. s \in Listed(c) /\ newest[c] = run
      BY DEF Agree
    <3> QED
      BY <1>1, <1>3, <1>4, <1>5, <1>6, <1>10, <3>1 DEF Listed
  <2>2. PICK o : o = out[c]["owner"] /\ o = out'[c]["owner"]
    BY <1>1
  <2>3. PICK k : k = Pending(c) /\ k = Pending(c)'
    BY <1>8
  <2> QED
    BY <1>1, <2>1, <2>2, <2>3 DEF Told
<1> QED
  BY <1>9, <1>10

(* The chunk up to where the next message is looked for, if that is the    *)
(* first word of one: no word there but the first begins a message.        *)
LEMMA ChunkFront ==
    ASSUME TypeOK, WordsKnown, ChunkWhole, chunk # <<>>, First(chunk[1]), Whole,
           from \notin mixed \cup torn \cup misread,
           Rest # <<>> => First(Rest[1])
    PROVE  \E n \in 1..Len(chunk) :
              /\ Rest = SubSeq(chunk, n + 1, Len(chunk))
              /\ \A i \in 2..n : ~First(chunk[i])
<1>1. chunk \in Seq(WordType) /\ Flows(chunk) /\ Last(chunk[Len(chunk)])
  BY DEF TypeOK, ChunkWhole
<1>2. PICK c \in Client, m \in Message(from[1]) : Leads(c, m)
  BY <1>1, HeadIs
<1>3. Len(chunk) \in Nat \ {0} /\ Len(m) <= Len(chunk) /\ Len(m) \in {3, 5}
  BY <1>1, <1>2 DEF Whole, Leads, IsBeat, IsUpdate
<1>4. \A i \in 2..Len(m) : ~First(chunk[i])
  BY <1>2, <1>3 DEF Leads, First
<1>5. CASE Type \in {BLOCKADD, BLOCKELIMINATE}
  <2>1. Stride(Type) = 5 /\ Len(m) = 5
    BY <1>2, <1>5, Sizes DEF Leads
  <2>2. 5 \in 1..Len(chunk)
    BY <1>3, <2>1
  <2> QED
    BY <1>4, <2>1, <2>2 DEF Rest
<1>6. CASE Type = HEARTBEAT
  <2>1. Stride(Type) = 5 /\ Len(m) = 3
    BY <1>2, <1>6, Sizes DEF Leads
  <2>2. ASSUME Len(chunk) > 3 PROVE FALSE
    <3>1. 3 \in 1..Len(m) /\ 3 <= Len(chunk) /\ 3 \in 1..(Len(chunk) - 1)
      BY <1>3, <2>1, <2>2
    <3>2. chunk[3].msg = m /\ chunk[3].at = 3
      BY <1>2, <3>1 DEF Leads
    <3>3. Last(chunk[3]) /\ Follows(chunk[3], chunk[3 + 1])
      BY <1>1, <2>1, <3>1, <3>2 DEF Last, Flows
    <3>4. First(chunk[4]) /\ 4 \in 1..Len(chunk)
      BY <1>3, <2>2, <3>3 DEF Follows
    <3>5. PICK l : l = Len(chunk[4].msg)
      OBVIOUS
    <3>6. l \in {3, 5}
      <4>1. chunk[4] \in WordOf(c)
        BY <1>1, <1>2, <3>4 DEF WordsKnown, Leads
      <4>2. chunk[4].msg \in Message(c)
        BY <4>1 DEF WordOf, WordIn
      <4>3. IsBeat(chunk[4].msg, c) \/ IsUpdate(chunk[4].msg, c)
        BY <4>2, MessageIs
      <4> QED
        BY <3>5, <4>3 DEF IsBeat, IsUpdate
    <3>7. \A i \in 1..5 : i <= l /\ 4 + (i - 1) <= Len(chunk) =>
             chunk[4 + (i - 1)].msg = chunk[4].msg /\ chunk[4 + (i - 1)].at = i
      BY <1>1, <3>4, <3>5, Heads
    <3>8. CASE Len(chunk) > 5
      <4>1. 4 + (3 - 1) <= Len(chunk) /\ 3 <= l /\ 4 + (3 - 1) = 6
        BY <1>3, <3>6, <3>8
      <4>2. chunk[6].at = 3
        BY <3>7, <4>1
      <4>3. 5 \in 0..Len(chunk) /\ 1 \in 1..(Len(chunk) - 5)
        BY <1>3, <3>8
      <4>4. PICK r : r = SubSeq(chunk, 5 + 1, Len(chunk))
        OBVIOUS
      <4>5. r \in Seq(WordType) /\ Len(r) = Len(chunk) - 5 /\ r[1] = chunk[5 + 1]
        BY <1>1, <4>3, <4>4, Back
      <4>6. r # <<>>
        BY <1>3, <3>8, <4>5
      <4>7. Rest = r
        BY <2>1, <4>4 DEF Rest
      <4> QED
        BY <4>2, <4>5, <4>6, <4>7 DEF First
    <3>9. CASE Len(chunk) = 4
      <4>1. Last(chunk[4]) /\ chunk[4].at = 1
        BY <1>1, <3>4, <3>9 DEF First
      <4> QED
        BY <3>5, <3>6, <4>1 DEF Last
    <3>10. CASE Len(chunk) = 5
      <4>1. 2 <= l /\ 4 + (2 - 1) <= Len(chunk) /\ 4 + (2 - 1) = 5
        BY <3>6, <3>10
      <4>2. chunk[5].msg = chunk[4].msg /\ chunk[5].at = 2
        BY <3>7, <4>1
      <4>3. Last(chunk[5])
        BY <1>1, <3>10
      <4>4. l = 2
        BY <3>5, <4>2, <4>3 DEF Last
      <4> QED
        BY <3>6, <4>4
    <3>11. PICK a : a = Len(chunk) /\ a \in Nat /\ a > 3
      BY <1>3, <2>2
    <3>12. a > 5 \/ a = 4 \/ a = 5
      BY <3>11
    <3> QED
      BY <3>8, <3>9, <3>10, <3>11, <3>12
  <2>3. Len(chunk) = 3
    <3>1. PICK a : a = Len(chunk) /\ a \in Nat /\ 3 <= a
      BY <1>3, <2>1
    <3> QED
      BY <2>2, <3>1
  <2>4. Rest = SubSeq(chunk, 3 + 1, Len(chunk))
    <3>1. SubSeq(chunk, 5 + 1, Len(chunk)) = <<>> /\ SubSeq(chunk, 3 + 1, Len(chunk)) = <<>>
      BY <1>1, <2>3, SubSeqEmpty
    <3> QED
      BY <2>1, <3>1 DEF Rest
  <2>5. 3 \in 1..Len(chunk)
    BY <2>3
  <2> QED
    BY <1>4, <2>1, <2>4, <2>5
<1> QED
  BY <1>2, <1>5, <1>6 DEF Leads

LEMMA SaysOfBoth ==
    ASSUME NEW S, NEW f \in Seq(S), NEW k \in Seq(S), NEW s, NEW x
    PROVE  /\ Silent(f \o k, s) => Silent(f, s) /\ Silent(k, s)
           /\ Says(f \o k, s, x) => Says(k, s, x) \/ (Silent(k, s) /\ Says(f, s, x))
<1>1. PICK u : u = f \o k
  OBVIOUS
<1>2. u \in Seq(S) /\ Len(u) = Len(f) + Len(k)
  BY <1>1, Joined
<1>3. \A i \in 1..Len(f) : i \in 1..Len(u) /\ u[i] = f[i]
  BY <1>1, <1>2, Joined
<1>4. \A i \in 1..Len(k) : Len(f) + i \in 1..Len(u) /\ u[Len(f) + i] = k[i]
  BY <1>1, <1>2, Joined
<1>5. Silent(u, s) => Silent(f, s) /\ Silent(k, s)
  BY <1>3, <1>4 DEF Silent
<1>6. ASSUME Says(u, s, x) PROVE Says(k, s, x) \/ (Silent(k, s) /\ Says(f, s, x))
  <2>1. PICK i \in 1..Len(u) : /\ Of(u[i], s) /\ (u[i].msg[1] = BLOCKADD <=> x)
                               /\ \A j \in (i + 1)..Len(u) : ~Of(u[j], s)
    BY <1>6 DEF Says
  <2>2. CASE i <= Len(f)
    <3>1. \A j \in 1..Len(k) : Len(f) + j \in (i + 1)..Len(u)
      BY <1>2, <2>2
    <3>2. Silent(k, s)
      BY <2>1, <3>1, <1>4 DEF Silent
    <3>3. i \in 1..Len(f) /\ u[i] = f[i]
      BY <1>3, <2>2
    <3>4. \A j \in (i + 1)..Len(f) : j \in (i + 1)..Len(u) /\ u[j] = f[j]
      BY <1>2, <1>3, <2>2
    <3> QED
      BY <2>1, <3>2, <3>3, <3>4 DEF Says
  <2>3. CASE i > Len(f)
    <3>1. PICK j : j = i - Len(f)
      OBVIOUS
    <3>2. j \in 1..Len(k) /\ Len(f) + j = i
      BY <1>2, <2>3, <3>1
    <3>3. u[i] = k[j]
      BY <1>4, <3>2
    <3>4. \A l \in (j + 1)..Len(k) : Len(f) + l \in (i + 1)..Len(u) /\ u[Len(f) + l] = k[l]
      BY <1>2, <1>4, <3>2
    <3> QED
      BY <2>1, <3>2, <3>3, <3>4 DEF Says
  <2> QED
    BY <2>2, <2>3, <1>2
<1> QED
  BY <1>1, <1>5, <1>6

(* Handling takes one message from the front of what is pending, and the   *)
(* directory then agrees with it.                                          *)
LEMMA HandleTold ==
    ASSUME TypeOK, WordsKnown, ChunkWhole, Runs, NEW c \in Client, NEW s \in Seg, Told(c, s),
           Faithful(c)', Handles, messageProcess
    PROVE  Told(c, s)'
<1>1. UNCHANGED <<run, requestFile, held, out, sock, from, newest, overtaken, isP2pOpen>>
  BY DEF Handles, setting, client, connection
<1>2. misread = {} /\ misread' = {} /\ mixed = {} /\ isP2pOpen /\ \A r \in Run : <<c, r>> \notin torn
  BY <1>1 DEF Handles, Faithful, Clean
<1>3. chunk # <<>> /\ First(chunk[1]) /\ from \in Conn /\ [Next]_vars
  BY <1>2 DEF Handles, WordsKnown, Next, ManagerThread
<1>4. chunk \in Seq(WordType) /\ Flows(chunk)
  BY <1>2, <1>3 DEF TypeOK, ChunkWhole
<1>5. CASE from[1] # c
  <2>1. RowsOf(c)' = RowsOf(c)
    BY <1>2, <1>3, <1>5, OwnRowsStep DEF NoConn, Conn
  <2>2. <<c, requestFile[c], s>> \in ivod_seg_t' <=> <<c, requestFile[c], s>> \in ivod_seg_t
    BY <2>1 DEF RowsOf
  <2>3. Pending(c)' = Pending(c)
    BY <1>1, <1>5 DEF Pending
  <2> QED
    BY <1>1, <2>2, <2>3, ToldSame
<1>6. CASE from[1] = c /\ from[2] # run
  <2>1. run # 1
    <3>1. from[2] \in Nat \ {0} /\ from # NoConn /\ run \in Nat
      <4>1. from \in Client \X (1..MaxRuns)
        BY <1>3 DEF Conn, Run
      <4>2. from[2] \in 1..MaxRuns /\ from # <<>>
        <5>1. PICK d \in Client, i \in 1..MaxRuns : from = <<d, i>>
          BY <4>1
        <5> QED
          BY <5>1
      <4>3. run \in 1..MaxRuns /\ MaxRuns \in Nat
        BY StreamAssumption DEF TypeOK, Run
      <4> QED
        BY <4>2, <4>3 DEF NoConn
    <3>2. from[2] <= run
      BY <3>1 DEF Runs
    <3> QED
      BY <1>6, <3>1, <3>2
  <2>2. newest[c] # run
    BY <1>1, <1>3, <1>6, <2>1 DEF Faithful, Runs
  <2>3. Agree(c, s) => Agree(c, s)'
    BY <1>1, <2>1, <2>2 DEF Agree
  <2>4. PICK k : k = Pending(c) /\ k = Pending(c)'
    BY <1>1, <1>6 DEF Pending
  <2> QED
    BY <1>1, <2>3, <2>4 DEF Told
<1>7. CASE from = <<c, run>>
  <2>1. PICK t : t = sock[<<c, run>>]
    OBVIOUS
  <2>2. t \in Seq(WordType)
    BY <2>1, PendingIs
  <2>3. Pending(c) = chunk \o t /\ Pending(c)' = chunk' \o t
    BY <1>1, <1>7, <2>1 DEF Pending
  <2>4. from \notin mixed \cup torn \cup misread
    BY <1>2, <1>7 DEF TypeOK
  <2>5. Type \in {HEARTBEAT, BLOCKADD, BLOCKELIMINATE}
    BY <1>3, <1>4, HeadIs DEF Leads
  <2>6. CASE HandleShort
    <3>1. Pending(c)' = Pending(c) /\ UNCHANGED ivod_seg_t
      BY <2>3, <2>6 DEF HandleShort, directory
    <3> QED
      BY <1>1, <3>1, ToldSame
  <2>7. CASE HandleHeartbeat \/ HandleUpdate
    <3>1. Whole /\ chunk' = Rest
      BY <2>7 DEF HandleHeartbeat, HandleUpdate
    <3>2. Rest # <<>> => First(Rest[1])
      BY <1>1, <1>7, <3>1 DEF Faithful
    <3>3. PICK n \in 1..Len(chunk) : /\ Rest = SubSeq(chunk, n + 1, Len(chunk))
                                     /\ \A i \in 2..n : ~First(chunk[i])
      BY <1>3, <2>4, <3>1, <3>2, ChunkFront
    <3>4. n \in 0..Len(chunk) /\ n \in Nat \ {0}
      BY <1>4
    <3>5. PICK f : f = SubSeq(chunk, 1, n)
      OBVIOUS
    <3>6. f \in Seq(WordType) /\ Len(f) = n /\ \A i \in 1..n : f[i] = chunk[i]
      BY <1>4, <3>4, <3>5, Front
    <3>7. PICK r : r = Rest
      OBVIOUS
    <3>8. r \in Seq(WordType)
      BY <1>4, <3>3, <3>4, <3>7, Back
    <3>9. f \o r = chunk
      <4>1. 1 \in 1..(Len(chunk) + 1) /\ n \in (1 - 1)..Len(chunk) /\ Len(chunk) \in n..Len(chunk)
        BY <1>4, <3>4
      <4>2. SubSeq(chunk, 1, n) \o SubSeq(chunk, n + 1, Len(chunk)) = SubSeq(chunk, 1, Len(chunk))
        BY <1>4, <4>1, ConcatAdjacentSubSeq
      <4>3. SubSeq(chunk, 1, Len(chunk)) = chunk
        BY <1>4, SubSeqFull
      <4> QED
        BY <3>3, <3>5, <3>7, <4>2, <4>3
    <3>10. PICK k : k = r \o t
      OBVIOUS
    <3>11. k \in Seq(WordType)
      BY <2>2, <3>8, <3>10, ConcatProperties
    <3>12. (f \o r) \o t = f \o k
      BY <2>2, <3>6, <3>8, <3>10, ConcatAssociative
    <3>13. Pending(c) = f \o k /\ Pending(c)' = k
      BY <2>3, <3>1, <3>7, <3>9, <3>10, <3>12
    <3>14. \A x : /\ Silent(f \o k, s) => Silent(f, s) /\ Silent(k, s)
                  /\ Says(f \o k, s, x) => Says(k, s, x) \/ (Silent(k, s) /\ Says(f, s, x))
      BY <3>6, <3>11, SaysOfBoth
    <3>15. \A i \in 2..n : ~Of(f[i], s)
      BY <3>3, <3>6 DEF Of
    <3>16. PICK o : o = out[c]["owner"]
      OBVIOUS
    <3>17. PICK x : x = (s \in held[c])
      OBVIOUS
    <3>18. \/ Says(o, s, x)
           \/ Silent(o, s) /\ Says(k, s, x)
           \/ Silent(o, s) /\ Silent(k, s) /\ Says(f, s, x)
           \/ Silent(o, s) /\ Silent(k, s) /\ Silent(f, s) /\ Agree(c, s)
      BY <3>13, <3>14, <3>16, <3>17 DEF Told
    <3>19. ASSUME Says(f, s, x) PROVE Agree(c, s)'
      <4>1. Of(chunk[1], s) /\ (chunk[1].msg[1] = BLOCKADD <=> x)
        BY <3>4, <3>6, <3>15, <3>19 DEF Says
      <4>2. chunk[1].msg[1] = Type /\ chunk[1].msg[4] = s
        BY <1>3, <4>1 DEF Of, First, Type, Val
      <4>3. HandleUpdate
        BY <2>7, <4>1, <4>2 DEF Of, HandleHeartbeat, Reads, HEARTBEAT, BLOCKADD, BLOCKELIMINATE
      <4>4. ivod_seg_t' = IF Type = BLOCKADD
                          THEN ivod_seg_t \cup {<<c, requestFile[c], s>>}
                          ELSE ivod_seg_t \ {<<c, requestFile[c], s>>}
        BY <1>3, <1>4, <1>7, <4>2, <4>3, UpdateRow
      <4>5. s \in Listed(c)' <=> s \in held[c]
        BY <1>1, <3>17, <4>1, <4>2, <4>4 DEF Listed
      <4>6. run = 1 \/ newest[c] = run
        BY <1>1, <1>3, <1>7 DEF Faithful, Runs
      <4> QED
        BY <1>1, <4>5, <4>6 DEF Agree
    <3>20. ASSUME Silent(f, s), Agree(c, s) PROVE Agree(c, s)'
      <4>1. ~Of(chunk[1], s)
        BY <3>4, <3>6, <3>20 DEF Silent
      <4>2. <<c, requestFile[c], s>> \in ivod_seg_t' <=> <<c, requestFile[c], s>> \in ivod_seg_t
        <5>1. CASE HandleHeartbeat
          BY <5>1 DEF HandleHeartbeat
        <5>2. CASE HandleUpdate
          <6>1. PICK a : /\ Type = chunk[1].msg[1] /\ a = chunk[1].msg[4]
                         /\ Type \in {BLOCKADD, BLOCKELIMINATE}
                         /\ ivod_seg_t' = IF Type = BLOCKADD
                                          THEN ivod_seg_t \cup {<<c, requestFile[c], a>>}
                                          ELSE ivod_seg_t \ {<<c, requestFile[c], a>>}
            BY <1>3, <1>4, <1>7, <5>2, UpdateRow
          <6>2. a # s
            BY <1>3, <4>1, <6>1 DEF Of
          <6> QED
            BY <6>1, <6>2
        <5> QED
          BY <2>7, <5>1, <5>2
      <4> QED
        BY <1>1, <3>20, <4>2 DEF Agree, Listed
    <3>21. \/ Says(o, s, x)
           \/ Silent(o, s) /\ Says(k, s, x)
           \/ Silent(o, s) /\ Silent(k, s) /\ Agree(c, s)'
      BY <3>18, <3>19, <3>20
    <3> QED
      BY <1>1, <3>13, <3>16, <3>17, <3>21 DEF Told
  <2>8. HandleShort \/ HandleHeartbeat \/ HandleUpdate
    <3>1. Type \in MessageType /\ Type \notin {CLIENTQUIT, REQUESTRESOURCE, REQUESTSEGMENT, REQUESTSEGMENTAGAIN}
      BY <2>5 DEF MessageType, HEARTBEAT, BLOCKADD, BLOCKELIMINATE, CLIENTQUIT, REQUESTRESOURCE,
                  REQUESTSEGMENT, REQUESTSEGMENTAGAIN
    <3>2. ~HandleQuit /\ ~HandleResource /\ ~HandleSegment
      BY <3>1 DEF HandleQuit, HandleResource, HandleSegment, Reads
    <3>3. ~IgnoreUpdate /\ ~WrongMessage /\ ~CloseQuit
      BY <1>2, <1>3, <3>1 DEF IgnoreUpdate, WrongMessage, CloseQuit
    <3> QED
      BY <3>2, <3>3 DEF messageProcess
  <2> QED
    BY <2>6, <2>7, <2>8
<1> QED
  BY <1>3, <1>5, <1>6, <1>7 DEF Conn

LEMMA DirectoryStep ==
    ASSUME TypeOK, WordsKnown, ChunkWhole, Runs, PeersSilent, DirectoryFollows, [Next]_vars
    PROVE  DirectoryFollows'
<1> SUFFICES ASSUME NEW c \in Client, Faithful(c)', NEW s \in Seg
             PROVE  Told(c, s)'
  BY DEF DirectoryFollows
<1>1. CASE Restart
  BY <1>1, RestartTold
<1>2. CASE ~Restart
  <2>1. Told(c, s)
    BY <1>2, FaithfulBefore DEF DirectoryFollows
  <2>2. CASE Handles /\ messageProcess
    BY <2>1, <2>2, HandleTold
  <2>3. ASSUME NEW q \in Conn, Recv(q) PROVE Told(c, s)'
    BY <2>1, <2>3, RecvTold
  <2>4. ASSUME NEW d \in Client, sendCurrentLoad(d) \/ sendAddedBlock(d) \/ sendEliminateBlock(d)
        PROVE  Told(c, s)'
    BY <2>1, <2>4, BeginTold
  <2>5. ASSUME NEW d \in Client, NEW w \in Writer, writen(d, w) PROVE Told(c, s)'
    BY <2>1, <2>5, writenTold
  <2>6. ~ClientExit
    BY DEF ClientExit, Faithful
  <2>7. CASE CloseQuit \/ UNCHANGED vars \/ \E q \in Conn : RecvEnd(q)
    <3>1. UNCHANGED <<run, requestFile, held, out, sock, from, chunk, newest, ivod_seg_t>>
      BY <2>7 DEF CloseQuit, RecvEnd, vars, setting, client, connection, reading, directory, history
    <3>2. Pending(c)' = Pending(c)
      BY <3>1 DEF Pending
    <3> QED
      BY <2>1, <3>1, <3>2, ToldSame
  <2> QED
    BY <1>2, <2>2, <2>3, <2>4, <2>5, <2>6, <2>7, HandlerFrame DEF Next, ManagerThread, ClientProcess
<1> QED
  BY <1>1, <1>2

-----------------------------------------------------------------------------
(* The invariant holds of every behaviour. *)
LEMMA InitInv == Init => Inv
<1> SUFFICES ASSUME Init PROVE Inv
  OBVIOUS
<1>1. TypeOK
  BY TypeInit
<1>2. run = 1 /\ clientUp = TRUE /\ from = NoConn /\ chunk = <<>> /\ quit = 0 /\ serverUp = TRUE
  BY DEF Init
<1>3. \A c \in Client : held[c] = {} /\ ever[c] = {} /\ newest[c] = 0
  BY DEF Init
<1>4. \A c \in Client : \A w \in Writer : out[c][w] = <<>>
  BY DEF Init
<1>5. \A q \in Conn : sock[q] = <<>>
  BY DEF Init
<1>6. ivod_seg_t = {} /\ torn = {} /\ misread = {} /\ mixed = {} /\ overtaken = {}
  BY DEF Init
<1>7. open = Client \X {1} /\ 1 \in Run
  BY StreamAssumption DEF Init, Run
<1>8. \A c \in Client : <<c, run>> \in Conn
  BY <1>2, <1>7 DEF Conn
<1>9. WordsKnown
  <2>1. \A S : <<>> \in Seq(S)
    OBVIOUS
  <2> QED
    BY <1>2, <1>4, <1>5, <2>1 DEF WordsKnown
<1>10. WritersTakeTurns
  <2>1. \A c \in Client : \A w \in Writer : Flows(out[c][w]) /\ ~Cut(c, w)
    BY <1>4 DEF Flows, Cut
  <2>2. \A c \in Client : sock[<<c, run>>] = <<>>
    BY <1>5, <1>8
  <2> QED
    BY <1>4, <2>1, <2>2 DEF WritersTakeTurns
<1>11. Streams
  <2>1. \A q \in Conn : q[1] \in Client
    BY DEF Conn
  <2> QED
    BY <1>4, <1>5, <1>6, <2>1 DEF Streams, Flows, Cut
<1>12. ChunkWhole
  BY <1>2 DEF ChunkWhole
<1>13. Runs
  <2>1. \A q \in Conn : q[2] > run => q \notin open
    BY <1>2, <1>7
  <2> QED
    BY <1>2, <1>3, <1>5, <1>6, <2>1 DEF Runs
<1>14. RowsWereTrue
  BY <1>6 DEF RowsWereTrue
<1>15. SafeConnection
  BY <1>2 DEF SafeConnection
<1>16. PeersSilent
  BY <1>4 DEF PeersSilent, Silent, Writer
<1>17. DirectoryFollows
  <2> SUFFICES ASSUME NEW c \in Client, NEW s \in Seg PROVE Told(c, s)
    BY DEF DirectoryFollows
  <2>1. out[c]["owner"] = <<>> /\ Pending(c) = <<>>
    BY <1>1, <1>2, <1>4, <1>5, <1>8, PendingIs DEF Writer
  <2>2. Agree(c, s)
    BY <1>2, <1>3, <1>6 DEF Agree, Listed
  <2>3. Silent(<<>>, s)
    BY DEF Silent
  <2> QED
    BY <2>1, <2>2, <2>3 DEF Told
<1> QED
  BY <1>1, <1>9, <1>10, <1>11, <1>12, <1>13, <1>14, <1>15, <1>16, <1>17 DEF Inv

LEMMA StepInv == Inv /\ [Next]_vars => Inv'
<1> SUFFICES ASSUME Inv, [Next]_vars PROVE Inv'
  OBVIOUS
<1>1. /\ TypeOK /\ WordsKnown /\ WritersTakeTurns /\ Streams /\ ChunkWhole /\ Runs
      /\ RowsWereTrue /\ SafeConnection /\ PeersSilent /\ DirectoryFollows
  BY DEF Inv
<1>2. chunk # <<>> => from \in Conn
  BY <1>1 DEF WordsKnown
<1>3. TypeOK'
  BY <1>1, <1>2, TypeStep
<1>4. WordsKnown' /\ Runs'
  BY <1>1, KnownStep, RunsStep
<1>5. WritersTakeTurns' /\ Streams'
  BY <1>1, <1>3, StreamsStep
<1>6. ChunkWhole'
  BY <1>1, ChunkStep
<1>7. RowsWereTrue' /\ SafeConnection'
  BY <1>1, RowsStep, SafeStep
<1>8. PeersSilent' /\ DirectoryFollows'
  BY <1>1, PeersStep, DirectoryStep
<1> QED
  BY <1>3, <1>4, <1>5, <1>6, <1>7, <1>8 DEF Inv

(* The inductive invariant holds in every state: the streams are whole     *)
(* messages one behind the other except where the history says otherwise,  *)
(* and the directory follows the buffers as far as the streams allow.      *)
THEOREM StreamInvariant == Spec => []Inv
<1>1. Init => Inv
  BY InitInv
<1>2. Inv /\ [Next]_vars => Inv'
  BY StepInv
<1> QED
  BY <1>1, <1>2, PTL DEF Spec

(* Every variable holds a value of its type: above all, no more words are  *)
(* on a connection than its socket buffers hold, and only words that were  *)
(* written are ever read (lib/sock.cpp writen, Server::readPacket).        *)
THEOREM TypesKept == Spec => []TypeOK
<1>1. Inv => TypeOK
  BY DEF Inv
<1> QED
  BY <1>1, StreamInvariant, PTL

(* Whatever the pieces in which the streams are received, a row of the     *)
(* directory names a client, its video and a segment it has held, as long  *)
(* as no word inside a message was taken for a type (the 5 words by which  *)
(* messageProcess leaves a heartbeat of 3) and no write was begun inside   *)
(* another thread's message (writen has no lock).                          *)
THEOREM RowsAreTrue == Spec => []RowsWereTrue
<1>1. Inv => RowsWereTrue
  BY DEF Inv
<1> QED
  BY <1>1, StreamInvariant, PTL

(* A client whose video's number and bands are above the message types     *)
(* neither ends the server nor has its connection closed by it, although   *)
(* the server looks for the next message in the wrong place, unless a recv *)
(* was cut inside a message (messageProcess's exit on a short read).       *)
THEOREM LargeNumbersAreSafe == Spec => []SafeConnection
<1>1. Inv => SafeConnection
  BY DEF Inv
<1> QED
  BY <1>1, StreamInvariant, PTL

(* No message handled by messageProcess changes the rows or the band of    *)
(* another client than the one it came from, unless its connection was     *)
(* misread or two threads' messages were mixed on it.                      *)
THEOREM OnlyOwnRows == Spec => OwnRowsOnly
<1>1. Inv /\ [Next]_vars =>
         [\A c \in Client :
             from # NoConn /\ from[1] # c /\ from \notin mixed \cup misread'
             => RowsOf(c)' = RowsOf(c)
                /\ (c \in DOMAIN client_info => client_info'[c] = client_info[c])]_vars
  <2> SUFFICES ASSUME Inv, [Next]_vars, NEW c \in Client,
                      from # NoConn, from[1] # c, from \notin mixed \cup misread'
               PROVE  /\ RowsOf(c)' = RowsOf(c)
                      /\ c \in DOMAIN client_info => client_info'[c] = client_info[c]
    OBVIOUS
  <2> QED
    BY OwnRowsStep DEF Inv
<1> QED
  BY <1>1, StreamInvariant, PTL DEF Spec, OwnRowsOnly

(* When all a client sent has been handled and its streams were whole, the *)
(* directory lists exactly what it holds in its first run, and in a later  *)
(* one at least what it holds and only what it has held: no message of     *)
(* sendAddedBlock or sendEliminateBlock is lost, doubled or overtaken on   *)
(* the way through writen, recv and messageProcess.                        *)
THEOREM NoUpdateLost == Spec => []NothingLost
<1>1. Inv => NothingLost
  <2> SUFFICES ASSUME Inv, NEW c \in Client, isP2pOpen, clientUp, serverUp, Quiet(c), Clean(c)
               PROVE  /\ run = 1 => Listed(c) = held[c]
                      /\ c \notin overtaken => held[c] \subseteq Listed(c)
                      /\ Listed(c) \subseteq ever[c]
    BY DEF NothingLost
  <2>1. TypeOK /\ RowsWereTrue /\ DirectoryFollows
    BY DEF Inv
  <2>2. Listed(c) \subseteq ever[c]
    BY <2>1 DEF RowsWereTrue, Clean, Listed
  <2>3. chunk = <<>> /\ out[c]["owner"] = <<>> /\ sock[<<c, run>>] = <<>>
    BY <2>1 DEF Quiet, Writer, TypeOK
  <2>4. Pending(c) = <<>>
    BY <2>1, <2>3, PendingIs
  <2>5. ASSUME run = 1 \/ c \notin overtaken, NEW s \in Seg PROVE Agree(c, s)
    <3>1. Faithful(c)
      BY <2>3, <2>5 DEF Faithful
    <3>2. Told(c, s)
      BY <2>1, <3>1 DEF DirectoryFollows
    <3>3. ~Says(<<>>, s, s \in held[c])
      BY DEF Says
    <3> QED
      BY <2>3, <2>4, <3>2, <3>3 DEF Told
  <2>6. held[c] \subseteq Seg /\ Listed(c) \subseteq Seg
    BY <2>1 DEF TypeOK, Listed
  <2>7. run = 1 => Listed(c) = held[c]
    BY <2>5, <2>6 DEF Agree
  <2>8. c \notin overtaken => held[c] \subseteq Listed(c)
    BY <2>5, <2>6 DEF Agree
  <2> QED
    BY <2>2, <2>7, <2>8
<1> QED
  BY <1>1, StreamInvariant, PTL
=============================================================================
