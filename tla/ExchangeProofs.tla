--------------------------- MODULE ExchangeProofs ---------------------------
(***************************************************************************)
(* Proofs about Exchange, for every word size above 8 and every number of  *)
(* requests: a connection that moves words in any parts is a slot for a    *)
(* request and a slot for its reply.                                       *)
(***************************************************************************)
EXTENDS Exchange, SequenceTheorems, TLAPS

(* Words of the request that the server has not handled yet.               *)
Pending == Len(out) + Len(toServer) + Len(chunk)

(* While the client waits for the reply to a request that was handled, it  *)
(* has read, and there is under way to it, the reply's first part, and the *)
(* rest is still to be sent; at other times nothing comes.                 *)
Arriving == Len(got) + Len(toClient) + (IF spc = "send" THEN bytesLen ELSE 0)
Between ==
    IF cpc = "read" /\ Pending = 0
    THEN /\ answer \in Answers(kind) /\ Arriving = ReplySize(answer)
         /\ \A n \in 1..(Len(got) + Len(toClient)) : (got \o toClient)[n] = Reply[n]
    ELSE toClient = <<>> /\ spc # "send" /\ (cpc = "read" => got = <<>>)

IInv ==
    /\ TypeOK
    /\ cpc = "write" <=> out # <<>>
    /\ Pending \in {0, RequestSize(kind)} /\ (cpc = "idle" => Pending = 0)
    /\ spc # "recv" => chunk = <<>>
    /\ clientUp => conn = "open"
    /\ spc = "send" /\ conn # "shut" => bytesLen > 0 /\ offset + bytesLen = ReplySize(answer)
    /\ clientUp => Between

-----------------------------------------------------------------------------
(* Taking a part of a sequence leaves the rest. *)
LEMMA Split ==
    ASSUME NEW S, NEW s \in Seq(S), NEW n \in 1..Len(s)
    PROVE  /\ Front(s, n) \in Seq(S) /\ Behind(s, n) \in Seq(S)
           /\ Len(Front(s, n)) = n /\ Len(Behind(s, n)) = Len(s) - n
           /\ Front(s, n) \o Behind(s, n) = s
<1>1. Len(s) \in Nat /\ n \in Nat /\ n >= 1 /\ n <= Len(s) /\ \A j \in 1..Len(s) : s[j] \in S
  BY LenProperties
<1>2. Front(s, n) \in Seq(S) /\ Len(Front(s, n)) = n /\ \A j \in 1..n : Front(s, n)[j] = s[j]
  <2>1. \A j \in 1..n : s[j] \in S
    BY <1>1
  <2> QED
    BY <1>1, <2>1, SubSeqProperties DEF Front
<1>3. /\ Behind(s, n) \in Seq(S) /\ Len(Behind(s, n)) = Len(s) - n
      /\ \A j \in 1..(Len(s) - n) : Behind(s, n)[j] = s[n + j]
  <2>1. \A j \in (n + 1)..Len(s) : s[j] \in S
    BY <1>1
  <2> QED
    BY <1>1, <2>1, SubSeqProperties DEF Behind
<1>4. Front(s, n) \o Behind(s, n) = s
  <2> DEFINE t == Front(s, n) \o Behind(s, n)
  <2>1. /\ t \in Seq(S) /\ Len(t) = Len(s)
        /\ \A j \in 1..Len(s) : t[j] = IF j <= n THEN Front(s, n)[j] ELSE Behind(s, n)[j - n]
    BY <1>1, <1>2, <1>3, ConcatProperties
  <2>2. \A j \in 1..Len(s) : t[j] = s[j]
    BY <1>1, <1>2, <1>3, <2>1
  <2> HIDE DEF t
  <2>3. t = s
    BY <2>1, <2>2, SeqEqual
  <2> QED
    BY <2>3 DEF t
<1> QED
  BY <1>2, <1>3, <1>4

LEMMA Part ==
    ASSUME NEW S, NEW s \in Seq(S), NEW o \in Nat, NEW n \in Nat, n >= 1, o + n <= Len(s)
    PROVE  /\ SubSeq(s, o + 1, o + n) \in Seq(S) /\ Len(SubSeq(s, o + 1, o + n)) = n
           /\ \A j \in 1..n : SubSeq(s, o + 1, o + n)[j] = s[o + j]
<1>1. Len(s) \in Nat /\ \A j \in 1..Len(s) : s[j] \in S
  BY LenProperties
<1>2. \A j \in (o + 1)..(o + n) : s[j] \in S
  BY <1>1
<1> QED
  BY <1>2, SubSeqProperties

(* A part that passes from one sequence to another keeps its place. *)
LEMMA Regrouped ==
    ASSUME NEW S, NEW r \in Seq(S), NEW s \in Seq(S), NEW t \in Seq(S)
    PROVE  /\ r \o s \in Seq(S) /\ Len(r \o s) = Len(r) + Len(s)
           /\ (r \o s) \o t = r \o (s \o t)
BY ConcatAssociative, ConcatProperties

LEMMA Passing ==
    ASSUME NEW S, NEW r \in Seq(S), NEW s \in Seq(S), NEW n \in 1..Len(s)
    PROVE  /\ r \o Front(s, n) \in Seq(S) /\ Len(r \o Front(s, n)) = Len(r) + n
           /\ (r \o Front(s, n)) \o Behind(s, n) = r \o s
<1>1. /\ Front(s, n) \in Seq(S) /\ Behind(s, n) \in Seq(S)
      /\ Len(Front(s, n)) = n /\ Front(s, n) \o Behind(s, n) = s
  BY Split
<1>2. PICK x \in Seq(S), y \in Seq(S) : x = Front(s, n) /\ y = Behind(s, n)
  BY <1>1
<1>3. r \o x \in Seq(S) /\ Len(r \o x) = Len(r) + Len(x) /\ (r \o x) \o y = r \o (x \o y)
  BY Regrouped
<1> QED
  BY <1>1, <1>2, <1>3

LEMMA MessageType ==
    ASSUME NEW m \in Nat \X Names, NEW n \in Nat
    PROVE  /\ Message(m, n) \in Seq(Words) /\ Len(Message(m, n)) = n
           /\ \A j \in 1..n : Message(m, n)[j] = [of |-> m, part |-> j]
BY DEF Message, Words

(* How long messages are. *)
LEMMA Sizes ==
    /\ \A k \in Kind : RequestSize(k) \in {4, 5} /\ k \in Names /\ k # None
    /\ \A k \in Kind : \A a \in Answers(k) :
          /\ ReplySize(a) \in {3, 6} /\ a \in Names /\ a # None
          /\ ReplySize(a) = ReplySize(IF k = "resource" THEN "info" ELSE "server")
<1>1. \A k \in Kind : RequestSize(k) \in {4, 5} /\ k \in Names /\ k # None
  BY DEF Kind, RequestSize, None, Names
<1>2. \A k \in Kind : /\ k = "resource" => Answers(k) = {"info"}
                      /\ k # "resource" => Answers(k) \subseteq {"server", "peer"}
  BY DEF Kind, Answers
<1>3. /\ ReplySize("info") = 6 /\ ReplySize("server") = 3 /\ ReplySize("peer") = 3
      /\ \A a \in {"info", "server", "peer"} : a # None
  BY DEF ReplySize, None
<1>4. ASSUME NEW k \in Kind, NEW a \in Answers(k)
      PROVE  /\ ReplySize(a) \in {3, 6} /\ a \in Names /\ a # None
             /\ ReplySize(a) = ReplySize(IF k = "resource" THEN "info" ELSE "server")
  <2>1. a \in Names
    BY DEF Names
  <2>2. CASE k = "resource"
    BY <2>1, <2>2, <1>2, <1>3
  <2>3. CASE k # "resource"
    BY <2>1, <2>3, <1>2, <1>3
  <2> QED
    BY <2>2, <2>3
<1> QED
  BY <1>1, <1>4

LEMMA Numbers ==
    ASSUME NEW o \in Nat, NEW b \in Nat, NEW n \in 1..b, o + b < Word
    PROVE  (o + n) % Word = o + n /\ (b + Word - n) % Word = b - n
<1>1. Word \in Nat \ {0} /\ \A x \in 0..(Word - 1) : x % Word = x
  BY ExchangeAssumption
<1>2. \A x \in 0..(Word - 1) : (x + Word) % Word = x
  BY <1>1
<1>3. b + Word - n = (b - n) + Word /\ o + n \in 0..(Word - 1) /\ b - n \in 0..(Word - 1)
  BY <1>1
<1> QED
  BY <1>1, <1>2, <1>3

(* The types in parts. *)
LEMMA Types ==
    TypeOK => /\ \A w \in {out, got, toServer, toClient, chunk} : w \in Seq(Words)
              /\ Len(out) \in Nat /\ Len(got) \in Nat /\ Len(toServer) \in Nat
              /\ Len(toClient) \in Nat /\ Len(chunk) \in Nat /\ Pending \in Nat
              /\ kind \in Kind /\ answer \in Names
              /\ asked \in Nat /\ offset \in Nat /\ bytesLen \in Nat
              /\ <<asked, answer>> \in Nat \X Names
<1> SUFFICES ASSUME TypeOK
    PROVE     /\ \A w \in {out, got, toServer, toClient, chunk} : w \in Seq(Words)
              /\ Len(out) \in Nat /\ Len(got) \in Nat /\ Len(toServer) \in Nat
              /\ Len(toClient) \in Nat /\ Len(chunk) \in Nat /\ Pending \in Nat
              /\ kind \in Kind /\ answer \in Names
              /\ asked \in Nat /\ offset \in Nat /\ bytesLen \in Nat
              /\ <<asked, answer>> \in Nat \X Names
  OBVIOUS
<1>1. \A w \in {out, got, toServer, toClient, chunk} : w \in Seq(Words)
  BY DEF TypeOK
<1>2. /\ Len(out) \in Nat /\ Len(got) \in Nat /\ Len(toServer) \in Nat
      /\ Len(toClient) \in Nat /\ Len(chunk) \in Nat
  BY <1>1, LenProperties
<1>3. kind \in Kind /\ answer \in Names
  BY DEF TypeOK, Names
<1>4. asked \in Nat /\ offset \in Nat /\ bytesLen \in Nat
  BY ExchangeAssumption DEF TypeOK
<1>5. Pending \in Nat
  BY <1>2 DEF Pending
<1>6. <<asked, answer>> \in Nat \X Names
  BY <1>3, <1>4
<1> QED
  BY <1>1, <1>2, <1>3, <1>4, <1>5, <1>6

LEMMA ReplyType ==
    TypeOK => Reply \in Seq(Words) /\ Len(Reply) = ReplySize(answer)
<1> SUFFICES ASSUME TypeOK PROVE Reply \in Seq(Words) /\ Len(Reply) = ReplySize(answer)
  OBVIOUS
<1>1. PICK m \in Nat \X Names : m = <<asked, answer>>
  BY Types
<1>2. PICK n \in Nat : n = ReplySize(answer)
  BY Sizes DEF TypeOK
<1>3. Message(m, n) \in Seq(Words) /\ Len(Message(m, n)) = n
  BY MessageType
<1> QED
  BY <1>1, <1>2, <1>3 DEF Reply

LEMMA InitInv == Init => IInv
<1> SUFFICES ASSUME Init PROVE IInv
  OBVIOUS
<1> USE DEF Init
<1>1. <<>> \in Seq(Words) /\ Len(<<>>) = 0
  BY EmptySeq
<1>2. answer \in UNION {Answers(k) : k \in Kind}
  BY DEF Kind, Answers
<1>3. TypeOK
  BY <1>1, <1>2, ExchangeAssumption DEF TypeOK, Kind
<1>4. Pending = 0
  BY <1>1 DEF Pending
<1>5. Between
  BY DEF Between
<1> QED
  BY <1>3, <1>4, <1>5 DEF IInv

-----------------------------------------------------------------------------
(* The steps. *)
LEMMA AskStep == ASSUME IInv, NEW k \in Kind, Ask(k) PROVE IInv'
<1> USE DEF Ask, server, wires
<1> DEFINE m == <<asked + 1, k>>
<1>1. asked + 1 \in 0..MaxRequests /\ asked + 1 \in Nat
  BY ExchangeAssumption DEF IInv, TypeOK
<1>2. m \in Nat \X Names
  BY <1>1, Sizes
<1>3. RequestSize(k) \in {4, 5} /\ out' = Message(m, RequestSize(k))
  BY Sizes
<1>4. out' \in Seq(Words) /\ Len(out') = RequestSize(k)
  BY <1>2, <1>3, MessageType
<1>5. TypeOK'
  BY <1>1, <1>4 DEF IInv, TypeOK
<1>6. out' # <<>>
  BY <1>3, <1>4, EmptySeq
<1>7. Pending' = RequestSize(kind')
  <2>1. Pending = 0 /\ Len(out) \in Nat /\ Len(toServer) \in Nat /\ Len(chunk) \in Nat
    BY Types DEF IInv
  <2> QED
    BY <2>1, <1>3, <1>4 DEF Pending
<1>8. clientUp' => Between'
  <2>1. toClient = <<>> /\ spc # "send"
    BY DEF IInv, Between
  <2> QED
    BY <2>1 DEF Between
<1> QED
  BY <1>5, <1>6, <1>7, <1>8 DEF IInv

LEMMA writenStep == ASSUME IInv, writen PROVE IInv'
<1> USE DEF writen, server
<1>1. PICK n \in 1..Len(out) : toServer' = toServer \o Front(out, n) /\ out' = Behind(out, n)
  OBVIOUS
<1>2. /\ out \in Seq(Words) /\ toServer \in Seq(Words)
      /\ Len(out) \in Nat /\ Len(toServer) \in Nat /\ Len(chunk) \in Nat
  BY Types DEF IInv
<1>3. /\ Front(out, n) \in Seq(Words) /\ Len(Front(out, n)) = n
      /\ out' \in Seq(Words) /\ Len(out') = Len(out) - n
  BY <1>1, <1>2, Split
<1>4. toServer' \in Seq(Words) /\ Len(toServer') = Len(toServer) + n
  BY <1>1, <1>2, <1>3, ConcatProperties
<1>5. TypeOK'
  BY <1>3, <1>4, EmptySeq DEF IInv, TypeOK
<1>6. Pending' = Pending /\ Pending # 0
  BY <1>2, <1>3, <1>4 DEF Pending
<1>7. clientUp' => Between'
  BY <1>6 DEF IInv, Between
<1> QED
  BY <1>5, <1>6, <1>7 DEF IInv

LEMMA readnStep == ASSUME IInv, readn PROVE IInv'
<1> USE DEF readn, server
<1>1. PICK n \in 1..Len(toClient) : /\ got' = got \o Front(toClient, n)
                                   /\ toClient' = Behind(toClient, n)
  OBVIOUS
<1>2. /\ got \in Seq(Words) /\ toClient \in Seq(Words)
      /\ Len(got) \in Nat /\ Len(toClient) \in Nat /\ Len(out) \in Nat
      /\ bytesLen \in Nat /\ Pending \in Nat
  BY Types DEF IInv
<1>3. /\ Front(toClient, n) \in Seq(Words) /\ Len(Front(toClient, n)) = n
      /\ toClient' \in Seq(Words) /\ Len(toClient') = Len(toClient) - n
      /\ Front(toClient, n) \o toClient' = toClient
  BY <1>1, <1>2, Split
<1>4. got' \in Seq(Words) /\ Len(got') = Len(got) + n /\ got' \o toClient' = got \o toClient
  BY <1>1, <1>2, Passing
<1>5. TypeOK'
  BY <1>3, <1>4 DEF IInv, TypeOK
<1>6. toClient # <<>>
  BY <1>1, <1>2, EmptySeq
<1>7. Between /\ Pending = 0 /\ Pending' = 0
  BY <1>6 DEF IInv, Between, Pending
<1>8. /\ answer \in Answers(kind) /\ Arriving = ReplySize(answer)
      /\ \A j \in 1..(Len(got) + Len(toClient)) : (got \o toClient)[j] = Reply[j]
  BY <1>7 DEF Between
<1>9. Reply' = Reply
  BY DEF Reply
<1>10. ASSUME cpc' = "read" PROVE Between'
  <2>1. Len(got') + Len(toClient') = Len(got) + Len(toClient)
    BY <1>2, <1>3, <1>4
  <2>2. Arriving' = Arriving
    BY <2>1, <1>2, <1>3, <1>4 DEF Arriving
  <2> QED
    BY <2>1, <2>2, <1>4, <1>7, <1>8, <1>9, <1>10 DEF Between
<1>11. ASSUME cpc' = "idle" PROVE Between'
  <2>1. Len(got') = ReplySize(answer)
    BY <1>8, <1>11, Sizes DEF ReadAll, IInv, TypeOK
  <2>2. Len(toClient') = 0 /\ spc # "send"
    BY <2>1, <1>2, <1>3, <1>4, <1>8 DEF Arriving, IInv
  <2>3. toClient' = <<>>
    BY <2>2, <1>3, EmptySeq
  <2> QED
    BY <2>2, <2>3, <1>11 DEF Between
<1>12. Between'
  BY <1>10, <1>11
<1> QED
  BY <1>5, <1>7, <1>12 DEF IInv

LEMMA EndStep == ASSUME IInv, clientUp, End PROVE IInv'
<1> USE DEF End, client, server, wires
<1>1. TypeOK'
  BY DEF IInv, TypeOK
<1>2. Pending' = Pending
  BY DEF Pending
<1>3. conn # "shut"
  BY DEF IInv
<1> QED
  BY <1>1, <1>2, <1>3 DEF IInv

LEMMA RecvStep == ASSUME IInv, Recv PROVE IInv'
<1> USE DEF Recv, client
<1>1. PICK n \in 1..Len(toServer) : /\ chunk' = Front(toServer, n)
                                   /\ toServer' = Behind(toServer, n)
  OBVIOUS
<1>2. /\ toServer \in Seq(Words) /\ chunk = <<>>
      /\ Len(out) \in Nat /\ Len(toServer) \in Nat /\ Len(chunk) = 0
  BY Types, EmptySeq DEF IInv
<1>3. /\ chunk' \in Seq(Words) /\ Len(chunk') = n
      /\ toServer' \in Seq(Words) /\ Len(toServer') = Len(toServer) - n
  BY <1>1, <1>2, Split
<1>4. TypeOK'
  BY <1>3 DEF IInv, TypeOK
<1>5. Pending' = Pending /\ Pending # 0
  BY <1>2, <1>3 DEF Pending
<1>6. clientUp' => Between'
  BY <1>5 DEF IInv, Between
<1> QED
  BY <1>4, <1>5, <1>6 DEF IInv

(* A whole request is all that is under way. *)
LEMMA WholeRequest ==
    ASSUME IInv, messageProcess
    PROVE  /\ cpc = "read" /\ Pending # 0 /\ out = <<>> /\ toServer = <<>>
           /\ chunk # <<>> /\ chunk' = <<>>
<1>1. /\ chunk \in Seq(Words) /\ out \in Seq(Words) /\ toServer \in Seq(Words)
      /\ kind \in Kind
      /\ Len(out) \in Nat /\ Len(toServer) \in Nat /\ Len(chunk) \in Nat
  BY Types DEF IInv
<1>2. RequestSize(kind) \in {4, 5} /\ Len(chunk) >= RequestSize(kind) /\ chunk # <<>>
  BY <1>1, Sizes DEF messageProcess, Whole
<1>3. Len(chunk) = RequestSize(kind) /\ Len(out) = 0 /\ Len(toServer) = 0 /\ Pending # 0
  BY <1>1, <1>2 DEF IInv, Pending
<1>4. out = <<>> /\ toServer = <<>> /\ cpc = "read"
  BY <1>1, <1>3, EmptySeq DEF IInv, TypeOK
<1>5. chunk' = <<>>
  <2>1. Len(chunk) \in 1..Len(chunk) /\ chunk' = Behind(chunk, Len(chunk))
    BY <1>1, <1>2, <1>3 DEF messageProcess
  <2>2. chunk' \in Seq(Words) /\ Len(chunk') = 0
    BY <2>1, <1>1, Split
  <2> QED
    BY <2>2, EmptySeq
<1> QED
  BY <1>2, <1>3, <1>4, <1>5

LEMMA messageProcessStep == ASSUME IInv, messageProcess PROVE IInv'
<1> USE DEF messageProcess, client, wires
<1>1. /\ cpc = "read" /\ Pending # 0 /\ out = <<>> /\ toServer = <<>>
      /\ chunk' = <<>> /\ chunk' \in Seq(Words) /\ Len(<<>>) = 0 /\ kind \in Kind
  BY WholeRequest, EmptySeq, Types DEF IInv
<1>2. ReplySize(answer') \in {3, 6}
  BY <1>1, Sizes
<1>6. answer' \in UNION {Answers(k) : k \in Kind}
  BY <1>1
<1>7. 0 \in 0..(Word - 1) /\ ReplySize(answer') \in 0..(Word - 1)
  BY <1>2, ExchangeAssumption
<1>8. TypeOK'
  BY <1>1, <1>6, <1>7 DEF IInv, TypeOK
<1>9. Pending' = 0
  BY <1>1 DEF Pending
<1>10. ASSUME clientUp PROVE Between'
  <2>1. toClient = <<>> /\ got = <<>> /\ Len(got) = 0 /\ Len(toClient) = 0
    BY <1>1, <1>10, EmptySeq DEF IInv, Between
  <2>2. Arriving' = ReplySize(answer')
    BY <2>1, <1>2 DEF Arriving
  <2>3. \A n \in 1..(Len(got') + Len(toClient')) : (got' \o toClient')[n] = Reply'[n]
    BY <2>1
  <2> QED
    BY <2>2, <2>3, <1>1, <1>9 DEF Between
<1> QED
  BY <1>1, <1>2, <1>8, <1>9, <1>10 DEF IInv

LEMMA SendStep == ASSUME IInv, Send PROVE IInv'
<1>1. PICK n \in 1..bytesLen : Sent(n) /\ toClient' = toClient \o Slice(n)
  BY DEF Send
<1>14. /\ spc = "send" /\ conn \in {"open", "fin"} /\ serverUp' = serverUp
       /\ conn' \in {"open", "fin", "reset"} /\ (conn = "open" => conn' = "open")
  BY DEF Send
<1>2. /\ got \in Seq(Words) /\ toClient \in Seq(Words)
      /\ Len(got) \in Nat /\ Len(toClient) \in Nat /\ Pending \in Nat
      /\ offset \in Nat /\ bytesLen \in Nat /\ n \in Nat /\ n <= bytesLen
  BY <1>1, Types DEF IInv
<1>3. ReplySize(answer) \in {3, 6} /\ ReplySize(answer) < Word
  BY Sizes, ExchangeAssumption DEF IInv, TypeOK
<1>4. offset + bytesLen = ReplySize(answer) /\ chunk = <<>>
  BY <1>14 DEF IInv
<1>5. offset' = offset + n /\ bytesLen' = bytesLen - n
  BY <1>1, <1>2, <1>3, <1>4, Numbers DEF Sent, Left, client
<1>6. /\ spc' = "send" <=> bytesLen' > 0
      /\ spc' \in {"send", "tick", "recv"}
      /\ chunk' = chunk /\ answer' = answer /\ toServer' = toServer /\ clientUp' = clientUp
      /\ cpc' = cpc /\ asked' = asked /\ kind' = kind /\ out' = out /\ got' = got
  BY <1>1, <1>2, <1>3, <1>4, <1>5, Numbers DEF Sent, AllSent, client
<1>13. /\ spc' = "send" => bytesLen' > 0
       /\ spc' # "send" => bytesLen' = 0
       /\ bytesLen' \in Nat /\ offset' \in Nat /\ offset' + bytesLen' = ReplySize(answer')
  BY <1>2, <1>4, <1>5, <1>6
<1>7. /\ Slice(n) \in Seq(Words) /\ Len(Slice(n)) = n
      /\ \A j \in 1..n : Slice(n)[j] = Reply[offset + j]
  <2>1. PICK r \in Seq(Words) : r = Reply /\ Len(r) = ReplySize(answer)
    BY ReplyType DEF IInv
  <2>2. offset + n <= Len(r) /\ n >= 1
    BY <2>1, <1>2, <1>3, <1>4
  <2>3. /\ SubSeq(r, offset + 1, offset + n) \in Seq(Words)
        /\ Len(SubSeq(r, offset + 1, offset + n)) = n
        /\ \A j \in 1..n : SubSeq(r, offset + 1, offset + n)[j] = r[offset + j]
    BY <2>2, <1>2, Part
  <2> QED
    BY <2>1, <2>3 DEF Slice
<1>8. /\ toClient' \in Seq(Words) /\ Len(toClient') = Len(toClient) + n
      /\ got \o toClient' = (got \o toClient) \o Slice(n)
  <2>1. PICK x \in Seq(Words) : x = Slice(n)
    BY <1>7
  <2>2. /\ toClient \o x \in Seq(Words) /\ Len(toClient \o x) = Len(toClient) + Len(x)
        /\ (got \o toClient) \o x = got \o (toClient \o x)
    BY <1>2, Regrouped
  <2> QED
    BY <2>1, <2>2, <1>1, <1>7
<1>9. TypeOK'
  <2>1. offset' \in 0..(Word - 1) /\ bytesLen' \in 0..(Word - 1)
    BY <1>2, <1>3, <1>4, <1>5, ExchangeAssumption
  <2>2. conn' \in {"open", "fin", "reset", "shut"} /\ serverUp' = serverUp
    BY <1>14
  <2> QED
    BY <2>1, <2>2, <1>6, <1>8 DEF IInv, TypeOK
<1>10. Pending' = Pending
  BY <1>6 DEF Pending
<1>11. ASSUME clientUp PROVE Between'
  <2>1. /\ cpc = "read" /\ Pending = 0 /\ answer \in Answers(kind)
        /\ Len(got) + Len(toClient) = offset
        /\ \A j \in 1..(Len(got) + Len(toClient)) : (got \o toClient)[j] = Reply[j]
    <3>1. Between /\ spc = "send"
      BY <1>11, <1>14 DEF IInv
    <3>2. /\ cpc = "read" /\ Pending = 0 /\ answer \in Answers(kind)
          /\ Arriving = ReplySize(answer)
          /\ \A j \in 1..(Len(got) + Len(toClient)) : (got \o toClient)[j] = Reply[j]
      BY <3>1 DEF Between
    <3>3. Len(got) + Len(toClient) + bytesLen = ReplySize(answer)
      BY <3>1, <3>2 DEF Arriving
    <3>4. Len(got) + Len(toClient) = offset
      BY <3>3, <1>2, <1>4
    <3> QED
      BY <3>2, <3>4
  <2>2. Len(got') + Len(toClient') = offset' /\ Arriving' = ReplySize(answer')
    <3>1. Len(got') + Len(toClient') = offset'
      <4>1. Len(got') = Len(got) /\ Len(toClient') = Len(toClient) + n
        BY <1>6, <1>8
      <4>2. Len(got) + Len(toClient) = offset
        BY <2>1
      <4> QED
        BY <4>1, <4>2, <1>2, <1>5
    <3>2. offset' + bytesLen' = ReplySize(answer) /\ bytesLen' \in Nat
      BY <1>2, <1>4, <1>5
    <3>3. Arriving' = offset' + (IF spc' = "send" THEN bytesLen' ELSE 0)
      BY <3>1 DEF Arriving
    <3>4. ReplySize(answer') = offset' + (IF spc' = "send" THEN bytesLen' ELSE 0)
      BY <1>13
    <3> QED
      BY <3>1, <3>3, <3>4
  <2>3. Reply' = Reply
    BY <1>6 DEF Reply
  <2>4. got \o toClient \in Seq(Words) /\ Len(got \o toClient) = offset
    BY <2>1, <1>2, Regrouped
  <2>5. ASSUME NEW j \in 1..offset' PROVE (got' \o toClient')[j] = Reply[j]
    <3>1. PICK x \in Seq(Words), y \in Seq(Words) : x = got \o toClient /\ y = Slice(n)
      BY <2>4, <1>7
    <3>2. j \in 1..(Len(x) + Len(y)) /\ Len(x) = offset /\ j \in Nat
      BY <3>1, <2>4, <1>2, <1>5, <1>7
    <3>3. (x \o y)[j] = IF j <= Len(x) THEN x[j] ELSE y[j - Len(x)]
      BY <3>2, ConcatProperties
    <3>4. (got' \o toClient')[j] = IF j <= offset THEN x[j] ELSE y[j - offset]
      BY <3>1, <3>2, <3>3, <1>6, <1>8
    <3>5. CASE j <= offset
      BY <3>1, <3>2, <3>4, <3>5, <2>1
    <3>6. CASE j > offset
      <4>1. j - offset \in 1..n /\ offset + (j - offset) = j
        BY <3>2, <3>6, <1>2, <1>5
      <4>2. y[j - offset] = Reply[offset + (j - offset)]
        BY <4>1, <3>1, <1>7
      <4>3. (got' \o toClient')[j] = y[j - offset]
        BY <3>2, <3>4, <3>6, <1>2
      <4>4. Reply[offset + (j - offset)] = Reply[j]
        BY <4>1
      <4> QED
        BY <4>2, <4>3, <4>4
    <3>7. j <= offset \/ j > offset
      BY <3>2, <1>2
    <3> QED
      BY <3>5, <3>6, <3>7
  <2>6. \A j \in 1..(Len(got') + Len(toClient')) : (got' \o toClient')[j] = Reply'[j]
    BY <2>2, <2>3, <2>5
  <2> QED
    BY <2>1, <2>2, <2>6, <1>6, <1>10 DEF Between
<1>12. conn' # "shut" /\ (clientUp => conn' = "open")
  BY <1>14 DEF IInv
<1> QED
  BY <1>4, <1>6, <1>9, <1>10, <1>11, <1>12, <1>13 DEF IInv

LEMMA SendFailsStep == ASSUME IInv, SendFails PROVE IInv'
<1>1. /\ spc = "send" /\ chunk = <<>> /\ ~clientUp /\ conn' = "shut"
      /\ Sent(Word - 1) /\ toClient' = toClient /\ serverUp' = serverUp
  BY DEF SendFails, IInv
<1>2. /\ chunk' = chunk /\ answer' = answer /\ toServer' = toServer /\ clientUp' = clientUp
      /\ cpc' = cpc /\ asked' = asked /\ kind' = kind /\ out' = out /\ got' = got
      /\ spc' \in {"send", "tick", "recv"}
  BY <1>1 DEF Sent, client
<1>3. offset' \in 0..(Word - 1) /\ bytesLen' \in 0..(Word - 1)
  <2>1. offset + (Word - 1) \in Int /\ bytesLen + Word - (Word - 1) \in Int
    BY Types, ExchangeAssumption DEF IInv
  <2>2. \A x \in Int : x % Word \in 0..(Word - 1)
    BY ExchangeAssumption
  <2> QED
    BY <1>1, <2>1, <2>2 DEF Sent, Left
<1>4. TypeOK'
  BY <1>1, <1>2, <1>3 DEF IInv, TypeOK
<1>5. Pending' = Pending
  BY <1>2 DEF Pending
<1> QED
  BY <1>1, <1>2, <1>4, <1>5 DEF IInv

(* The steps that move no words. *)
LEMMA QuietStep ==
    ASSUME IInv, RecvEnd \/ ShortRequest \/ SigPipe \/ TicksOver \/ ServerExit \/ UNCHANGED vars
    PROVE  IInv'
<1>1. UNCHANGED <<client, chunk, answer, offset, bytesLen, wires, conn, clientUp>>
  BY DEF RecvEnd, ShortRequest, SigPipe, TicksOver, ServerExit, server, vars
<1>2. /\ serverUp' = serverUp \/ serverUp' = FALSE
      /\ \/ spc' = spc
         \/ spc = "tick" /\ spc' = "recv"
         \/ spc = "recv" /\ chunk = <<>> /\ spc' = "returned" /\ Ended
  BY DEF RecvEnd, ShortRequest, SigPipe, TicksOver, ServerExit, server, vars
<1>3. /\ cpc' = cpc /\ asked' = asked /\ kind' = kind /\ out' = out /\ got' = got
      /\ chunk' = chunk /\ answer' = answer /\ offset' = offset /\ bytesLen' = bytesLen
      /\ toServer' = toServer /\ toClient' = toClient /\ conn' = conn /\ clientUp' = clientUp
  BY <1>1 DEF client, wires
<1>4. TypeOK'
  BY <1>2, <1>3 DEF IInv, TypeOK
<1>5. Pending' = Pending /\ Reply' = Reply
  BY <1>3 DEF Pending, Reply
<1>6. (spc' = "send" <=> spc = "send") /\ (spc' # "recv" => chunk = <<>>)
  BY <1>2 DEF IInv
<1>7. Between => Between'
  <2>1. Arriving' = Arriving
    BY <1>3, <1>6 DEF Arriving
  <2> QED
    BY <2>1, <1>3, <1>5, <1>6 DEF Between
<1> QED
  BY <1>3, <1>4, <1>5, <1>6, <1>7 DEF IInv

LEMMA Step == IInv /\ [Next]_vars => IInv'
<1> SUFFICES ASSUME IInv, [Next]_vars PROVE IInv'
  OBVIOUS
<1>1. CASE writen \/ readn
  BY <1>1, writenStep, readnStep
<1>2. CASE ServerGone \/ ClientExit
  BY <1>2, EndStep DEF ServerGone, ClientExit
<1>3. CASE \E k \in Kind : Ask(k)
  BY <1>3, AskStep
<1>4. CASE Recv \/ messageProcess \/ Send \/ SendFails
  BY <1>4, RecvStep, messageProcessStep, SendStep, SendFailsStep
<1>5. CASE RecvEnd \/ ShortRequest \/ SigPipe \/ TicksOver \/ ServerExit \/ UNCHANGED vars
  BY <1>5, QuietStep
<1> QED
  BY <1>1, <1>2, <1>3, <1>4, <1>5 DEF Next, ClientThread, ServerThread

-----------------------------------------------------------------------------
(* The invariant from which the rest follows: what is left of a request is *)
(* all of it or nothing, at all times counted over the three places it can *)
(* be in, and what has come of a reply is its first part.                  *)
THEOREM Invariant == Spec => []IInv
BY InitInv, Step, PTL DEF Spec

(* Every variable holds a value of its type; offset and bytesLen stay      *)
(* within a word, a failed send included.                                  *)
THEOREM TypeCorrect == Spec => []TypeOK
<1>1. IInv => TypeOK
  BY DEF IInv
<1> QED
  BY <1>1, Invariant, PTL

(* However send, recv, writen and readn split a reply, sendMessage's two   *)
(* counters are exact and the client has, in order, the first part of the  *)
(* reply to the request it is waiting on.                                  *)
THEOREM SentExactly == Spec => []SentIsOffset
<1>1. IInv => SentIsOffset
  <2> SUFFICES ASSUME IInv, clientUp PROVE
        /\ spc = "send" => /\ offset + bytesLen = ReplySize(answer)
                           /\ got \o toClient = SubSeq(Reply, 1, offset)
        /\ spc = "tick" /\ cpc = "read" /\ out = <<>> /\ toServer = <<>> =>
              got \o toClient = Reply
    BY DEF SentIsOffset
  <2>1. /\ Between
        /\ spc = "send" => offset + bytesLen = ReplySize(answer)
        /\ spc # "recv" => chunk = <<>>
    BY DEF IInv
  <2>2. /\ Len(got) \in Nat /\ Len(toClient) \in Nat /\ offset \in Nat /\ bytesLen \in Nat
        /\ got \in Seq(Words) /\ toClient \in Seq(Words)
    BY Types DEF IInv
  <2>3. PICK w \in Seq(Words) : w = got \o toClient /\ Len(w) = Len(got) + Len(toClient)
    BY <2>2, Regrouped
  <2>4. PICK r \in Seq(Words) : r = Reply /\ Len(r) = ReplySize(answer)
    BY ReplyType DEF IInv
  <2>5. ASSUME cpc = "read", Pending = 0
        PROVE  Arriving = Len(r) /\ \A j \in 1..Len(w) : w[j] = r[j]
    BY <2>1, <2>3, <2>4, <2>5 DEF Between
  <2>6. ASSUME spc = "send" PROVE w = SubSeq(r, 1, offset)
    <3>1. Len(w) = offset /\ \A j \in 1..Len(w) : w[j] = r[j]
      <4>1. cpc = "read" /\ Pending = 0
        BY <2>1, <2>6 DEF Between
      <4>2. Arriving = Len(w) + bytesLen
        BY <2>3, <2>6 DEF Arriving
      <4>3. Arriving = Len(r) /\ \A j \in 1..Len(w) : w[j] = r[j]
        BY <4>1, <2>5
      <4>4. Len(w) = offset
        <5>1. offset + bytesLen = Len(r) /\ Len(w) \in Nat
          BY <2>1, <2>2, <2>3, <2>4, <2>6
        <5> QED
          BY <5>1, <4>2, <4>3, <2>2
      <4> QED
        BY <4>3, <4>4
    <3>2. offset <= Len(r) /\ Len(r) \in Nat
      BY <2>1, <2>2, <2>4, <2>6
    <3>3. /\ SubSeq(r, 1, offset) \in Seq(Words) /\ Len(SubSeq(r, 1, offset)) = offset
          /\ \A j \in 1..offset : SubSeq(r, 1, offset)[j] = r[j]
      BY <3>2, <2>2
    <3> QED
      BY <3>1, <3>3, SeqEqual
  <2>7. ASSUME spc = "tick", cpc = "read", out = <<>>, toServer = <<>> PROVE w = r
    <3>1. Pending = 0
      BY <2>1, <2>7, EmptySeq DEF Pending
    <3>2. Len(w) = Len(r)
      BY <3>1, <2>2, <2>3, <2>5, <2>7 DEF Arriving
    <3> QED
      BY <3>1, <3>2, <2>5, <2>7, SeqEqual
  <2> QED
    BY <2>1, <2>3, <2>4, <2>6, <2>7
<1> QED
  BY <1>1, Invariant, PTL

(* A step of the connection is a step of the two slots or leaves them.     *)
LEMMA SlotsStep == IInv /\ [Next]_vars => [Slots!Next]_(Slots!vars)
<1> SUFFICES ASSUME IInv, [Next]_vars PROVE [Slots!Next]_(Slots!vars)
  OBVIOUS
<1> DEFINE request == IF cpc # "idle" /\ ~Handled THEN kind ELSE None
           reply == IF cpc = "read" /\ Handled THEN answer ELSE None
           stays == UNCHANGED <<request, reply, clientUp, serverUp>>
<1>1. /\ out \in Seq(Words) /\ toServer \in Seq(Words) /\ chunk \in Seq(Words)
      /\ kind \in Kind /\ Len(out) \in Nat /\ Len(toServer) \in Nat /\ Len(chunk) \in Nat
  BY Types DEF IInv
<1>2. Handled <=> Pending = 0
  BY <1>1, EmptySeq DEF Handled, Pending
<1>3. stays => [Slots!Next]_(Slots!vars)
  BY DEF Slots!vars
<1>4. CASE \E k \in Kind : Ask(k)
  <2>1. PICK k \in Kind : Ask(k)
    BY <1>4
  <2>2. cpc' = "write" /\ out' # <<>>
    BY <2>1, AskStep DEF Ask, IInv
  <2>3. Slots!Ask(k)
    BY <2>1, <2>2 DEF Slots!Ask, Ask, Handled
  <2> QED
    BY <2>3 DEF Slots!Next
<1>5. CASE writen
  <2>1. PICK n \in 1..Len(out) : toServer' = toServer \o Front(out, n)
    BY <1>5 DEF writen
  <2>2. Len(toServer \o Front(out, n)) = Len(toServer) + n
    BY <1>1, Passing
  <2>3. toServer' # <<>>
    BY <2>1, <2>2, <1>1, EmptySeq
  <2>4. out # <<>> /\ cpc = "write" /\ cpc' \in {"read", "write"}
    BY <1>5 DEF writen, IInv
  <2>5. stays
    BY <2>3, <2>4, <1>5 DEF writen, Handled, server
  <2> QED
    BY <2>5, <1>3
<1>6. CASE readn
  <2>1. toClient # <<>>
    BY <1>6, EmptySeq DEF readn
  <2>2. cpc = "read" /\ Pending = 0 /\ answer \in Answers(kind) /\ clientUp
    BY <2>1, <1>6 DEF IInv, Between, readn
  <2>3. Handled /\ Handled' /\ answer # None
    BY <2>2, <1>1, <1>2, <1>6, Sizes DEF readn, Handled, server
  <2>4. /\ answer' = answer /\ UNCHANGED <<kind, clientUp, serverUp>>
        /\ cpc' \in {"idle", "read"}
    BY <1>6 DEF readn, server
  <2>5. CASE cpc' = "read"
    BY <2>2, <2>3, <2>4, <2>5, <1>3
  <2>6. CASE cpc' = "idle"
    <3>1. Slots!Receive
      BY <2>2, <2>3, <2>4, <2>6 DEF Slots!Receive
    <3> QED
      BY <3>1 DEF Slots!Next
  <2> QED
    BY <2>4, <2>5, <2>6
<1>7. CASE ServerGone \/ ClientExit
  <2>1. Slots!ClientEnds
    BY <1>7 DEF Slots!ClientEnds, ServerGone, ClientExit, End, Handled, client, server, wires
  <2> QED
    BY <2>1 DEF Slots!Next
<1>8. CASE Recv
  <2>1. PICK n \in 1..Len(toServer) : chunk' = Front(toServer, n)
    BY <1>8 DEF Recv
  <2>2. Len(chunk') = n /\ toServer # <<>> /\ chunk' # <<>>
    BY <2>1, <1>1, Split, EmptySeq
  <2>3. stays
    BY <2>2, <1>8 DEF Recv, Handled, client
  <2> QED
    BY <2>3, <1>3
<1>9. CASE messageProcess
  <2>1. ~Handled /\ Handled' /\ cpc = "read" /\ cpc' = "read"
    BY <1>9, WholeRequest DEF messageProcess, Handled, client, wires
  <2>2. answer' \in Answers(kind) /\ kind \in Kind /\ kind # None
    BY <1>1, <1>9, Sizes DEF messageProcess
  <2>3. Slots!Answer(answer')
    BY <2>1, <2>2, <1>9 DEF Slots!Answer, messageProcess, client
  <2> QED
    BY <2>2, <2>3 DEF Slots!Next
<1>10. CASE Send \/ SendFails
  <2>1. UNCHANGED <<cpc, kind, out, toServer, chunk, answer, clientUp, serverUp>>
    BY <1>10 DEF Send, SendFails, Sent, client
  <2>2. stays
    BY <2>1 DEF Handled
  <2> QED
    BY <2>2, <1>3
<1>11. CASE ShortRequest \/ SigPipe \/ ServerExit
  <2>1. Slots!ServerEnds
    BY <1>11 DEF Slots!ServerEnds, ShortRequest, SigPipe, ServerExit, Handled, client, server, wires
  <2> QED
    BY <2>1 DEF Slots!Next
<1>12. CASE RecvEnd \/ TicksOver \/ UNCHANGED vars
  <2>1. UNCHANGED <<cpc, kind, out, toServer, chunk, answer, clientUp, serverUp>>
    BY <1>12 DEF RecvEnd, TicksOver, vars, client, server, wires
  <2>2. stays
    BY <2>1 DEF Handled
  <2> QED
    BY <2>2, <1>3
<1> QED
  BY <1>4, <1>5, <1>6, <1>7, <1>8, <1>9, <1>10, <1>11, <1>12 DEF Next, ClientThread, ServerThread

(* The loops that write, read, receive and send words, with a process that *)
(* may end between any two of them, implement one slot for a request and   *)
(* one for its reply.                                                      *)
THEOREM WordsImplementSlots == Spec => SlotsImplemented
<1>1. Init => Slots!Init
  BY DEF Init, Slots!Init, Handled
<1> QED
  BY <1>1, Invariant, SlotsStep, PTL DEF Spec, SlotsImplemented, Slots!Spec
=============================================================================
