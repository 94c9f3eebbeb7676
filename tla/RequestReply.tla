---------------------------- MODULE RequestReply ----------------------------
(***************************************************************************)
(* What a client's connection promises to SegmentDelivery: a slot for one  *)
(* request and a slot for one reply.  A request is answered once, with one *)
(* of the replies to it, and the client gets just that reply, unless one   *)
(* of the two processes ends.                                              *)
(***************************************************************************)
CONSTANTS Kind,          \* kinds of requests
          Answers(_),    \* the replies to a request of a kind
          None           \* an empty slot

VARIABLES request, reply,      \* the slots
          clientUp, serverUp   \* whether each process is running
vars == <<request, reply, clientUp, serverUp>>

Init == request = None /\ reply = None /\ clientUp = TRUE /\ serverUp = TRUE

Ask(k) ==
    /\ clientUp /\ request = None /\ reply = None
    /\ request' = k
    /\ UNCHANGED <<reply, clientUp, serverUp>>

Answer(a) ==
    /\ serverUp /\ request # None /\ a \in Answers(request)
    /\ request' = None /\ reply' = a
    /\ UNCHANGED <<clientUp, serverUp>>

Receive ==
    /\ clientUp /\ reply # None
    /\ reply' = None
    /\ UNCHANGED <<request, clientUp, serverUp>>

ClientEnds == clientUp /\ clientUp' = FALSE /\ UNCHANGED <<request, reply, serverUp>>
ServerEnds == serverUp /\ serverUp' = FALSE /\ UNCHANGED <<request, reply, clientUp>>

Next == \/ \E k \in Kind : Ask(k) \/ \E a \in Answers(k) : Answer(a)
        \/ Receive \/ ClientEnds \/ ServerEnds
Spec == Init /\ [][Next]_vars
=============================================================================
