-------------------------- MODULE MCSegmentDelivery --------------------------
(* Instances of SegmentDelivery for TLC.  Both clients play video 7, whose *)
(* number is no message type, or video 0, whose number is one; the server  *)
(* looks the clients' own numbers up as videos 0 and 1.                    *)
EXTENDS SegmentAccounting, TLC

TwoRates    == 0 :> 10 @@ 1 :> 20 @@ 7 :> 10
SameVideo   == [c \in Client |-> 7]
FirstVideo  == [c \in Client |-> 0]
ThreeAndOne == 0 :> 3 @@ 1 :> 1
TwoAndOne   == 0 :> 2 @@ 1 :> 1
TwoEach     == 0 :> 2 @@ 1 :> 2
=============================================================================
