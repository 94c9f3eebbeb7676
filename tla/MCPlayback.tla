------------------------------ MODULE MCPlayback ------------------------------
(* Instances of Playback for TLC, with tenths for the code's thousandths.  *)
EXTENDS Playback

EveryStatus == [e \in Entry |-> CASE e = "play" -> 4 [] e = "pause" -> 0
                                  [] e = "stop" -> 0 [] e = "forward" -> 2
                                  [] e = "backward" -> 3]
=============================================================================
