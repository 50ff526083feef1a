---------------------------- MODULE MCMqttSession ----------------------------
(* An instance of MqttSession for TLC: the nine topics of mqttclient.c.    *)
EXTENDS Integers, Sequences

CONSTANTS Order, Starts

(* The topics are different texts.                                         *)
ASSUME OrderAssumption ==
    /\ Order \in Seq(STRING) /\ Len(Order) > 0
    /\ \A a, b \in 1..Len(Order) : Order[a] = Order[b] => a = b
ASSUME StartsAssumption == Starts \in Nat

VARIABLES pc, k, link, made, subs, status, ghost, runs

S == INSTANCE MqttSession WITH MaxRuns <- Starts

MCOrder == <<"led", "audio_play", "audio_capture", "video_play", "video_capture",
             "picture_play", "picture_capture", "char", "touch">>

SessionSpec == S!FairSpec

(* A goodbye leaves no subscription of the run behind.                     *)
GoodbyeLeavesNothing == S!GoodbyeLeavesNothing

(* While a run is linked the retained status is "online".                  *)
OnlineWhileLinked == S!OnlineWhileLinked

(* A link that is lost ends the program.                                   *)
LossEndsProgram == S!LossEndsProgram
=============================================================================
