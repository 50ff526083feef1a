---------------------------- MODULE MCPcmPlayer ----------------------------
(* Instances of PcmPlayer and of PcmRecorder for TLC: three periods in the *)
(* ring, files shorter than, as long as and longer than it.  A behaviour   *)
(* is one of a player or one of a recorder; the other stays as it began.   *)
EXTENDS PcmPlayer

CONSTANTS Recorders, Disk, Total

ASSUME DiskAssumption == Disk \in Nat

VARIABLES which, rprog, rpc, rhpc, rpending, rdev, rring, rcount, rfile, rbuf, rspace, rcut, rended

rvars == <<rprog, rpc, rhpc, rpending, rdev, rring, rcount, rfile, rbuf, rspace, rcut, rended>>

R == INSTANCE PcmRecorder WITH
        prog <- rprog, pc <- rpc, hpc <- rhpc, pending <- rpending, dev <- rdev, ring <- rring,
        count <- rcount, file <- rfile, buf <- rbuf, space <- rspace, cut <- rcut, ended <- rended

MCLens == {0, 1, 6, 9, 11}

Runs(what) == which = what

MCInit ==
    /\ Init /\ R!Init
    /\ \/ Runs("player") /\ rprog = "capture"
       \/ Runs("recorder") /\ prog = "poll" /\ len = 0

MCNext ==
    /\ UNCHANGED which
    /\ \/ Runs("player") /\ Next /\ UNCHANGED rvars
       \/ Runs("recorder") /\ R!Next /\ UNCHANGED vars

MCSpec ==
    /\ MCInit /\ [][MCNext]_<<which, vars, rvars>>
    /\ WF_vars(Runs("player") /\ Main)
    /\ WF_vars(Runs("player") /\ Callback)
    /\ WF_vars(Runs("player") /\ PlayFrame)
    /\ WF_rvars(Runs("recorder") /\ R!Capture)
    /\ WF_rvars(Runs("recorder") /\ R!Poll)
    /\ WF_rvars(Runs("recorder") /\ R!Async)
    /\ WF_rvars(Runs("recorder") /\ R!Record)

(* What a recorder has written is what was played to it.                   *)
FileIsCapture == R!FileIsCapture

(* A running stream goes on, and one that has come to a halt ends its      *)
(* program: players are fed until the end of their file or a pause,        *)
(* recorders keep up with the microphone, and no underrun or overrun       *)
(* leaves a program waiting.                                               *)
StreamsGoOn == UnderrunEnds /\ PlaysToTheEnd /\ R!KeepsRecording
=============================================================================
