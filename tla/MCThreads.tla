------------------------------ MODULE MCThreads ------------------------------
(* Instances of ThreadJoin and of ChildWait for TLC.  A behaviour is one   *)
(* of the thread programs or one of the programs that wait for children;   *)
(* the other stays as it began.                                            *)
EXTENDS Integers

CONSTANTS Programs, Slips, Waiters, Children, Naps, NapTime

VARIABLES family,
          prog, at, left, life, joinable, joining, request, cancelable, stack, ran, result,
          told, ended, slips,
          wprog, wpc, wi, child, wleft, pending, handling, wended, wslips

tvars == <<prog, at, left, life, joinable, joining, request, cancelable, stack, ran, result,
           told, ended, slips>>
wvars == <<wprog, wpc, wi, child, wleft, pending, handling, wended, wslips>>

T == INSTANCE ThreadJoin WITH value <- result

W == INSTANCE ChildWait WITH Programs <- Waiters, prog <- wprog, pc <- wpc, i <- wi,
       left <- wleft, ended <- wended, slips <- wslips

(* The programs are those of ThreadJoin and of ChildWait, main takes at    *)
(* least as many naps as it has children, and a nap is longer than the     *)
(* second that a child sleeps.                                             *)
ASSUME ThreadProgramsAssumption == Programs \subseteq DOMAIN T!Answers
ASSUME WaitersAssumption ==
    /\ Waiters \subseteq {"wait", "waitpid", "poll", "sigchld"}
    /\ Children \in Nat \ {0} /\ Naps \in Nat /\ Children <= Naps
    /\ NapTime \in Nat /\ NapTime > 1

Family(f) == family = f

MCThreadsInit ==
    /\ T!Init /\ W!Init
    /\ \/ Family("threads") /\ wprog = "wait"
       \/ Family("children") /\ prog = "threadcreate"

MCThreadsNext ==
    /\ UNCHANGED family
    /\ \/ Family("threads") /\ T!Next /\ UNCHANGED wvars
       \/ Family("children") /\ W!Next /\ UNCHANGED tvars

(* Every thread and every process is scheduled, and time goes on.          *)
MCThreadsSpec ==
    /\ MCThreadsInit /\ [][MCThreadsNext]_<<family, tvars, wvars>>
    /\ WF_tvars(Family("threads") /\ T!Main)
    /\ WF_tvars(Family("threads") /\ T!Child)
    /\ \A w \in T!Who : WF_tvars(Family("threads") /\ T!Sleeps(w))
    /\ WF_tvars(Family("threads") /\ T!Tick)
    /\ WF_wvars(Family("children") /\ W!MainStep)
    /\ WF_wvars(Family("children") /\ W!Handler)
    /\ \A c \in 1..Children : WF_wvars(Family("children") /\ W!Child(c))
    /\ WF_wvars(Family("children") /\ W!Tick)

(* What main is told, and what has been cleaned up when it is.             *)
ThreadsEndAsTold == T!ThreadsEndAsTold

(* Every child is reaped, in each of the four ways to wait.                *)
AllReaped == W!AllReaped

(* Every program ends, except the two whose main joins a thread that       *)
(* cannot be cancelled.                                                    *)
ProgramsEnd ==
    <>(\/ Family("threads") /\ (~T!Live \/ prog \in T!Uncancellable)
       \/ Family("children") /\ wended # "no")
=============================================================================
