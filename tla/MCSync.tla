------------------------------- MODULE MCSync -------------------------------
(* Instances of MutexCounter, RwlockCounter and CondDrain for TLC.  A      *)
(* behaviour is one of the programs with a mutex, one of those with a      *)
(* rwlock or the one with a condition variable; the others stay as they    *)
(* began.                                                                  *)
EXTENDS MutexCounter

CONSTANTS Readers, Writers, Rounds, Raise

(* There are threads, and num is only raised.                              *)
ASSUME RwlockAssumption ==
    /\ Readers \in Nat /\ Writers \in Nat /\ Readers + Writers > 0
    /\ Rounds \in Nat /\ Raise \in Nat

VARIABLES which, rmainPc, k, rpc, ri, value, holders, rnum,
          cmainPc, ci, reg, childPc, creg, signalled, cancelled, cowner, cnum, eaten

rvars == <<rmainPc, k, rpc, ri, value, holders, rnum>>
cvars == <<cmainPc, ci, reg, childPc, creg, signalled, cancelled, cowner, cnum, eaten>>

R == INSTANCE RwlockCounter
       WITH mainPc <- rmainPc, pc <- rpc, i <- ri, num <- rnum

C == INSTANCE CondDrain
       WITH mainPc <- cmainPc, i <- ci, owner <- cowner, num <- cnum

Runs(what) == which = what

MCInit == Init /\ R!Init /\ C!Init /\ which \in {"mutex", "rwlock", "condvar"}

MCNext ==
    /\ UNCHANGED which
    /\ \/ Runs("mutex") /\ Next /\ UNCHANGED <<rvars, cvars>>
       \/ Runs("rwlock") /\ R!Next /\ UNCHANGED <<vars, cvars>>
       \/ Runs("condvar") /\ C!Next /\ UNCHANGED <<vars, rvars>>

(* Every thread is scheduled; the locks of the first two need not be fair, *)
(* since a thread takes them a finite number of times.  The mutex of the   *)
(* third passes between its threads for ever only if main is never given   *)
(* it, which a scheduler does not do to a thread that is ready again and   *)
(* again.  A wait need not end without a signal.                           *)
MCSpec ==
    /\ MCInit /\ [][MCNext]_<<which, vars, rvars, cvars>>
    /\ WF_vars(Runs("mutex") /\ Main)
    /\ \A t \in Threads : WF_vars(Runs("mutex") /\ Child(t))
    /\ WF_rvars(Runs("rwlock") /\ R!Main)
    /\ \A t \in 1..(Readers + Writers) : WF_rvars(Runs("rwlock") /\ R!Thread(t))
    /\ WF_cvars(Runs("condvar") /\ C!Main) /\ SF_cvars(Runs("condvar") /\ C!MainLock)
    /\ WF_cvars(Runs("condvar") /\ C!Child) /\ SF_cvars(Runs("condvar") /\ C!Die)

(* The threads under a rwlock count as one, and print what num is.         *)
RwCounts == R!Counts /\ [][R!PrintsCurrent']_<<which, rvars>>

(* No wake-up is lost between the threads of the condition variable.       *)
NoLostWakeup == C!NoLostWakeup

(* Whatever the two threads of the condition variable do between each      *)
(* other's steps and whenever the cancellation comes, the number printed   *)
(* is what the child has left, and it leaves some only if it was told.     *)
NumAccounted == C!NumAccounted

(* The programs come to an end: nobody is left waiting for a lock, and the *)
(* cancellation reaches the child, which always comes back to the wait.    *)
Terminates ==
    <>(\/ Runs("mutex") /\ mainPc \in {"return", "exit"}
       \/ Runs("rwlock") /\ rmainPc \in {"return", "exit"}
       \/ Runs("condvar") /\ cmainPc \in {"return", "exit"})
=============================================================================
