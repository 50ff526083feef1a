------------------------------ MODULE CondDrain ------------------------------
(***************************************************************************)
(* The condition variable program 12_threadsync/3_condvar/condvar.c: main  *)
(* raises num under the mutex and signals after giving it back; a child    *)
(* thread waits until num is positive and counts it down to 0.  When main  *)
(* is done it cancels the child, joins it, destroys the condition variable *)
(* and the mutex and prints num.                                           *)
(*                                                                         *)
(* Locking a mutex is no cancellation point, waiting on a condition        *)
(* variable is one, and a cancelled waiter takes the mutex again before it *)
(* goes.  Waits may end without a signal.                                  *)
(***************************************************************************)
EXTENDS Integers

CONSTANT Loops   \* the argument of the program, a natural number

VARIABLES
    mainPc,     \* main: the call it makes next
    i,          \* main: loop index
    reg,        \* main: num as loaded for the increment
    childPc,    \* child_thread: where it is
    creg,       \* child_thread: num as loaded for the decrement
    signalled,  \* a signal has reached the waiting child
    cancelled,  \* the child is to be cancelled
    owner,      \* the holder of the mutex
    num,        \* num
    eaten       \* history: how often the child has counted down

mainVars  == <<mainPc, i, reg>>
childVars == <<childPc, creg, eaten>>
vars      == <<mainVars, childVars, signalled, cancelled, owner, num>>

Init ==
    /\ mainPc = "create" /\ i = 0 /\ reg = 0
    /\ childPc = "new" /\ creg = 0 /\ eaten = 0
    /\ signalled = FALSE /\ cancelled = FALSE
    /\ owner = "none" /\ num = 0
-----------------------------------------------------------------------------
(***************************************************************************)
(* main.                                                                   *)
(***************************************************************************)
Running == mainPc \notin {"return", "exit"}

Create ==
    /\ mainPc = "create"
    /\ \/ mainPc' = "loop" /\ childPc' = "lock"
       \/ mainPc' = "exit" /\ UNCHANGED childPc
    /\ UNCHANGED <<i, reg, creg, eaten, signalled, cancelled, owner, num>>

Loop ==
    /\ mainPc = "loop"
    /\ mainPc' = IF i < Loops THEN "lock" ELSE "cancel"
    /\ UNCHANGED <<i, reg, childVars, signalled, cancelled, owner, num>>

MainLock ==
    /\ mainPc = "lock" /\ owner = "none"
    /\ owner' = "main" /\ mainPc' = "load"
    /\ UNCHANGED <<i, reg, childVars, signalled, cancelled, num>>

IncrementLoad ==
    /\ mainPc = "load"
    /\ reg' = num /\ mainPc' = "store"
    /\ UNCHANGED <<i, childVars, signalled, cancelled, owner, num>>

IncrementStore ==
    /\ mainPc = "store"
    /\ num' = reg + 1 /\ mainPc' = "unlock"
    /\ UNCHANGED <<i, reg, childVars, signalled, cancelled, owner>>

MainUnlock ==
    /\ mainPc = "unlock"
    /\ owner' = "none" /\ mainPc' = "signal"
    /\ UNCHANGED <<i, reg, childVars, signalled, cancelled, num>>

(* Mutant: the signal is forgotten.                                        *)
SignalNothing ==
    /\ mainPc = "signal"
    /\ i' = i + 1 /\ mainPc' = "loop"
    /\ UNCHANGED <<reg, childVars, signalled, cancelled, owner, num>>

(* A signal nobody waits for is lost.                                      *)
Signal ==
    /\ mainPc = "signal"
    /\ signalled' = (signalled \/ childPc = "waiting")
    /\ i' = i + 1 /\ mainPc' = "loop"
    /\ UNCHANGED <<reg, childVars, cancelled, owner, num>>

(* Mutant: main joins without cancelling.                                  *)
CancelNothing ==
    /\ mainPc = "cancel"
    /\ mainPc' = "join"
    /\ UNCHANGED <<i, reg, childVars, signalled, cancelled, owner, num>>

Cancel ==
    /\ mainPc = "cancel"
    /\ cancelled' = TRUE /\ mainPc' = "join"
    /\ UNCHANGED <<i, reg, childVars, signalled, owner, num>>

Join ==
    /\ mainPc = "join" /\ childPc = "gone"
    /\ mainPc' = "destroy"
    /\ UNCHANGED <<i, reg, childVars, signalled, cancelled, owner, num>>

(* pthread_cond_destroy, pthread_mutex_destroy (which fails on a mutex     *)
(* that is held; nobody looks) and the printf of num.                      *)
DestroyAndPrint ==
    /\ mainPc = "destroy"
    /\ mainPc' = "return"
    /\ UNCHANGED <<i, reg, childVars, signalled, cancelled, owner, num>>

Main == Create \/ Loop \/ MainLock \/ IncrementLoad \/ IncrementStore \/ MainUnlock
        \/ Signal \/ Cancel \/ Join \/ DestroyAndPrint
-----------------------------------------------------------------------------
(***************************************************************************)
(* child_thread.                                                           *)
(***************************************************************************)
ChildLock ==
    /\ Running /\ childPc = "lock" /\ owner = "none"
    /\ owner' = "child" /\ childPc' = "test"
    /\ UNCHANGED <<mainVars, creg, eaten, signalled, cancelled, num>>

(* Mutant: the mutex is given back before num is counted down.             *)
TestUnlocks ==
    /\ Running /\ childPc = "test"
    /\ \/ num > 0 /\ childPc' = "drain" /\ owner' = "none" /\ UNCHANGED signalled
       \/ num <= 0 /\ childPc' = "waiting" /\ signalled' = FALSE /\ owner' = "none"
    /\ UNCHANGED <<mainVars, creg, eaten, cancelled, num>>

(* while(num <= 0) pthread_cond_wait: giving the mutex back and going to   *)
(* sleep are one step.                                                     *)
Test ==
    /\ Running /\ childPc = "test"
    /\ \/ num > 0 /\ childPc' = "drain" /\ UNCHANGED <<signalled, owner>>
       \/ num <= 0 /\ childPc' = "waiting" /\ signalled' = FALSE /\ owner' = "none"
    /\ UNCHANGED <<mainVars, creg, eaten, cancelled, num>>

(* The wait is over, by a signal or without one: take the mutex.           *)
Wake ==
    /\ Running /\ childPc = "waiting"
    /\ childPc' = "relock"
    /\ UNCHANGED <<mainVars, creg, eaten, signalled, cancelled, owner, num>>

Relock ==
    /\ Running /\ childPc = "relock" /\ owner = "none"
    /\ owner' = "child" /\ childPc' = "test"
    /\ UNCHANGED <<mainVars, creg, eaten, signalled, cancelled, num>>

(* The cancellation acts in the wait: the child takes the mutex and goes.  *)
Die ==
    /\ Running /\ childPc = "waiting" /\ cancelled /\ owner = "none"
    /\ owner' = "child" /\ childPc' = "gone"
    /\ UNCHANGED <<mainVars, creg, eaten, signalled, cancelled, num>>

(* while(num > 0) num--;                                                   *)
DrainLoad ==
    /\ Running /\ childPc = "drain"
    /\ creg' = num
    /\ childPc' = IF num > 0 THEN "decrement" ELSE "unlock"
    /\ UNCHANGED <<mainVars, eaten, signalled, cancelled, owner, num>>

DrainStore ==
    /\ Running /\ childPc = "decrement"
    /\ num' = creg - 1 /\ eaten' = eaten + 1
    /\ childPc' = "drain"
    /\ UNCHANGED <<mainVars, creg, signalled, cancelled, owner>>

ChildUnlock ==
    /\ Running /\ childPc = "unlock"
    /\ owner' = "none" /\ childPc' = "lock"
    /\ UNCHANGED <<mainVars, creg, eaten, signalled, cancelled, num>>

Child == ChildLock \/ Test \/ Relock \/ Die \/ DrainLoad \/ DrainStore \/ ChildUnlock
         \/ (signalled /\ Wake)

Ended == ~Running /\ UNCHANGED vars

Next == Main \/ Child \/ Wake \/ Ended

Spec == Init /\ [][Next]_vars
-----------------------------------------------------------------------------
TypeOK ==
    /\ mainPc \in {"create", "loop", "lock", "load", "store", "unlock", "signal",
                   "cancel", "join", "destroy", "return", "exit"}
    /\ i \in 0..Loops /\ reg \in Nat
    /\ childPc \in {"new", "lock", "test", "waiting", "relock", "drain", "decrement",
                    "unlock", "gone"}
    /\ creg \in Nat /\ eaten \in Nat
    /\ signalled \in BOOLEAN /\ cancelled \in BOOLEAN
    /\ owner \in {"none", "main", "child"}
    /\ num \in Nat

(* The child never sleeps on a positive num that nobody will tell it of:   *)
(* either it has been signalled or main is on its way to the signal, which *)
(* it sends after giving the mutex back.                                   *)
NoLostWakeup ==
    childPc = "waiting" /\ num > 0 /\ ~signalled => mainPc \in {"unlock", "signal"}

(* What main has put in is still there or has been counted down: neither   *)
(* thread overwrites the other's update.                                   *)
Conserved == num + eaten = i + (IF mainPc \in {"unlock", "signal"} THEN 1 ELSE 0)

(* The child leaves a positive num behind only when the cancellation found *)
(* it in the wait with a signal already sent to it.                        *)
LeftWasTold == childPc = "gone" /\ num > 0 => signalled

(* The num that main prints is what it has put in and the child has not    *)
(* counted down, no more and no less; it is above 0 only when the          *)
(* cancellation overtook a signal.                                         *)
NumAccounted == Conserved /\ LeftWasTold
=============================================================================
