---------------------------- MODULE MutexCounter ----------------------------
(***************************************************************************)
(* The mutex and spin lock programs of 12_threadsync (mutexapp,            *)
(* trymutexapp, destroymutex, mutextypeattr, spinlock): main starts two    *)
(* threads that each raise num `loops' times, loading it, adding one and   *)
(* storing it back under a lock; main joins both, prints num and destroys  *)
(* the lock.                                                               *)
(*                                                                         *)
(* A pthread_mutex_trylock in a loop and a spin lock differ from           *)
(* pthread_mutex_lock in how a thread waits, not in who gets the lock.     *)
(***************************************************************************)
EXTENDS Integers

CONSTANT Loops   \* the argument of the program
ASSUME LoopsAssumption == Loops \in Nat

Threads == {1, 2}
None    == 0

VARIABLES
    mainPc,   \* main: the call it makes next
    pc,       \* child_thread: where each thread is, "new" before its creation
    i,        \* child_thread: loop index
    count,    \* child_thread: the copy of num
    owner,    \* the holder of the lock, None when it is free
    num       \* num

vars == <<mainPc, pc, i, count, owner, num>>

Init ==
    /\ mainPc = "create1"
    /\ pc = [t \in Threads |-> "new"]
    /\ i = [t \in Threads |-> 0] /\ count = [t \in Threads |-> 0]
    /\ owner = None /\ num = 0
-----------------------------------------------------------------------------
(***************************************************************************)
(* main.  A failed pthread_create ends the process with whatever threads   *)
(* there are.                                                              *)
(***************************************************************************)
Running == mainPc \notin {"exit", "return"}

Create(at, t, next) ==
    /\ mainPc = at
    /\ \/ mainPc' = next /\ pc' = [pc EXCEPT ![t] = "loop"]
       \/ mainPc' = "exit" /\ UNCHANGED pc
    /\ UNCHANGED <<i, count, owner, num>>

(* Mutant: main does not wait for the thread.                              *)
JoinNothing(at, t, next) ==
    /\ mainPc = at
    /\ mainPc' = next
    /\ UNCHANGED <<pc, i, count, owner, num>>

Join(at, t, next) ==
    /\ mainPc = at
    /\ pc[t] = "done"
    /\ mainPc' = next
    /\ UNCHANGED <<pc, i, count, owner, num>>

(* printf, pthread_mutex_destroy.                                          *)
PrintAndDestroy ==
    /\ mainPc = "print"
    /\ mainPc' = "return"
    /\ UNCHANGED <<pc, i, count, owner, num>>

Main == \/ Create("create1", 1, "create2") \/ Create("create2", 2, "join1")
        \/ Join("join1", 1, "join2") \/ Join("join2", 2, "print")
        \/ PrintAndDestroy
-----------------------------------------------------------------------------
(***************************************************************************)
(* child_thread.                                                           *)
(***************************************************************************)
Begin(t) ==
    /\ Running /\ pc[t] = "loop"
    /\ pc' = [pc EXCEPT ![t] = IF i[t] < Loops THEN "lock" ELSE "done"]
    /\ UNCHANGED <<mainPc, i, count, owner, num>>

Lock(t) ==
    /\ Running /\ pc[t] = "lock"
    /\ owner = None
    /\ owner' = t
    /\ pc' = [pc EXCEPT ![t] = "load"]
    /\ UNCHANGED <<mainPc, i, count, num>>

(* pthread_mutex_trylock fails and is tried again.                         *)
TrylockFails(t) ==
    /\ Running /\ pc[t] = "lock"
    /\ owner # None
    /\ UNCHANGED vars

Load(t) ==
    /\ Running /\ pc[t] = "load"
    /\ count' = [count EXCEPT ![t] = num]
    /\ pc' = [pc EXCEPT ![t] = "store"]
    /\ UNCHANGED <<mainPc, i, owner, num>>

(* count++; num = count;                                                   *)
Store(t) ==
    /\ Running /\ pc[t] = "store"
    /\ count' = [count EXCEPT ![t] = count[t] + 1]
    /\ num' = count[t] + 1
    /\ pc' = [pc EXCEPT ![t] = "unlock"]
    /\ UNCHANGED <<mainPc, i, owner>>

Unlock(t) ==
    /\ Running /\ pc[t] = "unlock"
    /\ owner' = None
    /\ i' = [i EXCEPT ![t] = i[t] + 1]
    /\ pc' = [pc EXCEPT ![t] = "loop"]
    /\ UNCHANGED <<mainPc, count, num>>

Child(t) == Begin(t) \/ Lock(t) \/ TrylockFails(t) \/ Load(t) \/ Store(t) \/ Unlock(t)

Ended == ~Running /\ UNCHANGED vars

Next == Main \/ (\E t \in Threads : Child(t)) \/ Ended

Spec == Init /\ [][Next]_vars
-----------------------------------------------------------------------------
TypeOK ==
    /\ mainPc \in {"create1", "create2", "join1", "join2", "print", "return", "exit"}
    /\ pc \in [Threads -> {"new", "loop", "lock", "load", "store", "unlock", "done"}]
    /\ i \in [Threads -> 0..Loops] /\ count \in [Threads -> Nat]
    /\ owner \in Threads \cup {None}
    /\ num \in Nat

Critical(t) == pc[t] \in {"load", "store", "unlock"}

(* The threads never work on num at the same time, and the lock is free    *)
(* when main destroys it.                                                  *)
Exclusion ==
    /\ \A s, t \in Threads : Critical(s) /\ Critical(t) => s = t
    /\ mainPc \in {"print", "return"} => owner = None

(* No increment is lost or counted twice, and main prints them all: the    *)
(* program is a counter raised atomically.                                 *)
Abstract == INSTANCE AtomicCounter
              WITH Step <- 1, Times <- 2 * Loops,
                   value <- num, reported <- mainPc \in {"print", "return"}
Counts == Abstract!Spec
=============================================================================
