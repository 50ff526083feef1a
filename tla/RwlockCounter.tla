---------------------------- MODULE RwlockCounter ----------------------------
(***************************************************************************)
(* rwlock.c and shareattr.c of 12_threadsync: main starts threads that     *)
(* print num under a read lock and threads that raise and print it under a *)
(* write lock, joins them all and destroys the lock.  shareattr makes the  *)
(* same lock with an attribute, which changes nothing between threads.     *)
(***************************************************************************)
EXTENDS Integers

CONSTANTS
    Readers, Writers,  \* number of the threads of each kind (5 and 5)
    Rounds,            \* rounds of every thread (10)
    Raise              \* what a write adds to num (20)

Threads   == 1..(Readers + Writers)
Writes(t) == t > Readers

VARIABLES
    mainPc,   \* main: "init", "create", "join", "return" or "exit"
    k,        \* main: the thread it creates or joins next
    pc,       \* each thread: where it is, "new" before its creation
    i,        \* each thread: loop index
    value,    \* each thread: the value of num it has read
    holders,  \* the threads that hold the lock
    num       \* num

vars == <<mainPc, k, pc, i, value, holders, num>>

Init ==
    /\ mainPc = "init" /\ k = 1
    /\ pc = [t \in Threads |-> "new"]
    /\ i = [t \in Threads |-> 0] /\ value = [t \in Threads |-> 0]
    /\ holders = {} /\ num = 0
-----------------------------------------------------------------------------
(* main                                                                    *)
RwlockInit ==
    /\ mainPc = "init" /\ mainPc' = "create"
    /\ UNCHANGED <<k, pc, i, value, holders, num>>

(* The readers first.  A failed pthread_create ends the process.           *)
Create ==
    /\ mainPc = "create"
    /\ \/ /\ pc' = [pc EXCEPT ![k] = "loop"]
          /\ IF k = Readers + Writers THEN mainPc' = "join" /\ k' = 1
             ELSE k' = k + 1 /\ UNCHANGED mainPc
       \/ mainPc' = "exit" /\ UNCHANGED <<k, pc>>
    /\ UNCHANGED <<i, value, holders, num>>

Join ==
    /\ mainPc = "join" /\ pc[k] = "done"
    /\ IF k = Readers + Writers THEN mainPc' = "return" /\ UNCHANGED k
       ELSE k' = k + 1 /\ UNCHANGED mainPc
    /\ UNCHANGED <<pc, i, value, holders, num>>

Main == RwlockInit \/ Create \/ Join
-----------------------------------------------------------------------------
(* read_thread and write_thread                                            *)
Running == mainPc \notin {"exit", "return"}
At(t, at) == Running /\ pc[t] = at

Begin(t) ==
    /\ At(t, "loop")
    /\ pc' = [pc EXCEPT ![t] = IF i[t] < Rounds THEN "lock" ELSE "done"]
    /\ UNCHANGED <<mainPc, k, i, value, holders, num>>

Rdlock(t) ==
    /\ At(t, "lock") /\ ~Writes(t)
    /\ \A h \in holders : ~Writes(h)
    /\ holders' = holders \cup {t}
    /\ pc' = [pc EXCEPT ![t] = "load"]
    /\ UNCHANGED <<mainPc, k, i, value, num>>

(* Mutant: a read lock for writing.                                        *)
WrlockIsRdlock(t) ==
    /\ At(t, "lock") /\ Writes(t)
    /\ holders' = holders \cup {t}
    /\ pc' = [pc EXCEPT ![t] = "load"]
    /\ UNCHANGED <<mainPc, k, i, value, num>>

Wrlock(t) ==
    /\ At(t, "lock") /\ Writes(t)
    /\ holders = {}
    /\ holders' = {t}
    /\ pc' = [pc EXCEPT ![t] = "load"]
    /\ UNCHANGED <<mainPc, k, i, value, num>>

Load(t) ==
    /\ At(t, "load")
    /\ value' = [value EXCEPT ![t] = num]
    /\ pc' = [pc EXCEPT ![t] = IF Writes(t) THEN "store" ELSE "unlock"]
    /\ UNCHANGED <<mainPc, k, i, holders, num>>

(* num += 20                                                               *)
Store(t) ==
    /\ At(t, "store")
    /\ num' = value[t] + Raise
    /\ value' = [value EXCEPT ![t] = value[t] + Raise]
    /\ pc' = [pc EXCEPT ![t] = "unlock"]
    /\ UNCHANGED <<mainPc, k, i, holders>>

(* printf of value, then the unlock, then sleep(1).                        *)
Unlock(t) ==
    /\ At(t, "unlock")
    /\ holders' = holders \ {t}
    /\ i' = [i EXCEPT ![t] = i[t] + 1]
    /\ pc' = [pc EXCEPT ![t] = "loop"]
    /\ UNCHANGED <<mainPc, k, value, num>>

Reader(t) == Begin(t) \/ Rdlock(t) \/ Load(t) \/ Unlock(t)
Writer(t) == Begin(t) \/ Wrlock(t) \/ Load(t) \/ Store(t) \/ Unlock(t)
Thread(t) == IF Writes(t) THEN Writer(t) ELSE Reader(t)

Ended == ~Running /\ UNCHANGED vars

Next == Main \/ (\E t \in Threads : Thread(t)) \/ Ended

Spec == Init /\ [][Next]_vars
-----------------------------------------------------------------------------
(* What a thread prints under its lock is num at that moment: readers see  *)
(* each other's value and never one that a writer is replacing.            *)
PrintsCurrent == \A t \in Threads : pc[t] = "unlock" => value[t] = num

(* No raise is lost: the writers together are a counter raised atomically. *)
Abstract == INSTANCE AtomicCounter
              WITH Step <- Raise, Times <- Writers * Rounds,
                   value <- num, reported <- mainPc = "return"
Counts == Abstract!Spec
=============================================================================
