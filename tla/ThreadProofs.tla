----------------------------- MODULE ThreadProofs -----------------------------
(***************************************************************************)
(* Proofs about the threads and the processes that wait for children: the  *)
(* counting programs, MutexCounter and CondDrain for every loop count and  *)
(* RwlockCounter for any number of readers, writers and rounds; the thread *)
(* programs, ThreadJoin, however many seconds are lost to a busy machine;  *)
(* and ChildWait for any number of children and naps that suffice.         *)
(***************************************************************************)
EXTENDS MCSync, MCThreads, FiniteSetTheorems, Sequences, TLAPS

(* The increments of a thread that are in num.                             *)
Made(t) == IF pc[t] = "unlock" THEN i[t] + 1 ELSE i[t]

(* The holder of the lock is the thread in its critical section.           *)
LockInv == \A t \in Threads : Critical(t) <=> owner = t

(* Where a thread is tells how far it has come.                            *)
WorkerInv ==
    \A t \in Threads :
        /\ pc[t] \in {"lock", "load", "store", "unlock"} => i[t] < Loops
        /\ pc[t] = "done" => i[t] = Loops
        /\ pc[t] = "store" => count[t] = num

MainInv ==
    /\ mainPc = "create1" => pc[1] = "new"
    /\ mainPc \in {"create1", "create2"} => pc[2] = "new"
    /\ mainPc \in {"join2", "print", "return"} => pc[1] = "done"
    /\ mainPc \in {"print", "return"} => pc[2] = "done"

SumInv == num = Made(1) + Made(2)

IInv == TypeOK /\ LockInv /\ WorkerInv /\ MainInv /\ SumInv

LEMMA InitIInv == Init => IInv
BY LoopsAssumption DEF Init, IInv, TypeOK, LockInv, WorkerInv, MainInv, SumInv, Made,
   Critical, Threads, None

(* main only moves itself, or starts a thread that was not there.          *)
LEMMA MainIInv == IInv /\ Main => IInv'
<1> SUFFICES ASSUME IInv, Main PROVE IInv'
  OBVIOUS
<1> USE DEF IInv, TypeOK, LockInv, WorkerInv, MainInv, SumInv, Made, Critical, Threads, None
<1>1. CASE Create("create1", 1, "create2")
  BY <1>1 DEF Create
<1>2. CASE Create("create2", 2, "join1")
  BY <1>2 DEF Create
<1>3. CASE Join("join1", 1, "join2")
  BY <1>3 DEF Join
<1>4. CASE Join("join2", 2, "print")
  BY <1>4 DEF Join
<1>5. CASE PrintAndDestroy
  BY <1>5 DEF PrintAndDestroy
<1> QED  BY <1>1, <1>2, <1>3, <1>4, <1>5 DEF Main

(* A thread works on num only while it holds the lock.                     *)
LEMMA ChildIInv == ASSUME IInv, NEW t \in Threads, Child(t) PROVE IInv'
<1> USE DEF IInv, TypeOK, LockInv, WorkerInv, MainInv, SumInv, Made, Critical, Threads, None
<1>1. CASE Begin(t)
  BY <1>1, LoopsAssumption DEF Begin
<1>2. CASE Lock(t)
  BY <1>2 DEF Lock
<1>3. CASE Load(t)
  BY <1>3 DEF Load
<1>4. CASE Store(t)
  BY <1>4 DEF Store
<1>5. CASE Unlock(t)
  BY <1>5, LoopsAssumption DEF Unlock
<1>6. CASE TrylockFails(t)
  BY <1>6 DEF TrylockFails, vars
<1> QED  BY <1>1, <1>2, <1>3, <1>4, <1>5, <1>6 DEF Child

LEMMA Invariance == Spec => []IInv
<1>1. IInv /\ UNCHANGED vars => IInv'
  BY DEF IInv, TypeOK, LockInv, WorkerInv, MainInv, SumInv, Made, Critical, vars
<1>2. IInv /\ [Next]_vars => IInv'
  BY <1>1, MainIInv, ChildIInv DEF Next, Ended
<1> QED  BY <1>2, InitIInv, PTL DEF Spec
-----------------------------------------------------------------------------
(* The two threads are never in the critical section together, and the     *)
(* lock is free when main destroys it.                                     *)
THEOREM MutualExclusion == Spec => []Exclusion
<1>1. IInv => Exclusion
  BY DEF IInv, TypeOK, LockInv, MainInv, Exclusion, Critical, Threads, None
<1> QED  BY <1>1, Invariance, PTL

(* The program implements the counter that is raised atomically and        *)
(* reported when it has reached its final value.                           *)
THEOREM CountsAtomically == Spec => Counts
<1>1. Init => Abstract!Init
  BY DEF Init, Abstract!Init
<1>2. ASSUME IInv, [Next]_vars
      PROVE  [Abstract!Add \/ Abstract!Report]_(Abstract!vars)
  <2> USE DEF Abstract!Add, Abstract!Report, Abstract!vars
  <2>1. CASE Main
    <3>1. CASE Join("join2", 2, "print")
      <4>1. num = 2 * Loops
        BY <1>2, <3>1, LoopsAssumption
           DEF IInv, TypeOK, WorkerInv, MainInv, SumInv, Made, Join, Threads
      <4> QED  BY <3>1, <4>1 DEF Join
    <3>2. CASE ~Join("join2", 2, "print")
      BY <2>1, <3>2 DEF Main, Create, Join, PrintAndDestroy
    <3> QED  BY <3>1, <3>2
  <2>2. ASSUME NEW t \in Threads, Store(t) PROVE Abstract!Add
    <3>1. num' = num + 1
      BY <1>2, <2>2 DEF Store, IInv, WorkerInv
    <3>2. num < 2 * Loops
      BY <1>2, <2>2, LoopsAssumption
         DEF Store, IInv, TypeOK, LockInv, WorkerInv, SumInv, Made, Threads, Critical
    <3>3. mainPc \notin {"print", "return"} /\ mainPc' = mainPc
      BY <1>2, <2>2 DEF Store, IInv, MainInv, Threads
    <3> QED  BY <3>1, <3>2, <3>3, LoopsAssumption
  <2>3. ASSUME NEW t \in Threads, Begin(t) \/ Lock(t) \/ TrylockFails(t)
                                     \/ Load(t) \/ Unlock(t)
        PROVE  UNCHANGED Abstract!vars
    BY <2>3 DEF Begin, Lock, TrylockFails, Load, Unlock, vars
  <2>4. CASE Ended \/ UNCHANGED vars
    BY <2>4 DEF Ended, vars
  <2> QED  BY <1>2, <2>1, <2>2, <2>3, <2>4 DEF Next, Child
<1> QED  BY <1>1, <1>2, Invariance, PTL DEF Spec, Counts, Abstract!Spec
-----------------------------------------------------------------------------
(* The threads under a rwlock.                                             *)
WriterThreads == {t \in R!Threads : R!Writes(t)}

(* The raises of a writer that are in num, and all of them.                *)
Raised(t) == IF rpc[t] = "unlock" THEN ri[t] + 1 ELSE ri[t]
Raises    == {w \in WriterThreads \X (1..Rounds) : w[2] <= Raised(w[1])}

RwTypeInv ==
    /\ rmainPc \in {"init", "create", "join", "return", "exit"}
    /\ k \in R!Threads
    /\ rpc \in [R!Threads -> {"new", "loop", "lock", "load", "store", "unlock", "done"}]
    /\ ri \in [R!Threads -> 0..Rounds] /\ value \in [R!Threads -> Nat]
    /\ holders \in SUBSET R!Threads /\ rnum \in Nat

(* A writer that holds the lock holds it alone.                            *)
RwLockInv ==
    /\ \A t \in R!Threads : t \in holders <=> rpc[t] \in {"load", "store", "unlock"}
    /\ \A s, t \in holders : R!Writes(s) => s = t

(* What a thread has read is still in num while it holds the lock.         *)
RwThreadInv ==
    \A t \in R!Threads :
        /\ rpc[t] \in {"lock", "load", "store", "unlock"} => ri[t] < Rounds
        /\ rpc[t] = "done" => ri[t] = Rounds
        /\ rpc[t] = "store" => R!Writes(t)
        /\ rpc[t] \in {"store", "unlock"} => value[t] = rnum

RwMainInv ==
    /\ rmainPc = "init" => k = 1
    /\ rmainPc \in {"init", "create"} => \A t \in R!Threads : t >= k => rpc[t] = "new"
    /\ rmainPc = "join" => \A t \in R!Threads : t < k => rpc[t] = "done"
    /\ rmainPc = "return" => \A t \in R!Threads : rpc[t] = "done"

RwSumInv == rnum = Raise * Cardinality(Raises)

RwStateInv == RwTypeInv /\ RwLockInv /\ RwThreadInv /\ RwMainInv
RwInv == RwStateInv /\ RwSumInv

LEMMA RwInit == R!Init => RwInv
<1> SUFFICES ASSUME R!Init PROVE RwInv
  OBVIOUS
<1>1. RwStateInv
  BY RwlockAssumption
     DEF R!Init, R!Threads, RwStateInv, RwTypeInv, RwLockInv, RwThreadInv, RwMainInv
<1>2. Raises = {}
  BY DEF R!Init, Raises, Raised, WriterThreads
<1>3. RwSumInv
  BY <1>2, FS_EmptySet, RwlockAssumption DEF RwSumInv, R!Init
<1> QED  BY <1>1, <1>3 DEF RwInv

LEMMA RwMainStep == RwStateInv /\ R!Main => RwStateInv'
<1> SUFFICES ASSUME RwStateInv, R!Main PROVE RwStateInv'
  OBVIOUS
<1> USE RwlockAssumption DEF RwStateInv, RwTypeInv, RwLockInv, RwThreadInv, RwMainInv, R!Threads
<1>1. CASE R!RwlockInit
  BY <1>1 DEF R!RwlockInit
<1>2. CASE R!Create
  <2>1. CASE rpc' = [rpc EXCEPT ![k] = "loop"]
    <3>1. /\ rmainPc = "create" /\ rpc[k] = "new"
          /\ UNCHANGED <<ri, value, holders, rnum>>
          /\ \/ k = Readers + Writers /\ rmainPc' = "join" /\ k' = 1
             \/ k # Readers + Writers /\ rmainPc' = "create" /\ k' = k + 1
      BY <1>2, <2>1 DEF R!Create
    <3>2. RwTypeInv'
      <4>1. k' \in R!Threads
        BY <3>1
      <4>2. rpc' \in [R!Threads -> {"new", "loop", "lock", "load", "store", "unlock", "done"}]
        BY <2>1
      <4> QED  BY <3>1, <4>1, <4>2
    <3>3. RwLockInv'
      BY <2>1, <3>1
    <3>4. RwThreadInv'
      BY <2>1, <3>1
    <3>5. RwMainInv'
      BY <2>1, <3>1
    <3> QED  BY <3>2, <3>3, <3>4, <3>5
  <2>2. CASE rmainPc' = "exit" /\ UNCHANGED <<k, rpc>>
    BY <1>2, <2>2 DEF R!Create
  <2> QED  BY <1>2, <2>1, <2>2 DEF R!Create
<1>3. CASE R!Join
  <2>1. /\ rmainPc = "join" /\ rpc[k] = "done"
        /\ \/ rmainPc' = "return" /\ k' = k
           \/ rmainPc' = "join" /\ k' = k + 1 /\ k # Readers + Writers
        /\ rmainPc' = "return" => k = Readers + Writers
        /\ UNCHANGED <<rpc, ri, value, holders, rnum>>
    BY <1>3 DEF R!Join
  <2>2. rmainPc' \in {"return", "join"} /\ k' \in R!Threads
    BY <2>1
  <2>3. RwTypeInv'
    BY <2>1, <2>2
  <2>4. RwLockInv' /\ RwThreadInv'
    BY <2>1
  <2>5. RwMainInv'
    <3>1. \A t \in R!Threads : t <= k => rpc[t] = "done"
      BY <2>1
    <3>2. rmainPc' = "join" => \A t \in R!Threads : t < k' => rpc'[t] = "done"
      BY <2>1, <3>1
    <3>3. rmainPc' = "return" => \A t \in R!Threads : rpc'[t] = "done"
      BY <2>1, <3>1
    <3> QED  BY <2>2, <3>2, <3>3
  <2> QED  BY <2>3, <2>4, <2>5
<1> QED  BY <1>1, <1>2, <1>3 DEF R!Main

LEMMA RwThreadStep == ASSUME RwStateInv, NEW t \in R!Threads, R!Thread(t) PROVE RwStateInv'
<1> USE RwlockAssumption DEF RwStateInv, RwTypeInv, RwLockInv, RwThreadInv, RwMainInv, R!Threads,
        R!At, R!Running, R!Writes
<1>1. CASE R!Begin(t)
  <2>1. /\ rpc[t] = "loop" /\ rmainPc \notin {"exit", "return"}
        /\ rpc' = [rpc EXCEPT ![t] = IF ri[t] < Rounds THEN "lock" ELSE "done"]
        /\ UNCHANGED <<rmainPc, k, ri, value, holders, rnum>>
    BY <1>1 DEF R!Begin
  <2>2. RwTypeInv'
    BY <2>1
  <2>3. RwLockInv'
    BY <2>1
  <2>4. RwThreadInv'
    BY <2>1
  <2>5. RwMainInv'
    BY <2>1
  <2> QED  BY <2>2, <2>3, <2>4, <2>5
<1>2. CASE R!Rdlock(t)
  BY <1>2 DEF R!Rdlock
<1>3. CASE R!Wrlock(t)
  BY <1>3 DEF R!Wrlock
<1>4. CASE R!Load(t)
  BY <1>4 DEF R!Load
<1>5. CASE R!Store(t)
  <2>1. /\ rpc[t] = "store" /\ rmainPc \notin {"exit", "return"}
        /\ rnum' = value[t] + Raise /\ value' = [value EXCEPT ![t] = value[t] + Raise]
        /\ rpc' = [rpc EXCEPT ![t] = "unlock"]
        /\ UNCHANGED <<rmainPc, k, ri, holders>>
    BY <1>5 DEF R!Store
  <2>2. RwTypeInv'
    <3>1. value[t] + Raise \in Nat
      OBVIOUS
    <3>2. /\ value' \in [R!Threads -> Nat]
          /\ rpc' \in [R!Threads -> {"new", "loop", "lock", "load", "store", "unlock", "done"}]
      BY <2>1, <3>1
    <3> QED  BY <2>1, <3>1, <3>2
  <2>3. RwLockInv'
    BY <2>1
  <2>4. RwThreadInv'
    <3>1. \A s \in R!Threads : s # t => rpc[s] \notin {"store", "unlock"}
      BY <2>1
    <3> QED  BY <2>1, <3>1
  <2>5. RwMainInv'
    BY <2>1
  <2> QED  BY <2>2, <2>3, <2>4, <2>5
<1>6. CASE R!Unlock(t)
  <2>1. /\ rpc[t] = "unlock" /\ rmainPc \notin {"exit", "return"}
        /\ holders' = holders \ {t} /\ ri' = [ri EXCEPT ![t] = ri[t] + 1]
        /\ rpc' = [rpc EXCEPT ![t] = "loop"]
        /\ UNCHANGED <<rmainPc, k, value, rnum>>
    BY <1>6 DEF R!Unlock
  <2>2. RwTypeInv'
    BY <2>1
  <2>3. RwLockInv'
    BY <2>1
  <2>4. RwThreadInv'
    BY <2>1
  <2>5. RwMainInv'
    BY <2>1
  <2> QED  BY <2>2, <2>3, <2>4, <2>5
<1> QED  BY <1>1, <1>2, <1>3, <1>4, <1>5, <1>6 DEF R!Thread, R!Reader, R!Writer

(* The raises of all writers: finite, and as many as they are to make.     *)
LEMMA RaisesFinite ==
    /\ IsFiniteSet(WriterThreads \X (1..Rounds))
    /\ Cardinality(WriterThreads \X (1..Rounds)) = Writers * Rounds
    /\ IsFiniteSet(Raises) /\ Cardinality(Raises) \in Nat
<1>1. WriterThreads = Readers + 1..Readers + Writers
  BY RwlockAssumption DEF WriterThreads, R!Threads, R!Writes
<1>2. IsFiniteSet(WriterThreads) /\ Cardinality(WriterThreads) = Writers
  BY <1>1, RwlockAssumption, FS_Interval
<1>3. IsFiniteSet(1..Rounds) /\ Cardinality(1..Rounds) = Rounds
  BY RwlockAssumption, FS_Interval
<1>4. /\ IsFiniteSet(WriterThreads \X (1..Rounds))
      /\ Cardinality(WriterThreads \X (1..Rounds)) = Writers * Rounds
  BY <1>2, <1>3, FS_Product
<1>5. IsFiniteSet(Raises)
  BY <1>4, FS_Subset DEF Raises
<1> QED  BY <1>4, <1>5, FS_CardinalityType

(* Only a store adds a raise, and it adds one.                             *)
LEMMA StoreRaises ==
    ASSUME RwStateInv, NEW t \in R!Threads, R!Store(t)
    PROVE  /\ <<t, ri[t] + 1>> \in WriterThreads \X (1..Rounds)
           /\ <<t, ri[t] + 1>> \notin Raises
           /\ Raises' = Raises \union {<<t, ri[t] + 1>>}
<1>1. /\ rpc[t] = "store" /\ R!Writes(t) /\ ri[t] \in Nat /\ ri[t] < Rounds
      /\ rpc' = [rpc EXCEPT ![t] = "unlock"] /\ ri' = ri
  BY DEF R!Store, R!At, RwStateInv, RwTypeInv, RwThreadInv
<1>2. <<t, ri[t] + 1>> \in WriterThreads \X (1..Rounds)
  BY <1>1, RwlockAssumption DEF WriterThreads
<1>3. <<t, ri[t] + 1>> \notin Raises
  BY <1>1 DEF Raises, Raised
<1>4. /\ Raised(t)' = ri[t] + 1 /\ Raised(t) = ri[t]
      /\ \A s \in R!Threads : s # t => Raised(s)' = Raised(s)
  BY <1>1 DEF Raised, RwStateInv, RwTypeInv
<1>5. ASSUME NEW w \in WriterThreads \X (1..Rounds)
      PROVE  w \in Raises' <=> w \in Raises \union {<<t, ri[t] + 1>>}
  <2>1. w[1] \in R!Threads /\ w[2] \in 1..Rounds /\ w = <<w[1], w[2]>>
    BY DEF WriterThreads
  <2>2. w \in Raises' <=> w[2] <= Raised(w[1])'
    BY DEF Raises, WriterThreads
  <2>3. w \in Raises <=> w[2] <= Raised(w[1])
    BY DEF Raises
  <2>4. CASE w[1] = t
    BY <2>1, <2>2, <2>3, <2>4, <1>1, <1>4
  <2>5. CASE w[1] # t
    BY <2>1, <2>2, <2>3, <2>5, <1>4
  <2> QED  BY <2>4, <2>5
<1>6. Raises \subseteq WriterThreads \X (1..Rounds) /\ Raises' \subseteq WriterThreads \X (1..Rounds)
  BY DEF Raises, WriterThreads
<1> QED  BY <1>2, <1>3, <1>5, <1>6

LEMMA OthersRaiseNothing ==
    ASSUME RwStateInv, [R!Next]_(R!vars), \A t \in R!Threads : ~R!Store(t)
    PROVE  Raises' = Raises /\ rnum' = rnum
<1>1. /\ rnum' = rnum
      /\ \A t \in R!Threads : Raised(t)' = Raised(t) \/ ~R!Writes(t)
  <2> USE RwlockAssumption DEF RwStateInv, RwTypeInv, RwThreadInv, RwMainInv, Raised
  <2>1. CASE R!Main
    <3>1. /\ UNCHANGED <<ri, rnum>>
          /\ \/ UNCHANGED rpc
             \/ rpc[k] = "new" /\ rpc' = [rpc EXCEPT ![k] = "loop"]
      BY <2>1 DEF R!Main, R!RwlockInit, R!Create, R!Join, R!Threads
    <3> QED  BY <3>1
  <2>2. ASSUME NEW t \in R!Threads, R!Thread(t)
        PROVE  rnum' = rnum /\ \A s \in R!Threads : Raised(s)' = Raised(s) \/ ~R!Writes(s)
    <3>1. CASE R!Begin(t)
      BY <3>1 DEF R!Begin, R!At
    <3>2. CASE R!Rdlock(t) \/ R!Wrlock(t)
      BY <3>2 DEF R!Rdlock, R!Wrlock, R!At
    <3>3. CASE R!Load(t)
      BY <3>3 DEF R!Load, R!At
    <3>4. CASE R!Unlock(t)
      BY <3>4 DEF R!Unlock, R!At
    <3> QED  BY <2>2, <3>1, <3>2, <3>3, <3>4 DEF R!Thread, R!Reader, R!Writer
  <2>3. CASE UNCHANGED R!vars
    BY <2>3 DEF R!vars
  <2> QED  BY <2>1, <2>2, <2>3 DEF R!Next, R!Ended
<1> QED  BY <1>1 DEF Raises, WriterThreads

LEMMA RwStep == RwInv /\ [R!Next]_(R!vars) => RwInv'
<1> SUFFICES ASSUME RwInv, [R!Next]_(R!vars) PROVE RwInv'
  OBVIOUS
<1>1. RwStateInv'
  <2>1. CASE UNCHANGED R!vars
    BY <2>1 DEF RwInv, RwStateInv, RwTypeInv, RwLockInv, RwThreadInv, RwMainInv, R!vars
  <2> QED  BY <2>1, RwMainStep, RwThreadStep DEF R!Next, R!Ended, RwInv
<1>2. RwSumInv'
  <2>1. CASE \E t \in R!Threads : R!Store(t)
    <3>1. PICK t \in R!Threads : R!Store(t)
      BY <2>1
    <3>2. Cardinality(Raises') = Cardinality(Raises) + 1 /\ Cardinality(Raises) \in Nat
      BY <3>1, StoreRaises, RaisesFinite, FS_AddElement DEF RwInv
    <3>3. rnum' = rnum + Raise
      BY <3>1 DEF R!Store, R!At, RwInv, RwStateInv, RwThreadInv
    <3> QED  BY <3>2, <3>3, RwlockAssumption DEF RwInv, RwSumInv
  <2>2. CASE \A t \in R!Threads : ~R!Store(t)
    BY <2>2, OthersRaiseNothing DEF RwInv, RwSumInv
  <2> QED  BY <2>1, <2>2
<1> QED  BY <1>1, <1>2 DEF RwInv

LEMMA RwInvariance == R!Spec => []RwInv
BY RwInit, RwStep, PTL DEF R!Spec

(* The programs with a rwlock implement the counter that is raised         *)
(* atomically: no raise of a writer is lost, main returns when all are     *)
(* made; and under its lock a thread prints what num is.                   *)
THEOREM RwlockCountsAtomically == R!Spec => RwCounts
<1>1. R!Init => R!Abstract!Init
  BY DEF R!Init, R!Abstract!Init
<1>2. ASSUME RwInv, [R!Next]_(R!vars)
      PROVE  [R!Abstract!Add \/ R!Abstract!Report]_(R!Abstract!vars)
  <2> USE DEF R!Abstract!Add, R!Abstract!Report, R!Abstract!vars
  <2>1. CASE \E t \in R!Threads : R!Store(t)
    <3>1. PICK t \in R!Threads : R!Store(t)
      BY <2>1
    <3>2. rnum' = rnum + Raise /\ rmainPc' = rmainPc /\ rmainPc # "return"
      BY <1>2, <3>1 DEF R!Store, R!At, R!Running, RwInv, RwStateInv, RwThreadInv
    <3>3. Cardinality(Raises) \in Nat /\ Cardinality(Raises) < Writers * Rounds
      <4>1. /\ Raises \subseteq WriterThreads \X (1..Rounds)
            /\ Raises # WriterThreads \X (1..Rounds)
        BY <1>2, <3>1, StoreRaises DEF RwInv, Raises
      <4> QED  BY <4>1, RaisesFinite, FS_Subset, RwlockAssumption
    <3>4. rnum < Raise * (Writers * Rounds) \/ Raise = 0
      <4>1. rnum = Raise * Cardinality(Raises)
        BY <1>2 DEF RwInv, RwSumInv
      <4>2. Writers * Rounds \in Nat
        BY RwlockAssumption
      <4> HIDE DEF Raises
      <4> QED  BY <4>1, <4>2, <3>3, RwlockAssumption
    <3> QED  BY <3>2, <3>4, <1>2 DEF RwInv, RwStateInv, RwTypeInv
  <2>2. CASE R!Join /\ rmainPc' = "return"
    <3>1. \A t \in R!Threads : rpc[t] = "done" /\ ri[t] = Rounds
      BY <1>2, <2>2, RwlockAssumption
         DEF R!Join, R!Threads, RwInv, RwStateInv, RwTypeInv, RwThreadInv, RwMainInv
    <3>2. Raises = WriterThreads \X (1..Rounds)
      BY <3>1 DEF Raises, Raised, WriterThreads
    <3>3. rnum = Raise * (Writers * Rounds)
      BY <1>2, <3>2, RaisesFinite DEF RwInv, RwSumInv
    <3> QED  BY <2>2, <3>3 DEF R!Join
  <2>3. CASE (\A t \in R!Threads : ~R!Store(t)) /\ ~(R!Join /\ rmainPc' = "return")
    <3>1. rnum' = rnum
      BY <1>2, <2>3, OthersRaiseNothing DEF RwInv
    <3>2. (rmainPc' = "return") = (rmainPc = "return")
      BY <1>2, <2>3 DEF R!Next, R!Main, R!RwlockInit, R!Create, R!Join, R!Thread, R!Reader,
          R!Writer,
         R!Begin, R!Rdlock, R!Wrlock, R!Load, R!Unlock, R!Store, R!At, R!Running, R!Ended, R!vars
    <3> QED  BY <3>1, <3>2
  <2> QED  BY <2>1, <2>2, <2>3
<1>3. RwInv => R!PrintsCurrent
  BY DEF RwInv, RwStateInv, RwThreadInv, R!PrintsCurrent
<1> QED
  BY <1>1, <1>2, <1>3, RwInvariance, PTL DEF R!Spec, RwCounts, R!Counts, R!Abstract!Spec
-----------------------------------------------------------------------------
(* The holder of the mutex is the thread that is between taking it and     *)
(* giving it back; a dead child never gives it back.                       *)
CondLockInv ==
    /\ cowner = "main"  <=> cmainPc \in {"load", "store", "unlock"}
    /\ cowner = "child" <=> childPc \in {"test", "drain", "decrement", "unlock", "gone"}

(* What a thread has loaded is still in cnum when it stores.                *)
CondLoadInv ==
    /\ cmainPc = "store" => reg = cnum
    /\ childPc = "decrement" => creg = cnum /\ cnum > 0

(* Where main is tells how far the loop and the child have come.           *)
CondProgressInv ==
    /\ cmainPc = "create" => childPc = "new"
    /\ cmainPc \in {"lock", "load", "store", "unlock", "signal"} => ci < Loops
    /\ cmainPc \in {"destroy", "return"} => childPc = "gone"
    /\ cancelled \/ childPc = "gone" => cmainPc \in {"join", "destroy", "return"}

CondIInv == /\ C!TypeOK /\ CondLockInv /\ CondLoadInv /\ CondProgressInv
            /\ C!NoLostWakeup /\ C!Conserved /\ C!LeftWasTold

LEMMA CondInitIInv == C!Init => CondIInv
<1> SUFFICES ASSUME C!Init PROVE CondIInv
  OBVIOUS
<1>1. signalled \in BOOLEAN /\ cancelled \in BOOLEAN
  BY Zenon DEF C!Init
<1> QED
  BY <1>1, LoopsAssumption
     DEF C!Init, CondIInv, C!TypeOK, CondLockInv, CondLoadInv, CondProgressInv, C!NoLostWakeup,
         C!Conserved, C!LeftWasTold

LEMMA CondMainIInv == CondIInv /\ C!Main => CondIInv'
<1> SUFFICES ASSUME CondIInv, C!Main PROVE CondIInv'
  OBVIOUS
<1> USE LoopsAssumption
    DEF CondIInv, C!TypeOK, CondLockInv, CondLoadInv, CondProgressInv, C!NoLostWakeup,
        C!Conserved, C!LeftWasTold, C!childVars
<1>1. CASE C!Create
  BY <1>1 DEF C!Create
<1>2. CASE C!Loop
  BY <1>2 DEF C!Loop
<1>3. CASE C!MainLock
  BY <1>3 DEF C!MainLock
<1>4. CASE C!IncrementLoad
  BY <1>4 DEF C!IncrementLoad
<1>5. CASE C!IncrementStore
  BY <1>5 DEF C!IncrementStore
<1>6. CASE C!MainUnlock
  BY <1>6 DEF C!MainUnlock
<1>7. CASE C!Signal
  <2>1. signalled' \in BOOLEAN /\ (childPc = "waiting" => signalled')
    BY <1>7, Zenon DEF C!Signal
  <2>2. C!NoLostWakeup'
    BY <1>7, <2>1 DEF C!Signal
  <2> QED  BY <1>7, <2>1, <2>2 DEF C!Signal
<1>8. CASE C!Cancel
  <2>1. cancelled' \in BOOLEAN
    BY <1>8, Zenon DEF C!Cancel
  <2> QED  BY <1>8, <2>1 DEF C!Cancel
<1>9. CASE C!Join
  BY <1>9 DEF C!Join
<1>10. CASE C!DestroyAndPrint
  BY <1>10 DEF C!DestroyAndPrint
<1> QED
  BY <1>1, <1>2, <1>3, <1>4, <1>5, <1>6, <1>7, <1>8, <1>9, <1>10 DEF C!Main

LEMMA CondChildIInv == CondIInv /\ (C!Child \/ C!Wake) => CondIInv'
<1> SUFFICES ASSUME CondIInv, C!Child \/ C!Wake PROVE CondIInv'
  OBVIOUS
<1> USE LoopsAssumption
    DEF CondIInv, C!TypeOK, CondLockInv, CondLoadInv, CondProgressInv, C!NoLostWakeup,
        C!Conserved, C!LeftWasTold, C!mainVars, C!Running
<1>1. CASE C!ChildLock
  BY <1>1 DEF C!ChildLock
<1>2. CASE C!Test
  <2>1. CASE cnum > 0
    BY <1>2, <2>1 DEF C!Test
  <2>2. CASE cnum <= 0
    <3>1. signalled' \in BOOLEAN
      BY <1>2, Zenon DEF C!Test
    <3> QED  BY <1>2, <2>2, <3>1 DEF C!Test
  <2> QED  BY <2>1, <2>2
<1>3. CASE C!Wake
  BY <1>3 DEF C!Wake
<1>4. CASE C!Relock
  BY <1>4 DEF C!Relock
<1>5. CASE C!Die
  BY <1>5 DEF C!Die
<1>6. CASE C!DrainLoad
  BY <1>6 DEF C!DrainLoad
<1>7. CASE C!DrainStore
  BY <1>7 DEF C!DrainStore
<1>8. CASE C!ChildUnlock
  BY <1>8 DEF C!ChildUnlock
<1> QED
  BY <1>1, <1>2, <1>3, <1>4, <1>5, <1>6, <1>7, <1>8 DEF C!Child

LEMMA CondInvariance == C!Spec => []CondIInv
<1>1. CondIInv /\ UNCHANGED C!vars => CondIInv'
  BY DEF CondIInv, C!TypeOK, CondLockInv, CondLoadInv, CondProgressInv, C!NoLostWakeup, C!Conserved,
         C!LeftWasTold, C!vars, C!mainVars, C!childVars
<1>2. CondIInv /\ [C!Next]_(C!vars) => CondIInv'
  BY <1>1, CondMainIInv, CondChildIInv DEF C!Next, C!Ended
<1> QED  BY <1>2, CondInitIInv, PTL DEF C!Spec
-----------------------------------------------------------------------------
(* The child never sleeps on a positive cnum that nobody will tell it of,   *)
(* although main signals without the mutex.                                *)
THEOREM SleeperIsTold == C!Spec => []NoLostWakeup
<1>1. CondIInv => NoLostWakeup
  BY DEF CondIInv, NoLostWakeup
<1> QED  BY <1>1, CondInvariance, PTL

(* No update of cnum by main or by the child is overwritten by the other's, *)
(* and a child that is gone has left a positive cnum only if it was told.  *)
THEOREM NothingIsLost == C!Spec => []NumAccounted
<1>1. CondIInv => NumAccounted
  BY DEF CondIInv, NumAccounted, C!NumAccounted
<1> QED  BY <1>1, CondInvariance, PTL
-----------------------------------------------------------------------------

(* The programs of 11_thread.                                              *)
Cancelling == {"threadcancel", "testcancel", "cancelpoint", "setcancelstate"}
Cleaning   == {"cleanupafter", "cleanuplast"}

MainCall  == T!Text(prog, "main")
ChildCall == T!Text(prog, "child")

ThreadTypes ==
    /\ prog \in DOMAIN T!Answers
    /\ at \in [{"main", "child"} -> Nat] /\ left \in [{"main", "child"} -> Int]
    /\ at["main"] \in 1..Len(MainCall) /\ at["child"] \in 1..Len(ChildCall)
    /\ life \in [{"main", "child"} -> {"none", "alive", "dead", "gone"}]
    /\ joinable \in BOOLEAN /\ joining \in BOOLEAN /\ request \in BOOLEAN /\ cancelable \in BOOLEAN
    /\ slips \in Nat

LEMMA TextsBegin == prog \in DOMAIN T!Answers => 1 \in 1..Len(MainCall) /\ 1 \in 1..Len(ChildCall)
<1> USE DEF MainCall, ChildCall, T!Text
<1>1. CASE prog = "threadcreate"
  BY <1>1 DEF T!ThreadcreateMain, T!ThreadcreateChild
<1>2. CASE prog = "threadexit"
  BY <1>2 DEF T!ThreadexitMain, T!ThreadexitChild
<1>3. CASE prog = "threadrecycle"
  BY <1>3 DEF T!ThreadrecycleMain, T!ThreadrecycleChild
<1>4. CASE prog = "threadcancel"
  BY <1>4 DEF T!ThreadcancelMain, T!ThreadcancelChild
<1>5. CASE prog = "testcancel"
  BY <1>5 DEF T!TestcancelMain, T!TestcancelChild
<1>6. CASE prog = "cancelpoint"
  BY <1>6 DEF T!CancelpointMain, T!CancelpointChild
<1>7. CASE prog = "setcancelstate"
  BY <1>7 DEF T!SetcancelstateMain, T!SetcancelstateChild
<1>8. CASE prog = "detachother"
  BY <1>8 DEF T!DetachotherMain, T!DetachotherChild
<1>9. CASE prog = "detachself"
  BY <1>9 DEF T!DetachselfMain, T!DetachselfChild
<1>10. CASE prog = "cleanupafter"
  BY <1>10 DEF T!CleanupafterMain, T!CleanupafterChild
<1>11. CASE prog = "cleanuplast"
  BY <1>11 DEF T!CleanuplastMain, T!CleanuplastChild
<1>12. CASE prog = "detachstate"
  BY <1>12 DEF T!DetachstateMain, T!DetachstateChild
<1>13. CASE prog = "stacksize"
  BY <1>13 DEF T!StacksizeMain, T!StacksizeChild
<1> QED
  BY <1>1, <1>2, <1>3, <1>4, <1>5, <1>6, <1>7, <1>8, <1>9, <1>10, <1>11, <1>12, <1>13 DEF T!Answers

(* What main calls where.                                                  *)
LEMMA MainCalls ==
    ASSUME prog \in DOMAIN T!Answers, NEW n \in 1..Len(MainCall)
    PROVE  /\ n + 1 \in 1..Len(MainCall) \/ MainCall[n] \in {"return", "exit"}
           /\ MainCall[n] \in {"return", "exit"} => n = Len(MainCall)
           /\ MainCall[n] \in {"create", "create_detached"} <=> n = 1
           /\ MainCall[n] = "create_detached" <=> (n = 1 /\ prog = "detachstate")
           /\ MainCall[n] = "cancel" => prog \in Cancelling /\ n = 3
           /\ MainCall[n] = "join" => prog \in Cancelling \cup Cleaning \cup {"threadrecycle", "stacksize"}
           /\ prog = "detachother" => Len(MainCall) = 5
           /\ prog = "detachself" => Len(MainCall) = 4
           /\ MainCall[n] = "tryjoin" => \/ prog = "detachother" /\ n = 4
                                         \/ prog \in {"detachself", "detachstate"} /\ n = 3
           /\ MainCall[n] = "detach" => prog = "detachother" /\ n = 2
           /\ MainCall[n] = "sleep1" => n = IF prog = "detachother" THEN 3 ELSE 2
           /\ MainCall[n] \in {"create", "create_detached", "cancel", "join", "tryjoin", "detach",
                               "sleep1", "return", "exit"}
<1> USE DEF MainCall, T!Text, Cancelling, Cleaning
<1>1. CASE prog = "threadcreate"
  BY <1>1 DEF T!ThreadcreateMain
<1>2. CASE prog = "threadexit"
  BY <1>2 DEF T!ThreadexitMain
<1>3. CASE prog = "threadrecycle"
  BY <1>3 DEF T!ThreadrecycleMain
<1>4. CASE prog = "threadcancel"
  BY <1>4 DEF T!ThreadcancelMain
<1>5. CASE prog = "testcancel"
  BY <1>5 DEF T!TestcancelMain
<1>6. CASE prog = "cancelpoint"
  BY <1>6 DEF T!CancelpointMain
<1>7. CASE prog = "setcancelstate"
  BY <1>7 DEF T!SetcancelstateMain
<1>8. CASE prog = "detachother"
  BY <1>8 DEF T!DetachotherMain
<1>9. CASE prog = "detachself"
  BY <1>9 DEF T!DetachselfMain
<1>10. CASE prog = "cleanupafter"
  BY <1>10 DEF T!CleanupafterMain
<1>11. CASE prog = "cleanuplast"
  BY <1>11 DEF T!CleanuplastMain
<1>12. CASE prog = "detachstate"
  BY <1>12 DEF T!DetachstateMain
<1>13. CASE prog = "stacksize"
  BY <1>13 DEF T!StacksizeMain
<1> QED
  BY <1>1, <1>2, <1>3, <1>4, <1>5, <1>6, <1>7, <1>8, <1>9, <1>10, <1>11, <1>12, <1>13 DEF T!Answers

(* What a child may end with.                                              *)
Ends ==
    [ threadcreate   |-> {"0"}, threadexit |-> {"0"}, threadrecycle |-> {"10"},
      threadcancel   |-> {"canceled"}, testcancel |-> {"canceled"}, cancelpoint |-> {"canceled"},
      setcancelstate |-> {}, detachother |-> {"0"}, detachself |-> {"0"},
      cleanupafter   |-> {"10"}, cleanuplast |-> {"10"}, detachstate |-> {"0"}, stacksize |-> {"0"} ]

(* The handlers pushed at each call of a clean-up program.                 *)
Stacked ==
    [ cleanupafter |-> <<<<>>, <<>>, <<1>>, <<2, 1>>, <<3, 2, 1>>, <<2, 1>>, <<2, 1>>, <<2, 1>>>>,
      cleanuplast  |-> <<<<>>, <<>>, <<1>>, <<2, 1>>, <<3, 2, 1>>, <<3, 2, 1>>>> ]

(* What the child calls where.                                             *)
LEMMA ChildCalls ==
    ASSUME prog \in DOMAIN T!Answers, NEW n \in 1..Len(ChildCall)
    PROVE  /\ \/ n + 1 \in 1..Len(ChildCall)
              \/ ChildCall[n] \in {"return", "exit10", "again1", "again2", "spin", "testcancel"}
           /\ ChildCall[n] = "again1" => prog = "threadcancel" /\ n - 1 \in 1..Len(ChildCall)
           /\ ChildCall[n] = "again2" => prog = "setcancelstate" /\ n = 4
           /\ ChildCall[n] = "disable" <=> (prog = "setcancelstate" /\ n = 1)
           /\ ChildCall[n] = "detach" <=> (prog = "detachself" /\ n = 1)
           /\ ChildCall[n] = "return" => Ends[prog] = {"0"} /\ prog \notin Cleaning
           /\ ChildCall[n] = "exit10" => Ends[prog] = {"10"} /\ n + 1 > Len(ChildCall)
           /\ prog \in Cancelling \ {"setcancelstate"} => Ends[prog] = {"canceled"}
           /\ ChildCall[n] \in {"push1", "push2", "push3", "pop1"} => prog \in Cleaning
           /\ prog = "cleanupafter" =>
                  ChildCall = <<"puts", "push1", "push2", "push3", "pop1", "puts", "sleep2", "exit10">>
           /\ prog = "cleanuplast" =>
                  ChildCall = <<"puts", "push1", "push2", "push3", "sleep2", "exit10">>
           /\ prog = "cancelpoint" => ChildCall = <<"puts", "spin">>
           /\ prog = "detachother" => ChildCall = <<"puts", "sleep2", "puts", "return">>
           /\ prog = "detachself" => ChildCall = <<"detach", "puts", "sleep2", "puts", "return">>
<1> USE DEF ChildCall, T!Text, Cancelling, Cleaning, Ends
<1>1. CASE prog = "threadcreate"
  BY <1>1 DEF T!ThreadcreateChild
<1>2. CASE prog = "threadexit"
  BY <1>2 DEF T!ThreadexitChild
<1>3. CASE prog = "threadrecycle"
  BY <1>3 DEF T!ThreadrecycleChild
<1>4. CASE prog = "threadcancel"
  BY <1>4 DEF T!ThreadcancelChild
<1>5. CASE prog = "testcancel"
  BY <1>5 DEF T!TestcancelChild
<1>6. CASE prog = "cancelpoint"
  BY <1>6 DEF T!CancelpointChild
<1>7. CASE prog = "setcancelstate"
  BY <1>7 DEF T!SetcancelstateChild
<1>8. CASE prog = "detachother"
  BY <1>8 DEF T!DetachotherChild
<1>9. CASE prog = "detachself"
  BY <1>9 DEF T!DetachselfChild
<1>10. CASE prog = "cleanupafter"
  BY <1>10 DEF T!CleanupafterChild
<1>11. CASE prog = "cleanuplast"
  BY <1>11 DEF T!CleanuplastChild
<1>12. CASE prog = "detachstate"
  BY <1>12 DEF T!DetachstateChild
<1>13. CASE prog = "stacksize"
  BY <1>13 DEF T!StacksizeChild
<1> QED
  BY <1>1, <1>2, <1>3, <1>4, <1>5, <1>6, <1>7, <1>8, <1>9, <1>10, <1>11, <1>12, <1>13 DEF T!Answers

(* A thread sleeps in a call of sleep.                                     *)
SleepInv ==
    /\ left["main"] = -1 \/ MainCall[at["main"]] = "sleep1"
    /\ left["child"] = -1 \/ ChildCall[at["child"]] \in {"sleep1", "sleep2"}

(* The child begins with its creation, only some programs cancel it, and   *)
(* what it has ended with is one of the ends of its program.               *)
EndInv ==
    /\ at["main"] = 1 => life["child"] = "none"
    /\ life["child"] = "none" => at["child"] = 1 /\ left["child"] = -1
    /\ request = TRUE => prog \in Cancelling /\ at["main"] > 3
    /\ life["child"] \in {"dead", "gone"} => result \in Ends[prog]
    /\ prog = "setcancelstate" => at["child"] = 1 \/ cancelable = FALSE
    /\ prog = "detachstate" => (at["main"] = 1 \/ joinable = FALSE) /\ life["child"] # "dead"

(* A handler that has been pushed is on the stack until it has run.        *)
CleanInv ==
    prog \in Cleaning =>
        IF life["child"] \in {"dead", "gone"} THEN ran = <<3, 2, 1>>
        ELSE /\ stack = Stacked[prog][at["child"]]
             /\ ran = IF prog = "cleanupafter" /\ at["child"] > 5 THEN <<3>> ELSE <<>>

OnTime == slips = 0 /\ ended = "no"

(* With no second lost: when main cancels the child of cancelpoint, it     *)
(* spins; main of detachother and detachself asks for a child that is      *)
(* detached and has a second left to sleep.                                *)
SpinInv ==
    OnTime /\ prog = "cancelpoint" =>
        /\ at["main"] = 1 \/ life["child"] = "alive"
        /\ at["child"] \in {1, 2} /\ left["child"] = -1
        /\ at["main"] > 2 \/ (at["main"] = 2 /\ left["main"] = 0) => at["child"] = 2
        /\ at["main"] # 2 => left["main"] = -1

OtherInv ==
    OnTime /\ prog = "detachother" /\ at["main"] < 5 =>
        /\ joining = FALSE /\ (at["main"] > 2 => joinable = FALSE)
        /\ at["main"] # 3 => left["main"] = -1
        /\ at["main"] = 3 => left["main"] \in {-1, 0, 1}
        /\ at["main"] # 1 =>
               /\ life["child"] = "alive" /\ life["main"] = "alive"
               /\ at["child"] <= 2 /\ left["child"] \in {-1, 1, 2}
               /\ at["main"] = 4 \/ left["main"] = 0 \/ left["child"] \in {-1, 2}

SelfInv ==
    OnTime /\ prog = "detachself" /\ at["main"] < 4 =>
        /\ joining = FALSE /\ (at["child"] > 1 => joinable = FALSE)
        /\ at["main"] # 2 => left["main"] = -1
        /\ at["main"] = 2 => left["main"] \in {-1, 0, 1}
        /\ at["main"] # 1 =>
               /\ life["child"] = "alive" /\ life["main"] = "alive"
               /\ at["child"] <= 3 /\ left["child"] \in {-1, 1, 2}
               /\ at["child"] # 3 => left["child"] = -1
               /\ at["main"] = 3 \/ left["main"] = 0 => at["child"] = 3
               /\ at["main"] = 3 \/ left["main"] = 0 \/ left["child"] \in {-1, 2}

ThreadInv ==
    ThreadTypes /\ SleepInv /\ EndInv /\ CleanInv /\ SpinInv /\ OtherInv /\ SelfInv /\ T!JoinAnswers

LEMMA ThreadInit == T!Init => ThreadInv
<1> SUFFICES ASSUME T!Init PROVE ThreadInv
  OBVIOUS
<1>1. /\ prog \in DOMAIN T!Answers /\ at = [w \in {"main", "child"} |-> 1]
      /\ left = [w \in {"main", "child"} |-> -1]
      /\ life = [w \in {"main", "child"} |-> IF w = "main" THEN "alive" ELSE "none"]
      /\ joinable = TRUE /\ joining = FALSE /\ request = FALSE /\ cancelable = TRUE
      /\ stack = <<>> /\ ran = <<>> /\ told = "none" /\ slips = 0
  BY ThreadProgramsAssumption DEF T!Init, T!Who, T!Awake
<1>2. 1 \in 1..Len(MainCall) /\ 1 \in 1..Len(ChildCall)
  BY <1>1, TextsBegin
<1>3. ThreadTypes
  <2>1. at["main"] = 1 /\ at["child"] = 1 /\ at \in [{"main", "child"} -> Nat]
    BY <1>1
  <2>2. /\ left \in [{"main", "child"} -> Int]
        /\ life \in [{"main", "child"} -> {"none", "alive", "dead", "gone"}]
    BY <1>1
  <2>3. joinable \in BOOLEAN /\ joining \in BOOLEAN /\ request \in BOOLEAN /\ cancelable \in BOOLEAN
    BY <1>1
  <2> QED  BY <1>1, <1>2, <2>1, <2>2, <2>3 DEF ThreadTypes
<1>4. SleepInv /\ EndInv /\ CleanInv
  BY <1>1 DEF SleepInv, EndInv, CleanInv, Cleaning, Stacked
<1>5. SpinInv /\ OtherInv /\ SelfInv
  BY <1>1 DEF SpinInv, OtherInv, SelfInv
<1>6. T!JoinAnswers
  BY <1>1 DEF T!JoinAnswers
<1> QED  BY <1>3, <1>4, <1>5, <1>6 DEF ThreadInv

LEMMA CreateStep ==
    ThreadInv /\ (T!Create("create", FALSE) \/ T!Create("create_detached", TRUE)) => ThreadInv'
<1> SUFFICES ASSUME ThreadInv, T!Create("create", FALSE) \/ T!Create("create_detached", TRUE)
             PROVE  ThreadInv'
  OBVIOUS
<1> USE DEF ThreadInv
<1>1. /\ MainCall[at["main"]] \in {"create", "create_detached"} /\ left["main"] = -1 /\ life["main"] = "alive"
      /\ ended = "no" /\ UNCHANGED <<prog, left, joining, request, cancelable, stack, ran, result,
                                     told, slips>>
      /\ \/ ended' # "no" /\ UNCHANGED <<life, joinable, at>>
         \/ /\ life' = [life EXCEPT !["child"] = "alive"] /\ at' = [at EXCEPT !["main"] = at["main"] + 1]
            /\ MainCall[at["main"]] = "create_detached" => joinable' = FALSE
            /\ joinable' \in BOOLEAN
  BY Zenon DEF T!Create, T!Calls, T!Live, T!Op, T!Return, T!Goto, T!childVars, MainCall, T!Awake
<1>2. at["main"] = 1 /\ 2 \in 1..Len(MainCall)
      /\ (prog = "detachstate" => MainCall[at["main"]] = "create_detached")
  BY <1>1, MainCalls DEF ThreadTypes
<1>3. ThreadTypes'
  BY <1>1, <1>2 DEF ThreadTypes, MainCall, ChildCall
<1>4. EndInv' /\ CleanInv'
  BY <1>1, <1>2 DEF ThreadTypes, EndInv, CleanInv
<1>5. ASSUME OnTime'
      PROVE  /\ OnTime /\ life'["child"] = "alive" /\ life'["main"] = "alive"
             /\ at'["main"] = 2 /\ at'["child"] = 1 /\ left'["child"] = -1 /\ left'["main"] = -1
             /\ prog' = prog /\ joining' = joining
  <2>1. /\ OnTime /\ life' = [life EXCEPT !["child"] = "alive"]
        /\ at' = [at EXCEPT !["main"] = at["main"] + 1]
    BY <1>1, <1>5 DEF OnTime
  <2> QED  BY <1>1, <1>2, <2>1 DEF ThreadTypes, EndInv
<1>6. SpinInv'
  BY <1>1, <1>5 DEF SpinInv, ThreadTypes
<1>7. OtherInv' /\ SelfInv'
  <2>1. OnTime' /\ prog \in {"detachother", "detachself"} => joining' = FALSE
    BY <1>2, <1>5 DEF OtherInv, SelfInv
  <2> QED  BY <1>5, <2>1 DEF OtherInv, SelfInv
<1>8. T!JoinAnswers'
  BY <1>1 DEF T!JoinAnswers
<1>9. SleepInv'
  BY <1>1, <1>2 DEF SleepInv, ThreadTypes, MainCall, ChildCall
<1> QED  BY <1>9, <1>3, <1>4, <1>6, <1>7, <1>8

LEMMA CancelStep == ThreadInv /\ T!Cancel => ThreadInv'
<1> SUFFICES ASSUME ThreadInv, T!Cancel PROVE ThreadInv'
  OBVIOUS
<1> USE DEF ThreadInv
<1>1. /\ MainCall[at["main"]] = "cancel" /\ left["main"] = -1
      /\ UNCHANGED <<prog, left, life, joinable, joining, cancelable, stack, ran, result, told,
                     ended, slips>>
      /\ request' = TRUE /\ at' = [at EXCEPT !["main"] = at["main"] + 1]
  BY Zenon DEF T!Cancel, T!Calls, T!Op, T!Return, T!Goto, MainCall, T!Awake
<1>2. at["main"] = 3 /\ prog \in Cancelling /\ 4 \in 1..Len(MainCall)
  BY <1>1, MainCalls DEF ThreadTypes
<1>3. at'["main"] = 4 /\ at'["child"] = at["child"] /\ at' \in [{"main", "child"} -> Nat]
  BY <1>1, <1>2 DEF ThreadTypes
<1>4. ThreadTypes'
  BY <1>1, <1>2, <1>3 DEF ThreadTypes, MainCall, ChildCall
<1>5. EndInv' /\ CleanInv'
  BY <1>1, <1>2, <1>3 DEF EndInv, CleanInv, Cancelling, Cleaning
<1>6. SpinInv' /\ OtherInv' /\ SelfInv'
  BY <1>1, <1>2, <1>3 DEF SpinInv, OtherInv, SelfInv, OnTime, Cancelling
<1>7. T!JoinAnswers'
  BY <1>1 DEF T!JoinAnswers
<1>9. SleepInv'
  BY <1>1, <1>3 DEF SleepInv, ThreadTypes, MainCall, ChildCall
<1> QED  BY <1>9, <1>4, <1>5, <1>6, <1>7

LEMMA JoinBeginStep == ASSUME ThreadInv, NEW op \in {"join", "tryjoin"}, T!JoinBegin(op) PROVE ThreadInv'
<1> USE DEF ThreadInv
<1>1. /\ MainCall[at["main"]] = op /\ left["main"] = -1 /\ joinable = TRUE /\ joining' = TRUE
      /\ UNCHANGED <<prog, at, left, life, joinable, request, cancelable, stack, ran, result,
                     told, ended, slips>>
  BY Zenon DEF T!JoinBegin, T!Calls, T!Awake, T!Op, MainCall, T!threadVars, T!childVars, ThreadTypes
<1>2. ThreadTypes'
  BY <1>1 DEF ThreadTypes, MainCall, ChildCall
<1>3. EndInv' /\ CleanInv' /\ T!JoinAnswers'
  BY <1>1 DEF EndInv, CleanInv, T!JoinAnswers
<1>4. SpinInv'
  BY <1>1 DEF SpinInv, OnTime
<1>5. OnTime /\ prog = "detachother" => at["main"] >= 5
  <2>1. prog = "detachother" => MainCall[at["main"]] = "tryjoin" /\ at["main"] = 4
    BY <1>1, MainCalls DEF ThreadTypes, Cancelling, Cleaning
  <2> QED  BY <1>1, <2>1 DEF OtherInv
<1>6. OnTime /\ prog = "detachself" => at["main"] >= 4
  <2>1. prog = "detachself" => MainCall[at["main"]] = "tryjoin" /\ at["main"] = 3
    BY <1>1, MainCalls DEF ThreadTypes, Cancelling, Cleaning
  <2> QED  BY <1>1, <2>1 DEF SelfInv
<1>7. OtherInv' /\ SelfInv'
  BY <1>1, <1>5, <1>6 DEF OtherInv, SelfInv, OnTime, ThreadTypes
<1>9. SleepInv'
  BY <1>1 DEF SleepInv, ThreadTypes, MainCall, ChildCall
<1> QED  BY <1>9, <1>2, <1>3, <1>4, <1>7

LEMMA JoinEndStep == ASSUME ThreadInv, NEW op \in {"join", "tryjoin"}, T!JoinEnd(op) PROVE ThreadInv'
<1> USE DEF ThreadInv
<1>1. /\ MainCall[at["main"]] = op /\ left["main"] = -1 /\ life["child"] = "dead" /\ ended = "no"
      /\ UNCHANGED <<prog, left, joinable, request, cancelable, stack, ran, result, ended, slips>>
      /\ told' = result /\ joining' = FALSE /\ life' = [life EXCEPT !["child"] = "gone"]
      /\ at' = [at EXCEPT !["main"] = at["main"] + 1]
  BY Zenon DEF T!JoinEnd, T!Calls, T!Awake, T!Live, T!Op, T!Return, T!Goto, MainCall, T!childVars
<1>2. /\ at["main"] # 1 /\ at["main"] + 1 \in 1..Len(MainCall)
  BY <1>1, MainCalls DEF ThreadTypes
<1>3. /\ at'["main"] = at["main"] + 1 /\ at'["child"] = at["child"]
      /\ at' \in [{"main", "child"} -> Nat]
      /\ life'["child"] = "gone" /\ life' \in [{"main", "child"} -> {"none", "alive", "dead", "gone"}]
  BY <1>1 DEF ThreadTypes
<1>4. ThreadTypes'
  BY <1>1, <1>2, <1>3 DEF ThreadTypes, MainCall, ChildCall
<1>5. EndInv' /\ CleanInv'
  BY <1>1, <1>2, <1>3 DEF EndInv, CleanInv, ThreadTypes
<1>6. prog \in {"cancelpoint", "detachother", "detachself"} => ~OnTime
  <2>1. prog = "detachother" => at["main"] < 5
    BY <1>1, MainCalls DEF ThreadTypes, Cancelling, Cleaning
  <2>2. prog = "detachself" => at["main"] < 4
    BY <1>1, MainCalls DEF ThreadTypes, Cancelling, Cleaning
  <2> QED  BY <1>1, <1>2, <2>1, <2>2 DEF SpinInv, OtherInv, SelfInv
<1>7. SpinInv' /\ OtherInv' /\ SelfInv'
  BY <1>1, <1>6 DEF SpinInv, OtherInv, SelfInv, OnTime
<1>8. T!JoinAnswers'
  <2>1. result \in Ends[prog] /\ prog # "detachstate"
    BY <1>1 DEF EndInv
  <2>2. prog \in Cancelling \cup Cleaning \cup {"threadrecycle", "stacksize", "detachother", "detachself"}
    BY <1>1, <2>1, MainCalls DEF ThreadTypes
  <2>3. prog \in {"cancelpoint", "detachother", "detachself"} => slips > 0
    BY <1>1, <1>6 DEF OnTime, ThreadTypes
  <2>4. prog \notin {"cancelpoint", "detachother", "detachself"} => Ends[prog] \subseteq T!Answers[prog]
    BY <2>2 DEF Ends, T!Answers, Cancelling, Cleaning
  <2> QED  BY <1>1, <2>1, <2>3, <2>4 DEF T!JoinAnswers, T!Timed
<1>9. SleepInv'
  BY <1>1, <1>3 DEF SleepInv, ThreadTypes, MainCall, ChildCall
<1> QED  BY <1>9, <1>4, <1>5, <1>7, <1>8

LEMMA JoinFailsStep == ThreadInv /\ T!JoinFails => ThreadInv'
<1> SUFFICES ASSUME ThreadInv, T!JoinFails PROVE ThreadInv'
  OBVIOUS
<1> USE DEF ThreadInv
<1>1. /\ MainCall[at["main"]] = "tryjoin" /\ left["main"] = -1 /\ ended = "no"
      /\ UNCHANGED <<prog, left, life, joinable, joining, request, cancelable, stack, ran, result,
                     slips>>
      /\ told' = IF life["child"] = "alive" THEN "EINVAL" ELSE "stale"
      /\ \/ at' = [at EXCEPT !["main"] = at["main"] + 1] /\ ended' = ended
         \/ ended' # "no" /\ at' = at
  BY DEF T!JoinFails, T!Calls, T!Awake, T!Live, T!ChildAlive, T!Op, T!Return, T!Goto, MainCall,
      T!childVars
<1>2. /\ at["main"] # 1 /\ at["main"] + 1 \in 1..Len(MainCall)
      /\ \/ prog = "detachother" /\ at["main"] = 4
         \/ prog = "detachself" /\ at["main"] = 3
         \/ prog = "detachstate"
  BY <1>1, MainCalls DEF ThreadTypes
<1>3. /\ at'["main"] \in {at["main"], at["main"] + 1} /\ at'["child"] = at["child"]
      /\ at' \in [{"main", "child"} -> Nat]
      /\ ended' = "no" => at'["main"] = at["main"] + 1
  BY <1>1 DEF ThreadTypes
<1>4. ThreadTypes'
  BY <1>1, <1>2, <1>3 DEF ThreadTypes, MainCall, ChildCall
<1>5. EndInv' /\ CleanInv'
  BY <1>1, <1>2, <1>3 DEF EndInv, CleanInv, ThreadTypes, Cancelling
<1>6. SpinInv' /\ OtherInv' /\ SelfInv'
  BY <1>1, <1>2, <1>3 DEF SpinInv, OtherInv, SelfInv, OnTime, ThreadTypes
<1>7. T!JoinAnswers'
  <2>1. prog \in {"detachother", "detachself"} /\ slips = 0 => told' = "EINVAL"
    BY <1>1, <1>2 DEF OtherInv, SelfInv, OnTime
  <2>2. told' \in {"EINVAL", "stale"}
    BY <1>1
  <2> QED  BY <1>1, <1>2, <2>1, <2>2 DEF T!JoinAnswers, T!Answers, T!Timed, ThreadTypes
<1>9. SleepInv'
  BY <1>1, <1>3 DEF SleepInv, ThreadTypes, MainCall, ChildCall
<1> QED  BY <1>9, <1>4, <1>5, <1>6, <1>7

(* main detaches, returns or ends its thread.                              *)
LEMMA MainEndStep == ThreadInv /\ (T!ReturnFromMain \/ T!ExitMain) => ThreadInv'
<1> SUFFICES ASSUME ThreadInv, T!ReturnFromMain \/ T!ExitMain PROVE ThreadInv'
  OBVIOUS
<1> USE DEF ThreadInv
<1>1. /\ MainCall[at["main"]] \in {"return", "exit"} /\ ended = "no"
      /\ UNCHANGED <<prog, at, left, joinable, joining, request, cancelable, stack, ran, result,
                     told, slips>>
      /\ life'["child"] = life["child"]
      /\ life' \in [{"main", "child"} -> {"none", "alive", "dead", "gone"}]
  BY DEF T!ReturnFromMain, T!ExitMain, T!Calls, T!Live, T!Op, MainCall, T!childVars, T!threadVars,
      ThreadTypes
<1>2. /\ prog = "detachother" => at["main"] = 5
      /\ prog = "detachself" => at["main"] = 4
  BY <1>1, MainCalls DEF ThreadTypes
<1>3. ThreadTypes'
  BY <1>1 DEF ThreadTypes, MainCall, ChildCall
<1>4. EndInv' /\ CleanInv' /\ T!JoinAnswers'
  BY <1>1 DEF EndInv, CleanInv, T!JoinAnswers
<1>5. SpinInv' /\ OtherInv' /\ SelfInv'
  BY <1>1, <1>2 DEF SpinInv, OtherInv, SelfInv, OnTime
<1>9. SleepInv'
  BY <1>1 DEF SleepInv, ThreadTypes, MainCall, ChildCall
<1> QED  BY <1>9, <1>3, <1>4, <1>5

LEMMA DetachStep == ASSUME ThreadInv, NEW w \in {"main", "child"}, T!Detach(w) PROVE ThreadInv'
<1> USE DEF ThreadInv
<1>1. /\ T!Text(prog, w)[at[w]] = "detach" /\ left[w] = -1 /\ life[w] = "alive"
      /\ joinable' = (joinable /\ joining) /\ at' = [at EXCEPT ![w] = at[w] + 1]
      /\ life' = IF life["child"] = "dead" THEN [life EXCEPT !["child"] = "gone"] ELSE life
      /\ UNCHANGED <<prog, left, joining, request, cancelable, stack, ran, result, told, ended,
                     slips>>
  BY Zenon DEF T!Detach, T!Calls, T!Live, T!Op, T!Return, T!Goto, T!childVars, T!Awake
<1>2. \/ w = "main" /\ prog = "detachother" /\ at["main"] = 2 /\ 3 \in 1..Len(MainCall)
      \/ w = "child" /\ prog = "detachself" /\ at["child"] = 1 /\ 2 \in 1..Len(ChildCall)
  <2>1. CASE w = "main"
    BY <1>1, <2>1, MainCalls DEF ThreadTypes, MainCall
  <2>2. CASE w = "child"
    BY <1>1, <2>2, ChildCalls DEF ThreadTypes, ChildCall
  <2> QED  BY <2>1, <2>2
<1>3. /\ at' \in [{"main", "child"} -> Nat] /\ at'[w] = at[w] + 1
      /\ \A v \in {"main", "child"} : v # w => at'[v] = at[v]
      /\ life' \in [{"main", "child"} -> {"none", "alive", "dead", "gone"}]
      /\ life'["main"] = life["main"]
      /\ IF life["child"] = "dead" THEN life'["child"] = "gone" ELSE life'["child"] = life["child"]
  BY <1>1 DEF ThreadTypes
<1>4. joinable' \in BOOLEAN /\ (joining = FALSE => joinable' = FALSE)
  BY <1>1
<1>5. ThreadTypes'
  BY <1>1, <1>2, <1>3, <1>4 DEF ThreadTypes, MainCall, ChildCall
<1>6. SleepInv'
  BY <1>1, <1>2, <1>3 DEF SleepInv, MainCall, ChildCall
<1>7. EndInv' /\ CleanInv' /\ T!JoinAnswers'
  BY <1>1, <1>2, <1>3 DEF EndInv, CleanInv, T!JoinAnswers, Cleaning, ThreadTypes
<1>8. SpinInv' /\ OtherInv' /\ SelfInv'
  BY <1>1, <1>2, <1>3, <1>4 DEF SpinInv, OtherInv, SelfInv, OnTime, EndInv, ThreadTypes
<1> QED  BY <1>5, <1>6, <1>7, <1>8

LEMMA PutsStep == ThreadInv /\ T!Puts => ThreadInv'
<1> SUFFICES ASSUME ThreadInv, T!Puts PROVE ThreadInv'
  OBVIOUS
<1> USE DEF ThreadInv
<1>1. /\ ChildCall[at["child"]] = "puts" /\ left["child"] = -1 /\ life["child"] = "alive"
      /\ at' = [at EXCEPT !["child"] = at["child"] + 1]
      /\ UNCHANGED <<prog, left, life, joinable, joining, request, cancelable, stack, ran, result,
                     told, ended, slips>>
  BY Zenon DEF T!Puts, T!Calls, T!Op, T!Return, T!Goto, T!childVars, T!Awake, ChildCall
<1>2. at["child"] + 1 \in 1..Len(ChildCall)
  BY <1>1, ChildCalls DEF ThreadTypes
<1>3. /\ at' \in [{"main", "child"} -> Nat] /\ at'["child"] = at["child"] + 1 /\ at'["main"] = at["main"]
  BY <1>1 DEF ThreadTypes
<1>4. ThreadTypes'
  BY <1>1, <1>2, <1>3 DEF ThreadTypes, MainCall, ChildCall
<1>5. SleepInv'
  BY <1>1, <1>3 DEF SleepInv, MainCall, ChildCall
<1>6. EndInv' /\ T!JoinAnswers'
  <2>1. prog = "setcancelstate" => at["child"] # 1
    BY <1>1, ChildCalls DEF ThreadTypes
  <2> QED  BY <1>1, <1>3, <2>1 DEF EndInv, T!JoinAnswers
<1>7. CleanInv'
  <2>1. CASE prog = "cleanupafter"
    <3>1. /\ ChildCall = <<"puts", "push1", "push2", "push3", "pop1", "puts", "sleep2", "exit10">>
          /\ at["child"] \in 1..8
      BY <2>1, ChildCalls DEF ThreadTypes
    <3>2. at["child"] \in {1, 6}
      BY <1>1, <3>1
    <3> QED  BY <1>1, <1>3, <2>1, <3>2 DEF CleanInv, Stacked
  <2>2. CASE prog = "cleanuplast"
    <3>1. /\ ChildCall = <<"puts", "push1", "push2", "push3", "sleep2", "exit10">>
          /\ at["child"] \in 1..6
      BY <2>2, ChildCalls DEF ThreadTypes
    <3>2. at["child"] = 1
      BY <1>1, <3>1
    <3> QED  BY <1>1, <1>3, <2>2, <3>2 DEF CleanInv, Stacked
  <2> QED  BY <1>1, <2>1, <2>2 DEF CleanInv, Cleaning
<1>8. SpinInv'
  <2>1. prog = "cancelpoint" => at["child"] = 1
    BY <1>1, ChildCalls DEF ThreadTypes
  <2> QED  BY <1>1, <1>3, <2>1 DEF SpinInv, OnTime
<1>9. OtherInv'
  <2>1. ASSUME prog = "detachother" PROVE at["child"] \in {1, 3}
    <3>1. ChildCall = <<"puts", "sleep2", "puts", "return">> /\ at["child"] \in 1..4
      BY <2>1, ChildCalls DEF ThreadTypes
    <3> QED  BY <1>1, <3>1
  <2> QED  BY <1>1, <1>3, <2>1 DEF OtherInv, OnTime, EndInv
<1>10. SelfInv'
  <2>1. ASSUME prog = "detachself" PROVE at["child"] \in {2, 4}
    <3>1. /\ ChildCall = <<"detach", "puts", "sleep2", "puts", "return">>
          /\ at["child"] \in 1..5
      BY <2>1, ChildCalls DEF ThreadTypes
    <3> QED  BY <1>1, <3>1
  <2> QED  BY <1>1, <1>3, <2>1 DEF SelfInv, OnTime, EndInv
<1> QED  BY <1>4, <1>5, <1>6, <1>7, <1>8, <1>9, <1>10

(* The loops, and the cancel state.                                        *)
LEMMA AgainStep ==
    ThreadInv /\ (T!Again("again1", 1) \/ T!Again("again2", 2) \/ T!DisableCancel) => ThreadInv'
<1> SUFFICES ASSUME ThreadInv, T!Again("again1", 1) \/ T!Again("again2", 2) \/ T!DisableCancel
             PROVE  ThreadInv'
  OBVIOUS
<1> USE DEF ThreadInv
<1>1. /\ left["child"] = -1 /\ life["child"] = "alive"
      /\ \/ /\ ChildCall[at["child"]] = "again1" /\ at' = [at EXCEPT !["child"] = at["child"] - 1]
            /\ cancelable' = cancelable
         \/ /\ ChildCall[at["child"]] = "again2" /\ at' = [at EXCEPT !["child"] = at["child"] - 2]
            /\ cancelable' = cancelable
         \/ /\ ChildCall[at["child"]] = "disable" /\ at' = [at EXCEPT !["child"] = at["child"] + 1]
            /\ cancelable' = FALSE
      /\ cancelable' = cancelable \/ cancelable' = FALSE
      /\ UNCHANGED <<prog, left, life, joinable, joining, request, stack, ran, result, told,
                     ended, slips>>
  BY Zenon DEF T!Again, T!DisableCancel, T!Calls, T!Op, T!Return, T!Goto, T!childVars, T!Awake,
      ChildCall
<1>2. /\ prog \in {"threadcancel", "setcancelstate"}
      /\ at'["child"] \in 1..Len(ChildCall) /\ at'["main"] = at["main"]
      /\ at' \in [{"main", "child"} -> Nat]
      /\ cancelable' # FALSE => cancelable' = cancelable /\ (prog = "setcancelstate" => at["child"] # 1)
  <2>1. CASE ChildCall[at["child"]] = "again1"
    <3>1. prog = "threadcancel" /\ at["child"] - 1 \in 1..Len(ChildCall)
      BY <2>1, ChildCalls DEF ThreadTypes
    <3>2. at' = [at EXCEPT !["child"] = at["child"] - 1] /\ cancelable' = cancelable
      BY <1>1, <2>1
    <3>3. at'["child"] = at["child"] - 1 /\ at'["main"] = at["main"] /\ at' \in [{"main", "child"} -> Nat]
      BY <3>1, <3>2 DEF ThreadTypes
    <3> QED  BY <3>1, <3>2, <3>3
  <2>2. CASE ChildCall[at["child"]] = "again2"
    <3>1. prog = "setcancelstate" /\ at["child"] - 2 \in 1..Len(ChildCall) /\ at["child"] # 1
      BY <2>2, ChildCalls DEF ThreadTypes
    <3>2. at' = [at EXCEPT !["child"] = at["child"] - 2] /\ cancelable' = cancelable
      BY <1>1, <2>2
    <3>3. at'["child"] = at["child"] - 2 /\ at'["main"] = at["main"] /\ at' \in [{"main", "child"} -> Nat]
      BY <3>1, <3>2 DEF ThreadTypes
    <3> QED  BY <3>1, <3>2, <3>3
  <2>3. CASE ChildCall[at["child"]] = "disable"
    <3>1. prog = "setcancelstate" /\ at["child"] + 1 \in 1..Len(ChildCall)
      BY <2>3, ChildCalls DEF ThreadTypes
    <3>2. at' = [at EXCEPT !["child"] = at["child"] + 1] /\ cancelable' = FALSE
      BY <1>1, <2>3
    <3>3. at'["child"] = at["child"] + 1 /\ at'["main"] = at["main"] /\ at' \in [{"main", "child"} -> Nat]
      BY <3>2 DEF ThreadTypes
    <3> QED  BY <3>1, <3>2, <3>3
  <2> QED  BY <1>1, <2>1, <2>2, <2>3
<1>3. ThreadTypes'
  <2>1. cancelable' \in BOOLEAN
    BY <1>1 DEF ThreadTypes
  <2> QED  BY <1>1, <1>2, <2>1 DEF ThreadTypes, MainCall, ChildCall
<1>4. SleepInv'
  BY <1>1, <1>2 DEF SleepInv, MainCall, ChildCall
<1>5. EndInv' /\ CleanInv' /\ T!JoinAnswers'
  BY <1>1, <1>2 DEF EndInv, CleanInv, Cleaning, T!JoinAnswers
<1>6. SpinInv' /\ OtherInv' /\ SelfInv'
  BY <1>1, <1>2 DEF SpinInv, OtherInv, SelfInv, OnTime
<1> QED  BY <1>3, <1>4, <1>5, <1>6

(* What the calls do to the handlers of the clean-up programs.             *)
LEMMA HandlersMove ==
    /\ <<1>> \o <<>> = <<1>> /\ <<2>> \o <<1>> = <<2, 1>> /\ <<3>> \o <<2, 1>> = <<3, 2, 1>>
    /\ <<>> \o <<3, 2, 1>> = <<3, 2, 1>>
    /\ Tail(<<3, 2, 1>>) = <<2, 1>> /\ Head(<<3, 2, 1>>) = 3 /\ Append(<<>>, 3) = <<3>>
<1>1. <<1>> \o <<>> = <<1>> /\ <<>> \o <<3, 2, 1>> = <<3, 2, 1>>
  OBVIOUS
<1>2. <<2>> \o <<1>> = <<2, 1>>
  <2> DEFINE s == <<2>> \o <<1>>
  <2>1. s \in Seq(Nat) /\ Len(s) = 2 /\ s[1] = 2 /\ s[2] = 1
    OBVIOUS
  <2> HIDE DEF s
  <2>2. s = <<2, 1>>
    BY <2>1
  <2> QED  BY <2>2 DEF s
<1>3. <<3>> \o <<2, 1>> = <<3, 2, 1>>
  <2> DEFINE s == <<3>> \o <<2, 1>>
  <2>1. s \in Seq(Nat) /\ Len(s) = 3 /\ s[1] = 3 /\ s[2] = 2 /\ s[3] = 1
    OBVIOUS
  <2> HIDE DEF s
  <2>2. s = <<3, 2, 1>>
    BY <2>1
  <2> QED  BY <2>2 DEF s
<1>4. Tail(<<3, 2, 1>>) = <<2, 1>>
  OBVIOUS
<1>5. Head(<<3, 2, 1>>) = 3 /\ Append(<<>>, 3) = <<3>>
  OBVIOUS
<1> QED  BY <1>1, <1>2, <1>3, <1>4, <1>5

LEMMA StackStep ==
    ASSUME ThreadInv,
           T!Push("push1", 1) \/ T!Push("push2", 2) \/ T!Push("push3", 3) \/ T!Pop
    PROVE  ThreadInv'
<1> USE DEF ThreadInv
<1>1. /\ left["child"] = -1 /\ life["child"] = "alive"
      /\ \/ ChildCall[at["child"]] = "push1" /\ stack' = <<1>> \o stack /\ ran' = ran
         \/ ChildCall[at["child"]] = "push2" /\ stack' = <<2>> \o stack /\ ran' = ran
         \/ ChildCall[at["child"]] = "push3" /\ stack' = <<3>> \o stack /\ ran' = ran
         \/ /\ ChildCall[at["child"]] = "pop1" /\ stack' = Tail(stack)
            /\ ran' = Append(ran, Head(stack))
      /\ at' = [at EXCEPT !["child"] = at["child"] + 1]
      /\ UNCHANGED <<prog, left, life, joinable, joining, request, cancelable, result, told,
                     ended, slips>>
  BY DEF T!Push, T!Pop, T!Calls, T!Op, T!Return, T!Goto, T!Awake, ChildCall
<1>2. prog \in Cleaning /\ at["child"] + 1 \in 1..Len(ChildCall)
  BY <1>1, ChildCalls DEF ThreadTypes
<1>3. /\ at' \in [{"main", "child"} -> Nat] /\ at'["child"] = at["child"] + 1 /\ at'["main"] = at["main"]
  BY <1>1 DEF ThreadTypes
<1>4. ThreadTypes'
  BY <1>1, <1>2, <1>3 DEF ThreadTypes, MainCall, ChildCall
<1>5. SleepInv'
  BY <1>1, <1>3 DEF SleepInv, MainCall, ChildCall
<1>6. EndInv' /\ T!JoinAnswers'
  BY <1>1, <1>2, <1>3 DEF EndInv, T!JoinAnswers, Cleaning
<1>7. CleanInv'
  <2>1. CASE prog = "cleanupafter"
    <3>1. /\ ChildCall = <<"puts", "push1", "push2", "push3", "pop1", "puts", "sleep2", "exit10">>
          /\ at["child"] \in 1..8
      BY <2>1, ChildCalls DEF ThreadTypes
    <3>2. \/ at["child"] = 2 /\ stack' = <<1>> \o stack /\ ran' = ran
          \/ at["child"] = 3 /\ stack' = <<2>> \o stack /\ ran' = ran
          \/ at["child"] = 4 /\ stack' = <<3>> \o stack /\ ran' = ran
          \/ at["child"] = 5 /\ stack' = Tail(stack) /\ ran' = Append(ran, Head(stack))
      BY <1>1, <3>1
    <3>3. stack = Stacked[prog][at["child"]] /\ ran = (IF at["child"] > 5 THEN <<3>> ELSE <<>>)
      BY <1>1, <1>2, <2>1 DEF CleanInv
    <3>4. stack' = Stacked[prog][at["child"] + 1] /\ ran' = (IF at["child"] + 1 > 5 THEN <<3>> ELSE <<>>)
      <4> Stacked[prog] = <<<<>>, <<>>, <<1>>, <<2, 1>>, <<3, 2, 1>>, <<2, 1>>, <<2, 1>>, <<2, 1>>>>
        BY <2>1 DEF Stacked
      <4>1. CASE at["child"] = 2
        BY HandlersMove, <3>2, <3>3, <4>1
      <4>2. CASE at["child"] = 3
        BY HandlersMove, <3>2, <3>3, <4>2
      <4>3. CASE at["child"] = 4
        BY HandlersMove, <3>2, <3>3, <4>3
      <4>4. CASE at["child"] = 5
        BY HandlersMove, <3>2, <3>3, <4>4
      <4> QED  BY <3>2, <4>1, <4>2, <4>3, <4>4
    <3> QED  BY <1>1, <1>3, <2>1, <3>4 DEF CleanInv
  <2>2. CASE prog = "cleanuplast"
    <3>1. /\ ChildCall = <<"puts", "push1", "push2", "push3", "sleep2", "exit10">>
          /\ at["child"] \in 1..6
      BY <2>2, ChildCalls DEF ThreadTypes
    <3>2. \/ at["child"] = 2 /\ stack' = <<1>> \o stack /\ ran' = ran
          \/ at["child"] = 3 /\ stack' = <<2>> \o stack /\ ran' = ran
          \/ at["child"] = 4 /\ stack' = <<3>> \o stack /\ ran' = ran
      BY <1>1, <3>1
    <3>3. stack = Stacked[prog][at["child"]] /\ ran = <<>>
      BY <1>1, <1>2, <2>2 DEF CleanInv
    <3>4. stack' = Stacked[prog][at["child"] + 1] /\ ran' = <<>>
      <4> Stacked[prog] = <<<<>>, <<>>, <<1>>, <<2, 1>>, <<3, 2, 1>>, <<3, 2, 1>>>>
        BY <2>2 DEF Stacked
      <4>1. CASE at["child"] = 2
        BY HandlersMove, <3>2, <3>3, <4>1
      <4>2. CASE at["child"] = 3
        BY HandlersMove, <3>2, <3>3, <4>2
      <4>3. CASE at["child"] = 4
        BY HandlersMove, <3>2, <3>3, <4>3
      <4> QED  BY <3>2, <4>1, <4>2, <4>3
    <3> QED  BY <1>1, <1>3, <2>2, <3>4 DEF CleanInv
  <2> QED  BY <1>2, <2>1, <2>2 DEF Cleaning
<1>8. SpinInv' /\ OtherInv' /\ SelfInv'
  BY <1>1, <1>2 DEF SpinInv, OtherInv, SelfInv, Cleaning
<1> QED  BY <1>4, <1>5, <1>6, <1>7, <1>8

(* The child returns or calls pthread_exit.                                *)
LEMMA ExitStep == ASSUME ThreadInv, T!Exit("return", "0") \/ T!Exit("exit10", "10") PROVE ThreadInv'
<1> USE DEF ThreadInv
<1>1. /\ left["child"] = -1 /\ life["child"] = "alive" /\ ended = "no"
      /\ \/ ChildCall[at["child"]] = "return" /\ result' = "0"
         \/ ChildCall[at["child"]] = "exit10" /\ result' = "10"
      /\ life' = [life EXCEPT !["child"] = IF joinable THEN "dead" ELSE "gone"]
      /\ ran' = ran \o stack
      /\ UNCHANGED <<prog, at, left, joinable, joining, request, cancelable, told, slips>>
  BY Zenon DEF T!Exit, T!ChildEnds, T!Calls, T!Live, T!Op, T!Awake, ChildCall
<1>2. /\ result' \in Ends[prog]
      /\ life' \in [{"main", "child"} -> {"none", "alive", "dead", "gone"}]
      /\ life'["child"] \in {"dead", "gone"} /\ (joinable = FALSE => life'["child"] = "gone")
      /\ at["main"] # 1
  <2>1. result' \in Ends[prog]
    BY <1>1, ChildCalls DEF ThreadTypes
  <2>2. at["main"] # 1
    BY <1>1 DEF EndInv
  <2>3. life'["child"] = IF joinable THEN "dead" ELSE "gone"
    BY <1>1 DEF ThreadTypes
  <2>4. life' \in [{"main", "child"} -> {"none", "alive", "dead", "gone"}]
    BY <1>1 DEF ThreadTypes
  <2> QED  BY <2>1, <2>2, <2>3, <2>4
<1>3. ThreadTypes'
  BY <1>1, <1>2 DEF ThreadTypes, MainCall, ChildCall
<1>4. SleepInv'
  BY <1>1 DEF SleepInv, MainCall, ChildCall
<1>5. EndInv' /\ T!JoinAnswers'
  BY <1>1, <1>2 DEF EndInv, T!JoinAnswers
<1>6. CleanInv'
  <2>1. CASE prog = "cleanupafter"
    <3>1. at["child"] \in 1..8 /\ at["child"] + 1 > 8
      BY <1>1, <2>1, ChildCalls DEF ThreadTypes, Cleaning
    <3>2. stack = <<2, 1>> /\ ran = <<3>>
      BY <1>1, <2>1, <3>1 DEF CleanInv, Stacked, Cleaning
    <3>3. ran' = <<3, 2, 1>>
      BY <1>1, <3>2, HandlersMove
    <3> QED  BY <1>2, <3>3 DEF CleanInv
  <2>2. CASE prog = "cleanuplast"
    <3>1. at["child"] \in 1..6 /\ at["child"] + 1 > 6
      BY <1>1, <2>2, ChildCalls DEF ThreadTypes, Cleaning
    <3>2. stack = <<3, 2, 1>> /\ ran = <<>>
      BY <1>1, <2>2, <3>1 DEF CleanInv, Stacked, Cleaning
    <3> QED  BY <1>1, <1>2, <3>2, HandlersMove DEF CleanInv
  <2> QED  BY <1>1, <2>1, <2>2 DEF CleanInv, Cleaning
<1>7. prog \in {"cancelpoint", "detachother", "detachself"} =>
          \/ slips # 0
          \/ prog = "detachother" /\ at["main"] >= 5
          \/ prog = "detachself" /\ at["main"] >= 4
  <2>1. CASE prog = "cancelpoint"
    <3>1. ChildCall = <<"puts", "spin">> /\ at["child"] \in 1..2
      BY <2>1, ChildCalls DEF ThreadTypes
    <3> QED  BY <1>1, <3>1
  <2>2. CASE prog = "detachother"
    <3>1. ChildCall = <<"puts", "sleep2", "puts", "return">> /\ at["child"] \in 1..4
      BY <2>2, ChildCalls DEF ThreadTypes
    <3>2. at["child"] = 4
      BY <1>1, <3>1
    <3> QED  BY <1>1, <1>2, <2>2, <3>2 DEF OtherInv, OnTime, ThreadTypes
  <2>3. CASE prog = "detachself"
    <3>1. /\ ChildCall = <<"detach", "puts", "sleep2", "puts", "return">>
          /\ at["child"] \in 1..5
      BY <2>3, ChildCalls DEF ThreadTypes
    <3>2. at["child"] = 5
      BY <1>1, <3>1
    <3> QED  BY <1>1, <1>2, <2>3, <3>2 DEF SelfInv, OnTime, ThreadTypes
  <2> QED  BY <2>1, <2>2, <2>3
<1>8. SpinInv' /\ OtherInv' /\ SelfInv'
  BY <1>1, <1>7 DEF SpinInv, OtherInv, SelfInv, OnTime, ThreadTypes
<1> QED  BY <1>3, <1>4, <1>5, <1>6, <1>8

(* A thread is cancelled where main has asked for it and it may be.        *)
LEMMA CancelledStep == ASSUME ThreadInv, T!ActOnCancel PROVE ThreadInv'
<1> USE DEF ThreadInv
<1>1. /\ life["child"] = "alive" /\ ended = "no" /\ request = TRUE /\ cancelable = TRUE
      /\ ChildCall[at["child"]] \in {"puts", "sleep1", "sleep2", "testcancel"}
      /\ life' = [life EXCEPT !["child"] = IF joinable THEN "dead" ELSE "gone"]
      /\ left' = [left EXCEPT !["child"] = -1] /\ result' = "canceled"
      /\ UNCHANGED <<prog, at, joinable, joining, request, cancelable, told, slips>>
  BY Zenon DEF T!ActOnCancel, T!ChildEnds, T!Live, T!ChildAlive, T!CancelledNow,
      T!CancellationPoint,
     T!Op, T!Awake, ChildCall, ThreadTypes
<1>2. prog \in Cancelling \ {"setcancelstate"} /\ at["main"] > 3
  <2>1. prog \in Cancelling /\ at["main"] > 3
    BY <1>1 DEF EndInv
  <2>2. prog # "setcancelstate"
    <3>1. prog = "setcancelstate" => at["child"] = 1
      BY <1>1 DEF EndInv
    <3>2. prog = "setcancelstate" /\ at["child"] = 1 => ChildCall[at["child"]] = "disable"
      BY ChildCalls DEF ThreadTypes
    <3> QED  BY <1>1, <3>1, <3>2
  <2> QED  BY <2>1, <2>2
<1>3. /\ result' \in Ends[prog]
      /\ life' \in [{"main", "child"} -> {"none", "alive", "dead", "gone"}]
      /\ life'["child"] \in {"dead", "gone"}
      /\ left' \in [{"main", "child"} -> Int] /\ left'["child"] = -1 /\ left'["main"] = left["main"]
  <2>1. result' \in Ends[prog]
    BY <1>1, <1>2, ChildCalls DEF ThreadTypes
  <2>2. life'["child"] = IF joinable THEN "dead" ELSE "gone"
    BY <1>1 DEF ThreadTypes
  <2>3. life' \in [{"main", "child"} -> {"none", "alive", "dead", "gone"}]
    BY <1>1 DEF ThreadTypes
  <2>4. left' \in [{"main", "child"} -> Int] /\ left'["child"] = -1 /\ left'["main"] = left["main"]
    BY <1>1 DEF ThreadTypes
  <2> QED  BY <2>1, <2>2, <2>3, <2>4
<1>4. ThreadTypes'
  BY <1>1, <1>3 DEF ThreadTypes, MainCall, ChildCall
<1>5. SleepInv'
  BY <1>1, <1>3 DEF SleepInv, MainCall, ChildCall
<1>6. EndInv' /\ CleanInv' /\ T!JoinAnswers'
  BY <1>1, <1>2, <1>3 DEF EndInv, CleanInv, Cancelling, Cleaning, T!JoinAnswers
<1>7. prog = "cancelpoint" => slips # 0
  <2> SUFFICES ASSUME prog = "cancelpoint", slips = 0 PROVE FALSE
    OBVIOUS
  <2>1. ChildCall = <<"puts", "spin">> /\ at["child"] = 2
    BY <1>1, <1>2, ChildCalls DEF SpinInv, OnTime, ThreadTypes
  <2> QED  BY <1>1, <2>1
<1>8. SpinInv' /\ OtherInv' /\ SelfInv'
  BY <1>1, <1>2, <1>7 DEF SpinInv, OtherInv, SelfInv, OnTime, Cancelling
<1> QED  BY <1>4, <1>5, <1>6, <1>8

LEMMA SleepStep ==
    ASSUME ThreadInv, NEW w \in {"main", "child"},
           T!Sleep(w, "sleep1", 1) \/ T!Sleep(w, "sleep2", 2)
    PROVE  ThreadInv'
<1> USE DEF ThreadInv
<1>1. /\ left[w] = -1 /\ life[w] = "alive"
      /\ \/ T!Text(prog, w)[at[w]] = "sleep1" /\ left' = [left EXCEPT ![w] = 1]
         \/ T!Text(prog, w)[at[w]] = "sleep2" /\ left' = [left EXCEPT ![w] = 2]
      /\ UNCHANGED <<prog, at, life, joinable, joining, request, cancelable, stack, ran, result,
                     told, ended, slips>>
  BY Zenon DEF T!Sleep, T!Calls, T!Op, T!Awake, T!childVars
<1>2. /\ left' \in [{"main", "child"} -> Int] /\ left'[w] \in {1, 2}
      /\ T!Text(prog, w)[at[w]] \in {"sleep1", "sleep2"}
      /\ T!Text(prog, w)[at[w]] = "sleep1" => left'[w] = 1
      /\ T!Text(prog, w)[at[w]] = "sleep2" => left'[w] = 2
      /\ \A v \in {"main", "child"} : v # w => left'[v] = left[v]
  BY <1>1 DEF ThreadTypes
<1>3. ThreadTypes'
  BY <1>1, <1>2 DEF ThreadTypes, MainCall, ChildCall
<1>4. EndInv' /\ CleanInv' /\ T!JoinAnswers'
  BY <1>1, <1>2 DEF EndInv, CleanInv, T!JoinAnswers
<1>5. CASE w = "main"
  <2>1. /\ MainCall[at["main"]] = "sleep1" /\ left'["main"] = 1
        /\ at["main"] = IF prog = "detachother" THEN 3 ELSE 2
    BY <1>2, <1>5, MainCalls DEF ThreadTypes, MainCall
  <2>2. SleepInv'
    BY <1>1, <1>2, <1>5, <2>1 DEF SleepInv, MainCall, ChildCall
  <2>3. SpinInv' /\ OtherInv' /\ SelfInv'
    BY <1>1, <1>2, <1>5, <2>1 DEF SpinInv, OtherInv, SelfInv, OnTime
  <2> QED  BY <1>3, <1>4, <2>2, <2>3
<1>6. CASE w = "child"
  <2>1. ChildCall[at["child"]] \in {"sleep1", "sleep2"} /\ left'["main"] = left["main"]
    BY <1>2, <1>6 DEF ChildCall
  <2>2. SleepInv'
    BY <1>1, <1>2, <1>6, <2>1 DEF SleepInv, MainCall, ChildCall
  <2>3. prog # "cancelpoint"
    <3>1. prog = "cancelpoint" => ChildCall = <<"puts", "spin">> /\ at["child"] \in 1..2
      BY ChildCalls DEF ThreadTypes
    <3> QED  BY <2>1, <3>1
  <2>4. prog = "detachother" => left'["child"] = 2
    <3> SUFFICES ASSUME prog = "detachother" PROVE left'["child"] = 2
      OBVIOUS
    <3>1. ChildCall = <<"puts", "sleep2", "puts", "return">> /\ at["child"] \in 1..4
      BY ChildCalls DEF ThreadTypes
    <3> QED  BY <1>2, <1>6, <2>1, <3>1 DEF ChildCall
  <2>5. prog = "detachself" => left'["child"] = 2 /\ at["child"] = 3
    <3> SUFFICES ASSUME prog = "detachself" PROVE left'["child"] = 2 /\ at["child"] = 3
      OBVIOUS
    <3>1. /\ ChildCall = <<"detach", "puts", "sleep2", "puts", "return">>
          /\ at["child"] \in 1..5
      BY ChildCalls DEF ThreadTypes
    <3>2. ChildCall[at["child"]] = "sleep2" /\ at["child"] = 3
      BY <2>1, <3>1
    <3> QED  BY <1>2, <1>6, <3>2 DEF ChildCall
  <2>6. at["main"] # 1
    BY <1>1, <1>6 DEF EndInv
  <2>7. SpinInv' /\ OtherInv' /\ SelfInv'
    BY <1>1, <2>1, <2>3, <2>4, <2>5, <2>6 DEF SpinInv, OtherInv, SelfInv, OnTime
  <2> QED  BY <1>3, <1>4, <2>2, <2>7
<1> QED  BY <1>5, <1>6

LEMMA WakeStep == ASSUME ThreadInv, NEW w \in {"main", "child"}, T!Wake(w) PROVE ThreadInv'
<1> USE DEF ThreadInv
<1>1. /\ left[w] = 0 /\ life[w] = "alive" /\ ended = "no"
      /\ left' = [left EXCEPT ![w] = -1] /\ at' = [at EXCEPT ![w] = at[w] + 1]
      /\ UNCHANGED <<prog, life, joinable, joining, request, cancelable, stack, ran, result, told,
                     ended, slips>>
  BY Zenon DEF T!Wake, T!Return, T!Goto, T!Live, T!Awake, T!childVars
<1>2. /\ left' \in [{"main", "child"} -> Int] /\ left'[w] = -1
      /\ at' \in [{"main", "child"} -> Nat] /\ at'[w] = at[w] + 1
      /\ \A v \in {"main", "child"} : v # w => left'[v] = left[v] /\ at'[v] = at[v]
  BY <1>1 DEF ThreadTypes
<1>3. CASE w = "main"
  <2>1. MainCall[at["main"]] = "sleep1"
    BY <1>1, <1>3 DEF SleepInv
  <2>2. /\ at["main"] + 1 \in 1..Len(MainCall)
        /\ at["main"] = IF prog = "detachother" THEN 3 ELSE 2
    BY <2>1, MainCalls DEF ThreadTypes
  <2>3. ThreadTypes'
    BY <1>1, <1>2, <1>3, <2>2 DEF ThreadTypes, MainCall, ChildCall
  <2>4. SleepInv'
    BY <1>1, <1>2, <1>3 DEF SleepInv, MainCall, ChildCall
  <2>5. EndInv' /\ CleanInv' /\ T!JoinAnswers'
    BY <1>1, <1>2, <1>3, <2>2 DEF EndInv, CleanInv, T!JoinAnswers
  <2>6. SpinInv' /\ OtherInv' /\ SelfInv'
    BY <1>1, <1>2, <1>3, <2>2 DEF SpinInv, OtherInv, SelfInv, OnTime
  <2> QED  BY <2>3, <2>4, <2>5, <2>6
<1>4. CASE w = "child"
  <2>1. ChildCall[at["child"]] \in {"sleep1", "sleep2"} /\ at["main"] # 1
    BY <1>1, <1>4 DEF SleepInv, EndInv
  <2>2. /\ at["child"] + 1 \in 1..Len(ChildCall)
        /\ prog = "setcancelstate" => at["child"] # 1
    BY <2>1, ChildCalls DEF ThreadTypes
  <2>3. ThreadTypes'
    BY <1>1, <1>2, <1>4, <2>2 DEF ThreadTypes, MainCall, ChildCall
  <2>4. SleepInv'
    BY <1>1, <1>2, <1>4 DEF SleepInv, MainCall, ChildCall
  <2>5. EndInv' /\ T!JoinAnswers'
    BY <1>1, <1>2, <1>4, <2>1, <2>2 DEF EndInv, T!JoinAnswers
  <2>6. CleanInv'
    <3>1. CASE prog = "cleanupafter"
      <4>1. /\ ChildCall = <<"puts", "push1", "push2", "push3", "pop1", "puts", "sleep2", "exit10">>
            /\ at["child"] \in 1..8
        BY <3>1, ChildCalls DEF ThreadTypes
      <4>2. at["child"] = 7
        BY <2>1, <4>1
      <4> QED  BY <1>1, <1>2, <1>4, <3>1, <4>2 DEF CleanInv, Stacked
    <3>2. CASE prog = "cleanuplast"
      <4>1. /\ ChildCall = <<"puts", "push1", "push2", "push3", "sleep2", "exit10">>
            /\ at["child"] \in 1..6
        BY <3>2, ChildCalls DEF ThreadTypes
      <4>2. at["child"] = 5
        BY <2>1, <4>1
      <4> QED  BY <1>1, <1>2, <1>4, <3>2, <4>2 DEF CleanInv, Stacked
    <3> QED  BY <1>1, <3>1, <3>2 DEF CleanInv, Cleaning
  <2>7. SpinInv' /\ OtherInv' /\ SelfInv'
    BY <1>1, <1>2, <1>4, <2>1 DEF SpinInv, OtherInv, SelfInv, OnTime
  <2> QED  BY <2>3, <2>4, <2>5, <2>6, <2>7
<1> QED  BY <1>3, <1>4

(* With no second lost, time goes on only while both threads wait.         *)
LEMMA TickStep == ASSUME ThreadInv, T!Tick PROVE ThreadInv'
<1> USE DEF ThreadInv
<1>1. /\ ended = "no" /\ slips' \in Nat
      /\ slips' = 0 => slips = 0 /\ T!Idle("main") /\ T!Idle("child")
      /\ slips' = 0 \/ slips' > 0
      /\ left' = [w \in {"main", "child"} |-> IF left[w] > 0 THEN left[w] - 1 ELSE left[w]]
      /\ UNCHANGED <<prog, at, life, joinable, joining, request, cancelable, stack, ran, result,
                     told, ended>>
      /\ slips > 0 => slips' > 0
  BY DEF T!Tick, T!Live, T!Who, T!Asleep, T!childVars, ThreadTypes
<1>2. /\ left' \in [{"main", "child"} -> Int]
      /\ \A w \in {"main", "child"} : left'[w] = IF left[w] > 0 THEN left[w] - 1 ELSE left[w]
  BY <1>1 DEF ThreadTypes
<1>3. ThreadTypes'
  BY <1>1, <1>2 DEF ThreadTypes, MainCall, ChildCall
<1>4. SleepInv'
  BY <1>1, <1>2 DEF SleepInv, ThreadTypes, MainCall, ChildCall
<1>5. EndInv' /\ CleanInv' /\ T!JoinAnswers'
  BY <1>1, <1>2 DEF EndInv, CleanInv, T!JoinAnswers, ThreadTypes
<1>6. ASSUME slips' = 0
      PROVE  /\ life["child"] = "alive" =>
                    \/ left["child"] > 0
                    \/ ChildCall[at["child"]] \in {"spin", "testcancel"}
             /\ life["main"] = "alive" => left["main"] > 0 \/ joining = TRUE
  BY <1>1, <1>6 DEF T!Idle, T!Asleep, T!Waits, T!Op, ChildCall, ThreadTypes
<1>7. SpinInv'
  <2> SUFFICES ASSUME OnTime', prog = "cancelpoint" PROVE SpinInv'
    BY <1>1 DEF SpinInv
  <2>1. OnTime
    BY <1>1 DEF OnTime
  <2>2. life["child"] = "alive" => at["child"] = 2
    <3>1. ChildCall = <<"puts", "spin">> /\ at["child"] \in 1..2
      BY ChildCalls DEF ThreadTypes
    <3> QED  BY <1>6, <2>1, <3>1 DEF SpinInv, OnTime
  <2> QED  BY <1>1, <1>2, <2>1, <2>2 DEF SpinInv, ThreadTypes
<1>8. OtherInv'
  <2> SUFFICES ASSUME OnTime', prog = "detachother", at["main"] < 5 PROVE OtherInv'
    BY <1>1 DEF OtherInv
  <2>1. OnTime
    BY <1>1 DEF OnTime
  <2>2. ASSUME at["main"] # 1
        PROVE  at["main"] = 3 /\ left["main"] = 1 /\ left["child"] = 2
    <3>1. ChildCall = <<"puts", "sleep2", "puts", "return">> /\ at["child"] \in 1..4
      BY ChildCalls DEF ThreadTypes
    <3>2. left["child"] > 0
      BY <1>6, <2>1, <2>2, <3>1 DEF OtherInv, OnTime
    <3>3. left["main"] > 0
      BY <1>6, <2>1, <2>2 DEF OtherInv, OnTime
    <3> QED  BY <2>1, <2>2, <3>2, <3>3 DEF OtherInv
  <2> QED  BY <1>1, <1>2, <2>1, <2>2 DEF OtherInv, ThreadTypes
<1>9. SelfInv'
  <2> SUFFICES ASSUME OnTime', prog = "detachself", at["main"] < 4 PROVE SelfInv'
    BY <1>1 DEF SelfInv
  <2>1. OnTime
    BY <1>1 DEF OnTime
  <2>2. ASSUME at["main"] # 1
        PROVE  at["main"] = 2 /\ left["main"] = 1 /\ left["child"] = 2
    <3>1. /\ ChildCall = <<"detach", "puts", "sleep2", "puts", "return">>
          /\ at["child"] \in 1..5
      BY ChildCalls DEF ThreadTypes
    <3>2. left["child"] > 0
      BY <1>6, <2>1, <2>2, <3>1 DEF SelfInv, OnTime
    <3>3. left["main"] > 0
      BY <1>6, <2>1, <2>2 DEF SelfInv, OnTime
    <3> QED  BY <2>1, <2>2, <3>2, <3>3 DEF SelfInv
  <2> QED  BY <1>1, <1>2, <2>1, <2>2 DEF SelfInv, ThreadTypes
<1> QED  BY <1>3, <1>4, <1>5, <1>7, <1>8, <1>9

LEMMA ThreadStep == ThreadInv /\ [T!Next]_(T!vars) => ThreadInv'
<1> SUFFICES ASSUME ThreadInv, [T!Next]_(T!vars) PROVE ThreadInv'
  OBVIOUS
<1>1. CASE T!Main
  BY <1>1, CreateStep, CancelStep, JoinBeginStep, JoinEndStep, JoinFailsStep, DetachStep,
      MainEndStep
     DEF T!Main, T!Join
<1>2. CASE T!Child /\ ~(T!Spin \/ T!TestCancel)
  BY <1>2, PutsStep, AgainStep, DetachStep, StackStep, ExitStep, CancelledStep DEF T!Child
<1>3. ASSUME NEW w \in T!Who, T!Sleeps(w) PROVE ThreadInv'
  BY <1>3, SleepStep, WakeStep DEF T!Who, T!Sleeps
<1>4. CASE T!Tick
  BY <1>4, TickStep
<1>5. CASE UNCHANGED T!vars
  BY <1>5 DEF T!vars, T!threadVars, T!childVars, ThreadInv, ThreadTypes, SleepInv, EndInv, CleanInv,
     SpinInv, OtherInv, SelfInv, OnTime, T!JoinAnswers, MainCall, ChildCall
<1> QED  BY <1>1, <1>2, <1>3, <1>4, <1>5 DEF T!Next, T!Ended, T!Spin, T!TestCancel

(* In every program main is told what the program means to show: by        *)
(* pthread_join what its child ended with, or that it cannot be joined,    *)
(* unless a second was lost in one of the three programs that count on     *)
(* their sleeps; and pthread_exit runs the clean-up handlers still pushed, *)
(* the last first (11_thread).                                             *)
THEOREM ThreadsToldRight == T!Spec => []ThreadsEndAsTold
<1>1. ThreadInv => ThreadsEndAsTold
  BY DEF ThreadInv, ThreadsEndAsTold, T!ThreadsEndAsTold, T!CleanupsRun, CleanInv, Cleaning
<1> QED  BY ThreadInit, ThreadStep, <1>1, PTL DEF T!Spec
-----------------------------------------------------------------------------

(* wait, waitpid, waitpid_poll and sigchld.                                *)
Sig == wprog = "sigchld"

WaitTypes ==
    /\ wprog \in {"wait", "waitpid", "poll", "sigchld"}
    /\ wpc \in {"sigaction", "fork", "collect", "sleep", "asleep"}
    /\ wi \in Nat
    /\ child \in [W!Ids -> {"none", "alive", "zombie", "reaped"}]
    /\ wleft \in [W!Ids \cup {0} -> Nat]
    /\ pending \in BOOLEAN /\ handling \in BOOLEAN
    /\ wended \in {"no", "error", "return"} /\ wslips \in Nat

(* Which children there are, and what is done by a handler only.           *)
ForkInv ==
    /\ wpc = "sigaction" => Sig /\ wi = 1
    /\ wpc \in {"sigaction", "fork"} =>
           wi \in 1..Children /\ \A c \in W!Ids : child[c] = "none" <=> c >= wi
    /\ wpc \in {"collect", "sleep", "asleep"} => \A c \in W!Ids : child[c] # "none"
    /\ wpc = "collect" <=> (~Sig /\ wpc # "fork")
    /\ ~Sig => pending = FALSE /\ handling = FALSE
    /\ ~Sig /\ wpc = "fork" => \A c \in W!Ids : child[c] # "reaped"

Reaped == {c \in W!Ids : child[c] = "reaped"}

(* wait and waitpid have reaped as many as they have been called.          *)
CollectInv ==
    wprog \in {"wait", "waitpid"} /\ wpc = "collect" /\ wended = "no" =>
        wi \in 1..Children /\ Cardinality(Reaped) = wi - 1

(* A zombie is noted.                                                      *)
NotedInv == Sig /\ W!Zombies # {} => pending = TRUE \/ handling = TRUE

(* sigchld with no second lost.  No child has ended, and the clock stands  *)
(* until main naps; or all children are about to end, and the clock stands *)
(* until they have, so that a nap ends because one of them has.            *)
Fresh ==
    /\ \A c \in W!Ids : child[c] \in {"none", "alive"} /\ (child[c] = "alive" => wleft[c] = 1)
    /\ pending = FALSE /\ handling = FALSE
    /\ wpc \in {"sleep", "asleep"} => wi = 1
    /\ wleft[0] = IF wpc = "asleep" THEN NapTime ELSE 0

Busy == IF pending = TRUE \/ handling = TRUE THEN 1 ELSE 0

Later ==
    /\ wpc \in {"sleep", "asleep"} /\ wi \in 1..Naps
    /\ \A c \in W!Ids : wleft[c] = 0
    /\ \/ W!Unended = {}
       \/ /\ wi - 1 + Busy <= Cardinality(W!Ids \ W!Unended)
          /\ wpc = "asleep" => wleft[0] > 0

NapInv == Sig /\ wslips = 0 /\ wended = "no" => Fresh \/ Later

WaitInv == WaitTypes /\ ForkInv /\ CollectInv /\ NotedInv /\ NapInv /\ W!AllReaped

LEMMA IdsFinite ==
    /\ IsFiniteSet(W!Ids) /\ Cardinality(W!Ids) = Children
    /\ \A S : S \subseteq W!Ids => /\ IsFiniteSet(S) /\ Cardinality(S) \in 0..Children
                                   /\ Cardinality(S) = Children => S = W!Ids
<1>1. IsFiniteSet(W!Ids) /\ Cardinality(W!Ids) = Children /\ Children \in Nat
  BY FS_Interval, WaitersAssumption DEF W!Ids
<1>2. ASSUME NEW S, S \subseteq W!Ids
      PROVE  /\ IsFiniteSet(S) /\ Cardinality(S) \in 0..Children
             /\ Cardinality(S) = Children => S = W!Ids
  BY <1>1, <1>2, FS_Subset, FS_CardinalityType
<1> QED  BY <1>1, <1>2

LEMMA WaitInit == W!Init => WaitInv
<1> SUFFICES ASSUME W!Init PROVE WaitInv
  OBVIOUS
<1> USE WaitersAssumption DEF W!Init, W!Ids, W!Main, Sig
<1>1. WaitTypes
  BY DEF WaitTypes
<1>2. ForkInv
  BY DEF ForkInv
<1>3. CollectInv /\ NotedInv /\ NapInv /\ W!AllReaped
  BY DEF CollectInv, NotedInv, NapInv, W!AllReaped, Fresh, W!Zombies
<1> QED  BY <1>1, <1>2, <1>3 DEF WaitInv

(* sigaction and fork.                                                     *)
LEMMA ForkStep == WaitInv /\ (W!Sigaction \/ W!Fork) => WaitInv'
<1> SUFFICES ASSUME WaitInv, W!Sigaction \/ W!Fork PROVE WaitInv'
  OBVIOUS
<1> USE WaitersAssumption DEF WaitInv, W!Ids
<1>1. CASE wended' = "error" /\ UNCHANGED <<wprog, wpc, wi, child, wleft, pending, handling,
                                            wslips>>
  <2>1. WaitTypes' /\ ForkInv'
    BY <1>1 DEF WaitTypes, ForkInv, Sig
  <2>2. (CollectInv /\ NotedInv /\ NapInv /\ W!AllReaped)'
    BY <1>1 DEF CollectInv, NotedInv, NapInv, W!AllReaped, W!Zombies, Sig
  <2> QED  BY <2>1, <2>2
<1>2. CASE W!Sigaction /\ wpc' = "fork" /\ UNCHANGED wended
  <2>1. /\ wpc = "sigaction"
        /\ UNCHANGED <<wprog, wi, child, wleft, pending, handling, wended, wslips>>
    BY <1>2 DEF W!Sigaction, W!At
  <2>2. WaitTypes' /\ ForkInv'
    BY <1>2, <2>1 DEF WaitTypes, ForkInv, Sig
  <2>3. (CollectInv /\ NotedInv /\ W!AllReaped)'
    BY <1>2, <2>1 DEF CollectInv, NotedInv, W!AllReaped, W!Zombies, Sig
  <2>4. NapInv'
    BY <1>2, <2>1 DEF NapInv, Fresh, Later, Sig
  <2> QED  BY <2>2, <2>3, <2>4
<1>3. CASE W!Fork /\ child' = [child EXCEPT ![wi] = "alive"]
  <2>1. /\ wpc = "fork" /\ wended = "no" /\ wleft' = [wleft EXCEPT ![wi] = 1]
        /\ \/ wi < Children /\ wi' = wi + 1 /\ wpc' = "fork"
           \/ wi = Children /\ wi' = 1 /\ wpc' = IF Sig THEN "sleep" ELSE "collect"
        /\ UNCHANGED <<wprog, pending, handling, wended, wslips>>
        /\ wi \in 1..Children
    BY <1>3 DEF W!Fork, W!At, W!Live, WaitTypes, ForkInv, Sig
  <2>2. WaitTypes'
    BY <1>3, <2>1 DEF WaitTypes
  <2>3. ForkInv'
    BY <1>3, <2>1 DEF ForkInv, Sig, WaitTypes
  <2>4. CollectInv'
    <3>1. ~Sig => Reaped' = {}
      BY <1>3, <2>1 DEF ForkInv, Reaped, Sig, WaitTypes
    <3> QED  BY <2>1, <3>1, FS_EmptySet DEF CollectInv, Sig
  <2>5. NotedInv' /\ W!AllReaped'
    BY <1>3, <2>1 DEF NotedInv, W!AllReaped, W!Zombies, Sig, WaitTypes
  <2>6. NapInv'
    BY <1>3, <2>1 DEF NapInv, Fresh, Later, Sig, WaitTypes
  <2> QED  BY <2>2, <2>3, <2>4, <2>5, <2>6
<1> QED  BY <1>1, <1>2, <1>3 DEF W!Sigaction, W!Fork

(* wait, waitpid and waitpid_poll.                                         *)
LEMMA CollectStep == WaitInv /\ (W!Wait \/ W!Poll) => WaitInv'
<1> SUFFICES ASSUME WaitInv, W!Wait \/ W!Poll PROVE WaitInv'
  OBVIOUS
<1> USE WaitersAssumption DEF WaitInv, W!Ids
<1>1. /\ wpc = "collect" /\ wended = "no" /\ ~Sig
      /\ UNCHANGED <<wprog, wpc, wleft, pending, handling, wslips>>
  BY DEF W!Wait, W!Poll, W!At, W!Live, Sig
<1>2. /\ child' = child \/ \E c \in W!Zombies : child' = [child EXCEPT ![c] = "reaped"]
      /\ wi' = wi \/ (wi' = wi + 1 /\ wi < Children)
      /\ wended' \in {"no", "return"}
  BY <1>1 DEF W!Wait, W!Poll, W!Reap, CollectInv, WaitTypes
<1>3. \A c \in W!Zombies : c \in W!Ids /\ child[c] = "zombie"
  BY DEF W!Zombies
<1>4. WaitTypes'
  BY <1>1, <1>2, <1>3 DEF WaitTypes
<1>5. ForkInv'
  BY <1>1, <1>2, <1>3 DEF ForkInv, Sig, WaitTypes
<1>6. NotedInv' /\ NapInv'
  BY <1>1 DEF NotedInv, NapInv, Sig
<1>7. CASE W!Wait
  <2>1. PICK c \in W!Zombies : child' = [child EXCEPT ![c] = "reaped"]
    BY <1>7 DEF W!Wait, W!Reap
  <2>2. Reaped' = Reaped \cup {c} /\ c \notin Reaped /\ Reaped \subseteq W!Ids
    BY <1>3, <2>1 DEF Reaped, WaitTypes
  <2>3. wi \in 1..Children /\ Cardinality(Reaped) = wi - 1 /\ IsFiniteSet(Reaped)
    BY <1>1, <1>7, <2>2, IdsFinite DEF CollectInv, W!Wait
  <2>4. Cardinality(Reaped') = wi
    BY <2>2, <2>3, FS_AddElement
  <2>5. CollectInv'
    BY <1>1, <1>7, <2>3, <2>4 DEF CollectInv, W!Wait
  <2>6. W!AllReaped'
    <3>1. wended' = "return" => Cardinality(Reaped') = Children /\ Reaped' \subseteq W!Ids
      BY <1>1, <1>7, <2>3, <2>4 DEF W!Wait, Reaped
    <3>2. wended' = "return" => Reaped' = W!Ids
      BY <3>1, IdsFinite
    <3> QED  BY <3>2 DEF W!AllReaped, Reaped
  <2> QED  BY <1>4, <1>5, <1>6, <2>5, <2>6
<1>8. CASE W!Poll
  <2>1. CollectInv'
    BY <1>1, <1>8 DEF CollectInv, W!Poll
  <2>2. W!AllReaped'
    BY <1>1, <1>8 DEF W!AllReaped, W!Poll, W!Zombies, W!Unended, ForkInv, WaitTypes
  <2> QED  BY <1>4, <1>5, <1>6, <2>1, <2>2
<1> QED  BY <1>7, <1>8

(* The naps of sigchld.                                                    *)
LEMMA NapStep == WaitInv /\ (W!Sleep \/ W!Wake) => WaitInv'
<1> SUFFICES ASSUME WaitInv, W!Sleep \/ W!Wake PROVE WaitInv'
  OBVIOUS
<1> USE WaitersAssumption DEF WaitInv, W!Ids
<1>1. /\ Sig /\ wended = "no" /\ handling = FALSE /\ pending = FALSE
      /\ UNCHANGED <<wprog, child, pending, handling, wslips>>
      /\ wpc \in {"sleep", "asleep"}
  <2>1. wpc \in {"sleep", "asleep"} /\ ~handling /\ ~pending /\ wended = "no"
        /\ UNCHANGED <<wprog, child, pending, handling, wslips>>
    BY DEF W!Sleep, W!Wake, W!At, W!Live
  <2> QED  BY <2>1 DEF ForkInv, WaitTypes
<1>2. CollectInv' /\ NotedInv'
  BY <1>1 DEF CollectInv, NotedInv, W!Zombies, Sig
<1>3. W!Zombies = {}
  BY <1>1 DEF NotedInv
<1>4. CASE W!Sleep
  <2>1. /\ wleft' = [wleft EXCEPT ![0] = NapTime] /\ wpc = "sleep" /\ wpc' = "asleep"
        /\ UNCHANGED <<wi, wended>>
    BY <1>4 DEF W!Sleep, W!At, W!Main
  <2>2. WaitTypes' /\ ForkInv'
    BY <1>1, <2>1 DEF WaitTypes, ForkInv, Sig
  <2>3. W!AllReaped'
    BY <1>1, <2>1 DEF W!AllReaped
  <2>4. wleft'[0] = NapTime /\ \A c \in W!Ids : wleft'[c] = wleft[c]
    BY <2>1 DEF WaitTypes
  <2>5. Fresh => Fresh'
    BY <1>1, <2>1, <2>4 DEF Fresh
  <2>6. Later => Later'
    BY <1>1, <2>1, <2>4 DEF Later, W!Unended, Busy
  <2>7. NapInv'
    BY <1>1, <2>1, <2>5, <2>6 DEF NapInv, Sig
  <2> QED  BY <1>2, <2>2, <2>3, <2>7
<1>5. CASE W!Wake
  <2>1. /\ wleft[0] = 0 /\ wpc = "asleep" /\ wleft' = wleft
        /\ \/ wi < Naps /\ wi' = wi + 1 /\ wpc' = "sleep" /\ wended' = wended
           \/ ~(wi < Naps) /\ wended' = "return" /\ UNCHANGED <<wi, wpc>>
    BY <1>5 DEF W!Wake, W!At, W!Main, W!NextSleep
  <2>2. WaitTypes' /\ ForkInv'
    BY <1>1, <2>1 DEF WaitTypes, ForkInv, Sig
  <2>3. wslips = 0 => Later /\ W!Unended = {}
    BY <1>1, <2>1 DEF NapInv, Fresh, Later
  <2>4. wslips = 0 => \A c \in W!Ids : child[c] = "reaped"
    BY <1>1, <1>3, <2>1, <2>3 DEF W!Zombies, W!Unended, WaitTypes, ForkInv
  <2>5. W!AllReaped'
    BY <1>1, <2>4 DEF W!AllReaped, WaitTypes, Sig
  <2>6. NapInv'
    BY <1>1, <2>1, <2>3 DEF NapInv, Later, W!Unended
  <2> QED  BY <1>2, <2>2, <2>5, <2>6
<1> QED  BY <1>4, <1>5

(* The handler begins, reaps a child, or finds none and is left.           *)
LEMMA HandlerStep == WaitInv /\ W!Handler => WaitInv'
<1> SUFFICES ASSUME WaitInv, W!Handler PROVE WaitInv'
  OBVIOUS
<1> USE WaitersAssumption DEF WaitInv, W!Ids
<1>1. /\ Sig /\ wended = "no" /\ UNCHANGED <<wprog, wslips>>
      /\ pending = TRUE \/ handling = TRUE
      /\ handling' \in BOOLEAN /\ pending' \in BOOLEAN
  <2>1. /\ wended = "no" /\ UNCHANGED <<wprog, wslips>>
        /\ pending \/ handling
    BY Zenon DEF W!Handler, W!Deliver, W!WaitChild, W!Live
  <2>2. pending = TRUE \/ handling = TRUE
    BY <2>1, Zenon DEF WaitTypes
  <2>3. Sig
    BY <2>2 DEF ForkInv
  <2>4. handling' \in BOOLEAN /\ pending' \in BOOLEAN
    BY Zenon DEF W!Handler, W!Deliver, W!WaitChild, W!HandlerReturns, WaitTypes
  <2> QED  BY <2>1, <2>2, <2>3, <2>4
<1>2. CollectInv'
  BY <1>1 DEF CollectInv, Sig
<1>3. wslips = 0 => Later
  BY <1>1 DEF NapInv, Fresh
<1>4. CASE W!Deliver
  <2>1. handling' = TRUE /\ UNCHANGED <<wpc, wi, child, wleft, wended>>
    BY <1>4, Zenon DEF W!Deliver
  <2>2. WaitTypes' /\ ForkInv'
    BY <1>1, <2>1 DEF WaitTypes, ForkInv, Sig
  <2>3. NotedInv' /\ W!AllReaped'
    BY <1>1, <2>1 DEF NotedInv, W!AllReaped
  <2>4. NapInv'
    BY <1>1, <1>3, <2>1 DEF NapInv, Later, Busy, W!Unended
  <2> QED  BY <1>2, <2>2, <2>3, <2>4
<1>5. CASE W!WaitChild /\ \E c \in W!Zombies : W!Reap(c)
  <2>1. PICK c \in W!Zombies : child' = [child EXCEPT ![c] = "reaped"]
    BY <1>5 DEF W!Reap
  <2>2. W!Zombies # {} /\ UNCHANGED <<pending, handling, wleft, wi, wpc, wended>>
    BY <1>5, <2>1 DEF W!WaitChild
  <2>3. c \in W!Ids /\ child[c] = "zombie"
    BY <2>1 DEF W!Zombies
  <2>4. WaitTypes' /\ ForkInv'
    BY <1>1, <2>1, <2>2, <2>3 DEF WaitTypes, ForkInv, Sig
  <2>5. NotedInv' /\ W!AllReaped'
    BY <1>1, <2>2 DEF NotedInv, W!AllReaped
  <2>6. W!Unended' = W!Unended
    BY <2>1, <2>3 DEF W!Unended, WaitTypes
  <2>7. NapInv'
    BY <1>1, <1>3, <2>2, <2>6 DEF NapInv, Later, Busy
  <2> QED  BY <1>2, <2>4, <2>5, <2>7
<1>6. CASE W!Zombies = {} /\ child' = child /\ handling = TRUE /\ pending' = FALSE
           /\ UNCHANGED <<handling, wleft, wi, wpc, wended>>
  <2>1. WaitTypes' /\ ForkInv'
    BY <1>1, <1>6 DEF WaitTypes, ForkInv, Sig
  <2>2. NotedInv' /\ W!AllReaped'
    BY <1>1, <1>6 DEF NotedInv, W!AllReaped
  <2>3. NapInv'
    BY <1>1, <1>3, <1>6 DEF NapInv, Later, Busy, W!Unended
  <2> QED  BY <1>2, <2>1, <2>2, <2>3
<1>7. CASE /\ W!Zombies = {} /\ child' = child /\ handling' = FALSE /\ pending' = FALSE
           /\ IF wpc = "asleep" THEN wleft' = [wleft EXCEPT ![0] = 0] /\ W!NextSleep
              ELSE UNCHANGED <<wleft, wi, wpc, wended>>
  <2>1. wpc = "asleep" =>
            \/ wi < Naps /\ wi' = wi + 1 /\ wpc' = "sleep" /\ wended' = wended
            \/ ~(wi < Naps) /\ wended' = "return" /\ UNCHANGED <<wi, wpc>>
    BY <1>7 DEF W!NextSleep
  <2>2. /\ wleft' \in [W!Ids \cup {0} -> Nat]
        /\ \A c \in W!Ids : wleft'[c] = wleft[c]
    BY <1>7 DEF WaitTypes
  <2>3. WaitTypes' /\ ForkInv'
    BY <1>1, <1>7, <2>1, <2>2 DEF WaitTypes, ForkInv, Sig
  <2>4. NotedInv'
    BY <1>7 DEF NotedInv, W!Zombies
  <2>5. wslips = 0 => W!Unended = {} \/ wi <= Cardinality(W!Ids \ W!Unended)
    BY <1>1, <1>3 DEF Later, Busy, WaitTypes
  <2>6. wslips = 0 /\ wpc = "asleep" /\ ~(wi < Naps) => W!Unended = {}
    <3>1. Cardinality(W!Ids \ W!Unended) \in 0..Children
          /\ (Cardinality(W!Ids \ W!Unended) = Children => W!Ids \ W!Unended = W!Ids)
      BY IdsFinite
    <3> QED  BY <2>5, <3>1 DEF W!Unended, WaitTypes
  <2>7. W!AllReaped'
    <3>1. wended' = "return" /\ wslips = 0 => W!Unended = {} /\ wpc = "asleep"
      BY <1>1, <1>7, <2>1, <2>6
    <3>2. W!Unended = {} /\ wpc = "asleep" => \A c \in W!Ids : child[c] = "reaped"
      BY <1>7 DEF W!Unended, W!Zombies, WaitTypes, ForkInv
    <3> QED  BY <1>1, <1>7, <3>1, <3>2 DEF W!AllReaped, Sig, WaitTypes
  <2>8. W!Unended' = W!Unended
    BY <1>7 DEF W!Unended
  <2>9. NapInv'
    <3>1. CASE wpc = "asleep"
      BY <1>1, <1>3, <1>7, <2>1, <2>2, <2>5, <2>8, <3>1 DEF NapInv, Later, Busy, WaitTypes
    <3>2. CASE wpc # "asleep"
      <4>1. UNCHANGED <<wleft, wi, wpc, wended>>
        BY <1>7, <3>2
      <4>2. wslips = 0 => W!Unended = {} \/ wi - 1 <= Cardinality(W!Ids \ W!Unended)
        <5>1. Cardinality(W!Ids \ W!Unended) \in Nat
          BY IdsFinite
        <5> QED  BY <2>5, <5>1 DEF WaitTypes
      <4> QED  BY <1>1, <1>3, <1>7, <2>8, <3>2, <4>1, <4>2 DEF NapInv, Later, Busy, WaitTypes
    <3> QED  BY <3>1, <3>2
  <2> QED  BY <1>2, <2>3, <2>4, <2>7, <2>9
<1>8. W!WaitChild => \/ \E c \in W!Zombies : W!Reap(c)
                     \/ W!Zombies = {} /\ W!HandlerReturns /\ child' = child /\ handling = TRUE
  BY Zenon DEF W!WaitChild, WaitTypes
<1>9. W!HandlerReturns =>
        \/ pending' = FALSE /\ UNCHANGED <<handling, wleft, wi, wpc, wended>>
        \/ /\ handling' = FALSE /\ pending' = FALSE
           /\ IF wpc = "asleep" THEN wleft' = [wleft EXCEPT ![0] = 0] /\ W!NextSleep
              ELSE UNCHANGED <<wleft, wi, wpc, wended>>
  <2>1. CASE pending = TRUE
    BY <2>1 DEF W!HandlerReturns
  <2>2. CASE pending = FALSE
    BY <2>2 DEF W!HandlerReturns, W!Main
  <2> QED  BY <2>1, <2>2 DEF WaitTypes
<1> QED  BY <1>4, <1>5, <1>6, <1>7, <1>8, <1>9 DEF W!Handler

(* A child ends: main is told by the signal.                               *)
LEMMA ChildStep == ASSUME WaitInv, NEW c \in W!Ids, W!Child(c) PROVE WaitInv'
<1> USE WaitersAssumption DEF WaitInv, W!Ids
<1>1. /\ wended = "no" /\ child[c] = "alive" /\ wleft[c] = 0
      /\ child' = [child EXCEPT ![c] = "zombie"]
      /\ UNCHANGED <<wprog, wpc, wi, wleft, handling, wended, wslips>>
      /\ pending' = Sig
  BY DEF W!Child, W!Live, Sig
<1>2. Sig \in BOOLEAN
  BY DEF Sig
<1>3. (Sig => pending' = TRUE) /\ (~Sig => pending' = FALSE)
  BY <1>1, <1>2
<1>4. WaitTypes'
  BY <1>1, <1>2 DEF WaitTypes
<1>5. ForkInv'
  BY <1>1, <1>3 DEF ForkInv, WaitTypes, Sig
<1>6. Reaped' = Reaped
  BY <1>1 DEF Reaped, WaitTypes
<1>7. (CollectInv /\ NotedInv /\ W!AllReaped)'
  BY <1>1, <1>3, <1>6 DEF CollectInv, NotedInv, W!AllReaped, Sig
<1>8. NapInv'
  <2>1. Sig /\ wslips = 0 => Later /\ c \in W!Unended
    BY <1>1 DEF NapInv, Fresh, W!Unended
  <2>2. W!Ids \ W!Unended' = (W!Ids \ W!Unended) \cup {c} /\ W!Unended' \subseteq W!Unended
    BY <1>1 DEF W!Unended, WaitTypes
  <2>3. c \in W!Unended => Cardinality((W!Ids \ W!Unended) \cup {c}) = Cardinality(W!Ids \ W!Unended) + 1
    BY IdsFinite, FS_AddElement
  <2>4. Cardinality(W!Ids \ W!Unended) \in Nat
    BY IdsFinite
  <2>5. Sig /\ wslips = 0 => Later'
    <3>1. Busy' = 1 \/ ~Sig
      BY <1>3 DEF Busy
    <3>2. Busy \in {0, 1}
      BY DEF Busy
    <3>3. Sig /\ wslips = 0 => wi - 1 + 1 <= Cardinality(W!Ids \ W!Unended') /\ (wpc = "asleep" => wleft[0] > 0)
      <4>1. SUFFICES ASSUME Sig, wslips = 0
                     PROVE  /\ wi - 1 + 1 <= Cardinality(W!Ids \ W!Unended')
                            /\ wpc = "asleep" => wleft[0] > 0
        OBVIOUS
      <4>2. /\ wi - 1 + Busy <= Cardinality(W!Ids \ W!Unended) /\ wi \in Nat
            /\ wpc = "asleep" => wleft[0] > 0
        BY <2>1, <4>1 DEF Later, WaitTypes
      <4>3. Cardinality(W!Ids \ W!Unended') = Cardinality(W!Ids \ W!Unended) + 1
        BY <2>1, <2>2, <2>3, <4>1
      <4> QED  BY <2>4, <3>2, <4>2, <4>3
    <3> QED  BY <1>1, <2>1, <3>1, <3>3 DEF Later
  <2> QED  BY <1>1, <2>5 DEF NapInv, Sig
<1> QED  BY <1>4, <1>5, <1>7, <1>8

(* A second passes.                                                        *)
LEMMA WaitTickStep == WaitInv /\ W!Tick => WaitInv'
<1> SUFFICES ASSUME WaitInv, W!Tick PROVE WaitInv'
  OBVIOUS
<1> USE WaitersAssumption DEF WaitInv, W!Ids
<1>1. /\ wended = "no" /\ \E w \in W!Ids \cup {0} : wleft[w] > 0
      /\ (wslips' = wslips /\ W!Quiet) \/ wslips' = wslips + 1
      /\ wleft' = [w \in W!Ids \cup {0} |-> IF wleft[w] > 0 THEN wleft[w] - 1 ELSE 0]
      /\ UNCHANGED <<wprog, wpc, wi, child, pending, handling, wended>>
  BY DEF W!Tick, W!Live, WaitTypes
<1>2. WaitTypes'
  BY <1>1 DEF WaitTypes
<1>3. (ForkInv /\ CollectInv /\ NotedInv /\ W!AllReaped)'
  BY <1>1 DEF ForkInv, CollectInv, NotedInv, W!AllReaped, Sig, Reaped, W!Zombies
<1>4. NapInv'
  <2>1. SUFFICES ASSUME Sig, wslips' = 0 PROVE Later'
    BY <1>1 DEF NapInv, Sig
  <2>2. wslips = 0 /\ W!Quiet
    BY <1>1, <2>1 DEF WaitTypes
  <2>3. /\ wpc = "asleep" /\ wleft[0] > 0 /\ \A c \in W!Unended : wleft[c] > 0
    BY <2>1, <2>2 DEF W!Quiet, ForkInv, W!Main
  <2>4. CASE Fresh
    <3>1. wleft[0] = NapTime /\ wi = 1 /\ pending = FALSE /\ handling = FALSE
      BY <2>3, <2>4 DEF Fresh
    <3>2. \A c \in W!Ids : wleft[c] = 1
      BY <2>3, <2>4 DEF Fresh, ForkInv
    <3>3. wleft'[0] > 0 /\ \A c \in W!Ids : wleft'[c] = 0
      BY <1>1, <3>1, <3>2
    <3>4. Cardinality(W!Ids \ W!Unended') \in Nat
      BY IdsFinite
    <3>5. wi' = 1 /\ Busy' = 0 /\ wpc' = "asleep"
      BY <1>1, <2>3, <3>1 DEF Busy
    <3> QED  BY <3>3, <3>4, <3>5 DEF Later
  <2>5. CASE Later
    <3>1. W!Unended = {} /\ W!Unended' = W!Unended
      BY <1>1, <2>3, <2>5 DEF Later, W!Unended
    <3>2. \A c \in W!Ids : wleft'[c] = 0
      BY <1>1, <2>5 DEF Later
    <3> QED  BY <1>1, <2>5, <3>1, <3>2 DEF Later
  <2> QED  BY <1>1, <2>1, <2>2, <2>4, <2>5 DEF NapInv
<1> QED  BY <1>2, <1>3, <1>4

(* However children, signals and naps interleave, a main that ends well    *)
(* has reaped every child, sigchld if no second was lost.                  *)
THEOREM ChildrenAreReaped == W!Spec => []AllReaped
<1>1. WaitInv /\ [W!Next]_(W!vars) => WaitInv'
  <2> SUFFICES ASSUME WaitInv, [W!Next]_(W!vars) PROVE WaitInv'
    OBVIOUS
  <2>1. CASE UNCHANGED W!vars
    BY <2>1 DEF W!vars, WaitInv, WaitTypes, ForkInv, CollectInv, NotedInv, NapInv, W!AllReaped,
                Sig, Reaped, W!Zombies, W!Unended, Fresh, Later, Busy
  <2> QED  BY <2>1, ForkStep, CollectStep, NapStep, HandlerStep, ChildStep, WaitTickStep
              DEF W!Next, W!MainStep, W!Ended
<1>2. WaitInv => AllReaped
  BY DEF WaitInv, AllReaped
<1> QED  BY <1>1, <1>2, WaitInit, PTL DEF W!Spec
=============================================================================
