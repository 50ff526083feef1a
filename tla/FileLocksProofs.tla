--------------------------- MODULE FileLocksProofs ---------------------------
(***************************************************************************)
(* Proofs about FileLocks for any set of processes and any number of       *)
(* files.                                                                  *)
(***************************************************************************)
EXTENDS FileLocks, TLAPS

(* Where the programs of sfile.pid can be.                                 *)
SinglePcs == {"open", "flock", "empty", "write", "running", "ended", "failed", "killed"}
ExistsPcs == {"open", "running", "remove", "ended", "failed", "killed"}
AllPcs    == SinglePcs \union ExistsPcs
             \union {"extend", "peek", "lock", "lock_read", "hold", "read", "unlock",
                     "unlock_read", "close"}

(* All processes run programs of the same file, each at a place of its own *)
(* program.                                                                *)
PlaceInv ==
    /\ prog \in [Procs -> TestFilePrograms] \/ prog \in [Procs -> PidFilePrograms]
    /\ pc \in [Procs -> AllPcs]
    /\ \A p \in Procs : /\ prog[p] = "single" => pc[p] \in SinglePcs
                        /\ prog[p] = "exists" => pc[p] \in ExistsPcs
                        /\ pc[p] = "lock"  => prog[p] \in {"fwhole", "farea", "fread", "fwrite"}
                        /\ pc[p] = "flock" => prog[p] \in {"flock1", "flock2", "single"}
                        /\ pc[p] = "lock_read" => prog[p] = "farea"
                        /\ pc[p] = "write" => prog[p] \in {"fwhole", "farea", "flock2", "single"}
                        /\ pc[p] \in {"extend", "peek"} => prog[p] \in {"fwhole", "farea", "fwrite"}
                        /\ pc[p] = "empty" => prog[p] = "single"
                        /\ pc[p] = "read" => prog[p] \in {"farea", "flock2"}
                        /\ pc[p] = "remove" => prog[p] = "exists"

(* The name, the files that have had it and those still open.              *)
KernelInv ==
    /\ files \in Nat /\ file \in 0..files /\ files <= MaxFiles
    /\ opened \in [Procs -> 0..MaxFiles]
    /\ flocks \in [Files -> Procs \union {None}]
    /\ data \in [Files -> [Regions -> Procs \union {"eof", "zero", "old"}]]

(* Who works behind the flock holds it, on a file that has had the name.   *)
FlockInv ==
    \A p \in Procs : prog[p] = "single" =>
        /\ pc[p] \in {"flock", "empty", "write", "running"} => opened[p] \in 1..files
        /\ pc[p] \in {"empty", "write", "running"} => flocks[opened[p]] = p

(* Nobody else takes away the name that fileexistsornot.c has made.        *)
GuardInv ==
    /\ \A p, q \in Guarded : p = q
    /\ Guarded # {} => file # 0

(* Until a fileexistsornot.c has removed it the name means the same file.  *)
NameInv ==
    ~Removed => \A p \in Procs : prog[p] = "single"
                    /\ pc[p] \in {"flock", "empty", "write", "running"} => opened[p] = file

PidInv ==
    \A p \in Procs : prog[p] = "single" /\ pc[p] = "running" => data[opened[p]][1] = p

IInv == PlaceInv /\ KernelInv /\ FlockInv /\ GuardInv /\ NameInv /\ PidInv

LEMMA InitIInv == Init => IInv
<1> SUFFICES ASSUME Init PROVE IInv
  OBVIOUS
<1>1. PlaceInv
  BY DEF Init, PlaceInv, SinglePcs, ExistsPcs, AllPcs
<1>2. KernelInv
  BY MaxFilesAssumption DEF Init, KernelInv, Files, Regions
<1>3. FlockInv /\ GuardInv /\ NameInv /\ PidInv
  BY DEF Init, FlockInv, GuardInv, NameInv, PidInv, Guarded
<1> QED  BY <1>1, <1>2, <1>3 DEF IInv

(* The next call of a program is one of its own.                           *)
LEMMA NextCalls ==
    /\ AfterOpen["single"] = "flock" /\ AfterOpen["exists"] = "running"
    /\ AfterLock["single"] = "empty" /\ AfterWrite["single"] = "running"
    /\ \A q \in {"fwhole", "farea", "fwrite"} : AfterOpen[q] = "extend"
    /\ AfterOpen["fread"] = "lock"
    /\ \A q \in {"flock1", "flock2"} : AfterOpen[q] = "flock"
    /\ \A q \in {"fread", "fwrite", "flock1"} : AfterLock[q] = "hold"
    /\ \A q \in {"fwhole", "flock2"} : AfterLock[q] = "write"
    /\ AfterLock["farea"] = "lock_read"
    /\ AfterWrite["fwhole"] = "unlock"
    /\ \A q \in {"farea", "flock2"} : AfterWrite[q] = "read"
BY DEF AfterOpen, AfterLock, AfterWrite

LEMMA LeavePlaces ==
    ASSUME PlaceInv, NEW p \in Procs, NEW how \in {"ended", "failed", "killed"}, Leave(p, how)
    PROVE  PlaceInv'
BY DEF Leave, Goto, PlaceInv, SinglePcs, ExistsPcs, AllPcs

(* Every process stays within its program.                                 *)
LEMMA StepPlaces ==
    ASSUME PlaceInv, NEW p \in Procs, Step(p) \/ Interrupt(p) \/ Kill(p)
    PROVE  PlaceInv'
<1> USE DEF Goto, PlaceInv, SinglePcs, ExistsPcs, AllPcs
<1>1. CASE Open(p)
  BY <1>1, NextCalls DEF Open, TestFilePrograms, PidFilePrograms
<1>2. CASE OpenFails(p) \/ SetLockFails(p) \/ Close(p) \/ Kill(p)
  BY <1>2, LeavePlaces DEF OpenFails, SetLockFails, Close, Kill
<1>3. CASE Extend(p) \/ Peek(p)
  BY <1>3 DEF Extend, Peek
<1>4. CASE SetLock(p) \/ SetReadLock(p)
  BY <1>4, NextCalls DEF SetLock, SetReadLock, Grant
<1>5. CASE TryFlock(p)
  BY <1>5, NextCalls DEF TryFlock
<1>6. CASE TryFlockFails(p)
  BY <1>6, LeavePlaces DEF TryFlockFails
<1>7. CASE Write(p)
  BY <1>7, NextCalls DEF Write
<1>8. CASE Empty(p) \/ Read(p)
  BY <1>8 DEF Empty, Read
<1>9. CASE Unlock(p) \/ Interrupt(p)
  BY <1>9 DEF Unlock, Interrupt
<1>10. CASE CloseExists(p) \/ Remove(p)
  BY <1>10 DEF CloseExists, Remove
<1> QED
  BY <1>1, <1>2, <1>3, <1>4, <1>5, <1>6, <1>7, <1>8, <1>9, <1>10 DEF Step

LEMMA LeaveKernel ==
    ASSUME KernelInv, NEW p \in Procs, NEW how, Leave(p, how)
    PROVE  KernelInv'
BY MaxFilesAssumption DEF Leave, KernelInv, Files, None

(* The kernel's tables keep their types.                                   *)
LEMMA StepKernel ==
    ASSUME KernelInv, NEW p \in Procs, Step(p) \/ Interrupt(p) \/ Kill(p)
    PROVE  KernelInv'
<1> USE DEF KernelInv, Files
<1>1. CASE Open(p)
  <2>1. /\ files' \in Nat /\ files' <= MaxFiles /\ file' \in 1..files'
    BY <1>1, MaxFilesAssumption DEF Open
  <2>2. opened' \in [Procs -> 0..MaxFiles]
    <3>1. opened' = [opened EXCEPT ![p] = file'] /\ file' \in 0..MaxFiles
      BY <1>1, <2>1, MaxFilesAssumption DEF Open
    <3> QED  BY <3>1
  <2>3. data' \in [Files -> [Regions -> Procs \union {"eof", "zero", "old"}]]
    BY <1>1 DEF Open
  <2> QED  BY <1>1, <2>1, <2>2, <2>3 DEF Open
<1>2. CASE OpenFails(p) \/ SetLockFails(p) \/ Close(p) \/ Kill(p)
  BY <1>2, LeaveKernel DEF OpenFails, SetLockFails, Close, Kill
<1>3. CASE Extend(p) \/ Write(p) \/ Empty(p)
  <2>1. data' \in [Files -> [Regions -> Procs \union {"eof", "zero", "old"}]]
    BY <1>3 DEF Extend, Write, Empty
  <2> QED  BY <1>3, <2>1 DEF Extend, Write, Empty
<1>4. CASE SetLock(p) \/ SetReadLock(p) \/ Peek(p) \/ Read(p) \/ Interrupt(p)
  BY <1>4 DEF SetLock, SetReadLock, Grant, Peek, Read, Interrupt, kernelVars
<1>5. CASE TryFlock(p)
  BY <1>5 DEF TryFlock
<1>6. CASE TryFlockFails(p)
  BY <1>6, LeaveKernel DEF TryFlockFails, kernelVars
<1>7. CASE Unlock(p)
  BY <1>7 DEF Unlock, None
<1>8. CASE CloseExists(p)
  <2>1. 0 \in 0..MaxFiles
    BY MaxFilesAssumption
  <2> QED  BY <1>8, <2>1 DEF CloseExists
<1>9. CASE Remove(p)
  BY <1>9 DEF Remove
<1> QED
  BY <1>1, <1>2, <1>3, <1>4, <1>5, <1>6, <1>7, <1>8, <1>9 DEF Step
-----------------------------------------------------------------------------
(* Leaving takes nothing from the others.                                  *)
LEMMA LeaveOthers ==
    ASSUME IInv, NEW p \in Procs, NEW how \in {"ended", "failed", "killed"}, Leave(p, how),
           pc[p] # "ended"
    PROVE  FlockInv' /\ GuardInv' /\ NameInv' /\ PidInv'
<1> USE DEF IInv, Leave, Goto, PlaceInv, KernelInv, Files
<1>1. FlockInv'
  BY DEF FlockInv
<1>2. GuardInv'
  BY DEF GuardInv, Guarded
<1>3. Removed => Removed'
  BY DEF Removed
<1>4. NameInv'
  <2> SUFFICES ASSUME ~Removed', NEW q \in Procs, prog'[q] = "single",
                      pc'[q] \in {"flock", "empty", "write", "running"}
               PROVE  opened'[q] = file'
    BY DEF NameInv
  <2>1. q # p /\ pc'[q] = pc[q] /\ opened'[q] = opened[q]
    OBVIOUS
  <2> QED  BY <1>3, <2>1 DEF NameInv
<1>5. PidInv'
  BY DEF PidInv
<1> QED  BY <1>1, <1>2, <1>4, <1>5

(* The steps of the programs that are not on sfile.pid, of which there are *)
(* then none at all on it, and the steps that do not touch what the others *)
(* rely on.                                                                *)
LEMMA TestFileStep ==
    ASSUME IInv, PlaceInv', prog' = prog, prog \in [Procs -> TestFilePrograms]
    PROVE  FlockInv' /\ GuardInv' /\ NameInv' /\ PidInv'
<1>1. \A p \in Procs : prog'[p] # "single" /\ prog'[p] # "exists"
  BY DEF TestFilePrograms
<1>2. Guarded' = {}
  BY <1>1 DEF Guarded
<1> QED  BY <1>1, <1>2 DEF FlockInv, GuardInv, NameInv, PidInv

LEMMA ProgramsStay ==
    ASSUME NEW p \in Procs, Step(p) \/ Interrupt(p) \/ Kill(p)
    PROVE  prog' = prog
BY DEF Step, Interrupt, Kill, Open, OpenFails, Extend, Peek, SetLock, SetReadLock, Grant,
       SetLockFails, TryFlock, TryFlockFails, Write, Empty, Read, Unlock, Close,
       CloseExists, Remove, Leave

(* On sfile.pid: opening gives the name to a new file only when it was     *)
(* free, which no program that is still at work has left behind it.        *)
LEMMA OpenPid ==
    ASSUME IInv, NEW p \in Procs, prog[p] \in PidFilePrograms, Open(p)
    PROVE  FlockInv' /\ GuardInv' /\ NameInv' /\ PidInv'
<1> USE DEF IInv, Goto, PlaceInv, KernelInv, Files
<1>1. /\ pc' = [pc EXCEPT ![p] = AfterOpen[prog[p]]]
      /\ opened' = [opened EXCEPT ![p] = file']
      /\ pc[p] = "open" /\ prog' = prog /\ flocks' = flocks
      /\ files' \in Nat /\ files <= files' /\ file' \in 1..files'
      /\ file # 0 => file' = file
      /\ file = 0 => file' = files + 1
  BY DEF Open
<1>2. Removed => Removed'
  BY <1>1 DEF Removed
<1>3. FlockInv'
  BY <1>1, NextCalls DEF FlockInv, PidFilePrograms
<1>4. GuardInv'
  BY <1>1, NextCalls DEF GuardInv, Guarded, Open, Exclusive, PidFilePrograms
<1>5. NameInv'
  BY <1>1, <1>2, NextCalls DEF NameInv, FlockInv, PidFilePrograms
<1>6. PidInv'
  <2> SUFFICES ASSUME NEW q \in Procs, prog[q] = "single", pc'[q] = "running"
               PROVE  data'[opened'[q]][1] = q
    BY <1>1 DEF PidInv
  <2>1. q # p /\ pc[q] = "running"
    BY <1>1, NextCalls DEF PidFilePrograms
  <2>2. opened'[q] = opened[q] /\ opened[q] \in 1..files
    BY <1>1, <2>1 DEF FlockInv
  <2>3. data' = data \/ (file = 0 /\ data' = [data EXCEPT ![files + 1] = [r \in Regions |-> "eof"]])
    BY DEF Open, Truncates, PidFilePrograms
  <2>4. opened[q] \in Files /\ opened[q] # files + 1
    BY <2>2, MaxFilesAssumption
  <2>5. data'[opened[q]] = data[opened[q]]
    BY <2>3, <2>4
  <2> QED  BY <2>1, <2>2, <2>5 DEF PidInv
<1> QED  BY <1>3, <1>4, <1>5, <1>6

(* The other steps on sfile.pid.                                           *)
LEMMA PidStep ==
    ASSUME IInv, NEW p \in Procs, prog[p] \in PidFilePrograms, ~Open(p),
           Step(p) \/ Interrupt(p) \/ Kill(p)
    PROVE  FlockInv' /\ GuardInv' /\ NameInv' /\ PidInv'
<1> USE DEF IInv, Goto, PlaceInv, KernelInv, Files
<1>1. CASE OpenFails(p) \/ SetLockFails(p) \/ Kill(p)
  BY <1>1, LeaveOthers DEF OpenFails, SetLockFails, Kill, Live
<1>2. CASE Close(p)
  BY <1>2, LeaveOthers DEF Close
<1>3. ~(Extend(p) \/ Peek(p) \/ SetLock(p) \/ SetReadLock(p) \/ Read(p) \/ Unlock(p)
        \/ Interrupt(p))
  BY DEF Extend, Peek, SetLock, SetReadLock, Read, Unlock, Interrupt, SinglePcs, ExistsPcs,
         PidFilePrograms
<1>4. CASE TryFlock(p)
  <2>1. prog[p] = "single"
    BY <1>4 DEF TryFlock, PidFilePrograms
  <2>2. FlockInv'
    <3>1. ASSUME NEW q \in Procs, flocks[opened[p]] = None, flocks[opened[q]] = q
          PROVE  opened[q] # opened[p]
      BY <3>1, ProcsAssumption
    <3>2. opened[p] \in Files
      BY <1>4, <2>1, MaxFilesAssumption DEF TryFlock, FlockInv
    <3> QED
      BY <1>4, <2>1, <3>1, <3>2, NextCalls DEF TryFlock, FlockInv
  <2>3. Removed => Removed'
    BY <1>4 DEF TryFlock, Removed
  <2>4. GuardInv'
    BY <1>4, <2>1, NextCalls DEF TryFlock, GuardInv, Guarded
  <2>5. NameInv'
    BY <1>4, <2>1, <2>3, NextCalls DEF TryFlock, NameInv
  <2>6. PidInv'
    BY <1>4, <2>1, NextCalls DEF TryFlock, PidInv
  <2> QED  BY <2>2, <2>4, <2>5, <2>6
<1>5. CASE TryFlockFails(p)
  <2>1. Leave(p, "failed") /\ pc[p] = "flock"
    BY <1>5 DEF TryFlockFails, PidFilePrograms
  <2> QED  BY <2>1, LeaveOthers
<1>6. CASE Write(p) \/ Empty(p)
  <2>1. prog[p] = "single" /\ pc[p] \in {"write", "empty"}
    BY <1>6 DEF Write, Empty, PidFilePrograms
  <2>2. /\ pc' = [pc EXCEPT ![p] = IF pc[p] = "write" THEN "running" ELSE "write"]
        /\ UNCHANGED <<prog, file, files, opened, flocks>>
    BY <1>6, <2>1, NextCalls DEF Write, Empty
  <2>3. Removed => Removed'
    BY <2>1, <2>2 DEF Removed
  <2>4. FlockInv' /\ GuardInv' /\ NameInv'
    BY <2>1, <2>2, <2>3 DEF FlockInv, GuardInv, Guarded, NameInv
  <2>5. ASSUME NEW q \in Procs, prog[q] = "single", pc'[q] = "running"
        PROVE  data'[opened[q]][1] = q
    <3>1. opened[q] \in Files
      BY <2>1, <2>2, <2>5, MaxFilesAssumption DEF FlockInv
    <3>2. CASE q = p
      <4>1. Write(p) /\ Place(p) = 1
        BY <1>6, <2>1, <2>2, <2>5, <3>2 DEF Empty, Place
      <4>2. data' = [data EXCEPT ![opened[p]] =
                        [r \in Regions |-> IF r = 1 THEN p
                                           ELSE IF r < 1 /\ data[opened[p]][r] = "eof"
                                                THEN "zero" ELSE data[opened[p]][r]]]
        BY <4>1 DEF Write
      <4>3. 1 \in Regions /\ opened[p] \in Files
        BY <3>1, <3>2 DEF Regions
      <4> QED
        BY <3>2, <4>2, <4>3
    <3>3. CASE q # p
      <4>1. opened[q] # opened[p]
        BY <2>1, <2>2, <2>5, <3>3 DEF FlockInv
      <4>2. data'[opened[q]] = data[opened[q]]
        <5>1. CASE Write(p)
          BY <4>1, <5>1 DEF Write
        <5>2. CASE Empty(p)
          BY <4>1, <5>2 DEF Empty
        <5> QED  BY <1>6, <5>1, <5>2
      <4> QED
        BY <2>2, <2>5, <3>3, <4>2 DEF PidInv
    <3> QED  BY <3>2, <3>3
  <2>6. PidInv'
    BY <2>2, <2>5 DEF PidInv
  <2> QED  BY <2>4, <2>6
<1>7. CASE CloseExists(p)
  <2>1. /\ prog[p] = "exists" /\ pc[p] = "running" /\ pc' = [pc EXCEPT ![p] = "remove"]
        /\ opened' = [opened EXCEPT ![p] = 0]
        /\ UNCHANGED <<prog, file, files, data, flocks>>
    BY <1>7 DEF CloseExists
  <2>2. Removed => Removed'
    BY <2>1 DEF Removed
  <2> QED  BY <2>1, <2>2 DEF FlockInv, GuardInv, Guarded, NameInv, PidInv
<1>8. CASE Remove(p)
  <2>1. /\ prog[p] = "exists" /\ pc[p] = "remove" /\ pc' = [pc EXCEPT ![p] = "ended"]
        /\ UNCHANGED <<prog, files, data, opened, flocks>>
    BY <1>8 DEF Remove, SinglePcs, PidFilePrograms
  <2>2. Removed'
    BY <2>1 DEF Removed
  <2> QED  BY <2>1, <2>2 DEF FlockInv, GuardInv, Guarded, NameInv, PidInv
<1> QED
  BY <1>1, <1>2, <1>3, <1>4, <1>5, <1>6, <1>7, <1>8 DEF Step

LEMMA StepIInv == IInv /\ [Next]_vars => IInv'
<1> SUFFICES ASSUME IInv, [Next]_vars PROVE IInv'
  OBVIOUS
<1>1. ASSUME NEW p \in Procs, Step(p) \/ Interrupt(p) \/ Kill(p) PROVE IInv'
  <2>1. PlaceInv' /\ KernelInv'
    BY <1>1, StepPlaces, StepKernel DEF IInv
  <2>2. CASE prog \in [Procs -> TestFilePrograms]
    BY <1>1, <2>1, <2>2, TestFileStep, ProgramsStay DEF IInv
  <2>3. CASE prog \in [Procs -> PidFilePrograms]
    <3>1. prog[p] \in PidFilePrograms
      BY <2>3
    <3> QED  BY <1>1, <2>1, <3>1, OpenPid, PidStep DEF IInv
  <2> QED  BY <2>2, <2>3 DEF IInv, PlaceInv
<1>2. CASE UNCHANGED vars
  BY <1>2 DEF vars, kernelVars, IInv, PlaceInv, KernelInv, FlockInv, GuardInv, NameInv,
     PidInv, Guarded, Removed
<1> QED  BY <1>1, <1>2 DEF Next, Ended

LEMMA Invariance == Spec => []IInv
BY InitIInv, StepIInv, PTL DEF Spec
-----------------------------------------------------------------------------
(* One filelock.c runs at a time and sfile.pid has its pid, as long as no  *)
(* fileexistsornot.c has removed it; one fileexistsornot.c runs at a time. *)
THEOREM OneInstanceRuns == Spec => []OneInstance
<1>1. IInv => OneInstance
  <2> SUFFICES ASSUME IInv PROVE OneInstance
    OBVIOUS
  <2>1. ASSUME ~Removed, NEW p \in Singles, NEW q \in Singles PROVE p = q
    <3>1. opened[p] = file /\ opened[q] = file
      BY <2>1 DEF IInv, NameInv, Singles
    <3> QED  BY <3>1 DEF IInv, FlockInv, Singles
  <2>2. ASSUME ~Removed, NEW p \in Singles
        PROVE  opened[p] = file /\ (pc[p] = "running" => data[file][1] = p)
    BY <2>2 DEF IInv, NameInv, PidInv, Singles
  <2> QED  BY <2>1, <2>2 DEF OneInstance, IInv, GuardInv
<1> QED  BY <1>1, Invariance, PTL

(* A sfile.pid that no running fileexistsornot.c will remove stays, and    *)
(* none starts again, however the last one came to its end.                *)
THEOREM StaleFileLocksOut == Spec => LockedOut
<1>1. IInv /\ [Next]_vars => [file # 0 /\ Guarded = {} => file' = file /\ Guarded' = {}]_vars
  <2> SUFFICES ASSUME IInv, Next, file # 0, Guarded = {}
               PROVE  file' = file /\ Guarded' = {}
    BY DEF vars
  <2>1. ASSUME NEW p \in Procs, Step(p) \/ Interrupt(p) \/ Kill(p)
        PROVE  file' = file /\ Guarded' = {}
    <3> USE DEF IInv, PlaceInv, Goto, Guarded
    <3>1. CASE Open(p)
      BY <3>1, NextCalls DEF Open, Exclusive, TestFilePrograms, PidFilePrograms
    <3>2. CASE OpenFails(p) \/ SetLockFails(p) \/ Close(p) \/ Kill(p)
      BY <3>2 DEF OpenFails, SetLockFails, Close, Kill, Leave
    <3>3. CASE Extend(p) \/ Peek(p) \/ Empty(p) \/ Read(p) \/ Unlock(p) \/ Interrupt(p)
      BY <3>3 DEF Extend, Peek, Empty, Read, Unlock, Interrupt, kernelVars
    <3>4. CASE SetLock(p) \/ SetReadLock(p) \/ TryFlock(p) \/ Write(p)
      BY <3>4 DEF SetLock, SetReadLock, Grant, TryFlock, Write
    <3>5. CASE TryFlockFails(p)
      BY <3>5 DEF TryFlockFails, Leave, kernelVars
    <3>6. ~CloseExists(p) /\ ~Remove(p)
      BY DEF CloseExists, Remove, SinglePcs, TestFilePrograms, PidFilePrograms
    <3> QED
      BY <2>1, <3>1, <3>2, <3>3, <3>4, <3>5, <3>6 DEF Step
  <2> QED  BY <2>1 DEF Next, Ended, vars, kernelVars, Guarded
<1> QED  BY <1>1, Invariance, PTL DEF Spec, LockedOut
-----------------------------------------------------------------------------
(* Who is at work has a file that has had the name open.                   *)
WorkInv == \A p \in Procs : pc[p] \notin {"open", "remove", "ended", "failed", "killed"}
                               => opened[p] \in 1..files

(* The record locks are those of running programs that ask for them; who   *)
(* writes and who has written behind one has it for writing.               *)
RecordInv ==
    /\ records \subseteq Procs \X Regions \X {"R", "W"}
    /\ \A p \in Procs, r \in Regions, m \in {"R", "W"} : <<p, r, m>> \in records =>
           pc[p] # "open" /\ prog[p] \in {"fwhole", "farea", "fread", "fwrite"}
    /\ \A p \in Procs : prog[p] = "fwhole" /\ pc[p] \in {"write", "unlock"} =>
           \A r \in Regions : <<p, r, "W">> \in records
    /\ \A p \in Procs : prog[p] = "farea" /\ pc[p] \in {"lock_read", "write", "read", "unlock"} =>
           <<p, 2, "W">> \in records

(* No two processes have a lock of one region if one of them is to write.  *)
ExclusiveInv ==
    \A p, q \in Procs, r \in Regions, m \in {"R", "W"} :
        <<p, r, "W">> \in records /\ <<q, r, m>> \in records /\ opened[p] = opened[q] => p = q

LInv == IInv /\ WorkInv /\ RecordInv /\ ExclusiveInv

(* A conflict is a lock of another process.                                *)
LEMMA NoConflict ==
    ASSUME LInv, NEW p \in Procs, NEW regions, NEW mode, ~Conflict(p, regions, mode),
           NEW q \in Procs \ {p}, opened[q] = opened[p], NEW r \in Regions \intersect regions,
           NEW m \in {"R", "W"}, <<q, r, m>> \in records
    PROVE  m = "R" /\ mode # "W"
<1> DEFINE l == <<q, r, m>>
<1>1. l \in records /\ l[1] = q /\ l[2] = r /\ l[3] = m
  OBVIOUS
<1>2. "W" \notin {l[3], mode}
  BY <1>1 DEF Conflict
<1> QED  BY <1>1, <1>2

LEMMA LeaveRecords ==
    ASSUME LInv, NEW p \in Procs, NEW how \in {"ended", "failed", "killed"}, Leave(p, how)
    PROVE  WorkInv' /\ RecordInv' /\ ExclusiveInv'
<1> USE DEF LInv, IInv, PlaceInv, KernelInv, Leave, Goto
<1>1. \A q \in Procs, r \in Regions, m \in {"R", "W"} :
          <<q, r, m>> \in records' <=> <<q, r, m>> \in records /\ q # p
  OBVIOUS
<1>2. \A q \in Procs \ {p} : pc'[q] = pc[q] /\ opened'[q] = opened[q]
  OBVIOUS
<1>3. pc'[p] = how /\ prog' = prog /\ files' = files
  OBVIOUS
<1>4. WorkInv'
  BY <1>2, <1>3 DEF WorkInv
<1>5. RecordInv'
  <2>1. records' \subseteq Procs \X Regions \X {"R", "W"}
    BY DEF RecordInv
  <2> HIDE DEF Leave
  <2> QED  BY <1>1, <1>2, <1>3, <2>1 DEF RecordInv, Regions
<1>6. ExclusiveInv'
  <2> HIDE DEF Leave, IInv, PlaceInv, KernelInv
  <2> SUFFICES ASSUME NEW q \in Procs, NEW s \in Procs, NEW r \in Regions, NEW m \in {"R", "W"},
                      <<q, r, "W">> \in records', <<s, r, m>> \in records', opened'[q] = opened'[s]
               PROVE  q = s
    BY DEF ExclusiveInv
  <2>1. /\ <<q, r, "W">> \in records /\ <<s, r, m>> \in records
        /\ opened[q] = opened[s]
    BY <1>1, <1>2
  <2> QED  BY <2>1 DEF ExclusiveInv
<1> QED  BY <1>4, <1>5, <1>6

(* Opening, which is done with no lock.                                    *)
LEMMA OpenRecords ==
    ASSUME LInv, NEW p \in Procs, Open(p)
    PROVE  WorkInv' /\ RecordInv' /\ ExclusiveInv'
<1> USE DEF LInv, IInv, PlaceInv, KernelInv
<1>1. /\ pc[p] = "open" /\ prog' = prog /\ records' = records
      /\ pc' = [pc EXCEPT ![p] = AfterOpen[prog[p]]]
      /\ opened' = [opened EXCEPT ![p] = file']
      /\ files' \in Nat /\ files <= files' /\ file' \in 1..files'
  BY DEF Open, Goto
<1>2. AfterOpen[prog[p]] \in {"extend", "lock", "flock", "running"}
  BY NextCalls DEF TestFilePrograms, PidFilePrograms
<1>3. \A q \in Procs \ {p} : pc'[q] = pc[q] /\ opened'[q] = opened[q]
  BY <1>1
<1>4. \A r \in Regions, m \in {"R", "W"} : <<p, r, m>> \notin records
  BY <1>1 DEF RecordInv
<1>5. WorkInv'
  BY <1>1, <1>3 DEF WorkInv
<1>6. RecordInv'
  BY <1>1, <1>2, <1>3, <1>4 DEF RecordInv
<1>7. ExclusiveInv'
  <2>1. \A q \in Procs, r \in Regions, m \in {"R", "W"} :
            <<q, r, m>> \in records' => q # p /\ <<q, r, m>> \in records
    BY <1>1, <1>4
  <2>2. \A q \in Procs \ {p} : opened'[q] = opened[q]
    BY <1>3
  <2> SUFFICES ASSUME NEW a \in Procs, NEW b \in Procs, NEW r \in Regions, NEW m \in {"R", "W"},
                      <<a, r, "W">> \in records', <<b, r, m>> \in records', opened'[a] = opened'[b]
               PROVE  a = b
    BY DEF ExclusiveInv
  <2>3. /\ <<a, r, "W">> \in records /\ <<b, r, m>> \in records
        /\ opened[a] = opened[b]
    BY <2>1, <2>2
  <2> QED  BY <2>3 DEF ExclusiveInv
<1> QED  BY <1>5, <1>6, <1>7

(* Asking for a lock.                                                      *)
LEMMA SetLockRecords ==
    ASSUME LInv, NEW p \in Procs, SetLock(p) \/ SetReadLock(p)
    PROVE  WorkInv' /\ RecordInv' /\ ExclusiveInv'
<1> USE DEF LInv, IInv, PlaceInv, KernelInv
<1>1. PICK regions \in SUBSET Regions, mode \in {"R", "W"}, place \in AllPcs :
          /\ Grant(p, regions, mode) /\ pc' = [pc EXCEPT ![p] = place]
          /\ pc[p] \in {"lock", "lock_read"}
          /\ prog[p] \in {"fwhole", "farea", "fread", "fwrite"}
          /\ place \in {"write", "lock_read", "hold"}
          /\ prog[p] = "fwhole" => regions = Regions /\ mode = "W"
          /\ prog[p] = "farea" /\ pc[p] = "lock" => regions = {2} /\ mode = "W"
  <2>1. CASE SetLock(p)
    <3> SUFFICES /\ Wanted[prog[p]] \in SUBSET Regions /\ Mode(p) \in {"R", "W"}
                 /\ AfterLock[prog[p]] \in AllPcs \intersect {"write", "lock_read", "hold"}
                 /\ prog[p] \in {"fwhole", "farea", "fread", "fwrite"}
                 /\ prog[p] = "fwhole" => Wanted[prog[p]] = Regions /\ Mode(p) = "W"
                 /\ prog[p] = "farea" => Wanted[prog[p]] = {2} /\ Mode(p) = "W"
      BY <2>1 DEF SetLock, Goto
    <3>1. prog[p] \in {"fwhole", "farea", "fread", "fwrite"}
      BY <2>1 DEF SetLock
    <3>2. AfterLock[prog[p]] \in AllPcs \intersect {"write", "lock_read", "hold"}
      BY <3>1, NextCalls DEF AllPcs, SinglePcs
    <3> QED  BY <3>1, <3>2 DEF Wanted, Regions, Mode
  <2>2. CASE SetReadLock(p)
    <3>1. {4} \in SUBSET Regions /\ "write" \in AllPcs
      BY DEF Regions, AllPcs, SinglePcs
    <3> QED  BY <2>2, <3>1 DEF SetReadLock, Goto
  <2> QED  BY <2>1, <2>2
<1>2. /\ prog' = prog /\ files' = files /\ opened' = opened
      /\ records' = records \union {<<p, r, mode>> : r \in regions}
      /\ ~Conflict(p, regions, mode)
  BY <1>1 DEF Grant
<1>3. /\ pc'[p] \in {"write", "lock_read", "hold"}
      /\ \A q \in Procs \ {p} : pc'[q] = pc[q]
  BY <1>1
<1>4. \A q \in Procs, r \in Regions, m \in {"R", "W"} :
          <<q, r, m>> \in records' <=>
              <<q, r, m>> \in records \/ (q = p /\ r \in regions /\ m = mode)
  BY <1>2
<1>5. WorkInv'
  BY <1>1, <1>2, <1>3 DEF WorkInv
<1>6. RecordInv'
  <2>1. records' \subseteq Procs \X Regions \X {"R", "W"}
    BY <1>2 DEF RecordInv
  <2>2. 2 \in Regions
    BY DEF Regions
  <2> QED  BY <1>1, <1>2, <1>3, <1>4, <2>1, <2>2 DEF RecordInv
<1>7. ExclusiveInv'
  <2> SUFFICES ASSUME NEW q \in Procs, NEW s \in Procs, NEW r \in Regions, NEW m \in {"R", "W"},
                      <<q, r, "W">> \in records', <<s, r, m>> \in records',
                      opened[q] = opened[s], q # s
               PROVE  FALSE
    BY <1>2 DEF ExclusiveInv
  <2>1. CASE <<q, r, "W">> \in records /\ <<s, r, m>> \in records
    BY <2>1 DEF ExclusiveInv
  <2>2. CASE <<q, r, "W">> \notin records
    <3>1. q = p /\ r \in regions /\ mode = "W" /\ s # p
      BY <1>4, <2>2
    <3>2. <<s, r, m>> \in records
      BY <1>4, <3>1
    <3> QED  BY <1>2, <3>1, <3>2, NoConflict
  <2>3. CASE <<s, r, m>> \notin records
    <3>1. s = p /\ r \in regions
      BY <1>4, <2>3
    <3>2. q # p /\ <<q, r, "W">> \in records
      BY <1>4, <3>1
    <3> QED  BY <1>2, <3>1, <3>2, NoConflict
  <2> QED  BY <2>1, <2>2, <2>3
<1> QED  BY <1>5, <1>6, <1>7

(* A step that neither takes nor gives back a record lock, and goes to a   *)
(* place that needs no lock which the place before did not.                *)
LEMMA OtherRecords ==
    ASSUME LInv, NEW p \in Procs, NEW place,
           prog' = prog, files' = files, opened' = opened, records' = records,
           pc' = [pc EXCEPT ![p] = place],
           pc[p] \notin {"open", "remove", "ended", "failed", "killed"}, place # "open",
           prog[p] = "fwhole" /\ place \in {"write", "unlock"} => pc[p] \in {"write", "unlock"},
           prog[p] = "farea" /\ place \in {"lock_read", "write", "read", "unlock"}
               => pc[p] \in {"lock_read", "write", "read", "unlock"}
    PROVE  WorkInv' /\ RecordInv' /\ ExclusiveInv'
<1>1. pc'[p] = place /\ \A q \in Procs \ {p} : pc'[q] = pc[q]
  BY DEF LInv, IInv, PlaceInv
<1>2. WorkInv'
  BY <1>1 DEF LInv, WorkInv
<1>3. RecordInv'
  BY <1>1 DEF LInv, RecordInv
<1>4. ExclusiveInv'
  BY DEF LInv, ExclusiveInv
<1> QED  BY <1>2, <1>3, <1>4

LEMMA UnlockRecords ==
    ASSUME LInv, NEW p \in Procs, Unlock(p)
    PROVE  WorkInv' /\ RecordInv' /\ ExclusiveInv'
<1>1. PICK place \in {"unlock_read", "close"} : pc' = [pc EXCEPT ![p] = place]
  BY DEF Unlock, Goto
<1>2. /\ prog' = prog /\ files' = files /\ opened' = opened /\ records' \subseteq records
      /\ pc[p] \in {"unlock", "unlock_read"}
  BY DEF Unlock
<1>3. \A q \in Procs \ {p}, r \in Regions, m \in {"R", "W"} :
          <<q, r, m>> \in records' <=> <<q, r, m>> \in records
  BY DEF Unlock
<1>4. pc'[p] = place /\ \A q \in Procs \ {p} : pc'[q] = pc[q]
  BY <1>1 DEF LInv, IInv, PlaceInv
<1>5. WorkInv'
  BY <1>2, <1>4 DEF LInv, WorkInv
<1>6. RecordInv'
  <2>1. 2 \in Regions
    BY DEF Regions
  <2> QED  BY <1>2, <1>3, <1>4, <2>1 DEF LInv, RecordInv
<1>7. ExclusiveInv'
  BY <1>2 DEF LInv, ExclusiveInv
<1> QED  BY <1>5, <1>6, <1>7

LEMMA CloseExistsRecords ==
    ASSUME LInv, NEW p \in Procs, CloseExists(p) \/ Remove(p)
    PROVE  WorkInv' /\ RecordInv' /\ ExclusiveInv'
<1>1. PICK place \in {"remove", "ended"} : pc' = [pc EXCEPT ![p] = place]
  BY DEF CloseExists, Remove, Goto
<1>2. prog' = prog /\ files' = files /\ records' = records
  BY DEF CloseExists, Remove
<1>3. prog[p] = "exists"
  BY DEF CloseExists, Remove, LInv, IInv, PlaceInv
<1>4. /\ pc'[p] = place
      /\ \A q \in Procs \ {p} : pc'[q] = pc[q] /\ opened'[q] = opened[q]
  BY <1>1 DEF LInv, IInv, PlaceInv, KernelInv, CloseExists, Remove
<1>5. \A r \in Regions, m \in {"R", "W"} : <<p, r, m>> \notin records
  BY <1>3 DEF LInv, RecordInv
<1>6. WorkInv'
  BY <1>2, <1>4 DEF LInv, WorkInv
<1>7. RecordInv'
  BY <1>2, <1>3, <1>4 DEF LInv, RecordInv
<1>8. ExclusiveInv'
  BY <1>2, <1>4, <1>5 DEF LInv, ExclusiveInv
<1> QED  BY <1>6, <1>7, <1>8

LEMMA StepRecords ==
    ASSUME LInv, NEW p \in Procs, Step(p) \/ Interrupt(p) \/ Kill(p)
    PROVE  WorkInv' /\ RecordInv' /\ ExclusiveInv'
<1>1. CASE Open(p)
  BY <1>1, OpenRecords
<1>2. CASE OpenFails(p) \/ SetLockFails(p) \/ Close(p) \/ Kill(p)
  BY <1>2, LeaveRecords DEF OpenFails, SetLockFails, Close, Kill
<1>3. CASE SetLock(p) \/ SetReadLock(p)
  BY <1>3, SetLockRecords
<1>4. CASE Extend(p)
  <2>1. \E place \in {"lock", "peek"} : pc' = [pc EXCEPT ![p] = place]
    BY <1>4 DEF Extend, Goto
  <2> QED  BY <1>4, <2>1, OtherRecords DEF Extend
<1>5. CASE Peek(p)
  BY <1>5, OtherRecords DEF Peek, Goto, kernelVars
<1>6. CASE TryFlock(p)
  <2>1. prog[p] \in {"flock1", "flock2", "single"}
    BY <1>6 DEF TryFlock, LInv, IInv, PlaceInv
  <2>2. AfterLock[prog[p]] # "open"
    BY <2>1, NextCalls
  <2> QED  BY <1>6, <2>1, <2>2, OtherRecords DEF TryFlock, Goto
<1>7. CASE TryFlockFails(p)
  BY <1>7, LeaveRecords, OtherRecords DEF TryFlockFails, Goto, kernelVars
<1>8. CASE Write(p)
  <2>1. prog[p] \in {"fwhole", "farea", "flock2", "single"}
    BY <1>8 DEF Write, LInv, IInv, PlaceInv
  <2>2. AfterWrite[prog[p]] # "open"
    BY <2>1, NextCalls
  <2> QED  BY <1>8, <2>1, <2>2, OtherRecords DEF Write, Goto
<1>9. CASE Empty(p)
  <2>1. prog[p] = "single"
    BY <1>9 DEF Empty, LInv, IInv, PlaceInv
  <2> QED  BY <1>9, <2>1, OtherRecords DEF Empty, Goto
<1>10. CASE Read(p)
  <2>1. prog[p] # "fwhole"
    BY <1>10 DEF Read, LInv, IInv, PlaceInv
  <2> QED  BY <1>10, <2>1, OtherRecords DEF Read, Goto, kernelVars
<1>11. CASE Interrupt(p)
  BY <1>11, OtherRecords DEF Interrupt, Goto, kernelVars
<1>12. CASE Unlock(p)
  BY <1>12, UnlockRecords
<1>13. CASE CloseExists(p) \/ Remove(p)
  BY <1>13, CloseExistsRecords
<1> QED
  BY <1>1, <1>2, <1>3, <1>4, <1>5, <1>6, <1>7, <1>8, <1>9, <1>10, <1>11, <1>12, <1>13 DEF Step

LEMMA RecordInvariance == Spec => []LInv
<1>1. Init => LInv
  BY InitIInv DEF Init, LInv, WorkInv, RecordInv, ExclusiveInv
<1>2. LInv /\ [Next]_vars => LInv'
  <2> SUFFICES ASSUME LInv, [Next]_vars PROVE LInv'
    OBVIOUS
  <2>1. IInv'
    BY StepIInv DEF LInv
  <2>2. CASE \E p \in Procs : Step(p) \/ Interrupt(p) \/ Kill(p)
    BY <2>1, <2>2, StepRecords DEF LInv
  <2>3. CASE UNCHANGED vars
    BY <2>1, <2>3 DEF vars, kernelVars, LInv, WorkInv, RecordInv, ExclusiveInv
  <2> QED  BY <2>2, <2>3 DEF Next, Ended
<1> QED  BY <1>1, <1>2, PTL DEF Spec
-----------------------------------------------------------------------------
(* The bytes of region Place(p) of the file of p change only by a truncation *)
(* or a write.                                                             *)
LEMMA BytesChange ==
    ASSUME LInv, NEW p \in Procs, NEW q \in Procs, Step(q) \/ Interrupt(q) \/ Kill(q),
           pc[p] \notin {"open", "remove", "ended", "failed", "killed"},
           data[opened[p]][Place(p)] = p, data'[opened[p]][Place(p)] # p
    PROVE  \/ Open(q) /\ prog[q] \in Truncates
           \/ Write(q) /\ opened[q] = opened[p] /\ q # p
           \/ Empty(q) /\ opened[q] = opened[p]
<1> DEFINE f == opened[p]
           r == Place(p)
<1>1. f \in Files /\ r \in Regions /\ f <= files
  BY DEF LInv, IInv, WorkInv, KernelInv, Files, Place, Regions
<1>2. p # "eof"
  BY ProcsAssumption
<1>3. data[f] \in [Regions -> Procs \union {"eof", "zero", "old"}]
  BY <1>1 DEF LInv, IInv, KernelInv
<1>4. data'[f][r] # data[f][r]
  OBVIOUS
<1>5. CASE Open(q) /\ prog[q] \notin Truncates
  <2>1. data' = data \/ data' = [data EXCEPT ![files + 1] = [s \in Regions |-> "eof"]]
    BY <1>5 DEF Open
  <2>2. files + 1 # f
    BY <1>1 DEF LInv, IInv, KernelInv
  <2> QED  BY <1>1, <1>4, <2>1, <2>2 DEF LInv, IInv, KernelInv
<1>6. CASE Extend(q)
  <2>1. data'[f][r] = IF data[f][r] = "eof" /\ opened[q] = f THEN "zero" ELSE data[f][r]
    BY <1>1, <1>3, <1>6 DEF Extend, LInv, IInv, KernelInv
  <2> QED  BY <1>2, <2>1
<1>7. CASE Write(q)
  <2>1. opened[q] = f
    BY <1>1, <1>4, <1>7 DEF Write, LInv, IInv, KernelInv
  <2>2. q # p
    BY <1>1, <1>3, <1>7 DEF Write, LInv, IInv, KernelInv
  <2> QED  BY <1>7, <2>1, <2>2
<1>8. CASE Empty(q)
  BY <1>1, <1>4, <1>8 DEF Empty, LInv, IInv, KernelInv
<1>9. data' = data \/ Open(q) \/ Extend(q) \/ Write(q) \/ Empty(q)
  BY DEF Step, OpenFails, SetLockFails, Close, Kill, Leave, Peek, SetLock, SetReadLock, Grant,
     TryFlock, TryFlockFails, Read, Unlock, CloseExists, Remove, Interrupt, kernelVars
<1> QED  BY <1>4, <1>5, <1>6, <1>7, <1>8, <1>9

(* Two processes with the same kind of lock do not both write to a file.   *)
LEMMA LockedAlone ==
    ASSUME LInv, NEW p \in Procs, NEW q \in Procs \ {p}, HasWritten(p),
           pc[q] = "write", LockedLike(q, p), opened[q] = opened[p]
    PROVE  FALSE
<1>1. CASE prog[p] \in {"fwhole", "farea"}
  <2>1. 2 \in Regions
    BY DEF Regions
  <2>2. <<p, 2, "W">> \in records
    BY <1>1, <2>1 DEF LInv, RecordInv, HasWritten
  <2>3. PICK l \in records : l[1] = q
    BY <1>1 DEF LockedLike
  <2>4. prog[q] \in {"fwhole", "farea", "fread", "fwrite"}
    <3>1. l[2] \in Regions /\ l[3] \in {"R", "W"} /\ l = <<q, l[2], l[3]>>
      BY <2>3 DEF LInv, RecordInv
    <3>2. <<q, l[2], l[3]>> \in records
      BY <2>3, <3>1
    <3> QED  BY <3>1, <3>2 DEF LInv, RecordInv
  <2>5. prog[q] \in {"fwhole", "farea"}
    BY <2>4 DEF LInv, IInv, PlaceInv
  <2>6. <<q, 2, "W">> \in records
    BY <2>1, <2>5 DEF LInv, RecordInv
  <2> QED  BY <2>1, <2>2, <2>6 DEF LInv, ExclusiveInv
<1>2. CASE prog[p] \notin {"fwhole", "farea"}
  <2>1. flocks[opened[p]] = p
    BY <1>2 DEF HasWritten, LInv, IInv, FlockInv
  <2> QED  BY <1>2, <2>1 DEF LockedLike
<1> QED  BY <1>1, <1>2

(* What a program has written under its lock stays until it gives the lock *)
(* back, unless somebody opens the file with O_TRUNC or writes without a   *)
(* lock of that kind.                                                      *)
THEOREM LockedDataIsKept == Spec => LockedDataStays
<1> DEFINE Kept(p) ==
          /\ HasWritten(p) /\ HasWritten(p)'
          /\ data[opened[p]][Place(p)] = p /\ data'[opened[p]][Place(p)] # p
          => \E q \in Procs \ {p} :
                \/ pc[q] = "open" /\ pc'[q] # "open" /\ prog[q] \in Truncates
                \/ pc[q] = "write" /\ pc'[q] # "write" /\ ~LockedLike(q, p)
<1>1. ASSUME LInv, [Next]_vars, NEW p \in Procs PROVE Kept(p)
  <2> SUFFICES ASSUME HasWritten(p), data[opened[p]][Place(p)] = p,
                      data'[opened[p]][Place(p)] # p
               PROVE  \E q \in Procs \ {p} :
                         \/ pc[q] = "open" /\ pc'[q] # "open" /\ prog[q] \in Truncates
                         \/ pc[q] = "write" /\ pc'[q] # "write" /\ ~LockedLike(q, p)
    OBVIOUS
  <2>1. pc[p] \in {"unlock", "read", "running"}
    BY DEF HasWritten
  <2>2. PICK q \in Procs : Step(q) \/ Interrupt(q) \/ Kill(q)
    BY <1>1 DEF Next, Ended, vars, kernelVars
  <2>3. \/ Open(q) /\ prog[q] \in Truncates
        \/ Write(q) /\ opened[q] = opened[p] /\ q # p
        \/ Empty(q) /\ opened[q] = opened[p]
    BY <1>1, <2>1, <2>2, BytesChange
  <2>4. CASE Open(q) /\ prog[q] \in Truncates
    <3>1. AfterOpen[prog[q]] # "open"
      BY <2>4, NextCalls DEF Truncates
    <3>2. pc[q] = "open" /\ pc'[q] # "open"
      BY <1>1, <2>4, <3>1 DEF Open, Goto, LInv, IInv, PlaceInv
    <3> QED  BY <2>1, <2>4, <3>2
  <2>5. CASE Write(q) /\ opened[q] = opened[p] /\ q # p
    <3>1. prog[q] \in {"fwhole", "farea", "flock2", "single"} /\ pc[q] = "write"
      BY <1>1, <2>5 DEF Write, LInv, IInv, PlaceInv
    <3>2. AfterWrite[prog[q]] # "write"
      BY <3>1, NextCalls
    <3>3. pc'[q] # "write"
      BY <1>1, <2>5, <3>2 DEF Write, Goto, LInv, IInv, PlaceInv
    <3>4. ~LockedLike(q, p)
      BY <1>1, <2>5, <3>1, LockedAlone
    <3> QED  BY <2>5, <3>1, <3>3, <3>4
  <2>6. CASE Empty(q) /\ opened[q] = opened[p]
    <3>1. prog[q] = "single" /\ flocks[opened[q]] = q /\ q # p
      BY <1>1, <2>1, <2>6 DEF Empty, LInv, IInv, PlaceInv, FlockInv
    <3>2. prog[p] \in PidFilePrograms
      BY <1>1, <3>1 DEF LInv, IInv, PlaceInv, TestFilePrograms
    <3>3. flocks[opened[p]] = p
      BY <1>1, <3>2 DEF HasWritten, PidFilePrograms, LInv, IInv, FlockInv
    <3> QED  BY <2>6, <3>1, <3>3
  <2> QED  BY <2>3, <2>4, <2>5, <2>6
<1>2. LInv /\ [Next]_vars => [\A p \in Procs : Kept(p)]_vars
  BY <1>1
<1> QED  BY <1>2, RecordInvariance, PTL DEF Spec, LockedDataStays
=============================================================================
