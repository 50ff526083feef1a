------------------------------ MODULE FileLocks ------------------------------
(***************************************************************************)
(* Processes that guard one file with locks: the programs of               *)
(* 13_advanceio/6_filelock on the file they are given, and the two guards  *)
(* of a single instance of 9_process/14_singlepattern on sfile.pid:        *)
(*                                                                         *)
(*   fwhole, farea, fread, fwrite   record locks (fcntl)                   *)
(*   flock1, flock2                 a lock on the open file (flock)        *)
(*   single                         filelock.c: flock, and the pid written *)
(*   exists                         fileexistsornot.c: O_EXCL and remove   *)
(*                                                                         *)
(* Each process runs one program once and may be killed at any time, which *)
(* gives its locks back.  The name may come to mean another file while a   *)
(* process still has the old one open.  The kernel knows nothing of record *)
(* locks when it is asked for flock, and the other way round; neither      *)
(* keeps anybody from opening, truncating or writing.                      *)
(*                                                                         *)
(* The file is kept as the regions the programs tell apart, 1 to 4, which  *)
(* begin at bytes 0, 100, 200 and 400; of its contents, whose it is.       *)
(***************************************************************************)
EXTENDS Naturals, FiniteSets

CONSTANTS Procs,      \* the processes
          MaxFiles    \* bound: the files that come to bear the name

None == "none"

ASSUME ProcsAssumption    == Procs \cap {None, "eof", "zero", "old"} = {}
ASSUME MaxFilesAssumption == MaxFiles \in Nat \ {0}

VARIABLES prog,     \* the program of each process
          pc,       \* where it is
          file,     \* kernel: the file of that name, 0 for none
          files,    \* kernel: how many files have had the name
          data,     \* kernel: whose bytes are in each region of each file
          opened,   \* kernel: the file a process has open, 0 for none
          records,  \* kernel: the record locks, <<process, region, mode>>
          flocks,   \* kernel: who has the flock of each file
          buf       \* the programs' buf: whose text is in it

kernelVars == <<file, files, data, opened, records, flocks>>
vars       == <<prog, pc, kernelVars, buf>>

Files   == 1..MaxFiles
Regions == 1..4

TestFilePrograms == {"fwhole", "farea", "fread", "fwrite", "flock1", "flock2"}
PidFilePrograms  == {"single", "exists"}

(* Mutant: O_EXCL forgotten.                                               *)
NotExclusive == {}

(* What open is asked for, and whose ftruncate(fd, 1024) works: fread has  *)
(* a read-only descriptor and does not notice.                             *)
Truncates == {"fwhole", "farea", "fread", "fwrite", "flock2"}
Exclusive == {"exists"}
Extends   == {"fwhole", "farea", "fwrite"}

(* The next call of each program after open, its lock and its write.       *)
AfterOpen  == [fwhole |-> "extend", farea |-> "extend", fwrite |-> "extend", fread |-> "lock",
               flock1 |-> "flock", flock2 |-> "flock", single |-> "flock", exists |-> "running"]
AfterLock  == [fwhole |-> "write", farea |-> "lock_read", fread |-> "hold", fwrite |-> "hold",
               flock1 |-> "hold", flock2 |-> "write", single |-> "empty"]
AfterWrite == [fwhole |-> "unlock", farea |-> "read", flock2 |-> "read", single |-> "running"]

Init ==
    /\ prog \in [Procs -> TestFilePrograms] \union [Procs -> PidFilePrograms]
    /\ pc = [p \in Procs |-> "open"]
    /\ file \in {0, 1} /\ files = file
    /\ data = [f \in Files |-> [r \in Regions |-> IF f = 1 /\ r = 1 THEN "old" ELSE "eof"]]
    /\ opened = [p \in Procs |-> 0]
    /\ records = {}
    /\ flocks = [f \in Files |-> None]
    /\ buf = [p \in Procs |-> None]

Goto(p, place) == pc' = [pc EXCEPT ![p] = place]

Live(p) == pc[p] \notin {"open", "ended", "failed", "killed"}

(* The process is gone: the kernel closes the file and frees its locks.    *)
Leave(p, how) ==
    /\ Goto(p, how)
    /\ opened' = [opened EXCEPT ![p] = 0]
    /\ records' = {l \in records : l[1] # p}
    /\ flocks' = [f \in Files |-> IF flocks[f] = p THEN None ELSE flocks[f]]
    /\ UNCHANGED <<prog, file, files, data, buf>>
-----------------------------------------------------------------------------
(* open.  It creates the file if there is none.                            *)
Open(p) ==
    /\ pc[p] = "open"
    /\ ~(prog[p] \in Exclusive /\ file # 0)
    /\ file = 0 => files < MaxFiles
    /\ LET f == IF file = 0 THEN files + 1 ELSE file
       IN  /\ file' = f /\ opened' = [opened EXCEPT ![p] = f]
           /\ files' = IF file = 0 THEN files + 1 ELSE files
           /\ data' = IF file = 0 \/ prog[p] \in Truncates
                      THEN [data EXCEPT ![f] = [r \in Regions |-> "eof"]] ELSE data
    /\ Goto(p, AfterOpen[prog[p]])
    /\ UNCHANGED <<prog, records, flocks, buf>>

(* The file is there although it must not be (or may not be opened).       *)
OpenFails(p) ==
    /\ pc[p] = "open"
    /\ Leave(p, "failed")

(* ftruncate(fd, 1024): what was behind the end reads as zeros.            *)
Extend(p) ==
    /\ pc[p] = "extend"
    /\ data' = [data EXCEPT ![opened[p]] =
                   [r \in Regions |-> IF @[r] = "eof" THEN "zero" ELSE @[r]]]
    /\ \/ Goto(p, "lock")
       \/ prog[p] = "fwhole" /\ Goto(p, "peek")
    /\ UNCHANGED <<prog, file, files, opened, records, flocks, buf>>

(* fwhole as instance 2 reads, and rewinds, before it asks for the lock.   *)
Peek(p) ==
    /\ pc[p] = "peek"
    /\ buf' = [buf EXCEPT ![p] = data[opened[p]][1]]
    /\ Goto(p, "lock")
    /\ UNCHANGED <<prog, kernelVars>>
-----------------------------------------------------------------------------
(* A record lock: fcntl(F_SETLKW) waits for it, F_SETLK fails at once.     *)
Conflict(p, regions, mode) ==
    \E l \in records : /\ l[1] # p /\ opened[l[1]] = opened[p]
                       /\ l[2] \in regions
                       /\ "W" \in {l[3], mode}

Grant(p, regions, mode) ==
    /\ ~Conflict(p, regions, mode)
    /\ records' = records \union {<<p, r, mode>> : r \in regions}
    /\ UNCHANGED <<prog, file, files, data, opened, flocks, buf>>

Wanted == [fwhole |-> Regions, farea |-> {2}, fread |-> {3}, fwrite |-> {3}]
(* Mutant: every program asks for a read lock.                             *)
ModeRead(p) == "R"

Mode(p) == IF prog[p] = "fread" THEN "R" ELSE "W"

SetLock(p) ==
    /\ pc[p] = "lock"
    /\ Grant(p, Wanted[prog[p]], Mode(p))
    /\ Goto(p, AfterLock[prog[p]])

(* The second lock of farea, for reading.                                  *)
SetReadLock(p) ==
    /\ pc[p] = "lock_read"
    /\ Grant(p, {4}, "R")
    /\ Goto(p, "write")

SetLockFails(p) ==
    /\ pc[p] = "lock" /\ prog[p] \in {"fread", "fwrite"}
    /\ Conflict(p, Wanted[prog[p]], Mode(p))
    /\ Leave(p, "failed")

(* flock(fd, LOCK_EX | LOCK_NB).  flock2 reports a failure and goes on.    *)
TryFlock(p) ==
    /\ pc[p] = "flock"
    /\ flocks[opened[p]] = None
    /\ flocks' = [flocks EXCEPT ![opened[p]] = p]
    /\ Goto(p, AfterLock[prog[p]])
    /\ UNCHANGED <<prog, file, files, data, opened, records, buf>>

(* Mutant: filelock.c goes on without the lock.                            *)
TryFlockGoesOn(p) ==
    /\ pc[p] = "flock"
    /\ flocks[opened[p]] # None
    /\ Goto(p, AfterLock[prog[p]]) /\ UNCHANGED <<prog, kernelVars, buf>>

TryFlockFails(p) ==
    /\ pc[p] = "flock"
    /\ flocks[opened[p]] # None
    /\ IF prog[p] = "flock2" THEN Goto(p, "write") /\ UNCHANGED <<prog, kernelVars, buf>>
                             ELSE Leave(p, "failed")
-----------------------------------------------------------------------------
(* write at the beginning, in farea at byte 100; a hole before it is zero. *)
Place(p) == IF prog[p] = "farea" THEN 2 ELSE 1

Write(p) ==
    /\ pc[p] = "write"
    /\ data' = [data EXCEPT ![opened[p]] =
                   [r \in Regions |-> IF r = Place(p) THEN p
                                      ELSE IF r < Place(p) /\ @[r] = "eof" THEN "zero"
                                      ELSE @[r]]]
    /\ buf' = [buf EXCEPT ![p] = p]
    /\ Goto(p, AfterWrite[prog[p]])
    /\ UNCHANGED <<prog, file, files, opened, records, flocks>>

(* filelock.c: ftruncate(fd, 0) before the pid is written.                 *)
Empty(p) ==
    /\ pc[p] = "empty"
    /\ data' = [data EXCEPT ![opened[p]] = [r \in Regions |-> "eof"]]
    /\ Goto(p, "write")
    /\ UNCHANGED <<prog, file, files, opened, records, flocks, buf>>

(* flock2 clears buf and reads from the beginning.  farea reads from byte  *)
(* 400 into a buf that holds the text it wrote, which a read at the end of *)
(* the file leaves as it is.                                               *)
Read(p) ==
    /\ pc[p] = "read"
    /\ LET got == data[opened[p]][IF prog[p] = "farea" THEN 4 ELSE 1]
       IN  buf' = [buf EXCEPT ![p] = IF got # "eof" THEN got
                                     ELSE IF prog[p] = "farea" THEN buf[p] ELSE None]
    /\ Goto(p, "unlock")
    /\ UNCHANGED <<prog, kernelVars>>

(* fcntl(F_UNLCK), in farea first of what was written, or flock(LOCK_UN).  *)
Unlock(p) ==
    /\ pc[p] \in {"unlock", "unlock_read"}
    /\ LET first == prog[p] = "farea" /\ pc[p] = "unlock"
       IN  /\ records' = {l \in records : l[1] # p \/ (first /\ l[2] # 2)}
           /\ Goto(p, IF first THEN "unlock_read" ELSE "close")
    /\ flocks' = [f \in Files |-> IF flocks[f] = p THEN None ELSE flocks[f]]
    /\ UNCHANGED <<prog, file, files, data, opened, buf>>

(* close and exit.  filelock.c exits with the file open.                   *)
Close(p) ==
    /\ \/ pc[p] = "close"
       \/ pc[p] = "running" /\ prog[p] = "single"
    /\ Leave(p, "ended")

(* SIGINT: flock1 gives its lock back in the handler before it exits.      *)
Interrupt(p) ==
    /\ pc[p] = "hold" /\ prog[p] = "flock1"
    /\ Goto(p, "unlock")
    /\ UNCHANGED <<prog, kernelVars, buf>>

(* fileexistsornot.c closes, and the exit handler removes the name.        *)
CloseExists(p) ==
    /\ pc[p] = "running" /\ prog[p] = "exists"
    /\ opened' = [opened EXCEPT ![p] = 0]
    /\ Goto(p, "remove")
    /\ UNCHANGED <<prog, file, files, data, records, flocks, buf>>

Remove(p) ==
    /\ pc[p] = "remove"
    /\ file' = 0
    /\ Goto(p, "ended")
    /\ UNCHANGED <<prog, files, data, opened, records, flocks, buf>>

Kill(p) == Live(p) /\ Leave(p, "killed")
-----------------------------------------------------------------------------
Step(p) == \/ Open(p) \/ OpenFails(p) \/ Extend(p) \/ Peek(p)
           \/ SetLock(p) \/ SetReadLock(p) \/ SetLockFails(p) \/ TryFlock(p) \/ TryFlockFails(p)
           \/ Write(p) \/ Empty(p) \/ Read(p) \/ Unlock(p) \/ Close(p)
           \/ CloseExists(p) \/ Remove(p)

Ended == (\A p \in Procs : ~Live(p) /\ pc[p] # "open") /\ UNCHANGED vars

Next == (\E p \in Procs : Step(p) \/ Interrupt(p) \/ Kill(p)) \/ Ended

Spec == Init /\ [][Next]_vars
-----------------------------------------------------------------------------
TypeOK ==
    /\ prog \in [Procs -> TestFilePrograms \union PidFilePrograms]
    /\ pc \in [Procs -> {"open", "extend", "peek", "lock", "lock_read", "hold", "flock",
                         "write", "empty", "read", "unlock", "unlock_read", "close",
                         "running", "remove", "ended", "failed", "killed"}]
    /\ files \in 0..MaxFiles /\ file \in 0..files
    /\ data \in [Files -> [Regions -> Procs \union {"eof", "zero", "old"}]]
    /\ opened \in [Procs -> 0..files]
    /\ records \subseteq Procs \X Regions \X {"R", "W"}
    /\ flocks \in [Files -> Procs \union {None}]
    /\ buf \in [Procs -> Procs \union {None, "eof", "zero", "old"}]

(* p is between its write and its unlock, with a lock.                     *)
HasWritten(p) == \/ prog[p] = "fwhole" /\ pc[p] = "unlock"
                 \/ prog[p] = "farea" /\ pc[p] \in {"read", "unlock"}
                 \/ prog[p] = "flock2" /\ pc[p] \in {"read", "unlock"} /\ flocks[opened[p]] = p
                 \/ prog[p] = "single" /\ pc[p] = "running"

(* q has a lock of the kind that p's program takes.                        *)
LockedLike(q, p) == IF prog[p] \in {"fwhole", "farea"} THEN \E l \in records : l[1] = q
                                                       ELSE flocks[opened[q]] = q

(* What a program has written under its lock stays until it gives the lock *)
(* back, but for two reasons: somebody opens the file with O_TRUNC, which  *)
(* is before asking for the lock, or writes with no lock or one of the     *)
(* other kind, as flock2 does.                                             *)
LockedDataStays ==
    [][\A p \in Procs :
          /\ HasWritten(p) /\ HasWritten(p)'
          /\ data[opened[p]][Place(p)] = p /\ data'[opened[p]][Place(p)] # p
          => \E q \in Procs \ {p} :
                \/ pc[q] = "open" /\ pc'[q] # "open" /\ prog[q] \in Truncates
                \/ pc[q] = "write" /\ pc'[q] # "write" /\ ~LockedLike(q, p)]_vars

(* The guards of a single instance work, each for its own program, as long *)
(* as they are not mixed: one filelock.c runs at a time, and sfile.pid has *)
(* its pid, unless a fileexistsornot.c has removed the name under it.  One *)
(* fileexistsornot.c runs at a time in any case.                           *)
Singles == {p \in Procs : prog[p] = "single" /\ pc[p] \in {"empty", "write", "running"}}
Guarded == {p \in Procs : prog[p] = "exists" /\ pc[p] \in {"running", "remove"}}
Removed == \E p \in Procs : prog[p] = "exists" /\ pc[p] = "ended"

OneInstance ==
    /\ \A p, q \in Guarded : p = q
    /\ Removed \/ \A p, q \in Singles : p = q
    /\ Removed \/ \A p \in Singles :
                       opened[p] = file /\ (pc[p] = "running" => data[file][1] = p)

(* A fileexistsornot.c that is killed leaves sfile.pid behind, and so does *)
(* every filelock.c: the name stays for ever and no fileexistsornot.c      *)
(* starts again.                                                           *)
LockedOut == [][file # 0 /\ Guarded = {} => file' = file /\ Guarded' = {}]_vars
=============================================================================
