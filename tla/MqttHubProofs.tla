---------------------------- MODULE MqttHubProofs ----------------------------
(***************************************************************************)
(* Proofs about MqttHub, for every set of pids and topics and every number *)
(* of messages: the types, the counter that never becomes negative, the    *)
(* three causes of a wrong ledger, the overcount behind a failed waitpid,  *)
(* the causes of a stop that ends the hub itself, and, where a fork does   *)
(* not fail, the one recorder at a time and the stop that hits it.         *)
(***************************************************************************)
EXTENDS MqttHub, FiniteSetTheorems, TLAPS

(* What the handler is about to do agrees with where it is.                *)
CallInv ==
    /\ cbPc \in {"load", "store"} => todo # <<>> /\ Head(todo).call = "add"
    /\ cbPc \in {"wait", "write"} => todo # <<>>

(* main has reaped no more than it polled for, and never more than the     *)
(* counter held; the increment is computed from a value that main can only *)
(* have lowered since.                                                     *)
CountInv ==
    /\ childNum >= 0
    /\ mainPc = "publish" => waited = 0
    /\ mainPc = "poll" => waited <= i /\ i <= childNum
    /\ mainPc = "subtract" => waited <= mainReg /\ mainReg <= childNum
    /\ cbPc = "store" => cbReg >= childNum

(* The pid of system() is a shell until somebody reaps it.                 *)
ShellInv ==
    /\ alive \cap zombie = {}
    /\ cbPc = "wait" => /\ sysPid \in Pids
                        /\ sysPid \in Children => kind[sysPid] = "shell"

(* A recording without a stored pid is still being started.                *)
CaptureInv ==
    capturing /\ handle["capture"] = GroupPid =>
        /\ cbPc \in {"step", "load", "store"}
        /\ todo = <<Add("capture")>>
        /\ cbPc \in {"load", "store"} => newPid # GroupPid

NewPidInv == cbPc \in {"load", "store"} => newPid # GroupPid

IInv == TypeOK /\ CallInv /\ CountInv /\ ShellInv /\ NewPidInv

-----------------------------------------------------------------------------
(* Every call list that messagearrive makes is a sequence of calls.        *)
LEMMA CallsTyped ==
    ASSUME NEW topic \in Topics \ {"audio_capture"}, NEW calls \in CallsOf[topic]
    PROVE  calls \in Seq(Calls)
<1>1. /\ Sys \in Calls /\ Fifo \in Calls
      /\ \A k \in Stoppable : Kill(k) \in Calls
      /\ \A k \in JobKinds : Add(k) \in Calls
  BY DEF Calls
<1>2. /\ {"monitor", "touch"} \subseteq Stoppable
      /\ {"monitor", "touch", "player", "other"} \subseteq JobKinds
  BY DEF Stoppable, JobKinds
<1>3. <<>> \in Seq(Calls)
  OBVIOUS
<1>4. \A c \in Calls : <<c>> \in Seq(Calls)
  OBVIOUS
<1>5. \A c, d \in Calls : <<c, d>> \in Seq(Calls)
  OBVIOUS
<1>6. [n \in 1..7 |-> Sys] \in Seq(Calls)
  <2>1. [n \in 1..7 |-> Sys] \in [1..7 -> Calls]
    BY <1>1
  <2> QED  BY <2>1
<1>7. CASE topic = "led"
  BY <1>7, <1>1, <1>3, <1>4, <1>5 DEF CallsOf, LedCalls
<1>8. CASE topic = "audio_play"
  BY <1>8, <1>1, <1>2, <1>3, <1>4 DEF CallsOf, AudioPlayCalls
<1>9. CASE topic = "video_play"
  BY <1>9, <1>1, <1>2, <1>3, <1>4 DEF CallsOf, VideoPlayCalls
<1>10. CASE topic = "video_capture"
  BY <1>10, <1>1, <1>2, <1>3, <1>4, <1>5 DEF CallsOf, VideoCaptureCalls
<1>11. CASE topic = "picture"
  BY <1>11, <1>1, <1>3, <1>4 DEF CallsOf, PictureCalls
<1>12. CASE topic = "char"
  BY <1>12, <1>3, <1>6 DEF CallsOf, CharCalls
<1>13. CASE topic = "touch"
  BY <1>13, <1>1, <1>2, <1>3, <1>4 DEF CallsOf, TouchCalls
<1> QED
  BY <1>7, <1>8, <1>9, <1>10, <1>11, <1>12, <1>13, TopicsAssumption

(* An add call names the kind of a program, never a shell.                 *)
LEMMA AddKinds ==
    ASSUME NEW c \in Calls, c.call = "add"
    PROVE  c.what \in JobKinds /\ c.what # "shell"
BY DEF Calls, Sys, Fifo, Kill, Add, JobKinds, Stoppable

(* Initially the invariant holds.                                          *)
LEMMA InitIInv == Init => IInv
<1> SUFFICES ASSUME Init PROVE IInv
  OBVIOUS
<1>1. handle \in [Stoppable -> Pids \cup {GroupPid, ErrPid}]
  BY DEF Init
<1>2. kind \in [Pids -> Kinds]
  BY DEF Init, Kinds
<1>3. capturing \in BOOLEAN
  BY Zenon DEF Init
<1>4. TypeOK
  BY <1>1, <1>2, <1>3 DEF Init, TypeOK, GroupPid
<1>5. CallInv /\ CountInv /\ ShellInv /\ NewPidInv
  BY DEF Init, CallInv, CountInv, ShellInv, NewPidInv
<1> QED  BY <1>4, <1>5 DEF IInv

(* A process that ends keeps the kernel's tables in order.                 *)
LEMMA ExitTables ==
    ASSUME TypeOK, ShellInv, NEW ps, Exit(ps)
    PROVE  /\ alive' \subseteq Pids /\ zombie' \subseteq Pids /\ readers' \subseteq alive'
           /\ alive' \cap zombie' = {}
           /\ Children' = Children
           /\ kind' = kind
BY DEF TypeOK, ShellInv, Exit, Children

(* The handler of a new message begins.                                    *)
LEMMA ArriveIInv ==
    ASSUME IInv, NEW calls \in Seq(Calls), Arrive(calls), capturing' \in BOOLEAN
    PROVE  IInv'
<1> USE DEF IInv, Arrive, mainVars, cbVars, procVars
<1>1. TypeOK'
  BY MaxMsgsAssumption DEF TypeOK
<1>2. CallInv' /\ CountInv' /\ NewPidInv'
  BY DEF CallInv, CountInv, NewPidInv
<1>3. ShellInv'
  BY DEF ShellInv, Children
<1> QED  BY <1>1, <1>2, <1>3

(* Every step of the receive thread's handler keeps the invariant.         *)
LEMMA HandlerIInv == IInv /\ Handler => IInv'
<1> SUFFICES ASSUME IInv, Handler PROVE IInv'
  OBVIOUS
<1> USE DEF IInv, mainVars, cbVars, procVars
<1>1. CASE MessageDone
  BY <1>1 DEF MessageDone, TypeOK, CallInv, CountInv, ShellInv, NewPidInv, Children
<1>2. CASE ForkChild
  <2>1. Head(todo) \in Calls
    BY <1>2 DEF ForkChild, TypeOK
  <2>2. Head(todo).what \in Kinds
    BY <1>2, <2>1, AddKinds DEF ForkChild, Kinds
  <2>3. TypeOK'
    BY <1>2, <2>2 DEF ForkChild, TypeOK, Free
  <2>4. CallInv' /\ CountInv'
    BY <1>2 DEF ForkChild, CallInv, CountInv
  <2>5. ShellInv' /\ NewPidInv'
    BY <1>2, PidsAssumption
       DEF ForkChild, ShellInv, NewPidInv, Children, Free, GroupPid, ErrPid
  <2> QED  BY <2>3, <2>4, <2>5
<1>3. CASE IncrementLoad
  BY <1>3 DEF IncrementLoad, TypeOK, CallInv, CountInv, ShellInv, NewPidInv, Children
<1>4. CASE IncrementStore
  <2>1. todo # <<>> /\ Tail(todo) \in Seq(Calls)
    BY <1>4 DEF IncrementStore, CallInv, TypeOK
  <2>2. TypeOK'
    BY <1>4, <2>1 DEF IncrementStore, TypeOK, GroupPid
  <2>3. CallInv' /\ CountInv'
    BY <1>4 DEF IncrementStore, CallInv, CountInv, TypeOK
  <2>4. ShellInv' /\ NewPidInv'
    BY <1>4 DEF IncrementStore, ShellInv, NewPidInv, Children
  <2> QED  BY <2>2, <2>3, <2>4
<1>5. CASE SystemFork
  <2>1. Tail(todo) \in Seq(Calls)
    BY <1>5 DEF SystemFork, TypeOK
  <2>2. TypeOK'
    BY <1>5, <2>1 DEF SystemFork, TypeOK, Free, Kinds
  <2>3. CallInv' /\ CountInv' /\ NewPidInv'
    BY <1>5 DEF SystemFork, CallInv, CountInv, NewPidInv
  <2>4. ShellInv'
    BY <1>5 DEF SystemFork, ShellInv, Children, Free, TypeOK
  <2> QED  BY <2>2, <2>3, <2>4
<1>6. CASE SystemReturn
  <2>1. Tail(todo) \in Seq(Calls)
    BY <1>6 DEF SystemReturn, TypeOK, CallInv
  <2>2. TypeOK'
    BY <1>6, <2>1 DEF SystemReturn, Forget, TypeOK, Kinds, GroupPid
  <2>3. CallInv' /\ CountInv' /\ NewPidInv'
    BY <1>6 DEF SystemReturn, CallInv, CountInv, NewPidInv
  <2>4. ShellInv'
    BY <1>6 DEF SystemReturn, Forget, ShellInv, Children
  <2> QED  BY <2>2, <2>3, <2>4
<1>7. CASE FifoOpen
  BY <1>7 DEF FifoOpen, TypeOK, CallInv, CountInv, ShellInv, NewPidInv, Children
<1>8. CASE FifoWrite
  <2>1. Tail(todo) \in Seq(Calls)
    BY <1>8 DEF FifoWrite, TypeOK, CallInv
  <2> QED
    BY <1>8, <2>1 DEF FifoWrite, TypeOK, CallInv, CountInv, ShellInv, NewPidInv, Children
<1> QED
  BY <1>1, <1>2, <1>3, <1>4, <1>5, <1>6, <1>7, <1>8 DEF Handler

(* Every step of a program keeps the invariant.                            *)
LEMMA ProgramsIInv == IInv /\ Programs => IInv'
<1> SUFFICES ASSUME IInv, NEW p \in Pids, ShellEnds(p) \/ PlayerOpens(p) \/ ProgramEnds(p)
             PROVE  IInv'
  BY DEF Programs
<1> USE DEF IInv, mainVars, cbVars, procVars
<1>1. CASE ShellEnds(p)
  <2>1. PICK ps : Exit(ps)
    BY <1>1 DEF ShellEnds
  <2>2. TypeOK'
    BY <1>1, <2>1, ExitTables DEF ShellEnds, TypeOK
  <2>3. CallInv' /\ CountInv' /\ NewPidInv'
    BY <1>1 DEF ShellEnds, CallInv, CountInv, NewPidInv
  <2>4. ShellInv'
    BY <1>1, <2>1, ExitTables DEF ShellEnds, ShellInv
  <2> QED  BY <2>2, <2>3, <2>4
<1>2. CASE PlayerOpens(p)
  BY <1>2 DEF PlayerOpens, TypeOK, CallInv, CountInv, ShellInv, NewPidInv, Children
<1>3. CASE ProgramEnds(p)
  <2>1. Exit({p})
    BY <1>3 DEF ProgramEnds
  <2>2. TypeOK'
    BY <1>3, <2>1, ExitTables DEF ProgramEnds, TypeOK
  <2>3. CallInv' /\ CountInv' /\ NewPidInv'
    BY <1>3 DEF ProgramEnds, CallInv, CountInv, NewPidInv
  <2>4. ShellInv'
    BY <1>3, <2>1, ExitTables DEF ProgramEnds, ShellInv
  <2> QED  BY <2>2, <2>3, <2>4
<1> QED  BY <1>1, <1>2, <1>3

(* Every step of main keeps the invariant: the subtraction is of no more   *)
(* than the loaded value, and the counter only grows under main's feet.    *)
LEMMA MainIInv == IInv /\ Main => IInv'
<1> SUFFICES ASSUME IInv, Main PROVE IInv'
  OBVIOUS
<1> USE DEF IInv, mainVars, cbVars, procVars
<1>1. CASE Publish
  BY <1>1 DEF Publish, TypeOK, CallInv, CountInv, ShellInv, NewPidInv, Children
<1>2. ASSUME NEW p \in Pids, Reap(p) PROVE IInv'
  <2>1. TypeOK'
    BY <1>2 DEF Reap, Forget, TypeOK, Kinds
  <2>2. CallInv' /\ CountInv' /\ NewPidInv'
    BY <1>2 DEF Reap, CallInv, CountInv, NewPidInv, TypeOK
  <2>3. ShellInv'
    BY <1>2 DEF Reap, Forget, ShellInv, Children, TypeOK
  <2> QED  BY <2>1, <2>2, <2>3
<1>3. CASE NothingToReap
  BY <1>3 DEF NothingToReap, TypeOK, CallInv, CountInv, ShellInv, NewPidInv, Children
<1>4. CASE WaitError
  BY <1>4 DEF WaitError, TypeOK, CallInv, CountInv, ShellInv, NewPidInv, Children
<1>5. CASE SubtractLoad
  BY <1>5 DEF SubtractLoad, TypeOK, CallInv, CountInv, ShellInv, NewPidInv, Children
<1>6. CASE SubtractStore
  BY <1>6 DEF SubtractStore, TypeOK, CallInv, CountInv, ShellInv, NewPidInv, Children
<1> QED
  BY <1>1, <1>2, <1>3, <1>4, <1>5, <1>6 DEF Main

(* The invariant is inductive.                                             *)
LEMMA StepIInv == IInv /\ [Next]_vars => IInv'
<1> SUFFICES ASSUME IInv, [Next]_vars PROVE IInv'
  OBVIOUS
<1>1. CASE MessageArrive
  <2>1. PICK topic \in Topics \ {"audio_capture"} :
           \E calls \in CallsOf[topic] : Arrive(calls) /\ UNCHANGED capturing
    BY <1>1 DEF MessageArrive
  <2>2. PICK calls \in CallsOf[topic] : Arrive(calls) /\ UNCHANGED capturing
    BY <2>1
  <2> QED  BY <2>2, CallsTyped, ArriveIInv DEF IInv, TypeOK
<1>2. CASE AudioCaptureArrive
  <2>1. /\ <<Add("capture")>> \in Seq(Calls)
        /\ <<Kill("capture")>> \in Seq(Calls)
        /\ <<>> \in Seq(Calls)
    BY DEF Calls, JobKinds, Stoppable
  <2>2. \E calls \in Seq(Calls) : Arrive(calls) /\ capturing' \in BOOLEAN
    BY <1>2, <2>1 DEF AudioCaptureArrive, IInv, TypeOK
  <2> QED  BY <2>2, ArriveIInv
<1>3. CASE Handler
  BY <1>3, HandlerIInv
<1>4. CASE Programs
  BY <1>4, ProgramsIInv
<1>5. CASE Main
  BY <1>5, MainIInv
<1>6. CASE Terminated \/ UNCHANGED vars
  BY <1>6 DEF Terminated, vars, mainVars, cbVars, procVars, IInv, TypeOK, CallInv,
     CountInv, ShellInv, NewPidInv, Children
<1> QED
  BY <1>1, <1>2, <1>3, <1>4, <1>5, <1>6 DEF Next

LEMMA Invariance == Spec => []IInv
BY InitIInv, StepIInv, PTL DEF Spec
-----------------------------------------------------------------------------
(* Every variable has its type, and only a running program holds the FIFO. *)
THEOREM TypeCorrect == Spec => []TypeOK
<1>1. IInv => TypeOK
  BY DEF IInv
<1> QED  BY <1>1, Invariance, PTL

(* The child counter of mqttclient.c, updated by two threads without a     *)
(* lock, never becomes negative.                                           *)
THEOREM CounterNeverNegative == Spec => []NeverNegative
<1>1. IInv => NeverNegative
  BY DEF IInv, CountInv, NeverNegative
<1> QED  BY <1>1, Invariance, PTL
-----------------------------------------------------------------------------
(* Once a recording has been started, a pid other than 0 is stored.        *)
LEMMA CaptureHandler == IInv /\ CaptureInv /\ Handler => CaptureInv'
<1> SUFFICES ASSUME IInv, CaptureInv, Handler,
                    capturing', handle'["capture"] = GroupPid
             PROVE  /\ cbPc' \in {"step", "load", "store"}
                    /\ todo' = <<Add("capture")>>
                    /\ cbPc' \in {"load", "store"} => newPid' # GroupPid
  BY DEF CaptureInv
<1> USE DEF mainVars, cbVars, procVars
<1>1. capturing
  BY DEF Handler, MessageDone, ForkChild, IncrementLoad, IncrementStore, SystemFork,
         SystemReturn, FifoOpen, FifoWrite
<1>2. Add("capture").call = "add" /\ Add("capture").what = "capture"
  BY DEF Add
<1>3. handle["capture"] = GroupPid =>
        /\ cbPc \in {"step", "load", "store"}
        /\ todo = <<Add("capture")>> /\ todo # <<>> /\ Head(todo) = Add("capture")
        /\ cbPc \in {"load", "store"} => newPid # GroupPid
  BY <1>1 DEF CaptureInv
<1>4. cbPc = "store" => newPid # GroupPid
  BY DEF IInv, NewPidInv
<1>5. "capture" \in Stoppable
  BY DEF Stoppable
<1>6. NewPidInv'
  BY HandlerIInv DEF IInv
<1>7. CASE IncrementStore
  BY <1>7, <1>2, <1>3, <1>4, <1>5 DEF IncrementStore
<1>8. CASE ForkChild
  BY <1>8, <1>3, <1>6 DEF ForkChild, NewPidInv
<1>9. CASE IncrementLoad
  BY <1>9, <1>3 DEF IncrementLoad
<1>10. CASE MessageDone \/ SystemFork \/ SystemReturn \/ FifoOpen \/ FifoWrite
  BY <1>10, <1>2, <1>3 DEF MessageDone, SystemFork, SystemReturn, FifoOpen, FifoWrite
<1> QED  BY <1>7, <1>8, <1>9, <1>10 DEF Handler

LEMMA CaptureStep == IInv /\ CaptureInv /\ [Next]_vars => CaptureInv'
<1> SUFFICES ASSUME IInv, CaptureInv, [Next]_vars PROVE CaptureInv'
  OBVIOUS
<1> USE DEF mainVars, cbVars, procVars
<1>1. CASE MessageArrive
  <2>1. PICK calls : Arrive(calls) /\ UNCHANGED capturing
    BY <1>1 DEF MessageArrive
  <2> QED  BY <2>1 DEF Arrive, CaptureInv
<1>2. CASE AudioCaptureArrive
  BY <1>2 DEF AudioCaptureArrive, Arrive, CaptureInv
<1>3. CASE Handler
  BY <1>3, CaptureHandler
<1>4. CASE Programs
  <2>1. UNCHANGED cbVars
    BY <1>4 DEF Programs, ShellEnds, PlayerOpens, ProgramEnds
  <2> QED  BY <2>1 DEF CaptureInv
<1>5. CASE Main
  <2>1. UNCHANGED cbVars
    BY <1>5 DEF Main, Publish, Reap, NothingToReap, WaitError, SubtractLoad,
                SubtractStore
  <2> QED  BY <2>1 DEF CaptureInv
<1>6. CASE Terminated \/ UNCHANGED vars
  BY <1>6 DEF Terminated, vars, CaptureInv
<1> QED
  BY <1>1, <1>2, <1>3, <1>4, <1>5, <1>6 DEF Next

LEMMA CaptureInvariance == Spec => []CaptureInv
<1>1. Init => CaptureInv
  BY DEF Init, CaptureInv
<1> QED  BY <1>1, CaptureStep, Invariance, PTL DEF Spec
-----------------------------------------------------------------------------
(* The unreaped programs are finitely many.                                *)
LEMMA JobsFinite == IInv => IsFiniteSet(Jobs) /\ Cardinality(Jobs) \in Nat
<1>1. IInv => Jobs \subseteq Pids
  BY DEF IInv, TypeOK, Jobs, Children
<1> QED  BY <1>1, PidsAssumption, FS_Subset, FS_CardinalityType

(* The drift is kept by a step that leaves the counter, the counted part   *)
(* and the set of programs alone.                                          *)
LEMMA DriftKept ==
    ASSUME Jobs' = Jobs, childNum' = childNum, waited' = waited,
           cbPc \in {"load", "store"} <=> cbPc' \in {"load", "store"}
    PROVE  Drift' = Drift
<1>1. Counted' = Counted
  BY DEF Counted
<1> QED  BY <1>1 DEF Drift

LEMMA DriftHandler ==
    ASSUME IInv, Handler, ~StaleStore, ~ForkFailed
    PROVE  Drift' = Drift
<1> USE DEF mainVars, cbVars, procVars
<1>1. Cardinality(Jobs) \in Nat /\ IsFiniteSet(Jobs) /\ childNum \in Int /\ waited \in Nat
  BY JobsFinite DEF IInv, TypeOK
<1>2. CASE MessageDone \/ IncrementLoad \/ FifoOpen \/ FifoWrite
  <2>1. Jobs' = Jobs
    BY <1>2 DEF MessageDone, IncrementLoad, FifoOpen, FifoWrite, Jobs, Children
  <2> QED
    BY <1>2, <2>1, DriftKept DEF MessageDone, IncrementLoad, FifoOpen, FifoWrite
<1>3. CASE ForkChild
  <2>1. newPid' # ErrPid
    BY <1>3 DEF ForkChild, ForkFailed
  <2>2. PICK p \in Free : /\ alive' = alive \cup {p}
                         /\ kind' = [kind EXCEPT ![p] = Head(todo).what]
    BY <1>3, <2>1 DEF ForkChild
  <2>3. Head(todo).what # "shell"
    BY <1>3, AddKinds DEF ForkChild, IInv, TypeOK
  <2>4. p \notin Jobs /\ p \in Pids /\ p \notin Children
    BY <2>2 DEF Free, Jobs, Children
  <2>5. Children' = Children \cup {p}
    BY <1>3, <2>2 DEF ForkChild, Children
  <2>6. kind'[p] # "shell" /\ \A q \in Pids \ {p} : kind'[q] = kind[q]
    BY <2>2, <2>3, <2>4 DEF IInv, TypeOK
  <2>7. Children \subseteq Pids
    BY DEF Children, IInv, TypeOK
  <2>8. Jobs' = Jobs \cup {p}
    BY <2>4, <2>5, <2>6, <2>7 DEF Jobs
  <2>9. Cardinality(Jobs') = Cardinality(Jobs) + 1
    BY <1>1, <2>4, <2>8, FS_AddElement
  <2>10. Cardinality(Jobs)' = Cardinality(Jobs')
    OBVIOUS
  <2>11. Counted' = Counted
    BY <1>1, <1>3, <2>9, <2>10 DEF Counted, ForkChild
  <2> QED  BY <1>3, <2>11 DEF Drift, ForkChild
<1>4. CASE IncrementStore
  <2>1. Jobs' = Jobs
    BY <1>4 DEF IncrementStore, Jobs, Children
  <2>2. cbReg = childNum
    BY <1>4 DEF IncrementStore, StaleStore
  <2>3. Counted' = Counted + 1
    BY <1>1, <1>4, <2>1 DEF IncrementStore, Counted
  <2>4. Counted \in Int
    BY <1>1 DEF Counted
  <2> QED  BY <1>1, <1>4, <2>2, <2>3, <2>4 DEF IncrementStore, Drift
<1>5. CASE SystemFork
  <2>1. Jobs' = Jobs
    BY <1>5 DEF SystemFork, Jobs, Children, Free, IInv, TypeOK
  <2> QED  BY <1>5, <2>1, DriftKept DEF SystemFork
<1>6. CASE SystemReturn
  <2>1. Children \subseteq Pids /\ sysPid \in Pids /\ sysPid \notin Jobs
    BY <1>6 DEF SystemReturn, Children, Jobs, IInv, TypeOK, ShellInv
  <2>2. Children' = Children \ {sysPid}
    BY <1>6 DEF SystemReturn, Forget, Children
  <2>3. \A q \in Pids \ {sysPid} : kind'[q] = kind[q]
    BY <1>6 DEF SystemReturn, Forget, IInv, TypeOK
  <2>4. Jobs' = Jobs
    BY <2>1, <2>2, <2>3 DEF Jobs
  <2> QED  BY <1>6, <2>4, DriftKept DEF SystemReturn
<1> QED
  BY <1>2, <1>3, <1>4, <1>5, <1>6 DEF Handler

LEMMA DriftMain ==
    ASSUME IInv, Main, ~StaleStore, ~Theft
    PROVE  Drift' = Drift
<1> USE DEF mainVars, cbVars, procVars
<1>1. Cardinality(Jobs) \in Nat /\ IsFiniteSet(Jobs) /\ childNum \in Int /\ waited \in Nat
  BY JobsFinite DEF IInv, TypeOK
<1>2. CASE Publish \/ NothingToReap \/ WaitError \/ SubtractLoad
  <2>1. Jobs' = Jobs
    BY <1>2 DEF Publish, NothingToReap, WaitError, SubtractLoad, Jobs, Children
  <2> QED
    BY <1>2, <2>1, DriftKept DEF Publish, NothingToReap, WaitError, SubtractLoad
<1>3. ASSUME NEW p \in Pids, Reap(p) PROVE Drift' = Drift
  <2>1. kind[p] # "shell"
    BY <1>3 DEF Reap, Forget, Theft
  <2>2. p \in Jobs /\ Children \subseteq Pids
    BY <1>3, <2>1 DEF Reap, Jobs, Children, IInv, TypeOK
  <2>3. Children' = Children \ {p}
    BY <1>3 DEF Reap, Forget, Children, IInv, ShellInv
  <2>4. \A q \in Pids \ {p} : kind'[q] = kind[q]
    BY <1>3 DEF Reap, Forget, IInv, TypeOK
  <2>5. Jobs' = Jobs \ {p}
    BY <2>2, <2>3, <2>4 DEF Jobs
  <2>6. Cardinality(Jobs') = Cardinality(Jobs) - 1
    BY <1>1, <2>2, <2>5, FS_RemoveElement
  <2>7. Counted' = Counted
    BY <1>1, <1>3, <2>6 DEF Reap, Counted
  <2> QED  BY <1>3, <2>7 DEF Reap, Drift
<1>4. CASE SubtractStore
  <2>1. Jobs' = Jobs
    BY <1>4 DEF SubtractStore, Jobs, Children
  <2>2. mainReg = childNum
    BY <1>4 DEF SubtractStore, StaleStore
  <2>3. Counted' = Counted - waited
    BY <1>1, <1>4, <2>1 DEF SubtractStore, Counted
  <2>4. Counted \in Int
    BY <1>1 DEF Counted
  <2> QED  BY <1>1, <1>4, <2>2, <2>3, <2>4 DEF SubtractStore, Drift
<1> QED
  BY <1>2, <1>3, <1>4 DEF Main

LEMMA DriftStep ==
    ASSUME IInv, Next, ~StaleStore, ~ForkFailed, ~Theft
    PROVE  Drift' = Drift
<1> USE DEF mainVars, cbVars, procVars
<1>1. CASE MessageArrive \/ AudioCaptureArrive
  <2>1. PICK calls : Arrive(calls)
    BY <1>1 DEF MessageArrive, AudioCaptureArrive
  <2>2. Jobs' = Jobs
    BY <2>1 DEF Arrive, Jobs, Children
  <2> QED  BY <2>1, <2>2, DriftKept DEF Arrive
<1>2. CASE Handler
  BY <1>2, DriftHandler
<1>3. CASE Programs
  <2>1. PICK p \in Pids : ShellEnds(p) \/ PlayerOpens(p) \/ ProgramEnds(p)
    BY <1>3 DEF Programs
  <2>2. Children' = Children /\ kind' = kind
    <3>1. CASE ShellEnds(p)
      <4>1. PICK ps : Exit(ps)
        BY <3>1 DEF ShellEnds
      <4> QED  BY <4>1, ExitTables DEF IInv
    <3>2. CASE PlayerOpens(p)
      BY <3>2 DEF PlayerOpens, Children
    <3>3. CASE ProgramEnds(p)
      <4>1. Exit({p})
        BY <3>3 DEF ProgramEnds
      <4> QED  BY <4>1, ExitTables DEF IInv
    <3> QED  BY <2>1, <3>1, <3>2, <3>3
  <2>3. Jobs' = Jobs
    BY <2>2 DEF Jobs
  <2> QED  BY <2>1, <2>3, DriftKept DEF ShellEnds, PlayerOpens, ProgramEnds
<1>4. CASE Main
  BY <1>4, DriftMain
<1>5. CASE Terminated
  <2>1. Jobs' = Jobs
    BY <1>5 DEF Terminated, vars, Jobs, Children
  <2> QED  BY <1>5, <2>1, DriftKept DEF Terminated, vars
<1> QED
  BY <1>1, <1>2, <1>3, <1>4, <1>5 DEF Next

(* The ledger goes wrong in three ways only: a store computed from a stale *)
(* load, a fork that failed, and main reaping the shell of a system().     *)
THEOREM DriftCauses == Spec => DriftHasCause
<1>1. IInv /\ [Next]_vars
        => [Up' /\ Drift' # Drift => StaleStore \/ ForkFailed \/ Theft]_vars
  BY DriftStep
<1> QED  BY <1>1, Invariance, PTL DEF Spec, DriftHasCause

(* main's fatal waitpid error means that child_num counted a program that  *)
(* does not exist.                                                         *)
THEOREM WaitErrorsMeanOvercount == Spec => WaitErrorMeansOvercount
<1>1. ASSUME IInv, [Next]_vars, down' = "wait", Up
      PROVE  Drift > 0
  <2>1. WaitError
    BY <1>1 DEF Next, MessageArrive, AudioCaptureArrive, Arrive, Handler, MessageDone,
       ForkChild, IncrementLoad, IncrementStore, SystemFork, SystemReturn, FifoOpen,
       FifoWrite, Programs, ShellEnds, PlayerOpens, ProgramEnds, Main, Publish, Reap,
       NothingToReap, SubtractLoad, SubtractStore, Terminated, vars, Up
  <2>2. Jobs = {}
    BY <2>1 DEF WaitError, Jobs
  <2>3. Cardinality(Jobs) = 0
    BY <2>2, FS_EmptySet
  <2>4. waited < childNum /\ waited \in Nat /\ childNum \in Int
    BY <1>1, <2>1 DEF WaitError, IInv, TypeOK, CountInv
  <2>5. Counted \in Int /\ Counted <= waited
    BY <2>3, <2>4 DEF Counted
  <2> QED  BY <2>4, <2>5 DEF Drift
<1>2. IInv /\ [Next]_vars => [down' = "wait" /\ Up => Drift > 0]_vars
  BY <1>1
<1> QED  BY <1>2, Invariance, PTL DEF Spec, WaitErrorMeansOvercount
-----------------------------------------------------------------------------
(***************************************************************************)
(* The recorder, if fork succeeds: the flag, the stored pid and the calls  *)
(* still to be made agree on the one recorder there may be.                *)
(***************************************************************************)
OtherCalls == {c \in Calls : c.what # "capture"}

(* A start of a recorder is the only call of its handler, and so is a stop.*)
Starting == todo = <<Add("capture")>>
Stopping == todo = <<Kill("capture")>>

TodoInv ==
    /\ Starting \/ Stopping \/ todo \in Seq(OtherCalls)
    /\ cbPc = "idle" => todo = <<>>
    /\ Starting => capturing /\ cbPc \in {"step", "load", "store"}
    /\ Stopping => ~capturing

(* A recorder runs under the stored pid or has just been forked; it        *)
(* survives the end of the recording only while the shell that is to kill  *)
(* it has not ended.                                                       *)
RecorderInv ==
    /\ ~Starting => Recorders \subseteq {handle["capture"]}
    /\ Starting /\ cbPc = "step" => Recorders = {}
    /\ Starting /\ cbPc \in {"load", "store"} => Recorders \subseteq {newPid}
    /\ ~capturing /\ Recorders # {} =>
          Stopping /\ cbPc \in {"step", "wait"} /\ (cbPc = "wait" => sysPid \in alive)

RInv == IInv /\ TodoInv /\ RecorderInv

(* The two calls of audio_capture are told from each other and from all    *)
(* the others by their names.                                              *)
LEMMA CaptureCalls ==
    /\ Add("capture").call = "add" /\ Add("capture").what = "capture"
    /\ Kill("capture").call = "kill" /\ Kill("capture").what = "capture"
    /\ \A c \in Calls : c.what = "capture" => c = Add("capture") \/ c = Kill("capture")
    /\ Starting => /\ todo # <<>> /\ Head(todo) = Add("capture") /\ Tail(todo) = <<>>
    /\ Stopping => /\ todo # <<>> /\ Head(todo) = Kill("capture") /\ Tail(todo) = <<>>
    /\ ~(Starting /\ Stopping)
<1>1. /\ Add("capture").call = "add" /\ Add("capture").what = "capture"
      /\ Kill("capture").call = "kill" /\ Kill("capture").what = "capture"
  BY DEF Add, Kill
<1>2. \A c \in Calls : c.what = "capture" => c = Add("capture") \/ c = Kill("capture")
  BY DEF Calls, Sys, Fifo, Add, Kill
<1>3. /\ Starting => /\ todo # <<>> /\ Head(todo) = Add("capture") /\ Tail(todo) = <<>>
      /\ Stopping => /\ todo # <<>> /\ Head(todo) = Kill("capture") /\ Tail(todo) = <<>>
  <2>1. \A c : <<c>> # <<>> /\ Head(<<c>>) = c /\ Tail(<<c>>) = <<>>
    OBVIOUS
  <2> QED  BY <2>1, Zenon DEF Starting, Stopping
<1> QED  BY <1>1, <1>2, <1>3

(* The other messages start and stop no recorder.                          *)
LEMMA OtherTopics ==
    ASSUME NEW topic \in Topics \ {"audio_capture"}, NEW calls \in CallsOf[topic]
    PROVE  calls \in Seq(OtherCalls)
<1>1. /\ {Sys, Fifo, Kill("monitor"), Kill("touch")} \subseteq OtherCalls
      /\ {Add("player"), Add("other"), Add("monitor"), Add("touch")} \subseteq OtherCalls
  BY DEF OtherCalls, Calls, Sys, Fifo, Kill, Add, Stoppable, JobKinds
<1>2. <<>> \in Seq(OtherCalls)
  OBVIOUS
<1>3. \A c, d \in OtherCalls : <<c>> \in Seq(OtherCalls) /\ <<c, d>> \in Seq(OtherCalls)
  OBVIOUS
<1>4. [n \in 1..7 |-> Sys] \in Seq(OtherCalls)
  <2>1. [n \in 1..7 |-> Sys] \in [1..7 -> OtherCalls]
    BY <1>1
  <2> QED  BY <2>1
<1>5. CASE topic = "led"
  BY <1>5, <1>1, <1>2, <1>3 DEF CallsOf, LedCalls
<1>6. CASE topic = "audio_play"
  BY <1>6, <1>1, <1>2, <1>3 DEF CallsOf, AudioPlayCalls
<1>7. CASE topic = "video_play"
  BY <1>7, <1>1, <1>2, <1>3 DEF CallsOf, VideoPlayCalls
<1>8. CASE topic = "video_capture"
  BY <1>8, <1>1, <1>2, <1>3 DEF CallsOf, VideoCaptureCalls
<1>9. CASE topic = "picture"
  BY <1>9, <1>1, <1>2, <1>3 DEF CallsOf, PictureCalls
<1>10. CASE topic = "char"
  BY <1>10, <1>2, <1>4 DEF CallsOf, CharCalls
<1>11. CASE topic = "touch"
  BY <1>11, <1>1, <1>2, <1>3 DEF CallsOf, TouchCalls
<1> QED  BY <1>5, <1>6, <1>7, <1>8, <1>9, <1>10, <1>11, TopicsAssumption

(* Only a fork makes a recorder and only an end unmakes one.               *)
LEMMA RecordersKept ==
    ASSUME alive' = alive, \A p \in alive : kind'[p] = kind[p]
    PROVE  Recorders' = Recorders
BY DEF Recorders

LEMMA RecorderArrive ==
    ASSUME RInv, NEW calls, Arrive(calls),
           \/ calls \in Seq(OtherCalls) /\ UNCHANGED capturing
           \/ calls = <<Add("capture")>> /\ ~capturing /\ capturing' = TRUE
           \/ calls = <<Kill("capture")>> /\ capturing /\ capturing' = FALSE
    PROVE  TodoInv' /\ RecorderInv'
<1> USE DEF mainVars, cbVars, procVars
<1>1. todo = <<>> /\ ~Starting /\ ~Stopping
  BY DEF RInv, TodoInv, Arrive, Starting, Stopping
<1>2. todo' = calls /\ cbPc' = "step" /\ UNCHANGED <<handle, newPid, sysPid, alive>>
  BY DEF Arrive
<1>3. Recorders' = Recorders
  BY RecordersKept DEF Arrive
<1>4. ~(Starting' /\ Stopping')
  BY <1>2, CaptureCalls DEF Starting, Stopping
<1>5. CASE calls \in Seq(OtherCalls) /\ UNCHANGED capturing
  <2>1. ~Starting' /\ ~Stopping'
    <3>1. calls # <<>> => Head(calls).what # "capture"
      BY <1>5 DEF OtherCalls
    <3>2. Starting' \/ Stopping' => calls # <<>> /\ Head(calls).what = "capture"
      BY <1>2, CaptureCalls DEF Starting, Stopping
    <3> QED  BY <3>1, <3>2
  <2> QED  BY <1>1, <1>2, <1>3, <1>5, <2>1 DEF RInv, TodoInv, RecorderInv
<1>6. CASE calls = <<Add("capture")>> /\ ~capturing /\ capturing' = TRUE
  <2>1. Starting' /\ ~Stopping'
    BY <1>2, <1>4, <1>6 DEF Starting
  <2> QED  BY <1>1, <1>2, <1>3, <1>6, <2>1 DEF RInv, TodoInv, RecorderInv
<1>7. CASE calls = <<Kill("capture")>> /\ capturing /\ capturing' = FALSE
  <2>1. ~Starting' /\ Stopping'
    BY <1>2, <1>4, <1>7 DEF Stopping
  <2> QED  BY <1>1, <1>2, <1>3, <1>7, <2>1 DEF RInv, TodoInv, RecorderInv
<1> QED  BY <1>5, <1>6, <1>7

(* The handler goes on to its next call.                                   *)
LEMMA NextCall ==
    ASSUME TodoInv, todo # <<>>, todo' = Tail(todo)
    PROVE  /\ ~Starting' /\ ~Stopping' /\ todo' \in Seq(OtherCalls)
           /\ Starting \/ Stopping => todo' = <<>>
<1>1. Starting \/ Stopping => todo' = <<>>
  BY CaptureCalls
<1>2. todo' \in Seq(OtherCalls)
  <2>1. CASE Starting \/ Stopping
    <3>1. <<>> \in Seq(OtherCalls)
      OBVIOUS
    <3> QED  BY <1>1, <2>1, <3>1
  <2>2. CASE todo \in Seq(OtherCalls)
    BY <2>2
  <2> QED  BY <2>1, <2>2 DEF TodoInv
<1>3. todo' # <<>> => Head(todo').what # "capture"
  BY <1>2 DEF OtherCalls
<1>4. Starting' \/ Stopping' => todo' # <<>> /\ Head(todo').what = "capture"
  <2>1. \A c : <<c>> # <<>> /\ Head(<<c>>) = c
    OBVIOUS
  <2> QED  BY <2>1, CaptureCalls, Zenon DEF Starting, Stopping
<1> QED
  BY <1>1, <1>2, <1>3, <1>4

(* A call of another handler starts and stops nothing.                     *)
LEMMA OtherCall ==
    ASSUME RInv, todo # <<>>
    PROVE  /\ Head(todo).what = "capture" /\ Head(todo).call = "add" <=> Starting
           /\ Head(todo) = Kill("capture") <=> Stopping
<1>1. CASE Starting \/ Stopping
  BY <1>1, CaptureCalls
<1>2. CASE ~Starting /\ ~Stopping
  <2>1. Head(todo) \in OtherCalls
    BY <1>2 DEF RInv, TodoInv
  <2> QED  BY <1>2, <2>1, CaptureCalls DEF OtherCalls
<1> QED  BY <1>1, <1>2

LEMMA RecorderHandler ==
    ASSUME RInv, Handler, ~ForkMayFail
    PROVE  TodoInv' /\ RecorderInv'
<1> USE DEF mainVars, cbVars, procVars
<1>1. CASE MessageDone \/ IncrementLoad \/ FifoOpen
  <2>1. UNCHANGED <<todo, capturing, handle, alive, sysPid, newPid>> /\ Recorders' = Recorders
    BY <1>1, RecordersKept DEF MessageDone, IncrementLoad, FifoOpen
  <2>2. Starting' = Starting /\ Stopping' = Stopping
    BY <2>1 DEF Starting, Stopping
  <2>3. Starting => IncrementLoad
    BY <1>1, CaptureCalls DEF MessageDone, FifoOpen
  <2>4. Stopping => ~MessageDone /\ ~FifoOpen /\ ~IncrementLoad
    BY <1>1, CaptureCalls DEF RInv, IInv, CallInv, MessageDone, FifoOpen, IncrementLoad
  <2> QED
    BY <1>1, <2>1, <2>2, <2>3, <2>4
       DEF RInv, TodoInv, RecorderInv, MessageDone, IncrementLoad, FifoOpen
<1>2. CASE ForkChild
  <2>1. PICK p \in Free : /\ newPid' = p /\ alive' = alive \cup {p}
                         /\ kind' = [kind EXCEPT ![p] = Head(todo).what]
    BY <1>2 DEF ForkChild
  <2>2. /\ UNCHANGED <<todo, capturing, handle, sysPid>> /\ cbPc = "step" /\ cbPc' = "load"
        /\ todo # <<>> /\ Head(todo).call = "add"
    BY <1>2 DEF ForkChild
  <2>3. Starting' = Starting /\ Stopping' = Stopping /\ ~Stopping
    BY <2>2, CaptureCalls DEF Starting, Stopping
  <2>4. p \notin alive /\ p \in Pids /\ alive \subseteq Pids /\ kind \in [Pids -> Kinds]
    BY <2>1 DEF Free, RInv, IInv, TypeOK
  <2>5. Recorders' = IF Head(todo).what = "capture" THEN Recorders \cup {p} ELSE Recorders
    BY <2>1, <2>4 DEF Recorders
  <2>6. Head(todo).what = "capture" <=> Starting
    BY <2>2, OtherCall
  <2> QED  BY <2>1, <2>2, <2>3, <2>5, <2>6 DEF RInv, TodoInv, RecorderInv
<1>3. CASE IncrementStore
  <2>1. /\ todo # <<>> /\ todo' = Tail(todo) /\ Head(todo).call = "add"
        /\ UNCHANGED <<capturing, alive, sysPid>> /\ cbPc = "store" /\ cbPc' = "step"
    BY <1>3 DEF IncrementStore, RInv, IInv, CallInv
  <2>2. Recorders' = Recorders
    BY <1>3, RecordersKept DEF IncrementStore
  <2>3. /\ Starting => handle'["capture"] = newPid
        /\ ~Starting => handle'["capture"] = handle["capture"]
    BY <1>3, <2>1, OtherCall DEF IncrementStore, Stoppable
  <2>4. ~Stopping
    BY <2>1, CaptureCalls
  <2>5. ~Starting' /\ ~Stopping' /\ todo' \in Seq(OtherCalls)
    BY <2>1, NextCall DEF RInv
  <2> QED  BY <2>1, <2>2, <2>3, <2>4, <2>5 DEF RInv, TodoInv, RecorderInv
<1>4. CASE SystemFork
  <2>1. PICK p \in Free : /\ sysPid' = p /\ alive' = alive \cup {p} /\ UNCHANGED todo
                         /\ kind' = [kind EXCEPT ![p] = "shell"] /\ cbPc' = "wait"
    BY <1>4 DEF SystemFork
  <2>2. UNCHANGED <<capturing, handle, newPid>> /\ cbPc = "step"
    BY <1>4 DEF SystemFork
  <2>3. p \notin alive /\ alive \subseteq Pids /\ kind \in [Pids -> Kinds]
    BY <2>1 DEF Free, RInv, IInv, TypeOK
  <2>4. Recorders' = Recorders
    BY <2>1, <2>3 DEF Recorders, Free
  <2>5. Starting' = Starting /\ Stopping' = Stopping /\ ~Starting
    BY <1>4, <2>1, CaptureCalls DEF SystemFork, Starting, Stopping
  <2> QED  BY <2>1, <2>2, <2>4, <2>5 DEF RInv, TodoInv, RecorderInv
<1>5. CASE SystemReturn \/ FifoWrite
  <2>1. /\ todo # <<>> /\ todo' = Tail(todo) /\ UNCHANGED <<capturing, alive, handle>>
        /\ cbPc \in {"wait", "write"} /\ cbPc' = "step"
    BY <1>5 DEF SystemReturn, FifoWrite, RInv, IInv, CallInv
  <2>2. Recorders' = Recorders
    <3>1. SystemReturn => alive \subseteq Pids /\ kind \in [Pids -> Kinds] /\ sysPid \notin alive
      BY DEF RInv, IInv, TypeOK, SystemReturn
    <3>2. \A q \in alive : kind'[q] = kind[q]
      BY <1>5, <3>1 DEF SystemReturn, Forget, FifoWrite
    <3> QED  BY <2>1, <3>2, RecordersKept
  <2>3. ~Starting' /\ ~Stopping' /\ todo' \in Seq(OtherCalls)
    BY <2>1, NextCall DEF RInv
  <2>4. ~Starting
    BY <2>1 DEF RInv, TodoInv
  <2>5. ~capturing => Recorders = {}
    BY <1>5 DEF RInv, RecorderInv, SystemReturn, FifoWrite
  <2> QED  BY <2>1, <2>2, <2>3, <2>4, <2>5 DEF RInv, TodoInv, RecorderInv
<1> QED
  BY <1>1, <1>2, <1>3, <1>4, <1>5 DEF Handler

LEMMA RecorderPrograms ==
    ASSUME RInv, Programs
    PROVE  TodoInv' /\ RecorderInv'
<1> USE DEF mainVars, cbVars, procVars
<1>1. PICK p \in Pids : ShellEnds(p) \/ PlayerOpens(p) \/ ProgramEnds(p)
  BY DEF Programs
<1>2. UNCHANGED cbVars
  BY <1>1 DEF ShellEnds, PlayerOpens, ProgramEnds
<1>3. TodoInv' /\ Starting' = Starting /\ Stopping' = Stopping
  BY <1>2 DEF RInv, TodoInv, Starting, Stopping
<1>4. Recorders' \subseteq Recorders
  BY <1>1 DEF ShellEnds, PlayerOpens, ProgramEnds, Exit, Recorders
<1>5. CASE ShellEnds(p) /\ Stopping
  <2>1. Recorders' = {}
    <3>1. Head(todo).call = "kill" /\ Head(todo).what = "capture"
      BY <1>5, CaptureCalls
    <3>2. Recorders \subseteq {handle["capture"]}
      BY <1>5, CaptureCalls DEF RInv, RecorderInv
    <3>3. handle["capture"] \notin alive'
      BY <1>5, <3>1 DEF ShellEnds, Exit
    <3> QED  BY <1>4, <3>2, <3>3 DEF Recorders
  <2> QED  BY <1>2, <1>3, <2>1 DEF RecorderInv
<1>6. CASE ~(ShellEnds(p) /\ Stopping)
  <2>1. Stopping /\ cbPc = "wait" /\ sysPid \in alive => sysPid \in alive'
    BY <1>1, <1>6 DEF PlayerOpens, ProgramEnds, Exit, RInv, IInv, ShellInv, Children
  <2> QED  BY <1>2, <1>3, <1>4, <2>1 DEF RInv, RecorderInv
<1> QED  BY <1>5, <1>6

LEMMA RecorderMain ==
    ASSUME RInv, Main
    PROVE  TodoInv' /\ RecorderInv'
<1> USE DEF mainVars, cbVars, procVars
<1>1. UNCHANGED <<cbVars, alive>>
  BY DEF Main, Publish, Reap, NothingToReap, WaitError, SubtractLoad, SubtractStore
<1>2. \A q \in alive : kind'[q] = kind[q]
  <2>1. kind' = kind \/ \E p \in zombie : kind' = [kind EXCEPT ![p] = "none"]
    BY DEF Main, Publish, Reap, Forget, NothingToReap, WaitError, SubtractLoad, SubtractStore
  <2>2. alive \subseteq Pids /\ kind \in [Pids -> Kinds] /\ alive \cap zombie = {}
    BY DEF RInv, IInv, TypeOK, ShellInv
  <2> QED  BY <2>1, <2>2
<1>3. Recorders' = Recorders
  BY <1>1, <1>2, RecordersKept
<1> QED
  BY <1>1, <1>3 DEF RInv, TodoInv, RecorderInv, Starting, Stopping

LEMMA RecorderStep == RInv /\ ~ForkMayFail /\ [Next]_vars => RInv'
<1> SUFFICES ASSUME RInv, ~ForkMayFail, [Next]_vars PROVE TodoInv' /\ RecorderInv'
  BY StepIInv DEF RInv
<1>1. CASE MessageArrive
  <2>1. PICK topic \in Topics \ {"audio_capture"} :
           \E calls \in CallsOf[topic] : Arrive(calls) /\ UNCHANGED capturing
    BY <1>1 DEF MessageArrive
  <2>2. PICK calls \in CallsOf[topic] : Arrive(calls) /\ UNCHANGED capturing
    BY <2>1
  <2> QED  BY <2>2, OtherTopics, RecorderArrive
<1>2. CASE AudioCaptureArrive
  <2>1. <<>> \in Seq(OtherCalls)
    OBVIOUS
  <2> QED  BY <1>2, <2>1, RecorderArrive DEF AudioCaptureArrive
<1>3. CASE Handler
  BY <1>3, RecorderHandler
<1>4. CASE Programs
  BY <1>4, RecorderPrograms
<1>5. CASE Main
  BY <1>5, RecorderMain
<1>6. CASE Terminated \/ UNCHANGED vars
  BY <1>6 DEF Terminated, vars, mainVars, cbVars, procVars, RInv, TodoInv, RecorderInv,
     Recorders, Starting, Stopping
<1> QED
  BY <1>1, <1>2, <1>3, <1>4, <1>5, <1>6 DEF Next

LEMMA RecorderInvariance == ~ForkMayFail /\ Spec => []RInv
<1>1. Init => RInv
  <2>1. Init => TodoInv
    BY DEF Init, TodoInv, Starting, Stopping, Add, Kill
  <2>2. Init => RecorderInv
    BY DEF Init, RecorderInv, Starting, Recorders
  <2> QED  BY <2>1, <2>2, InitIInv DEF RInv
<1>2. CASE ForkMayFail
  BY <1>2
<1>3. CASE ~ForkMayFail
  <2>1. RInv /\ [Next]_vars => RInv'
    BY <1>3, RecorderStep
  <2> QED  BY <1>1, <2>1, PTL DEF Spec
<1> QED  BY <1>2, <1>3

(* If fork succeeds, audio_capture_status makes recordings exclusive: at   *)
(* most one recorder has the capture device, although a stop ends it only  *)
(* when the shell of the kill has run and main reaps behind the handler.   *)
THEOREM RecordingsAreExclusive == ~ForkMayFail /\ Spec => []OneRecorder
<1>1. ASSUME RInv PROVE OneRecorder
  <2>1. PICK p : Recorders \subseteq {p}
    BY <1>1 DEF RInv, RecorderInv, TodoInv
  <2>2. Recorders = {} \/ Recorders = {p}
    BY <2>1
  <2>3. Cardinality(Recorders) \in {0, 1}
    BY <2>2, FS_EmptySet, FS_Singleton
  <2> QED  BY <2>3 DEF OneRecorder
<1> QED  BY <1>1, RecorderInvariance, PTL

(* The stop of a recording ends no program but the recorder, if there is   *)
(* one still: the stored pid is the recorder's or out of use by then.      *)
THEOREM StopsHitRecorder == ~ForkMayFail /\ Spec => StopHitsRecorder
<1>1. ASSUME RInv, [Next]_vars, NEW p \in alive \ alive',
             cbPc = "wait", p # sysPid, sysPid \in alive \ alive',
             Head(todo) = Kill("capture"), Up'
      PROVE  kind[p] = "capture" \/ Recorders = {}
  <2>1. todo # <<>>
    BY <1>1 DEF RInv, IInv, CallInv
  <2>2. Stopping
    BY <1>1, <2>1, OtherCall
  <2>3. PICK q \in Pids : ShellEnds(q) \/ ProgramEnds(q)
    BY <1>1 DEF Next, MessageArrive, AudioCaptureArrive, Arrive, Handler, MessageDone,
       ForkChild, IncrementLoad, IncrementStore, SystemFork, SystemReturn, FifoOpen,
       FifoWrite, Programs, PlayerOpens, Main, Publish, Reap, NothingToReap, WaitError,
       SubtractLoad, SubtractStore, Terminated, vars, mainVars, cbVars, procVars
  <2>4. ShellEnds(q)
    BY <1>1, <2>3 DEF ProgramEnds, Exit
  <2>5. p = handle["capture"]
    BY <1>1, <2>4, CaptureCalls DEF ShellEnds, Exit, Up
  <2>6. Recorders \subseteq {p}
    <3>1. ~Starting
      BY <2>2, CaptureCalls
    <3> QED  BY <1>1, <2>5, <3>1 DEF RInv, RecorderInv
  <2> QED  BY <2>6 DEF Recorders
<1>2. RInv /\ [Next]_vars =>
        [\A p \in alive \ alive' :
            (/\ cbPc = "wait" /\ p # sysPid /\ sysPid \in alive \ alive'
             /\ Head(todo) = Kill("capture") /\ Up')
            => (kind[p] = "capture" \/ Recorders = {})]_vars
  BY <1>1
<1> QED  BY <1>2, RecorderInvariance, PTL DEF Spec, StopHitsRecorder
-----------------------------------------------------------------------------
(***************************************************************************)
(* The stop that ends the hub itself, failing forks included.              *)
(***************************************************************************)
(* A program whose pid is not stored has just been forked; a stop of a     *)
(* recording is pending only when a pid or the -1 of a failed fork is      *)
(* stored; and -1 comes from a failed fork.                                *)
StoredInv ==
    \A p \in Children : kind[p] \in Stoppable /\ handle[kind[p]] = GroupPid =>
        cbPc \in {"load", "store"} /\ Head(todo).what = kind[p]

StopInv == handle["capture"] = GroupPid =>
    \A n \in 1..Len(todo) : todo[n] # Kill("capture")

ErrInv == ~ForkMayFail => newPid # ErrPid /\ \A k \in Stoppable : handle[k] # ErrPid

AimInv == IInv /\ CaptureInv /\ StoredInv /\ StopInv /\ ErrInv

(* A step that stores no pid, forks nothing and at most finishes a call    *)
(* keeps what is stored and pending in agreement.                          *)
LEMMA AimKept ==
    ASSUME AimInv, handle' = handle, newPid' = newPid \/ newPid' = 0,
           todo' = todo \/ (todo # <<>> /\ todo' = Tail(todo)),
           cbPc \in {"load", "store"} => cbPc' \in {"load", "store"} /\ todo' = todo,
           \A p \in Children' : kind'[p] \in Stoppable =>
                                  p \in Children /\ kind'[p] = kind[p]
    PROVE  StoredInv' /\ StopInv' /\ ErrInv'
<1>1. StoredInv'
  BY DEF AimInv, StoredInv
<1>2. StopInv'
  <2>1. \A n \in 1..Len(todo') : \E m \in 1..Len(todo) : todo'[n] = todo[m]
    <3>1. todo \in Seq(Calls)
      BY DEF AimInv, IInv, TypeOK
    <3>2. CASE todo' = todo
      BY <3>2
    <3>3. CASE todo # <<>> /\ todo' = Tail(todo)
      <4>1. /\ Len(todo') = Len(todo) - 1 /\ Len(todo) \in Nat
            /\ \A n \in 1..Len(todo') : todo'[n] = todo[n + 1]
        BY <3>1, <3>3
      <4>2. \A n \in 1..Len(todo') : n + 1 \in 1..Len(todo)
        BY <4>1
      <4> QED  BY <4>1, <4>2
    <3> QED  BY <3>2, <3>3
  <2> QED  BY <2>1 DEF AimInv, StopInv
<1>3. ErrInv'
  BY DEF AimInv, ErrInv, ErrPid
<1> QED  BY <1>1, <1>2, <1>3

LEMMA AimArrive ==
    ASSUME AimInv, NEW calls, Arrive(calls),
           \/ calls \in Seq(OtherCalls)
           \/ calls = <<Add("capture")>>
           \/ calls = <<Kill("capture")>> /\ capturing
    PROVE  StoredInv' /\ StopInv' /\ ErrInv'
<1> USE DEF mainVars, cbVars, procVars
<1>1. StoredInv'
  BY DEF AimInv, StoredInv, Arrive, Children
<1>2. StopInv'
  <2>1. todo' = calls /\ handle' = handle /\ cbPc = "idle"
    BY DEF Arrive
  <2>2. CASE calls \in Seq(OtherCalls)
    <3>1. \A n \in 1..Len(calls) : calls[n].what # "capture"
      BY <2>2 DEF OtherCalls
    <3> QED  BY <2>1, <3>1, CaptureCalls DEF StopInv
  <2>3. CASE calls = <<Add("capture")>>
    <3>1. \A n \in 1..Len(calls) : calls[n] = Add("capture")
      BY <2>3
    <3> QED  BY <2>1, <3>1, CaptureCalls DEF StopInv
  <2>4. CASE capturing
    BY <2>1, <2>4 DEF AimInv, CaptureInv, StopInv
  <2> QED  BY <2>2, <2>3, <2>4
<1>3. ErrInv'
  BY DEF AimInv, ErrInv, Arrive
<1> QED  BY <1>1, <1>2, <1>3

LEMMA AimHandler ==
    ASSUME AimInv, Handler
    PROVE  StoredInv' /\ StopInv' /\ ErrInv'
<1> USE DEF mainVars, cbVars, procVars
<1>1. CASE MessageDone \/ IncrementLoad \/ FifoOpen \/ FifoWrite
  BY <1>1, AimKept
     DEF MessageDone, IncrementLoad, FifoOpen, FifoWrite, Children, AimInv, IInv, CallInv
<1>2. CASE ForkChild
  <2>1. todo' = todo /\ handle' = handle /\ cbPc = "step" /\ cbPc' = "load"
    BY <1>2 DEF ForkChild
  <2>2. ASSUME NEW p \in Children', kind'[p] \in Stoppable, handle'[kind'[p]] = GroupPid
        PROVE  Head(todo').what = kind'[p]
    <3>1. kind \in [Pids -> Kinds] /\ Children \subseteq Pids
      BY DEF AimInv, IInv, TypeOK, Children
    <3>2. CASE p \in Children /\ kind'[p] = kind[p]
      BY <2>1, <2>2, <3>2 DEF AimInv, StoredInv
    <3>3. CASE ~(p \in Children /\ kind'[p] = kind[p])
      <4>1. p \in Free /\ kind' = [kind EXCEPT ![p] = Head(todo).what]
        BY <1>2, <3>1, <3>3 DEF ForkChild, Children, Free
      <4> QED  BY <2>1, <3>1, <4>1 DEF Free
    <3> QED  BY <3>2, <3>3
  <2>3. StopInv'
    BY <2>1 DEF AimInv, StopInv
  <2>4. ErrInv'
    <3>1. ~ForkMayFail => newPid' \in Pids
      BY <1>2 DEF ForkChild, Free
    <3> QED  BY <2>1, <3>1, PidsAssumption DEF AimInv, ErrInv
  <2> QED  BY <2>1, <2>2, <2>3, <2>4 DEF StoredInv
<1>3. CASE IncrementStore
  <2>1. /\ cbPc = "store" /\ cbPc' = "step" /\ todo' = Tail(todo) /\ todo # <<>>
        /\ newPid' = 0 /\ newPid # GroupPid /\ Children' = Children /\ kind' = kind
    BY <1>3 DEF IncrementStore, AimInv, IInv, CallInv, NewPidInv, Children
  <2>2. \A k \in Stoppable : handle'[k] = IF k = Head(todo).what THEN newPid ELSE handle[k]
    BY <1>3 DEF IncrementStore
  <2>3. StoredInv'
    BY <2>1, <2>2 DEF AimInv, StoredInv
  <2>4. StopInv'
    <3>1. "capture" \in Stoppable
      BY DEF Stoppable
    <3>2. handle'["capture"] = GroupPid => handle["capture"] = GroupPid
      BY <2>1, <2>2, <3>1
    <3>3. todo \in Seq(Calls)
      BY DEF AimInv, IInv, TypeOK
    <3>4. /\ Len(todo') = Len(todo) - 1 /\ Len(todo) \in Nat
          /\ \A n \in 1..Len(todo') : todo'[n] = todo[n + 1]
      BY <2>1, <3>3
    <3>5. \A n \in 1..Len(todo') : n + 1 \in 1..Len(todo)
      BY <3>4
    <3> QED  BY <3>2, <3>4, <3>5 DEF AimInv, StopInv
  <2>5. ErrInv'
    BY <2>1, <2>2 DEF AimInv, ErrInv, ErrPid
  <2> QED  BY <2>3, <2>4, <2>5
<1>4. CASE SystemFork
  <2>1. /\ handle' = handle /\ newPid' = newPid /\ cbPc = "step" /\ todo # <<>>
        /\ todo' = todo \/ todo' = Tail(todo)
    BY <1>4 DEF SystemFork
  <2>2. ASSUME NEW p \in Children', kind'[p] \in Stoppable
        PROVE  p \in Children /\ kind'[p] = kind[p]
    <3>1. "shell" \notin Stoppable /\ kind \in [Pids -> Kinds] /\ Children \subseteq Pids
      BY DEF Stoppable, AimInv, IInv, TypeOK, Children
    <3>2. CASE UNCHANGED <<alive, kind>>
      BY <1>4, <2>2, <3>2 DEF SystemFork, Children
    <3>3. ASSUME NEW q \in Free, alive' = alive \cup {q}, kind' = [kind EXCEPT ![q] = "shell"]
          PROVE  p \in Children /\ kind'[p] = kind[p]
      <4>1. p # q
        BY <2>2, <3>1, <3>3 DEF Free
      <4> QED  BY <1>4, <2>2, <3>1, <3>3, <4>1 DEF SystemFork, Children
    <3> QED  BY <1>4, <3>2, <3>3 DEF SystemFork
  <2> QED  BY <2>1, <2>2, AimKept
<1>5. CASE SystemReturn
  <2>1. /\ handle' = handle /\ newPid' = newPid /\ cbPc = "wait" /\ todo # <<>>
        /\ todo' = Tail(todo)
    BY <1>5 DEF SystemReturn, AimInv, IInv, CallInv
  <2>2. ASSUME NEW p \in Children', kind'[p] \in Stoppable
        PROVE  p \in Children /\ kind'[p] = kind[p]
    <3>1. "none" \notin Stoppable /\ kind \in [Pids -> Kinds] /\ Children \subseteq Pids
      BY DEF Stoppable, AimInv, IInv, TypeOK, Children
    <3> QED  BY <1>5, <2>2, <3>1 DEF SystemReturn, Forget, Children
  <2> QED  BY <2>1, <2>2, AimKept
<1> QED
  BY <1>1, <1>2, <1>3, <1>4, <1>5 DEF Handler

LEMMA AimStep == AimInv /\ [Next]_vars => AimInv'
<1> SUFFICES ASSUME AimInv, [Next]_vars PROVE StoredInv' /\ StopInv' /\ ErrInv'
  BY StepIInv, CaptureStep DEF AimInv
<1> USE DEF mainVars, cbVars, procVars
<1>1. CASE MessageArrive
  <2>1. PICK topic \in Topics \ {"audio_capture"} :
           \E calls \in CallsOf[topic] : Arrive(calls) /\ UNCHANGED capturing
    BY <1>1 DEF MessageArrive
  <2>2. PICK calls \in CallsOf[topic] : Arrive(calls)
    BY <2>1
  <2> QED  BY <2>2, OtherTopics, AimArrive
<1>2. CASE AudioCaptureArrive
  <2>1. <<>> \in Seq(OtherCalls)
    OBVIOUS
  <2> QED  BY <1>2, <2>1, AimArrive DEF AudioCaptureArrive
<1>3. CASE Handler
  BY <1>3, AimHandler
<1>4. CASE Programs
  <2>1. PICK p \in Pids : ShellEnds(p) \/ PlayerOpens(p) \/ ProgramEnds(p)
    BY <1>4 DEF Programs
  <2>2. UNCHANGED cbVars
    BY <2>1 DEF ShellEnds, PlayerOpens, ProgramEnds
  <2>3. Children' = Children /\ kind' = kind
    <3>1. CASE PlayerOpens(p)
      BY <3>1 DEF PlayerOpens, Children
    <3>2. CASE ShellEnds(p) \/ ProgramEnds(p)
      <4>1. PICK ps : Exit(ps)
        BY <3>2 DEF ShellEnds, ProgramEnds
      <4> QED  BY <4>1, ExitTables DEF AimInv, IInv
    <3> QED  BY <2>1, <3>1, <3>2
  <2> QED  BY <2>2, <2>3, AimKept
<1>5. CASE Main
  <2>1. UNCHANGED cbVars
    BY <1>5 DEF Main, Publish, Reap, NothingToReap, WaitError, SubtractLoad,
                SubtractStore
  <2>2. ASSUME NEW p \in Children', kind'[p] \in Stoppable
        PROVE  p \in Children /\ kind'[p] = kind[p]
    <3>1. "none" \notin Stoppable /\ kind \in [Pids -> Kinds] /\ Children \subseteq Pids
      BY DEF Stoppable, AimInv, IInv, TypeOK, Children
    <3> QED
      BY <1>5, <2>2, <3>1 DEF Main, Publish, Reap, Forget, NothingToReap, WaitError,
         SubtractLoad, SubtractStore, Children
  <2> QED  BY <2>1, <2>2, AimKept
<1>6. CASE Terminated \/ UNCHANGED vars
  BY <1>6, AimKept DEF Terminated, vars, Children
<1> QED
  BY <1>1, <1>2, <1>3, <1>4, <1>5, <1>6 DEF Next

(* A stop ends the hub itself only through the -1 of a failed fork, or by  *)
(* the 0 of the monitor or the touch program while no such program is      *)
(* there; a recording that has been started always has a pid stored.       *)
THEOREM HubStopsHaveCauses == Spec => HubStopHasCause
<1>1. ASSUME AimInv, [Next]_vars, Up, down' = "signal"
      PROVE  LET what == Head(todo).what IN
             \/ ForkMayFail /\ handle[what] = ErrPid
             \/ /\ what # "capture" /\ handle[what] = GroupPid
                /\ \A p \in Children : kind[p] # what
  <2> DEFINE what == Head(todo).what
  <2>1. PICK p \in Pids : ShellEnds(p)
    BY <1>1 DEF Next, MessageArrive, AudioCaptureArrive, Arrive, Handler, MessageDone,
       ForkChild, IncrementLoad, IncrementStore, SystemFork, SystemReturn, FifoOpen,
       FifoWrite, Programs, PlayerOpens, ProgramEnds, Main, Publish, Reap,
       NothingToReap, WaitError, SubtractLoad, SubtractStore, Terminated, vars, Up
  <2>2. cbPc = "wait" /\ todo # <<>> /\ todo \in Seq(Calls)
    BY <1>1, <2>1 DEF ShellEnds, AimInv, IInv, CallInv, TypeOK
  <2>3. Head(todo).call = "kill" /\ handle[what] \in {GroupPid, ErrPid}
    <3>1. Head(todo).call # "kill" => p \in {GroupPid, ErrPid}
      BY <1>1, <2>1 DEF ShellEnds, Up
    <3>2. Head(todo).call = "kill" => handle[what] \in {GroupPid, ErrPid}
      BY <1>1, <2>1 DEF ShellEnds, Up
    <3> QED  BY <3>1, <3>2, PidsAssumption
  <2>4. what \in Stoppable /\ Head(todo) = Kill(what)
    <3>1. Head(todo) \in Calls
      BY <2>2
    <3> QED  BY <2>3, <3>1 DEF Calls, Sys, Fifo, Kill, Add
  <2>5. CASE handle[what] = ErrPid
    BY <1>1, <2>4, <2>5, ForkAssumption DEF AimInv, ErrInv
  <2>6. CASE handle[what] = GroupPid
    <3>1. what # "capture"
      <4>1. 1 \in 1..Len(todo) /\ todo[1] = Head(todo)
        BY <2>2
      <4> QED  BY <1>1, <2>4, <2>6, <4>1 DEF AimInv, StopInv
    <3>2. \A q \in Children : kind[q] # what
      BY <1>1, <2>2, <2>4, <2>6 DEF AimInv, StoredInv
    <3> QED  BY <2>6, <3>1, <3>2
  <2> QED  BY <2>3, <2>5, <2>6
<1>2. Init => AimInv
  <2>1. Init => StoredInv /\ StopInv
    BY DEF Init, StoredInv, StopInv, Children
  <2>2. Init => ErrInv
    BY DEF Init, ErrInv, GroupPid, ErrPid
  <2> QED  BY <2>1, <2>2, InitIInv DEF AimInv, Init, CaptureInv
<1>3. AimInv /\ [Next]_vars =>
        [Up /\ down' = "signal" =>
           LET what == Head(todo).what IN
           \/ ForkMayFail /\ handle[what] = ErrPid
           \/ /\ what # "capture" /\ handle[what] = GroupPid
              /\ \A p \in Children : kind[p] # what]_vars
  BY <1>1
<1> QED  BY <1>2, <1>3, AimStep, PTL DEF Spec, HubStopHasCause
=============================================================================
