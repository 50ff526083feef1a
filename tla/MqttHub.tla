------------------------------- MODULE MqttHub -------------------------------
(***************************************************************************)
(* The message hub of 33_mqtt/mqttclient.c.  Two threads of one process    *)
(* share the plain int child_num:                                          *)
(*                                                                         *)
(*   - main publishes the temperature, polls waitpid(-1, WNOHANG) child_num *)
(*     times, subtracts what it reaped from child_num and sleeps;          *)
(*   - the MQTT library's receive thread runs messagearrive for one        *)
(*     message at a time; the handler runs shell commands with system()    *)
(*     and starts long-lived programs with add_child(), which increments   *)
(*     child_num.                                                          *)
(*                                                                         *)
(* Nothing protects child_num, so each update is a load and a store.       *)
(* waitpid(-1) makes no difference between a program of add_child and the  *)
(* shell that system() is waiting for.                                     *)
(*                                                                         *)
(* The catalogue of files (which names are known) is abstracted: whether a *)
(* play request finds its file is a choice of the environment.  /bin/sh -c *)
(* replaces itself with its single command, so the pid of add_child is the *)
(* pid of the program.                                                     *)
(***************************************************************************)
EXTENDS Integers, Sequences, FiniteSets

CONSTANTS
    Pids,         \* the process identifiers the kernel hands out
    ForkMayFail,  \* whether fork() may return -1
    Topics,       \* the topics messages arrive on
    MaxMsgs       \* bound: the number of messages delivered

ASSUME ForkAssumption == ForkMayFail \in BOOLEAN
ASSUME TopicsAssumption ==
    Topics \subseteq {"led", "audio_play", "audio_capture", "video_play",
                      "video_capture", "picture", "char", "touch"}
ASSUME MaxMsgsAssumption == MaxMsgs \in Nat

VARIABLES
    childNum,  \* child_num
    mainPc,    \* main: where the loop is
    i,         \* main: the loop index
    waited,    \* main: child_wait_num
    mainReg,   \* main: child_num as loaded for the subtraction
    cbPc,      \* receive thread: where messagearrive is
    todo,      \* receive thread: the calls left in this handler
    newPid,    \* receive thread: what fork() returned in add_child
    cbReg,     \* receive thread: child_num as loaded for the increment
    sysPid,    \* receive thread: the shell system() waits for
    handle,    \* audio_capture_pid, video_capture_pid, touch_pid
    capturing, \* audio_capture_status
    alive,     \* kernel: running children of the hub
    zombie,    \* kernel: terminated children not yet waited for
    kind,      \* kernel: what runs under a pid, "none" for a free pid
    readers,   \* kernel: children that hold input.txt open for reading
    down,      \* why the hub process has ended, "no" while it runs
    msgs       \* messages delivered so far (bound only)

mainVars == <<mainPc, i, waited, mainReg>>
cbVars   == <<cbPc, todo, newPid, cbReg, sysPid, handle, capturing>>
procVars == <<alive, zombie, kind, readers>>
vars     == <<childNum, mainVars, cbVars, procVars, down, msgs>>

GroupPid == 0    \* kill 0: the caller's whole process group
ErrPid   == -1   \* what fork() returns when it fails

(* A process identifier is never one of the two special values.            *)
ASSUME PidsAssumption == IsFiniteSet(Pids) /\ Pids \cap {GroupPid, ErrPid} = {}

Stoppable == {"capture", "monitor", "touch"}
JobKinds  == Stoppable \cup {"player", "other"}
Kinds     == JobKinds \cup {"shell", "none"}

(* The calls a handler makes: system(command), system("kill ... pid"),     *)
(* add_child(command) and a write to the control FIFO of the audio player. *)
Sys       == [call |-> "system", what |-> "shell"]
Kill(k)   == [call |-> "kill",   what |-> k]
Add(k)    == [call |-> "add",    what |-> k]
Fifo      == [call |-> "fifo",   what |-> "player"]
Calls     == {Sys, Fifo} \cup {Kill(k) : k \in Stoppable}
                         \cup {Add(k) : k \in JobKinds}

Free     == Pids \ (alive \cup zombie)
Up       == down = "no"
Children == alive \cup zombie
Jobs     == {p \in Children : kind[p] # "shell"}
-----------------------------------------------------------------------------
Init ==
    /\ childNum = 0
    /\ mainPc = "publish" /\ i = 0 /\ waited = 0 /\ mainReg = 0
    /\ cbPc = "idle" /\ todo = <<>> /\ newPid = 0 /\ cbReg = 0 /\ sysPid = 0
    /\ handle = [k \in Stoppable |-> GroupPid]
    /\ capturing = FALSE
    /\ alive = {} /\ zombie = {} /\ readers = {}
    /\ kind = [p \in Pids |-> "none"]
    /\ down = "no" /\ msgs = 0
-----------------------------------------------------------------------------
(***************************************************************************)
(* messagearrive: the branch on topic and payload, as the calls it makes.  *)
(***************************************************************************)
LedCalls          == {<<Sys>>, <<Sys, Sys>>, <<>>}
AudioPlayCalls    == {<<Fifo>>, <<Add("player")>>, <<Add("other")>>, <<>>}
VideoPlayCalls    == {<<Add("other")>>, <<>>}
VideoCaptureCalls == {<<Add("monitor")>>, <<Kill("monitor")>>,
                      <<Sys, Add("other")>>, <<>>}
PictureCalls      == {<<Sys>>, <<>>}
CharCalls         == {[n \in 1..7 |-> Sys], <<>>}
TouchCalls        == {<<Add("touch")>>, <<Kill("touch")>>, <<>>}

CallsOf == [led           |-> LedCalls,
            audio_play    |-> AudioPlayCalls,
            video_play    |-> VideoPlayCalls,
            video_capture |-> VideoCaptureCalls,
            picture       |-> PictureCalls,
            char          |-> CharCalls,
            touch         |-> TouchCalls]

Arrive(calls) ==
    /\ Up /\ cbPc = "idle" /\ msgs < MaxMsgs
    /\ msgs' = msgs + 1
    /\ cbPc' = "step"
    /\ todo' = calls
    /\ UNCHANGED <<childNum, mainVars, newPid, cbReg, sysPid, handle, procVars, down>>

MessageArrive ==
    \E topic \in Topics \ {"audio_capture"} :
        \E calls \in CallsOf[topic] : Arrive(calls) /\ UNCHANGED capturing

(* Mutant: the status flag is not looked at before a recording starts.     *)
CaptureIgnoringStatus ==
    /\ "audio_capture" \in Topics
    /\ \/ capturing' = TRUE /\ Arrive(<<Add("capture")>>)
       \/ capturing /\ capturing' = FALSE /\ Arrive(<<Kill("capture")>>)

(* The recorder: while no recording runs every payload starts one, even    *)
(* the stop word; while one runs only the stop word does anything.         *)
AudioCaptureArrive ==
    /\ "audio_capture" \in Topics
    /\ \/ ~capturing /\ capturing' = TRUE /\ Arrive(<<Add("capture")>>)
       \/ capturing /\ capturing' = FALSE /\ Arrive(<<Kill("capture")>>)
       \/ capturing /\ UNCHANGED capturing /\ Arrive(<<>>)

MessageDone ==
    /\ Up /\ cbPc = "step" /\ todo = <<>>
    /\ cbPc' = "idle"
    /\ UNCHANGED <<childNum, mainVars, todo, newPid, cbReg, sysPid, handle,
                   capturing, procVars, down, msgs>>
-----------------------------------------------------------------------------
(***************************************************************************)
(* add_child: fork, then child_num++, then the caller stores the pid.  The *)
(* increment and the store of the pid happen when fork failed as well.     *)
(***************************************************************************)
ForkChild ==
    /\ Up /\ cbPc = "step" /\ todo # <<>> /\ Head(todo).call = "add"
    /\ \/ \E p \in Free :
            /\ newPid' = p
            /\ alive' = alive \cup {p}
            /\ kind' = [kind EXCEPT ![p] = Head(todo).what]
       \/ /\ ForkMayFail
          /\ newPid' = ErrPid
          /\ UNCHANGED <<alive, kind>>
    /\ cbPc' = "load"
    /\ UNCHANGED <<childNum, mainVars, todo, cbReg, sysPid, handle, capturing,
                   zombie, readers, down, msgs>>

IncrementLoad ==
    /\ Up /\ cbPc = "load"
    /\ cbReg' = childNum
    /\ cbPc' = "store"
    /\ UNCHANGED <<childNum, mainVars, todo, newPid, sysPid, handle, capturing,
                   procVars, down, msgs>>

(* Mutant: the result of add_child is dropped by the caller.               *)
StoreWithoutPid ==
    /\ Up /\ cbPc = "store"
    /\ childNum' = cbReg + 1
    /\ todo' = Tail(todo)
    /\ cbPc' = "step" /\ newPid' = 0 /\ cbReg' = 0
    /\ UNCHANGED <<mainVars, sysPid, handle, capturing, procVars, down, msgs>>

(* Mutant: one variable holds the pid of whatever was started last.        *)
StoreSharedPid ==
    /\ Up /\ cbPc = "store"
    /\ childNum' = cbReg + 1
    /\ handle' = [k \in Stoppable |-> newPid]
    /\ todo' = Tail(todo)
    /\ cbPc' = "step" /\ newPid' = 0 /\ cbReg' = 0
    /\ UNCHANGED <<mainVars, sysPid, capturing, procVars, down, msgs>>

IncrementStore ==
    /\ Up /\ cbPc = "store"
    /\ childNum' = cbReg + 1
    /\ handle' = [k \in Stoppable |->
                    IF k = Head(todo).what THEN newPid ELSE handle[k]]
    /\ todo' = Tail(todo)
    /\ cbPc' = "step" /\ newPid' = 0 /\ cbReg' = 0
    /\ UNCHANGED <<mainVars, sysPid, capturing, procVars, down, msgs>>
-----------------------------------------------------------------------------
(***************************************************************************)
(* system(): fork a shell, wait for that pid.  Its result is ignored, so a *)
(* failed fork skips the command and a shell that main has reaped already  *)
(* (ECHILD) counts as done.                                                *)
(***************************************************************************)
SystemFork ==
    /\ Up /\ cbPc = "step" /\ todo # <<>> /\ Head(todo).call \in {"system", "kill"}
    /\ \/ \E p \in Free :
            /\ sysPid' = p
            /\ alive' = alive \cup {p}
            /\ kind' = [kind EXCEPT ![p] = "shell"]
            /\ cbPc' = "wait"
            /\ UNCHANGED todo
       \/ /\ ForkMayFail
          /\ todo' = Tail(todo)
          /\ UNCHANGED <<sysPid, alive, kind, cbPc>>
    /\ UNCHANGED <<childNum, mainVars, newPid, cbReg, handle, capturing, zombie,
                   readers, down, msgs>>

(* A successful wait: the kernel drops the zombie, its pid is free again.  *)
Forget(p) ==
    /\ zombie' = zombie \ {p}
    /\ kind' = [kind EXCEPT ![p] = "none"]

SystemReturn ==
    /\ Up /\ cbPc = "wait" /\ sysPid \notin alive
    /\ Forget(sysPid)
    /\ todo' = Tail(todo)
    /\ cbPc' = "step" /\ sysPid' = 0
    /\ UNCHANGED <<childNum, mainVars, newPid, cbReg, handle, capturing,
                   alive, readers, down, msgs>>

Exit(ps) ==
    /\ alive' = alive \ ps
    /\ zombie' = zombie \cup (alive \cap ps)
    /\ readers' = readers \ ps
    /\ UNCHANGED kind

(* The shell of system() runs its command and ends.  "kill -9 pid" and     *)
(* "kill -10 pid" end the program that has the pid now, if any; with pid 0 *)
(* or -1 the signal reaches the hub itself, which installs no handler.     *)
ShellEnds(p) ==
    /\ Up /\ cbPc = "wait" /\ p = sysPid /\ p \in alive
    /\ LET target == IF Head(todo).call = "kill" THEN handle[Head(todo).what] ELSE p
       IN  IF target \in {GroupPid, ErrPid}
           THEN /\ down' = "signal"
                /\ Exit(alive)
           ELSE /\ Exit({p, target})
                /\ UNCHANGED down
    /\ UNCHANGED <<childNum, mainVars, cbVars, msgs>>

(* The control FIFO: open(O_WRONLY) blocks until a player has it open; the *)
(* write that follows does not block and nobody looks at its result.       *)
FifoOpen ==
    /\ Up /\ cbPc = "step" /\ todo # <<>> /\ Head(todo).call = "fifo"
    /\ readers # {}
    /\ cbPc' = "write"
    /\ UNCHANGED <<childNum, mainVars, todo, newPid, cbReg, sysPid, handle,
                   capturing, procVars, down, msgs>>

FifoWrite ==
    /\ Up /\ cbPc = "write"
    /\ todo' = Tail(todo)
    /\ cbPc' = "step"
    /\ UNCHANGED <<childNum, mainVars, newPid, cbReg, sysPid, handle, capturing,
                   procVars, down, msgs>>
-----------------------------------------------------------------------------
(***************************************************************************)
(* The programs: a player opens the FIFO, any program ends by itself.      *)
(***************************************************************************)
PlayerOpens(p) ==
    /\ Up /\ p \in alive \ readers /\ kind[p] = "player"
    /\ readers' = readers \cup {p}
    /\ UNCHANGED <<childNum, mainVars, cbVars, alive, zombie, kind, down, msgs>>

ProgramEnds(p) ==
    /\ Up /\ p \in alive /\ kind[p] # "shell"
    /\ Exit({p})
    /\ UNCHANGED <<childNum, mainVars, cbVars, down, msgs>>
-----------------------------------------------------------------------------
(***************************************************************************)
(* main: publish, poll, subtract, sleep.                                   *)
(***************************************************************************)
Publish ==
    /\ Up /\ mainPc = "publish"
    /\ \/ mainPc' = "poll" /\ i' = 0 /\ UNCHANGED down
       \/ down' = "publish" /\ UNCHANGED <<mainPc, i>>
    /\ UNCHANGED <<childNum, waited, mainReg, cbVars, procVars, msgs>>

(* Mutant: child_wait_num++ is missing.                                    *)
ReapUncounted(p) ==
    /\ Up /\ mainPc = "poll" /\ i < childNum
    /\ p \in zombie
    /\ Forget(p)
    /\ i' = i + 1
    /\ UNCHANGED <<childNum, mainPc, waited, mainReg, cbVars, alive, readers, down, msgs>>

Reap(p) ==
    /\ Up /\ mainPc = "poll" /\ i < childNum
    /\ p \in zombie
    /\ Forget(p)
    /\ waited' = waited + 1
    /\ i' = i + 1
    /\ UNCHANGED <<childNum, mainPc, mainReg, cbVars, alive, readers, down, msgs>>

(* Mutant: waitpid without WNOHANG blocks instead of returning 0.          *)
NothingToReapBlocks == FALSE

(* Mutant: waitpid asks for one pid, other programs that ended are ignored.*)
NothingToReapOnePid ==
    /\ Up /\ mainPc = "poll" /\ i < childNum
    /\ Children # {}
    /\ i' = i + 1
    /\ UNCHANGED <<childNum, mainPc, waited, mainReg, cbVars, procVars, down, msgs>>

NothingToReap ==
    /\ Up /\ mainPc = "poll" /\ i < childNum
    /\ zombie = {} /\ alive # {}
    /\ i' = i + 1
    /\ UNCHANGED <<childNum, mainPc, waited, mainReg, cbVars, procVars, down, msgs>>

(* Mutant: the loop runs once too often.                                   *)
WaitErrorOffByOne ==
    /\ Up /\ mainPc = "poll" /\ i <= childNum
    /\ Children = {}
    /\ down' = "wait"
    /\ UNCHANGED <<childNum, mainVars, cbVars, procVars, msgs>>

(* waitpid() < 0 because the hub has no child at all: main gives up.       *)
WaitError ==
    /\ Up /\ mainPc = "poll" /\ i < childNum
    /\ Children = {}
    /\ down' = "wait"
    /\ UNCHANGED <<childNum, mainVars, cbVars, procVars, msgs>>

SubtractLoad ==
    /\ Up /\ mainPc = "poll" /\ i >= childNum
    /\ mainReg' = childNum
    /\ mainPc' = "subtract" /\ i' = 0
    /\ UNCHANGED <<childNum, waited, cbVars, procVars, down, msgs>>

SubtractStore ==
    /\ Up /\ mainPc = "subtract"
    /\ childNum' = mainReg - waited
    /\ waited' = 0
    /\ mainPc' = "publish" /\ mainReg' = 0
    /\ UNCHANGED <<i, cbVars, procVars, down, msgs>>
-----------------------------------------------------------------------------
Main == Publish \/ (\E p \in Pids : Reap(p)) \/ NothingToReap \/ WaitError
        \/ SubtractLoad \/ SubtractStore

(* The steps of a handler that has begun.                                  *)
Handler == MessageDone \/ ForkChild \/ IncrementLoad \/ IncrementStore
           \/ SystemFork \/ SystemReturn \/ FifoOpen \/ FifoWrite

Programs == \E p \in Pids : ShellEnds(p) \/ PlayerOpens(p) \/ ProgramEnds(p)

Terminated == ~Up /\ UNCHANGED vars

Next == MessageArrive \/ AudioCaptureArrive \/ Handler \/ Programs \/ Main
        \/ Terminated

Spec == Init /\ [][Next]_vars

(* The kernel schedules both threads, and the short commands of system()   *)
(* come to an end; programs may run for ever.                              *)
Fairness == /\ WF_vars(Main)
            /\ WF_vars(Handler)
            /\ WF_vars(\E p \in Pids : ShellEnds(p))

FairSpec == Spec /\ Fairness
-----------------------------------------------------------------------------
TypeOK ==
    /\ childNum \in Int
    /\ mainPc \in {"publish", "poll", "subtract"}
    /\ i \in Nat /\ waited \in Nat /\ mainReg \in Int
    /\ cbPc \in {"idle", "step", "load", "store", "wait", "write"}
    /\ todo \in Seq(Calls)
    /\ newPid \in Pids \cup {GroupPid, ErrPid}
    /\ cbReg \in Int
    /\ sysPid \in Pids \cup {GroupPid}
    /\ handle \in [Stoppable -> Pids \cup {GroupPid, ErrPid}]
    /\ capturing \in BOOLEAN
    /\ alive \subseteq Pids /\ zombie \subseteq Pids
    /\ kind \in [Pids -> Kinds]
    /\ readers \subseteq alive
    /\ down \in {"no", "publish", "wait", "signal"}
    /\ msgs \in Nat

(* mqttclient.c:84 and :560 update child_num from two threads without a    *)
(* lock.  Whatever the interleaving, an increment is never computed from a *)
(* value below the present one and the subtraction never takes more than   *)
(* was there: the counter does not become negative, so the loop at :549    *)
(* can not be disabled for good by an underflow.                           *)
NeverNegative == childNum >= 0

(* The number of started programs that child_num should still account for: *)
(* those not reaped, plus those reaped but not yet subtracted, minus the   *)
(* one forked but not yet counted.                                         *)
Counted == Cardinality(Jobs) + waited - (IF cbPc \in {"load", "store"} THEN 1 ELSE 0)

Drift == childNum - Counted

StaleStore == \/ cbPc = "store" /\ cbPc' = "step" /\ cbReg # childNum
              \/ mainPc = "subtract" /\ mainPc' = "publish" /\ mainReg # childNum
ForkFailed == cbPc = "step" /\ cbPc' = "load" /\ newPid' = ErrPid
Theft      == \E p \in zombie \ zombie' : kind[p] = "shell" /\ waited' = waited + 1

(* The ledger goes wrong in three ways only: a store computed from a stale *)
(* load, a fork that failed and was counted all the same, and main reaping *)
(* the shell of a system() call.  Every other step of either thread keeps  *)
(* child_num in agreement with the programs that exist.                    *)
DriftHasCause ==
    [][Up' /\ Drift' # Drift => StaleStore \/ ForkFailed \/ Theft]_vars

(* When main gives up at mqttclient.c:552 because waitpid fails, child_num *)
(* counted a program that never existed or was reaped long ago.            *)
WaitErrorMeansOvercount == [][down' = "wait" /\ Up => Drift > 0]_vars

(* What a stop may do to the hub itself.  A stored pid is passed to kill   *)
(* unseen: 0, stored before any start, is the hub's own process group, and *)
(* -1, stored by a fork that failed, is everybody.  The first is reached   *)
(* by a stop of the monitor or of the touch program only, and only while   *)
(* no such program is there; audio_capture_status keeps a stop from coming *)
(* before a recording has been started, so that a recording takes the hub  *)
(* down by a failed fork alone.                                            *)
HubStopHasCause ==
    [][Up /\ down' = "signal" =>
         LET what == Head(todo).what IN
         \/ ForkMayFail /\ handle[what] = ErrPid
         \/ /\ what # "capture" /\ handle[what] = GroupPid
            /\ \A p \in Children : kind[p] # what]_vars

(* The status flag makes recordings exclusive as long as fork succeeds:    *)
(* at most one recorder holds the capture device.                          *)
Recorders   == {p \in alive : kind[p] = "capture"}
OneRecorder == Cardinality(Recorders) <= 1

(* Stopping a recording ends no other program, unless the recorder had     *)
(* already ended and been reaped so that its pid was free for another one. *)
StopHitsRecorder ==
    [][\A p \in alive \ alive' :
          (/\ cbPc = "wait" /\ p # sysPid /\ sysPid \in alive \ alive'
           /\ Head(todo) = Kill("capture") /\ Up')
          => (kind[p] = "capture" \/ Recorders = {})]_vars

(* A program that has ended is reaped, unless the ledger undercounts.      *)
ZombieReaped ==
    \A p \in Pids : (p \in zombie) ~> (p \notin zombie \/ ~Up \/ Drift < 0)

(* Temperature reports go on whatever the receive thread is blocked in.    *)
TemperatureFlows == []<>(mainPc = "publish" \/ ~Up)
=============================================================================
