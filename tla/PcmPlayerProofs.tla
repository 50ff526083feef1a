--------------------------- MODULE PcmPlayerProofs ---------------------------
(***************************************************************************)
(* Proofs about PcmPlayer and PcmRecorder for every period, ring buffer    *)
(* and length of file.                                                     *)
(***************************************************************************)
EXTENDS MCPcmPlayer, SequenceTheorems, TLAPS

(* Where main is: before the first write, at work, and with buf in use.    *)
SetUpPcs == {"wav", "pcm", "pollinit", "mixer", "block", "malloc", "tty"}
WorkPcs  == {"check", "read", "write", "poll", "sleep", "unblock", "keys", "pause", "resume"}
BufPcs   == WorkPcs \union {"tty", "drop", "free"}

(* Where the handler may interrupt it.                                     *)
OpenTo(p) == IF p = "async" THEN {"sleep"} ELSE {"keys", "pause", "resume", "drop", "free"}

(* The players with keys neither poll nor sleep.                           *)
MainPlaces(p) == IF p \in Keyed THEN (SetUpPcs \union BufPcs \union {"close"}) \ {"poll", "sleep"}
                                ELSE SetUpPcs \union BufPcs \union {"close"}

(* The terminal is changed only where the way out leads past err1 or err2. *)
TtyInv ==
    /\ tty # "cooked" =>
         /\ prog \in Keyed
         /\ mpc \in {"check", "read", "write", "unblock", "keys", "pause", "resume", "drop"}
    /\ TerminalRestored

(* Signals come only when the stream has been started, the mask keeps the  *)
(* handler from the loops of main, and the stream is stopped before buf is *)
(* freed.                                                                  *)
PlaceInv ==
    /\ prog \in {"playback", "poll"} \union Async
    /\ mpc \in MainPlaces(prog)
    /\ hpc \in {"none", "check", "read", "write"}
    /\ pending \/ hpc # "none" => prog \in Async /\ dev # "prepared"
    /\ mpc \in SetUpPcs => dev = "prepared"
    /\ prog \in Keyed =>
         /\ mpc \in {"malloc", "tty", "check", "read", "write", "unblock"} => blocked
         /\ mpc \in {"free", "close"} => dev \in {"prepared", "stopped"}
         /\ mpc = "close" => ~Deliverable
    /\ Live => /\ mpc \in WorkPcs => dev # "stopped"
               /\ mpc \in BufPcs => bufState = "malloced"
               /\ hpc # "none" => mpc \in OpenTo(prog) /\ ~blocked

(* The ring is empty unless the stream runs or is paused.                  *)
RingInv ==
    /\ dev \in {"prepared", "running", "paused", "xrun", "stopped"}
    /\ ring \in Seq(Nat) /\ played \in Seq(Nat)
    /\ Len(ring) <= Buffer
    /\ dev \in {"running", "paused"} <=> ring # <<>>
    /\ mpc = "read" /\ prog # "playback" => Len(ring) + Period <= Buffer
    /\ hpc = "read" => Len(ring) + Period <= Buffer

Written == Len(played) + Len(ring)

(* The next ret frames of the file are in buf.                             *)
InHand(ret) == /\ ret \in 1..Period
               /\ pos = Written + ret
               /\ \A n \in 1..ret : buf[n] = Written + n

(* The file has been read as far as it is written to the ring, but for     *)
(* what main or the handler, never both, is about to write.                *)
PosInv ==
    /\ len \in Nat /\ pos \in Nat /\ pos <= len
    /\ buf \in [1..Period -> Nat]
    /\ Live /\ dev # "stopped" =>
         /\ mpc = "write" => InHand(mret)
         /\ hpc = "write" => InHand(hret)
         /\ mpc \in (SetUpPcs \union BufPcs) \ {"write", "free"} /\ hpc # "write"
                /\ ~(mpc = "drop" /\ blocked) => pos = Written

OrderInv ==
    /\ \A n \in 1..Len(played) : played[n] = n
    /\ \A n \in 1..Len(ring) : ring[n] = Len(played) + n

TailInv ==
    cause = "eof" \/ ended = "eof"
        => len - Len(played) <= Buffer - (IF prog = "playback" THEN 0 ELSE Period)

PInv == PlaceInv /\ RingInv /\ PosInv /\ OrderInv /\ TailInv

IInv == TtyInv /\ (Unprotected \/ PInv)

LEMMA InitPInv == Init => TtyInv /\ PInv
<1> SUFFICES ASSUME Init PROVE TtyInv /\ PInv
  OBVIOUS
<1>1. <<>> \in Seq(Nat) /\ Len(<<>>) = 0
  OBVIOUS
<1>2. TtyInv
  BY DEF Init, TtyInv, TerminalRestored, Live
<1>3. PlaceInv
  BY ProgramAssumption
     DEF Init, PlaceInv, MainPlaces, SetUpPcs, WorkPcs, BufPcs, Async, Keyed, Live, Deliverable
<1>4. RingInv
  BY <1>1, BufferAssumption DEF Init, RingInv
<1>5. PosInv
  BY <1>1, LensAssumption DEF Init, PosInv, Silence, Written
<1>6. OrderInv /\ TailInv
  BY <1>1 DEF Init, OrderInv, TailInv
<1> QED  BY <1>2, <1>3, <1>4, <1>5, <1>6 DEF PInv
-----------------------------------------------------------------------------
(***************************************************************************)
(* The steps, each as it is in all the programs that have it.              *)
(***************************************************************************)
AllPrograms == {"playback", "poll"} \union Async

SettingUp(p) == \E at \in {"wav", "pcm", "pollinit"}, next \in {"pcm", "pollinit", "mixer", "block", "malloc"} :
                    SetUp(p, at, next) /\ (p \in Keyed => next # "malloc")
Allocates(p) == \E next \in {"read", "poll", "check", "tty"} :
                    /\ Malloc(p, next)
                    /\ p \in Keyed <=> next = "tty"
                    /\ p = "playback" <=> next = "read"
Checks(p)    == \E full \in {"poll", "sleep", "unblock"} :
                    Check(p, full) /\ p # "playback" /\ (p \in Keyed => full = "unblock")
Writes(p)    == \E next \in {"read", "check"} : MainWrite(p, next) /\ (p # "playback" => next = "check")
Ends(p)      == Free(p) \/ Close(p)

OfKeyed(p) == \/ Block(p) \/ SetTerminal(p) \/ MixerInit(p) \/ Unblock(p) \/ KeyQuit(p) \/ KeySpace(p)
              \/ Pause(p) \/ Resume(p) \/ KeyVolume(p, 1) \/ KeyVolume(p, -1) \/ Drop(p)

LEMMA StepCases ==
    ASSUME Next
    PROVE  \/ \E p \in AllPrograms : SettingUp(p) \/ Allocates(p) \/ Checks(p) \/ MainRead(p)
                                     \/ Writes(p) \/ Ends(p)
           \/ PollWait
           \/ \E p \in Keyed : OfKeyed(p)
           \/ \E p \in Async : Handler(p)
           \/ PlayFrame
           \/ UNCHANGED vars
<1> USE DEF SettingUp, Allocates, Checks, Writes, Ends, OfKeyed, AllPrograms, Async, Keyed
<1>1. CASE Playback
  BY <1>1 DEF Playback, PlaybackWav, PlaybackPcm, PlaybackMalloc, PlaybackRead, PlaybackWrite
<1>2. CASE Poll
  BY <1>2 DEF Poll, PollWav, PollPcm, PollInit, PollMalloc, PollCheck, PollRead, PollWrite
<1>3. CASE AsyncMain
  BY <1>3 DEF AsyncMain, AsyncWav, AsyncPcm, AsyncMalloc, AsyncCheck, AsyncRead, AsyncWrite,
     AsyncSleep
<1>4. CASE CtlMain
  BY <1>4 DEF CtlMain, CtlWav, CtlPcm, CtlBlock, CtlMalloc, CtlTerminal, CtlCheck, CtlRead,
     CtlWrite, CtlUnblock, CtlToggle, CtlEnd
<1>5. CASE MixerMain
  BY <1>5 DEF MixerMain, MixerWav, MixerPcm, MixerMixer, MixerBlock, MixerMalloc, MixerTerminal,
     MixerCheck, MixerRead, MixerWrite, MixerUnblock, MixerToggle, MixerEnd
<1>6. CASE MqttMain
  BY <1>6 DEF MqttMain, MqttWav, MqttPcm, MqttMixer, MqttBlock, MqttMalloc, MqttTerminal,
     MqttCheck, MqttRead, MqttWrite, MqttUnblock, MqttToggle, MqttEnd
<1>7. CASE EndWithoutKeys
  BY <1>7, ProgramAssumption DEF EndWithoutKeys
<1>8. CASE Keys
  BY <1>8 DEF Keys, CtlKeys, MixerKeys, MqttKeys
<1>9. CASE Callback
  BY <1>9 DEF Callback, AsyncCallback, CtlCallback, MixerCallback, MqttCallback
<1> QED
  BY <1>1, <1>2, <1>3, <1>4, <1>5, <1>6, <1>7, <1>8, <1>9 DEF Next, Main, Terminated

(* The invariant says nothing of a few variables, and nothing changes when *)
(* only they do.                                                           *)
LEMMA Unchanged ==
    ASSUME TtyInv, PInv, UNCHANGED vars
    PROVE  TtyInv' /\ PInv'
BY DEF TtyInv, PInv, PlaceInv, RingInv, PosInv, OrderInv, TailInv, Written, InHand, Live,
       TerminalRestored, Deliverable, vars, fileVars, mainVars, handlerVars, devVars, userVars

(* Setting up leaves file and ring alone.                                  *)
LEMMA SetUpPInv ==
    ASSUME TtyInv, PInv, NEW p \in AllPrograms, SettingUp(p) \/ Allocates(p)
    PROVE  TtyInv' /\ PInv'
<1>1. /\ UNCHANGED <<prog, len, pos, buf, mret, blocked, handlerVars, pending, devVars, userVars>>
      /\ prog = p /\ Live /\ hpc = "none" /\ mpc \in SetUpPcs
      /\ \/ mpc' \in {"pcm", "pollinit", "mixer", "block", "malloc"}
              /\ (p \in Keyed => mpc' # "malloc")
         \/ ended' = "setup" /\ mpc' = mpc
         \/ mpc' = "close" /\ ended' = ended
         \/ mpc = "malloc" /\ mpc' \in {"read", "poll", "check", "tty"} /\ bufState' = "malloced"
              /\ (p \in Keyed <=> mpc' = "tty") /\ (p = "playback" <=> mpc' = "read")
      /\ cause' \in {cause, "error"}
      /\ ended' \in {ended, "setup"}
  BY DEF SettingUp, Allocates, SetUp, Malloc, At, SetUpPcs, fileVars
<1>2. dev = "prepared" /\ ~pending /\ ring = <<>>
  BY <1>1 DEF PInv, PlaceInv, RingInv
<1>3. TtyInv'
  BY <1>1 DEF TtyInv, TerminalRestored, Live, userVars, SetUpPcs
<1>4. PlaceInv'
  BY <1>1, <1>2 DEF PInv, PlaceInv, MainPlaces, SetUpPcs, WorkPcs, BufPcs, Live, Deliverable,
      handlerVars, devVars
<1>5. RingInv'
  BY <1>1, <1>2, BufferAssumption, PeriodAssumption DEF PInv, RingInv, handlerVars, devVars
<1>6. PosInv'
  BY <1>1, <1>2 DEF PInv, PosInv, RingInv, InHand, Written, SetUpPcs, BufPcs, WorkPcs, Live,
      handlerVars, devVars
<1>7. OrderInv' /\ TailInv'
  BY <1>1 DEF PInv, OrderInv, TailInv, handlerVars, devVars
<1> QED  BY <1>3, <1>4, <1>5, <1>6, <1>7 DEF PInv

(* A look at the free space: the error code is taken for room.             *)
LEMMA RefillableRoom ==
    ASSUME RingInv, Refillable
    PROVE  Len(ring) + Period <= Buffer
<1>1. CASE dev = "xrun"
  BY <1>1, BufferAssumption, PeriodAssumption DEF RingInv
<1>2. CASE dev # "xrun"
  <2>1. Buffer - Len(ring) \in 0..UIntMod - 1
    BY BufferAssumption, UIntAssumption, PeriodAssumption DEF RingInv, EPIPE
  <2>2. (Buffer - Len(ring)) % UIntMod = Buffer - Len(ring)
    BY <2>1, UIntAssumption, BufferAssumption
  <2> QED  BY <1>2, <2>1, <2>2, BufferAssumption, PeriodAssumption DEF RingInv, Refillable,
      AvailUpdate
<1> QED  BY <1>1, <1>2

LEMMA CheckPInv ==
    ASSUME TtyInv, PInv, NEW p \in AllPrograms, Checks(p)
    PROVE  TtyInv' /\ PInv'
<1>1. /\ UNCHANGED <<fileVars, mret, cause, blocked, handlerVars, pending, devVars, userVars,
                     ended>>
      /\ prog = p /\ p # "playback" /\ Live /\ hpc = "none" /\ mpc = "check"
      /\ mpc' \in {"read", "poll", "sleep", "unblock"}
      /\ p \in Keyed => mpc' \in {"read", "unblock"}
      /\ mpc' = "read" => Refillable
  BY DEF Checks, Check, At
<1>2. TtyInv'
  BY <1>1 DEF TtyInv, TerminalRestored, Live, userVars, fileVars
<1>4. PlaceInv'
  BY <1>1 DEF PInv, PlaceInv, MainPlaces, SetUpPcs, WorkPcs, BufPcs, Live, Deliverable,
      handlerVars, devVars, fileVars
<1>5. RingInv'
  BY <1>1, RefillableRoom DEF PInv, RingInv, handlerVars, devVars, fileVars
<1>6. PosInv'
  BY <1>1 DEF PInv, PosInv, RingInv, InHand, Written, SetUpPcs, BufPcs, WorkPcs, Live,
      handlerVars, devVars, fileVars
<1>7. OrderInv' /\ TailInv'
  BY <1>1 DEF PInv, OrderInv, TailInv, handlerVars, devVars, fileVars
<1> QED  BY <1>2, <1>4, <1>5, <1>6, <1>7 DEF PInv

(* A period, or what is left of the file, comes into buf.                  *)
LEMMA ReadFrames ==
    ASSUME PosInv, pos = Written, NEW ret, Read(ret), ~AtEof, RingInv,
           UNCHANGED <<ring, played>>
    PROVE  /\ InHand(ret)'
           /\ pos' \in Nat /\ pos' <= len /\ len' = len
           /\ buf' \in [1..Period -> Nat]
<1>1. ret \in 1..Period /\ ret <= len - pos
  BY PeriodAssumption DEF PosInv, Read, Least, AtEof
<1>2. Written \in Nat /\ Written' = Written
  BY DEF RingInv, Written
<1>3. pos' = pos + ret /\ len' = len
  BY DEF Read
<1>4. buf' = [n \in 1..Period |-> IF n <= ret THEN pos + n ELSE 0]
  BY DEF Read
<1>5. pos \in Nat /\ len \in Nat
  BY DEF PosInv
<1>6. \A n \in 1..ret : buf'[n] = Written + n
  BY <1>1, <1>4, PeriodAssumption
<1>7. buf' \in [1..Period -> Nat]
  BY <1>1, <1>4, <1>5, PeriodAssumption
<1> QED  BY <1>1, <1>2, <1>3, <1>5, <1>6, <1>7 DEF InHand

(* What the card accepts goes on where the ring ends, and the rest is      *)
(* given back.                                                             *)
LEMMA WriteFrames ==
    ASSUME PosInv, RingInv, OrderInv, NEW ret, InHand(ret), NEW n \in 1..Period, Write(n, ret)
    PROVE  /\ OrderInv' /\ pos' = Written'
           /\ pos' \in Nat /\ pos' <= len /\ len' = len /\ buf' = buf
           /\ ring' \in Seq(Nat) /\ ring' # <<>> /\ Len(ring') <= Buffer
           /\ played' = played /\ prog' = prog /\ bufState' = bufState
<1> DEFINE add == SubSeq(buf, 1, n)
<1>1. n \in 1..ret /\ ret <= Period /\ ret \in Nat /\ n \in Nat
  BY PeriodAssumption DEF Write, InHand
<1>2. buf \in Seq(Nat) /\ Len(buf) = Period
  BY PeriodAssumption DEF PosInv
<1>3. /\ add \in Seq(Nat) /\ Len(add) = n
      /\ \A i \in 1..n : add[i] = buf[i]
  BY <1>1, <1>2, PeriodAssumption
<1>4. ring' = ring \o add /\ ring \in Seq(Nat) /\ played \in Seq(Nat)
  BY DEF Write, RingInv
<1>5. /\ ring' \in Seq(Nat) /\ Len(ring') = Len(ring) + n
      /\ \A i \in 1..Len(ring) : ring'[i] = ring[i]
      /\ \A i \in 1..n : ring'[Len(ring) + i] = add[i]
  <2> HIDE DEF add
  <2>1. /\ ring \o add \in Seq(Nat) /\ Len(ring \o add) = Len(ring) + Len(add)
        /\ \A i \in 1..Len(ring) + Len(add) :
              (ring \o add)[i] = IF i <= Len(ring) THEN ring[i] ELSE add[i - Len(ring)]
    BY <1>3, <1>4, ConcatProperties
  <2>2. Len(ring) \in Nat
    BY <1>4
  <2> QED  BY <1>1, <1>3, <1>4, <2>1, <2>2
<1>6. \A i \in 1..Len(ring') : ring'[i] = Len(played) + i
  <2> SUFFICES ASSUME NEW i \in 1..Len(ring') PROVE ring'[i] = Len(played) + i
    OBVIOUS
  <2> HIDE DEF add
  <2>1. CASE i <= Len(ring)
    BY <1>5, <2>1, <1>4 DEF OrderInv
  <2>2. CASE i > Len(ring)
    <3> DEFINE j == i - Len(ring)
    <3>1. j \in 1..n /\ i = Len(ring) + j
      BY <1>1, <1>4, <1>5, <2>2
    <3>2. ring'[i] = buf[j]
      BY <1>3, <1>5, <3>1
    <3>3. buf[j] = Len(played) + Len(ring) + j
      BY <1>1, <3>1 DEF InHand, Written
    <3> QED  BY <1>4, <3>1, <3>2, <3>3
  <2> QED  BY <1>4, <1>5, <2>1, <2>2
<1>7. OrderInv'
  BY <1>6 DEF OrderInv, Write
<1>8. pos' = pos - (ret - n) /\ Len(ring) + n <= Buffer
  BY DEF Write
<1>9. pos' = Written' /\ pos' \in Nat /\ pos' <= len
  BY <1>1, <1>4, <1>5, <1>8 DEF InHand, Written, PosInv, Write
<1>10. ring' # <<>>
  <2>1. Len(ring') # 0
    BY <1>1, <1>4, <1>5
  <2>2. Len(<<>>) = 0
    OBVIOUS
  <2> QED  BY <2>1, <2>2
<1> QED  BY <1>5, <1>7, <1>8, <1>9, <1>10 DEF Write

LEMMA MainReadPInv ==
    ASSUME TtyInv, PInv, NEW p \in AllPrograms, MainRead(p)
    PROVE  TtyInv' /\ PInv'
<1>1. /\ UNCHANGED <<blocked, handlerVars, pending, devVars, userVars, ended>>
      /\ prog = p /\ Live /\ hpc = "none" /\ mpc = "read"
  BY DEF MainRead, At
<1>2. pos = Written /\ dev # "stopped"
  BY <1>1 DEF PInv, PosInv, PlaceInv, BufPcs, WorkPcs
<1>3. CASE ~AtEof /\ Read(mret') /\ mpc' = "write" /\ UNCHANGED cause
  <2>1. prog' = prog /\ bufState' = bufState
    BY <1>3 DEF Read
  <2>2. TtyInv'
    BY <1>1, <1>3, <2>1 DEF TtyInv, TerminalRestored, Live, userVars
  <2>3. PlaceInv'
    BY <1>1, <1>3, <2>1 DEF PInv, PlaceInv, MainPlaces, SetUpPcs, WorkPcs, BufPcs, Live,
        Deliverable, handlerVars, devVars
  <2>4. RingInv'
    BY <1>1, <1>3 DEF PInv, RingInv, handlerVars, devVars
  <2>5. PosInv'
    BY <1>1, <1>2, <1>3, ReadFrames DEF PInv, PosInv, handlerVars, devVars
  <2>6. OrderInv' /\ TailInv'
    BY <1>1, <1>3, <2>1 DEF PInv, OrderInv, TailInv, handlerVars, devVars, Read
  <2> QED  BY <2>2, <2>3, <2>4, <2>5, <2>6 DEF PInv
<1>4. CASE ((AtEof /\ Leave(p, "eof")) \/ Leave(p, "error")) /\ UNCHANGED <<fileVars, mret>>
  <2>1. /\ mpc' = IF p \in Keyed THEN "drop" ELSE "free"
        /\ (cause' = "eof" /\ AtEof) \/ cause' = "error"
    BY <1>4 DEF Leave
  <2>2. TtyInv'
    BY <1>1, <1>4, <2>1 DEF TtyInv, TerminalRestored, Live, userVars, fileVars
  <2>3. PlaceInv'
    BY <1>1, <1>4, <2>1 DEF PInv, PlaceInv, MainPlaces, SetUpPcs, WorkPcs, BufPcs, Live,
        Deliverable, handlerVars, devVars, fileVars
  <2>4. RingInv'
    BY <1>1, <1>4, <2>1 DEF PInv, RingInv, handlerVars, devVars, fileVars
  <2>5. PosInv'
    <3>1. mpc = "read" /\ (p \in Keyed => blocked)
      BY <1>1 DEF PInv, PlaceInv
    <3> QED  BY <1>1, <1>4, <2>1, <3>1 DEF PInv, PosInv, BufPcs, WorkPcs, SetUpPcs, Written,
        handlerVars, devVars, fileVars
  <2>6. OrderInv'
    BY <1>1, <1>4 DEF PInv, OrderInv, handlerVars, devVars, fileVars
  <2>7. TailInv'
    <3>1. cause' = "eof" => len = Len(played) + Len(ring)
      BY <1>2, <2>1 DEF AtEof, Written
    <3>2. Len(ring) <= Buffer - (IF prog = "playback" THEN 0 ELSE Period)
      BY <1>1, PeriodAssumption, BufferAssumption DEF PInv, RingInv
    <3>3. cause' = "eof" => len - Len(played) = Len(ring)
      BY <3>1 DEF PInv, RingInv
    <3>4. prog' = prog /\ len' = len /\ played' = played /\ ended' # "eof"
      BY <1>1, <1>4 DEF Live, devVars, fileVars
    <3>5. cause' = "eof" => len - Len(played) <= Buffer - (IF prog = "playback" THEN 0 ELSE Period)
      BY <3>2, <3>3
    <3> QED  BY <3>4, <3>5 DEF TailInv
  <2> QED  BY <2>2, <2>3, <2>4, <2>5, <2>6, <2>7 DEF PInv
<1> QED  BY <1>3, <1>4 DEF MainRead

LEMMA MainWritePInv ==
    ASSUME TtyInv, PInv, NEW p \in AllPrograms, Writes(p)
    PROVE  TtyInv' /\ PInv'
<1>1. /\ UNCHANGED <<mret, blocked, handlerVars, pending, userVars, ended>>
      /\ prog = p /\ Live /\ hpc = "none" /\ mpc = "write"
  BY DEF Writes, MainWrite, At
<1>3. ASSUME NEW n \in 1..Period, Writable, Write(n, mret), mpc' \in {"read", "check"},
             p # "playback" => mpc' = "check", UNCHANGED cause
      PROVE  TtyInv' /\ PInv'
  <2>1. InHand(mret)
    BY <1>1 DEF PInv, PosInv, PlaceInv, WorkPcs
  <2>2. /\ OrderInv' /\ pos' = Written'
        /\ pos' \in Nat /\ pos' <= len /\ len' = len /\ buf' = buf
        /\ ring' \in Seq(Nat) /\ ring' # <<>> /\ Len(ring') <= Buffer
        /\ played' = played /\ prog' = prog /\ bufState' = bufState
    BY <1>3, <2>1, WriteFrames DEF PInv
  <2>3. dev' \in {"running", "paused"}
    BY <1>3 DEF Write, Writable
  <2>4. TtyInv'
    BY <1>1, <1>3, <2>2 DEF TtyInv, TerminalRestored, Live, userVars
  <2>5. PlaceInv'
    BY <1>1, <1>3, <2>2, <2>3 DEF PInv, PlaceInv, MainPlaces, SetUpPcs, WorkPcs, BufPcs, Live,
        Deliverable, handlerVars
  <2>6. RingInv'
    BY <1>1, <1>3, <2>2, <2>3 DEF PInv, RingInv, handlerVars
  <2>7. PosInv'
    BY <1>1, <1>3, <2>2 DEF PInv, PosInv, handlerVars
  <2>8. TailInv'
    BY <1>1, <1>3, <2>2 DEF PInv, TailInv
  <2> QED  BY <2>2, <2>4, <2>5, <2>6, <2>7, <2>8 DEF PInv
<1>4. CASE ~Writable /\ Leave(p, "error") /\ UNCHANGED <<fileVars, devVars>>
  <2>1. mpc' = (IF p \in Keyed THEN "drop" ELSE "free") /\ cause' = "error"
    BY <1>4 DEF Leave
  <2>2. p \in Keyed => blocked
    BY <1>1 DEF PInv, PlaceInv
  <2>4. TtyInv'
    BY <1>1, <1>4, <2>1 DEF TtyInv, TerminalRestored, Live, userVars, fileVars
  <2>5. PlaceInv'
    BY <1>1, <1>4, <2>1 DEF PInv, PlaceInv, MainPlaces, SetUpPcs, WorkPcs, BufPcs, Live,
        Deliverable, handlerVars, devVars, fileVars
  <2>6. RingInv'
    BY <1>1, <1>4, <2>1 DEF PInv, RingInv, handlerVars, devVars, fileVars
  <2>7. PosInv'
    BY <1>1, <1>4, <2>1, <2>2 DEF PInv, PosInv, InHand, Written, Live, handlerVars, devVars,
        fileVars
  <2>8. OrderInv' /\ TailInv'
    BY <1>1, <1>4, <2>1 DEF PInv, OrderInv, TailInv, devVars, fileVars
  <2> QED  BY <2>4, <2>5, <2>6, <2>7, <2>8 DEF PInv
<1> QED  BY <1>3, <1>4 DEF Writes, MainWrite

(* free and close.                                                         *)
LEMMA EndsPInv ==
    ASSUME TtyInv, PInv, NEW p \in AllPrograms, Ends(p)
    PROVE  TtyInv' /\ PInv'
<1>0. <<>> \in Seq(Nat) /\ Len(<<>>) = 0
  OBVIOUS
<1>1. /\ UNCHANGED <<prog, len, pos, buf, mret, cause, blocked, handlerVars, pending, userVars,
                     played>>
      /\ prog = p /\ Live /\ hpc = "none"
  BY DEF Ends, Free, Close, At, fileVars, mainVars, devVars
<1>2. CASE Free(p)
  <2>1. /\ mpc = "free" /\ ~Deliverable /\ mpc' = "close" /\ UNCHANGED <<ended, dev, ring>>
    BY <1>2 DEF Free, At, devVars
  <2>4. TtyInv'
    BY <1>1, <2>1 DEF TtyInv, TerminalRestored, Live, userVars
  <2>5. PlaceInv'
    BY <1>1, <2>1 DEF PInv, PlaceInv, MainPlaces, SetUpPcs, WorkPcs, BufPcs, Live, Deliverable,
        handlerVars
  <2>6. RingInv' /\ PosInv'
    BY <1>1, <2>1 DEF PInv, RingInv, PosInv, InHand, Written, SetUpPcs, WorkPcs, BufPcs, Live,
        handlerVars
  <2>8. OrderInv' /\ TailInv'
    BY <1>1, <2>1 DEF PInv, OrderInv, TailInv
  <2> QED  BY <2>4, <2>5, <2>6, <2>8 DEF PInv
<1>3. CASE Close(p)
  <2>1. /\ mpc = "close" /\ mpc' = mpc /\ dev' = "stopped" /\ ring' = <<>> /\ ended' = cause
    BY <1>3 DEF Close, At, mainVars
  <2>4. TtyInv'
    BY <1>1, <2>1 DEF TtyInv, TerminalRestored, Live, userVars
  <2>5. PlaceInv'
    BY <1>1, <2>1 DEF PInv, PlaceInv, MainPlaces, SetUpPcs, WorkPcs, BufPcs, Live, Deliverable,
        handlerVars
  <2>6. RingInv'
    BY <1>0, <1>1, <2>1, BufferAssumption DEF PInv, RingInv, PlaceInv, handlerVars
  <2>7. PosInv'
    BY <1>1, <2>1 DEF PInv, PosInv
  <2>8. OrderInv' /\ TailInv'
    BY <1>0, <1>1, <2>1 DEF PInv, OrderInv, TailInv
  <2> QED  BY <2>4, <2>5, <2>6, <2>7, <2>8 DEF PInv
<1> QED  BY <1>2, <1>3 DEF Ends

LEMMA PollWaitPInv ==
    ASSUME TtyInv, PInv, PollWait
    PROVE  TtyInv' /\ PInv'
<1>1. /\ UNCHANGED <<fileVars, mret, blocked, handlerVars, pending, devVars, userVars, ended>>
      /\ prog = "poll" /\ Live /\ hpc = "none" /\ mpc = "poll"
      /\ mpc' \in {"free", "check"} /\ cause' \in {"error", cause}
  BY DEF PollWait, At, Leave, Keyed
<1>2. "poll" \notin Keyed
  BY DEF Keyed
<1>4. TtyInv'
  BY <1>1, <1>2 DEF TtyInv, TerminalRestored, Live, userVars, fileVars
<1>5. PlaceInv'
  BY <1>1, <1>2 DEF PInv, PlaceInv, MainPlaces, SetUpPcs, WorkPcs, BufPcs, Live, Deliverable,
      handlerVars, devVars, fileVars
<1>6. RingInv' /\ PosInv'
  BY <1>1 DEF PInv, RingInv, PosInv, InHand, Written, SetUpPcs, WorkPcs, BufPcs, Live,
     handlerVars, devVars, fileVars
<1>7. OrderInv' /\ TailInv'
  BY <1>1 DEF PInv, OrderInv, TailInv, devVars, fileVars
<1> QED  BY <1>4, <1>5, <1>6, <1>7 DEF PInv
-----------------------------------------------------------------------------
(***************************************************************************)
(* The players with keys.                                                  *)
(***************************************************************************)
LEMMA KeyedPInv ==
    ASSUME TtyInv, PInv, NEW p \in Keyed, OfKeyed(p)
    PROVE  TtyInv' /\ PInv'
<1>0. <<>> \in Seq(Nat) /\ Len(<<>>) = 0
  OBVIOUS
<1>1. /\ UNCHANGED <<fileVars, mret, handlerVars, pending, played>>
      /\ prog = p /\ prog \in Keyed /\ Live /\ hpc = "none"
  BY DEF OfKeyed, Block, SetTerminal, MixerInit, Unblock, KeyQuit, KeySpace, Pause, Resume,
     Toggle, KeyVolume, Drop, At, mainVars, devVars
<1>2. CASE Block(p) \/ SetTerminal(p) \/ MixerInit(p)
  <2>1. /\ UNCHANGED <<dev, ring, cause>>
        /\ \/ /\ mpc \in {"block", "mixer"} /\ mpc' \in {"block", "malloc"} /\ tty' = tty
              /\ (mpc' = "malloc" => blocked') /\ ended' = ended
           \/ mpc = "mixer" /\ mpc' = "mixer" /\ tty' = tty /\ ended' = "setup" /\ UNCHANGED blocked
           \/ mpc = "tty" /\ mpc' = "check" /\ UNCHANGED <<ended, blocked>>
    BY <1>2 DEF Block, SetTerminal, MixerInit, At, devVars, userVars
  <2>4. TtyInv'
    BY <1>1, <2>1 DEF TtyInv, TerminalRestored, Live, fileVars
  <2>5. PlaceInv'
    BY <1>1, <2>1 DEF PInv, PlaceInv, MainPlaces, SetUpPcs, WorkPcs, BufPcs, Live, Deliverable,
        handlerVars, fileVars
  <2>6. RingInv' /\ PosInv'
    BY <1>1, <2>1 DEF PInv, RingInv, PosInv, InHand, Written, SetUpPcs, WorkPcs, BufPcs, Live,
        handlerVars, fileVars
  <2>7. OrderInv' /\ TailInv'
    BY <1>1, <2>1 DEF PInv, OrderInv, TailInv, fileVars
  <2> QED  BY <2>4, <2>5, <2>6, <2>7 DEF PInv
<1>3. CASE Unblock(p) \/ KeyQuit(p) \/ KeySpace(p) \/ KeyVolume(p, 1) \/ KeyVolume(p, -1)
  <2>1. /\ UNCHANGED <<dev, ring, ended, tty>>
        /\ mpc \in {"unblock", "keys"}
        /\ \/ mpc' \in {"keys", "pause", "resume"} /\ cause' = cause /\ blocked' \in {blocked, FALSE}
           \/ mpc' = "drop" /\ blocked' = TRUE /\ cause' = "quit"
    BY <1>3 DEF Unblock, KeyQuit, KeySpace, KeyVolume, Leave, At, devVars, userVars, mainVars
  <2>4. TtyInv'
    BY <1>1, <2>1 DEF TtyInv, TerminalRestored, Live, fileVars
  <2>5. PlaceInv'
    BY <1>1, <2>1 DEF PInv, PlaceInv, MainPlaces, SetUpPcs, WorkPcs, BufPcs, Live, Deliverable,
        handlerVars, fileVars
  <2>6. RingInv' /\ PosInv'
    BY <1>1, <2>1 DEF PInv, RingInv, PosInv, InHand, Written, SetUpPcs, WorkPcs, BufPcs, Live,
        handlerVars, fileVars
  <2>7. OrderInv' /\ TailInv'
    BY <1>1, <2>1 DEF PInv, OrderInv, TailInv, fileVars
  <2> QED  BY <2>4, <2>5, <2>6, <2>7 DEF PInv
<1>4. CASE Pause(p) \/ Resume(p)
  <2>1. /\ UNCHANGED <<ring, ended, tty, blocked>>
        /\ mpc \in {"pause", "resume"}
        /\ \/ dev \in {"running", "paused"} /\ dev' \in {"running", "paused"} /\ mpc' = "keys"
                /\ cause' = cause
           \/ mpc' = "drop" /\ cause' = "error" /\ dev' = dev
    BY <1>4 DEF Pause, Resume, Toggle, Leave, At, userVars
  <2>4. TtyInv'
    BY <1>1, <2>1 DEF TtyInv, TerminalRestored, Live, fileVars
  <2>5. PlaceInv'
    BY <1>1, <2>1 DEF PInv, PlaceInv, MainPlaces, SetUpPcs, WorkPcs, BufPcs, Live, Deliverable,
        handlerVars, fileVars
  <2>6. RingInv' /\ PosInv'
    BY <1>1, <2>1 DEF PInv, RingInv, PosInv, InHand, Written, SetUpPcs, WorkPcs, BufPcs, Live,
        handlerVars, fileVars
  <2>7. OrderInv' /\ TailInv'
    BY <1>1, <2>1 DEF PInv, OrderInv, TailInv, fileVars
  <2> QED  BY <2>4, <2>5, <2>6, <2>7 DEF PInv
<1>5. CASE Drop(p)
  <2>1. /\ UNCHANGED <<ended, blocked, cause>>
        /\ mpc = "drop" /\ mpc' = "free" /\ dev' = "stopped" /\ ring' = <<>> /\ tty' = "cooked"
    BY <1>5 DEF Drop, At
  <2>4. TtyInv'
    BY <1>1, <2>1 DEF TtyInv, TerminalRestored, Live, fileVars
  <2>5. PlaceInv'
    BY <1>1, <2>1 DEF PInv, PlaceInv, MainPlaces, SetUpPcs, WorkPcs, BufPcs, Live, Deliverable,
        handlerVars, fileVars
  <2>6. RingInv'
    BY <1>0, <1>1, <2>1, BufferAssumption DEF PInv, RingInv, handlerVars, fileVars
  <2>7. PosInv'
    BY <1>1, <2>1 DEF PInv, PosInv, fileVars
  <2>8. OrderInv' /\ TailInv'
    BY <1>0, <1>1, <2>1 DEF PInv, OrderInv, TailInv, fileVars
  <2> QED  BY <2>4, <2>5, <2>6, <2>7, <2>8 DEF PInv
<1> QED  BY <1>2, <1>3, <1>4, <1>5 DEF OfKeyed
-----------------------------------------------------------------------------
(***************************************************************************)
(* The handler and the card.                                               *)
(***************************************************************************)
LEMMA DeliverPInv ==
    ASSUME TtyInv, PInv, NEW p \in Async, Deliver(p), ~Unprotected'
    PROVE  TtyInv' /\ PInv'
<1>1. /\ UNCHANGED <<fileVars, mainVars, devVars, userVars, ended>>
      /\ prog = p /\ Live /\ hpc = "none" /\ hpc' = "check" /\ pending /\ ~blocked /\ ~pending'
      /\ p = "async" => mpc = "sleep"
  BY DEF Deliver, Deliverable, Unprotected, fileVars
<1>2. mpc \in OpenTo(prog)
  <2>1. p \in Keyed \/ p = "async"
    BY DEF Async
  <2>2. mpc \notin SetUpPcs
    BY <1>1 DEF PInv, PlaceInv
  <2> QED  BY <1>1, <2>1, <2>2 DEF PInv, PlaceInv, Deliverable, OpenTo, MainPlaces, BufPcs, WorkPcs
<1>4. TtyInv'
  BY <1>1 DEF TtyInv, TerminalRestored, Live, fileVars, mainVars, userVars
<1>5. PlaceInv'
  BY <1>1, <1>2 DEF PInv, PlaceInv, MainPlaces, SetUpPcs, WorkPcs, BufPcs, OpenTo, Live,
      Deliverable, fileVars, mainVars, devVars
<1>6. RingInv' /\ PosInv'
  BY <1>1 DEF PInv, RingInv, PosInv, InHand, Written, SetUpPcs, WorkPcs, BufPcs, Live, fileVars,
      mainVars, devVars
<1>7. OrderInv' /\ TailInv'
  BY <1>1 DEF PInv, OrderInv, TailInv, fileVars, mainVars, devVars
<1> QED  BY <1>4, <1>5, <1>6, <1>7 DEF PInv

(* While the handler runs main is at none of its own reads and writes, and *)
(* the file stands where the ring ends, as long as there is a stream.      *)
LEMMA MainWaits ==
    ASSUME PInv, Live, hpc # "none", hpc # "write", dev # "stopped"
    PROVE  pos = Written
<1>1. mpc \in OpenTo(prog) /\ ~blocked
  BY DEF PInv, PlaceInv
<1>2. mpc # "free"
  <2>1. prog \in Keyed \/ prog = "async"
    BY DEF PInv, PlaceInv, Async
  <2>2. mpc = "free" => prog # "async"
    BY <1>1 DEF OpenTo
  <2>3. prog \in Keyed /\ mpc = "free" => dev # "running" /\ dev \in {"prepared", "stopped"}
    BY DEF PInv, PlaceInv
  <2> QED  BY <2>1, <2>2, <2>3 DEF PInv, PlaceInv
<1> QED  BY <1>1, <1>2 DEF PInv, PosInv, OpenTo, BufPcs, WorkPcs

LEMMA HandlerExitPInv ==
    ASSUME TtyInv, PInv, Live, hpc # "none", NEW why \in {"error", "eof"}, HandlerExit(why),
           UNCHANGED <<mainVars, pending>>,
           why = "eof" => len - Len(played) <= Buffer - (IF prog = "playback" THEN 0 ELSE Period)
    PROVE  TtyInv' /\ PInv'
<1>0. <<>> \in Seq(Nat) /\ Len(<<>>) = 0
  OBVIOUS
<1>1. /\ UNCHANGED <<prog, len, pos, buf, hpc, hret, early, played, mpc, mret, cause, blocked,
                     pending>>
      /\ ended' = why /\ tty' = "cooked" /\ dev' = "stopped" /\ ring' = <<>>
  BY DEF HandlerExit, handlerVars, mainVars
<1>2. dev # "prepared"
  BY DEF PInv, PlaceInv
<1>3. mpc \in OpenTo(prog)
  BY DEF PInv, PlaceInv
<1>4. TtyInv'
  BY <1>1 DEF TtyInv, TerminalRestored
<1>5. PlaceInv'
  BY <1>1, <1>2, <1>3 DEF PInv, PlaceInv, MainPlaces, OpenTo, SetUpPcs, WorkPcs, BufPcs, Live,
      Deliverable
<1>6. RingInv'
  <2>1. 0 + Period <= Buffer
    BY BufferAssumption, PeriodAssumption
  <2> QED  BY <1>0, <1>1, <2>1, BufferAssumption DEF PInv, RingInv
<1>7. PosInv'
  BY <1>1 DEF PInv, PosInv
<1>8. OrderInv' /\ TailInv'
  BY <1>0, <1>1 DEF PInv, OrderInv, TailInv
<1> QED  BY <1>4, <1>5, <1>6, <1>7, <1>8 DEF PInv

LEMMA HandlerPInv ==
    ASSUME TtyInv, PInv, NEW p \in Async,
           HandlerCheck(p) \/ HandlerRead(p) \/ HandlerWrite(p)
    PROVE  TtyInv' /\ PInv'
<1>1. UNCHANGED <<mainVars, pending>> /\ prog = p /\ Live /\ hpc # "none"
  BY DEF HandlerCheck, HandlerRead, HandlerWrite, InHandler
<1>2. mpc \in OpenTo(prog) /\ ~blocked /\ prog # "playback"
  BY <1>1 DEF PInv, PlaceInv, Async, Keyed
<1>3. CASE HandlerCheck(p)
  <2>1. /\ UNCHANGED <<fileVars, mainVars, hret, early, pending, devVars, userVars, ended>>
        /\ hpc = "check" /\ hpc' \in {"read", "none"}
        /\ hpc' = "read" => dev = "stopped" \/ Refillable
    BY <1>3 DEF HandlerCheck, InHandler
  <2>2. hpc' = "read" => Len(ring) + Period <= Buffer
    <3>1. CASE dev = "stopped"
      <4>1. ring = <<>> /\ Len(<<>>) = 0
        BY <3>1 DEF PInv, RingInv
      <4> QED  BY <4>1, BufferAssumption, PeriodAssumption
    <3> QED  BY <2>1, <3>1, RefillableRoom DEF PInv
  <2>4. TtyInv'
    BY <1>1, <2>1 DEF TtyInv, TerminalRestored, Live, fileVars, mainVars, userVars
  <2>5. PlaceInv'
    BY <1>1, <2>1 DEF PInv, PlaceInv, MainPlaces, SetUpPcs, WorkPcs, BufPcs, Live, Deliverable,
       fileVars, mainVars, devVars
  <2>6. RingInv'
    BY <1>1, <2>1, <2>2 DEF PInv, RingInv, fileVars, mainVars, devVars
  <2>7. PosInv'
    BY <1>1, <2>1 DEF PInv, PosInv, InHand, Written, SetUpPcs, WorkPcs, BufPcs, Live, fileVars,
       mainVars, devVars
  <2>8. OrderInv' /\ TailInv'
    BY <1>1, <2>1 DEF PInv, OrderInv, TailInv, fileVars, mainVars, devVars
  <2> QED  BY <2>4, <2>5, <2>6, <2>7, <2>8 DEF PInv
<1>4. CASE HandlerRead(p)
  <2>1. hpc = "read"
    BY <1>4 DEF HandlerRead, InHandler
  <2>2. CASE AtEof /\ HandlerExit(IF dev = "stopped" THEN "error" ELSE "eof")
    <3>1. dev # "stopped" => len - Len(played) <= Buffer - Period
      <4>1. dev # "stopped" => len = Len(played) + Len(ring)
        BY <1>1, <2>1, <2>2, MainWaits DEF AtEof, Written
      <4> QED  BY <2>1, <4>1, BufferAssumption, PeriodAssumption DEF PInv, RingInv
    <3> QED  BY <1>1, <1>2, <2>2, <3>1, HandlerExitPInv
  <2>3. CASE ~AtEof /\ Read(hret') /\ hpc' = "write" /\ UNCHANGED <<early, devVars, userVars,
                                                                    ended>>
    <3>1. prog' = prog /\ bufState' = bufState /\ len' = len
      BY <2>3 DEF Read
    <3>4. TtyInv'
      BY <1>1, <2>3, <3>1 DEF TtyInv, TerminalRestored, Live, mainVars, userVars
    <3>5. PlaceInv'
      BY <1>1, <2>1, <2>3, <3>1 DEF PInv, PlaceInv, MainPlaces, SetUpPcs, WorkPcs, BufPcs, Live,
         Deliverable, mainVars, devVars
    <3>6. RingInv'
      BY <1>1, <2>3, <3>1 DEF PInv, RingInv, mainVars, devVars
    <3>7. PosInv'
      <4>1. pos' \in Nat /\ pos' <= len' /\ buf' \in [1..Period -> Nat] /\ len' \in Nat
        <5>1. hret' = Least(Period, len - pos) /\ pos' = pos + hret'
          BY <2>3 DEF Read
        <5>2. hret' \in 1..Period /\ hret' <= len - pos
          BY <2>3, <5>1, PeriodAssumption DEF PInv, PosInv, Least, AtEof
        <5>3. buf' = [n \in 1..Period |-> IF n <= hret' THEN pos + n ELSE 0]
          BY <2>3 DEF Read
        <5> QED  BY <3>1, <5>1, <5>2, <5>3, PeriodAssumption DEF PInv, PosInv
      <4>2. dev # "stopped" => InHand(hret)'
        BY <1>1, <2>1, <2>3, MainWaits, ReadFrames DEF PInv, devVars
      <4>3. mpc # "write"
        BY <1>2 DEF OpenTo
      <4> QED  BY <1>1, <2>3, <4>1, <4>2, <4>3 DEF PosInv, mainVars, devVars
    <3>8. OrderInv' /\ TailInv'
      BY <1>1, <2>3, <3>1 DEF PInv, OrderInv, TailInv, mainVars, devVars
    <3> QED  BY <3>4, <3>5, <3>6, <3>7, <3>8 DEF PInv
  <2>4. CASE HandlerExit("error")
    BY <1>1, <1>2, <1>4, <2>4, HandlerExitPInv DEF HandlerRead
  <2> QED  BY <1>4, <2>2, <2>3, <2>4 DEF HandlerRead
<1>5. CASE HandlerWrite(p)
  <2>1. hpc = "write"
    BY <1>5 DEF HandlerWrite, InHandler
  <2>2. CASE ~Writable /\ HandlerExit("error")
    BY <1>1, <2>2, HandlerExitPInv
  <2>3. ASSUME NEW n \in 1..Period, Writable, Write(n, hret), hpc' = "check",
               UNCHANGED <<hret, early, userVars, ended>>
        PROVE  TtyInv' /\ PInv'
    <3>1. InHand(hret)
      BY <1>1, <2>1, <2>3 DEF PInv, PosInv, Writable
    <3>2. /\ OrderInv' /\ pos' = Written'
          /\ pos' \in Nat /\ pos' <= len /\ len' = len /\ buf' = buf
          /\ ring' \in Seq(Nat) /\ ring' # <<>> /\ Len(ring') <= Buffer
          /\ played' = played /\ prog' = prog /\ bufState' = bufState
      BY <2>3, <3>1, WriteFrames DEF PInv
    <3>3. dev' \in {"running", "paused"} /\ mpc \notin SetUpPcs
      BY <1>2, <2>3 DEF Write, Writable, OpenTo, SetUpPcs
    <3>4. TtyInv'
      BY <1>1, <2>3, <3>2 DEF TtyInv, TerminalRestored, Live, mainVars, userVars
    <3>5. PlaceInv'
      <4>1. prog \in Keyed => mpc \notin {"free", "close"}
        BY <1>1, <1>2, <2>3 DEF PInv, PlaceInv, Writable, OpenTo
      <4> QED  BY <1>1, <1>2, <2>1, <2>3, <3>2, <3>3, <4>1 DEF PInv, PlaceInv, MainPlaces, SetUpPcs,
                  WorkPcs, BufPcs, Live, Deliverable, mainVars
    <3>6. RingInv'
      <4>1. mpc # "read"
        BY <1>2 DEF OpenTo
      <4> QED  BY <1>1, <2>3, <3>2, <3>3, <4>1 DEF PInv, RingInv, mainVars
    <3>7. PosInv'
      <4>1. mpc # "write"
        BY <1>2 DEF OpenTo
      <4> QED  BY <1>1, <2>3, <3>2, <4>1 DEF PInv, PosInv, mainVars
    <3>8. TailInv'
      BY <1>1, <2>3, <3>2 DEF PInv, TailInv, mainVars
    <3> QED  BY <3>2, <3>4, <3>5, <3>6, <3>7, <3>8 DEF PInv
  <2> QED  BY <1>5, <2>2, <2>3 DEF HandlerWrite
<1> QED  BY <1>3, <1>4, <1>5

(* One frame more has been played, one less is in the ring.                *)
LEMMA PlayFramePInv ==
    ASSUME TtyInv, PInv, PlayFrame
    PROVE  TtyInv' /\ PInv'
<1>1. /\ UNCHANGED <<fileVars, mainVars, handlerVars, userVars, ended>>
      /\ Live /\ dev = "running" /\ dev' \in {"running", "xrun"}
      /\ played' = Append(played, Head(ring)) /\ ring' = Tail(ring)
      /\ dev' = IF Len(ring) = 1 THEN "xrun" ELSE "running"
      /\ pending' => pending \/ prog \in Async
  BY DEF PlayFrame
<1>2. ring \in Seq(Nat) /\ played \in Seq(Nat) /\ ring # <<>> /\ Len(ring) <= Buffer
  BY <1>1 DEF PInv, RingInv
<1>3. /\ Len(ring) \in Nat \ {0} /\ Len(played) \in Nat
      /\ Head(ring) \in Nat /\ Head(ring) = ring[1]
      /\ Tail(ring) \in Seq(Nat) /\ Len(Tail(ring)) = Len(ring) - 1
      /\ \A i \in 1..Len(ring) - 1 : Tail(ring)[i] = ring[i + 1]
  BY <1>2, HeadTailProperties, EmptySeq
<1>4. /\ played' \in Seq(Nat) /\ Len(played') = Len(played) + 1
      /\ \A i \in 1..Len(played) : played'[i] = played[i]
      /\ played'[Len(played) + 1] = ring[1]
  BY <1>1, <1>2, <1>3, AppendProperties
<1>5. ring[1] = Len(played) + 1
  BY <1>3 DEF PInv, OrderInv
<1>6. OrderInv'
  <2>1. ASSUME NEW n \in 1..Len(played') PROVE played'[n] = n
    <3>1. n \in 1..Len(played) \/ n = Len(played) + 1
      BY <1>3, <1>4
    <3> QED  BY <1>4, <1>5, <3>1 DEF PInv, OrderInv
  <2>2. \A n \in 1..Len(ring') : ring'[n] = Len(played') + n
    BY <1>1, <1>3, <1>4 DEF PInv, OrderInv
  <2> QED  BY <2>1, <2>2 DEF OrderInv
<1>7. Written' = Written
  BY <1>1, <1>3, <1>4 DEF Written
<1>8. TtyInv'
  BY <1>1 DEF TtyInv, TerminalRestored, Live, fileVars, mainVars, userVars
<1>9. PlaceInv'
  BY <1>1 DEF PInv, PlaceInv, MainPlaces, SetUpPcs, WorkPcs, BufPcs, Live, Deliverable,
     fileVars, mainVars, handlerVars
<1>10. RingInv'
  <2>1. dev' = "xrun" <=> Len(ring') = 0
    BY <1>1, <1>3
  <2>2. Len(ring') = 0 <=> ring' = <<>>
    BY <1>1, <1>3, EmptySeq
  <2>3. Len(ring') <= Len(ring) /\ Len(ring') \in Nat
    BY <1>1, <1>3
  <2>4. ring' \in Seq(Nat) /\ played' \in Seq(Nat)
    BY <1>1, <1>3, <1>4
  <2>5. dev' \in {"running", "paused"} <=> ring' # <<>>
    BY <1>1, <2>1, <2>2
  <2>6. Len(ring') <= Buffer
    BY <1>2, <1>3, <2>3, BufferAssumption
  <2>7. Len(ring) + Period <= Buffer => Len(ring') + Period <= Buffer
    BY <1>3, <2>3, BufferAssumption, PeriodAssumption
  <2>8. dev' \in {"prepared", "running", "paused", "xrun", "stopped"}
    BY <1>1
  <2> QED  BY <1>1, <2>4, <2>5, <2>6, <2>7, <2>8 DEF PInv, RingInv, fileVars, mainVars, handlerVars
<1>11. PosInv'
  BY <1>1, <1>7 DEF PInv, PosInv, InHand, Live, fileVars, mainVars, handlerVars
<1>12. TailInv'
  BY <1>1, <1>3, <1>4, BufferAssumption, PeriodAssumption
     DEF PInv, TailInv, PosInv, fileVars, mainVars, handlerVars
<1> QED  BY <1>6, <1>8, <1>9, <1>10, <1>11, <1>12 DEF PInv
-----------------------------------------------------------------------------
(* Once the handler of async has met main it has, and the terminal is not  *)
(* the business of async.                                                  *)
LEMMA UnprotectedStays ==
    ASSUME Next, Unprotected
    PROVE  Unprotected' /\ tty' \in {tty, "cooked"}
<1> USE DEF Unprotected
<1>0. "async" \notin Keyed /\ "async" # "poll"
  BY DEF Keyed
<1>1. CASE \E p \in AllPrograms : SettingUp(p) \/ Allocates(p) \/ Checks(p)
  BY <1>1 DEF SettingUp, Allocates, Checks, SetUp, Malloc, Check, fileVars, handlerVars, userVars
<1>2. CASE \E p \in AllPrograms : MainRead(p) \/ Writes(p) \/ Ends(p)
  BY <1>2 DEF MainRead, Read, Writes, MainWrite, Write, Ends, Free, Close, fileVars, handlerVars,
      userVars
<1>3. CASE PollWait
  BY <1>0, <1>3 DEF PollWait, At
<1>4. CASE \E p \in Keyed : OfKeyed(p)
  BY <1>0, <1>4 DEF OfKeyed, Block, SetTerminal, MixerInit, Unblock, KeyQuit, KeySpace, Pause,
     Resume, Toggle, KeyVolume, Drop, At
<1>5. CASE \E p \in Async : Handler(p)
  <2>1. PICK p \in Async : Handler(p)
    BY <1>5
  <2>2. CASE Deliver(p) \/ HandlerCheck(p)
    BY <2>2 DEF Deliver, HandlerCheck, fileVars, userVars
  <2>3. CASE HandlerRead(p)
    <3>1. ASSUME Read(hret'), UNCHANGED <<early, userVars>> PROVE Unprotected' /\ tty' = tty
      BY <3>1 DEF Read, userVars
    <3>2. ASSUME NEW why, HandlerExit(why) PROVE Unprotected' /\ tty' = "cooked"
      BY <3>2 DEF HandlerExit, handlerVars
    <3> QED  BY <2>3, <3>1, <3>2 DEF HandlerRead
  <2>4. CASE HandlerWrite(p)
    <3>1. ASSUME NEW n, Write(n, hret), UNCHANGED <<early, userVars>> PROVE Unprotected' /\ tty' = tty
      BY <3>1 DEF Write, userVars
    <3>2. ASSUME HandlerExit("error") PROVE Unprotected' /\ tty' = "cooked"
      BY <3>2 DEF HandlerExit, handlerVars
    <3> QED  BY <2>4, <3>1, <3>2 DEF HandlerWrite
  <2> QED  BY <2>1, <2>2, <2>3, <2>4 DEF Handler
<1>6. CASE PlayFrame \/ UNCHANGED vars
  BY <1>6 DEF PlayFrame, vars, fileVars, handlerVars, userVars
<1> QED  BY <1>1, <1>2, <1>3, <1>4, <1>5, <1>6, StepCases

LEMMA StepIInv == IInv /\ [Next]_vars => IInv'
<1> SUFFICES ASSUME IInv, [Next]_vars PROVE IInv'
  OBVIOUS
<1>1. CASE UNCHANGED vars
  <2>1. Unprotected => Unprotected' /\ TtyInv'
    BY <1>1 DEF Unprotected, IInv, TtyInv, TerminalRestored, Live, vars, fileVars, handlerVars,
        mainVars, userVars
  <2> QED  BY <1>1, <2>1, Unchanged DEF IInv
<1>2. CASE Next /\ Unprotected
  <2>1. "async" \notin Keyed
    BY DEF Keyed
  <2>2. prog = "async" /\ prog' = "async"
    BY <1>2, UnprotectedStays DEF Unprotected
  <2>3. tty' = "cooked"
    BY <1>2, <2>1, <2>2, UnprotectedStays DEF IInv, TtyInv
  <2> QED  BY <1>2, <2>3, UnprotectedStays DEF IInv, TtyInv, TerminalRestored
<1>3. CASE Next /\ PInv
  <2> USE DEF IInv
  <2>1. CASE \E p \in AllPrograms : SettingUp(p) \/ Allocates(p) \/ Checks(p)
    BY <1>3, <2>1, SetUpPInv, CheckPInv
  <2>2. CASE \E p \in AllPrograms : MainRead(p) \/ Writes(p) \/ Ends(p)
    BY <1>3, <2>2, MainReadPInv, MainWritePInv, EndsPInv
  <2>3. CASE PollWait
    BY <1>3, <2>3, PollWaitPInv
  <2>4. CASE \E p \in Keyed : OfKeyed(p)
    BY <1>3, <2>4, KeyedPInv
  <2>5. CASE \E p \in Async : Handler(p)
    <3>1. PICK p \in Async : Handler(p)
      BY <2>5
    <3>2. CASE Deliver(p)
      <4>1. TtyInv'
        BY <3>2 DEF TtyInv, TerminalRestored, Live, Deliver, fileVars, mainVars, userVars
      <4> QED  BY <1>3, <3>2, <4>1, DeliverPInv
    <3>3. CASE HandlerCheck(p) \/ HandlerRead(p) \/ HandlerWrite(p)
      BY <1>3, <3>3, HandlerPInv
    <3> QED  BY <3>1, <3>2, <3>3 DEF Handler
  <2>6. CASE PlayFrame \/ UNCHANGED vars
    BY <1>3, <2>6, PlayFramePInv, Unchanged
  <2> QED  BY <1>3, <2>1, <2>2, <2>3, <2>4, <2>5, <2>6, StepCases
<1> QED  BY <1>1, <1>2, <1>3 DEF IInv

LEMMA Invariance == Spec => []IInv
<1>1. Init => IInv
  BY InitPInv DEF IInv
<1> QED  BY <1>1, StepIInv, PTL DEF Spec

(* What is heard is the file in order: the ring and the file position stay *)
(* together through short writes, retries and the handler, unless the      *)
(* handler of async has met its main.                                      *)
THEOREM HeardInOrder == Spec => []InOrder
<1>1. IInv => InOrder
  <2> SUFFICES ASSUME PInv PROVE \A n \in 1..Len(played \o ring) : (played \o ring)[n] = n
    BY DEF IInv, InOrder
  <2>1. ring \in Seq(Nat) /\ played \in Seq(Nat)
    BY DEF PInv, RingInv
  <2>2. /\ Len(played \o ring) = Len(played) + Len(ring)
        /\ \A n \in 1..Len(played) + Len(ring) :
              (played \o ring)[n] = IF n <= Len(played) THEN played[n] ELSE ring[n - Len(played)]
    BY <2>1, ConcatProperties
  <2>3. Len(played) \in Nat /\ Len(ring) \in Nat
    BY <2>1
  <2> SUFFICES ASSUME NEW n \in 1..Len(played) + Len(ring)
               PROVE  (played \o ring)[n] = n
    BY <2>2
  <2>4. CASE n <= Len(played)
    <3>1. n \in 1..Len(played)
      BY <2>3, <2>4
    <3> QED  BY <2>2, <2>4, <3>1 DEF PInv, OrderInv
  <2>5. CASE ~(n <= Len(played))
    <3>1. n - Len(played) \in 1..Len(ring)
      BY <2>3, <2>5
    <3>2. ring[n - Len(played)] = Len(played) + (n - Len(played))
      BY <3>1 DEF PInv, OrderInv
    <3> QED  BY <2>2, <2>3, <2>5, <3>2
  <2> QED  BY <2>4, <2>5
<1> QED  BY <1>1, Invariance, PTL

(* The handler finds buf allocated whenever it runs.                       *)
THEOREM HandlerHasBuf == Spec => []BufUsable
<1>1. IInv => BufUsable
  BY DEF IInv, PInv, PlaceInv, BufUsable, OpenTo, BufPcs, WorkPcs
<1> QED  BY <1>1, Invariance, PTL

(* At the end of the file what is cut off fits into the ring, less the     *)
(* period that was free when the end was read.                             *)
THEOREM TailIsShort == Spec => []TailLossBounded
<1>1. IInv => TailLossBounded
  BY DEF IInv, PInv, TailInv, TailLossBounded
<1> QED  BY <1>1, Invariance, PTL

(* Whoever ends the program, the terminal is left as it was found.         *)
THEOREM TerminalIsRestored == Spec => []TerminalRestored
<1>1. IInv => TerminalRestored
  BY DEF IInv, TtyInv
<1> QED  BY <1>1, Invariance, PTL
-----------------------------------------------------------------------------
(***************************************************************************)
(* The recorders.                                                          *)
(***************************************************************************)
RInHand == rpc = "write" \/ rhpc = "write"

(* Nothing is recorded before the file is there, and only async has a      *)
(* handler, which does what the main of the others does.                   *)
RPlaceInv ==
    /\ rpc \in {"pcm", "pfds", "open"} =>
         rfile \in {R!NoFile, <<>>} /\ rring = <<>> /\ rcount = 0
         /\ rdev # "running" /\ ~rpending /\ rhpc = "none"
    /\ rpending \/ rhpc # "none" => rprog = "async"
    /\ rprog = "async" => rpc # "write"

RTypeInv ==
    /\ rring \in Seq(Nat) /\ rfile \in Seq(Nat) /\ rbuf \in Seq(Nat)
    /\ rcount \in Nat /\ rspace \in Nat /\ rcut \in BOOLEAN

(* What has been recorded is in the file, in buf and in the ring, in this  *)
(* order.                                                                  *)
RTaken == Len(rfile) + (IF RInHand THEN Len(rbuf) ELSE 0)

ROrderInv ==
    ~rcut /\ rpc \notin {"pcm", "pfds", "open"} =>
        /\ \A i \in 1..Len(rfile) : rfile[i] = i
        /\ RInHand => \A i \in 1..Len(rbuf) : rbuf[i] = Len(rfile) + i
        /\ \A i \in 1..Len(rring) : rring[i] = RTaken + i
        /\ rcount = RTaken + Len(rring)

RInv == RTypeInv /\ RPlaceInv /\ ROrderInv

LEMMA RInitInv == R!Init => RInv
<1> SUFFICES ASSUME R!Init PROVE RInv
  OBVIOUS
<1>1. <<>> \in Seq(Nat) /\ Len(<<>>) = 0 /\ <<0>> \in Seq(Nat)
  OBVIOUS
<1>2. RTypeInv
  BY <1>1, DiskAssumption DEF R!Init, R!NoFile, RTypeInv
<1>3. RPlaceInv /\ ROrderInv
  BY <1>1 DEF R!Init, RPlaceInv, ROrderInv
<1> QED  BY <1>2, <1>3 DEF RInv

(* Frames go from the ring to buf ...                                      *)
LEMMA RReadOrder ==
    ASSUME RTypeInv, ROrderInv, NEW n \in 1..Period, R!ReadFrames(n), ~RInHand, RInHand',
           rpc \notin {"pcm", "pfds", "open"}
    PROVE  RTypeInv' /\ ROrderInv'
<1>1. /\ n <= Len(rring) /\ n \in Nat /\ n >= 1 /\ rring \in Seq(Nat) /\ Len(rring) \in Nat
      /\ rbuf' = SubSeq(rring, 1, n) /\ rring' = SubSeq(rring, n + 1, Len(rring))
      /\ rcount' = rcount /\ rfile' = rfile /\ rcut' = rcut /\ rspace' = rspace
  BY PeriodAssumption DEF R!ReadFrames, RTypeInv
<1>1a. n \in Nat /\ n <= Len(rring) /\ Len(rring) \in Nat /\ rcount' = rcount
  BY <1>1
<1>2. /\ rbuf' \in Seq(Nat) /\ Len(rbuf') = n
      /\ \A i \in 1..n : rbuf'[i] = rring[i]
  BY <1>1
<1>3. /\ rring' \in Seq(Nat) /\ Len(rring') = Len(rring) - n
      /\ \A i \in 1..Len(rring) - n : rring'[i] = rring[n + i]
  BY <1>1
<1>4. RTypeInv'
  BY <1>1, <1>2, <1>3 DEF RTypeInv
<1>5. Len(rfile) \in Nat
  BY DEF RTypeInv
<1>6. RTaken = Len(rfile) /\ RTaken' = Len(rfile) + n
  BY <1>1, <1>2, <1>5 DEF RTaken
<1>7. ASSUME ~rcut
      PROVE  /\ \A i \in 1..Len(rfile') : rfile'[i] = i
             /\ \A i \in 1..Len(rbuf') : rbuf'[i] = Len(rfile') + i
             /\ \A i \in 1..Len(rring') : rring'[i] = RTaken' + i
             /\ rcount' = RTaken' + Len(rring')
  <2>1. /\ \A i \in 1..Len(rfile) : rfile[i] = i
        /\ \A i \in 1..Len(rring) : rring[i] = Len(rfile) + i
        /\ rcount = Len(rfile) + Len(rring)
    BY <1>6, <1>7 DEF ROrderInv
  <2>2. ASSUME NEW i \in 1..Len(rbuf') PROVE rbuf'[i] = Len(rfile) + i
    BY <1>1, <1>2, <2>1
  <2>3. ASSUME NEW i \in 1..Len(rring') PROVE rring'[i] = Len(rfile) + n + i
    <3>1. n + i \in 1..Len(rring) /\ rring'[i] = rring[n + i]
      BY <1>1a, <1>3
    <3>2. rring[n + i] = Len(rfile) + (n + i)
      BY <2>1, <3>1
    <3> QED  BY <1>1, <1>5, <3>1, <3>2
  <2>4. rcount' = Len(rfile) + n + Len(rring')
    BY <1>1a, <1>3, <1>5, <2>1
  <2> QED  BY <1>1, <1>6, <2>1, <2>2, <2>3, <2>4
<1> QED  BY <1>1, <1>4, <1>7 DEF ROrderInv

(* ... and from buf to the file, all of them unless the write is cut.      *)
LEMMA RWriteOrder ==
    ASSUME RTypeInv, ROrderInv, R!WriteFile, RInHand, ~RInHand',
           rpc \notin {"pcm", "pfds", "open"}
    PROVE  RTypeInv' /\ ROrderInv'
<1> DEFINE n == IF Len(rbuf) < rspace THEN Len(rbuf) ELSE rspace
<1>1. /\ rfile' = rfile \o SubSeq(rbuf, 1, n) /\ rspace' = rspace - n
      /\ rcut' = (rcut \/ n < Len(rbuf))
      /\ UNCHANGED <<rbuf, rcount, rring>>
  BY DEF R!WriteFile, R!devVars
<1>2. n \in Nat /\ n <= Len(rbuf) /\ n <= rspace /\ Len(rbuf) \in Nat /\ Len(rfile) \in Nat
  BY DEF RTypeInv
<1> HIDE DEF n
<1>3. /\ SubSeq(rbuf, 1, n) \in Seq(Nat) /\ Len(SubSeq(rbuf, 1, n)) = n
      /\ \A i \in 1..n : SubSeq(rbuf, 1, n)[i] = rbuf[i]
  BY <1>2 DEF RTypeInv
<1>4. /\ rfile' \in Seq(Nat) /\ Len(rfile') = Len(rfile) + n
      /\ \A i \in 1..Len(rfile) + n :
            rfile'[i] = IF i <= Len(rfile) THEN rfile[i] ELSE SubSeq(rbuf, 1, n)[i - Len(rfile)]
  <2> DEFINE add == SubSeq(rbuf, 1, n)
  <2>1. rfile \in Seq(Nat) /\ add \in Seq(Nat) /\ Len(add) = n /\ rfile' = rfile \o add
    BY <1>1, <1>3 DEF RTypeInv
  <2> HIDE DEF add
  <2>2. /\ rfile \o add \in Seq(Nat) /\ Len(rfile \o add) = Len(rfile) + Len(add)
        /\ \A i \in 1..Len(rfile) + Len(add) :
              (rfile \o add)[i] = IF i <= Len(rfile) THEN rfile[i] ELSE add[i - Len(rfile)]
    BY <2>1, ConcatProperties
  <2>3. /\ rfile' \in Seq(Nat) /\ Len(rfile') = Len(rfile) + n
        /\ \A i \in 1..Len(rfile) + n :
              rfile'[i] = IF i <= Len(rfile) THEN rfile[i] ELSE add[i - Len(rfile)]
    BY <2>1, <2>2
  <2> QED  BY <2>3 DEF add
<1>5. RTypeInv'
  <2>1. rspace' \in Nat /\ rcut' \in BOOLEAN
    BY <1>1, <1>2 DEF RTypeInv
  <2> QED  BY <1>1, <1>4, <2>1 DEF RTypeInv
<1>6. ROrderInv'
  <2> SUFFICES ASSUME ~rcut'
               PROVE  /\ \A i \in 1..Len(rfile') : rfile'[i] = i
                      /\ \A i \in 1..Len(rring') : rring'[i] = RTaken' + i
                      /\ rcount' = RTaken' + Len(rring')
    BY DEF ROrderInv
  <2>1. n = Len(rbuf) /\ ~rcut
    <3>1. ~rcut /\ ~(n < Len(rbuf))
      BY <1>1, Zenon DEF RTypeInv
    <3> QED  BY <1>2, <3>1
  <2>2. RTaken = Len(rfile) + n /\ RTaken' = Len(rfile) + n
    BY <1>2, <1>4, <2>1 DEF RTaken
  <2>3. ASSUME NEW i \in 1..Len(rfile') PROVE rfile'[i] = i
    <3>1. CASE i <= Len(rfile)
      <4>1. i \in 1..Len(rfile) /\ i \in 1..Len(rfile) + n
        BY <1>2, <1>4, <3>1
      <4>2. rfile[i] = i
        BY <2>1, <4>1 DEF ROrderInv
      <4> QED  BY <1>4, <3>1, <4>1, <4>2
    <3>2. CASE ~(i <= Len(rfile))
      <4>1. i - Len(rfile) \in 1..n
        BY <1>2, <1>4, <3>2
      <4>2. rbuf[i - Len(rfile)] = Len(rfile) + (i - Len(rfile))
        BY <2>1, <4>1 DEF ROrderInv
      <4> QED  BY <1>2, <1>3, <1>4, <3>2, <4>1, <4>2
    <3> QED  BY <3>1, <3>2
  <2> QED  BY <1>1, <2>1, <2>2, <2>3 DEF ROrderInv
<1> QED  BY <1>5, <1>6

(* The card records, and the numbers go on.                                *)
LEMMA RRecordOrder ==
    ASSUME RInv, R!Record
    PROVE  RInv'
<1>1. /\ rcount' = rcount + 1 /\ rring' = Append(rring, rcount') /\ rdev = "running"
      /\ UNCHANGED <<rprog, rpc, rhpc, rfile, rbuf, rspace, rcut>>
      /\ rpending' => rpending \/ rprog = "async"
  BY DEF R!Record, R!fileVars
<1>2. rring \in Seq(Nat) /\ rcount' \in Nat /\ Len(rring) \in Nat
  BY <1>1 DEF RInv, RTypeInv
<1>3. /\ rring' \in Seq(Nat) /\ Len(rring') = Len(rring) + 1
      /\ \A i \in 1..Len(rring) : rring'[i] = rring[i]
      /\ rring'[Len(rring) + 1] = rcount'
  BY <1>1, <1>2, AppendProperties
<1>4. rpc \notin {"pcm", "pfds", "open"}
  BY <1>1 DEF RInv, RPlaceInv
<1>5. RTypeInv' /\ RPlaceInv'
  BY <1>1, <1>2, <1>3, <1>4 DEF RInv, RTypeInv, RPlaceInv
<1>6. RTaken' = RTaken /\ RTaken \in Nat
  BY <1>1 DEF RTaken, RInHand, RInv, RTypeInv
<1>7. ROrderInv'
  <2>1. ASSUME ~rcut
        PROVE  /\ \A i \in 1..Len(rring') : rring'[i] = RTaken + i
               /\ rcount' = RTaken + Len(rring')
    <3>1. rcount = RTaken + Len(rring) /\ \A i \in 1..Len(rring) : rring[i] = RTaken + i
      BY <1>4, <2>1 DEF RInv, ROrderInv
    <3>2. rcount' = RTaken + Len(rring')
      BY <1>1, <1>2, <1>3, <1>6, <3>1
    <3>3. ASSUME NEW i \in 1..Len(rring') PROVE rring'[i] = RTaken + i
      <4>1. i \in 1..Len(rring) \/ i = Len(rring) + 1
        BY <1>2, <1>3
      <4> QED  BY <1>2, <1>3, <1>6, <3>1, <3>2, <4>1
    <3> QED  BY <3>2, <3>3
  <2> QED  BY <1>1, <1>4, <1>6, <2>1 DEF RInv, ROrderInv, RInHand
<1> QED  BY <1>5, <1>7 DEF RInv

(* The steps that leave the frames where they are.                         *)
LEMMA RQuietStep ==
    ASSUME RInv, RPlaceInv', UNCHANGED <<rring, rcount, rbuf, rcut, rfile>>, rspace' \in Nat,
           RInHand' <=> RInHand,
           rpc' \notin {"pcm", "pfds", "open"} => rpc \notin {"pcm", "pfds", "open"}
    PROVE  RInv'
BY DEF RInv, RTypeInv, ROrderInv, RTaken

LEMMA RSetUpStep ==
    ASSUME RInv, NEW p, NEW at \in {"pcm", "pfds"}, NEW next \in {"pfds", "open"},
           R!SetUp(p, at, next)
    PROVE  RInv'
<1>1. /\ rpc = at /\ rpc' \in {at, next} /\ rhpc = "none" /\ rdev' \in {rdev, "stopped"}
      /\ UNCHANGED <<rprog, rhpc, rpending, rring, rcount, rfile, rbuf, rspace, rcut>>
      /\ rfile \in {R!NoFile, <<>>} /\ rring = <<>> /\ rcount = 0
  BY DEF R!SetUp, R!At, R!Exit, R!fileVars, R!devVars, RInv, RPlaceInv
<1>2. RPlaceInv'
  BY <1>1 DEF RInv, RPlaceInv
<1> QED  BY <1>1, <1>2, RQuietStep DEF RInHand, RInv, RTypeInv

LEMMA ROpenStep ==
    ASSUME RInv, NEW p, NEW next \in {"first", "start"}, R!OpenFile(p, next)
    PROVE  RInv'
<1>0. <<>> \in Seq(Nat) /\ Len(<<>>) = 0 /\ <<0>> \in Seq(Nat)
  OBVIOUS
<1>1. /\ rpc = "open" /\ rpc' \in {"open", next} /\ rhpc = "none" /\ rdev' \in {rdev, "stopped"}
      /\ UNCHANGED <<rprog, rhpc, rpending, rring, rcount, rbuf, rspace, rcut>>
      /\ rfile' \in {R!NoFile, <<>>} /\ rring = <<>> /\ rcount = 0
      /\ rpc' = next => rfile' = <<>>
  BY DEF R!OpenFile, R!At, R!Exit, R!fileVars, R!devVars, RInv, RPlaceInv
<1>2. RPlaceInv'
  BY <1>1 DEF RInv, RPlaceInv
<1>3. RTypeInv'
  BY <1>0, <1>1 DEF RInv, RTypeInv, R!NoFile
<1>4. ROrderInv'
  BY <1>0, <1>1 DEF ROrderInv, RTaken, RInHand
<1> QED  BY <1>2, <1>3, <1>4 DEF RInv

(* Starting, waiting and looking at the ring.                              *)
LEMMA RWaitStep ==
    ASSUME RInv, \/ R!PollStart \/ R!AsyncStart \/ R!CaptureFirst \/ R!PollWait \/ R!PollCheck
                 \/ R!CallbackEnter \/ R!CallbackCheck \/ R!MakeRoom
    PROVE  RInv'
<1>1. CASE R!PollStart \/ R!AsyncStart \/ R!CaptureFirst \/ R!PollWait \/ R!PollCheck
  <2>1. /\ rpc \in {"start", "first", "poll", "check"}
        /\ rpc' \in {"start", "poll", "sleep", "read", "check"} /\ (rprog = "async" => rpc' # "write")
        /\ UNCHANGED <<rprog, rhpc, rpending, rring, rcount, rfile, rbuf, rspace, rcut>>
    BY <1>1 DEF R!PollStart, R!AsyncStart, R!Start, R!CaptureFirst, R!PollWait, R!PollCheck,
       R!At, R!Exit, R!fileVars, R!devVars
  <2>2. RPlaceInv'
    BY <2>1 DEF RInv, RPlaceInv
  <2> QED  BY <2>1, <2>2, RQuietStep DEF RInHand, RInv, RTypeInv
<1>2. CASE R!CallbackEnter \/ R!CallbackCheck
  <2>1. /\ rhpc # "write" /\ rhpc' \in {"none", "check", "read"}
        /\ UNCHANGED <<rprog, rpc, rdev, rring, rcount, rfile, rbuf, rspace, rcut>>
        /\ rpending' \in {rpending, FALSE}
        /\ rpending \/ rhpc # "none"
    BY <1>2 DEF R!CallbackEnter, R!CallbackCheck, R!fileVars, R!devVars
  <2>2. RPlaceInv'
    BY <2>1 DEF RInv, RPlaceInv
  <2> QED  BY <2>1, <2>2, RQuietStep DEF RInHand, RInv, RTypeInv
<1>3. CASE R!MakeRoom
  <2>1. /\ UNCHANGED <<rprog, rpc, rhpc, rpending, rdev, rring, rcount, rfile, rbuf, rcut>>
        /\ rspace' = Disk
    BY <1>3 DEF R!MakeRoom, R!devVars
  <2>2. RPlaceInv'
    BY <2>1 DEF RInv, RPlaceInv
  <2> QED  BY <2>1, <2>2, RQuietStep, DiskAssumption DEF RInHand
<1> QED  BY <1>1, <1>2, <1>3

(* A read, of main or of the handler.                                      *)
LEMMA RReadStep ==
    ASSUME RInv, \/ R!CaptureRead \/ R!PollRead \/ R!CallbackRead
    PROVE  RInv'
<1>1. CASE R!CaptureRead \/ R!PollRead
  <2>1. PICK n \in 1..Period, p \in {"capture", "poll"} : R!MainRead(p, n)
    <3>1. Period \in 1..Period
      BY PeriodAssumption
    <3> QED  BY <1>1, <3>1 DEF R!CaptureRead, R!PollRead
  <2>2. rpc = "read" /\ rhpc = "none" /\ rprog = p /\ UNCHANGED <<rprog, rhpc, rpending>>
    BY <2>1 DEF R!MainRead, R!At
  <2>3. CASE R!ReadFrames(n) /\ rpc' = "write"
    <3>1. RPlaceInv'
      BY <2>2, <2>3 DEF RInv, RPlaceInv
    <3> QED  BY <2>2, <2>3, <3>1, RReadOrder DEF RInv, RInHand
  <2>4. CASE R!ReadFails /\ rpc' = rpc
    <3>1. UNCHANGED <<rring, rcount, rfile, rbuf, rspace, rcut>>
      BY <2>4 DEF R!ReadFails, R!Exit, R!fileVars
    <3>2. RPlaceInv'
      BY <2>2, <2>4, <3>1 DEF RInv, RPlaceInv
    <3> QED  BY <2>2, <2>4, <3>1, <3>2, RQuietStep DEF RInHand, RInv, RTypeInv
  <2> QED  BY <2>1, <2>3, <2>4 DEF R!MainRead
<1>2. CASE R!CallbackRead
  <2>1. rhpc = "read" /\ UNCHANGED <<rprog, rpc, rpending>>
    BY <1>2 DEF R!CallbackRead
  <2>2. rprog = "async" /\ rpc \notin {"pcm", "pfds", "open", "write"}
    BY <2>1 DEF RInv, RPlaceInv
  <2>3. CASE R!ReadFrames(Period) /\ rhpc' = "write"
    <3>1. RPlaceInv' /\ Period \in 1..Period
      BY <2>1, <2>2, <2>3, PeriodAssumption DEF RInv, RPlaceInv
    <3> QED  BY <2>1, <2>2, <2>3, <3>1, RReadOrder DEF RInv, RInHand
  <2>4. CASE R!ReadFails /\ rhpc' = rhpc
    <3>1. UNCHANGED <<rring, rcount, rfile, rbuf, rspace, rcut>>
      BY <2>4 DEF R!ReadFails, R!Exit, R!fileVars
    <3>2. RPlaceInv'
      BY <2>1, <2>2, <2>4, <3>1 DEF RInv, RPlaceInv
    <3> QED  BY <2>1, <2>4, <3>1, <3>2, RQuietStep DEF RInHand, RInv, RTypeInv
  <2> QED  BY <1>2, <2>3, <2>4 DEF R!CallbackRead
<1> QED  BY <1>1, <1>2

LEMMA RWriteStep ==
    ASSUME RInv, \/ R!CaptureWrite \/ R!PollWrite \/ R!CallbackWrite
    PROVE  RInv'
<1>1. CASE R!CaptureWrite \/ R!PollWrite
  <2>1. PICK p \in {"capture", "poll"}, next \in {"read", "check"} : R!MainWrite(p, next)
    BY <1>1 DEF R!CaptureWrite, R!PollWrite
  <2>2. rpc = "write" /\ rhpc = "none" /\ UNCHANGED <<rprog, rhpc, rpending>>
    BY <2>1 DEF R!MainWrite, R!At
  <2>3. CASE R!WriteFile /\ rpc' = next
    <3>1. RPlaceInv'
      BY <2>2, <2>3 DEF RInv, RPlaceInv
    <3> QED  BY <2>2, <2>3, <3>1, RWriteOrder DEF RInv, RInHand
  <2>4. CASE R!WriteFails /\ rpc' = rpc
    <3>1. UNCHANGED <<rring, rcount, rfile, rbuf, rspace, rcut>>
      BY <2>4 DEF R!WriteFails, R!Exit, R!fileVars
    <3>2. RPlaceInv'
      BY <2>2, <2>4, <3>1 DEF RInv, RPlaceInv
    <3> QED  BY <2>2, <2>4, <3>1, <3>2, RQuietStep DEF RInHand, RInv, RTypeInv
  <2> QED  BY <2>1, <2>3, <2>4 DEF R!MainWrite
<1>2. CASE R!CallbackWrite
  <2>1. rhpc = "write" /\ UNCHANGED <<rprog, rpc, rpending>>
    BY <1>2 DEF R!CallbackWrite
  <2>2. rprog = "async" /\ rpc \notin {"pcm", "pfds", "open", "write"}
    BY <2>1 DEF RInv, RPlaceInv
  <2>3. CASE R!WriteFile /\ rhpc' = "check"
    <3>1. RPlaceInv'
      BY <2>1, <2>2, <2>3 DEF RInv, RPlaceInv
    <3> QED  BY <2>1, <2>2, <2>3, <3>1, RWriteOrder DEF RInv, RInHand
  <2>4. CASE R!WriteFails /\ rhpc' = rhpc
    <3>1. UNCHANGED <<rring, rcount, rfile, rbuf, rspace, rcut>>
      BY <2>4 DEF R!WriteFails, R!Exit, R!fileVars
    <3>2. RPlaceInv'
      BY <2>1, <2>2, <2>4, <3>1 DEF RInv, RPlaceInv
    <3> QED  BY <2>1, <2>4, <3>1, <3>2, RQuietStep DEF RInHand, RInv, RTypeInv
  <2> QED  BY <1>2, <2>3, <2>4 DEF R!CallbackWrite
<1> QED  BY <1>1, <1>2

LEMMA RStepInv == RInv /\ [R!Next]_(R!vars) => RInv'
<1> SUFFICES ASSUME RInv, [R!Next]_(R!vars) PROVE RInv'
  OBVIOUS
<1>1. CASE UNCHANGED R!vars
  <2>1. UNCHANGED <<rprog, rpc, rhpc, rpending, rdev, rring, rcount, rfile, rbuf, rspace, rcut>>
    BY <1>1 DEF R!vars, R!devVars, R!fileVars
  <2> QED  BY <2>1 DEF RInv, RTypeInv, RPlaceInv, ROrderInv, RTaken, RInHand
<1>2. CASE R!CaptureInit \/ R!PollInit \/ R!PollPfds \/ R!AsyncInit
  BY <1>2, RSetUpStep DEF R!CaptureInit, R!PollInit, R!PollPfds, R!AsyncInit
<1>3. CASE R!CaptureOpen \/ R!PollOpen \/ R!AsyncOpen
  BY <1>3, ROpenStep DEF R!CaptureOpen, R!PollOpen, R!AsyncOpen
<1>4. CASE R!Record
  BY <1>4, RRecordOrder
<1> QED
  BY <1>1, <1>2, <1>3, <1>4, RWaitStep, RReadStep, RWriteStep
     DEF R!Next, R!Capture, R!Poll, R!Async, R!AsyncSleep, R!Terminated, R!AllRead

(* What a recorder has written is what was recorded, in order and without  *)
(* a gap, as long as no write was short.                                   *)
THEOREM RecorderWritesAll == R!Spec => []FileIsCapture
<1>1. RInv => FileIsCapture
  <2> SUFFICES ASSUME RInv, rfile # R!NoFile, ~rcut, NEW i \in 1..Len(rfile) PROVE rfile[i] = i
    BY DEF FileIsCapture, R!FileIsCapture
  <2>1. rpc \in {"pcm", "pfds", "open"} => rfile = <<>> /\ Len(<<>>) = 0
    BY DEF RInv, RPlaceInv
  <2>2. rpc \notin {"pcm", "pfds", "open"}
    BY <2>1
  <2> QED  BY <2>2 DEF RInv, ROrderInv
<1> QED  BY <1>1, RInitInv, RStepInv, PTL DEF R!Spec
=============================================================================
