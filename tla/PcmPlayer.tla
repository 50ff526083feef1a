------------------------------ MODULE PcmPlayer ------------------------------
(***************************************************************************)
(* The WAV players of 28_audio and of 33_mqtt.  All of them read a period  *)
(* of the file into buf and write it to the ring buffer of the sound card, *)
(* and give back to the file what the card did not take.  They differ in   *)
(* how they wait for room in the ring:                                     *)
(*                                                                         *)
(*   playback  in the write itself (pcm_playback.c);                       *)
(*   poll      in poll (pcm_poll_playback.c);                              *)
(*   async     in a SIGIO handler that refills the ring while main sleeps  *)
(*             (pcm_async_playback.c);                                     *)
(*   ctl, mixer, mqtt   the same, with main reading keys, SIGIO blocked    *)
(*             until the ring has been filled once, and in the last two a  *)
(*             volume (pcm_async_playback_ctl.c, _ctl_mixer.c, and         *)
(*             _ctl_mixer_mqtt.c, which reads the keys from a FIFO).       *)
(*                                                                         *)
(* The handler preempts main at any instruction and shares with it buf and *)
(* the file position of fd.  The sound card plays one frame after another, *)
(* raises SIGIO at the end of every period, and stops with an underrun     *)
(* when the ring is empty.  A frame of the file is its number, 0 is        *)
(* silence.  The file holds whole frames; formats are left out.            *)
(***************************************************************************)
EXTENDS Integers, Sequences

CONSTANTS
    Programs,   \* the players looked at
    Period,     \* frames per period and per refill (1024 in the code)
    Buffer,     \* frames in the ring buffer (16 * 1024)
    Lens,       \* the file lengths looked at, in frames
    UIntMod,    \* 2^w: the width of unsigned int
    MaxVolume   \* the highest volume of the mixer element, the lowest is 0

Keyed == {"ctl", "mixer", "mqtt"}
Async == {"async"} \union Keyed
Mixed == {"mixer", "mqtt"}

EPIPE == 32

ASSUME ProgramAssumption == Programs \subseteq {"playback", "poll"} \union Async
ASSUME PeriodAssumption  == Period \in Nat \ {0}
ASSUME BufferAssumption  == Buffer \in Nat /\ Buffer >= 2 * Period
ASSUME LensAssumption    == Lens \subseteq Nat
ASSUME UIntAssumption    == UIntMod \in Nat /\ UIntMod > EPIPE + Buffer + Period
ASSUME VolumeAssumption  == MaxVolume \in Nat

VARIABLES
    prog,     \* the program that runs
    len,      \* frames in the file
    pos,      \* file position of fd, in frames
    bufState, \* buf: "null", "malloced" or "freed"
    buf,      \* the frames in buf
    mpc,      \* main: what it does next
    mret,     \* main: ret_bytes, in frames
    cause,    \* main: why it left its loop
    hpc,      \* snd_playback_async_callback: the same, "none" if not running
    hret,     \* snd_playback_async_callback: ret_bytes, in frames
    blocked,  \* SIGIO is in the signal mask of the process
    pending,  \* SIGIO is pending
    dev,      \* state of the PCM
    ring,     \* the frames written and not yet played
    played,   \* history: the frames played
    tty,      \* the terminal: "cooked" or "raw"
    volume,   \* the volume of playback_vol_elem, -1 if there is none
    ended,    \* why the program ended, "no" while it runs
    early     \* history: the handler has interrupted the main of async outside of its
              \* last loop

fileVars    == <<prog, len, pos, bufState, buf>>
mainVars    == <<mpc, mret, cause, blocked>>
handlerVars == <<hpc, hret, early>>
devVars     == <<dev, ring, played>>
userVars    == <<tty, volume>>
vars == <<fileVars, mainVars, handlerVars, pending, devVars, userVars, ended>>

Least(a, b) == IF a < b THEN a ELSE b
Silence     == [n \in 1..Period |-> 0]

Init ==
    /\ prog \in Programs
    /\ len \in Lens /\ pos = 0
    /\ bufState = "null" /\ buf = Silence
    /\ mpc = "wav" /\ mret = 0 /\ cause = "none"
    /\ hpc = "none" /\ hret = 0 /\ early = FALSE
    /\ blocked = FALSE /\ pending = FALSE
    /\ dev = "prepared" /\ ring = <<>> /\ played = <<>>
    /\ tty = "cooked" /\ volume = -1
    /\ ended = "no"
-----------------------------------------------------------------------------
(***************************************************************************)
(* The refill, the same text in every main and every handler: check, read, *)
(* write, and again.                                                       *)
(***************************************************************************)
(* snd_pcm_avail_update(): an error code when the stream has underrun.     *)
AvailUpdate == IF dev = "xrun" THEN -EPIPE ELSE Buffer - Len(ring)

(* Mutant: any free frame is enough.                                       *)
RefillableEarly == AvailUpdate % UIntMod >= 1

(* The loops assign it to the unsigned int write_frame, which turns the    *)
(* error into a large number: the loop goes on and snd_pcm_writei fails.   *)
Refillable == AvailUpdate % UIntMod >= Period

AtEof == pos = len

(* memset, read: ret is what read returns.                                 *)
Read(ret) ==
    /\ ret = Least(Period, len - pos)
    /\ buf' = [n \in 1..Period |-> IF n <= ret THEN pos + n ELSE 0]
    /\ pos' = pos + ret
    /\ UNCHANGED <<prog, len, bufState>>

(* snd_pcm_writei is given ret frames and accepts n of them, waiting for   *)
(* the room; the rest is given back to the file with lseek.  The first     *)
(* write starts the stream.                                                *)
Write(n, ret) ==
    /\ n \in 1..ret
    /\ Len(ring) + n <= Buffer
    /\ ring' = ring \o SubSeq(buf, 1, n)
    /\ pos' = pos - (ret - n)
    /\ dev' = IF dev = "prepared" THEN "running" ELSE dev
    /\ UNCHANGED <<prog, len, bufState, buf, played>>

Writable == dev \in {"prepared", "running", "paused"}
-----------------------------------------------------------------------------
(***************************************************************************)
(* The steps of main.                                                      *)
(***************************************************************************)
Live     == ended = "no"
At(p, pc) == Live /\ hpc = "none" /\ prog = p /\ mpc = pc

(* A signal that is pending and not blocked is delivered, at the latest,   *)
(* when the system call during which it came returns.                      *)
Deliverable == pending /\ ~blocked

(* Out of a loop: err2 stops the stream, the others free buf at once.      *)
Leave(p, why) ==
    /\ mpc' = IF p \in Keyed THEN "drop" ELSE "free"
    /\ cause' = why

(* A function of the set-up: it goes on, or closes what it opened and      *)
(* exits.                                                                  *)
SetUp(p, at, next) ==
    /\ At(p, at)
    /\ \/ mpc' = next /\ UNCHANGED ended
       \/ ended' = "setup" /\ UNCHANGED mpc
    /\ UNCHANGED <<fileVars, mret, cause, blocked, handlerVars, pending, devVars, userVars>>

Malloc(p, next) ==
    /\ At(p, "malloc")
    /\ \/ bufState' = "malloced" /\ mpc' = next /\ UNCHANGED cause
       \/ mpc' = "close" /\ cause' = "error" /\ UNCHANGED bufState
    /\ UNCHANGED <<prog, len, pos, buf, mret, blocked, handlerVars, pending, devVars, userVars, ended>>

Check(p, full) ==
    /\ At(p, "check")
    /\ mpc' = IF Refillable THEN "read" ELSE full
    /\ UNCHANGED <<fileVars, mret, cause, blocked, handlerVars, pending, devVars, userVars, ended>>

MainRead(p) ==
    /\ At(p, "read")
    /\ \/ ~AtEof /\ Read(mret') /\ mpc' = "write" /\ UNCHANGED cause
       \/ AtEof /\ Leave(p, "eof") /\ UNCHANGED <<fileVars, mret>>
       \/ Leave(p, "error") /\ UNCHANGED <<fileVars, mret>>
    /\ UNCHANGED <<blocked, handlerVars, pending, devVars, userVars, ended>>

MainWrite(p, next) ==
    /\ At(p, "write")
    /\ \/ Writable /\ (\E n \in 1..Period : Write(n, mret)) /\ mpc' = next /\ UNCHANGED cause
       \/ ~Writable /\ Leave(p, "error") /\ UNCHANGED <<fileVars, devVars>>
    /\ UNCHANGED <<mret, blocked, handlerVars, pending, userVars, ended>>

Free(p) ==
    /\ At(p, "free") /\ ~Deliverable
    /\ bufState' = "freed" /\ mpc' = "close"
    /\ UNCHANGED <<prog, len, pos, buf, mret, cause, blocked, handlerVars, pending, devVars,
                   userVars, ended>>

Close(p) ==
    /\ At(p, "close")
    /\ dev' = "stopped" /\ ring' = <<>>
    /\ ended' = cause
    /\ UNCHANGED <<fileVars, mainVars, handlerVars, pending, played, userVars>>

-----------------------------------------------------------------------------
(***************************************************************************)
(* The steps only the players with keys have.                              *)
(***************************************************************************)
(* Mutant: the first filling is not protected from the handler.            *)
BlockNothing(p) ==
    /\ At(p, "block")
    /\ mpc' = "malloc"
    /\ UNCHANGED <<fileVars, mret, cause, blocked, handlerVars, pending, devVars, userVars, ended>>

Block(p) ==
    /\ At(p, "block")
    /\ blocked' = TRUE /\ mpc' = "malloc"
    /\ UNCHANGED <<fileVars, mret, cause, handlerVars, pending, devVars, userVars, ended>>

(* tcsetattr without ICANON and ECHO; it fails on a FIFO, unnoticed.       *)
SetTerminal(p) ==
    /\ At(p, "tty")
    /\ tty' = IF p = "mqtt" THEN tty ELSE "raw"
    /\ mpc' = "check"
    /\ UNCHANGED <<fileVars, mret, cause, blocked, handlerVars, pending, devVars, volume, ended>>

(* pcm_mixer_init: the last element named Playback that has a volume, if   *)
(* there is one, is set to nine tenths and kept.                           *)
MixerInit(p) ==
    /\ At(p, "mixer")
    /\ \/ mpc' = "block" /\ volume' \in {-1, (MaxVolume * 9) \div 10} /\ UNCHANGED ended
       \/ ended' = "setup" /\ UNCHANGED <<mpc, volume>>
    /\ UNCHANGED <<fileVars, mret, cause, blocked, handlerVars, pending, devVars, tty>>

(* Mutant: the mask is left as it is.                                      *)
UnblockNothing(p) ==
    /\ At(p, "unblock")
    /\ mpc' = "keys"
    /\ UNCHANGED <<fileVars, mret, cause, blocked, handlerVars, pending, devVars, userVars, ended>>

Unblock(p) ==
    /\ At(p, "unblock")
    /\ blocked' = FALSE /\ mpc' = "keys"
    /\ UNCHANGED <<fileVars, mret, cause, handlerVars, pending, devVars, userVars, ended>>

KeyQuit(p) ==
    /\ At(p, "keys")
    /\ blocked' = TRUE /\ Leave(p, "quit")
    /\ UNCHANGED <<fileVars, mret, handlerVars, pending, devVars, userVars, ended>>

(* The state of the stream is read before the pause is asked for; the      *)
(* card, or the handler, may change it in between.                         *)
KeySpace(p) ==
    /\ At(p, "keys")
    /\ \/ dev = "running" /\ mpc' = "pause"
       \/ dev = "paused" /\ mpc' = "resume"
       \/ dev \notin {"running", "paused"} /\ UNCHANGED mpc
    /\ UNCHANGED <<fileVars, mret, cause, blocked, handlerVars, pending, devVars, userVars, ended>>

(* snd_pcm_pause: fails when the stream is no longer as it was, or when    *)
(* the card cannot pause; the error path does not block SIGIO first.       *)
Toggle(p, at, from, to) ==
    /\ At(p, at)
    /\ \/ dev = from /\ dev' = to /\ mpc' = "keys" /\ UNCHANGED cause
       \/ Leave(p, "error") /\ UNCHANGED dev
    /\ UNCHANGED <<fileVars, mret, blocked, handlerVars, pending, ring, played, userVars, ended>>

Pause(p)  == Toggle(p, "pause", "running", "paused")
Resume(p) == Toggle(p, "resume", "paused", "running")

(* The mixer refuses a volume out of its range, unnoticed.                 *)
KeyVolume(p, step) ==
    /\ At(p, "keys") /\ volume # -1
    /\ volume' = IF volume + step \in 0..MaxVolume THEN volume + step ELSE volume
    /\ UNCHANGED <<fileVars, mainVars, handlerVars, pending, devVars, tty, ended>>

(* Mutant: the stream is left running when buf is freed.                   *)
DropNothing(p) ==
    /\ At(p, "drop")
    /\ mpc' = "free" /\ tty' = "cooked"
    /\ UNCHANGED <<fileVars, mret, cause, blocked, handlerVars, pending, devVars, volume, ended>>

(* err2: stop the stream and restore the terminal.                         *)
Drop(p) ==
    /\ At(p, "drop")
    /\ dev' = "stopped" /\ ring' = <<>> /\ tty' = "cooked" /\ mpc' = "free"
    /\ UNCHANGED <<fileVars, mret, cause, blocked, handlerVars, pending, played, volume, ended>>
-----------------------------------------------------------------------------
(***************************************************************************)
(* snd_playback_async_callback, with SIGIO masked while it runs.           *)
(***************************************************************************)
Deliver(p) ==
    /\ Live /\ prog = p /\ hpc = "none" /\ Deliverable
    /\ pending' = FALSE /\ hpc' = "check"
    /\ early' = (early \/ (p = "async" /\ mpc # "sleep"))
    /\ UNCHANGED <<fileVars, mainVars, hret, devVars, userVars, ended>>

InHandler(p, pc) == Live /\ prog = p /\ hpc = pc

(* On a stream that was just dropped the free space is what the pointers   *)
(* of the ring happen to say.                                              *)
HandlerCheck(p) ==
    /\ InHandler(p, "check")
    /\ IF dev = "stopped" THEN hpc' \in {"read", "none"}
       ELSE hpc' = IF Refillable THEN "read" ELSE "none"
    /\ UNCHANGED <<fileVars, mainVars, hret, early, pending, devVars, userVars, ended>>

(* Mutant: exit without the tcsetattr.                                     *)
HandlerExitRaw(why) ==
    /\ ended' = why
    /\ bufState' = "freed"
    /\ dev' = "stopped" /\ ring' = <<>>
    /\ UNCHANGED <<prog, len, pos, buf, handlerVars, played, userVars>>

(* err1: restore the terminal, free, close and exit, without draining what *)
(* is in the ring.                                                         *)
HandlerExit(why) ==
    /\ ended' = why
    /\ tty' = "cooked" /\ bufState' = "freed"
    /\ dev' = "stopped" /\ ring' = <<>>
    /\ UNCHANGED <<prog, len, pos, buf, handlerVars, played, volume>>

HandlerRead(p) ==
    /\ InHandler(p, "read")
    /\ \/ /\ ~AtEof /\ Read(hret') /\ hpc' = "write"
          /\ UNCHANGED <<early, devVars, userVars, ended>>
       \/ AtEof /\ HandlerExit(IF dev = "stopped" THEN "error" ELSE "eof")
       \/ HandlerExit("error")
    /\ UNCHANGED <<mainVars, pending>>

HandlerWrite(p) ==
    /\ InHandler(p, "write")
    /\ \/ /\ Writable /\ \E n \in 1..Period : Write(n, hret)
          /\ hpc' = "check" /\ UNCHANGED <<hret, early, userVars, ended>>
       \/ ~Writable /\ HandlerExit("error")
    /\ UNCHANGED <<mainVars, pending>>

Handler(p) == Deliver(p) \/ HandlerCheck(p) \/ HandlerRead(p) \/ HandlerWrite(p)
-----------------------------------------------------------------------------
(***************************************************************************)
(* pcm_playback.c: no look at the free space, snd_pcm_writei waits for it. *)
(***************************************************************************)
PlaybackWav    == SetUp("playback", "wav", "pcm")
PlaybackPcm    == SetUp("playback", "pcm", "malloc")
PlaybackMalloc == Malloc("playback", "read")
PlaybackRead   == MainRead("playback")
PlaybackWrite  == MainWrite("playback", "read")
Playback       == PlaybackWav \/ PlaybackPcm \/ PlaybackMalloc \/ PlaybackRead \/ PlaybackWrite
-----------------------------------------------------------------------------
(***************************************************************************)
(* pcm_poll_playback.c: poll returns when a period is free, or at once and *)
(* with POLLERR when the stream has underrun.                              *)
(***************************************************************************)
PollWav    == SetUp("poll", "wav", "pcm")
PollPcm    == SetUp("poll", "pcm", "pollinit")
PollInit   == SetUp("poll", "pollinit", "malloc")
PollMalloc == Malloc("poll", "poll")

PollWait ==
    /\ At("poll", "poll")
    /\ \/ dev = "xrun" /\ Leave("poll", "error")
       \/ dev # "xrun" /\ AvailUpdate >= Period /\ mpc' = "check" /\ UNCHANGED cause
    /\ UNCHANGED <<fileVars, mret, blocked, handlerVars, pending, devVars, userVars, ended>>

PollCheck  == Check("poll", "poll")
PollRead   == MainRead("poll")
PollWrite  == MainWrite("poll", "check")
Poll       == PollWav \/ PollPcm \/ PollInit \/ PollMalloc \/ PollWait \/ PollCheck
              \/ PollRead \/ PollWrite
-----------------------------------------------------------------------------
(***************************************************************************)
(* pcm_async_playback.c: SIGIO is never blocked, so that from the first    *)
(* write on the handler may run between any two steps of main, until main  *)
(* sleeps for good.                                                        *)
(***************************************************************************)
AsyncWav      == SetUp("async", "wav", "pcm")
AsyncPcm      == SetUp("async", "pcm", "malloc")
AsyncMalloc   == Malloc("async", "check")
AsyncCheck    == Check("async", "sleep")
AsyncRead     == MainRead("async")
AsyncWrite    == MainWrite("async", "check")
AsyncSleep    == At("async", "sleep") /\ UNCHANGED vars
AsyncCallback == Handler("async")
AsyncMain     == AsyncWav \/ AsyncPcm \/ AsyncMalloc \/ AsyncCheck \/ AsyncRead \/ AsyncWrite
                 \/ AsyncSleep
-----------------------------------------------------------------------------
(***************************************************************************)
(* pcm_async_playback_ctl.c                                                *)
(***************************************************************************)
CtlWav      == SetUp("ctl", "wav", "pcm")
CtlPcm      == SetUp("ctl", "pcm", "block")
CtlBlock    == Block("ctl")
CtlMalloc   == Malloc("ctl", "tty")
CtlTerminal == SetTerminal("ctl")
CtlCheck    == Check("ctl", "unblock")
CtlRead     == MainRead("ctl")
CtlWrite    == MainWrite("ctl", "check")
CtlUnblock  == Unblock("ctl")
CtlKeys     == KeyQuit("ctl") \/ KeySpace("ctl")
CtlToggle   == Pause("ctl") \/ Resume("ctl")
CtlEnd      == Drop("ctl") \/ Free("ctl") \/ Close("ctl")
CtlCallback == Handler("ctl")
CtlMain     == CtlWav \/ CtlPcm \/ CtlBlock \/ CtlMalloc \/ CtlTerminal \/ CtlCheck \/ CtlRead
               \/ CtlWrite \/ CtlUnblock \/ CtlToggle \/ CtlEnd
-----------------------------------------------------------------------------
(***************************************************************************)
(* pcm_async_playback_ctl_mixer.c                                          *)
(***************************************************************************)
MixerWav      == SetUp("mixer", "wav", "pcm")
MixerPcm      == SetUp("mixer", "pcm", "mixer")
MixerMixer    == MixerInit("mixer")
MixerBlock    == Block("mixer")
MixerMalloc   == Malloc("mixer", "tty")
MixerTerminal == SetTerminal("mixer")
MixerCheck    == Check("mixer", "unblock")
MixerRead     == MainRead("mixer")
MixerWrite    == MainWrite("mixer", "check")
MixerUnblock  == Unblock("mixer")
MixerKeys     == KeyQuit("mixer") \/ KeySpace("mixer") \/ KeyVolume("mixer", 1) \/ KeyVolume("mixer", -1)
MixerToggle   == Pause("mixer") \/ Resume("mixer")
MixerEnd      == Drop("mixer") \/ Free("mixer") \/ Close("mixer")
MixerCallback == Handler("mixer")
MixerMain     == MixerWav \/ MixerPcm \/ MixerMixer \/ MixerBlock \/ MixerMalloc \/ MixerTerminal
                 \/ MixerCheck \/ MixerRead \/ MixerWrite \/ MixerUnblock \/ MixerToggle \/ MixerEnd
-----------------------------------------------------------------------------
(***************************************************************************)
(* pcm_async_playback_ctl_mixer_mqtt.c                                     *)
(***************************************************************************)
MqttWav      == SetUp("mqtt", "wav", "pcm")
MqttPcm      == SetUp("mqtt", "pcm", "mixer")
MqttMixer    == MixerInit("mqtt")
MqttBlock    == Block("mqtt")
MqttMalloc   == Malloc("mqtt", "tty")
MqttTerminal == SetTerminal("mqtt")
MqttCheck    == Check("mqtt", "unblock")
MqttRead     == MainRead("mqtt")
MqttWrite    == MainWrite("mqtt", "check")
MqttUnblock  == Unblock("mqtt")
MqttKeys     == KeyQuit("mqtt") \/ KeySpace("mqtt") \/ KeyVolume("mqtt", 1) \/ KeyVolume("mqtt", -1)
MqttToggle   == Pause("mqtt") \/ Resume("mqtt")
MqttEnd      == Drop("mqtt") \/ Free("mqtt") \/ Close("mqtt")
MqttCallback == Handler("mqtt")
MqttMain     == MqttWav \/ MqttPcm \/ MqttMixer \/ MqttBlock \/ MqttMalloc \/ MqttTerminal
                \/ MqttCheck \/ MqttRead \/ MqttWrite \/ MqttUnblock \/ MqttToggle \/ MqttEnd
-----------------------------------------------------------------------------
(* The card plays a frame.  An empty ring is an underrun, which raises     *)
(* SIGIO, in the programs that asked for it, like the end of a period.     *)
PlayFrame ==
    /\ Live /\ dev = "running"
    /\ played' = Append(played, Head(ring))
    /\ ring' = Tail(ring)
    /\ dev' = IF Len(ring) = 1 THEN "xrun" ELSE "running"
    /\ pending' = (\/ pending
                   \/ prog \in Async /\ (Len(ring) = 1 \/ Len(played') % Period = 0))
    /\ UNCHANGED <<fileVars, mainVars, handlerVars, userVars, ended>>

(* free and close, the end of the players without keys.                    *)
EndWithoutKeys == \E p \in Programs \ Keyed : Free(p) \/ Close(p)

Main     == Playback \/ Poll \/ AsyncMain \/ CtlMain \/ MixerMain \/ MqttMain \/ EndWithoutKeys
Keys     == CtlKeys \/ MixerKeys \/ MqttKeys
Callback == AsyncCallback \/ CtlCallback \/ MixerCallback \/ MqttCallback

Terminated == ~Live /\ UNCHANGED vars

Next == Main \/ Keys \/ Callback \/ PlayFrame \/ Terminated

Spec == Init /\ [][Next]_vars

(* main, the signal delivery and the card go on; nobody needs press a key. *)
Fairness == WF_vars(Main) /\ WF_vars(Callback) /\ WF_vars(PlayFrame)
FairSpec == Spec /\ Fairness
-----------------------------------------------------------------------------
(* The handler of async has run while main was reading, writing, or on its *)
(* way out: nothing there protects what they share.                        *)
Unprotected == prog = "async" /\ early

(* What is heard is the file, frame by frame, without a gap, a repetition  *)
(* or an exchange, although main and the handler read the same descriptor  *)
(* into the same buffer and writes may be short.  In async it holds as     *)
(* long as the handler has not met main outside of its last loop.          *)
InOrder ==
    \/ Unprotected
    \/ \A n \in 1..Len(played \o ring) : (played \o ring)[n] = n

(* The handler only ever runs on an allocated buf: the stream is not       *)
(* started before malloc and is stopped before free, on every path, also   *)
(* on those that leave SIGIO unblocked.                                    *)
BufUsable == Unprotected \/ (Live /\ hpc # "none" => bufState = "malloced")

(* At the end of the file nobody drains the ring, but where the read is    *)
(* made because a period is free, no more than the rest is cut off.        *)
TailLossBounded ==
    \/ Unprotected
    \/ ended = "eof" => len - Len(played) <= Buffer - (IF prog = "playback" THEN 0 ELSE Period)

(* Whoever ends the program, main or the handler, and whyever, the         *)
(* terminal is left as it was found.                                       *)
TerminalRestored == Live \/ tty = "cooked"

(* An underrun ends the program: it never sits silent with a stopped       *)
(* stream, because the error code is taken for free space and the write    *)
(* that follows fails, or because poll reports it.                         *)
UnderrunEnds == (dev = "xrun") ~> ~Live

(* A running stream is fed until the file is at its end, unless somebody   *)
(* pauses or ends it.                                                      *)
PlaysToTheEnd == (dev = "running") ~> (dev = "paused" \/ ~Live)
=============================================================================
