---------------------------- MODULE PcmRecorder ----------------------------
(***************************************************************************)
(* The recorders of 28_audio.  They take a period out of the ring buffer   *)
(* of the sound card and append it to a new file; they wait for the period *)
(*                                                                         *)
(*   capture   in snd_pcm_readi (pcm_capture.c);                           *)
(*   poll      in poll (pcm_poll_capture.c);                               *)
(*   async     in a SIGIO handler, main sleeping (pcm_async_capture.c).    *)
(*                                                                         *)
(* The card records one frame after another and stops with an overrun when *)
(* the ring is full.  The frames recorded are numbered from 1.  The disk   *)
(* has room for a while, and somebody may make new room.                   *)
(***************************************************************************)
EXTENDS Integers, Sequences

CONSTANTS
    Recorders,  \* the programs looked at
    Period,     \* frames per period and per read (1024 in the code)
    Buffer,     \* frames in the ring buffer (16 * 1024)
    Disk,       \* free frames on the disk when there is room
    UIntMod,    \* 2^w: the width of unsigned int
    Total       \* bound: the frames looked at

EPIPE == 32

VARIABLES
    prog,     \* the program that runs
    pc,       \* main: what it does next
    hpc,      \* snd_capture_async_callback: the same, "none" if not running
    pending,  \* SIGIO is pending
    dev,      \* state of the PCM
    ring,     \* the frames recorded and not yet read
    count,    \* history: the number of frames recorded
    file,     \* the capture file, <<0>> before it is created
    buf,      \* buf and ret_frame: the frames read
    space,    \* free frames on the disk
    cut,      \* history: a write was short
    ended     \* the program has ended

devVars  == <<dev, ring, count>>
fileVars == <<file, buf, space, cut>>
vars     == <<prog, pc, hpc, pending, devVars, fileVars, ended>>

NoFile == <<0>>

Init ==
    /\ prog \in Recorders /\ pc = "pcm" /\ hpc = "none" /\ pending = FALSE
    /\ dev = "prepared" /\ ring = <<>> /\ count = 0
    /\ file = NoFile /\ buf = <<>> /\ space = Disk /\ cut = FALSE
    /\ ended = FALSE

Live      == ~ended
At(p, at) == Live /\ hpc = "none" /\ prog = p /\ pc = at
Exit      == ended' = TRUE /\ dev' = "stopped" /\ UNCHANGED <<ring, count>>
-----------------------------------------------------------------------------
(* A function of the set-up: it goes on or exits.                          *)
SetUp(p, at, next) ==
    /\ At(p, at)
    /\ \/ pc' = next /\ UNCHANGED <<devVars, ended>>
       \/ Exit /\ UNCHANGED pc
    /\ UNCHANGED <<prog, hpc, pending, fileVars>>

(* open with O_CREAT | O_EXCL, then malloc.                                *)
OpenFile(p, next) ==
    /\ At(p, "open")
    /\ \/ file' = <<>> /\ pc' = next /\ UNCHANGED <<devVars, ended>>
       \/ file' \in {NoFile, <<>>} /\ Exit /\ UNCHANGED pc
    /\ UNCHANGED <<prog, hpc, pending, buf, space, cut>>

(* snd_pcm_start, once everything the handler uses is there.               *)
Start(p, next) ==
    /\ At(p, "start")
    /\ \/ dev' = "running" /\ pc' = next /\ UNCHANGED <<ring, count, ended>>
       \/ Exit /\ UNCHANGED pc
    /\ UNCHANGED <<prog, hpc, pending, fileVars>>

(* snd_pcm_avail_update(), negative after an overrun, assigned to the      *)
(* unsigned int read_frame.                                                *)
AvailUpdate == IF dev = "xrun" THEN -EPIPE ELSE Len(ring)

Readable == AvailUpdate % UIntMod >= Period

(* snd_pcm_readi: takes n frames out of the ring.                          *)
ReadFrames(n) ==
    /\ dev = "running" /\ n <= Len(ring)
    /\ buf' = SubSeq(ring, 1, n)
    /\ ring' = SubSeq(ring, n + 1, Len(ring))
    /\ UNCHANGED <<dev, count, file, space, cut, ended>>

ReadFails == dev # "running" /\ Exit /\ UNCHANGED fileVars

(* Mutant: the whole of buf is written, whatever was read.                 *)
WriteWhole ==
    /\ space > 0
    /\ file' = file \o [i \in 1..Period |-> IF i <= Len(buf) THEN buf[i] ELSE 0]
    /\ space' = IF space > Period THEN space - Period ELSE 0
    /\ UNCHANGED <<buf, cut, devVars, ended>>

(* write: what fits; the rest is not tried again.                          *)
WriteFile ==
    /\ space > 0
    /\ LET n == IF Len(buf) < space THEN Len(buf) ELSE space
       IN  /\ file' = file \o SubSeq(buf, 1, n)
           /\ space' = space - n
           /\ cut' = (cut \/ n < Len(buf))
    /\ UNCHANGED <<buf, devVars, ended>>

WriteFails == space = 0 /\ Exit /\ UNCHANGED fileVars

MainRead(p, n) ==
    /\ At(p, "read")
    /\ \/ ReadFrames(n) /\ pc' = "write"
       \/ ReadFails /\ UNCHANGED pc
    /\ UNCHANGED <<prog, hpc, pending>>

MainWrite(p, next) ==
    /\ At(p, "write")
    /\ \/ WriteFile /\ pc' = next
       \/ WriteFails /\ UNCHANGED pc
    /\ UNCHANGED <<prog, hpc, pending>>
-----------------------------------------------------------------------------
(* pcm_capture.c: the first read starts the stream; a read waits for its   *)
(* frames, and returns with fewer when it is interrupted.                  *)
CaptureInit == SetUp("capture", "pcm", "open")
CaptureOpen == OpenFile("capture", "first")
CaptureFirst ==
    /\ At("capture", "first")
    /\ dev' = "running" /\ pc' = "read"
    /\ UNCHANGED <<prog, hpc, pending, ring, count, fileVars, ended>>
CaptureRead  == \E n \in 1..Period : MainRead("capture", n)
CaptureWrite == MainWrite("capture", "read")
Capture      == CaptureInit \/ CaptureOpen \/ CaptureFirst \/ CaptureRead \/ CaptureWrite
-----------------------------------------------------------------------------
(* pcm_poll_capture.c                                                      *)
PollInit     == SetUp("poll", "pcm", "pfds")
PollPfds     == SetUp("poll", "pfds", "open")
PollOpen     == OpenFile("poll", "start")
PollStart    == Start("poll", "poll")
PollWait ==
    /\ At("poll", "poll")
    /\ \/ dev = "xrun" /\ Exit /\ UNCHANGED pc
       \/ dev = "running" /\ AvailUpdate >= Period /\ pc' = "check" /\ UNCHANGED <<devVars, ended>>
    /\ UNCHANGED <<prog, hpc, pending, fileVars>>
PollCheck ==
    /\ At("poll", "check")
    /\ pc' = IF Readable THEN "read" ELSE "poll"
    /\ UNCHANGED <<prog, hpc, pending, devVars, fileVars, ended>>
PollRead     == MainRead("poll", Period)
PollWrite    == MainWrite("poll", "check")
Poll         == PollInit \/ PollPfds \/ PollOpen \/ PollStart \/ PollWait \/ PollCheck \/ PollRead
                \/ PollWrite
-----------------------------------------------------------------------------
(* pcm_async_capture.c: main sleeps, the handler does the work.            *)
AsyncInit  == SetUp("async", "pcm", "open")
AsyncOpen  == OpenFile("async", "start")
AsyncStart == Start("async", "sleep")
AsyncSleep == At("async", "sleep") /\ UNCHANGED vars

CallbackEnter ==
    /\ Live /\ hpc = "none" /\ pending
    /\ pending' = FALSE /\ hpc' = "check"
    /\ UNCHANGED <<prog, pc, devVars, fileVars, ended>>
CallbackCheck ==
    /\ Live /\ hpc = "check"
    /\ hpc' = IF Readable THEN "read" ELSE "none"
    /\ UNCHANGED <<prog, pc, pending, devVars, fileVars, ended>>
CallbackRead ==
    /\ Live /\ hpc = "read"
    /\ \/ ReadFrames(Period) /\ hpc' = "write"
       \/ ReadFails /\ UNCHANGED hpc
    /\ UNCHANGED <<prog, pc, pending>>

(* Mutant: one period per signal.                                          *)
CallbackWriteOnce ==
    /\ Live /\ hpc = "write"
    /\ \/ WriteFile /\ hpc' = "none"
       \/ WriteFails /\ UNCHANGED hpc
    /\ UNCHANGED <<prog, pc, pending>>

CallbackWrite ==
    /\ Live /\ hpc = "write"
    /\ \/ WriteFile /\ hpc' = "check"
       \/ WriteFails /\ UNCHANGED hpc
    /\ UNCHANGED <<prog, pc, pending>>

Async == AsyncInit \/ AsyncOpen \/ AsyncStart \/ AsyncSleep \/ CallbackEnter
         \/ CallbackCheck \/ CallbackRead \/ CallbackWrite
-----------------------------------------------------------------------------
(* The card records a frame; a ring that is full is an overrun.  The end   *)
(* of a period and an overrun raise SIGIO in the program that asked for it.*)
Record ==
    /\ Live /\ dev = "running" /\ count < Total
    /\ count' = count + 1
    /\ ring' = Append(ring, count')
    /\ dev' = IF Len(ring) + 1 = Buffer THEN "xrun" ELSE "running"
    /\ pending' = (\/ pending
                   \/ prog = "async" /\ (Len(ring) + 1 = Buffer \/ count' % Period = 0))
    /\ UNCHANGED <<prog, pc, hpc, fileVars, ended>>

MakeRoom ==
    /\ Live /\ space < Disk /\ space' = Disk
    /\ UNCHANGED <<prog, pc, hpc, pending, devVars, file, buf, cut, ended>>

Terminated == ended /\ UNCHANGED vars
(* Bound: nothing happens any more when Total frames are recorded and read.*)
AllRead    == count = Total /\ UNCHANGED vars

Next == Capture \/ Poll \/ Async \/ Record \/ MakeRoom \/ Terminated \/ AllRead

Spec     == Init /\ [][Next]_vars
Fairness == WF_vars(Capture) /\ WF_vars(Poll) /\ WF_vars(Async) /\ WF_vars(Record)
FairSpec == Spec /\ Fairness
-----------------------------------------------------------------------------
(* The file holds what was recorded, in order and without a gap, unless a  *)
(* write was short: its rest is lost, and the program notices only if the  *)
(* disk is still full at the next write.                                   *)
FileIsCapture == file # NoFile /\ ~cut => \A i \in 1..Len(file) : file[i] = i

(* A recorder keeps up or ends: no full period stays unread in the ring,   *)
(* and no overrun leaves the program waiting for frames that never come.   *)
KeepsRecording ==
    (dev = "xrun" \/ Len(ring) >= Period) ~> (~Live \/ (dev # "xrun" /\ Len(ring) < Period))
=============================================================================
