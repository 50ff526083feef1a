----------------------------- MODULE V4l2Camera -----------------------------
(***************************************************************************)
(* The camera viewer 33_mqtt/v4l2_mqtt.c, which the hub starts and later   *)
(* stops with SIGUSR1.  main maps the screen, sets the camera up, asks the *)
(* driver for frame buffers, maps and queues them, and then for ever takes *)
(* a filled buffer from the driver, copies it to the screen and gives it   *)
(* back.  The handler of SIGUSR1 may interrupt main between any two of its *)
(* calls: it stops the stream, unmaps and closes everything and exits.     *)
(*                                                                         *)
(* buf.index is both the loop counter and where VIDIOC_DQBUF says which    *)
(* buffer it has returned.  No ioctl of the streaming loop is looked at.   *)
(* Queries, formats and the frame rate are one step that works or ends the *)
(* program.  A copy from or a clearing of memory that is not mapped ends   *)
(* the program with a fault.                                               *)
(***************************************************************************)
EXTENDS Integers, FiniteSets

CONSTANT Frames   \* FRAME_BUF_COUNT, the buffers asked for

ASSUME FramesAssumption == Frames \in Nat \ {0}

VARIABLES
    pc,         \* where main or the handler is
    from,       \* history: where main was when the handler interrupted it
    handler,    \* the handler is installed
    pending,    \* SIGUSR1 has been sent
    lcd,        \* how far lcd_fd, screen_size and screen_base are set
    camOpen,    \* v4l2_fd is open
    granted,    \* kernel: how many buffers the driver has allocated
    mapped,     \* the buffers frm_base points to
    index,      \* buf.index
    streaming,  \* kernel: the stream is on
    queued,     \* kernel: buffers the camera may write to
    filled,     \* kernel: buffers that hold a frame
    missed,     \* history: a dequeue has failed
    refused     \* history: the buffers not queued because the driver refused one

lcdVars    == <<handler, pending, lcd>>
driverVars == <<granted, streaming, queued, filled>>
history    == <<missed, refused>>
vars       == <<pc, from, lcdVars, camOpen, mapped, index, driverVars, history>>

Buffers == 0..granted - 1
Held    == Buffers \ (queued \union filled)   \* the buffers the program has

Init ==
    /\ pc = "signals" /\ from = "none"
    /\ handler = FALSE /\ pending = FALSE
    /\ lcd = "closed"
    /\ camOpen = FALSE /\ granted = 0 /\ mapped = {} /\ index = 0
    /\ streaming = FALSE /\ queued = {} /\ filled = {}
    /\ missed = FALSE /\ refused = {}
-----------------------------------------------------------------------------
(***************************************************************************)
(* Setting up: v4l2_sig_init, lcd_init, v4l2_config_init.                  *)
(***************************************************************************)
SigInit ==
    /\ pc = "signals"
    /\ \/ handler' = TRUE /\ pc' = "lcd_open"
       \/ pc' = "exit" /\ UNCHANGED handler
    /\ UNCHANGED <<from, pending, lcd, camOpen, mapped, index, driverVars, history>>

LcdOpen ==
    /\ pc = "lcd_open"
    /\ \/ lcd' = "open" /\ pc' = "lcd_size"
       \/ pc' = "exit" /\ UNCHANGED lcd
    /\ UNCHANGED <<from, handler, pending, camOpen, mapped, index, driverVars, history>>

(* screen_size, width and height are set before the screen is mapped.      *)
LcdSize ==
    /\ pc = "lcd_size"
    /\ lcd' = "sized"
    /\ pc' = "lcd_map"
    /\ UNCHANGED <<from, handler, pending, camOpen, mapped, index, driverVars, history>>

LcdMap ==
    /\ pc = "lcd_map"
    /\ \/ lcd' = "mapped" /\ pc' = "cam_open"
       \/ lcd' = "failed" /\ pc' = "give_up"
    /\ UNCHANGED <<from, handler, pending, camOpen, mapped, index, driverVars, history>>

CamOpen ==
    /\ pc = "cam_open"
    /\ \/ camOpen' = TRUE /\ pc' = "cam_setup"
       \/ pc' = "give_up" /\ UNCHANGED camOpen
    /\ UNCHANGED <<from, lcdVars, mapped, index, driverVars, history>>

(* No camera, or a format the driver has changed: close and give up.       *)
CamSetup ==
    /\ pc = "cam_setup"
    /\ \/ pc' = "request" /\ UNCHANGED camOpen
       \/ pc' = "give_up" /\ camOpen' = FALSE
    /\ UNCHANGED <<from, lcdVars, mapped, index, driverVars, history>>

(* The driver may grant fewer buffers than it is asked for.                *)
RequestBuffers ==
    /\ pc = "request"
    /\ granted' \in 0..Frames
    /\ index' = 0 /\ pc' = "map"
    /\ UNCHANGED <<from, lcdVars, camOpen, mapped, streaming, queued, filled, history>>

(* Mutant: the loop ends before the last buffer.                           *)
MapAllButLast ==
    /\ pc = "map"
    /\ \/ /\ index + 1 < granted
          /\ mapped' = mapped \union {index} /\ index' = index + 1
          /\ UNCHANGED pc
       \/ /\ index + 1 >= granted
          /\ index' = 0 /\ pc' = "queue"
          /\ UNCHANGED mapped
    /\ UNCHANGED <<from, lcdVars, camOpen, driverVars, history>>

(* VIDIOC_QUERYBUF fails behind the last buffer, which ends the loop.      *)
MapBuffer ==
    /\ pc = "map"
    /\ \/ /\ index < granted
          /\ mapped' = mapped \union {index} /\ index' = index + 1
          /\ UNCHANGED <<pc, camOpen>>
       \/ /\ index < granted                    \* mmap fails
          /\ camOpen' = FALSE /\ pc' = "give_up"
          /\ UNCHANGED <<mapped, index>>
       \/ /\ index = granted
          /\ index' = 0 /\ pc' = "queue"
          /\ UNCHANGED <<mapped, camOpen>>
    /\ UNCHANGED <<from, lcdVars, driverVars, history>>

(* VIDIOC_QBUF fails behind the last buffer, which ends the loop; if the   *)
(* driver refuses one before that, the rest are not queued either.         *)
QueueBuffer ==
    /\ pc = "queue"
    /\ \/ /\ index < granted
          /\ queued' = queued \union {index} /\ index' = index + 1
          /\ UNCHANGED <<pc, refused>>
       \/ /\ refused' = index..granted - 1
          /\ pc' = "stream_on"
          /\ UNCHANGED <<queued, index>>
    /\ UNCHANGED <<from, lcdVars, camOpen, mapped, granted, streaming, filled, missed>>

(* STREAMON may fail, nobody looks; then the loop of v4l2_to_lcd starts.   *)
StreamOn ==
    /\ pc = "stream_on"
    /\ streaming' \in {FALSE, granted > 0}
    /\ index' = 0 /\ pc' = "dequeue"
    /\ UNCHANGED <<from, lcdVars, camOpen, mapped, granted, queued, filled, history>>
-----------------------------------------------------------------------------
(***************************************************************************)
(* v4l2_to_lcd.                                                            *)
(***************************************************************************)

(* Mutant: the frame is given back before it is copied.                    *)
DequeueAndRequeue ==
    /\ pc = "dequeue"
    /\ \/ /\ streaming
          /\ index' \in filled /\ filled' = filled \ {index'}
          /\ queued' = queued \union {index'}
          /\ UNCHANGED missed
       \/ missed' = TRUE /\ UNCHANGED <<index, queued, filled>>
    /\ pc' = "copy"
    /\ UNCHANGED <<from, lcdVars, camOpen, mapped, granted, streaming, refused>>

(* VIDIOC_DQBUF waits for a filled buffer and writes its index to buf; a   *)
(* failed one leaves buf alone.                                            *)
Dequeue ==
    /\ pc = "dequeue"
    /\ \/ /\ streaming
          /\ index' \in filled /\ filled' = filled \ {index'}
          /\ UNCHANGED missed
       \/ missed' = TRUE /\ UNCHANGED <<index, filled>>
    /\ pc' = "copy"
    /\ UNCHANGED <<from, lcdVars, camOpen, mapped, granted, streaming, queued, refused>>

Copy ==
    /\ pc = "copy"
    /\ pc' = IF index \in mapped THEN "requeue" ELSE "crashed"
    /\ UNCHANGED <<from, lcdVars, camOpen, mapped, index, driverVars, history>>

NextIndex == IF index + 1 < Frames THEN index + 1 ELSE 0

(* VIDIOC_QBUF hands a buffer to the driver, which may refuse it: nobody   *)
(* looks, and the buffer stays the program's.                              *)
QBuf(b) ==
    \/ queued' = queued \union {b} /\ refused' = refused \ {b}
    \/ UNCHANGED queued /\ refused' = refused \union {b}

(* Mutant: a counter of its own, not the dequeued index, is queued again.  *)
RequeueNext ==
    /\ pc = "requeue"
    /\ IF NextIndex \in Held THEN QBuf(NextIndex) ELSE UNCHANGED <<queued, refused>>
    /\ index' = NextIndex /\ pc' = "dequeue"
    /\ UNCHANGED <<from, lcdVars, camOpen, mapped, granted, streaming, filled, missed>>

(* A buffer that is not the program's is refused at any rate.              *)
Requeue ==
    /\ pc = "requeue"
    /\ IF index \in Held THEN QBuf(index) ELSE UNCHANGED <<queued, refused>>
    /\ index' = NextIndex /\ pc' = "dequeue"
    /\ UNCHANGED <<from, lcdVars, camOpen, mapped, granted, streaming, filled, missed>>

Exit ==
    /\ pc = "give_up"
    /\ pc' = "exit"
    /\ UNCHANGED <<from, lcdVars, camOpen, mapped, index, driverVars, history>>

Setup  == SigInit \/ LcdOpen \/ LcdSize \/ LcdMap \/ CamOpen \/ CamSetup
          \/ RequestBuffers \/ MapBuffer \/ QueueBuffer \/ StreamOn
Stream == Dequeue \/ Copy \/ Requeue
Main   == Setup \/ Stream \/ Exit
-----------------------------------------------------------------------------
(***************************************************************************)
(* v4l2_sig_handle: v4l2_exit, lcd_exit and exit.                          *)
(***************************************************************************)
HandlerPcs == {"stream_off", "unmap", "cam_close", "lcd_clear", "lcd_close"}
Ended      == pc \in {"exit", "killed", "crashed"}

(* The signal comes, at most one is pending, and interrupts main; without  *)
(* a handler it kills the program.  It is blocked while the handler runs.  *)
Kill ==
    /\ ~Ended /\ ~pending
    /\ pending' = TRUE
    /\ UNCHANGED <<pc, from, handler, lcd, camOpen, mapped, index, driverVars, history>>

Deliver ==
    /\ pending /\ ~Ended /\ pc \notin HandlerPcs
    /\ from' = pc
    /\ pc' = IF handler THEN "stream_off" ELSE "killed"
    /\ UNCHANGED <<lcdVars, camOpen, mapped, index, driverVars, history>>

(* Mutant: the index of the interrupted loop is not set back.              *)
StreamOffIndex ==
    /\ pc = "stream_off"
    /\ IF camOpen
       THEN streaming' = FALSE /\ queued' = {} /\ filled' = {}
       ELSE UNCHANGED <<streaming, queued, filled>>
    /\ pc' = "unmap"
    /\ UNCHANGED <<from, lcdVars, camOpen, mapped, index, granted, history>>

(* STREAMOFF takes every buffer away from the camera.                      *)
StreamOff ==
    /\ pc = "stream_off"
    /\ IF camOpen
       THEN streaming' = FALSE /\ queued' = {} /\ filled' = {}
       ELSE UNCHANGED <<streaming, queued, filled>>
    /\ index' = 0 /\ pc' = "unmap"
    /\ UNCHANGED <<from, lcdVars, camOpen, mapped, granted, history>>

UnmapBuffer ==
    /\ pc = "unmap"
    /\ \/ /\ camOpen /\ index < granted
          /\ mapped' = mapped \ {index} /\ index' = index + 1
          /\ UNCHANGED pc
       \/ /\ ~camOpen \/ index >= granted
          /\ pc' = "cam_close"
          /\ UNCHANGED <<mapped, index>>
    /\ UNCHANGED <<from, lcdVars, camOpen, driverVars, history>>

CamClose ==
    /\ pc = "cam_close"
    /\ camOpen' = FALSE /\ pc' = "lcd_clear"
    /\ UNCHANGED <<from, lcdVars, mapped, index, driverVars, history>>

(* memset(screen_base, 0, screen_size): with nothing to clear it is        *)
(* harmless, with a size and no mapping it faults.                         *)
LcdClear ==
    /\ pc = "lcd_clear"
    /\ \/ lcd \in {"sized", "failed"} /\ pc' = "crashed"
       \/ lcd \in {"closed", "open", "mapped"} /\ pc' = "lcd_close"
    /\ UNCHANGED <<from, lcdVars, camOpen, mapped, index, driverVars, history>>

(* munmap and close.                                                       *)
LcdClose ==
    /\ pc = "lcd_close"
    /\ lcd' = "closed"
    /\ pc' = "exit"
    /\ UNCHANGED <<from, handler, pending, camOpen, mapped, index, driverVars, history>>

Handler == Deliver \/ StreamOff \/ UnmapBuffer \/ CamClose \/ LcdClear \/ LcdClose

(* The driver: a frame arrives in one of the queued buffers.               *)
Capture ==
    /\ streaming /\ ~Ended
    /\ \E b \in queued : queued' = queued \ {b} /\ filled' = filled \union {b}
    /\ UNCHANGED <<pc, from, lcdVars, camOpen, mapped, index, granted, streaming, history>>

Terminated == Ended /\ UNCHANGED vars

Next == Main \/ Handler \/ Kill \/ Capture \/ Terminated

Spec == Init /\ [][Next]_vars
-----------------------------------------------------------------------------
TypeOK ==
    /\ pc \in {"signals", "lcd_open", "lcd_size", "lcd_map", "cam_open", "cam_setup",
               "request", "map", "queue", "stream_on", "dequeue", "copy", "requeue",
               "give_up", "exit", "killed", "crashed"} \union HandlerPcs
    /\ from \in {"none", "signals", "lcd_open", "lcd_size", "lcd_map", "cam_open",
                 "cam_setup", "request", "map", "queue", "stream_on", "dequeue", "copy",
                 "requeue", "give_up"}
    /\ handler \in BOOLEAN /\ pending \in BOOLEAN
    /\ lcd \in {"closed", "open", "sized", "mapped", "failed"}
    /\ camOpen \in BOOLEAN /\ granted \in 0..Frames /\ mapped \subseteq Buffers
    /\ index \in 0..Frames
    /\ streaming \in BOOLEAN /\ queued \subseteq Buffers /\ filled \subseteq Buffers
    /\ missed \in BOOLEAN /\ refused \subseteq Buffers

(* What is copied to the screen is a buffer the camera cannot write to     *)
(* meanwhile, as long as no dequeue has failed.                            *)
ShownIsDequeued == pc = "copy" /\ ~missed => index \in Held /\ index \in mapped

(* Whatever order the driver returns buffers in, none is lost but by the   *)
(* driver's own refusal, which nobody notices: the program holds the one   *)
(* buffer it copies and those that were not queued because of a refusal.   *)
NoBufferLost ==
    /\ pc = "dequeue" => Held \subseteq refused
    /\ pc \in {"copy", "requeue"} => Held \subseteq refused \union {index}

(* A fault needs SIGUSR1 while lcd_init has the size of the screen but no  *)
(* mapping of it, or a failed dequeue.                                     *)
CrashCauses ==
    pc = "crashed" => \/ from \in {"lcd_map", "give_up"} /\ lcd \in {"sized", "failed"}
                      \/ from = "none" /\ missed /\ granted < Frames

(* A stop by SIGUSR1 leaves the stream off and nothing mapped or open,     *)
(* unless it caught main giving up with the camera closed already.         *)
CleanStop ==
    pc = "exit" /\ from \notin {"none", "give_up"} =>
        /\ ~streaming /\ ~camOpen /\ mapped = {}
        /\ lcd = "closed"

=============================================================================
