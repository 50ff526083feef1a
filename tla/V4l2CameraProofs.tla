-------------------------- MODULE V4l2CameraProofs --------------------------
(***************************************************************************)
(* Proofs about V4l2Camera for every number of frame buffers.              *)
(***************************************************************************)
EXTENDS V4l2Camera, TLAPS

Before  == {"signals", "lcd_open", "lcd_size"}
LcdPcs  == Before \union {"lcd_map"}
OpenPcs == {"cam_open", "cam_setup", "request"}
LoopPcs == {"map", "queue", "stream_on", "dequeue", "copy", "requeue"}
MainPcs == LcdPcs \union OpenPcs \union LoopPcs \union {"give_up"}

(* What lcd_init has done when main is at p.                               *)
LcdAt(p) ==
    /\ p \in Before => lcd \in {"closed", "open"}
    /\ p \in OpenPcs \union LoopPcs => lcd = "mapped"

PcInv ==
    /\ pc \in MainPcs \union HandlerPcs \union {"exit", "killed", "crashed"}
    /\ pc \in MainPcs => from = "none" /\ LcdAt(pc)
    /\ pc \in HandlerPcs => from \in MainPcs
    /\ pc \in {"stream_off", "unmap", "cam_close", "lcd_clear"} => LcdAt(from)
    /\ lcd \in {"closed", "open", "sized", "mapped", "failed"}

(* The camera writes to buffers that exist, each queued or filled.         *)
BufferInv ==
    /\ granted \in Nat /\ granted <= Frames
    /\ index \in Nat
    /\ queued \subseteq Buffers /\ filled \subseteq Buffers
    /\ queued \intersect filled = {}
    /\ refused \intersect (queued \union filled) = {}

(* How far the loops have come that map, queue and show the buffers.       *)
LoopInv ==
    /\ pc \in LcdPcs \union OpenPcs => granted = 0 /\ mapped = {}
    /\ pc \in LcdPcs \union OpenPcs \union {"map", "queue"} => refused = {}
    /\ pc = "map" => /\ index <= granted /\ mapped = 0..index - 1
                     /\ queued = {} /\ filled = {}
    /\ pc \in LoopPcs \ {"map"} => mapped = Buffers
    /\ pc = "queue" => /\ index <= granted
                       /\ \A b \in Buffers : b \in Held <=> index <= b
    /\ pc \in {"stream_on", "dequeue"} => Held \subseteq refused
    /\ pc \in {"dequeue", "copy", "requeue"} => index < Frames
    /\ pc \in {"copy", "requeue"} => Held \subseteq refused \union {index}
    /\ pc = "copy" /\ ~missed => index \in Held

IInv == PcInv /\ BufferInv /\ LoopInv /\ CrashCauses

LEMMA InitIInv == Init => IInv
BY FramesAssumption
   DEF Init, IInv, PcInv, LcdAt, BufferInv, LoopInv, CrashCauses, Buffers, Held,
       MainPcs, HandlerPcs, LcdPcs, OpenPcs, LoopPcs, Before

LEMMA SetupIInv == IInv /\ (Setup \/ Exit) => IInv'
<1> SUFFICES ASSUME IInv, Setup \/ Exit PROVE IInv'
  OBVIOUS
<1> USE FramesAssumption
    DEF IInv, PcInv, LcdAt, BufferInv, LoopInv, CrashCauses, Buffers, Held,
        MainPcs, HandlerPcs, LcdPcs, OpenPcs, LoopPcs, Before, lcdVars, driverVars, history
<1>1. CASE SigInit
  BY <1>1 DEF SigInit
<1>2. CASE LcdOpen
  BY <1>2 DEF LcdOpen
<1>3. CASE LcdSize
  BY <1>3 DEF LcdSize
<1>4. CASE LcdMap
  BY <1>4 DEF LcdMap
<1>5. CASE CamOpen
  BY <1>5 DEF CamOpen
<1>6. CASE CamSetup
  BY <1>6 DEF CamSetup
<1>7. CASE RequestBuffers
  <2>1. granted' \in Nat /\ granted' <= Frames /\ index' = 0 /\ 0..index' - 1 = {}
    BY <1>7 DEF RequestBuffers
  <2>2. queued' = {} /\ filled' = {} /\ mapped' = {}
    BY <1>7 DEF RequestBuffers
  <2> QED  BY <1>7, <2>1, <2>2 DEF RequestBuffers
<1>8. CASE MapBuffer
  <2>1. CASE index < granted /\ mapped' = mapped \union {index}
             /\ index' = index + 1 /\ UNCHANGED <<pc, camOpen>>
    BY <1>8, <2>1 DEF MapBuffer
  <2>2. CASE pc' = "give_up" /\ UNCHANGED <<mapped, index>>
    BY <1>8, <2>2 DEF MapBuffer
  <2>3. CASE index = granted /\ index' = 0 /\ pc' = "queue" /\ UNCHANGED mapped
    BY <1>8, <2>3 DEF MapBuffer
  <2> QED  BY <1>8, <2>1, <2>2, <2>3, Zenon DEF MapBuffer
<1>9. CASE QueueBuffer
  <2>1. CASE index < granted /\ queued' = queued \union {index} /\ index' = index + 1
             /\ UNCHANGED <<pc, refused>>
    <3>1. queued' = queued \union {index} /\ index' = index + 1 /\ UNCHANGED pc
      BY <1>9, <2>1 DEF QueueBuffer
    <3>2. BufferInv'
      <4>1. index \notin filled /\ index \in Buffers
        BY <1>9, <2>1 DEF QueueBuffer
      <4> QED  BY <1>9, <3>1, <4>1 DEF QueueBuffer
    <3>3. Buffers' = Buffers /\ Held' = Held \ {index} /\ index \in Buffers
      BY <1>9, <2>1, <3>1 DEF QueueBuffer
    <3>4. \A b \in Buffers' : b \in Held' <=> index' <= b
      BY <1>9, <2>1, <3>1, <3>3 DEF QueueBuffer
    <3> HIDE DEF Held, Buffers
    <3>5. LoopInv'
      BY <1>9, <2>1, <3>1, <3>3, <3>4 DEF QueueBuffer
    <3> QED  BY <1>9, <2>1, <3>1, <3>5, <3>2 DEF QueueBuffer
  <2>2. CASE refused' = index..granted - 1 /\ pc' = "stream_on" /\ UNCHANGED <<queued, index>>
    <3>1. Held \subseteq refused' /\ refused' \intersect (queued \union filled) = {}
      BY <1>9, <2>2 DEF QueueBuffer
    <3>2. UNCHANGED <<granted, filled, mapped>>
      BY <1>9, <2>2 DEF QueueBuffer
    <3> QED  BY <1>9, <2>2, <3>1, <3>2 DEF QueueBuffer
  <2> QED  BY <1>9, <2>1, <2>2 DEF QueueBuffer
<1>10. CASE StreamOn
  <2>1. /\ pc = "stream_on" /\ pc' = "dequeue" /\ index' = 0
        /\ UNCHANGED <<from, lcd, mapped, granted, queued, filled, missed, refused>>
    BY <1>10, Zenon DEF StreamOn
  <2> QED  BY <2>1
<1>11. CASE Exit
  BY <1>11 DEF Exit
<1> QED
  BY <1>1, <1>2, <1>3, <1>4, <1>5, <1>6, <1>7, <1>8, <1>9, <1>10, <1>11 DEF Setup

LEMMA StreamIInv == IInv /\ Stream => IInv'
<1> SUFFICES ASSUME IInv, Stream PROVE IInv'
  OBVIOUS
<1> USE FramesAssumption
    DEF IInv, PcInv, LcdAt, BufferInv, LoopInv, CrashCauses, Buffers, Held,
        MainPcs, HandlerPcs, LcdPcs, OpenPcs, LoopPcs, Before, lcdVars, driverVars, history
<1>1. CASE Dequeue
  <2>1. CASE index' \in filled /\ filled' = filled \ {index'}
    <3>1. Held \subseteq refused /\ Buffers' = Buffers /\ index' \in Buffers /\ refused' = refused
      BY <1>1, <2>1 DEF Dequeue
    <3>2. index' \in Nat /\ index' < Frames
      BY <3>1
    <3>3. Held' \subseteq refused' \union {index'}
      BY <1>1, <2>1, <3>1 DEF Dequeue
    <3>4. ~missed' => index' \in Held'
      BY <1>1, <2>1, <3>1 DEF Dequeue
    <3> QED  BY <1>1, <2>1, <3>1, <3>2, <3>3, <3>4 DEF Dequeue
  <2>2. CASE missed' /\ UNCHANGED <<index, filled>>
    BY <1>1, <2>2 DEF Dequeue
  <2> QED  BY <1>1, <2>1, <2>2, Zenon DEF Dequeue
<1>2. CASE Copy
  BY <1>2 DEF Copy
<1>3. CASE Requeue
  <2>1. index' = NextIndex /\ index' \in Nat /\ index' < Frames
    BY <1>3 DEF Requeue, NextIndex
  <2>2. CASE index \in Held /\ queued' = queued \union {index} /\ refused' = refused \ {index}
    BY <1>3, <2>1, <2>2 DEF Requeue
  <2>3. CASE index \in Held /\ UNCHANGED queued /\ refused' = refused \union {index}
    BY <1>3, <2>1, <2>3 DEF Requeue
  <2>4. CASE index \notin Held /\ UNCHANGED <<queued, refused>>
    BY <1>3, <2>1, <2>4 DEF Requeue
  <2> QED  BY <1>3, <2>2, <2>3, <2>4 DEF Requeue, QBuf
<1> QED  BY <1>1, <1>2, <1>3 DEF Stream

LEMMA HandlerIInv == IInv /\ (Handler \/ Kill) => IInv'
<1> SUFFICES ASSUME IInv, Handler \/ Kill PROVE IInv'
  OBVIOUS
<1> USE FramesAssumption
    DEF IInv, PcInv, LcdAt, BufferInv, LoopInv, CrashCauses, Buffers, Held,
        MainPcs, HandlerPcs, LcdPcs, OpenPcs, LoopPcs, Before, lcdVars, driverVars, history, Ended
<1>1. CASE Deliver
  BY <1>1 DEF Deliver
<1>2. CASE StreamOff
  BY <1>2 DEF StreamOff
<1>3. CASE UnmapBuffer
  BY <1>3 DEF UnmapBuffer
<1>4. CASE CamClose
  BY <1>4 DEF CamClose
<1>5. CASE LcdClear
  BY <1>5 DEF LcdClear
<1>6. CASE LcdClose
  BY <1>6 DEF LcdClose
<1>7. CASE Kill
  BY <1>7 DEF Kill
<1> QED  BY <1>1, <1>2, <1>3, <1>4, <1>5, <1>6, <1>7 DEF Handler

(* A frame moves a buffer from queued to filled: the program holds what it *)
(* has held.                                                               *)
LEMMA CaptureIInv == IInv /\ Capture => IInv'
<1> SUFFICES ASSUME IInv, Capture PROVE IInv'
  OBVIOUS
<1>1. queued' \union filled' = queued \union filled
  BY DEF Capture
<1>2. Held' = Held /\ Buffers' = Buffers
  BY <1>1 DEF Capture, Held, Buffers
<1>3. BufferInv'
  BY <1>1, <1>2 DEF Capture, IInv, BufferInv, history
<1>4. PcInv' /\ CrashCauses'
  BY DEF Capture, IInv, PcInv, LcdAt, CrashCauses, lcdVars, history
<1>5. LoopInv'
  BY <1>2 DEF Capture, IInv, LoopInv, history
<1> QED  BY <1>3, <1>4, <1>5 DEF IInv

LEMMA Invariance == Spec => []IInv
<1>1. IInv /\ UNCHANGED vars => IInv'
  BY DEF IInv, PcInv, LcdAt, BufferInv, LoopInv, CrashCauses, Buffers, Held,
         vars, lcdVars, driverVars, history
<1>2. IInv /\ [Next]_vars => IInv'
  BY <1>1, SetupIInv, StreamIInv, HandlerIInv, CaptureIInv DEF Next, Main, Terminated
<1> QED  BY <1>2, InitIInv, PTL DEF Spec
-----------------------------------------------------------------------------
(* However many buffers the driver grants and in whatever order it returns *)
(* them, the frame on its way to the screen is the program's, unless a     *)
(* dequeue has failed.                                                     *)
THEOREM FrameIsOurs == Spec => []ShownIsDequeued
<1>1. IInv => ShownIsDequeued
  BY DEF IInv, LoopInv, ShownIsDequeued, Held, LoopPcs
<1> QED  BY <1>1, Invariance, PTL

(* Every buffer but the one being shown is with the driver.                *)
THEOREM BuffersComeBack == Spec => []NoBufferLost
<1>1. IInv => NoBufferLost
  BY DEF IInv, LoopInv, NoBufferLost
<1> QED  BY <1>1, Invariance, PTL

(* A fault comes from SIGUSR1 during lcd_init or from a failed dequeue.    *)
THEOREM FaultsAreExplained == Spec => []CrashCauses
<1>1. IInv => CrashCauses
  BY DEF IInv
<1> QED  BY <1>1, Invariance, PTL

(* What the handler finds when it interrupts main at p, other than on the  *)
(* way out: the camera closed and nothing mapped, or open and what is      *)
(* mapped among the buffers that have been granted.                        *)
ClosedPcs == LcdPcs \union {"cam_open"}

CameraAt(p) ==
    /\ p \in ClosedPcs => ~camOpen /\ ~streaming /\ mapped = {}
    /\ p \in MainPcs \ (ClosedPcs \union {"give_up"}) => camOpen /\ mapped \subseteq Buffers
    /\ p \in OpenPcs => ~streaming

(* How far the handler has put that right.                                 *)
CleanInv ==
    /\ pc \in MainPcs => CameraAt(pc)
    /\ pc = "stream_off" => CameraAt(from)
    /\ from # "give_up" =>
         /\ pc = "unmap" => /\ ~streaming
                            /\ ~camOpen => mapped = {}
                            /\ mapped \subseteq {b \in Buffers : index <= b}
         /\ pc \in {"cam_close", "lcd_clear", "lcd_close"} => ~streaming /\ mapped = {}
         /\ pc \in {"lcd_clear", "lcd_close"} => ~camOpen
    /\ CleanStop

LEMMA MainClean == IInv /\ CleanInv /\ Main => CleanInv'
<1> SUFFICES ASSUME IInv, CleanInv, Main PROVE CleanInv'
  OBVIOUS
<1> USE DEF CleanInv, CameraAt, ClosedPcs, CleanStop, MainPcs, HandlerPcs, LcdPcs, OpenPcs,
            LoopPcs, Before, Buffers, lcdVars, driverVars, history
<1>1. pc \in MainPcs /\ from = "none" /\ from' = from
  BY DEF Main, Setup, Stream, Exit, SigInit, LcdOpen, LcdSize, LcdMap, CamOpen, CamSetup,
         RequestBuffers, MapBuffer, QueueBuffer, StreamOn, Dequeue, Copy, Requeue,
         IInv, PcInv
<1>2. CleanStop'
  BY <1>1
<1>3. pc' \in MainPcs \union {"exit", "crashed"}
  BY DEF Main, Setup, Stream, Exit, SigInit, LcdOpen, LcdSize, LcdMap, CamOpen, CamSetup,
         RequestBuffers, MapBuffer, QueueBuffer, StreamOn, Dequeue, Copy, Requeue,
         IInv, PcInv
<1>4. pc' \in MainPcs => CameraAt(pc)'
  <2>1. CASE SigInit \/ LcdOpen \/ LcdSize \/ LcdMap \/ Exit
    BY <2>1 DEF SigInit, LcdOpen, LcdSize, LcdMap, Exit
  <2>2. CASE CamOpen \/ CamSetup
    BY <2>2 DEF CamOpen, CamSetup, IInv, LoopInv
  <2>3. CASE RequestBuffers
    <3>1. camOpen' /\ ~streaming' /\ mapped' = {} /\ pc' = "map"
      BY <2>3 DEF RequestBuffers, IInv, LoopInv
    <3> QED  BY <3>1
  <2>4. CASE MapBuffer
    <3>1. CASE index < granted /\ mapped' = mapped \union {index} /\ UNCHANGED <<pc, camOpen>>
      BY <2>4, <3>1 DEF MapBuffer, IInv, BufferInv
    <3>2. CASE pc' = "give_up"
      BY <3>2
    <3>3. CASE pc' = "queue" /\ UNCHANGED <<mapped, camOpen>>
      BY <2>4, <3>3 DEF MapBuffer
    <3> QED  BY <2>4, <3>1, <3>2, <3>3, Zenon DEF MapBuffer
  <2>5. CASE QueueBuffer
    BY <2>5 DEF QueueBuffer
  <2>6. CASE StreamOn
    <3>1. pc = "stream_on" /\ pc' = "dequeue" /\ UNCHANGED <<camOpen, mapped, granted>>
      BY <2>6, Zenon DEF StreamOn
    <3> QED  BY <3>1
  <2>7. CASE Dequeue
    <3>1. pc = "dequeue" /\ pc' = "copy" /\ UNCHANGED <<camOpen, mapped, granted>>
      BY <2>7, Zenon DEF Dequeue
    <3> QED  BY <3>1
  <2>8. CASE Copy \/ Requeue
    BY <2>8 DEF Copy, Requeue
  <2> QED
    BY <2>1, <2>2, <2>3, <2>4, <2>5, <2>6, <2>7, <2>8 DEF Main, Setup, Stream
<1> QED  BY <1>1, <1>2, <1>3, <1>4

LEMMA HandlerClean == IInv /\ CleanInv /\ (Handler \/ Kill \/ Capture) => CleanInv'
<1> SUFFICES ASSUME IInv, CleanInv, Handler \/ Kill \/ Capture PROVE CleanInv'
  OBVIOUS
<1> USE DEF CleanInv, CameraAt, ClosedPcs, CleanStop, MainPcs, HandlerPcs, LcdPcs, OpenPcs,
            LoopPcs, Before, Buffers, lcdVars, driverVars, history
<1>1. CASE Deliver
  BY <1>1 DEF Deliver, Ended, IInv, PcInv
<1>2. CASE StreamOff
  <2>1. pc = "stream_off" /\ pc' = "unmap" /\ index' = 0 /\ from \in MainPcs
    BY <1>2 DEF StreamOff, IInv, PcInv
  <2>2. from # "give_up" => ~streaming' /\ (~camOpen' => mapped' = {}) /\ mapped' \subseteq Buffers'
    BY <1>2, <2>1 DEF StreamOff
  <2>3. \A b \in Buffers' : index' <= b
    BY <1>2, <2>1 DEF StreamOff, IInv, BufferInv
  <2>4. from # "give_up" => mapped' \subseteq {b \in Buffers' : index' <= b}
    BY <2>2, <2>3
  <2>5. from' = from
    BY <1>2 DEF StreamOff
  <2> HIDE DEF Buffers
  <2> QED  BY <2>1, <2>2, <2>4, <2>5
<1>3. CASE UnmapBuffer
  <2>1. CASE camOpen /\ index < granted /\ pc' = pc
    <3>1. index' = index + 1 /\ mapped' = mapped \ {index} /\ UNCHANGED <<granted, streaming, camOpen, from>>
      BY <1>3, <2>1 DEF UnmapBuffer
    <3> QED  BY <1>3, <2>1, <3>1 DEF UnmapBuffer, IInv, BufferInv
  <2>2. CASE (~camOpen \/ index >= granted) /\ pc' = "cam_close"
    <3>1. UNCHANGED <<mapped, index, granted, streaming, camOpen, from>>
      BY <1>3, <2>2 DEF UnmapBuffer
    <3>2. from # "give_up" => mapped = {}
      BY <1>3, <2>2 DEF UnmapBuffer, IInv, BufferInv
    <3> QED  BY <1>3, <2>2, <3>1, <3>2 DEF UnmapBuffer
  <2> QED  BY <1>3, <2>1, <2>2 DEF UnmapBuffer
<1>4. CASE CamClose
  BY <1>4 DEF CamClose
<1>5. CASE LcdClear
  BY <1>5 DEF LcdClear
<1>6. CASE LcdClose
  BY <1>6 DEF LcdClose
<1>7. CASE Kill
  BY <1>7 DEF Kill
<1>8. CASE Capture
  <2>1. UNCHANGED <<pc, from, lcd, camOpen, mapped, granted, index, streaming>>
    BY <1>8 DEF Capture
  <2> QED  BY <2>1
<1> QED  BY <1>1, <1>2, <1>3, <1>4, <1>5, <1>6, <1>7, <1>8 DEF Handler

(* A stop by SIGUSR1 leaves the stream off and nothing mapped or open,     *)
(* unless it caught main giving up.                                        *)
THEOREM StopsAreClean == Spec => []CleanStop
<1>1. Init => CleanInv
  BY DEF Init, CleanInv, CameraAt, ClosedPcs, CleanStop, MainPcs, LcdPcs, OpenPcs, LoopPcs,
         Before
<1>2. IInv /\ CleanInv /\ [Next]_vars => CleanInv'
  <2>1. CleanInv /\ UNCHANGED vars => CleanInv'
    BY DEF CleanInv, CameraAt, CleanStop, Buffers, vars, lcdVars, driverVars, history
  <2> QED  BY <2>1, MainClean, HandlerClean DEF Next, Terminated
<1>3. CleanInv => CleanStop
  BY DEF CleanInv
<1> QED  BY <1>1, <1>2, <1>3, Invariance, PTL DEF Spec
=============================================================================
