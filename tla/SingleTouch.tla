----------------------------- MODULE SingleTouch -----------------------------
(***************************************************************************)
(* The loop of 17_inputdev/input_st.c: one finger, whose press, slide or   *)
(* release is told at SYN_REPORT.  The kernel sends BTN_TOUCH when the     *)
(* finger comes or goes and a coordinate only when it has changed, and     *)
(* drops what is queued when the reader is too slow (see TouchTracker).    *)
(* The program does not know SYN_DROPPED: it goes on with what it has of   *)
(* the frame before, and knows neither the finger nor its place at the     *)
(* start.                                                                  *)
(***************************************************************************)
EXTENDS Integers, Sequences

CONSTANTS
    Xs, Ys,     \* the coordinates, 0 among them
    QueueMax,   \* the events the kernel keeps for the reader
    MaxFrames   \* bound: the frames of the touch screen

Places == [x : Xs, y : Ys]
Origin == [x |-> 0, y |-> 0]
None   == [what |-> "none", place |-> Origin]

VARIABLES
    finger,  \* kernel: [down, place]; the place outlives the finger
    queue,   \* kernel: events not yet read
    frames,  \* frames so far (bound only)
    st,      \* st
    told,    \* what the last SYN_REPORT told
    running, \* the program has not ended
    truth,   \* history: what the frame of the last SYN_REPORT was
    sure,    \* history: the coordinates st is bound to have right
    whole,   \* history: nothing was dropped since the last SYN_REPORT
    trust    \* history: whole and sure when told was told

kernelVars == <<finger, queue, frames>>
vars == <<kernelVars, st, told, running, truth, sure, whole, trust>>

Init ==
    /\ finger \in [down : BOOLEAN, place : Places]
    /\ queue = <<>> /\ frames = 0
    /\ st = [place |-> Origin, down |-> -1, valid |-> FALSE]
    /\ told = None /\ running = TRUE
    /\ truth = None
    /\ sure = {a \in {"x", "y"} : finger.place[a] = 0}
    /\ whole = TRUE /\ trust = [whole |-> TRUE, sure |-> {}]
-----------------------------------------------------------------------------
Event(code, value) == <<[code |-> code, value |-> value]>>

AxisEvents(a, place) == IF place[a] # finger.place[a] THEN Event(a, place[a]) ELSE <<>>

(* A press may be where the last one was; a release does not move.         *)
Changes ==
    {c \in [what : {"press", "slide", "release"}, place : Places] :
        CASE c.what = "press"   -> ~finger.down
          [] c.what = "slide"   -> finger.down /\ c.place # finger.place
          [] c.what = "release" -> finger.down /\ c.place = finger.place}

Frame ==
    /\ running /\ frames < MaxFrames
    /\ \E c \in Changes :
        LET touch  == CASE c.what = "press" -> Event("touch", 1)
                        [] c.what = "release" -> Event("touch", 0)
                        [] OTHER -> <<>>
            packet == touch \o AxisEvents("x", c.place) \o AxisEvents("y", c.place)
                            \o Event("report", c)
            room   == QueueMax - Len(queue)
        IN  /\ queue' = IF Len(packet) <= room
                        THEN queue \o packet
                        ELSE Event("dropped", 0) \o SubSeq(packet, room + 1, Len(packet))
            /\ finger' = [down |-> c.what # "release", place |-> c.place]
    /\ frames' = frames + 1
    /\ UNCHANGED <<st, told, running, truth, sure, whole, trust>>
-----------------------------------------------------------------------------
Reads(code) == running /\ queue # <<>> /\ Head(queue).code = code /\ queue' = Tail(queue)

ReadTouch ==
    /\ Reads("touch")
    /\ st' = [st EXCEPT !.down = Head(queue).value, !.valid = TRUE]
    /\ UNCHANGED <<finger, frames, told, running, truth, sure, whole, trust>>

ReadPosition(a) ==
    /\ Reads(a)
    /\ st' = [st EXCEPT !.place[a] = Head(queue).value, !.valid = TRUE]
    /\ sure' = sure \union {a}
    /\ UNCHANGED <<finger, frames, told, running, truth, whole, trust>>

ReadDropped ==
    /\ Reads("dropped")
    /\ sure' = {} /\ whole' = FALSE
    /\ UNCHANGED <<finger, frames, st, told, running, truth, trust>>

ReadReport ==
    /\ Reads("report")
    /\ told' = IF ~st.valid THEN None
               ELSE [what  |-> CASE st.down = 1 -> "press"
                                 [] st.down = 0 -> "release"
                                 [] st.down = -1 -> "slide",
                     place |-> st.place]
    /\ st' = IF st.valid THEN [st EXCEPT !.valid = FALSE, !.down = -1] ELSE st
    /\ truth' = Head(queue).value
    /\ trust' = [whole |-> whole, sure |-> sure]
    /\ whole' = TRUE
    /\ UNCHANGED <<finger, frames, running, sure>>

(* A failed read, or a signal.                                             *)
Stop ==
    /\ running /\ running' = FALSE
    /\ UNCHANGED <<kernelVars, st, told, truth, sure, whole, trust>>

Read == ReadTouch \/ ReadPosition("x") \/ ReadPosition("y") \/ ReadDropped \/ ReadReport

Ended == ~running /\ UNCHANGED vars

Next == Frame \/ Read \/ Stop \/ Ended

Spec == Init /\ [][Next]_vars
-----------------------------------------------------------------------------
(* A frame of which nothing was dropped is told as it was, whatever was    *)
(* lost before it; and where the finger is, once both its coordinates have *)
(* been reported since the start or the last loss, or were 0 at the start. *)
ToldAsItWas ==
    /\ trust.whole => told.what = truth.what
    /\ trust.whole /\ trust.sure = {"x", "y"} /\ told.what \in {"press", "slide"}
           => told.place = truth.place
=============================================================================
