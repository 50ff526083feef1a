---------------------------- MODULE TouchTracker ----------------------------
(***************************************************************************)
(* The multi-touch loop of 33_mqtt/lcd_followfingers_mqtt.c, of            *)
(* 19_lcd/lcd_followfingers.c and of 17_inputdev/input_mt.c: it rebuilds,  *)
(* from one input event at a time, what every finger did in a frame, and   *)
(* tells it (prints it, or draws a target) at EV_SYN.                      *)
(*                                                                         *)
(* The kernel is external: per slot it sends the tracking id when a finger *)
(* comes or goes and a coordinate only when it has changed, before them    *)
(* the slot if it is not the slot sent last, and SYN_REPORT after them.    *)
(* When the reader is too slow it drops what is queued and sends           *)
(* SYN_DROPPED.  A reader that opens the device finds the fingers and the  *)
(* slot as they are; the program looks at neither, it starts with slot 0   *)
(* and places <<0, 0>>, and takes SYN_DROPPED for a report.                *)
(***************************************************************************)
EXTENDS Integers, Sequences

CONSTANTS
    MaxSlot,    \* slots are 0..MaxSlot
    Xs, Ys,     \* the coordinates, 0 among them
    QueueMax,   \* the events the kernel keeps for the reader
    MaxFrames   \* bound: the frames of the touch screen

Slots  == 0..MaxSlot
Places == [x : Xs, y : Ys]
Whats  == {"none", "press", "slide", "release"}

VARIABLES
    finger,   \* kernel: [down, place] of each slot; the place outlives the finger
    kslot,    \* kernel: the slot sent last
    queue,    \* kernel: events not yet read
    frames,   \* frames so far (bound only)
    slot,     \* slot
    mt,       \* mt
    told,     \* what the last EV_SYN told of each slot
    running,  \* the program has not ended
    truth,    \* history: what the frame of the last SYN_REPORT was
    slotSure, \* history: slot is the slot the kernel's events are about
    sure,     \* history: for each slot the coordinates mt is bound to have right
    sound,    \* history: every event since the last EV_SYN went to its slot
    trust     \* history: what was right when told was told

kernelVars  == <<finger, kslot, queue, frames>>
programVars == <<slot, mt, told, running>>
historyVars == <<truth, slotSure, sure, sound, trust>>
vars        == <<kernelVars, programVars, historyVars>>

Origin  == [x |-> 0, y |-> 0]
Nothing == [s \in Slots |-> [what |-> "none", place |-> Origin]]

Init ==
    /\ finger \in [Slots -> [down : BOOLEAN, place : Places]]
    /\ kslot \in Slots
    /\ queue = <<>> /\ frames = 0
    /\ slot = 0
    /\ mt = [s \in Slots |-> [place |-> Origin, id |-> -2, valid |-> FALSE]]
    /\ told = Nothing
    /\ running = TRUE
    /\ truth = Nothing
    /\ slotSure = (kslot = 0)
    /\ sure = [s \in Slots |-> {a \in {"x", "y"} : finger[s].place[a] = 0}]
    /\ sound = slotSure
    /\ trust = [kinds |-> FALSE, places |-> {}]
-----------------------------------------------------------------------------
(***************************************************************************)
(* The touch screen and its driver.                                        *)
(***************************************************************************)

(* What may happen to a finger in a frame.                                 *)
Changes(f) ==
    {c \in [what : Whats, place : Places] :
        CASE c.what = "press"   -> ~f.down
          [] c.what = "slide"   -> f.down /\ c.place # f.place
          [] c.what = "release" -> f.down /\ c.place = f.place
          [] c.what = "none"    -> c.place = f.place}

(* An event; of is the slot it is about, which only slot events say.       *)
Event(code, value, s) == <<[code |-> code, value |-> value, of |-> s]>>

(* The events of slot s: its id, and what has changed of its place.        *)
SlotEvents(s, c) ==
    CASE c.what = "press"   -> Event("id", 0, s)
      [] c.what = "release" -> Event("id", -1, s)
      [] OTHER              -> <<>>

AxisEvents(s, c, a) ==
    IF c.place[a] # finger[s].place[a] THEN Event(a, c.place[a], s) ELSE <<>>

(* The packet of a frame, slot after slot, and the slot sent last.         *)
SlotPacket(last, s, c) ==
    (IF s = last THEN <<>> ELSE Event("slot", s, s))
        \o SlotEvents(s, c) \o AxisEvents(s, c, "x") \o AxisEvents(s, c, "y")

AddSlot(p, s, c) ==
    IF c.what = "none" THEN p
    ELSE [events |-> p.events \o SlotPacket(p.last, s, c), last |-> s]

Packet(change) ==
    LET upTo[s \in -1..MaxSlot] ==
            IF s = -1 THEN [events |-> <<>>, last |-> kslot]
            ELSE AddSlot(upTo[s - 1], s, change[s])
    IN  upTo[MaxSlot]

Frame ==
    /\ running /\ frames < MaxFrames
    /\ \E change \in [Slots -> UNION {Changes(finger[s]) : s \in Slots}] :
        LET p      == Packet(change)
            packet == p.events \o Event("report", change, p.last)
            room   == QueueMax - Len(queue)
        IN  /\ \A s \in Slots : change[s] \in Changes(finger[s])
            /\ \E s \in Slots : change[s].what # "none"
            /\ queue' = IF Len(packet) <= room
                        THEN queue \o packet
                        ELSE Event("dropped", 0, p.last) \o SubSeq(packet, room + 1, Len(packet))
            /\ kslot' = p.last
            /\ finger' = [s \in Slots |->
                            [down  |-> \/ change[s].what \in {"press", "slide"}
                                       \/ change[s].what = "none" /\ finger[s].down,
                             place |-> change[s].place]]
    /\ frames' = frames + 1
    /\ UNCHANGED <<programVars, historyVars>>
-----------------------------------------------------------------------------
(***************************************************************************)
(* The loop of main: one event is read.                                    *)
(***************************************************************************)
Reads(code) == running /\ queue # <<>> /\ Head(queue).code = code

ReadSlot ==
    /\ Reads("slot")
    /\ slot' = Head(queue).value
    /\ slotSure' = TRUE
    /\ queue' = Tail(queue)
    /\ UNCHANGED <<finger, kslot, frames, mt, told, running, truth, sure, sound, trust>>

ReadId ==
    /\ Reads("id")
    /\ mt' = [mt EXCEPT ![slot].id = Head(queue).value, ![slot].valid = TRUE]
    /\ sound' = (sound /\ slotSure)
    /\ queue' = Tail(queue)
    /\ UNCHANGED <<finger, kslot, frames, slot, told, running, truth, slotSure, sure, trust>>

(* After a coordinate of an unknown slot all slots are in doubt about it.  *)
Learn(a) == IF slotSure THEN [sure EXCEPT ![slot] = @ \union {a}]
            ELSE [s \in Slots |-> sure[s] \ {a}]

ReadPosition(a) ==
    /\ Reads(a)
    /\ mt' = [mt EXCEPT ![slot].place[a] = Head(queue).value, ![slot].valid = TRUE]
    /\ sure' = Learn(a)
    /\ sound' = (sound /\ slotSure)
    /\ queue' = Tail(queue)
    /\ UNCHANGED <<finger, kslot, frames, slot, told, running, truth, slotSure, trust>>

(* What is told of a slot: nothing unless it is valid.                     *)
Tell(m) ==
    [what  |-> IF ~m.valid THEN "none"
               ELSE IF m.id >= 0 THEN "press"
               ELSE IF m.id = -1 THEN "release" ELSE "slide",
     place |-> m.place]

(* Mutant: the place is forgotten after a report.                           *)
AfterReportForget(m) == IF m.valid THEN [place |-> Origin, id |-> -2, valid |-> FALSE] ELSE m

AfterReport(m) == IF m.valid THEN [m EXCEPT !.id = -2, !.valid = FALSE] ELSE m

(* EV_SYN, whatever its code.                                              *)
ReadSyn ==
    /\ Reads("report") \/ Reads("dropped")
    /\ told' = [s \in Slots |-> Tell(mt[s])]
    /\ mt' = [s \in Slots |-> AfterReport(mt[s])]
    /\ IF Head(queue).code = "report"
       THEN /\ truth' = Head(queue).value
            /\ trust' = [kinds  |-> sound,
                         places |-> {s \in Slots : sure[s] = {"x", "y"}}]
            /\ UNCHANGED <<slotSure, sure>>
       ELSE /\ truth' = Nothing
            /\ trust' = [kinds |-> FALSE, places |-> {}]
            /\ slotSure' = FALSE /\ sure' = [s \in Slots |-> {}]
    /\ sound' = slotSure'
    /\ queue' = Tail(queue)
    /\ UNCHANGED <<finger, kslot, frames, slot, running>>

(* A failed read, or the hub's kill -9.                                    *)
Stop ==
    /\ running
    /\ running' = FALSE
    /\ UNCHANGED <<kernelVars, slot, mt, told, historyVars>>

Read == ReadSlot \/ ReadId \/ ReadPosition("x") \/ ReadPosition("y") \/ ReadSyn

Ended == ~running /\ UNCHANGED vars

Next == Frame \/ Read \/ Stop \/ Ended

Spec == Init /\ [][Next]_vars
-----------------------------------------------------------------------------
Codes == {"slot", "id", "x", "y", "report", "dropped"}

TypeOK ==
    /\ finger \in [Slots -> [down : BOOLEAN, place : Places]]
    /\ kslot \in Slots /\ frames \in 0..MaxFrames
    /\ Len(queue) <= QueueMax /\ \A n \in 1..Len(queue) : queue[n].code \in Codes
    /\ slot \in Slots /\ running \in BOOLEAN
    /\ mt \in [Slots -> [place : Places, id : {-2, -1, 0}, valid : BOOLEAN]]
    /\ told \in [Slots -> [what : Whats, place : Places]]
    /\ truth \in [Slots -> [what : Whats, place : Places]]
    /\ slotSure \in BOOLEAN /\ sound \in BOOLEAN
    /\ sure \in [Slots -> SUBSET {"x", "y"}]
    /\ trust \in [kinds : BOOLEAN, places : SUBSET Slots]

(* A frame is told as it was, slot by slot, if the slot was known and no   *)
(* event of it was dropped: nothing is told of a finger that did nothing,  *)
(* and no press, slide or release is missed or taken for another.          *)
KindsAreTrue == trust.kinds => \A s \in Slots : told[s].what = truth[s].what

(* A finger is told where it is once both its coordinates have been        *)
(* reported since the start or the last loss, or were 0 at the start,      *)
(* although the kernel leaves out coordinates that have not changed.       *)
PlacesAreTrue ==
    \A s \in trust.places :
        told[s].what \in {"press", "slide"} => told[s].place = truth[s].place
=============================================================================
