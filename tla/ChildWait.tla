------------------------------ MODULE ChildWait ------------------------------
(***************************************************************************)
(* The programs of 9_process/10_wait.  main forks three children that      *)
(* sleep a second and exit, and collects them                              *)
(*                                                                         *)
(*   wait, waitpid   by three calls that wait (wait.c, waitpid.c);         *)
(*   poll            by asking until no child is left (waitpid_poll.c);    *)
(*   sigchld         in a handler of SIGCHLD, while main sleeps three      *)
(*                   times; a signal ends the sleep (sigchld.c).           *)
(*                                                                         *)
(* Signals that come while SIGCHLD is pending or its handler runs are      *)
(* merged into one.  Time as in ThreadJoin.                                *)
(***************************************************************************)
EXTENDS Integers

CONSTANTS
    Programs,  \* the programs looked at
    Children,  \* number of children, and of calls that wait (3)
    Naps,      \* number of the sleeps of main in sigchld (3)
    NapTime,   \* seconds of each of them (2)
    Slips      \* bound: seconds that pass while somebody could run

VARIABLES
    prog,     \* the program that runs
    pc,       \* main: "sigaction", "fork", "collect", "sleep", "asleep"
    i,        \* main: loop index
    child,    \* each child: "none", "alive", "zombie" or "reaped"
    left,     \* seconds that main, 0, and each child still sleep
    pending,  \* SIGCHLD is pending
    handling, \* wait_child runs
    ended,    \* how main ended, "no" while it runs
    slips     \* history: seconds that passed while somebody could run

vars == <<prog, pc, i, child, left, pending, handling, ended, slips>>

Ids  == 1..Children
Main == 0

Init ==
    /\ prog \in Programs /\ i = 1
    /\ pc = IF prog = "sigchld" THEN "sigaction" ELSE "fork"
    /\ child = [c \in Ids |-> "none"] /\ left = [c \in Ids \cup {Main} |-> 0]
    /\ pending = FALSE /\ handling = FALSE
    /\ ended = "no" /\ slips = 0

Live    == ended = "no"
At(at)  == Live /\ ~handling /\ pc = at
Unended == {c \in Ids : child[c] = "alive"}
Zombies == {c \in Ids : child[c] = "zombie"}
-----------------------------------------------------------------------------
(* A failure ends main with an error.                                      *)
Sigaction ==
    /\ At("sigaction")
    /\ \/ pc' = "fork" /\ UNCHANGED ended
       \/ ended' = "error" /\ UNCHANGED pc
    /\ UNCHANGED <<prog, i, child, left, pending, handling, slips>>

Fork ==
    /\ At("fork")
    /\ \/ /\ child' = [child EXCEPT ![i] = "alive"] /\ left' = [left EXCEPT ![i] = 1]
          /\ IF i < Children THEN i' = i + 1 /\ UNCHANGED pc
             ELSE i' = 1 /\ pc' = IF prog = "sigchld" THEN "sleep" ELSE "collect"
          /\ UNCHANGED ended
       \/ ended' = "error" /\ UNCHANGED <<pc, i, child, left>>
    /\ UNCHANGED <<prog, pending, handling, slips>>

Reap(c) == child' = [child EXCEPT ![c] = "reaped"]

(* wait or waitpid, Children times; there is always a child to wait for.   *)
Wait ==
    /\ At("collect") /\ prog \in {"wait", "waitpid"}
    /\ \E c \in Zombies : Reap(c)
    /\ IF i < Children THEN i' = i + 1 /\ UNCHANGED ended
       ELSE ended' = "return" /\ UNCHANGED i
    /\ UNCHANGED <<prog, pc, left, pending, handling, slips>>

(* Mutant: the loop ends when no child has ended yet.                      *)
PollOnce ==
    /\ At("collect") /\ prog = "poll"
    /\ \/ (\E c \in Zombies : Reap(c)) /\ UNCHANGED ended
       \/ Zombies = {} /\ ended' = "return" /\ UNCHANGED child
    /\ UNCHANGED <<prog, pc, i, left, pending, handling, slips>>

(* waitpid with WNOHANG: a child, 0 while all live, -1 when there is none. *)
Poll ==
    /\ At("collect") /\ prog = "poll"
    /\ \/ (\E c \in Zombies : Reap(c)) /\ UNCHANGED ended
       \/ Zombies = {} /\ Unended # {} /\ UNCHANGED <<child, ended>>
       \/ Zombies = {} /\ Unended = {} /\ ended' = "return" /\ UNCHANGED child
    /\ UNCHANGED <<prog, pc, i, left, pending, handling, slips>>
-----------------------------------------------------------------------------
(* sigchld.c                                                               *)
Sleep ==
    /\ At("sleep") /\ ~pending
    /\ left' = [left EXCEPT ![Main] = NapTime] /\ pc' = "asleep"
    /\ UNCHANGED <<prog, i, child, pending, handling, ended, slips>>

(* The sleep is over, or a handler has run during it.                      *)
NextSleep ==
    IF i < Naps THEN i' = i + 1 /\ pc' = "sleep" /\ UNCHANGED ended
    ELSE ended' = "return" /\ UNCHANGED <<i, pc>>

Wake ==
    /\ At("asleep") /\ left[Main] = 0 /\ ~pending
    /\ NextSleep
    /\ UNCHANGED <<prog, child, left, pending, handling, slips>>

Deliver ==
    /\ Live /\ pending /\ ~handling
    /\ pending' = FALSE /\ handling' = TRUE
    /\ UNCHANGED <<prog, pc, i, child, left, ended, slips>>

(* The handler is left, or run again for what has come meanwhile.          *)
HandlerReturns ==
    IF pending THEN pending' = FALSE /\ UNCHANGED <<handling, left, i, pc, ended>>
    ELSE /\ handling' = FALSE
         /\ IF pc = "asleep" THEN left' = [left EXCEPT ![Main] = 0] /\ NextSleep
            ELSE UNCHANGED <<left, i, pc, ended>>
         /\ UNCHANGED pending

(* Mutant: one waitpid per signal.                                         *)
WaitChildOnce ==
    /\ Live /\ handling
    /\ \/ \E c \in Zombies : Reap(c)
       \/ Zombies = {} /\ UNCHANGED child
    /\ HandlerReturns
    /\ UNCHANGED <<prog, slips>>

(* wait_child: reaps while there is a zombie.                              *)
WaitChild ==
    /\ Live /\ handling
    /\ \/ (\E c \in Zombies : Reap(c)) /\ UNCHANGED <<pending, handling, left, i, pc, ended>>
       \/ Zombies = {} /\ HandlerReturns /\ UNCHANGED child
    /\ UNCHANGED <<prog, slips>>
-----------------------------------------------------------------------------
(* A child has slept and _exits.                                           *)
Child(c) ==
    /\ Live /\ child[c] = "alive" /\ left[c] = 0
    /\ child' = [child EXCEPT ![c] = "zombie"]
    /\ pending' = (prog = "sigchld")
    /\ UNCHANGED <<prog, pc, i, left, handling, ended, slips>>

(* Nobody can run: main waits or asks in vain, and every child sleeps.     *)
Quiet ==
    /\ ~handling /\ ~pending
    /\ \/ pc = "asleep" /\ left[Main] > 0
       \/ pc = "collect" /\ Zombies = {} /\ Unended # {}
    /\ \A c \in Unended : left[c] > 0

Tick ==
    /\ Live /\ \E w \in DOMAIN left : left[w] > 0
    /\ IF Quiet THEN UNCHANGED slips ELSE slips < Slips /\ slips' = slips + 1
    /\ left' = [w \in DOMAIN left |-> IF left[w] > 0 THEN left[w] - 1 ELSE 0]
    /\ UNCHANGED <<prog, pc, i, child, pending, handling, ended>>

MainStep == Sigaction \/ Fork \/ Wait \/ Poll \/ Sleep \/ Wake
Handler  == Deliver \/ WaitChild

Ended == ~Live /\ UNCHANGED vars

Next == MainStep \/ Handler \/ (\E c \in Ids : Child(c)) \/ Tick \/ Ended

Spec == Init /\ [][Next]_vars
-----------------------------------------------------------------------------
(* A main that ends well leaves no child behind: no zombie because three   *)
(* ends were told in one signal, and no live one.  With the handler it     *)
(* relies on the children to end within main's sleeps.                     *)
AllReaped ==
    ended = "return" => \/ \A c \in Ids : child[c] = "reaped"
                        \/ prog = "sigchld" /\ slips > 0
=============================================================================
