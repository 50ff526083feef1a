---------------------------- MODULE AtomicCounter ----------------------------
(***************************************************************************)
(* What the counting programs of 12_threadsync promise: a counter that     *)
(* starts at 0 and is raised by a whole step a fixed number of times, and  *)
(* a result that is reported only when all the steps are in it.  The       *)
(* programs may end early with an error and report nothing.                *)
(***************************************************************************)
EXTENDS Integers

CONSTANTS
    Step,   \* what one update adds
    Times   \* how many updates there are

VARIABLES
    value,    \* num
    reported  \* whether main has gone on to report it

vars == <<value, reported>>

Init == value = 0 /\ reported = FALSE

Add ==
    /\ ~reported
    /\ value < Step * Times
    /\ value' = value + Step
    /\ UNCHANGED reported

Report ==
    /\ ~reported
    /\ value = Step * Times
    /\ reported' = TRUE
    /\ UNCHANGED value

Spec == Init /\ [][Add \/ Report]_vars
=============================================================================
