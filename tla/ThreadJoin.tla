----------------------------- MODULE ThreadJoin -----------------------------
(***************************************************************************)
(* The thread programs of 11_thread.  Each has a main and one child_thread *)
(* that are short sequences of calls: main creates the child and joins,    *)
(* cancels or detaches it, the child prints, sleeps, changes how it may be *)
(* cancelled, stacks clean-up handlers and ends.  A program is given by    *)
(* its two sequences; the actions are the calls.                           *)
(*                                                                         *)
(* The programs order their threads by sleeping.  Time is counted in       *)
(* seconds: a second passes when every thread sleeps or waits, and, up to  *)
(* Slips times, also while a thread could have run: a loaded machine.      *)
(***************************************************************************)
EXTENDS Integers, Sequences

CONSTANTS
    Programs,  \* the programs looked at
    Slips      \* bound: seconds that pass while somebody could run

Who == {"main", "child"}
-----------------------------------------------------------------------------
(***************************************************************************)
(* The programs: main first, then child_thread.  "join" ends the program   *)
(* on an error, which none of its children can cause, "tryjoin" prints it  *)
(* and goes on; "again1" and "again2" are the ends of endless loops of one *)
(* and two calls, "testcancel" and "spin" are whole loops.                 *)
(***************************************************************************)
ThreadcreateMain  == <<"create", "sleep1", "return">>
ThreadcreateChild == <<"puts", "return">>

ThreadexitMain  == <<"create", "exit">>
ThreadexitChild == <<"puts", "sleep1", "puts", "return">>

ThreadrecycleMain  == <<"create", "join", "return">>
ThreadrecycleChild == <<"puts", "sleep1", "puts", "exit10">>

ThreadcancelMain  == <<"create", "sleep1", "cancel", "join", "return">>
ThreadcancelChild == <<"puts", "sleep1", "again1">>

TestcancelMain  == <<"create", "sleep1", "cancel", "join", "return">>
(* Mutant: the loop of testcancel.c without its call.                      *)
TestcancelSpins == <<"puts", "spin">>
TestcancelChild == <<"puts", "testcancel">>

CancelpointMain  == <<"create", "sleep1", "cancel", "join", "return">>
CancelpointChild == <<"puts", "spin">>

SetcancelstateMain  == <<"create", "sleep1", "cancel", "join", "return">>
(* Mutant: the cancel state is left as it is.                              *)
SetcancelstateEnabled == <<"puts", "sleep2", "again2">>
SetcancelstateChild == <<"disable", "puts", "sleep2", "again2">>

DetachotherMain  == <<"create", "detach", "sleep1", "tryjoin", "exit">>
DetachotherChild == <<"puts", "sleep2", "puts", "return">>

DetachselfMain  == <<"create", "sleep1", "tryjoin", "exit">>
DetachselfChild == <<"detach", "puts", "sleep2", "puts", "return">>

CleanupafterMain  == <<"create", "join", "return">>
CleanupafterChild == <<"puts", "push1", "push2", "push3", "pop1", "puts", "sleep2", "exit10">>

CleanuplastMain  == <<"create", "join", "return">>
CleanuplastChild == <<"puts", "push1", "push2", "push3", "sleep2", "exit10">>

(* pthread_attr_setdetachstate                                             *)
DetachstateMain  == <<"create_detached", "sleep1", "tryjoin", "return">>
DetachstateChild == <<"puts", "return">>

(* pthread_attr_setstacksize refuses 4096, unnoticed.                      *)
StacksizeMain  == <<"create", "join", "return">>
StacksizeChild == <<"puts", "return">>

Text(p, w) ==
    LET both == [ threadcreate   |-> <<ThreadcreateMain, ThreadcreateChild>>,
                  threadexit     |-> <<ThreadexitMain, ThreadexitChild>>,
                  threadrecycle  |-> <<ThreadrecycleMain, ThreadrecycleChild>>,
                  threadcancel   |-> <<ThreadcancelMain, ThreadcancelChild>>,
                  testcancel     |-> <<TestcancelMain, TestcancelChild>>,
                  cancelpoint    |-> <<CancelpointMain, CancelpointChild>>,
                  setcancelstate |-> <<SetcancelstateMain, SetcancelstateChild>>,
                  detachother    |-> <<DetachotherMain, DetachotherChild>>,
                  detachself     |-> <<DetachselfMain, DetachselfChild>>,
                  cleanupafter   |-> <<CleanupafterMain, CleanupafterChild>>,
                  cleanuplast    |-> <<CleanuplastMain, CleanuplastChild>>,
                  detachstate    |-> <<DetachstateMain, DetachstateChild>>,
                  stacksize      |-> <<StacksizeMain, StacksizeChild>> ]
    IN  both[p][IF w = "main" THEN 1 ELSE 2]

VARIABLES
    prog,       \* the program that runs
    at,         \* each thread: the index of its next call
    left,       \* each thread: seconds still to sleep, Awake when it does not
    life,       \* each thread: "none", "alive", "dead" (to be joined) or "gone"
    joinable,   \* the child is not detached
    joining,    \* main has called pthread_join and waits
    request,    \* a cancellation of the child is pending
    cancelable, \* the cancel state of the child is enabled
    stack,      \* the clean-up handlers the child has pushed
    ran,        \* history: the handlers called
    value,      \* what the child ended with
    told,       \* what pthread_join told main
    ended,      \* how the process ended, "no" while it runs
    slips       \* history: seconds that passed while somebody could run

childVars  == <<request, cancelable, stack, ran, value>>
threadVars == <<at, left, life>>
vars == <<prog, threadVars, joinable, joining, childVars, told, ended, slips>>

Awake == -1

Init ==
    /\ prog \in Programs
    /\ at = [w \in Who |-> 1] /\ left = [w \in Who |-> Awake]
    /\ life = [w \in Who |-> IF w = "main" THEN "alive" ELSE "none"]
    /\ joinable = TRUE /\ joining = FALSE
    /\ request = FALSE /\ cancelable = TRUE
    /\ stack = <<>> /\ ran = <<>> /\ value = "none" /\ told = "none"
    /\ ended = "no" /\ slips = 0
-----------------------------------------------------------------------------
Live == ended = "no"

Op(w) == Text(prog, w)[at[w]]

(* Thread w makes the call op.                                             *)
Calls(w, op) == Live /\ life[w] = "alive" /\ left[w] = Awake /\ Op(w) = op

Goto(w, n) == at' = [at EXCEPT ![w] = n]
Return(w)  == Goto(w, at[w] + 1)

ChildAlive == life["child"] = "alive"
-----------------------------------------------------------------------------
(***************************************************************************)
(* Calls of main.                                                          *)
(***************************************************************************)
Create(op, detached) ==
    /\ Calls("main", op)
    /\ \/ /\ life' = [life EXCEPT !["child"] = "alive"]
          /\ joinable' = ~detached /\ Return("main") /\ UNCHANGED ended
       \/ ended' = "error" /\ UNCHANGED <<life, joinable, at>>
    /\ UNCHANGED <<prog, left, joining, childVars, told, slips>>

Cancel ==
    /\ Calls("main", "cancel") /\ ChildAlive
    /\ request' = TRUE /\ Return("main")
    /\ UNCHANGED <<prog, left, life, joinable, joining, cancelable, stack, ran, value, told, ended, slips>>

(* pthread_detach: what is joinable and not being joined is so no more.    *)
Detach(w) ==
    /\ Calls(w, "detach")
    /\ joinable' = (joinable /\ joining)
    /\ life' = IF life["child"] = "dead" THEN [life EXCEPT !["child"] = "gone"] ELSE life
    /\ Return(w)
    /\ UNCHANGED <<prog, left, joining, childVars, told, ended, slips>>

(* pthread_join waits for the end of a joinable thread, refuses one that   *)
(* is detached, and is undefined for one that is gone.                     *)
JoinBegin(op) ==
    /\ Calls("main", op) /\ ChildAlive /\ joinable /\ ~joining
    /\ joining' = TRUE
    /\ UNCHANGED <<prog, threadVars, joinable, childVars, told, ended, slips>>

JoinEnd(op) ==
    /\ Calls("main", op) /\ life["child"] = "dead"
    /\ told' = value /\ joining' = FALSE
    /\ life' = [life EXCEPT !["child"] = "gone"]
    /\ Return("main")
    /\ UNCHANGED <<prog, left, joinable, childVars, ended, slips>>

JoinFails ==
    /\ Calls("main", "tryjoin") /\ ~joinable /\ ~joining
    /\ told' = IF ChildAlive THEN "EINVAL" ELSE "stale"
    /\ \/ Return("main") /\ UNCHANGED ended
       \/ ~ChildAlive /\ ended' = "crash" /\ UNCHANGED at
    /\ UNCHANGED <<prog, left, life, joinable, joining, childVars, slips>>

Join == JoinFails \/ \E op \in {"join", "tryjoin"} : JoinBegin(op) \/ JoinEnd(op)

(* Leaving main ends the process, pthread_exit in main only the thread.    *)
ReturnFromMain ==
    /\ Calls("main", "return")
    /\ ended' = "return"
    /\ UNCHANGED <<prog, threadVars, joinable, joining, childVars, told, slips>>

ExitMain ==
    /\ Calls("main", "exit")
    /\ life' = [life EXCEPT !["main"] = "gone"]
    /\ ended' = IF ChildAlive THEN ended ELSE "return"
    /\ UNCHANGED <<prog, at, left, joinable, joining, childVars, told, slips>>

Main == Create("create", FALSE) \/ Create("create_detached", TRUE) \/ Cancel \/ Join
        \/ Detach("main") \/ ReturnFromMain \/ ExitMain
-----------------------------------------------------------------------------
(***************************************************************************)
(* Calls of child_thread.                                                  *)
(***************************************************************************)
(* Nothing of what a child prints is kept.                                 *)
Puts ==
    /\ Calls("child", "puts") /\ Return("child")
    /\ UNCHANGED <<prog, left, life, joinable, joining, childVars, told, ended, slips>>

Again(op, n) ==
    /\ Calls("child", op) /\ Goto("child", at["child"] - n)
    /\ UNCHANGED <<prog, left, life, joinable, joining, childVars, told, ended, slips>>

DisableCancel ==
    /\ Calls("child", "disable") /\ Return("child")
    /\ cancelable' = FALSE
    /\ UNCHANGED <<prog, left, life, joinable, joining, request, stack, ran, value, told, ended, slips>>

Push(op, n) ==
    /\ Calls("child", op) /\ Return("child")
    /\ stack' = <<n>> \o stack
    /\ UNCHANGED <<prog, left, life, joinable, joining, request, cancelable, ran, value, told, ended, slips>>

Pop ==
    /\ Calls("child", "pop1") /\ Return("child")
    /\ ran' = Append(ran, Head(stack)) /\ stack' = Tail(stack)
    /\ UNCHANGED <<prog, left, life, joinable, joining, request, cancelable, value, told, ended, slips>>

(* The end of the child: the handlers still pushed run, the last first;    *)
(* the process ends with its last thread.                                  *)
ChildEnds(v) ==
    /\ life' = [life EXCEPT !["child"] = IF joinable THEN "dead" ELSE "gone"]
    /\ ran' = ran \o stack /\ stack' = <<>> /\ value' = v
    /\ ended' = IF life["main"] = "gone" THEN "return" ELSE ended
    /\ UNCHANGED <<prog, at, joinable, joining, request, cancelable, told, slips>>

Exit(op, v) == Calls("child", op) /\ ChildEnds(v) /\ UNCHANGED left

(* A pending cancellation is acted upon at a call that is a cancellation   *)
(* point, at the latest when it is left.                                   *)
CancelledNow == request /\ cancelable

CancellationPoint == {"puts", "sleep1", "sleep2", "testcancel"}

ActOnCancel ==
    /\ Live /\ ChildAlive /\ CancelledNow /\ Op("child") \in CancellationPoint
    /\ left' = [left EXCEPT !["child"] = Awake]
    /\ ChildEnds("canceled")

(* while(1);  and  while(1) pthread_testcancel();                          *)
Spin       == Calls("child", "spin") /\ UNCHANGED vars
TestCancel == Calls("child", "testcancel") /\ ~CancelledNow /\ UNCHANGED vars

Child == \/ Puts \/ Again("again1", 1) \/ Again("again2", 2) \/ DisableCancel \/ Detach("child")
         \/ Push("push1", 1) \/ Push("push2", 2) \/ Push("push3", 3) \/ Pop
         \/ Exit("return", "0") \/ Exit("exit10", "10") \/ ActOnCancel \/ Spin \/ TestCancel
-----------------------------------------------------------------------------
(***************************************************************************)
(* sleep and the time.                                                     *)
(***************************************************************************)
Sleep(w, op, n) ==
    /\ Calls(w, op)
    /\ w = "child" => ~CancelledNow
    /\ left' = [left EXCEPT ![w] = n]
    /\ UNCHANGED <<prog, at, life, joinable, joining, childVars, told, ended, slips>>

Wake(w) ==
    /\ Live /\ life[w] = "alive" /\ left[w] = 0
    /\ left' = [left EXCEPT ![w] = Awake] /\ Return(w)
    /\ UNCHANGED <<prog, life, joinable, joining, childVars, told, ended, slips>>

Sleeps(w) == Sleep(w, "sleep1", 1) \/ Sleep(w, "sleep2", 2) \/ Wake(w)

Asleep(w) == left[w] > 0

(* A thread that can do no more than wait: main for the child, the child   *)
(* for nothing or for its cancellation.                                    *)
Waits(w) ==
    IF w = "main" THEN joining /\ ChildAlive
    ELSE Op("child") = "spin" \/ (Op("child") = "testcancel" /\ ~CancelledNow)

Idle(w) == life[w] # "alive" \/ Asleep(w) \/ Waits(w)

Tick ==
    /\ Live /\ \E w \in Who : Asleep(w)
    /\ IF \A w \in Who : Idle(w) THEN UNCHANGED slips ELSE slips < Slips /\ slips' = slips + 1
    /\ left' = [w \in Who |-> IF Asleep(w) THEN left[w] - 1 ELSE left[w]]
    /\ UNCHANGED <<prog, at, life, joinable, joining, childVars, told, ended>>

Ended == ~Live /\ UNCHANGED vars

Next == Main \/ Child \/ (\E w \in Who : Sleeps(w)) \/ Tick \/ Ended

Spec == Init /\ [][Next]_vars
-----------------------------------------------------------------------------
(* What pthread_join may tell main in each program.  Main is never told    *)
(* anything where cancellation is disabled, and is told of a thread that   *)
(* is gone only by detachstate.c, which joins a detached thread that has   *)
(* ended.                                                                  *)
Answers ==
    [ threadcreate |-> {}, threadexit |-> {}, threadrecycle |-> {"10"},
      threadcancel |-> {"canceled"}, testcancel |-> {"canceled"},
      cancelpoint |-> {}, setcancelstate |-> {},
      detachother |-> {"EINVAL"}, detachself |-> {"EINVAL"},
      cleanupafter |-> {"10"}, cleanuplast |-> {"10"},
      detachstate |-> {"EINVAL", "stale"}, stacksize |-> {"0"} ]

(* The programs whose answer hangs on the sleeps: they rely on the child   *)
(* having got somewhere within main's second.                              *)
Timed == {"cancelpoint", "detachother", "detachself"}

JoinAnswers == told \in Answers[prog] \cup {"none"} \/ (prog \in Timed /\ slips > 0)

(* However the child of the clean-up programs ends, each handler has been  *)
(* called once, the last pushed first, part of them by pop and the rest by *)
(* pthread_exit.                                                           *)
CleanupsRun ==
    prog \in {"cleanupafter", "cleanuplast"} /\ life["child"] \in {"dead", "gone"}
        => ran = <<3, 2, 1>>

(* What main is told, and what has been cleaned up when it is.             *)
ThreadsEndAsTold == JoinAnswers /\ CleanupsRun

(* The programs that wait for a child that cannot be cancelled.            *)
Uncancellable == {"cancelpoint", "setcancelstate"}
=============================================================================
