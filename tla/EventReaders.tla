---------------------------- MODULE EventReaders ----------------------------
(***************************************************************************)
(* The programs of 13_advanceio that read the mouse and the keyboard:      *)
(* blocking and non-blocking reads (1_noblockio), poll and select          *)
(* (2_multiplex), SIGIO and SIGUSR1 (3_asyncio) and the queued SIGRTMIN    *)
(* (4_optasyncio); and uart_ctrl.c of 26_uart when it reads, whose serial  *)
(* line is in the place of the mouse.  A program is given by the calls of  *)
(* its main, one after another; "again" goes back to the second.           *)
(*                                                                         *)
(* A device queues reports until they are read: a read takes several       *)
(* reports of the mouse, and one line of the keyboard.  Each report, or    *)
(* each lot of bytes that come together on the serial line, raises         *)
(* the signal of its device, once the device has O_ASYNC and an owner;     *)
(* until the signal is handled it ends the process.                        *)
(***************************************************************************)
EXTENDS Integers, Sequences, FiniteSets

CONSTANTS
    Programs,  \* the programs looked at
    Chunk,     \* reports of the mouse that fit into buf
    Reports    \* bound: reports of each device

Devices == {"mouse", "keys"}
Signals == {"SIGIO", "SIGUSR1", "SIGRTMIN"}
-----------------------------------------------------------------------------
Blockio   == <<<<"open", "mouse">>, <<"wait", "mouse">>, <<"return", "">>>>
Noblockio == <<<<"open", "mouse">>, <<"try", "mouse">>, <<"return", "">>>>
Pollio    == <<<<"open", "mouse">>, <<"look", "mouse">>, <<"again", "">>>>

Blockconcur   == <<<<"open", "mouse">>, <<"wait", "mouse">>, <<"wait", "keys">>, <<"return", "">>>>
Noblockconcur == <<<<"open", "mouse">>, <<"look", "mouse">>, <<"look", "keys">>, <<"again", "">>>>

(* poll and select: which device has something, then a read of each.       *)
PollMain   == <<<<"open", "mouse">>, <<"poll", "">>, <<"serve", "keys">>, <<"serve", "mouse">>,
                <<"again", "">>>>
SelectMain == <<<<"open", "mouse">>, <<"poll", "">>, <<"serve", "keys">>, <<"serve", "mouse">>,
                <<"again", "">>>>

Asyncio == <<<<"open", "mouse">>, <<"async", "mouse">>, <<"own", "mouse">>,
             <<"handle", "SIGIO">>, <<"spin", "">>>>
AsyncioConcur == <<<<"open", "mouse">>, <<"async", "mouse">>, <<"own", "mouse">>,
                   <<"async", "keys">>, <<"own", "keys">>, <<"SIGUSR1", "keys">>,
                   <<"handle", "SIGIO">>, <<"handle", "SIGUSR1">>, <<"spin", "">>>>
Optasyncio == <<<<"open", "mouse">>, <<"async", "mouse">>, <<"own", "mouse">>,
                <<"SIGRTMIN", "mouse">>, <<"handle", "SIGRTMIN">>, <<"spin", "">>>>
OptasyncioConcur == <<<<"open", "mouse">>, <<"async", "mouse">>, <<"own", "mouse">>,
                      <<"SIGRTMIN", "mouse">>, <<"async", "keys">>, <<"own", "keys">>,
                      <<"SIGRTMIN", "keys">>, <<"handle", "SIGRTMIN">>, <<"spin", "">>>>

(* uart_init and sig_init.                                                 *)
Uart == <<<<"open", "mouse">>, <<"flush", "mouse">>, <<"async", "mouse">>, <<"own", "mouse">>,
          <<"SIGRTMIN", "mouse">>, <<"handle", "SIGRTMIN">>, <<"spin", "">>>>

Text == [ blockio |-> Blockio, noblockio |-> Noblockio, pollio |-> Pollio,
          blockconcur |-> Blockconcur, noblockconcur |-> Noblockconcur,
          poll |-> PollMain, select |-> SelectMain,
          asyncio |-> Asyncio, asyncio_concur |-> AsyncioConcur,
          optasyncio |-> Optasyncio, optasyncio_concur |-> OptasyncioConcur,
          uart |-> Uart ]

VARIABLES
    prog,     \* the program that runs
    at,       \* the index of the next call of main
    queue,    \* each device: reports not yet read
    came,     \* history: reports that came, for the bound
    ready,    \* what poll or select said
    async,    \* the devices with O_ASYNC
    owned,    \* the devices with an owner
    sigOf,    \* each device: its signal
    handled,  \* the signals that have a handler
    pending,  \* the pending signals that are not queued
    rtQueue,  \* the queue of SIGRTMIN: si_fd of each
    running,  \* the handlers that run: signal and device
    early,    \* history: a report came before its device raised signals
    full,     \* history: a read took as much as it could
    merged,   \* history: a read took more than one report
    ended     \* how the process ended, "no" while it runs

setupVars  == <<async, owned, sigOf, handled>>
signalVars == <<pending, rtQueue, running>>
readVars   == <<full, merged>>
vars == <<prog, at, queue, came, ready, setupVars, signalVars, readVars, early, ended>>

Init ==
    /\ prog \in Programs /\ at = 1
    /\ queue = [d \in Devices |-> 0] /\ came = [d \in Devices |-> 0] /\ ready = {}
    /\ async = {} /\ owned = {} /\ handled = {}
    /\ sigOf = [d \in Devices |-> "SIGIO"]
    /\ pending = {} /\ rtQueue = <<>> /\ running = {}
    /\ early = {} /\ full = {} /\ merged = {}
    /\ ended = "no"

Live          == ended = "no"
Op            == Text[prog][at][1]
Arg           == Text[prog][at][2]
Calls(op)     == Live /\ running = {} /\ Op = op
Forward       == at' = at + 1
-----------------------------------------------------------------------------
(* read of a device that has something.                                    *)
Room(d) == IF d = "mouse" THEN Chunk ELSE 1

(* Mutant: a buffer for one report.                                        *)
ReadOne(d) ==
    /\ queue[d] > 0
    /\ queue' = [queue EXCEPT ![d] = @ - 1]
    /\ full' = full /\ merged' = merged

Read(d) ==
    /\ queue[d] > 0
    /\ LET n == IF queue[d] < Room(d) THEN queue[d] ELSE Room(d)
       IN  /\ queue' = [queue EXCEPT ![d] = @ - n]
           /\ full' = IF n = Room(d) THEN full \cup {d} ELSE full
           /\ merged' = IF n > 1 THEN merged \cup {d} ELSE merged

ReadNothing(d) == queue[d] = 0 /\ UNCHANGED <<queue, readVars>>
-----------------------------------------------------------------------------
(***************************************************************************)
(* The calls of main.                                                      *)
(***************************************************************************)
Open ==
    /\ Calls("open")
    /\ \/ Forward /\ UNCHANGED ended
       \/ ended' = "error" /\ UNCHANGED at
    /\ UNCHANGED <<prog, queue, came, ready, setupVars, signalVars, readVars, early>>

(* A read that waits.                                                      *)
WaitingRead ==
    /\ Calls("wait") /\ Read(Arg) /\ Forward
    /\ UNCHANGED <<prog, came, ready, setupVars, signalVars, early, ended>>

(* A read that does not wait: an error ends the program ...                *)
TryRead ==
    /\ Calls("try")
    /\ \/ Read(Arg) /\ Forward /\ UNCHANGED ended
       \/ ReadNothing(Arg) /\ ended' = "error" /\ UNCHANGED at
    /\ UNCHANGED <<prog, came, ready, setupVars, signalVars, early>>

(* ... or is not looked at.                                                *)
LookRead ==
    /\ Calls("look") /\ (Read(Arg) \/ ReadNothing(Arg)) /\ Forward
    /\ UNCHANGED <<prog, came, ready, setupVars, signalVars, early, ended>>

(* Mutant: nfds counts the keyboard only.                                  *)
PollKeyboard ==
    /\ Calls("poll")
    /\ ready' = {d \in Devices : queue[d] > 0} \cap {"keys"} /\ ready' # {}
    /\ Forward
    /\ UNCHANGED <<prog, queue, came, setupVars, signalVars, readVars, early, ended>>

Poll ==
    /\ Calls("poll")
    /\ ready' = {d \in Devices : queue[d] > 0} /\ ready' # {}
    /\ Forward
    /\ UNCHANGED <<prog, queue, came, setupVars, signalVars, readVars, early, ended>>

Serve ==
    /\ Calls("serve")
    /\ IF Arg \in ready THEN Read(Arg) ELSE UNCHANGED <<queue, readVars>>
    /\ Forward
    /\ UNCHANGED <<prog, came, ready, setupVars, signalVars, early, ended>>

Again ==
    /\ Calls("again") /\ at' = 2
    /\ UNCHANGED <<prog, queue, came, ready, setupVars, signalVars, readVars, early, ended>>

Return ==
    /\ Calls("return") /\ ended' = "return"
    /\ UNCHANGED <<prog, at, queue, came, ready, setupVars, signalVars, readVars, early>>

(* fcntl with O_ASYNC, with F_SETOWN and with F_SETSIG; signal, sigaction. *)
SetUp ==
    /\ \/ Calls("async") /\ async' = async \cup {Arg} /\ UNCHANGED <<owned, sigOf, handled>>
       \/ Calls("own") /\ owned' = owned \cup {Arg} /\ UNCHANGED <<async, sigOf, handled>>
       \/ \E s \in {"SIGUSR1", "SIGRTMIN"} :
            Calls(s) /\ sigOf' = [sigOf EXCEPT ![Arg] = s] /\ UNCHANGED <<async, owned, handled>>
       \/ Calls("handle") /\ handled' = handled \cup {Arg} /\ UNCHANGED <<async, owned, sigOf>>
    /\ Forward
    /\ UNCHANGED <<prog, queue, came, ready, signalVars, readVars, early, ended>>

(* tcflush, which throws away what came before, and tcsetattr.             *)
Flush ==
    /\ Calls("flush") /\ queue' = [queue EXCEPT ![Arg] = 0]
    /\ \/ Forward /\ UNCHANGED ended
       \/ ended' = "error" /\ UNCHANGED at
    /\ UNCHANGED <<prog, came, ready, setupVars, signalVars, readVars, early>>

(* while(1);                                                               *)
Spin == Calls("spin") /\ UNCHANGED vars

Main == Open \/ WaitingRead \/ TryRead \/ LookRead \/ Poll \/ Serve \/ Again \/ Return \/ SetUp
        \/ Flush \/ Spin
-----------------------------------------------------------------------------
(***************************************************************************)
(* The signal handlers: sig_handler of asyncio, io_handler, usr_handler,   *)
(* and sig_handler of the optasyncio programs.  Each reads once, and its   *)
(* own signal waits until it returns.                                      *)
(***************************************************************************)
Runs(s) == \E h \in running : h[1] = s

Deliver ==
    /\ Live
    /\ \/ \E s \in pending : \E d \in Devices :
            /\ ~Runs(s) /\ sigOf[d] = s /\ (d = "keys") = (s = "SIGUSR1")
            /\ running' = running \cup {<<s, d>>} /\ pending' = pending \ {s}
            /\ UNCHANGED rtQueue
       \/ /\ rtQueue # <<>> /\ ~Runs("SIGRTMIN")
          /\ running' = running \cup {<<"SIGRTMIN", Head(rtQueue)>>} /\ rtQueue' = Tail(rtQueue)
          /\ UNCHANGED pending
    /\ UNCHANGED <<prog, at, queue, came, ready, setupVars, readVars, early, ended>>

(* SIGIO and SIGUSR1: an error is not looked at.                           *)
Handler(s) ==
    \E d \in Devices :
      /\ Live /\ <<s, d>> \in running
      /\ Read(d) \/ ReadNothing(d)
      /\ running' = running \ {<<s, d>>}
      /\ UNCHANGED <<prog, at, came, ready, setupVars, pending, rtQueue, early, ended>>

(* SIGRTMIN: an error ends the program; the serial line gives 0 instead.   *)
RtHandler ==
    \E d \in Devices :
      /\ Live /\ <<"SIGRTMIN", d>> \in running
      /\ \/ Read(d) /\ UNCHANGED ended
         \/ ReadNothing(d) /\ ended' = IF prog = "uart" THEN ended ELSE "error"
      /\ running' = running \ {<<"SIGRTMIN", d>>}
      /\ UNCHANGED <<prog, at, came, ready, setupVars, pending, rtQueue, early>>

Handlers == Deliver \/ Handler("SIGIO") \/ Handler("SIGUSR1") \/ RtHandler
-----------------------------------------------------------------------------
(* A report comes.  The system queues SIGRTMIN, the others merge.          *)
Raises(d) == d \in async /\ d \in owned

Lot(d) == IF prog = "uart" /\ d = "mouse" THEN 1..Reports ELSE {1}

Arrive(d) ==
    /\ Live
    /\ \E n \in Lot(d) :
          /\ came[d] + n <= Reports
          /\ came' = [came EXCEPT ![d] = @ + n] /\ queue' = [queue EXCEPT ![d] = @ + n]
    /\ early' = IF Raises(d) THEN early ELSE early \cup {d}
    /\ \/ ~Raises(d) /\ UNCHANGED <<pending, rtQueue, ended>>
       \/ Raises(d) /\ sigOf[d] \notin handled /\ ended' = "killed" /\ UNCHANGED <<pending, rtQueue>>
       \/ /\ Raises(d) /\ sigOf[d] \in handled \ {"SIGRTMIN"}
          /\ pending' = pending \cup {sigOf[d]} /\ UNCHANGED <<rtQueue, ended>>
       \/ /\ Raises(d) /\ sigOf[d] \in handled \cap {"SIGRTMIN"}
          /\ rtQueue' = Append(rtQueue, d) /\ UNCHANGED <<pending, ended>>
    /\ UNCHANGED <<prog, at, ready, setupVars, running, readVars>>

(* Bound: a program waits for reports that no longer come.                 *)
Over == (~Live \/ \A d \in Devices : came[d] = Reports) /\ UNCHANGED vars

Next == Main \/ Handlers \/ (\E d \in Devices : Arrive(d)) \/ Over

Spec == Init /\ [][Next]_vars

(* main and the handlers run; nobody needs move the mouse.                 *)
FairSpec == Spec /\ WF_vars(Main) /\ WF_vars(Handlers)
-----------------------------------------------------------------------------
SignalDriven == {"asyncio", "asyncio_concur", "optasyncio", "optasyncio_concur", "uart"}

Announced(d) == sigOf[d] \in pending \/ (\E h \in running : h[2] = d)
                \/ (\E n \in DOMAIN rtQueue : rtQueue[n] = d)

(* In the signal-driven programs, once they are set up, a report lies      *)
(* unread with no signal on its way only because one came before the       *)
(* device raised signals or, where signals merge or one signal stands for  *)
(* several bytes, because a read left some for want of room.               *)
NothingUnannounced ==
    prog \in SignalDriven /\ Live /\ Op = "spin" =>
        \A d \in async : queue[d] > 0 =>
            \/ Announced(d) \/ d \in early
            \/ (sigOf[d] # "SIGRTMIN" \/ prog = "uart") /\ d \in full

(* What ends a signal-driven program: a report before the handler is       *)
(* there, or a read that has taken the reports of two signals, so that the *)
(* second finds nothing.  Neither a keyboard nor the serial line does the  *)
(* latter.                                                                 *)
EndsForAReason ==
    prog \in SignalDriven =>
        /\ ended = "killed" => Op # "spin"
        /\ ended = "error" => Op \in {"open", "flush"} \/ ("mouse" \in merged /\ prog # "uart")

(* Signals are enough: whatever comes is read, or there is a reason.       *)
SignalsSuffice == NothingUnannounced /\ EndsForAReason

(* A program that polls reads everything that comes.                       *)
Polled == [ pollio |-> {"mouse"}, noblockconcur |-> Devices, poll |-> Devices, select |-> Devices ]

EverythingRead ==
    <>[](prog \in DOMAIN Polled => ~Live \/ \A d \in Polled[prog] : queue[d] = 0)
=============================================================================
