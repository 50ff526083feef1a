# A verification of Linux_C_Application in TLA+

The repository is a collection of C programs for a Linux board (i.MX6): a
small smart-home hub that is driven over MQTT and starts the other programs
(`33_mqtt`), those programs in their stand-alone form (`19_lcd` to `28_audio`),
and shorter programs on threads, locks, processes, signals, files, input
devices and buses. This directory models those whose correctness hangs on more
than the order of a straight list of calls, checks the models with TLC and
proves the most important results with TLAPS.

Every module names the file it models in its first comment; `PROJECT.json`
gives the source lines of every definition.

## 1. The system

### The parts, their state and their operations

| Part | State | Operations | What makes it correct |
|---|---|---|---|
| **MQTT hub**, `33_mqtt/mqttclient.c` | `child_num` shared by two threads without a lock; three stored pids; the flag `audio_capture_status`; the children of the process | main: publish, poll `waitpid`, subtract, sleep. Receive thread: `messagearrive` with `system`, `add_child`, `kill`, a FIFO | the counter follows the children; a stop hits the program it is meant for; one recording at a time; neither thread is wedged by the other |
| **MQTT session**, the same file | the connection, the topics subscribed to, what the broker keeps (subscriptions, will, retained status) | connect, announce, nine subscriptions, the loop, the `goto` chain of the way out | the chain undoes exactly what was done; the status tells the truth; a lost link ends the program |
| **Media catalogue**, the same file | the lists of what can be played, the numbers of the takes | a name is looked up by its beginning; each take is added and numbered or named | a take is heard again under its name |
| **WAV players**, `28_audio/*playback*.c`, `33_mqtt/pcm_async_playback_ctl_mixer_mqtt.c` | the file position, one period buffer, the SIGIO mask, the terminal, the ring of the sound card | fill the ring by blocking writes, by poll or in a SIGIO handler; obey the keys | the file is heard in order; the buffer is not used outside its life; an underrun ends the program; the terminal is given back |
| **Recorders**, `28_audio/*capture.c` | one period buffer, the file, the ring | read a period and append it, blocking, by poll or in a SIGIO handler | the file is what was recorded; an overrun ends the program |
| **Camera viewer**, `v4l2*.c` | three mapped buffers shared with the driver, `buf.index`, the mapped screen | set up, dequeue / copy / requeue, the SIGUSR1 handler that takes everything down | what is shown is not being written; no buffer is lost; a stop leaves nothing mapped |
| **LCD drawing**, `19_lcd` to `23_freetype`, `33_mqtt` | the frame buffer | points, lines, rectangles, targets, a star, characters, glyphs, images | what is drawn is the visible part of what was asked for |
| **Touch tracking**, `lcd_followfingers*.c`, `input_mt.c`, `input_st.c` | the current slot, per slot the place, an id and a `valid` flag | one step per input event, a report at SYN | it knows of each finger where it is and whether it came, moved or went |
| **Resource list**, `lcd_freetype_show_char_mqtt.c` | `str1`, `china_str` reused from line to line | read a line, convert, draw | what is drawn is the name in the file |
| **Counting threads**, `12_threadsync/2_mutex`, `4_spinlock`, `5_rwlock` | `num` and its lock | lock, load, store, unlock; join and destroy | no increment is lost; a reader sees a whole value |
| **Producer and consumer**, `12_threadsync/3_condvar` | `num`, mutex, condition variable | raise and signal; wait and drain; cancel | no wake-up is lost; the program ends |
| **Threads**, `11_thread` | the child thread, its cancel state, its clean-up stack, whether it is detached | create, exit, cancel, join, detach, push, pop | every join gets its answer, every clean-up runs once |
| **File locks, single instance**, `13_advanceio/6_filelock`, `9_process/14_singlepattern` | a file, its locks, its existence | open with truncation, lock, write, unlock | what is written under a lock stays until it is given back; one instance |
| **Waiting for input**, `13_advanceio/1` to `4`, `26_uart` | the event queues of mouse and keyboard, the signals on their way | read, poll, select, SIGIO, queued signals | nothing lies unread with nobody told of it |
| **Children**, `9_process/10_wait` | running and ended children, the pending SIGCHLD | wait, poll, reap in the handler | every child is reaped |
| **Sockets**, `30_socket` | the connection, the bytes on their way, the server's buffer | connect, send, receive, end | the server ends when, and only when, its client does |
| **Buses and peripherals**, `15`, `16`, `24`, `27`, `31` | descriptors and device settings | sequences of system calls, a read or write loop | mostly the order of the calls |
| **Exercises**, `6_str`, `8_sig`, `9_process`, `18_tslib`, `32_cmake` | none to speak of | single calls | - |

### How they interact

A message on one of the nine topics comes to `messagearrive` in the receive
thread. It writes the LED with `system("echo ...")`, starts the player, the
recorder, the camera viewer, the picture and text programs and the touch
program with `add_child` (fork, exec of `sh -c`, `child_num++`), stops them
with a signal to the pid it has stored, and passes volume and pause keys to the
player through the FIFO `input.txt`. main publishes the temperature every half
minute and reaps children by count. The touch program and the text program draw
on the screen the camera viewer copies its frames to; they share nothing else.

### What is hard

* two threads on `child_num`, and `waitpid(-1)` that cannot tell a program from
  the shell of a `system` in the other thread (MqttHub);
* pids that are kept and used after the program has ended (MqttHub);
* signal handlers that share variables with the loops they interrupt
  (PcmPlayer, V4l2Camera);
* a broker that remembers a run that crashed (MqttSession), files that outlive the
  list they were on (MediaCatalogue);
* devices that hand work back in any order, run dry, overflow or fail in the
  middle (PcmPlayer, V4l2Camera, TouchTracker);
* the signal after the unlock, cancellation inside a wait (CondDrain);
* signals that are merged, and signals that are not but whose reads are
  (ChildWait, EventReaders);
* threads and processes that are put in order by sleeping (ThreadJoin, ChildWait);
* a stream of bytes that is read as if it had lines (SocketChat);
* comparisons of `int` and `unsigned`, sizes and strides (LcdDraw, LcdImage);
* a buffer that still holds what was in it before (NameList).

`PROJECT.json` lists the hazards line by line with the properties that cover
them, and with a note where a property covers a hazard only in part.

## 2. The modules

### MqttHub (`33_mqtt/mqttclient.c`, `add_child`, `messagearrive`, the loop of `main`)

`mainPc`, `i`, `waited` and `mainReg` are main's place in the loop, its index,
`child_wait_num` and the value of `child_num` it has loaded; `cbPc`, `todo`,
`newPid`, `cbReg` and `sysPid` are the receive thread. `child_num++` and
`child_num -= child_wait_num` are a load and a store each. `handle` is the
three stored pids, `capturing` the status flag. A handler is the list of calls
its branch makes (`todo`), drawn from `CallsOf[topic]`, and each call is a step
or more: `ForkChild`, `IncrementLoad`, `IncrementStore`, `SystemFork`,
`SystemReturn`, `FifoOpen`, `FifoWrite`; the kill itself is done by the shell of a
`system`, when that ends (`ShellEnds`). `alive`, `zombie` and
`kind` are the kernel's process table; a pid may be given out again once it has
been waited for, never before. `Programs` end on their own; a player may
open the FIFO. `down` says why the hub itself has ended: a publication that fails, main's
`waitpid` error, or a stop that signals pid 0, its own process group, or -1, everybody.

`sh -c` is taken to replace itself with its one command, so that the stored pid
is the program's. Whether a name is in the media lists is a choice. The loop
polls even when `child_num` has been overcounted: `waitpid` then has no child,
fails, and main goes to the goodbye.

### MqttSession (the same file, `main` from `MQTTClient_create` to the last label)

One action per call that can fail and the label it jumps to; `k` counts the
subscriptions made or still to undo. The broker keeps `subs`, `status` and a
connection of a killed run it has not yet given up (`ghost`), whose will may
come at any later time. A link breaks unnoticed (`LinkBreaks`), is noticed
later (`ConnectLose`), and publications in between are lost without an error
(QoS 0). `Killed` ends the run anywhere; `Start` begins the next, up to
`MaxRuns`.

### MediaCatalogue (the same file, `list_init` and the play and capture branches)

The same three steps for sounds, films and pictures (`medium`): a take is numbered
or named (`TakeNumbered`, `TakeNamed`), a name is looked up (`Play`), and the hub may end and
start again (`Restart`), with its files on the disk and its lists gone. A name is a
sequence of parts, so that one can begin with another; a file is the take last written to it. Films and
pictures may be written over; the recorder of sounds ends where its file exists (`Refused`). A
list that is written behind its last place ends the model (`broken`).

### PcmPlayer (five players of `28_audio`, `33_mqtt/pcm_async_playback_ctl_mixer_mqtt.c`)

`prog` is the program. What the programs share, a handler, a read and a write of a
period, a pause, is an operator with the program and the next place as
parameters; each program then has its own actions (`MixerRead`, `CtlBlock`),
which give it its order of calls. Main and the handler run in one thread: `hpc` is
`"none"` while main runs. SIGIO comes when a period has been played and is
delivered unless blocked. The card plays a frame at a time (`PlayFrame`) and
underruns when the ring is empty. `snd_pcm_avail_update`'s negative error is
stored in an unsigned variable: `UIntMod` makes the conversion visible. Pauses
and resumes, failing calls, short writes, the volume, the terminal (`tty`), the drop and the
free of the buffer are steps of their own.

### PcmRecorder (three recorders of `28_audio`)

The same card the other way round: `Record` puts a frame into the ring and
overruns when it is full. A disk with `space` frames left makes a write short;
somebody may make room again (`MakeRoom`).

### V4l2Camera (`33_mqtt/v4l2_mqtt.c`; `25_v4l2/v4l2.c` is the same without the handler)

The set-up calls, the copy loop with `buf.index` as the loop counter
(`index`), the driver's queues (`queued`, `filled`), and the handler, which may
come between any two steps of main (`Deliver` stores where it came from) and
unmaps, closes and exits. A failed `VIDIOC_DQBUF` is not noticed by the code;
the model copies the buffer the counter happens to name. A refused `VIDIOC_QBUF` ends the
program in the set-up, but goes unnoticed in the loop: `refused` are the buffers lost so.

### AtomicCounter, MutexCounter, RwlockCounter, CondDrain (`12_threadsync`)

`AtomicCounter` is what the counting programs promise: steps that add a fixed number
and one report of the final value. `MutexCounter` is what they do, two threads that
lock, load, store and unlock, with a creation that may fail; the property
`Counts` is the refinement. `RwlockCounter` does it with writers and readers
under a rwlock, `holders` being who has it, and implements the same counter. `CondDrain` is `condvar.c`: main raises `num` under
the mutex and signals after giving it back, the child waits and drains, and at
the end main cancels the child, whose only cancellation point is the wait.

### ThreadJoin (`11_thread`)

Each program is two sequences of calls, main's and `child_thread`'s (`Text`), and
the actions are the calls. `life` is what the library keeps of the child:
it is `"gone"` once it has been joined or has ended detached, and its
identifier stale. `left` counts the seconds each thread still sleeps. The
programs order their threads by sleeping, and so a second passes when all of them
sleep or wait (`Tick`); that it passes while somebody could run, a busy machine, is
allowed `Slips` times.

### ChildWait (`9_process/10_wait`)

Three children that sleep a second and exit, and the four ways to collect them.
`pending` and `handling` are the one SIGCHLD that may wait and the handler,
which reaps until nothing is left; a signal ends main's sleep. Time is as in
ThreadJoin.

### EventReaders (`13_advanceio/1` to `4`, `26_uart`)

Twelve programs, each a sequence of calls of main (`Text`). `queue` is what a device has to
read; a read takes up to `Chunk` reports of the mouse (the buffer), or one line of the keyboard. Reports raise
the signal of their device once it is asynchronous and has an owner: SIGIO and
SIGUSR1 are merged (`pending`), SIGRTMIN is queued (`rtQueue`). Until its handler is there a
signal ends the process. On the serial line of `uart_ctrl.c`, which is in the mouse's place, one signal may
stand for several bytes.

### SocketChat (`30_socket`)

The connection is the sequence of units that are on their way, of which three
kinds are told apart: the beginning and the end of `exit\n`, and other text. A
send puts a piece there, a receive takes any number of units that are there. `begun`
says where the last receive with text began. A send to a server that has closed is lost, or is answered by
an error or SIGPIPE.

### LcdDraw, LcdShapes, LcdImage (lines, targets, `show_char`, `freetype_show_char`; `lcd_baseshow.c`, `lcd_myshow.c`; four `show_*_image`)

Pure operators: the set of cells a call draws, for characters and images with
the cell of the bitmap or the pixel of the file each of them gets. They are
compared with a definition of the visible part that does not follow the code.
`width` and `height` are unsigned in `lcd_followfingers_mqtt.c`, and so the
comparison `end >= width` is made modulo `Word`; the programs with int sizes
are `IntDrawLine`. `lcd_baseshow.c` moves a start beside the screen to its last
row or column, where the others draw nothing. The star is ten strokes of points that are
indices into the frame buffer, and wraps where the screen is too narrow. In LcdImage, `Stride` is the row length of the BMP format
and `RowBytes` what the program reads. Screens and BMP files have 16 bits a pixel.

### TouchTracker (`33_mqtt/lcd_followfingers_mqtt.c`, `19_lcd/lcd_followfingers.c`, `17_inputdev/input_mt.c`)

The kernel's side (which slot it last sent, which values it filters because
they have not changed, the queue, SYN_DROPPED at overflow) and the program's:
the slot it believes in, the place, id and `valid` of each. The program may be
started at any time, with fingers on the glass.

### SingleTouch (`17_inputdev/input_st.c`)

The same kernel for one finger and a program that does not know SYN_DROPPED at all.

### FileLocks (`13_advanceio/6_filelock`, `9_process/14_singlepattern`)

Several processes, each running one of eight programs: six on the file they are
given, or two on `sfile.pid`. `prog` and `pc` are the program and its place,
`opened`, `records` and `flocks` what the kernel keeps for it, `file` the file
the name stands for at the moment, `data` whose text is in each of the four regions
the programs distinguish. One action stands for the same call of all the
programs that make it; the tables `AfterOpen`, `AfterLock` and `AfterWrite` say
what each of them does next. A killed process gives its locks back; an
`atexit` handler does not run then.

### NameList (`33_mqtt/lcd_freetype_show_char_mqtt.c`)

For each place of `china_str` the line its character comes from. Lines are
shorter than the buffer and end in a newline, the locale is UTF-8.

### The MC modules

`MCMqttHub` and `MCFileLocks` only give constants their values; `MCMqttSession` and
`MCMediaCatalogue` also state what a list of topics and the text of a message are
(`OrderAssumption`, `StartsAssumption`, `StemsAssumption`). The other five hold two to four
modules that answer one question of different programs, so that one run asks it of all:
`which` (`family` in `MCThreads`) says whose behaviour it is, chosen at the start, and the others stay as they
began. `MCPcmPlayer` runs a player or a recorder, `MCSync` a counter with a mutex or
with a rwlock or the draining consumer, `MCThreads` a thread program or one that waits for children, `MCInput` a
reader of devices or a pair of sockets. `MCScreen` runs the drawing operators, NameList, TouchTracker or
SingleTouch; of the drawing operators it makes a behaviour: a state is a call, the next one has what it
has drawn. These five also name what the constants must be
(`DiskAssumption`, `RwlockAssumption`, `ThreadProgramsAssumption`, `WaitersAssumption`, `InputAssumption`,
`MarginAssumption`, `QueueAssumption`), and TLC evaluates that on every run.

The theorems are about these modules, or about the modules they instantiate.

## 3. What is checked

| Run | Bounds | What it shows |
|---|---|---|
| `hub_all` | 3 pids, 3 messages on 8 topics, forks may fail | `DriftHasCause`: counter and children only come apart by a stale store of one of the two threads, by a failed fork that is counted, or by main reaping the shell of a `system`. `WaitErrorMeansOvercount`: main gives up only when it had counted too many. `HubStopHasCause`: a stop signals the hub itself only with a pid stored by a failed fork, or, where no recording is to be stopped, while none of that program is there and none has been started |
| `hub_live` | 3 pids, 3 messages on 2 topics, no failing fork, fair | `OneRecorder`, `StopHitsRecorder` (pids are reused: the stop ends no other program unless the recorder had already gone), `ZombieReaped`, `TemperatureFlows` (main goes on while the FIFO blocks the receive thread) |
| `session` | 9 topics, 3 runs of the program | `GoodbyeLeavesNothing`, `OnlineWhileLinked`, `LossEndsProgram` |
| `player` | six players, three recorders, period 2, ring 6, files of 0, 1, 6, 9, 11 frames; 9 frames recorded, a disk of 5 | `InOrder`: what is heard is the file. `BufUsable`, `TailLossBounded`, `TerminalRestored`, `FileIsCapture`: the recording has no gap but one of a short write. `StreamsGoOn`: streams are fed or emptied, and a stream that stops ends its program |
| `sync` | 2 threads, 4 rounds; 2 readers and 2 writers, 2 rounds; 4 increments against the draining child | `Counts` and `RwCounts` (refinements of AtomicCounter, and what is printed under a read or write lock is current), `NoLostWakeup`, `NumAccounted`: what main of `condvar.c` prints is what the child has not counted down, above 0 only if the cancellation overtook a signal. `Terminates` |
| `threads` | 13 thread programs, 2 seconds lost to a busy machine; 4 ways to wait for 3 children | `ThreadsEndAsTold`: what `pthread_join` answers in each program, and each clean-up handler runs once, last first. `AllReaped`: no child is left behind. `ProgramsEnd`: all end but the two that join a thread that cannot be cancelled |
| `input` | 12 readers, 2 reports to a buffer, 3 reports a device; 2 pairs of sockets, 8 units of text, a buffer of 4 | `SignalsSuffice`: where signals announce the reports, one lies unread, or the program ends, only for the reasons named. `ExitUnderstood`: where the last receive began with a piece the server takes no other text for the exit line, and it never misses one it began with, whatever was torn before; its buffer fills only with units of several pieces. `InputFollowed`: who polls reads all, and a server ends once its client has |
| `catalogue` | 3 takes in 2 runs of the hub, 5 names, lists of 5 places | `HeardAsTaken`: takes of one run never share a number, and a take is found by its whole name until the hub ends, another is made under that name, or a longer name begins with it; a sound that has been recorded is never written over |
| `camera` | up to 3 buffers (the number the code asks for) | `ShownIsDequeued`, `NoBufferLost` (but those the driver refuses), `CrashCauses`, `CleanStop` |
| `screen` | 110 x 105 cells, calls within 3 cells of an edge, targets at every cell, images up to one larger than the screen, stars on screens of 127 to 131 by 149 to 154; lists of up to 4 names, 6 places; 2 fingers, 2 frames, a queue of 10 events; 1 finger, 4 frames, a queue of 5 | `DrawingIsCut`: lines, targets, bitmaps and rectangles are cut to the screen. `StarIsWhole`: the star is one where it has room, and only there. `ImagesShown`, `ExactNames`, `TouchesAreTrue`: kinds and places of the touches |
| `locks` | 3 processes with any programs for one file, 2 files of that name | `LockedDataStays`: what is written under a lock is lost only when another process opens the file or writes with no such lock. `OneInstance`: the guards of a single instance hold unless they are mixed. `LockedOut`: after a kill no `fileexistsornot.c` starts again |

Why the bounds are enough. *Hub*: a lost update needs one add and one
subtraction under way, a stolen shell one `system` and one poll, a reused pid
two programs after one another; three messages and three pids give each with
one to spare. *Session*: the goodbye of a run can meet what an earlier one left
and a will of the one before. *Players and recorders*: the ring has three periods, so that
one can be playing, one full and one empty; the file lengths are none, less
than a period, the ring exactly, a ring and a half, and one that is not a
multiple of the period; a disk of five frames cuts a period in two. *Threads*: the programs are
themselves, only that a machine may be busy is bounded, by more than the second any of
them allows. *Events*: three reports are a full buffer and one behind it, or one for the first signal, one that is read with it, and
one after. *Socket*: `exit` and other text fit behind one another, torn anywhere, into a buffer they can fill. *Catalogue*: two takes meet under a name and a third is beside them; of five places the
pictures have three at the start, so that the third take finds the list full. *Camera*: the code's own number of buffers.
*Screen*: it is larger than the target (101 cells), and all decisions
depend on which side of an edge a coordinate is; the star needs 129 columns and
152 rows. *Touch*: the
state of the kernel at the start is any, so that two frames are any two
consecutive ones; with one finger and a queue of 5 the second frame overflows it and two come after. *Locks*: one process that holds, one
that asks and one that ends or is killed between them; a second file of the name
is enough for two holders. *Names*: the latest name that reached a place needs three,
one more than it takes to be overwritten.

Several properties state exactly how far the code's behaviour is from the ideal: they
name the causes of a drift (`DriftHasCause`), of lost data (`LockedDataStays`), of a crash (`CrashCauses`), of a
wrong picture (`LinesCut`, `ImagesShown`), of an unread report (`SignalsSuffice`), of a missed end (`ExitUnderstood`), and forbid every other.
Each property has a mutant in `PROJECT.json`, a small change of one definition
that breaks it.

### Fairness

* `MqttHub`: each of the two threads goes on when it can, and a shell that
  runs one `echo` ends. Programs need not end, players need not open the FIFO.
* `MqttSession`: main goes on when no outside event is needed; a broken link is
  noticed and a dead connection given up at some time (keep-alive).
* `PcmPlayer`, `PcmRecorder`: main and handler go on; the card plays and records while it runs. Keys need
  not come.
* `MCSync`: weak fairness of each thread. Taking a lock needs nothing
  stronger in the counters because the others take it a bounded number of times only. In
  `CondDrain` main's lock and the cancelled child's death have strong fairness, because the mutex is given back and
  taken again by the other any number of times; the scheduler and the mutex of the library favour
  nobody for ever. A wait need not end without a signal.
* `MCThreads`: every thread and process runs, and time goes on.
* `MCInput`: main and the handlers of a reader run, and a server; nobody need move the
  mouse, type, start a client or stop one.

`CHECK_DEADLOCK FALSE` is only in `session`, where the system stops after the
last run.

## 4. What is proved

Every invariant, every action property and every refinement that a run checks is
a theorem here: for all values of the constants that the named assumptions allow,
where the run has one small instance. The assumptions say what the code gives: numbers are natural,
sizes are positive and within the word, topics and programs are those there are, a period fits
into the ring, a packet of events into the queue. `PROJECT.json` lists the theorems with the property each
states.

The pattern is the same everywhere. The property is not inductive; a stronger invariant is,
a conjunction of named parts of which each says what one part of the code keeps in
order. One lemma shows that it holds at the start, one or more for each group of actions
that a step keeps it, and the theorem follows. Before such an invariant was proved TLC has
checked it on the run.

* **MqttHubProofs.** `TypeCorrect`; `CounterNeverNegative`: the counter is
  related to `waited`, `i` and the register main has loaded (`CountInv`), because the
  other thread only raises it, so that a stale store can lose counts but not
  take more away than there were; `HubStopsHaveCauses`, the action property, which needs to know which calls
  are left in the handler (`StopInv`, `AimInv`) that a program whose stored pid is still 0 is just being
  started (`StoredInv`), and that -1 takes a failed fork (`ErrInv`); `DriftCauses`, the action property, by the
  cardinality of the set of unreaped programs; `WaitErrorsMeanOvercount`.
  `RecordingsAreExclusive` and `StopsHitRecorder` are proved for forks that do not fail
  (as in their run): the flag, the stored pid and the calls still to be made agree on the one
  recorder there may be (`TodoInv`, `RecorderInv`).
* **MqttClientProofs.** The session: `GoodbyeIsClean`, `LoopIsComplete`, `StatusIsOnline`,
  for every list of topics and every number of runs; at each label what is subscribed in this run is a
  prefix of the list, as long as the link held (`UnwindInv`). The catalogue: `TakesAreHeard`, for every set
  of names, every length of the lists and any number of takes: the numbers of a run are
  those counted so far (`NumbersInv`), every take of the run is on the list (`ListInv`), and a file
  holds the last take of its name that was made, for sounds the only one (`DiskInv`). What the lookup finds is the first name
  that fits; that there is one is the least-number principle.
* **PcmPlayerProofs.** `HeardInOrder`, `HandlerHasBuf`, `TailIsShort`, `TerminalIsRestored` for the six
  players, every period, ring and file; `RecorderWritesAll` for the recorders. The file has been read as far as it
  is written to the ring, but for what main or the handler, never both, is about to write
  (`PosInv`); that it is never both rests on where the signal mask lets the handler in
  (`PlaceInv`). `pcm_async_playback.c` has no mask: it keeps only what the property leaves of it once
  the handler has come too early (`Unprotected`).
* **ThreadProofs.** `MutualExclusion` and the refinements `CountsAtomically`, for every number of rounds, and
  `RwlockCountsAtomically`, for any number of readers and writers: `num` is what the threads have
  made, a sum of two, and with a rwlock the cardinality of the set of raises done (`RwSumInv`).
  `SleeperIsTold` and `NothingIsLost` of `condvar.c`: while the child waits on a positive `num`
  either it has been signalled or main is between its unlock and its signal; what main has put in is counted down or
  left, and left only where a signal had been sent.
  `ThreadsToldRight`, however many seconds are lost: which clean-up handlers are on the stack is known at each call
  (`CleanInv`), and three programs are right only if no second is lost, which needs where both threads
  are in each second (`SpinInv`, `OtherInv`, `SelfInv`). `ChildrenAreReaped`, for any number of children and naps
  that are enough: a zombie is noted by a pending signal or a running handler (`NotedInv`), and each nap of main's ends
  with a child (`NapInv`).
* **FileLocksProofs.** `OneInstanceRuns`, `StaleFileLocksOut` and `LockedDataIsKept` for any set of
  processes and any number of files: who works behind the flock holds it on a
  file that has had the name (`FlockInv`), until a removal the name means that
  file (`NameInv`), and no two processes have a record lock of one region if one of them is to
  write (`ExclusiveInv`).
* **InputProofs.** `SignalsAreEnough` for the readers that signals drive: nothing signals before a handler is there
  (`UnhandledInv`); where signals are queued there is one for each report until a read takes several (`RtInv`); where they are
  merged a report left unread has its cause or its signal (`MergeInv`, `UartInv`). `LeaveIsTaken` for both pairs of sockets, every
  buffer and any amount of text, from what the last receive began with alone: what is sent is a sequence of pieces shorter than the buffer, only the last of which
  begins with the exit line (`PieceInv`, `GapInv`).
* **V4l2CameraProofs.** `FrameIsOurs`, `BuffersComeBack`, `FaultsAreExplained` and `StopsAreClean`
  for every number of buffers; at most one buffer is the program's, the one the
  loop counter names, and the handler undoes what main has done where it was interrupted (`CleanInv`).
* **ScreenProofs.** What each call draws, for every screen and all arguments: `LineIsCut`, `IntLineIsCut`,
  `LineWrapsAround`, `TargetIsCut`, `IntTargetIsCut`, `GlyphIsCut`, `CharIsCut`, `RectangleIsBorder`, `PointIsBorder`,
  `ImageIsShown`, `BmpIsShown`, `BmpIsSlanted`, `TurnedBmpIsShown`, `TurnedBmpIsSlanted`, and from them `DrawingsAreCut`
  and `ImagesAreShown`. `StarsAreWhole`: the 136 points are told apart and mirrored stroke by stroke, and on a
  screen of 129 columns or more an index is a row and a column without a carry (`WideStarIsStar`, for every size of
  the screen; `NarrowStar` is for the two narrower sizes the calls ask for).
  `TailsAreOld`, `NamesAreExact`, `TailsAreShown` for every list of names and every size of the buffers.
  `TouchesStayTrue` for every number of slots, all coordinates, and every queue that has room for a packet and a loss: what an
  event in the queue says of its slot is what the finger did (`Truth`), between two reports every change is told
  (`AllTold`), before the first it is told or has been (`FirstInv`), and each slot event is about the slot of the
  events behind it (`SlotInv`). A packet is put together slot by slot, by a recursive function, and what holds of the whole is shown
  from the first slot for which it would not. The single touch is the tracker with one slot: its queue and its state are
  mapped to those (`SingleInv`).

Only model-checked: what must happen at some time, which is beyond the prover (`ZombieReaped`,
`TemperatureFlows`, `LossEndsProgram`, `StreamsGoOn`, `Terminates`, `ProgramsEnd`, `InputFollowed`), and `OneRecorder` with
forks that fail, where it is false: a stop whose shell cannot be forked leaves its recorder running. Induction over data is done by hand, by the
least number for which a statement fails, since the library's induction theorems take an
operator as a parameter that the provers cannot instantiate. No module uses a RECURSIVE operator.

## 5. What the models show of the code

* The child counter can drift in both directions (a lost increment, a lost
  subtraction, a failed fork that is counted, a shell that was stolen). An overcount
  makes main's `waitpid` fail once no child is left, and the hub says goodbye.
* A stop of the video monitor or of the touch program before any start signals the hub's
  own process group. The flag protects the audio recording from that, but no stop is protected from a fork that
  failed: the -1 it stored is signalled, which is everybody.
* The receive thread waits in `open` of the FIFO until a player opens it.
* `"online"` stays retained after a clean disconnect.
* The camera viewer shows a buffer it does not own after a failed dequeue, and
  faults when the stop signal comes while the screen is being set up.
* The target is drawn across the whole screen when a finger is near the left or
  upper edge; BMP files with an odd number of columns are shown slanted.
* Narrow names are drawn with the tail of longer ones before them.
* `pcm_async_playback.c` fills the ring with SIGIO unblocked: after a short write or on a slow
  disk the handler may run between main's read and its write.
* A recorder whose disk is full for a moment leaves a gap in the file and goes on.
* `setcancelstate.c` and `cancelpoint.c` never end; `detachstate.c` joins an identifier that is a
  second stale, and the answer is `EINVAL` or anything.
* The programs on SIGRTMIN end as soon as one read takes the reports of two signals; the ones on SIGIO
  may leave reports unread that nobody announces, and end if a report comes before
  the handler is set.
* The server misses an `exit` that comes behind other text or in two parts, and takes the end of a line
  for one where it is torn there; the server of the internet pair
  does not notice its client's end.
* The star needs a screen of 129 columns and 152 rows, and is wrapped on smaller ones.
* A hub that is started again numbers its recordings from the beginning: a film or picture overwrites
  that of the run before; a sound is refused by the recorder, because its file exists, and the old one is heard
  under the new entry. It does not know the other recordings of the run before.
* The camera viewer does not notice that the driver refuses a buffer; it goes on with one fewer.
* A file shorter than the ring is never played; of longer ones the end is cut off.
* The file lock programs truncate the file at `open`, before they ask for the
  lock: each one that is started wipes what another has written under its own.
* The two single-instance programs use the same `sfile.pid`. `fileexistsornot.c`
  never starts where the other has run or where it was killed itself, and its exit can
  let a second `filelock.c` in.
* The child of `condvar.c` may be cancelled before it has counted down what it was signalled for; it
  dies holding the mutex that main then destroys (which POSIX leaves undefined).

No doc, comment or test of the repository says otherwise of these, so none of
them is listed as a finding.

## 6. What is not modelled

* Pixels, colours, fonts and decoders; the samples; the formatting of messages.
* What happens behind a full media list, and how the name of a film is cut out of its message.
* Failures of `fcntl`, `sigaction`, `poll` and `select`; of the `lseek` after a short write in the
  players; connections of `30_socket` that break by themselves.
* The order of the calls of `lcd_baseshow.c` and `lcd_myshow.c`; the settings of the serial line.
* Children inherit the descriptor of the MQTT connection; the library is taken
  to ignore SIGPIPE.
* A driver that grants more buffers than it was asked for.
* Lines of the resource list that are longer than the buffer or lack a newline.
* The parts with status `not_modelled` in `PROJECT.json`, each with its reason.

## 7. Plan

Built so far, in this order: the hub and its session, the player, the threads
with their abstract counter, the camera, drawing and touch, the resource list, the
file locks; then the other players and the recorders, readers and writers,
`11_thread`, children, readers of devices, sockets, shapes, the media catalogue, the serial line and
the single touch. Each is a module of its own, because the programs share no state but
the hub's processes, which MqttHub has as its `Programs`; MutexCounter and RwlockCounter are composed
with AtomicCounter, and LcdImage and LcdShapes with LcdDraw. What comes next, by what is most likely
to be wrong:

1. Proofs: every safety property of the runs is a theorem. What is left are abstract
   specifications of more components (a player as a stream that is heard in order, a tracker as
   a list of reports) with the detailed ones shown to implement them.
2. The two threads of `31_can`, which share a socket, and the edges of `16_gpio/gpio_intr.c`.
3. What is left of `28_audio`: the parsing of the WAV header, as far as a wrong one leads
   to other calls.
