# Verification of the EMU test simulator (protest_emu)

`protest_emu` stands in for everything an energy management unit (EMU) talks
to: six LCD displays with their PCS inverters (Modbus TCP servers), battery
management systems (Modbus RTU masters on two serial ports), a PLC (Modbus TCP
server) and an EMS (shared memory). It is one C process with some twenty
threads that share globals without locks. This directory models it in TLA+,
model-checks the models with TLC and proves part of what they satisfy with
TLAPS. The repository has no documentation and no tests; what the program is
meant to do is taken from its comments and log messages.

## Inventory

| Part | State | Operations | Interacts through |
| --- | --- | --- | --- |
| LCD link (`lcd/threads_lcd.c`, `_socket_server_listen`) | per port: `modbus_sockt_state`, `modbus_client_sockptr`, `g_comm_qmegid`; the descriptor table; message queues | server thread: accept, mark ON, publish, create threads; receive thread: select, recv, msgsnd, exit; send thread: new queue, poll, analyse | globals without a lock, kernel descriptor numbers shared by all ports |
| LCD registers (`lcd/protocol_lcd.c`) | `val_pw`, `val_qw`, `cmd_start_pcs`, static register images | functions 03, 06, 10, `initData` | called by the send threads; function 06 drives the EMS |
| EMS sequence (`ems/threads_ems.c`, `Analysfun06`) | `g_sys_status`, `g_sys_status_last`, `g_lcd_status_end`, the static collection flags | reader drains que1, writer puts commands into que2, send threads collect the answers of all PCS | shared memory and semaphores to the EMU, globals without a lock inside |
| BAMS (`simubams/`) | per port `pcsid`; static `xxxx`, `fs_write`, `tv_timeout` | one thread per port: page, frame, `WriteComPort` | static variables of `serial.c` and `protocol_bams.c` |
| Serial set-up (`Uart_Init`, `OpenComPort`, `set_port_attr`) | static `termios_new`, `fd` | open, build the attributes, tcsetattr | all serial threads run it at the same time on the one `termios_new` |
| PLC (`simu_plc/`) | one state, one descriptor, one queue | like the LCD link with a different exit | descriptor table of the process |
| `main.c`, `command.c`, `crc.h`, register tables | configuration | straight-line code | - |
| `libcommon.a` (binary) | - | thread creation, message queues | used by all links |

What makes it hard: the threads of a port outlive each other's connections;
the number of a closed descriptor is given to the next client; the status of
the EMS is stored by three kinds of threads; the collection flags are updated
by up to six; `serial.c` was written for one thread and is used by two; the PLC
exit closes descriptor 0 of the process the displays run in; the server threads
are up before the registers are initialised.

What each part must satisfy:

- LCD link: one receive thread per port, on its own descriptor; a taken port is
  served; a lost client frees it; requests are handled once and queues drained.
- EMS: commands in the order of the script, each only after all PCS answered
  the one before, none lost, the script not standing still, sessions independent.
- BAMS: every battery in every cycle, frames within their buffer, ports
  independent of each other, heartbeat moving.
- Registers: every frame reaches the PCS it names, an answer is what the
  registers hold, powers and the apparent power are within their widths.
- PLC: like the LCD link; in fact it serves one client and never listens again.
- Both links together: neither closes, answers to or leaves alone a client of
  the other.
- Serial set-up: a port gets the attributes asked for it.

`main.c` of this commit does not call `CreateThreads_ems`, so the shipped
program runs the EMS collection code of `protocol_lcd.c` but neither reader nor
writer. `EmsSequence` models the component as `CreateThreads_ems` starts it.

## Modules

`LcdLink` - an action is the code between two accesses to shared state. Threads
are named by the connection they were made for: `server[p]`, `receiver[c]` and
`sender[c]` are program counters; `client_sockptr`, `fd`, `err`, `qid`, `got`,
`squeue`, `job` are the C locals. The load of the queue id (`LoadQueue`) is a
step before the `recv()` it is an argument beside. `table` is the kernel's
descriptor table with POSIX lowest-number allocation; a close or read of a
number reaches whatever connection has it now. The client may send, close
(`fin`) or reset (`rst`, one error and then end of file). Frames are
<<connection, number>>. Polling with sleep and select time-outs become waiting;
the queue holds `QueueLen` frames. `queueZero` is the queue whose id is 0: the
global of a port that has had no queue yet is 0 and names it (`ZeroIsFree`: no
other program made it before). Descriptor 0 is `Stdin` at the start, if it is
in `Fds` at all.

`PlcLink` - the three threads of the PLC, on the same kernel variables. Its
exit stores STATUS_OFF in the descriptor instead of the state, so no thread is
made twice and its locals are scalars; `PtrAfterLoop` is that store. `Links`
composes it with `LcdLink`: one descriptor table, one set of queues and
connections, interleaved steps.

`EmsSequence` - reader, writer and the send threads of the LCDs, one action per
load or store of a shared variable, the EMU as environment (`loaded` is what
the writer has loaded of the status and not yet stored as the last one). Bit
masks are sets. Three things are coarser: the loop that zeroes six masks is one
step, so is the test of the idle status and the end flag in `TestIdle` (the
flag never falls), and so is a section under mutex2 (`Put`). The EMU enters
que1 only while mutex1 is free. `cmd_start_pcs` is stored as the last step of a
start or stop frame (`SetCmd`). `log` is the history of commands since the last
communication setting, `got` which PCS received which kind of frame since it
was first asked for. `EmsScript` is the abstract specification: commands in
order, each after its round. `EmsSequence` instantiates it twice: `Abstract`
with the history as it is, `DoublesAside` with `turns`, the history in which a
command issued twice in a row counts once.

`PcsRegisters` - the registers of the PCS of one display: `AnalysModbus`,
`Analysfun06` and `BakLcdFun03` of its send threads, and `initData`, one load
or store a step. The addresses are those of the code, once as the handlers list
them and once as `getPcsid` does. `Apparent_Power` is computed at the widths of
the code: a 32-bit word is a pair of halves, because TLC's integers have 32
bits themselves. `asked` is the history of what each PCS was told, by the PCS
the frame meant; `clean` says that nobody else has stored a register of it
since the frame in hand came.

`SerialPort` - the set-up of the serial ports, every statement on the shared
`termios_new` a load and a store (the Makefile sets no optimisation).
`BamsMaster` extends it with the cycles: one thread per serial port; FD_ZERO,
FD_SET (load, store) and select (copy in, copy out) on the shared set are
separate steps. Time is left out: a select that finds nothing ready may time
out at once. The ports are opened blocking, so a write completes or waits for
the line. A port that could not be opened goes on and only times out.

`MCLcdLink`, `MCLinks`, `MCEmsSequence`, `MCPcsRegisters`, `MCBamsMaster` give
values, symmetry and bounds for TLC. `LcdLinkProofs`, `LinksProofs`,
`EmsSequenceProofs`, `EmsRoundsProofs`, `EmsScriptProofs` (each extends the one
before), `PcsRegistersProofs`, `BamsMasterProofs` hold the proofs.
A definition `Name_Slip` standing before `Name` is a faulty variant of it that
shows a property notices the fault; no specification uses it.

The modules overlap in the send thread: `Analyse` of `LcdLink` is the call that
`PcsRegisters` refines into `AnalysModbus` ... `Reply`, and `EmsSequence` into
`Take` ... `SetEnd` for the frames of function 06 that move the EMS.

## Runs

| Run | Instance | Shows |
| --- | --- | --- |
| `LcdLink_safety` | 2 ports, 2 connections, 2 descriptors, 1 error tolerated, 1 frame each, queue of 1, creation may fail; symmetric ports | types, `OneReceiver`, `ReceiverKeepsItsNumber`, `HandledOnce`, `QueueOfOwnPort` |
| `LcdLink_liveness` | 1 port, 2 connections, no error tolerated, creation succeeds, `FairSpec` | `TakenPortIsServed`, `PortIsOfferedAgain`, `QueueIsServed` |
| `LcdLink_lateclose` | as above | *violated*: the exit closes a newer connection (`threads_lcd.c:197-198`) |
| `LcdLink_gone` | 1 connection, `FairSpec` | *violated*: a client that closes keeps the port for ever (`threads_lcd.c:171-182`) |
| `Links_shared` | 2 displays and the PLC, 3 connections, descriptors 0, 3, 4; symmetric ports | types, `OwnConnection`, `OneUnserved`, `AnswersGoHome`, `AnswerReachesAsker` |
| `Pcs_registers` | PCS 4 and 5, 2 send threads, 4 frames, powers 2317 and 65535 | types, `OwnRegisters`, `AnswerIsCurrent`, `ApparentIsRight` |
| `Ems_rounds` | LCDs of 2 and 1 PCS, one session | types, `WriterAfterAttach`, `NothingIssuedEarly`, `OrdersAreObeyed`, `InScriptOrder`, `KeptUntilIssued`, `FollowsScript` (refinement, doubles aside) under all races of two send threads, reader and writer |
| `Ems_script` | 1 LCD of 3 PCS, one telemetry message, `FairSpec` | `ImplementsScript` (refinement), `PendingIsIssued` |
| `Ems_stall` | 1 LCD of 2 PCS, repeated telemetry, `FairSpec` | *violated*: all PCS started, but the status was not idle yet and the sequence stops (`threads_ems.c:173-175`) |
| `Ems_restart` | 1 LCD of 2 PCS, two sessions | *violated*: flags of the earlier session complete on the first start frame (`protocol_lcd.c:95-98`) |
| `Bams_cycle` | 2 ports of 15 batteries, an open may fail, lines stop twice, `FairSpec` | types, `PagesFollowOn`, `FrameFits`, `LostOnlyByOverlap`, `CyclesComplete`, `AloneGetsAsked` |
| `Bams_lost` | 2 ports, lines always ready | *violated*: FD_ZERO of the other port loses a frame (`serial.c:161-168`) |

Bounds. Two connections are what the races of the LCD link need: an old and a
new one, on the same or on different ports, and two descriptors let a number be
reused or not. One tolerated error separates "counted" from "too many". With
one frame per connection and a queue of one, the queue of an old connection can
be full or empty when the new one comes. `Links_shared` needs a third
connection: two displays' clients beside the one of the PLC, or one left alone
on descriptor 0 and another on its number. There are two displays, so that a
request can get into the queue of another port by the id 0. Its constraint
`Bounds` lets only the first connection send a frame and leave (one request to
be answered wrongly, two other clients to get the answer), leaves the reset to
the runs of the LCD link, where it only adds an error, keeps the last
connection from going to a display, where it would repeat what the first two
show, and lets it come when the first has left. `Pcs_registers` has the PCS on
both sides of the gap in the addresses (all six are in the proof); 2317 times
ten is the largest power two registers can have with the root still a short,
65535 times ten is a negative one, -10; four frames are a start, two powers and
a read. Two send threads suffice for every lost update of a mask; the second
LCD has one PCS, so that its frame can be the first of a round (which then
never completes, see below) or a later one. Three PCS give a first, a middle
and a last frame. `MaxCmds` is never reached in `Ems_script` (the script has
six commands), and in `Ems_rounds` sessions with a command issued twice are
followed up to five commands (`Bounds`), those without to the end of the
script. Fifteen batteries are the configuration: pages of 7, 7 and 1. The two
ports of `Bams_cycle` ask for different rates (the configuration has 9600
twice), so that an attribute of the other port is noticed; `CyclesAfterSetUps`
follows the cycles from one of the values the set-ups leave in `termios_new`,
which nobody reads again. Deadlock checking is off where connections, sessions,
commands or frames are bounded, or where the reader may end at start-up.

Fairness. The threads are ordinary POSIX threads that block only in calls with
a time-out, so every thread is weakly fair; in `EmsSequence` the EMU also takes
commands and sends telemetry. Clients, reports and serial lines promise
nothing; `CyclesComplete` is conditional on a line that works from some time on.

What the runs do not show, and the models do exhibit:

- With two LCDs `ImplementsScript` fails: both send threads can see the same
  completion and the command is issued twice. `FollowsScript`, `OrdersAreObeyed`
  and `KeptUntilIssued` are what remains true.
- With repeated telemetry the start command can be issued twice, and the second
  time out of order: the reader has found the status idle, waits before it
  stores the start (`threads_ems.c:209`), and stores it after the start frames
  have moved the sequence on (commands 2, 3, 8, 3). The other properties of
  `Ems_rounds` about commands then fail as well.
- An LCD with one PCS never completes a round that its frame begins
  (`protocol_lcd.c:43-52`); the configured LCDs have five.
- A restart of the EMU in the middle of a command is excluded (`Resting`).
- `OwnConnection` and `AnswersGoHome` speak of the time before a late close
  (`LcdLink_lateclose`) has hit a foreign connection (`clean`); afterwards a
  receive thread can work on a stranger's descriptor.
- The id 0. A port that has had no queue yet puts its frames into the queue with
  the id 0, whose port answers them to its own client (`QueueOfOwnPort` and
  `AnswerReachesAsker` name this exception), and the PLC, if the queue is its own,
  answers a display's request to its client (`AnswersGoHome`).
- After its exit the PLC answers to descriptor 0, where a client that a display
  has left alone may be. `AnswersGoHome` includes this time, and says that it can
  be nobody else.
- After its exit the PLC never listens again: its state stays ON, because the
  exit stores STATUS_OFF in the descriptor (`threads_plc.c:216`), though the log
  two lines on says it waits for the next connection.
- `AnswerReachesAsker` asks that the asker is still open and served: a request
  that is handled after its receive thread has left is answered to whatever
  connection its port has then.
- `OrdersAreObeyed`: the register of a start or stop frame is stored after the
  frame has moved the EMS on, so at the next command a send thread may still hold
  it. This is allowed there, and one command later no longer.
- `TakenPortIsServed` holds of creations that succeed. If the receive thread
  cannot be made, its port stays ON with nobody to serve it (`threads_lcd.c:242`).
- `PagesFollowOn` and `CyclesComplete` count the batteries that were framed, not
  those whose frame was written: a failed write skips its page.
- With overlapping set-ups a port can get rate 0 (one clears `termios_new` at
  `serial.c:270` before the other's tcsetattr at `serial.c:286`) or the rate of the
  other port, where the rates differ; `AloneGetsAsked` is what remains true.
- An order that comes while `initData` still runs is overwritten by it;
  `AnswerIsCurrent` counts that store as one more order.
- `ApparentIsRight` excludes negative powers (charging, by `YC_Define.h`) and
  squares from 2^30 on: there the value sent is wrong.

## Proofs

All theorems hold for every value of the constants, from the named assumptions
of the modules; those of `EmsRoundsProofs` and `EmsScriptProofs` say which
sessions they speak of (below). Every property the runs show to hold is proved
but for the liveness properties. Each inductive invariant was checked by TLC
on the instances of the runs before it was proved.

`LcdLinkProofs`: `TypeOK`, `OneReceiver`, `ReceiverKeepsItsNumber`,
`QueueOfOwnPort`, `TakenPortIsServed`, `HandledOnce`. That a second receive
thread cannot appear depends on where the server thread is, so the inductive
invariant `IInv` adds `ServerInv` (between accept and thread creation the port
state and the globals are as this server thread left them, the new connection
has no receive thread yet), `ReceiverInv` (a receive thread in its loop belongs
to the connection accepted last, its port is ON, and the server thread is
waiting or creating the send thread), `HandInv` (a thread has a queue or a
frame in its hand only where it uses it) and `QueueInv` (a queue that a port or
a thread names was made by a thread of that port). `HandledOnce` needs
`FrameInv` on top: a frame is in one place only, of all hands, queues and the
history, and was read before. `TableInv` is for `Links`: a connection that is
the last its port accepted is behind no number but the one its port accepted.

`LinksProofs`: `LinksTypeOK`, `OwnConnection`, `OneUnserved`, `AnswersGoHome`,
`AnswerReachesAsker`. A step of the PLC keeps `IInv` of the displays (it
touches only shared variables, and in the ways `IInv` allows), a step of a
display keeps `PlcInv`; `OwnInv` gives every served connection of either link
its number until `clean` is lost, and `ZeroInv` says who may be behind
descriptor 0 before and after the PLC exit. `AnswersGoHome` needs `SentInv` for
the receiver - the descriptor is that of the client until the exit has stored
0, and whoever is behind number 0 then stays alone (`UnservedStays`) - and
`HomeInv` for the asker: unless its queue has the id 0, what is in the queue
and the hands of the PLC comes from its client, which rests on `QueuesInv`,
every other queue in use belongs to a display. `AnswerReachesAsker` is
`TableInv` for a request that its own port handles; for the others `CrossInv`
says that until a late close a frame gets to another port only through the
queue with the id 0.

`EmsSequenceProofs`: `TypeOK` and `WriterAfterAttach`. Types are not inductive
alone: `WriterInv` (what the writer puts into the queue is still a command: in
between nobody stores anything else), `ReaderInv` (the reader moves on only
from an entry that is there), `HandlerInv` (an LCD gets frames of its own PCS,
a working send thread holds one, a loaded mask is of the kind its store
expects) and `AttachInv` (the status leaves its first value only through a
reader that has attached).

`EmsRoundsProofs`: `InScriptOrder`, `NothingIssuedEarly`, `OrdersAreObeyed` and
`KeptUntilIssued`, for any LCDs with any number of PCS, under `OneSession`: one
start of the EMU, with one telemetry message. Both halves are needed: without
them `Ems_restart` and the order 2, 3, 8, 3 above are counterexamples. The
invariant `RInv` counts the session in rounds: `Stage` is the place in the script
of the last command. `PipeInv`: every command and frame under way is of this
round or the one before, in order, and an LCD that has begun on this round has
nothing older in front of it (`Settled`). `GotInv`: no frame of a later round has
been received, all frames of an earlier one have. `TrackInv` and `HandsInv`:
while the collection is `Live` for this round, what its masks hold, or what a
send thread has loaded of them, has been received in this round - so a lost
update can only delay a completion. `StatusInv`: the status is the command of
this round, or that of the next one and the round is `Full`. `EndInv` and
`PlaceInv`: the collection of the second start finds `g_lcd_status_end` set and
does not begin the script again. `ArmInv` and `FreshInv`: what the flags hold
when a round begins. `CmdInv`: the start/stop registers of the PCS that have
got their frame: when the next command is put the send thread may still hold it,
when the one after that is put for the first time the round between is `Full`, and
nobody holds a frame of an earlier one (`FirstAfterRound`). `StartInv`: how the
session begins. `KeepInv`, for
`KeptUntilIssued`: between put and its last store of the writer the status is
what was put, and no send thread is about to store the next command.

`EmsScriptProofs`: the refinement of `EmsScript`, under `OneSession`, step by
step: `Put` is the abstract `Issue` after a full round, or puts the command of
this round again; taking a frame of the round is `Reach`; every other step is a
stutter. `FollowsScript` holds for any LCDs from `RInv` and `TurnsInv` (no turn of
the script is left out). `ImplementsScript` holds with one LCD, of any number of
PCS: the invariant `Once` adds that the frames of a round are under way exactly
once and in order, so that the last one completes the collection, and that the
only send thread has nothing left to store when the next command is issued.

`PcsRegistersProofs`: `TypeOK`, `OwnRegisters`, `AnswerIsCurrent`,
`ApparentIsRight`. `TablesAgree` checks the thirty addresses against `getPcsid`;
hence every store hits the PCS it means (`reg = asked`), and `ReadInv` says what
a thread that nobody disturbs has loaded so far. `ApparentIsRight` is arithmetic
on the halves of 32-bit words: `SquareHalves` and `PlusHalves` rebuild the sum of
squares, and `RootIsRoot` shows that the two bytes of `Isqrt` exist and give
the root (`Bisected` finds each by halving the interval).

`BamsMasterProofs`: `TypeOK`, `PagesFollowOn` and `FrameFits` for any ports and
any number of batteries from 1 to 18 (the length of `para_soc`): the invariant
adds `PageIsRun`, a page is an interval of one to seven batteries of its port,
and `PageArithmetic` isolates the arithmetic of `createFunFrame`.
`LostOnlyByOverlap` from `LostInv`: an untouched thread finds its own
descriptor in the set it has filled. `AloneGetsAsked` from `AloneInv`: the
attributes after each statement of a set-up that no other one has met.

Only model-checked: the liveness properties `PortIsOfferedAgain`, `QueueIsServed`,
`PendingIsIssued` and `CyclesComplete` (fairness and ENABLED are out of the
prover's reach). No module uses RECURSIVE.

## Not modelled

- The heartbeat counter `xxxx` of the BAMS (its comment says 0 to 128, the code
  counts to 65535) and the values of the battery registers.
- The constant bytes of the answers, among them the active power (always 100,
  `protocol_lcd.c:228`, whatever was set) and the temperature (-500 split with
  C's division, `protocol_lcd.c:235`); whole-machine answers; function 10,
  which only answers.
- The size of messages: `MyData` is larger than the data of a message, and the
  length reaches the send thread only in what lies behind the message on the
  stacks (`threads_lcd.c:43`, `:93`). The models take the length received.
  A recv() that returns more or less than one request.
- A server set-up that fails: its thread spins for ever (`threads_lcd.c:218`)
  and its port never exists.
- The ring indices of the shared memory: `wpos` of the EMS queue is never
  wrapped, which shows after 1024 commands; a failed `shmat`, which the code
  does not notice (`threads_ems.c:315`).
- Time: `tv_timeout`, the sleeps between tests, time-outs of polls.
- Checksum, register tables, log output: data and wording. The client half of
  `my_socket.c`, `ReadComPort`, `CloseComPort`: never called.

## Plan

1. What still holds of a session with repeated telemetry, and of a second
   session, in place of the properties of the rounds.
2. Restarts of the EMU in the middle of a command.
3. The heartbeat in `BamsMaster`; the ring indices of both queues in a module
   that the sequences of `EmsSequence` refine.
