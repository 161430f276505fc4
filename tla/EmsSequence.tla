---------------------------- MODULE EmsSequence ----------------------------
(***************************************************************************)
(* The command sequence of the EMS simulation: the two threads of          *)
(* src/src/ems/threads_ems.c, the LCD send threads that execute            *)
(* Analysfun06 of src/src/lcd/protocol_lcd.c, and the globals they share   *)
(* with no lock (g_sys_status, g_sys_status_last, g_lcd_status_end and the *)
(* static collection flags).  The EMU program at the other end of the      *)
(* shared memory is modelled from how this code uses it.                   *)
(*                                                                         *)
(*   EMU --que1--> reader --g_sys_status--> writer --que2--> EMU           *)
(*    ^                          ^                            |            *)
(*    |                          +------ LCD send threads <---+ frames     *)
(*                                                                         *)
(* Every load and every store of a shared global is a step of its own, but *)
(* for three: the loop that zeroes the six PCS masks, the test of two      *)
(* globals in TestIdle, and a section under mutex2 (Put).  The bit masks   *)
(* of the collection flags are sets: one of LCDs, one of PCS per LCD.      *)
(* Name_Slip is a faulty variant of Name, used only to see that the        *)
(* properties notice it.                                                   *)
(***************************************************************************)
EXTENDS Integers, Sequences, FiniteSets

CONSTANTS Lcds,        \* enabled LCDs (g_flag_RecvNeed_LCD)
          PcsNum,      \* number of PCS of each LCD (yx1246)
          Repeats,     \* the EMU sends telemetry again and again, or once
          MaxReports,  \* bound: times the EMU starts and reports its PCS
          MaxCmds      \* bound: commands issued in a session

ASSUME SequenceAssumption ==
  /\ IsFiniteSet(Lcds)
  /\ PcsNum \in [Lcds -> 1..6]
  /\ Repeats \in BOOLEAN /\ MaxReports \in Nat /\ MaxCmds \in Nat

(* enum SERVER_WORK_STATE *)
SER_WAITTING_START == 0
SER_IDEL           == 1
EMS_COMMUNICATION_STATUS_SETTING == 2
EMS_START_EMU      == 3
EMS_STOP_EMU       == 4
ADJUST_EMU_PW      == 7
ADJUST_EMU_QW      == 8

Commands == {EMS_COMMUNICATION_STATUS_SETTING, EMS_START_EMU, EMS_STOP_EMU,
             ADJUST_EMU_PW, ADJUST_EMU_QW}

Kinds    == {"on", "off", "pw", "qw"}      \* function 06 frames that matter
Trackers == {"onoff", "pw", "qw"}          \* check functions' static flags
TrackerOf(k) == IF k \in {"on", "off"} THEN "onoff" ELSE k

Need(l) == 1..PcsNum[l]                    \* flag_RecvNeed_PCS[l]
Pcs     == UNION {Need(l) : l \in Lcds}
AllPcs  == UNION {{l} \X Need(l) : l \in Lcds}

\* What a complete collection of a kind advances: it must find the command
\* From issued and the writer idle, and orders the command To.
From(k) == CASE k = "on"  -> EMS_START_EMU
             [] k = "off" -> EMS_STOP_EMU
             [] k = "pw"  -> ADJUST_EMU_PW
             [] k = "qw"  -> ADJUST_EMU_QW
To_Copied(k) == CASE k = "on"  -> ADJUST_EMU_QW
             [] k = "off" -> ADJUST_EMU_PW
             [] k \in {"pw", "qw"} -> EMS_START_EMU
To(k)   == CASE k = "on"  -> ADJUST_EMU_QW
             [] k = "off" -> ADJUST_EMU_PW
             [] k = "pw"  -> EMS_START_EMU
             [] k = "qw"  -> EMS_STOP_EMU

\* What a command makes the EMU send to every PCS (external).
KindSent(c) == CASE c = EMS_START_EMU -> "on"  [] c = EMS_STOP_EMU  -> "off"
                 [] c = ADJUST_EMU_PW -> "pw"  [] c = ADJUST_EMU_QW -> "qw"

VARIABLES
  g_sys_status, g_sys_status_last, g_lcd_status_end,
  reader, que1, sem1,      \* thread_61850_read, EMU -> EMS queue, its semaphore
  writer, que2, sem2,      \* thread_61850_write, EMS -> EMU queue, its semaphore
  loaded,                  \* the status the writer has loaded
  handler, frame, tmp,     \* LCD send thread: where, frame in hand, loaded mask
  armed, recvLcd, recvPcs, \* static flags of the check functions, per tracker
  inbox,                   \* LCD -> frames waiting in its message queue
  cmd_start_pcs,           \* LCD -> its PCS whose register says 0xff00, started
  reports, configured,     \* EMU: PCS counts reported, COMM command taken
  log,                     \* history: commands issued since the last setting
  got                      \* history: kind -> PCS that received it since first asked

emsVars     == <<reader, writer, loaded>>
shmVars     == <<que1, sem1, que2, sem2>>
statusVars  == <<g_sys_status, g_sys_status_last, g_lcd_status_end>>
handlerVars == <<handler, frame, tmp>>
trackVars   == <<armed, recvLcd, recvPcs>>
lcdVars     == <<inbox, cmd_start_pcs>>
emuVars     == <<reports, configured>>
histVars    == <<log, got>>
vars == <<emsVars, shmVars, statusVars, handlerVars, trackVars, lcdVars,
          emuVars, histVars>>

NoFrame == <<"none", 0>>
Frames  == Kinds \X Pcs

TypeOK ==
  /\ g_sys_status \in {SER_WAITTING_START, SER_IDEL} \cup Commands
  /\ g_sys_status_last \in {SER_WAITTING_START} \cup Commands
  /\ g_lcd_status_end \in {0, 1}
  /\ reader \in {"attach", "dead", "wait", "drain", "setlast", "testidle",
                 "setstart", "next"}
  /\ writer \in {"gate", "loop", "put", "post", "loadlast", "setlast", "setidel"}
  /\ loaded \in {SER_WAITTING_START, SER_IDEL} \cup Commands
  /\ que1 \in Seq({"count", "telemetry"}) /\ sem1 \in Nat
  /\ que2 \in Seq(Commands) /\ sem2 \in Nat
  /\ handler \in [Lcds -> {"idle", "zerolcd", "zeropcs", "firstload", "firststore",
       "arm", "load", "store", "testfull", "loadlcd", "storelcd", "testall", "disarm",
       "testlast", "testidle", "setstatus", "setlast", "setend", "setcmd"}]
  /\ frame \in [Lcds -> Frames \cup {NoFrame}]
  /\ tmp \in [Lcds -> (SUBSET Pcs) \cup (SUBSET Lcds)]
  /\ armed \in [Trackers -> Kinds \cup {"none"}]
  /\ recvLcd \in [Trackers -> SUBSET Lcds]
  /\ recvPcs \in [Trackers -> [Lcds -> SUBSET Pcs]]
  /\ inbox \in [Lcds -> Seq(Frames)]
  /\ cmd_start_pcs \in [Lcds -> SUBSET Pcs]
  /\ reports \in 0..MaxReports /\ configured \in BOOLEAN
  /\ log \in Seq(Commands)
  /\ got \in [Kinds -> SUBSET AllPcs]

Init ==
  /\ g_sys_status = SER_WAITTING_START
  /\ g_sys_status_last = SER_WAITTING_START
  /\ g_lcd_status_end = 0
  /\ reader = "attach" /\ que1 = <<>> /\ sem1 = 1
  /\ writer = "gate" /\ loaded = SER_WAITTING_START /\ que2 = <<>> /\ sem2 = 1
  /\ handler = [l \in Lcds |-> "idle"]
  /\ frame = [l \in Lcds |-> NoFrame]
  /\ tmp = [l \in Lcds |-> {}]
  /\ armed = [t \in Trackers |-> "none"]
  /\ recvLcd = [t \in Trackers |-> {}]
  /\ recvPcs = [t \in Trackers |-> [l \in Lcds |-> {}]]
  /\ inbox = [l \in Lcds |-> <<>>]
  /\ cmd_start_pcs = [l \in Lcds |-> {}]
  /\ reports = 0 /\ configured = FALSE
  /\ log = <<>>
  /\ got = [k \in Kinds |-> {}]

-----------------------------------------------------------------------------
(* The reader: thread_61850_read and anslize.                              *)

\* Shared memory and semaphores are set up, or the thread returns for good.
Attach ==
  /\ reader = "attach"
  /\ reader' \in {"wait", "dead"}
  /\ UNCHANGED <<writer, loaded, shmVars, statusVars, handlerVars, trackVars, lcdVars,
                 emuVars, histVars>>

\* sem_timedwait(sem1); a time-out only waits again.  anslize then takes
\* mutex1, which it keeps until the queue is drained.
Wake ==
  /\ reader = "wait" /\ sem1 > 0
  /\ sem1' = sem1 - 1
  /\ reader' = "drain"
  /\ UNCHANGED <<writer, loaded, que1, que2, sem2, statusVars, handlerVars, trackVars,
                 lcdVars, emuVars, histVars>>

\* A PCS count starts the session whatever the status is; telemetry counts
\* only after the communication setting.
Drain ==
  /\ reader = "drain"
  /\ \/ /\ que1 = <<>>
        /\ reader' = "wait" /\ UNCHANGED <<que1, g_sys_status>>
     \/ /\ que1 # <<>> /\ Head(que1) = "count"
        /\ g_sys_status' = EMS_COMMUNICATION_STATUS_SETTING
        /\ reader' = "setlast" /\ UNCHANGED que1
     \/ /\ que1 # <<>> /\ Head(que1) = "telemetry"
        /\ reader' = IF g_sys_status_last = EMS_COMMUNICATION_STATUS_SETTING
                     THEN "testidle" ELSE "next"
        /\ UNCHANGED <<que1, g_sys_status>>
  /\ UNCHANGED <<writer, loaded, sem1, que2, sem2, g_sys_status_last, g_lcd_status_end,
                 handlerVars, trackVars, lcdVars, emuVars, histVars>>

CountSetsLast ==
  /\ reader = "setlast"
  /\ g_sys_status_last' = SER_WAITTING_START
  /\ reader' = "next"
  /\ UNCHANGED <<writer, loaded, shmVars, g_sys_status, g_lcd_status_end, handlerVars,
                 trackVars, lcdVars, emuVars, histVars>>

TelemetryTestsIdle ==
  /\ reader = "testidle"
  /\ reader' = IF g_sys_status = SER_IDEL THEN "setstart" ELSE "next"
  /\ UNCHANGED <<writer, loaded, shmVars, statusVars, handlerVars, trackVars, lcdVars,
                 emuVars, histVars>>

TelemetryStarts ==
  /\ reader = "setstart"
  /\ g_sys_status' = EMS_START_EMU
  /\ reader' = "next"
  /\ UNCHANGED <<writer, loaded, shmVars, g_sys_status_last, g_lcd_status_end,
                 handlerVars, trackVars, lcdVars, emuVars, histVars>>

\* rpos moves on.
DrainNext ==
  /\ reader = "next"
  /\ que1' = Tail(que1)
  /\ reader' = "drain"
  /\ UNCHANGED <<writer, loaded, sem1, que2, sem2, statusVars, handlerVars, trackVars,
                 lcdVars, emuVars, histVars>>

Reader == \/ Attach \/ Wake \/ Drain \/ CountSetsLast \/ TelemetryTestsIdle
          \/ TelemetryStarts \/ DrainNext

-----------------------------------------------------------------------------
(* The writer: thread_61850_write and bms_setting.                         *)

\* It waits for the status to move; the reader moves it once everything the
\* writer uses (shm_addr, sem2, mutex2_lock) is there.
GateOpen_Always == TRUE
GateOpen == g_sys_status # SER_WAITTING_START

WriterGate ==
  /\ writer = "gate" /\ GateOpen
  /\ writer' = "loop"
  /\ UNCHANGED <<reader, loaded, shmVars, statusVars, handlerVars, trackVars, lcdVars,
                 emuVars, histVars>>

CommandPending_TooHigh == g_sys_status > EMS_COMMUNICATION_STATUS_SETTING
CommandPending == g_sys_status > SER_IDEL

WriterTest ==
  /\ writer = "loop" /\ CommandPending
  /\ writer' = "put"
  /\ UNCHANGED <<reader, loaded, shmVars, statusVars, handlerVars, trackVars, lcdVars,
                 emuVars, histVars>>

Issued(c) == \E i \in 1..Len(log) : log[i] = c

\* Under mutex2 the command of the status NOW is put into que2.
Put ==
  /\ writer = "put" /\ Len(log) < MaxCmds
  /\ que2' = Append(que2, g_sys_status)
  /\ IF g_sys_status = EMS_COMMUNICATION_STATUS_SETTING
     THEN log' = <<g_sys_status>> /\ got' = got
     ELSE /\ log' = Append(log, g_sys_status)
          /\ got' = IF Issued(g_sys_status) THEN got
                    ELSE [got EXCEPT ![KindSent(g_sys_status)] = {}]
  /\ writer' = "post"
  /\ UNCHANGED <<reader, loaded, que1, sem1, sem2, statusVars, handlerVars, trackVars,
                 lcdVars, emuVars>>

\* sem2 is posted BEFORE the status is stored back.
Post ==
  /\ writer = "post"
  /\ sem2' = sem2 + 1
  /\ writer' = "loadlast"
  /\ UNCHANGED <<reader, loaded, que1, sem1, que2, statusVars, handlerVars, trackVars,
                 lcdVars, emuVars, histVars>>

LastAfterPut_Swapped == SER_IDEL
LastAfterPut == g_sys_status

WriterLoads ==
  /\ writer = "loadlast"
  /\ loaded' = LastAfterPut
  /\ writer' = "setlast"
  /\ UNCHANGED <<reader, shmVars, statusVars, handlerVars, trackVars, lcdVars,
                 emuVars, histVars>>

WriterSetsLast ==
  /\ writer = "setlast"
  /\ g_sys_status_last' = loaded /\ loaded' = SER_WAITTING_START
  /\ writer' = "setidel"
  /\ UNCHANGED <<reader, shmVars, g_sys_status, g_lcd_status_end, handlerVars,
                 trackVars, lcdVars, emuVars, histVars>>

WriterSetsIdel ==
  /\ writer = "setidel"
  /\ g_sys_status' = SER_IDEL
  /\ writer' = "loop"
  /\ UNCHANGED <<reader, loaded, shmVars, g_sys_status_last, g_lcd_status_end,
                 handlerVars, trackVars, lcdVars, emuVars, histVars>>

Writer == \/ WriterGate \/ WriterTest \/ Put \/ Post \/ WriterLoads
          \/ WriterSetsLast \/ WriterSetsIdel

-----------------------------------------------------------------------------
(* The LCD send threads: Analysfun06, check_task_finished and              *)
(* checkOn_off_finish.                                                     *)

Kind(l)  == frame[l][1]
Tr(l)    == TrackerOf(Kind(l))
Goto(l, pc) == handler' = [handler EXCEPT ![l] = pc]

\* Steps that touch nothing but the LCD's own program counter and registers.
OnlyHandler == UNCHANGED <<emsVars, shmVars, statusVars, frame, trackVars, lcdVars,
                           emuVars, histVars>>

\* The next frame; the first of a collection finds the tracker not armed for it.
Take(l) ==
  /\ handler[l] = "idle" /\ inbox[l] # <<>>
  /\ LET f == Head(inbox[l]) IN
       /\ frame' = [frame EXCEPT ![l] = f]
       /\ got' = [got EXCEPT ![f[1]] = @ \cup {<<l, f[2]>>}]
       /\ Goto(l, IF armed[TrackerOf(f[1])] = f[1] THEN "load" ELSE "zerolcd")
  /\ inbox' = [inbox EXCEPT ![l] = Tail(@)]
  /\ UNCHANGED <<emsVars, shmVars, statusVars, tmp, trackVars, cmd_start_pcs, emuVars,
                 log>>

ZeroLcd(l) ==
  /\ handler[l] = "zerolcd"
  /\ recvLcd' = [recvLcd EXCEPT ![Tr(l)] = {}]
  /\ Goto(l, "zeropcs")
  /\ UNCHANGED <<emsVars, shmVars, statusVars, frame, tmp, armed, recvPcs,
                 lcdVars, emuVars, histVars>>

ZeroPcs(l) ==
  /\ handler[l] = "zeropcs"
  /\ recvPcs' = [recvPcs EXCEPT ![Tr(l)] = [m \in Lcds |-> {}]]
  /\ Goto(l, "firstload")
  /\ UNCHANGED <<emsVars, shmVars, statusVars, frame, tmp, armed, recvLcd,
                 lcdVars, emuVars, histVars>>

Done(l) == Goto(l, "idle") /\ frame' = [frame EXCEPT ![l] = NoFrame]

\* After a start or stop frame, whatever came of its collection, the register
\* of its PCS is stored: after the EMS has been moved on.
AfterCollection_Returns(l) == Done(l)
AfterCollection(l) == IF Tr(l) = "onoff" THEN Goto(l, "setcmd") /\ UNCHANGED frame
                      ELSE Done(l)

SetCmd(l) ==
  /\ handler[l] = "setcmd"
  /\ cmd_start_pcs' = [cmd_start_pcs EXCEPT
       ![l] = IF Kind(l) = "on" THEN @ \cup {frame[l][2]} ELSE @ \ {frame[l][2]}]
  /\ Done(l)
  /\ UNCHANGED <<emsVars, shmVars, statusVars, tmp, trackVars, inbox, emuVars,
                 histVars>>

\* The first frame never completes a collection, not even of a single PCS.
Arm(l) ==
  /\ handler[l] = "arm"
  /\ armed' = [armed EXCEPT ![Tr(l)] = Kind(l)]
  /\ AfterCollection(l)
  /\ UNCHANGED <<emsVars, shmVars, statusVars, tmp, recvLcd, recvPcs, lcdVars,
                 emuVars, histVars>>

LoadPcs(l) ==
  /\ \/ handler[l] = "load" /\ Goto(l, "store")
     \/ handler[l] = "firstload" /\ Goto(l, "firststore")
  /\ tmp' = [tmp EXCEPT ![l] = recvPcs[Tr(l)][l]]
  /\ OnlyHandler

StorePcs(l) ==
  /\ \/ handler[l] = "store" /\ Goto(l, "testfull")
     \/ handler[l] = "firststore" /\ Goto(l, "arm")
  /\ recvPcs' = [recvPcs EXCEPT ![Tr(l)][l] = tmp[l] \cup {frame[l][2]}]
  /\ tmp' = [tmp EXCEPT ![l] = {}]
  /\ UNCHANGED <<emsVars, shmVars, statusVars, frame, armed, recvLcd, lcdVars,
                 emuVars, histVars>>

LcdIsFull_Any(t, l) == recvPcs[t][l] # {}
LcdIsFull(t, l) == recvPcs[t][l] = Need(l)

TestFull(l) ==
  /\ handler[l] = "testfull"
  /\ Goto(l, IF LcdIsFull(Tr(l), l) THEN "loadlcd" ELSE "testall")
  /\ OnlyHandler /\ UNCHANGED tmp

LoadLcd(l) ==
  /\ handler[l] = "loadlcd"
  /\ tmp' = [tmp EXCEPT ![l] = recvLcd[Tr(l)]]
  /\ Goto(l, "storelcd")
  /\ OnlyHandler

StoreLcd(l) ==
  /\ handler[l] = "storelcd"
  /\ recvLcd' = [recvLcd EXCEPT ![Tr(l)] = tmp[l] \cup {l}]
  /\ tmp' = [tmp EXCEPT ![l] = {}]
  /\ Goto(l, "testall")
  /\ UNCHANGED <<emsVars, shmVars, statusVars, frame, armed, recvPcs, lcdVars,
                 emuVars, histVars>>

\* check_task_finished disarms its flags on completion, checkOn_off_finish does not.
TestAll(l) ==
  /\ handler[l] = "testall"
  /\ \/ recvLcd[Tr(l)] # Lcds /\ AfterCollection(l)
     \/ /\ recvLcd[Tr(l)] = Lcds
        /\ Goto(l, IF Tr(l) = "onoff" THEN "testlast" ELSE "disarm")
        /\ UNCHANGED frame
  /\ UNCHANGED <<emsVars, shmVars, statusVars, tmp, trackVars, lcdVars, emuVars,
                 histVars>>

Disarm(l) ==
  /\ handler[l] = "disarm"
  /\ armed' = [armed EXCEPT ![Tr(l)] = "none"]
  /\ Goto(l, "testlast")
  /\ UNCHANGED <<emsVars, shmVars, statusVars, frame, tmp, recvLcd, recvPcs,
                 lcdVars, emuVars, histVars>>

\* Is this collection the one the last command asked for?
Expected(k) == g_sys_status_last = From(k)

TestLast(l) ==
  /\ handler[l] = "testlast"
  /\ \/ ~Expected(Kind(l)) /\ AfterCollection(l)
     \/ Expected(Kind(l)) /\ Goto(l, "testidle") /\ UNCHANGED frame
  /\ UNCHANGED <<emsVars, shmVars, statusVars, tmp, trackVars, lcdVars, emuVars,
                 histVars>>

\* A command is stored only over SER_IDEL, and the final start command must not
\* begin the script again.  Two loads, taken as one: the end flag never falls.
NotOver(l) == Kind(l) = "on" => g_lcd_status_end = 0
Ready_BusyToo(l) == NotOver(l)
Ready(l) == g_sys_status = SER_IDEL /\ NotOver(l)

TestIdle(l) ==
  /\ handler[l] = "testidle"
  /\ \/ ~Ready(l) /\ AfterCollection(l)
     \/ Ready(l) /\ Goto(l, "setstatus") /\ UNCHANGED frame
  /\ UNCHANGED <<emsVars, shmVars, statusVars, tmp, trackVars, lcdVars, emuVars,
                 histVars>>

SetStatus(l) ==
  /\ handler[l] = "setstatus"
  /\ g_sys_status' = To(Kind(l))
  /\ Goto(l, "setlast")
  /\ UNCHANGED <<emsVars, shmVars, g_sys_status_last, g_lcd_status_end, frame,
                 tmp, trackVars, lcdVars, emuVars, histVars>>

SetLast(l) ==
  /\ handler[l] = "setlast"
  /\ g_sys_status_last' = From(Kind(l))
  /\ \/ Kind(l) = "pw" /\ Goto(l, "setend") /\ UNCHANGED frame
     \/ Kind(l) # "pw" /\ AfterCollection(l)
  /\ UNCHANGED <<emsVars, shmVars, g_sys_status, g_lcd_status_end, tmp,
                 trackVars, lcdVars, emuVars, histVars>>

EndFlag_NotSet == 0
EndFlag == 1

SetEnd(l) ==
  /\ handler[l] = "setend"
  /\ g_lcd_status_end' = EndFlag
  /\ Done(l)
  /\ UNCHANGED <<emsVars, shmVars, g_sys_status, g_sys_status_last, tmp,
                 trackVars, lcdVars, emuVars, histVars>>

Handler(l) ==
  \/ Take(l) \/ ZeroLcd(l) \/ ZeroPcs(l) \/ Arm(l) \/ LoadPcs(l)
  \/ StorePcs(l) \/ TestFull(l) \/ LoadLcd(l) \/ StoreLcd(l) \/ TestAll(l)
  \/ Disarm(l) \/ TestLast(l) \/ TestIdle(l) \/ SetStatus(l) \/ SetLast(l)
  \/ SetEnd(l) \/ SetCmd(l)

-----------------------------------------------------------------------------
(* The EMU (external).  It enters que1 only while mutex1 is free and takes  *)
(* que2 only while mutex2 is free; each visit is one step.                  *)

Mutex1Free == reader \in {"attach", "dead", "wait"}

\* It starts, or starts again, and reports how many PCS it manages.  Starting
\* again takes it longer than everything that was on its way before.
Resting ==
  /\ que1 = <<>> /\ que2 = <<>> /\ g_sys_status = SER_IDEL /\ writer = "loop"
  /\ \A l \in Lcds : inbox[l] = <<>> /\ handler[l] = "idle"

Report ==
  /\ Mutex1Free /\ reports < MaxReports
  /\ reports > 0 => Resting
  /\ reports' = reports + 1
  /\ que1' = Append(que1, "count") /\ sem1' = sem1 + 1
  /\ configured' = FALSE
  /\ UNCHANGED <<emsVars, que2, sem2, statusVars, handlerVars, trackVars, lcdVars,
                 histVars>>

\* Once configured it sends telemetry statistics.
Telemetry ==
  /\ Mutex1Free /\ configured /\ que1 = <<>>
  /\ que1' = Append(que1, "telemetry") /\ sem1' = sem1 + 1
  /\ configured' = Repeats
  /\ UNCHANGED <<emsVars, que2, sem2, statusVars, handlerVars, trackVars, lcdVars,
                 reports, histVars>>

\* It takes a command and sends each PCS of each LCD its frame.
Execute ==
  /\ sem2 > 0 /\ que2 # <<>>
  /\ sem2' = sem2 - 1 /\ que2' = Tail(que2)
  /\ LET c == Head(que2) IN
       IF c = EMS_COMMUNICATION_STATUS_SETTING
       THEN configured' = TRUE /\ UNCHANGED inbox
       ELSE /\ inbox' = [l \in Lcds |-> inbox[l] \o
                          [p \in Need(l) |-> <<KindSent(c), p>>]]
            /\ UNCHANGED configured
  /\ UNCHANGED <<emsVars, que1, sem1, statusVars, handlerVars, trackVars,
                 cmd_start_pcs, reports, histVars>>

Emu == Report \/ Telemetry \/ Execute

Next == Reader \/ Writer \/ Emu \/ \E l \in Lcds : Handler(l)

Spec == Init /\ [][Next]_vars

\* Every thread and the EMU keep running; reporting is up to the EMU.
FairSpec ==
  /\ Spec
  /\ WF_vars(Reader) /\ WF_vars(Writer) /\ WF_vars(Telemetry) /\ WF_vars(Execute)
  /\ \A l \in Lcds : WF_vars(Handler(l))

-----------------------------------------------------------------------------
(* Properties.                                                             *)

Issues(c) == log' # log /\ log'[Len(log')] = c

\* A command that follows another in the script is issued only when every PCS
\* of every LCD has received the frame the earlier one makes the EMU send: the
\* flags of check_task_finished and checkOn_off_finish never complete early,
\* although the send threads of all LCDs update them without a lock.
NothingIssuedEarly ==
  [][\A k \in Kinds : Issues(To(k)) /\ Issued(From(k)) => got[k] = AllPcs]_vars

\* The registers follow the sequence, late.  When the EMS goes on after a start (a
\* stop), a PCS may not be started (stopped) yet, since the send thread moves the
\* EMS on before it stores the register: but then it still holds the frame.  One
\* command later, when what follows is issued first, nothing is late any more:
\* exactly the PCS that were ordered to run are started.
Started(l, p) == p \in cmd_start_pcs[l]
Obeyed(k) ==
  \A l \in Lcds : \A p \in Need(l) : (Started(l, p) <=> k = "on") \/ frame[l] = <<k, p>>
Settles(k) ==
  \A l \in Lcds : \A p \in Need(l) : Started(l, p) <=> k = "on"
AfterNext(k) == To(KindSent(To(k)))

OrdersAreObeyed ==
  [][\A k \in {"on", "off"} :
       /\ Issues(To(k)) /\ Issued(From(k)) => Obeyed(k)
       /\ Issues(AfterNext(k)) /\ Issued(To(k)) /\ log[Len(log)] # AfterNext(k) =>
            Settles(k)]_vars

\* The writer, which nobody synchronises with the reader, touches the shared
\* memory and its semaphores only when the reader has set them up.
WriterAfterAttach == writer # "gate" => reader \notin {"attach", "dead"}

\* The commands of a session come in the order of the script, none left out.
Script == <<EMS_COMMUNICATION_STATUS_SETTING, EMS_START_EMU, ADJUST_EMU_QW,
            EMS_STOP_EMU, ADJUST_EMU_PW, EMS_START_EMU>>

\* Two send threads can both see a collection complete, and a command can be
\* issued twice in a row, but none comes out of order or after a gap.
Turn(s, i) == 1 + Cardinality({j \in 2..i : s[j] # s[j - 1]})
InScriptOrder ==
  [][log' # log =>
       \A i \in 1..Len(log') : /\ Turn(log', i) <= Len(Script)
                               /\ log'[i] = Script[Turn(log', i)]]_vars

\* The place of the last command in the script, and the PCS that have received
\* what it makes the EMU send; after the second start command, the last of all,
\* nobody waits for them.
Stage   == IF log = <<>> THEN 0 ELSE Turn(log, Len(log))
reached == IF Stage \in 2..(Len(Script) - 1) THEN got[KindSent(log[Len(log)])] ELSE {}

Abstract == INSTANCE EmsScript WITH
              Silent <- {EMS_COMMUNICATION_STATUS_SETTING}

\* The commands with those issued twice in a row counted once.
turns == [i \in 1..Stage |-> log[CHOOSE j \in 1..Len(log) : Turn(log, j) = i]]

DoublesAside == INSTANCE EmsScript WITH
                  Silent <- {EMS_COMMUNICATION_STATUS_SETTING}, log <- turns

\* Several LCDs issue the script one command at a time, each after its round, when
\* a command that two send threads make the writer issue twice counts once.
FollowsScript == DoublesAside!Spec

\* A command stored in g_sys_status stays there until the writer has put it into
\* que2: the writer's store of SER_IDEL, the late store of a second send thread
\* and the reader's never hit a command that is still to be issued.
KeptUntilIssued ==
  [][g_sys_status' # g_sys_status /\ g_sys_status \in Commands =>
       log # <<>> /\ log[Len(log)] = g_sys_status]_vars

\* With one LCD and one telemetry message, reader, writer and send thread
\* together issue the script one command at a time, each after its round.
ImplementsScript == Abstract!Spec

\* A command stored in g_sys_status is put into que2 in the end: the script never
\* stands still at a command that nobody issues.
PendingIsIssued ==
  \A c \in Commands : g_sys_status = c ~> (log # <<>> /\ log[Len(log)] = c)

\* protocol_lcd.c at a complete collection of start frames: all PCS of the EMU
\* received the start command, the EMU goes on to set the reactive power.  The
\* collection is lost when it completes before the writer has stored the
\* status back (threads_ems.c posts sem2 first).
AllStartedLeadsOn ==
  got["on"] = AllPcs /\ g_lcd_status_end = 0 ~> Issued(ADJUST_EMU_QW)

\* The same announcement, of a second session: the reactive power is set only
\* after all PCS received the start command that was asked for.  The start and
\* stop flags are never cleared at completion, so that the first frame of the
\* next session completes them again.
AllStartedBefore == [][Issues(ADJUST_EMU_QW) => got["on"] = AllPcs]_vars
=============================================================================
