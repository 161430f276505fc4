------------------------- MODULE EmsSequenceProofs -------------------------
(***************************************************************************)
(* Proofs about EmsSequence, for any LCDs, any number of PCS and sessions. *)
(***************************************************************************)
EXTENDS EmsSequence, TLAPS

FramesOf(l) == Kinds \X Need(l)

\* The writer puts the status of the moment into que2; between its test and its
\* stores the other threads store only commands.
WriterInv == /\ writer \in {"put", "post", "loadlast"} => g_sys_status \in Commands
             /\ writer = "setlast" => loaded \in Commands

\* The reader is in the middle of an entry only when there is one.
ReaderInv == reader \in {"setlast", "testidle", "setstart", "next"} => que1 # <<>>

\* An LCD gets frames for its own PCS only, and its send thread holds one
\* whenever it works; a loaded mask is of the kind its store expects.
HandlerInv ==
  \A l \in Lcds :
    /\ inbox[l] \in Seq(FramesOf(l))
    /\ handler[l] # "idle" => frame[l] \in FramesOf(l)
    /\ handler[l] \in {"store", "firststore"} => tmp[l] \subseteq Pcs
    /\ handler[l] = "storelcd" => tmp[l] \subseteq Lcds

\* Only the reader moves the status the first time: a send thread moves it on
\* from SER_IDEL, which only the writer stores.
AttachInv ==
  /\ reader \in {"attach", "dead"} => g_sys_status = SER_WAITTING_START
  /\ g_sys_status = SER_WAITTING_START =>
       writer = "gate" /\ \A l \in Lcds : handler[l] # "setstatus"

IInv == TypeOK /\ ReaderInv /\ WriterInv /\ HandlerInv /\ AttachInv

Numbers ==
  /\ SER_WAITTING_START = 0 /\ SER_IDEL = 1
  /\ EMS_COMMUNICATION_STATUS_SETTING = 2 /\ EMS_START_EMU = 3
  /\ EMS_STOP_EMU = 4 /\ ADJUST_EMU_PW = 7 /\ ADJUST_EMU_QW = 8

LEMMA StatusNumbers == Numbers /\ Commands = {2, 3, 4, 7, 8}
  BY DEF Numbers, SER_WAITTING_START, SER_IDEL, EMS_COMMUNICATION_STATUS_SETTING,
         EMS_START_EMU, EMS_STOP_EMU, ADJUST_EMU_PW, ADJUST_EMU_QW, Commands

\* The tables of the script: a kind leads from a command to a command, and a
\* command other than the setting makes the EMU send one kind of frame.
LEMMA ScriptTables ==
  /\ \A k \in Kinds : From(k) \in Commands /\ To(k) \in Commands
                      /\ TrackerOf(k) \in Trackers
  /\ \A c \in Commands : c # EMS_COMMUNICATION_STATUS_SETTING => KindSent(c) \in Kinds
<1>1. \A k \in Kinds : From(k) \in Commands
  BY DEF Kinds, From, Commands
<1>2. \A k \in Kinds : To(k) \in Commands
  BY DEF Kinds, To, Commands
<1>3. \A k \in Kinds : TrackerOf(k) \in Trackers
  BY DEF Kinds, TrackerOf, Trackers
<1>4. \A c \in Commands : c # EMS_COMMUNICATION_STATUS_SETTING => KindSent(c) \in Kinds
  BY StatusNumbers DEF Numbers, KindSent, Kinds
<1> QED
  BY <1>1, <1>2, <1>3, <1>4

\* A frame of an LCD is a frame, and its PCS is one of the EMU's.
LEMMA FramesOfLcd ==
  ASSUME NEW l \in Lcds, NEW f \in FramesOf(l)
  PROVE  /\ f \in Frames /\ f[1] \in Kinds /\ f[2] \in Need(l) /\ f[2] \in Pcs
         /\ <<l, f[2]>> \in AllPcs /\ f = <<f[1], f[2]>>
  BY DEF FramesOf, Frames, Pcs, AllPcs, Need

LEMMA InitIInv == Init => IInv
<1> SUFFICES ASSUME Init PROVE IInv
  OBVIOUS
<1>1. TypeOK
  <2>1. /\ que1 \in Seq({"count", "telemetry"}) /\ que2 \in Seq(Commands)
        /\ log \in Seq(Commands) /\ inbox \in [Lcds -> Seq(Frames)]
    BY DEF Init
  <2>2. /\ armed \in [Trackers -> Kinds \cup {"none"}]
        /\ recvLcd \in [Trackers -> SUBSET Lcds]
        /\ recvPcs \in [Trackers -> [Lcds -> SUBSET Pcs]]
        /\ got \in [Kinds -> SUBSET AllPcs]
    BY DEF Init
  <2>3. /\ frame \in [Lcds -> Frames \cup {NoFrame}]
        /\ tmp \in [Lcds -> (SUBSET Pcs) \cup (SUBSET Lcds)]
        /\ cmd_start_pcs \in [Lcds -> SUBSET Pcs]
    BY DEF Init
  <2>4. /\ g_sys_status \in {SER_WAITTING_START, SER_IDEL} \cup Commands
        /\ g_sys_status_last \in {SER_WAITTING_START} \cup Commands
        /\ g_lcd_status_end \in {0, 1}
        /\ loaded \in {SER_WAITTING_START, SER_IDEL} \cup Commands
    BY DEF Init
  <2>6. sem1 \in Nat /\ sem2 \in Nat
    BY DEF Init
  <2>7. reports \in 0..MaxReports
    BY SequenceAssumption DEF Init
  <2>8. configured \in BOOLEAN
    BY DEF Init
  <2>5. /\ reader = "attach" /\ writer = "gate"
        /\ handler = [l \in Lcds |-> "idle"]
    BY DEF Init
  <2> QED
    BY <2>1, <2>2, <2>3, <2>4, <2>5, <2>6, <2>7, <2>8 DEF TypeOK
<1>2. ReaderInv /\ WriterInv /\ HandlerInv /\ AttachInv
  BY DEF Init, ReaderInv, WriterInv, HandlerInv, AttachInv
<1> QED
  BY <1>1, <1>2 DEF IInv

-----------------------------------------------------------------------------
(* Every step preserves the invariant, thread by thread.                   *)

LEMMA ReaderStep == ASSUME IInv, Reader PROVE IInv'
<1> USE DEF IInv
<1>0. Numbers /\ Commands = {2, 3, 4, 7, 8}
  BY StatusNumbers
<1>1. UNCHANGED <<writer, loaded, que2, sem2, handlerVars, trackVars, lcdVars, emuVars,
                  histVars,
                  g_lcd_status_end>>
  BY DEF Reader, Attach, Wake, Drain, CountSetsLast, TelemetryTestsIdle,
         TelemetryStarts, DrainNext, shmVars, statusVars
<1>2. HandlerInv'
  BY <1>1 DEF HandlerInv, handlerVars, lcdVars
<1>3. /\ reader' \in {"attach", "dead", "wait", "drain", "setlast", "testidle",
                      "setstart", "next"}
      /\ que1' \in Seq({"count", "telemetry"}) /\ sem1' \in Nat
      /\ g_sys_status' \in {SER_WAITTING_START, SER_IDEL} \cup Commands
      /\ g_sys_status_last' \in {SER_WAITTING_START} \cup Commands
      /\ ReaderInv' /\ WriterInv' /\ AttachInv'
  <2> USE DEF TypeOK, ReaderInv, WriterInv, AttachInv
  <2>1. CASE Attach
    BY <2>1, <1>1 DEF Attach, shmVars, statusVars, handlerVars
  <2>2. CASE Wake
    BY <2>2, <1>1 DEF Wake, statusVars, handlerVars
  <2>3. CASE Drain
    <3>1. g_sys_status' \in {g_sys_status, EMS_COMMUNICATION_STATUS_SETTING}
      BY <2>3 DEF Drain
    <3>2. /\ reader = "drain" /\ reader' \in {"wait", "setlast", "testidle", "next"}
          /\ UNCHANGED <<que1, sem1, g_sys_status_last>>
          /\ reader' # "wait" => que1 # <<>>
      BY <2>3 DEF Drain
    <3> QED
      BY <1>0, <1>1, <3>1, <3>2 DEF Numbers, handlerVars
  <2>4. CASE CountSetsLast
    BY <2>4, <1>1 DEF CountSetsLast, shmVars, handlerVars
  <2>5. CASE TelemetryTestsIdle
    BY <2>5, <1>1 DEF TelemetryTestsIdle, shmVars, statusVars, handlerVars
  <2>6. CASE TelemetryStarts
    BY <2>6, <1>0, <1>1 DEF TelemetryStarts, shmVars, handlerVars, Numbers
  <2>7. CASE DrainNext
    <3>1. que1' \in Seq({"count", "telemetry"})
      BY <2>7 DEF DrainNext
    <3> QED
      BY <2>7, <1>1, <3>1 DEF DrainNext, statusVars, handlerVars
  <2> QED
    BY <2>1, <2>2, <2>3, <2>4, <2>5, <2>6, <2>7 DEF Reader
<1>4. TypeOK'
  BY <1>1, <1>3 DEF TypeOK, handlerVars, trackVars, lcdVars, emuVars, histVars
<1> QED
  BY <1>2, <1>3, <1>4

LEMMA WriterStep == ASSUME IInv, Writer PROVE IInv'
<1> USE DEF IInv
<1>0. Numbers /\ Commands = {2, 3, 4, 7, 8}
  BY StatusNumbers
<1>1. UNCHANGED <<reader, que1, sem1, handlerVars, trackVars, lcdVars, emuVars,
                  g_lcd_status_end>>
  BY DEF Writer, WriterGate, WriterTest, Put, Post, WriterLoads,
     WriterSetsLast, WriterSetsIdel,
         shmVars, statusVars
<1>2. HandlerInv' /\ ReaderInv'
  BY <1>1 DEF HandlerInv, ReaderInv, handlerVars, lcdVars
<1>3. /\ writer' \in {"gate", "loop", "put", "post", "loadlast", "setlast", "setidel"}
      /\ que2' \in Seq(Commands) /\ sem2' \in Nat
      /\ g_sys_status' \in {SER_WAITTING_START, SER_IDEL} \cup Commands
      /\ g_sys_status_last' \in {SER_WAITTING_START} \cup Commands
      /\ loaded' \in {SER_WAITTING_START, SER_IDEL} \cup Commands
      /\ log' \in Seq(Commands) /\ got' \in [Kinds -> SUBSET AllPcs]
      /\ WriterInv' /\ AttachInv'
  <2> USE DEF TypeOK, WriterInv, AttachInv
  <2>1. CASE WriterGate
    BY <2>1, <1>1 DEF WriterGate, GateOpen, shmVars, statusVars, handlerVars, histVars
  <2>2. CASE WriterTest
    BY <2>2, <1>0, <1>1 DEF WriterTest, CommandPending, Numbers, shmVars, statusVars,
                            handlerVars, histVars
  <2>3. CASE Put
    <3>1. /\ writer = "put" /\ writer' = "post" /\ que2' = Append(que2, g_sys_status)
          /\ UNCHANGED <<sem2, loaded, statusVars>>
      BY <2>3 DEF Put
    <3>2. g_sys_status \in Commands
      BY <3>1
    <3>3. log' \in Seq(Commands)
      <4>1. log' = <<g_sys_status>> \/ log' = Append(log, g_sys_status)
        BY <2>3 DEF Put
      <4>2. <<g_sys_status>> \in Seq(Commands)
        BY <3>2
      <4>3. Append(log, g_sys_status) \in Seq(Commands)
        BY <3>2
      <4> QED
        BY <4>1, <4>2, <4>3
    <3>4. got' \in [Kinds -> SUBSET AllPcs]
      BY <2>3 DEF Put
    <3>5. que2' \in Seq(Commands)
      BY <3>1, <3>2
    <3> QED
      BY <3>1, <3>2, <3>3, <3>4, <3>5, <1>1 DEF statusVars, handlerVars
  <2>4. CASE Post
    BY <2>4, <1>1 DEF Post, statusVars, handlerVars, histVars
  <2>5. CASE WriterSetsLast
    BY <2>5, <1>1 DEF WriterSetsLast, shmVars, handlerVars, histVars
  <2>7. CASE WriterLoads
    BY <2>7, <1>1 DEF WriterLoads, LastAfterPut, shmVars, statusVars, handlerVars, histVars
  <2>6. CASE WriterSetsIdel
    BY <2>6, <1>0, <1>1 DEF WriterSetsIdel, Numbers, shmVars, handlerVars, histVars
  <2> QED
    BY <2>1, <2>2, <2>3, <2>4, <2>5, <2>6, <2>7 DEF Writer
<1>4. TypeOK'
  BY <1>1, <1>3 DEF TypeOK, handlerVars, trackVars, lcdVars, emuVars
<1> QED
  BY <1>2, <1>3, <1>4

LEMMA EmuStep == ASSUME IInv, Emu PROVE IInv'
<1> USE DEF IInv
<1>0. Numbers /\ Commands = {2, 3, 4, 7, 8}
  BY StatusNumbers
<1>1. UNCHANGED <<emsVars, statusVars, handlerVars, trackVars, cmd_start_pcs, histVars>>
  BY DEF Emu, Report, Telemetry, Execute, lcdVars
<1>2. WriterInv' /\ AttachInv'
  BY <1>1 DEF WriterInv, AttachInv, emsVars, statusVars, handlerVars
<1>3. CASE Report \/ Telemetry
  <2>1. UNCHANGED <<que2, sem2, inbox>>
    BY <1>3 DEF Report, Telemetry, lcdVars
  <2>2. /\ que1' \in Seq({"count", "telemetry"}) /\ sem1' \in Nat
        /\ reports' \in 0..MaxReports
    <3>1. /\ que1' = Append(que1, "count") \/ que1' = Append(que1, "telemetry")
          /\ sem1' = sem1 + 1
          /\ reports' = reports \/ (reports < MaxReports /\ reports' = reports + 1)
      BY <1>3 DEF Report, Telemetry
    <3>2. sem1 \in Nat /\ reports \in 0..MaxReports /\ que1 \in Seq({"count", "telemetry"})
      BY DEF TypeOK
    <3>3. que1' \in Seq({"count", "telemetry"})
      BY <3>1, <3>2
    <3> QED
      BY <3>1, <3>2, <3>3, SequenceAssumption
  <2>3. configured' \in BOOLEAN
    BY <1>3, SequenceAssumption DEF Report, Telemetry, TypeOK
  <2>4. ReaderInv'
    BY <1>1, <1>3 DEF Report, Telemetry, Mutex1Free, ReaderInv, emsVars
  <2>5. HandlerInv'
    BY <1>1, <2>1 DEF HandlerInv, handlerVars
  <2>6. TypeOK'
    BY ZenonT(30), <1>1, <2>1, <2>2, <2>3
       DEF TypeOK, emsVars, statusVars, handlerVars, trackVars, histVars
  <2> QED
    BY <1>2, <2>4, <2>5, <2>6
<1>4. CASE Execute
  <2>1. /\ UNCHANGED <<que1, sem1, reports>>
        /\ sem2 > 0 /\ sem2' = sem2 - 1 /\ que2 # <<>> /\ que2' = Tail(que2)
    BY <1>4 DEF Execute
  <2>2. que2' \in Seq(Commands) /\ sem2' \in Nat /\ Head(que2) \in Commands
    BY <2>1 DEF TypeOK
  <2>3. configured' \in BOOLEAN
    BY <1>4 DEF Execute, TypeOK
  <2>4. /\ inbox' \in [Lcds -> Seq(Frames)]
        /\ \A l \in Lcds : inbox'[l] \in Seq(FramesOf(l))
    <3>1. CASE Head(que2) = EMS_COMMUNICATION_STATUS_SETTING
      BY <1>4, <3>1 DEF Execute, TypeOK, HandlerInv
    <3>2. CASE Head(que2) # EMS_COMMUNICATION_STATUS_SETTING
      <4> DEFINE k == KindSent(Head(que2))
                 Sent(m) == [p \in Need(m) |-> <<k, p>>]
      <4>1. k \in Kinds
        BY <2>2, <3>2, ScriptTables
      <4>2. inbox' = [m \in Lcds |-> inbox[m] \o Sent(m)]
        BY <1>4, <3>2 DEF Execute
      <4> HIDE DEF k
      <4>3. ASSUME NEW m \in Lcds
            PROVE  Sent(m) \in Seq(FramesOf(m)) /\ Sent(m) \in Seq(Frames)
        <5>1. PcsNum[m] \in Nat /\ Need(m) = 1..PcsNum[m]
          BY SequenceAssumption DEF Need
        <5>2. \A p \in Need(m) : <<k, p>> \in FramesOf(m) /\ <<k, p>> \in Frames
          BY <4>1 DEF FramesOf, Frames, Pcs
        <5> QED
          BY SMTT(30), <5>1, <5>2
      <4>4. ASSUME NEW m \in Lcds
            PROVE  inbox'[m] \in Seq(FramesOf(m)) /\ inbox'[m] \in Seq(Frames)
        <5>1. inbox[m] \in Seq(FramesOf(m)) /\ inbox[m] \in Seq(Frames)
          BY DEF HandlerInv, TypeOK
        <5> HIDE DEF Sent
        <5> QED
          BY <4>2, <4>3, <5>1
      <4> HIDE DEF Sent
      <4> QED
        BY <4>2, <4>4
    <3> QED
      BY <3>1, <3>2
  <2>5. HandlerInv'
    BY <1>1, <2>4 DEF HandlerInv, handlerVars
  <2>6. ReaderInv'
    BY <1>1, <2>1 DEF ReaderInv, emsVars
  <2>7. TypeOK'
    BY ZenonT(30), <1>1, <2>1, <2>2, <2>3, <2>4
       DEF TypeOK, emsVars, statusVars, handlerVars, trackVars, histVars
  <2> QED
    BY <1>2, <2>5, <2>6, <2>7
<1> QED
  BY <1>3, <1>4 DEF Emu

\* A send thread touches the state of its own LCD, the flags and the status.
LEMMA HandlerStep == ASSUME IInv, NEW l \in Lcds, Handler(l) PROVE IInv'
<1> USE DEF IInv
<1>0. Numbers /\ Commands = {2, 3, 4, 7, 8}
  BY StatusNumbers
<1>1. UNCHANGED <<emsVars, shmVars, emuVars, log>>
  BY DEF Handler, Take, ZeroLcd, ZeroPcs, Arm, LoadPcs, StorePcs, TestFull, LoadLcd,
         StoreLcd, TestAll, Disarm, TestLast, TestIdle, SetStatus, SetLast, SetEnd,
         SetCmd, OnlyHandler, histVars
<1>2. ReaderInv'
  BY <1>1 DEF ReaderInv, emsVars, shmVars
<1> DEFINE Places == {"idle", "zerolcd", "zeropcs", "firstload", "firststore", "arm",
              "load", "store", "testfull", "loadlcd", "storelcd", "testall", "disarm",
              "testlast", "testidle", "setstatus", "setlast", "setend", "setcmd"}
           \* What the step leaves to be typed.
           Own(h, f, m, b) ==
             /\ h \in Places /\ (h # "idle" => f \in FramesOf(l))
             /\ f \in Frames \cup {NoFrame}
             /\ m \in (SUBSET Pcs) \cup (SUBSET Lcds)
             /\ (h \in {"store", "firststore"} => m \subseteq Pcs)
             /\ (h = "storelcd" => m \subseteq Lcds)
             /\ b \in Seq(FramesOf(l)) /\ b \in Seq(Frames)
           OwnOnly ==
             /\ \E h : handler' = [handler EXCEPT ![l] = h]
             /\ \E f : frame' = [frame EXCEPT ![l] = f]
             /\ \E m : tmp' = [tmp EXCEPT ![l] = m]
             /\ \E b : inbox' = [inbox EXCEPT ![l] = b]
           Flags ==
             /\ armed' \in [Trackers -> Kinds \cup {"none"}]
             /\ recvLcd' \in [Trackers -> SUBSET Lcds]
             /\ recvPcs' \in [Trackers -> [Lcds -> SUBSET Pcs]]
             /\ cmd_start_pcs' \in [Lcds -> SUBSET Pcs]
             /\ got' \in [Kinds -> SUBSET AllPcs]
           Status ==
             /\ g_sys_status' = g_sys_status \/ g_sys_status' \in Commands
             /\ g_sys_status_last' \in {SER_WAITTING_START} \cup Commands
             /\ g_lcd_status_end' \in {0, 1}
           Start ==
             /\ handler'[l] = "setstatus" => g_sys_status = SER_IDEL
             /\ g_sys_status' # g_sys_status => handler[l] = "setstatus"
<1>3. SUFFICES /\ OwnOnly /\ Own(handler'[l], frame'[l], tmp'[l], inbox'[l])
               /\ Flags /\ Status /\ Start
  <2> SUFFICES ASSUME OwnOnly, Own(handler'[l], frame'[l], tmp'[l], inbox'[l]),
                      Flags, Status, Start
               PROVE  IInv'
    OBVIOUS
  <2>1. \A m \in Lcds \ {l} : /\ handler'[m] = handler[m] /\ frame'[m] = frame[m]
                              /\ tmp'[m] = tmp[m] /\ inbox'[m] = inbox[m]
    BY DEF TypeOK
  <2>2. /\ handler' \in [Lcds -> Places] /\ frame' \in [Lcds -> Frames \cup {NoFrame}]
        /\ tmp' \in [Lcds -> (SUBSET Pcs) \cup (SUBSET Lcds)]
        /\ inbox' \in [Lcds -> Seq(Frames)]
    BY ZenonT(30) DEF TypeOK
  <2>3. HandlerInv'
    BY <2>1 DEF HandlerInv
  <2>4. WriterInv' /\ g_sys_status' \in {SER_WAITTING_START, SER_IDEL} \cup Commands
    BY <1>1 DEF WriterInv, TypeOK, emsVars
  <2>5. AttachInv'
    BY <1>0, <1>1, <2>1 DEF AttachInv, TypeOK, emsVars, Numbers
  <2>6. TypeOK'
    BY <1>1, <2>2, <2>4 DEF TypeOK, emsVars, shmVars, emuVars
  <2> QED
    BY <1>2, <2>3, <2>4, <2>5, <2>6
<1> HIDE DEF Places, Own, OwnOnly, Flags, Status, Start
\* Before the step, and what unchanged variables leave true.
<1>4. Own(handler[l], frame[l], tmp[l], inbox[l])
  BY DEF Own, Places, TypeOK, HandlerInv
<1>5. /\ handler = [handler EXCEPT ![l] = handler[l]] /\ frame = [frame EXCEPT ![l] = frame[l]]
      /\ tmp = [tmp EXCEPT ![l] = tmp[l]] /\ inbox = [inbox EXCEPT ![l] = inbox[l]]
  BY DEF TypeOK
<1>6. UNCHANGED <<trackVars, cmd_start_pcs, got>> => Flags
  BY DEF Flags, TypeOK, trackVars
<1>7. UNCHANGED statusVars => Status
  BY DEF Status, TypeOK, statusVars
<1>8. handler[l] # "idle" => /\ frame[l] \in FramesOf(l) /\ Kind(l) \in Kinds
                             /\ Tr(l) \in Trackers /\ frame[l][2] \in Pcs
  BY FramesOfLcd, ScriptTables DEF HandlerInv, Kind, Tr
\* The send thread's own state, from the values it gets.
<1>9. ASSUME NEW h, NEW f, NEW m, NEW b, Own(h, f, m, b),
             handler' = [handler EXCEPT ![l] = h], frame' = [frame EXCEPT ![l] = f],
             tmp' = [tmp EXCEPT ![l] = m], inbox' = [inbox EXCEPT ![l] = b]
      PROVE  OwnOnly /\ Own(handler'[l], frame'[l], tmp'[l], inbox'[l]) /\ handler'[l] = h
  <2>1. handler'[l] = h /\ frame'[l] = f /\ tmp'[l] = m /\ inbox'[l] = b
    BY <1>9 DEF TypeOK
  <2>2. OwnOnly
    BY <1>9 DEF OwnOnly
  <2> QED
    BY <1>9, <2>1, <2>2
<1>10. NoFrame \in Frames \cup {NoFrame} /\ {} \in (SUBSET Pcs) \cup (SUBSET Lcds)
  OBVIOUS
\* A step on to a place that needs no mask, or the end of the frame.
<1>11. ASSUME handler[l] # "idle", NEW h \in Places \ {"store", "firststore", "storelcd"},
              (Goto(l, h) /\ UNCHANGED frame) \/ Done(l), UNCHANGED <<tmp, inbox>>
       PROVE  OwnOnly /\ Own(handler'[l], frame'[l], tmp'[l], inbox'[l])
              /\ handler'[l] \in {h, "idle"}
  <2>1. CASE Goto(l, h) /\ UNCHANGED frame
    <3>1. Own(h, frame[l], tmp[l], inbox[l])
      BY <1>4, <1>8, <1>11 DEF Own
    <3>2. /\ handler' = [handler EXCEPT ![l] = h] /\ frame' = [frame EXCEPT ![l] = frame[l]]
          /\ tmp' = [tmp EXCEPT ![l] = tmp[l]] /\ inbox' = [inbox EXCEPT ![l] = inbox[l]]
      BY <1>5, <1>11, <2>1 DEF Goto
    <3>3. OwnOnly /\ Own(handler'[l], frame'[l], tmp'[l], inbox'[l]) /\ handler'[l] = h
      BY <1>9, <3>1, <3>2
    <3> QED
      BY <3>3
  <2>2. CASE Done(l)
    <3>1. Own("idle", NoFrame, tmp[l], inbox[l])
      BY <1>4, <1>10 DEF Own, Places
    <3> QED
      BY <1>5, <1>9, <1>11, <2>2, <3>1 DEF Done, Goto
  <2> QED
    BY <1>11, <2>1, <2>2
<1>12. AfterCollection(l) => (Goto(l, "setcmd") /\ UNCHANGED frame) \/ Done(l)
  BY DEF AfterCollection
<1>13. UNCHANGED g_sys_status /\ handler'[l] # "setstatus" => Start
  BY DEF Start
<1>14. {"idle", "zerolcd", "zeropcs", "firstload", "arm", "load", "testfull", "loadlcd",
        "testall", "disarm", "testlast", "testidle", "setstatus", "setlast", "setend",
        "setcmd"} = Places \ {"store", "firststore", "storelcd"}
  BY DEF Places
<1>15. CASE Take(l)
  <2> DEFINE f == Head(inbox[l])
             h == IF armed[TrackerOf(f[1])] = f[1] THEN "load" ELSE "zerolcd"
  <2>1. inbox[l] # <<>> /\ inbox[l] \in Seq(FramesOf(l)) /\ inbox[l] \in Seq(Frames)
    BY <1>15 DEF Take, HandlerInv, TypeOK
  <2>2. f \in FramesOf(l) /\ Tail(inbox[l]) \in Seq(FramesOf(l))
        /\ Tail(inbox[l]) \in Seq(Frames)
    BY <2>1
  <2>3. f \in Frames /\ f[1] \in Kinds /\ <<l, f[2]>> \in AllPcs
    BY <2>2, FramesOfLcd
  <2>4. /\ handler' = [handler EXCEPT ![l] = h] /\ frame' = [frame EXCEPT ![l] = f]
        /\ tmp' = tmp /\ inbox' = [inbox EXCEPT ![l] = Tail(inbox[l])]
        /\ got' = [got EXCEPT ![f[1]] = @ \cup {<<l, f[2]>>}]
        /\ UNCHANGED <<statusVars, trackVars, cmd_start_pcs>>
    BY <1>15 DEF Take, Goto, TypeOK
  <2>5. h \in {"load", "zerolcd"}
    OBVIOUS
  <2> HIDE DEF f, h
  <2>6. Own(h, f, tmp[l], Tail(inbox[l]))
    BY <1>4, <2>2, <2>3, <2>5 DEF Own, Places
  <2>7. OwnOnly /\ Own(handler'[l], frame'[l], tmp'[l], inbox'[l]) /\ handler'[l] = h
    BY <1>5, <1>9, <2>4, <2>6
  <2>8. got' \in [Kinds -> SUBSET AllPcs]
    BY <2>3, <2>4 DEF TypeOK
  <2>9. Flags
    BY <2>4, <2>8 DEF Flags, TypeOK, trackVars
  <2>10. Status /\ Start
    BY <1>7, <1>13, <2>4, <2>5, <2>7 DEF statusVars
  <2> QED
    BY <2>7, <2>9, <2>10
<1>16. CASE ZeroLcd(l)
  <2>1. /\ OwnOnly /\ Own(handler'[l], frame'[l], tmp'[l], inbox'[l])
        /\ handler'[l] \in {"idle", "zeropcs"}
    BY <1>16, <1>11, <1>14 DEF ZeroLcd, lcdVars
  <2>2. Flags
    BY <1>16, <1>8 DEF ZeroLcd, Flags, TypeOK, lcdVars, histVars
  <2>3. Status /\ Start
    BY <1>16, <1>7, <1>13, <2>1 DEF ZeroLcd, statusVars
  <2> QED
    BY <2>1, <2>2, <2>3
<1>17. CASE ZeroPcs(l)
  <2>1. /\ OwnOnly /\ Own(handler'[l], frame'[l], tmp'[l], inbox'[l])
        /\ handler'[l] \in {"idle", "firstload"}
    BY <1>17, <1>11, <1>14 DEF ZeroPcs, lcdVars
  <2>2. Flags
    BY <1>17, <1>8 DEF ZeroPcs, Flags, TypeOK, lcdVars, histVars
  <2>3. Status /\ Start
    BY <1>17, <1>7, <1>13, <2>1 DEF ZeroPcs, statusVars
  <2> QED
    BY <2>1, <2>2, <2>3
<1>18. CASE Arm(l)
  <2>1. /\ OwnOnly /\ Own(handler'[l], frame'[l], tmp'[l], inbox'[l])
        /\ handler'[l] \in {"idle", "setcmd"}
    BY <1>18, <1>11, <1>12, <1>14 DEF Arm, lcdVars
  <2>2. Flags
    BY <1>18, <1>8 DEF Arm, Flags, TypeOK, lcdVars, histVars
  <2>3. Status /\ Start
    BY <1>18, <1>7, <1>13, <2>1 DEF Arm, statusVars
  <2> QED
    BY <2>1, <2>2, <2>3
<1>19. CASE LoadPcs(l)
  <2> DEFINE m == recvPcs[Tr(l)][l]
  <2>1. handler[l] \in {"load", "firstload"}
    BY <1>19 DEF LoadPcs
  <2>2. m \subseteq Pcs
    BY <1>8, <2>1 DEF TypeOK
  <2>3. PICK h \in {"store", "firststore"} : handler' = [handler EXCEPT ![l] = h]
    BY <1>19 DEF LoadPcs, Goto
  <2>4. tmp' = [tmp EXCEPT ![l] = m] /\ OnlyHandler
    BY <1>19 DEF LoadPcs
  <2> HIDE DEF m
  <2>5. Own(h, frame[l], m, inbox[l])
    BY <1>4, <1>8, <2>1, <2>2, <2>3 DEF Own, Places
  <2>6. OwnOnly /\ Own(handler'[l], frame'[l], tmp'[l], inbox'[l]) /\ handler'[l] = h
    BY <1>5, <1>9, <2>3, <2>4, <2>5 DEF OnlyHandler, lcdVars
  <2>7. Flags /\ Status /\ Start
    BY <1>6, <1>7, <1>13, <2>3, <2>4, <2>6 DEF OnlyHandler, lcdVars, histVars, statusVars
  <2> QED
    BY <2>6, <2>7
<1>20. CASE StorePcs(l)
  <2>1. handler[l] \in {"store", "firststore"}
    BY <1>20 DEF StorePcs
  <2>2. PICK h \in {"testfull", "arm"} : handler' = [handler EXCEPT ![l] = h]
    BY <1>20 DEF StorePcs, Goto
  <2>3. /\ tmp' = [tmp EXCEPT ![l] = {}] /\ UNCHANGED <<frame, inbox, statusVars>>
        /\ recvPcs' = [recvPcs EXCEPT ![Tr(l)][l] = tmp[l] \cup {frame[l][2]}]
        /\ UNCHANGED <<armed, recvLcd, cmd_start_pcs, got>>
    BY <1>20 DEF StorePcs, lcdVars, histVars
  <2>4. Own(h, frame[l], {}, inbox[l])
    BY <1>4, <1>8, <1>10, <2>1, <2>2 DEF Own, Places
  <2>5. OwnOnly /\ Own(handler'[l], frame'[l], tmp'[l], inbox'[l]) /\ handler'[l] = h
    BY <1>5, <1>9, <2>2, <2>3, <2>4
  <2>6. tmp[l] \cup {frame[l][2]} \subseteq Pcs
    BY <1>8, <2>1 DEF HandlerInv
  <2>7. recvPcs' \in [Trackers -> [Lcds -> SUBSET Pcs]]
    BY <1>8, <2>1, <2>3, <2>6 DEF TypeOK
  <2>8. Flags
    BY <2>3, <2>7 DEF Flags, TypeOK
  <2>9. Status /\ Start
    BY <1>7, <1>13, <2>2, <2>3, <2>5 DEF statusVars
  <2> QED
    BY <2>5, <2>8, <2>9
<1>21. CASE TestFull(l)
  <2>1. /\ OwnOnly /\ Own(handler'[l], frame'[l], tmp'[l], inbox'[l])
        /\ handler'[l] # "setstatus"
    <3>1. PICK h \in {"loadlcd", "testall"} : Goto(l, h)
      BY <1>21 DEF TestFull
    <3> QED
      BY <1>21, <1>11, <1>14, <3>1 DEF TestFull, OnlyHandler, lcdVars
  <2>2. Flags /\ Status /\ Start
    BY <1>21, <1>6, <1>7, <1>13, <2>1 DEF TestFull, OnlyHandler, lcdVars, histVars, statusVars
  <2> QED
    BY <2>1, <2>2
<1>22. CASE LoadLcd(l)
  <2> DEFINE m == recvLcd[Tr(l)]
  <2>1. /\ handler[l] = "loadlcd" /\ handler' = [handler EXCEPT ![l] = "storelcd"]
        /\ tmp' = [tmp EXCEPT ![l] = m] /\ OnlyHandler
    BY <1>22 DEF LoadLcd, Goto
  <2>2. m \subseteq Lcds
    BY <1>8, <2>1 DEF TypeOK
  <2> HIDE DEF m
  <2>3. Own("storelcd", frame[l], m, inbox[l])
    BY <1>4, <1>8, <2>1, <2>2 DEF Own, Places
  <2>4. OwnOnly /\ Own(handler'[l], frame'[l], tmp'[l], inbox'[l]) /\ handler'[l] = "storelcd"
    BY <1>5, <1>9, <2>1, <2>3 DEF OnlyHandler, lcdVars
  <2>5. Flags /\ Status /\ Start
    BY <1>6, <1>7, <1>13, <2>1, <2>4 DEF OnlyHandler, lcdVars, histVars, statusVars
  <2> QED
    BY <2>4, <2>5
<1>23. CASE StoreLcd(l)
  <2>1. /\ handler[l] = "storelcd" /\ handler' = [handler EXCEPT ![l] = "testall"]
        /\ tmp' = [tmp EXCEPT ![l] = {}] /\ UNCHANGED <<frame, inbox, statusVars>>
        /\ recvLcd' = [recvLcd EXCEPT ![Tr(l)] = tmp[l] \cup {l}]
        /\ UNCHANGED <<armed, recvPcs, cmd_start_pcs, got>>
    BY <1>23 DEF StoreLcd, Goto, lcdVars, histVars
  <2>2. Own("testall", frame[l], {}, inbox[l])
    BY <1>4, <1>8, <1>10, <2>1 DEF Own, Places
  <2>3. OwnOnly /\ Own(handler'[l], frame'[l], tmp'[l], inbox'[l]) /\ handler'[l] = "testall"
    BY <1>5, <1>9, <2>1, <2>2
  <2>4. tmp[l] \cup {l} \subseteq Lcds
    BY <2>1 DEF HandlerInv
  <2>5. recvLcd' \in [Trackers -> SUBSET Lcds]
    BY <1>8, <2>1, <2>4 DEF TypeOK
  <2>6. Flags
    BY <2>1, <2>5 DEF Flags, TypeOK
  <2>7. Status /\ Start
    BY <1>7, <1>13, <2>1, <2>3 DEF statusVars
  <2> QED
    BY <2>3, <2>6, <2>7
<1>24. CASE TestAll(l)
  <2>1. /\ OwnOnly /\ Own(handler'[l], frame'[l], tmp'[l], inbox'[l])
        /\ handler'[l] \in {"testlast", "disarm", "setcmd", "idle"}
    <3>1. handler[l] # "idle" /\ UNCHANGED <<tmp, inbox>>
      BY <1>24 DEF TestAll, lcdVars
    <3>2. \/ AfterCollection(l)
          \/ \E h \in {"testlast", "disarm"} : Goto(l, h) /\ UNCHANGED frame
      BY <1>24 DEF TestAll
    <3> QED
      BY <1>11, <1>12, <1>14, <3>1, <3>2
  <2>2. Flags /\ Status /\ Start
    BY <1>24, <1>6, <1>7, <1>13, <2>1 DEF TestAll, lcdVars, histVars, statusVars
  <2> QED
    BY <2>1, <2>2
<1>25. CASE Disarm(l)
  <2>1. /\ OwnOnly /\ Own(handler'[l], frame'[l], tmp'[l], inbox'[l])
        /\ handler'[l] \in {"idle", "testlast"}
    BY <1>25, <1>11, <1>14 DEF Disarm, lcdVars
  <2>2. Flags
    BY <1>25, <1>8 DEF Disarm, Flags, TypeOK, lcdVars, histVars
  <2>3. Status /\ Start
    BY <1>25, <1>7, <1>13, <2>1 DEF Disarm, statusVars
  <2> QED
    BY <2>1, <2>2, <2>3
<1>26. CASE TestLast(l)
  <2>1. /\ OwnOnly /\ Own(handler'[l], frame'[l], tmp'[l], inbox'[l])
        /\ handler'[l] \in {"testidle", "setcmd", "idle"}
    <3>1. handler[l] # "idle" /\ UNCHANGED <<tmp, inbox>>
      BY <1>26 DEF TestLast, lcdVars
    <3>2. \/ AfterCollection(l)
          \/ \E h \in {"testidle"} : Goto(l, h) /\ UNCHANGED frame
      BY <1>26 DEF TestLast
    <3> QED
      BY <1>11, <1>12, <1>14, <3>1, <3>2
  <2>2. Flags /\ Status /\ Start
    BY <1>26, <1>6, <1>7, <1>13, <2>1 DEF TestLast, lcdVars, histVars, statusVars
  <2> QED
    BY <2>1, <2>2
<1>27. CASE TestIdle(l)
  <2>1. /\ OwnOnly /\ Own(handler'[l], frame'[l], tmp'[l], inbox'[l])
        /\ handler'[l] \in {"setstatus", "setcmd", "idle"}
    <3>1. handler[l] # "idle" /\ UNCHANGED <<tmp, inbox>>
      BY <1>27 DEF TestIdle, lcdVars
    <3>2. \/ AfterCollection(l)
          \/ \E h \in {"setstatus"} : Goto(l, h) /\ UNCHANGED frame
      BY <1>27 DEF TestIdle
    <3> QED
      BY <1>11, <1>12, <1>14, <3>1, <3>2
  <2>2. handler'[l] = "setstatus" => g_sys_status = SER_IDEL
    <3>1. CASE g_sys_status = SER_IDEL
      BY <3>1
    <3>2. CASE g_sys_status # SER_IDEL
      <4>1. AfterCollection(l)
        BY <1>27, <3>2 DEF TestIdle, Ready
      <4>2. handler'[l] # "setstatus"
        BY <4>1 DEF AfterCollection, Done, Goto, TypeOK
      <4> QED
        BY <4>2
    <3> QED
      BY <3>1, <3>2
  <2>3. Flags /\ Status /\ Start
    BY <1>27, <1>6, <1>7, <2>2 DEF TestIdle, Start, lcdVars, histVars, statusVars
  <2> QED
    BY <2>1, <2>3
<1>28. CASE SetStatus(l)
  <2>1. handler[l] = "setstatus" /\ g_sys_status' = To(Kind(l))
        /\ UNCHANGED <<g_sys_status_last, g_lcd_status_end, trackVars, cmd_start_pcs, got>>
    BY <1>28 DEF SetStatus, lcdVars, histVars
  <2>2. g_sys_status' \in Commands
    BY <1>8, <2>1, ScriptTables
  <2>3. /\ OwnOnly /\ Own(handler'[l], frame'[l], tmp'[l], inbox'[l])
        /\ handler'[l] \in {"setlast", "idle"}
    BY <1>28, <1>11, <1>14 DEF SetStatus, lcdVars
  <2>4. Flags /\ Status /\ Start
    BY <1>6, <2>1, <2>2, <2>3 DEF Status, Start, TypeOK
  <2> QED
    BY <2>3, <2>4
<1>29. CASE SetLast(l)
  <2>1. /\ OwnOnly /\ Own(handler'[l], frame'[l], tmp'[l], inbox'[l])
        /\ handler'[l] \in {"setend", "setcmd", "idle"}
    <3>1. handler[l] # "idle" /\ UNCHANGED <<tmp, inbox>>
      BY <1>29 DEF SetLast, lcdVars
    <3>2. \/ AfterCollection(l)
          \/ \E h \in {"setend"} : Goto(l, h) /\ UNCHANGED frame
      BY <1>29 DEF SetLast
    <3> QED
      BY <1>11, <1>12, <1>14, <3>1, <3>2
  <2>2. g_sys_status_last' \in Commands
    BY <1>29, <1>8, ScriptTables DEF SetLast
  <2>3. UNCHANGED <<g_sys_status, g_lcd_status_end, trackVars, cmd_start_pcs, got>>
    BY <1>29 DEF SetLast, lcdVars, histVars
  <2>4. Flags /\ Status /\ Start
    BY <1>6, <1>13, <2>1, <2>2, <2>3 DEF Status, TypeOK
  <2> QED
    BY <2>1, <2>4
<1>30. CASE SetEnd(l)
  <2>1. g_lcd_status_end' = 1 /\ UNCHANGED <<g_sys_status, g_sys_status_last, trackVars,
                                             cmd_start_pcs, got>>
    BY <1>30 DEF SetEnd, EndFlag, lcdVars, histVars
  <2>2. /\ OwnOnly /\ Own(handler'[l], frame'[l], tmp'[l], inbox'[l])
        /\ handler'[l] = "idle"
    BY <1>30, <1>11, <1>14 DEF SetEnd, lcdVars
  <2>3. Flags /\ Status /\ Start
    BY <1>6, <1>13, <2>1, <2>2 DEF Status, TypeOK
  <2> QED
    BY <2>2, <2>3
<1>31. CASE SetCmd(l)
  <2>1. /\ handler[l] = "setcmd" /\ UNCHANGED <<statusVars, trackVars, got>>
        /\ \/ cmd_start_pcs' = [cmd_start_pcs EXCEPT ![l] = @ \cup {frame[l][2]}]
           \/ cmd_start_pcs' = [cmd_start_pcs EXCEPT ![l] = @ \ {frame[l][2]}]
    BY <1>31 DEF SetCmd, histVars
  <2>2. cmd_start_pcs' \in [Lcds -> SUBSET Pcs]
    <3>1. frame[l][2] \in Pcs
      BY <1>8, <2>1
    <3>2. cmd_start_pcs \in [Lcds -> SUBSET Pcs]
      BY DEF TypeOK
    <3> QED
      BY <2>1, <3>1, <3>2
  <2>3. Flags
    BY <2>1, <2>2 DEF Flags, TypeOK, trackVars
  <2>4. /\ OwnOnly /\ Own(handler'[l], frame'[l], tmp'[l], inbox'[l])
        /\ handler'[l] = "idle"
    BY <1>31, <1>11, <1>14 DEF SetCmd
  <2>5. Status /\ Start
    BY <1>7, <1>13, <2>1, <2>4 DEF statusVars
  <2> QED
    BY <2>3, <2>4, <2>5
<1> QED
  BY <1>15, <1>16, <1>17, <1>18, <1>19, <1>20, <1>21, <1>22, <1>23, <1>24,
     <1>25, <1>26, <1>27, <1>28, <1>29, <1>30, <1>31 DEF Handler

LEMMA StutterStep == ASSUME IInv, UNCHANGED vars PROVE IInv'
<1>1. UNCHANGED <<emsVars, shmVars, statusVars, handlerVars, trackVars, lcdVars, emuVars,
                  histVars>>
  BY DEF vars
<1>2. TypeOK'
  BY ZenonT(30), <1>1
     DEF IInv, TypeOK, emsVars, shmVars, statusVars, handlerVars, trackVars,
         lcdVars, emuVars, histVars
<1>3. ReaderInv' /\ WriterInv' /\ AttachInv'
  BY <1>1 DEF IInv, ReaderInv, WriterInv, AttachInv, emsVars, shmVars, statusVars,
              handlerVars
<1>4. HandlerInv'
  BY <1>1 DEF IInv, HandlerInv, handlerVars, lcdVars
<1> QED
  BY <1>2, <1>3, <1>4 DEF IInv

LEMMA IInvHolds == Spec => []IInv
<1>1. IInv /\ [Next]_vars => IInv'
  BY ReaderStep, WriterStep, EmuStep, HandlerStep, StutterStep DEF Next
<1> QED
  BY InitIInv, <1>1, PTL DEF Spec

-----------------------------------------------------------------------------
(* The theorems.                                                           *)

\* The globals the threads share with no lock keep their types whatever the
\* interleaving: every status that is issued is a command, and the masks of a
\* collection name PCS and LCDs only.
THEOREM EmsTypeCorrect == Spec => []TypeOK
<1>1. IInv => TypeOK
  BY DEF IInv
<1> QED
  BY IInvHolds, <1>1, PTL

\* The writer enters its loop only when the reader has attached the shared
\* memory, although they synchronise through nothing but g_sys_status: no send
\* thread can be the first to move that status.
THEOREM SharedMemoryIsThere == Spec => []WriterAfterAttach
<1>1. IInv => WriterAfterAttach
  BY DEF IInv, AttachInv, WriterAfterAttach
<1> QED
  BY IInvHolds, <1>1, PTL
=============================================================================
