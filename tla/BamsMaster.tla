----------------------------- MODULE BamsMaster -----------------------------
(***************************************************************************)
(* The battery simulation: one serial_thread per serial port               *)
(* (src/src/simubams/threads_bams.c) cycles over the batteries of its port *)
(* in pages (createFunFrame, doFunTasks of protocol_bams.c) and writes     *)
(* each page with WriteComPort (serial.c).  The threads share the static   *)
(* descriptor set fs_write of serial.c with no lock; its steps are those   *)
(* of FD_ZERO, FD_SET (a load and a store) and of select, which copies the *)
(* set in when it starts and out when it ends.  Before that every thread   *)
(* sets its port up (SerialPort), and goes on whatever comes of it.        *)
(*                                                                         *)
(* Time is left out, so the static tv_timeout is: a select that finds no   *)
(* line ready may time out at once or late.  The ports are opened without  *)
(* O_NONBLOCK, so that write returns when the whole frame is taken.        *)
(* Name_Slip is a faulty variant of Name, used only to see that the        *)
(* properties notice it.                                                   *)
(***************************************************************************)
EXTENDS SerialPort

CONSTANTS Fd,         \* the descriptors of the ports, if they can be opened
          PcsNum,     \* pParaBams->pcs_num
          MaxStops    \* bound: times a line stops taking bytes

PageLen   == 7        \* batteries of a page
NumTask   == 16       \* registers of a battery, ARRAY_LEN(bamsfun)
SocLen    == 18       \* length of para_soc
BufLen    == 256      \* length of commbuf

ASSUME BamsAssumption ==
  /\ Fd \in [Ports -> Nat]
  /\ \A p, q \in Ports : Fd[p] = Fd[q] => p = q
  /\ PcsNum \in [Ports -> 1..SocLen]
  /\ MaxStops \in Nat

VARIABLES fs_write,   \* ports whose descriptor is in the shared set
          pc,         \* where each thread is
          pcsid,      \* its first battery not yet in a page of this cycle
          page,       \* batteries of the frame in hand
          reg,        \* fs_write as loaded by FD_SET or copied by select
          line,       \* environment: does the line take bytes?
          stops,      \* environment: times a line has stopped
          seen,       \* history: batteries framed in this cycle
          steady,     \* history: line ready since WriteComPort was called
          touched,    \* history: set changed by another thread between
                      \* FD_ZERO and select
          res         \* outcome of the last WriteComPort

threadVars == <<pc, pcsid, page, reg>>
envVars    == <<line, stops>>
histVars   == <<seen, steady, touched, res>>
vars == <<serialVars, fs_write, threadVars, envVars, histVars>>

All(p) == 0..PcsNum[p] - 1

TypeOK ==
  /\ SerialTypeOK
  /\ fs_write \subseteq Ports
  /\ pc \in [Ports -> {"frame", "zero", "load", "store", "select", "wait", "write"}]
  /\ pcsid \in [Ports -> Nat]
  /\ page \in [Ports -> SUBSET Nat] /\ seen \in [Ports -> SUBSET Nat]
  /\ \A p \in Ports : pcsid[p] \in All(p) /\ page[p] \subseteq All(p)
                      /\ seen[p] \subseteq All(p)
  /\ reg \in [Ports -> SUBSET Ports]
  /\ line \in [Ports -> BOOLEAN] /\ stops \in 0..MaxStops
  /\ steady \in [Ports -> BOOLEAN] /\ touched \in [Ports -> BOOLEAN]
  /\ res \in [Ports -> {"none", "sent", "lost"}]

Init ==
  /\ SerialInit
  /\ fs_write = {}
  /\ pc = [p \in Ports |-> "frame"]
  /\ pcsid = [p \in Ports |-> 0]
  /\ page = [p \in Ports |-> {}]
  /\ reg = [p \in Ports |-> {}]
  /\ line = [p \in Ports |-> TRUE] /\ stops = 0
  /\ seen = [p \in Ports |-> {}]
  /\ steady = [p \in Ports |-> TRUE] /\ touched = [p \in Ports |-> FALSE]
  /\ res = [p \in Ports |-> "none"]

Goto(p, place) == pc' = [pc EXCEPT ![p] = place]

\* A store of p in the shared set meets the threads that are filling it.
Touch(p) ==
  touched' = [q \in Ports |-> touched[q] \/ (q # p /\ pc[q] \in {"load", "store", "select"})]

CurNumPcs_OneMore(p) == IF PcsNum[p] > pcsid[p] + PageLen THEN PageLen + 1
                        ELSE PcsNum[p] - pcsid[p]
CurNumPcs(p) == IF PcsNum[p] > pcsid[p] + PageLen THEN PageLen
                ELSE PcsNum[p] - pcsid[p]

\* The cycle starts again after the last battery.
NextPcsid_EndsEarly(p) == LET n == pcsid[p] + CurNumPcs(p)
                          IN  IF n >= PcsNum[p] - 1 THEN 0 ELSE n
NextPcsid_NoWrap(p) == pcsid[p] + CurNumPcs(p)
NextPcsid(p) == LET n == pcsid[p] + CurNumPcs(p)
                IN  IF n = PcsNum[p] THEN 0 ELSE n

\* createFunFrame: the page is chosen and the cycle moves on, before the frame
\* is written and whatever becomes of it.
MakeFrame(p) ==
  /\ setup[p] = "ready" /\ pc[p] = "frame"
  /\ page' = [page EXCEPT ![p] = pcsid[p]..(pcsid[p] + CurNumPcs(p) - 1)]
  /\ pcsid' = [pcsid EXCEPT ![p] = NextPcsid(p)]
  /\ seen' = [seen EXCEPT ![p] = (IF pcsid[p] = 0 THEN {} ELSE @) \cup page'[p]]
  /\ steady' = [steady EXCEPT ![p] = line[p]]
  /\ Goto(p, "zero")
  /\ touched' = [touched EXCEPT ![p] = FALSE]
  /\ UNCHANGED <<serialVars, fs_write, reg, envVars, res>>

FdZero(p) ==
  /\ pc[p] = "zero"
  /\ fs_write' = {}
  /\ Goto(p, "load")
  /\ Touch(p)
  /\ UNCHANGED <<serialVars, pcsid, page, reg, envVars, seen, steady, res>>

FdSetLoad(p) ==
  /\ pc[p] = "load"
  /\ reg' = [reg EXCEPT ![p] = fs_write]
  /\ Goto(p, "store")
  /\ UNCHANGED <<serialVars, fs_write, pcsid, page, envVars, histVars>>

\* The descriptor of a port that could not be opened is -1: nobody's bit.
FdSetStore(p) ==
  /\ pc[p] = "store"
  /\ fs_write' = IF open[p] THEN reg[p] \cup {p} ELSE reg[p]
  /\ reg' = [reg EXCEPT ![p] = {}]
  /\ Goto(p, "select")
  /\ Touch(p)
  /\ UNCHANGED <<serialVars, pcsid, page, envVars, seen, steady, res>>

\* select(fd + 1, ...) looks at the descriptors up to fd.
Watched_BelowOwn(p) == {q \in fs_write : open[p] /\ Fd[q] < Fd[p]}
Watched(p) == {q \in fs_write : open[p] /\ Fd[q] <= Fd[p]}

SelectStarts(p) ==
  /\ pc[p] = "select"
  /\ reg' = [reg EXCEPT ![p] = Watched(p)]
  /\ Goto(p, "wait")
  /\ UNCHANGED <<serialVars, fs_write, pcsid, page, envVars, histVars>>

Ready(p) == {q \in reg[p] : line[q]}

\* Nobody asks which descriptor is ready: any makes the thread write its own.
SelectReturns(p) ==
  /\ pc[p] = "wait" /\ Ready(p) # {}
  /\ fs_write' = Ready(p)
  /\ reg' = [reg EXCEPT ![p] = {}]
  /\ Goto(p, "write")
  /\ Touch(p)
  /\ UNCHANGED <<serialVars, pcsid, page, envVars, seen, steady, res>>

\* WriteComPort flushes and gives up; doFunTasks reports failure, serial_thread
\* goes on with the next page.  A select on no descriptor leaves the set alone.
AfterTimeout_Waits == "wait"
AfterTimeout == "frame"

SelectTimesOut(p) ==
  /\ pc[p] = "wait" /\ Ready(p) = {}
  /\ fs_write' = IF open[p] THEN {} ELSE fs_write
  /\ reg' = [reg EXCEPT ![p] = {}]
  /\ res' = [res EXCEPT ![p] = "lost"]
  /\ Goto(p, AfterTimeout)
  /\ Touch(p)
  /\ UNCHANGED <<serialVars, pcsid, page, envVars, seen, steady>>

Write(p) ==
  /\ pc[p] = "write" /\ line[p]
  /\ res' = [res EXCEPT ![p] = "sent"]
  /\ Goto(p, "frame")
  /\ UNCHANGED <<serialVars, fs_write, pcsid, page, reg, envVars, seen, steady, touched>>

\* Uart_Init, before the cycles.
SetUpPort(p) ==
  /\ SetUp(p)
  /\ UNCHANGED <<fs_write, threadVars, envVars, histVars>>

Thread(p) == \/ SetUpPort(p)
             \/ MakeFrame(p) \/ FdZero(p) \/ FdSetLoad(p) \/ FdSetStore(p)
             \/ SelectStarts(p) \/ SelectReturns(p) \/ SelectTimesOut(p)
             \/ Write(p)

\* The line of a port stops taking bytes, and takes them again (external).
LineStops(p) ==
  /\ line[p] /\ stops < MaxStops
  /\ line' = [line EXCEPT ![p] = FALSE]
  /\ stops' = stops + 1
  /\ steady' = [steady EXCEPT ![p] = FALSE]
  /\ UNCHANGED <<serialVars, fs_write, threadVars, seen, touched, res>>

LineResumes(p) ==
  /\ ~line[p]
  /\ line' = [line EXCEPT ![p] = TRUE]
  /\ UNCHANGED <<serialVars, fs_write, threadVars, stops, histVars>>

Next == \E p \in Ports : Thread(p) \/ LineStops(p) \/ LineResumes(p)

Spec == Init /\ [][Next]_vars

\* Every thread keeps running.  Nothing is assumed of the lines.
FairSpec == Spec /\ \A p \in Ports : WF_vars(Thread(p))

-----------------------------------------------------------------------------
(* Properties.                                                             *)

\* Lengths of the frame of a page: header, registers and checksum.
ByteCount(n) == 2 * NumTask * n
FrameLen(n)  == 7 + ByteCount(n) + 2

\* The pages of a cycle leave no battery out: what was framed since the cycle
\* began is everything before pcsid, or everything when the cycle is over.
\* Hence no page reaches past para_soc.
PagesFollowOn ==
  \A p \in Ports : seen[p] = IF pcsid[p] = 0
                             THEN (IF page[p] = {} THEN {} ELSE All(p))
                             ELSE 0..pcsid[p] - 1

\* Every frame fits commbuf, its byte count fits the byte it is written into,
\* and it is never a frame of no battery.
FrameFits ==
  \A p \in Ports : pc[p] # "frame" =>
    /\ FrameLen(Cardinality(page[p])) <= BufLen
    /\ ByteCount(Cardinality(page[p])) \in 1..255

\* A port whose line takes bytes from some time on completes its cycles again
\* and again, whatever the other ports do to the shared descriptor set.
CyclesComplete ==
  \A p \in Ports : <>[]line[p] => []<>(pc[p] = "zero" /\ pcsid[p] = 0)

\* serial.c on WriteComPort: it writes datalength bytes.  A frame for an open
\* line that takes bytes all along is not dropped.
ReadyLineIsWritten ==
  \A p \in Ports : pc[p] = "frame" /\ res[p] = "lost" /\ open[p] => ~steady[p]

\* Only one thing drops such a frame: another thread storing in the shared set
\* while this one was filling it.
LostOnlyByOverlap ==
  \A p \in Ports :
    pc[p] = "frame" /\ res[p] = "lost" /\ open[p] => ~steady[p] \/ touched[p]
=============================================================================
