-------------------------- MODULE BamsMasterProofs --------------------------
(***************************************************************************)
(* Proofs about BamsMaster, for any set of ports and any number of         *)
(* batteries per port that para_soc can serve.                             *)
(***************************************************************************)
EXTENDS BamsMaster, FiniteSetTheorems, TLAPS

\* A page is a run of one to seven batteries of its port; only a thread that
\* has framed nothing yet holds none.
PageIsRun ==
  \A p \in Ports :
    \/ page[p] = {} /\ pc[p] = "frame" /\ pcsid[p] = 0
    \/ \E a \in All(p), n \in 1..PageLen :
         a + n <= PcsNum[p] /\ page[p] = a..(a + n - 1)

IInv == TypeOK /\ PagesFollowOn /\ PageIsRun

\* The arithmetic of createFunFrame: a page has one to seven batteries, none
\* past the last, and the next one starts behind it or at 0.
LEMMA PageArithmetic ==
  ASSUME NEW p \in Ports, pcsid[p] \in All(p)
  PROVE  /\ CurNumPcs(p) \in 1..PageLen
         /\ pcsid[p] + CurNumPcs(p) <= PcsNum[p]
         /\ NextPcsid(p) \in All(p)
         /\ NextPcsid(p) = IF pcsid[p] + CurNumPcs(p) = PcsNum[p] THEN 0
                           ELSE pcsid[p] + CurNumPcs(p)
  BY BamsAssumption DEF All, CurNumPcs, NextPcsid, PageLen, SocLen

\* A port asks for a rate that has a code of its own.
LEMMA KnownRate ==
  ASSUME NEW p \in Ports
  PROVE  baudrate2Bxx(Baud[p]) = Baud[p] /\ Baud[p] \in Nat
<1>1. Baud[p] \in Rates
  BY SerialAssumption
<1> QED
  BY <1>1 DEF Rates, baudrate2Bxx

\* The set-up keeps the types of its variables.
LEMMA SerialStep ==
  ASSUME SerialTypeOK, (\E p \in Ports : SetUp(p)) \/ UNCHANGED serialVars
  PROVE  SerialTypeOK'
<1> USE SerialAssumption DEF SerialTypeOK
<1> DEFINE Steps == DOMAIN AfterStep \cup {"open", "attr", "ready"}
<1>1. CASE UNCHANGED serialVars
  BY <1>1 DEF serialVars
<1>2. ASSUME NEW p \in Ports, SetUp(p) PROVE SerialTypeOK'
  <2>1. Overlap(p) \in [Ports -> BOOLEAN] /\ [Overlap(p) EXCEPT ![p] = FALSE] \in [Ports -> BOOLEAN]
    BY DEF Overlap
  <2>2. \A s \in DOMAIN AfterStep : AfterStep[s] \in Steps
    BY DEF AfterStep
  <2>3. {"bzero", "baud"} \cup DOMAIN Cleared \subseteq DOMAIN AfterStep
    BY DEF AfterStep, Cleared
  <2>4. "ready" \in Steps /\ "bzero" \in Steps
    BY DEF AfterStep
  <2> HIDE DEF Steps
  <2>5. setup \in [Ports -> Steps]
    BY DEF Steps
  <2>6. SUFFICES /\ termios_new' \in Cflags /\ setup' \in [Ports -> Steps]
                 /\ reg_cflag' \in [Ports -> Cflags]
                 /\ open' \in [Ports -> BOOLEAN] /\ overlapped' \in [Ports -> BOOLEAN]
    BY DEF Steps, AfterStep
  <2>7. CASE OpenPort(p)
    BY <2>7, <2>4, <2>5 DEF OpenPort
  <2>8. CASE StoreNew(p)
    <3>1. setup[p] \in DOMAIN AfterStep
      BY <2>8, <2>3 DEF StoreNew
    <3>2. termios_new' \in Cflags
      BY <2>8, KnownRate DEF StoreNew, Zeroed, Cflags
    <3> QED
      BY <2>8, <2>1, <2>2, <2>5, <3>1, <3>2 DEF StoreNew
  <2>9. CASE LoadFlags(p)
    BY <2>9, <2>1, <2>5 DEF LoadFlags
  <2>10. CASE StoreFlags(p)
    <3>1. setup[p] \in DOMAIN AfterStep /\ setup[p] \in DOMAIN Cleared
      BY <2>10, <2>3 DEF StoreFlags
    <3>2. Added[setup[p]] \subseteq Flags
      BY <3>1 DEF Added, Cleared, Flags
    <3>3. termios_new' \in Cflags
      <4>1. termios_new' = [reg_cflag[p] EXCEPT
                !.flags = (@ \ Cleared[setup[p]]) \cup Added[setup[p]]]
        BY <2>10 DEF StoreFlags
      <4> QED
        BY <4>1, <3>2 DEF Cflags
    <3>4. NotLoaded \in Cflags
      BY DEF NotLoaded, Cflags
    <3> QED
      BY <2>10, <2>1, <2>2, <2>5, <3>1, <3>3, <3>4 DEF StoreFlags
  <2>11. CASE SetAttr(p)
    BY <2>11, <2>1, <2>4, <2>5 DEF SetAttr
  <2> QED
    BY <1>2, <2>7, <2>8, <2>9, <2>10, <2>11 DEF SetUp
<1> QED
  BY <1>1, <1>2

\* The initial states satisfy the inductive invariant.
LEMMA InitIInv == Init => IInv
<1> SUFFICES ASSUME Init PROVE IInv
  OBVIOUS
<1>1. TypeOK
  <2>1. SerialTypeOK
    BY DEF Init, SerialInit, SerialTypeOK, Cflags, Zeroed, NotLoaded
  <2> QED
    BY <2>1, BamsAssumption DEF Init, TypeOK, All, SocLen
<1>2. PagesFollowOn
  BY DEF Init, PagesFollowOn
<1>3. PageIsRun
  BY DEF Init, PageIsRun
<1> QED
  BY <1>1, <1>2, <1>3 DEF IInv

\* The step that makes a frame preserves it.
LEMMA MakeFrameStep ==
  ASSUME IInv, NEW p \in Ports, MakeFrame(p) PROVE IInv'
<1> DEFINE n == CurNumPcs(p)
           a == pcsid[p]
<1>1. a \in All(p) /\ TypeOK /\ PagesFollowOn /\ PageIsRun
  BY DEF IInv, TypeOK
<1>2. /\ n \in 1..PageLen /\ a + n <= PcsNum[p] /\ NextPcsid(p) \in All(p)
      /\ NextPcsid(p) = IF a + n = PcsNum[p] THEN 0 ELSE a + n
  BY <1>1, PageArithmetic
<1>3. a \in Nat /\ n \in Nat /\ PcsNum[p] \in Nat
  BY <1>1, <1>2, BamsAssumption DEF All, PageLen, SocLen
<1> HIDE DEF n, a
<1>4. page' = [page EXCEPT ![p] = a..(a + n - 1)]
  BY DEF MakeFrame, a, n
<1>5. pcsid' = [pcsid EXCEPT ![p] = NextPcsid(p)]
  BY DEF MakeFrame
<1>6. seen' = [seen EXCEPT ![p] = (IF a = 0 THEN {} ELSE seen[p]) \cup page'[p]]
  BY DEF MakeFrame, a
<1>7. page'[p] = a..(a + n - 1) /\ pcsid'[p] = NextPcsid(p)
      /\ seen'[p] = (IF a = 0 THEN {} ELSE seen[p]) \cup (a..(a + n - 1))
  BY <1>1, <1>4, <1>5, <1>6 DEF TypeOK
<1>8. page'[p] # {} /\ page'[p] \subseteq All(p)
  <2>1. a \in a..(a + n - 1)
    BY <1>2, <1>3 DEF PageLen
  <2>2. a..(a + n - 1) \subseteq All(p)
    BY <1>2, <1>3 DEF All
  <2> QED
    BY <2>1, <2>2, <1>7
<1>9. seen'[p] = 0..(a + n - 1)
  <2>1. CASE a = 0
    BY <2>1, <1>7
  <2>2. CASE a # 0
    <3>1. seen[p] = 0..(a - 1)
      BY <2>2, <1>1 DEF PagesFollowOn, a
    <3> QED
      BY <3>1, <2>2, <1>3, <1>7
  <2> QED
    BY <2>1, <2>2
<1>10. TypeOK'
  <2>1. \A q \in Ports : pcsid'[q] \in All(q) /\ page'[q] \subseteq All(q)
                         /\ seen'[q] \subseteq All(q)
    <3> SUFFICES ASSUME NEW q \in Ports
                 PROVE  pcsid'[q] \in All(q) /\ page'[q] \subseteq All(q)
                        /\ seen'[q] \subseteq All(q)
      OBVIOUS
    <3>1. CASE q = p
      <4>1. seen'[p] \subseteq All(p)
        BY <1>2, <1>3, <1>9 DEF All
      <4> QED
        BY <3>1, <4>1, <1>2, <1>7, <1>8
    <3>2. CASE q # p
      BY <3>2, <1>1, <1>4, <1>5, <1>6 DEF TypeOK
    <3> QED
      BY <3>1, <3>2
  <2>2. /\ pcsid' \in [Ports -> Nat]
        /\ page' \in [Ports -> SUBSET Nat] /\ seen' \in [Ports -> SUBSET Nat]
    <3>1. All(p) \subseteq Nat
      BY <1>3 DEF All
    <3> QED
      BY <3>1, <2>1, <1>1, <1>4, <1>5, <1>6 DEF TypeOK
  <2>3. SerialTypeOK'
    BY <1>1, SerialStep DEF TypeOK, MakeFrame
  <2> QED
    BY <1>1, <2>1, <2>2, <2>3 DEF TypeOK, MakeFrame, Goto, envVars, All
<1>11. PagesFollowOn'
  <2> SUFFICES ASSUME NEW q \in Ports
               PROVE  seen'[q] = IF pcsid'[q] = 0
                                 THEN (IF page'[q] = {} THEN {} ELSE All(q))
                                 ELSE 0..pcsid'[q] - 1
    BY DEF PagesFollowOn, All
  <2>1. CASE q = p
    <3>1. CASE a + n = PcsNum[p]
      BY SMTT(30), <2>1, <3>1, <1>2, <1>3, <1>7, <1>8, <1>9 DEF All
    <3>2. CASE a + n # PcsNum[p]
      BY <2>1, <3>2, <1>2, <1>3, <1>7, <1>9
    <3> QED
      BY <3>1, <3>2
  <2>2. CASE q # p
    BY <2>2, <1>1, <1>4, <1>5, <1>6 DEF PagesFollowOn
  <2> QED
    BY <2>1, <2>2
<1>12. PageIsRun'
  <2> SUFFICES ASSUME NEW q \in Ports
               PROVE  \/ page'[q] = {} /\ pc'[q] = "frame" /\ pcsid'[q] = 0
                      \/ \E b \in All(q), m \in 1..PageLen :
                           b + m <= PcsNum[q] /\ page'[q] = b..(b + m - 1)
    BY DEF PageIsRun, All
  <2>1. CASE q = p
    BY <2>1, <1>1, <1>2, <1>7
  <2>2. CASE q # p
    BY <2>2, <1>1, <1>4, <1>5 DEF PageIsRun, MakeFrame, Goto, TypeOK
  <2> QED
    BY <2>1, <2>2
<1> QED
  BY <1>10, <1>11, <1>12 DEF IInv

\* The other steps leave the pages alone; only making a frame lets a thread
\* leave "frame".
LEMMA OtherStep ==
  ASSUME IInv, UNCHANGED <<page, pcsid, seen>>, TypeOK',
         \A q \in Ports : pc[q] = "frame" => pc'[q] = "frame"
  PROVE  IInv'
  BY DEF IInv, PagesFollowOn, PageIsRun, All

\* Every step preserves the inductive invariant.
LEMMA IInvStep == IInv /\ [Next]_vars => IInv'
<1> SUFFICES ASSUME IInv, [Next]_vars PROVE IInv'
  OBVIOUS
<1> USE DEF histVars, envVars, threadVars
<1>0. TypeOK
  BY DEF IInv
<1>1. CASE UNCHANGED vars
  <2>1. SerialTypeOK'
    BY <1>0, <1>1, SerialStep DEF vars, TypeOK
  <2> QED
    BY <1>1, <1>0, <2>1, OtherStep DEF vars, TypeOK, All
<1>2. ASSUME NEW p \in Ports, Next, Thread(p) \/ LineStops(p) \/ LineResumes(p)
      PROVE  IInv'
  <2>0. \/ MakeFrame(p)
        \/ UNCHANGED serialVars /\ SerialTypeOK'
        \/ SetUpPort(p) /\ SerialTypeOK'
    BY <1>0, <1>2, SerialStep
       DEF TypeOK, Thread, SetUpPort, FdZero, FdSetLoad, FdSetStore, SelectStarts,
           SelectReturns, SelectTimesOut, Write, LineStops, LineResumes
  <2>t. (Touch(p) => touched' \in [Ports -> BOOLEAN]) /\ Watched(p) \subseteq Ports
    BY <1>0 DEF Touch, Watched, TypeOK
  <2>1. CASE MakeFrame(p)
    BY <2>1, MakeFrameStep
  <2>2. CASE SerialTypeOK' /\ FdZero(p)
    BY <2>2, <2>t, <1>0, OtherStep DEF FdZero, Goto, TypeOK, All
  <2>3. CASE SerialTypeOK' /\ FdSetLoad(p)
    BY <2>3, <1>0, OtherStep DEF FdSetLoad, Goto, TypeOK, All
  <2>4. CASE SerialTypeOK' /\ FdSetStore(p)
    BY <2>4, <2>t, <1>0, OtherStep DEF FdSetStore, Goto, TypeOK, All
  <2>5. CASE SerialTypeOK' /\ SelectStarts(p)
    BY <2>5, <2>t, <1>0, OtherStep DEF SelectStarts, Goto, TypeOK, All
  <2>6. CASE SerialTypeOK' /\ SelectReturns(p)
    BY <2>6, <2>t, <1>0, OtherStep DEF SelectReturns, Ready, Goto, TypeOK, All
  <2>7. CASE SerialTypeOK' /\ SelectTimesOut(p)
    BY <2>7, <2>t, <1>0, OtherStep DEF SelectTimesOut, AfterTimeout, Goto, TypeOK, All
  <2>8. CASE SerialTypeOK' /\ Write(p)
    BY <2>8, <1>0, OtherStep DEF Write, Goto, TypeOK, All
  <2>9. CASE SerialTypeOK' /\ LineStops(p)
    BY <2>9, <1>0, BamsAssumption, OtherStep DEF LineStops, TypeOK, All
  <2>10. CASE SerialTypeOK' /\ LineResumes(p)
    BY <2>10, <1>0, OtherStep DEF LineResumes, TypeOK, All
  <2>11. CASE SerialTypeOK' /\ SetUpPort(p)
    BY <2>11, <1>0, OtherStep DEF SetUpPort, TypeOK, All
  <2> QED
    BY <1>2, <2>0, <2>1, <2>2, <2>3, <2>4, <2>5, <2>6, <2>7, <2>8, <2>9, <2>10, <2>11
       DEF Thread
<1> QED
  BY <1>1, <1>2 DEF Next

\* The inductive invariant holds in every reachable state.
LEMMA IInvHolds == Spec => []IInv
  BY InitIInv, IInvStep, PTL DEF Spec

\* A frame of any page fits its buffer and its byte count.
LEMMA IInvFits == IInv => FrameFits
<1> SUFFICES ASSUME IInv, NEW p \in Ports, pc[p] # "frame"
             PROVE  /\ FrameLen(Cardinality(page[p])) <= BufLen
                    /\ ByteCount(Cardinality(page[p])) \in 1..255
  BY DEF FrameFits
<1>1. PICK a \in All(p), n \in 1..PageLen : page[p] = a..(a + n - 1)
  BY DEF IInv, PageIsRun
<1>2. a \in Int /\ a + n - 1 \in Int /\ n \in Int /\ n > 0
  BY BamsAssumption DEF All, PageLen, SocLen
<1>3. Cardinality(page[p]) = n
  BY <1>1, <1>2, FS_Interval
<1> QED
  BY <1>3 DEF FrameLen, ByteCount, BufLen, NumTask, PageLen

\* The variables of the battery simulation keep their types: in particular
\* pcsid never leaves the batteries of its port.
THEOREM BamsTypeCorrect == Spec => []TypeOK
<1>1. IInv => TypeOK
  BY DEF IInv
<1> QED
  BY <1>1, IInvHolds, PTL

\* The pages of a cycle of createFunFrame leave no battery out, for any number
\* of batteries.
THEOREM NoBatteryLeftOut == Spec => []PagesFollowOn
<1>1. IInv => PagesFollowOn
  BY DEF IInv
<1> QED
  BY <1>1, IInvHolds, PTL

\* No frame overruns commbuf or the byte that holds its byte count, and none is
\* empty, for any number of batteries.
THEOREM EveryFrameFits == Spec => []FrameFits
  BY IInvFits, IInvHolds, PTL

-----------------------------------------------------------------------------
(* Which frames are lost.                                                  *)

\* A line that was ready all along is ready; a thread whose filling of the set
\* nobody met has its own descriptor in it, and select watches it.
WatchesOwn(p) ==
  /\ steady[p] => line[p]
  /\ setup[p] # "ready" => pc[p] = "frame" /\ res[p] = "none"
  /\ pc[p] = "select" /\ open[p] /\ ~touched[p] => p \in fs_write
  /\ pc[p] = "wait" /\ open[p] /\ ~touched[p] => p \in reg[p]
  /\ pc[p] = "frame" /\ res[p] = "lost" /\ open[p] => ~steady[p] \/ touched[p]

LostInv == TypeOK /\ \A p \in Ports : WatchesOwn(p)

LEMMA InitLostInv == Init => LostInv
  BY InitIInv DEF IInv, LostInv, Init, SerialInit, WatchesOwn

\* A store of p in the shared set marks the others that are filling it, and
\* only marks.
LEMMA Touches ==
  ASSUME TypeOK, NEW p \in Ports, Touch(p), NEW q \in Ports
  PROVE  /\ touched[q] => touched'[q]
         /\ q # p /\ pc[q] = "select" => touched'[q]
         /\ q = p => touched'[q] = touched[q]
  BY DEF Touch, TypeOK

LEMMA LostStep == LostInv /\ TypeOK' /\ [Next]_vars => LostInv'
<1> SUFFICES ASSUME LostInv, TypeOK', [Next]_vars, NEW q \in Ports PROVE WatchesOwn(q)'
  BY DEF LostInv
<1> USE DEF histVars, envVars, threadVars, serialVars
<1>0. TypeOK /\ WatchesOwn(q)
  BY DEF LostInv
<1>1. CASE UNCHANGED vars
  BY <1>1, <1>0 DEF vars, WatchesOwn
<1>2. ASSUME NEW p \in Ports, Thread(p) \/ LineStops(p) \/ LineResumes(p)
      PROVE  WatchesOwn(q)'
  <2>1. CASE MakeFrame(p)
    BY <2>1, <1>0 DEF MakeFrame, Goto, TypeOK, WatchesOwn
  <2>2. CASE FdZero(p)
    <3>1. Touch(p)
      BY <2>2 DEF FdZero
    <3> QED
      BY <2>2, <3>1, <1>0, Touches DEF FdZero, Goto, TypeOK, WatchesOwn
  <2>3. CASE FdSetLoad(p)
    BY <2>3, <1>0 DEF FdSetLoad, Goto, TypeOK, WatchesOwn
  <2>4. CASE FdSetStore(p)
    <3>1. Touch(p)
      BY <2>4 DEF FdSetStore
    <3> QED
      BY <2>4, <3>1, <1>0, Touches DEF FdSetStore, Goto, TypeOK, WatchesOwn
  <2>5. CASE SelectStarts(p)
    <3>1. q = p /\ open[p] /\ p \in fs_write => p \in Watched(p)
      BY BamsAssumption DEF Watched
    <3> QED
      BY <2>5, <3>1, <1>0 DEF SelectStarts, Goto, TypeOK, WatchesOwn
  <2>6. CASE SelectReturns(p)
    <3>1. Touch(p)
      BY <2>6 DEF SelectReturns
    <3> QED
      BY <2>6, <3>1, <1>0, Touches DEF SelectReturns, Goto, TypeOK, WatchesOwn
  <2>7. CASE SelectTimesOut(p)
    <3>1. Touch(p) /\ pc[p] = "wait"
      BY <2>7 DEF SelectTimesOut
    <3>2. p \in reg[p] => ~line[p]
      BY <2>7 DEF SelectTimesOut, Ready
    <3> QED
      BY <2>7, <3>1, <3>2, <1>0, Touches
         DEF SelectTimesOut, AfterTimeout, Goto, TypeOK, WatchesOwn
  <2>8. CASE Write(p)
    BY <2>8, <1>0 DEF Write, Goto, TypeOK, WatchesOwn
  <2>9. CASE LineStops(p)
    BY <2>9, <1>0 DEF LineStops, TypeOK, WatchesOwn
  <2>10. CASE LineResumes(p)
    BY <2>10, <1>0 DEF LineResumes, TypeOK, WatchesOwn
  <2>11. CASE SetUpPort(p)
    <3>1. setup'[q] # setup[q] => q = p /\ setup[p] # "ready"
      BY <2>11, <1>0
         DEF SetUpPort, SetUp, OpenPort, StoreNew, LoadFlags, StoreFlags, SetAttr,
             Cleared, TypeOK, SerialTypeOK
    <3>2. open'[q] # open[q] => setup[q] # "ready"
      BY <2>11, <1>0
         DEF SetUpPort, SetUp, OpenPort, StoreNew, LoadFlags, StoreFlags, SetAttr,
             TypeOK, SerialTypeOK
    <3>3. UNCHANGED <<fs_write, threadVars, envVars, histVars>>
      BY <2>11 DEF SetUpPort
    <3> QED
      BY <3>1, <3>2, <3>3, <1>0 DEF WatchesOwn
  <2> QED
    BY <1>2, <2>1, <2>2, <2>3, <2>4, <2>5, <2>6, <2>7, <2>8, <2>9, <2>10, <2>11
       DEF Thread
<1> QED
  BY <1>1, <1>2 DEF Next

\* Only a store of another thread in fs_write, between FD_ZERO and select, makes
\* WriteComPort drop a frame for an open line that takes bytes all along.
THEOREM LostByOverlapOnly == Spec => []LostOnlyByOverlap
<1>1. LostInv => LostOnlyByOverlap
  BY DEF LostInv, WatchesOwn, LostOnlyByOverlap
<1>2. IInv => TypeOK
  BY DEF IInv
<1> QED
  BY <1>1, <1>2, InitLostInv, LostStep, IInvHolds, PTL DEF Spec

-----------------------------------------------------------------------------
(* What an undisturbed set-up asks for.                                    *)

Base(p) == [baud |-> Baud[p], flags |-> {}]
Open(p) == [baud |-> Baud[p], flags |-> {"CLOCAL", "CREAD"}]

\* The attributes after each step of a set-up that no other one has met.
AsSetSoFar(p) ==
  ~overlapped[p] =>
    /\ reg_cflag[p] # NotLoaded => reg_cflag[p] = termios_new
    /\ setup[p] = "cfmakeraw" => termios_new = Zeroed
    /\ setup[p] = "mode" => termios_new = Base(p)
    /\ setup[p] \in {"nosize", "cs8"} => termios_new = Open(p)
    /\ setup[p] \in {"noparity", "onestop", "attr"} => termios_new = Asked(p)

\* Flags are held loaded only by a statement that will store them.
AloneInv ==
  /\ SerialTypeOK
  /\ \A p \in Ports : /\ reg_cflag[p] # NotLoaded => setup[p] \in DOMAIN Cleared
                      /\ AsSetSoFar(p)

LEMMA InitAlone == Init => AloneInv
  BY InitIInv DEF IInv, TypeOK, AloneInv, Init, SerialInit, AsSetSoFar

\* The steps of another port either keep the attributes or mark the port.
LEMMA OthersMark ==
  ASSUME AloneInv, NEW p \in Ports, NEW q \in Ports \ {p}, SetUp(p)
  PROVE  /\ setup'[q] = setup[q] /\ reg_cflag'[q] = reg_cflag[q]
         /\ termios_new' = termios_new \/ setup[q] \in {"open", "bzero", "ready"}
            \/ overlapped'[q]
         /\ overlapped[q] => overlapped'[q]
<1>1. SerialTypeOK
  BY DEF AloneInv
<1>2. /\ Overlap(p)[q] = (overlapped[q] \/ q \in Busy(p))
      /\ [Overlap(p) EXCEPT ![p] = FALSE][q] = Overlap(p)[q]
  BY DEF Overlap
<1>3. q \in Busy(p) \/ setup[q] \in {"open", "bzero", "ready"}
  BY DEF Busy
<1>4. CASE OpenPort(p)
  BY <1>4, <1>1 DEF OpenPort, SerialTypeOK
<1>5. CASE StoreNew(p)
  BY <1>5, <1>1, <1>2, <1>3 DEF StoreNew, SerialTypeOK
<1>6. CASE LoadFlags(p)
  BY <1>6, <1>1, <1>2, <1>3 DEF LoadFlags, SerialTypeOK
<1>7. CASE StoreFlags(p)
  BY <1>7, <1>1, <1>2, <1>3 DEF StoreFlags, SerialTypeOK
<1>8. CASE SetAttr(p)
  BY <1>8, <1>1, <1>2, <1>3 DEF SetAttr, SerialTypeOK
<1> QED
  BY <1>4, <1>5, <1>6, <1>7, <1>8 DEF SetUp

LEMMA AloneStep == AloneInv /\ [Next]_vars => AloneInv'
<1> SUFFICES ASSUME AloneInv, [Next]_vars PROVE AloneInv'
  OBVIOUS
<1>0. SerialTypeOK
  BY DEF AloneInv
<1>1. UNCHANGED serialVars \/ \E p \in Ports : SetUp(p)
  BY DEF Next, Thread, SetUpPort, MakeFrame, FdZero, FdSetLoad, FdSetStore,
         SelectStarts, SelectReturns, SelectTimesOut, Write, LineStops, LineResumes, vars
<1>2. SerialTypeOK'
  BY <1>0, <1>1, SerialStep
<1>3. CASE UNCHANGED serialVars
  BY <1>2, <1>3 DEF serialVars, AloneInv, AsSetSoFar
<1>4. ASSUME NEW p \in Ports, SetUp(p) PROVE AloneInv'
  <2>1. \A q \in Ports \ {p} : /\ reg_cflag'[q] # NotLoaded => setup'[q] \in DOMAIN Cleared
                             /\ AsSetSoFar(q)'
    <3> SUFFICES ASSUME NEW q \in Ports \ {p}
                 PROVE  /\ reg_cflag'[q] # NotLoaded => setup'[q] \in DOMAIN Cleared
                        /\ AsSetSoFar(q)'
      OBVIOUS
    <3>1. /\ reg_cflag[q] # NotLoaded => setup[q] \in DOMAIN Cleared
          /\ AsSetSoFar(q)
      BY DEF AloneInv
    <3>2. setup[q] \in DOMAIN Cleared => setup[q] \notin {"open", "bzero", "ready"}
      BY DEF Cleared
    <3> QED
      BY <1>4, <3>1, <3>2, OthersMark DEF AsSetSoFar, Base, Open, Asked
  <2>2. /\ reg_cflag'[p] # NotLoaded => setup'[p] \in DOMAIN Cleared
        /\ AsSetSoFar(p)'
    <3>0. /\ reg_cflag[p] # NotLoaded => setup[p] \in DOMAIN Cleared
          /\ AsSetSoFar(p) /\ Overlap(p) \in [Ports -> BOOLEAN]
          /\ Overlap(p)[p] = FALSE => overlapped[p] = FALSE
      BY <1>0 DEF AloneInv, Overlap, SerialTypeOK
    <3>1. CASE OpenPort(p)
      BY <3>1, <3>0, <1>0 DEF OpenPort, SerialTypeOK, AsSetSoFar, Cleared
    <3>2. CASE StoreNew(p)
      <4>1. setup[p] \in {"bzero", "baud"} /\ reg_cflag[p] = NotLoaded
        BY <3>2, <3>0 DEF StoreNew, Cleared
      <4>2. CASE setup[p] = "bzero"
        BY <4>1, <4>2, <3>2, <1>0
           DEF StoreNew, SerialTypeOK, AsSetSoFar, AfterStep
      <4>3. CASE setup[p] = "baud"
        <5>1. termios_new' = Base(p)
          BY <4>3, <3>2, KnownRate DEF StoreNew, Zeroed, Base
        <5>2. setup'[p] = "mode" /\ reg_cflag'[p] = NotLoaded
          BY <4>1, <4>3, <3>2, <1>0 DEF StoreNew, SerialTypeOK, AfterStep
        <5> QED
          BY <5>1, <5>2 DEF AsSetSoFar, Base
      <4> QED
        BY <4>1, <4>2, <4>3
    <3>3. CASE LoadFlags(p)
      BY <3>3, <3>0, <1>0 DEF LoadFlags, SerialTypeOK, AsSetSoFar, Base, Open, Asked
    <3>4. CASE StoreFlags(p)
      <4>1. /\ setup[p] \in DOMAIN Cleared /\ reg_cflag[p] # NotLoaded
            /\ setup'[p] = AfterStep[setup[p]] /\ reg_cflag'[p] = NotLoaded
            /\ overlapped'[p] = Overlap(p)[p]
        BY <3>4, <1>0 DEF StoreFlags, SerialTypeOK, AfterStep, Cleared
      <4>2. termios_new' = [reg_cflag[p] EXCEPT
              !.flags = (@ \ Cleared[setup[p]]) \cup Added[setup[p]]]
        BY <3>4 DEF StoreFlags
      <4>3. SUFFICES ASSUME ~overlapped[p] PROVE AsSetSoFar(p)'
        BY <4>1, <3>0 DEF AsSetSoFar
      <4>4. reg_cflag[p] = termios_new
        BY <4>1, <4>3, <3>0 DEF AsSetSoFar
      <4>5. CASE setup[p] = "cfmakeraw"
        BY <4>1, <4>5 DEF AsSetSoFar, AfterStep
      <4>6. CASE setup[p] = "mode"
        <5>1. termios_new' = Open(p)
          BY <4>2, <4>3, <4>4, <4>6, <3>0
             DEF AsSetSoFar, Base, Open, Cleared, Added
        <5> QED
          BY <5>1, <4>1, <4>6 DEF AsSetSoFar, AfterStep, Open
      <4>7. CASE setup[p] = "nosize"
        <5>1. termios_new' = Open(p)
          BY <4>2, <4>3, <4>4, <4>7, <3>0
             DEF AsSetSoFar, Open, Cleared, Added
        <5> QED
          BY <5>1, <4>1, <4>7 DEF AsSetSoFar, AfterStep, Open
      <4>8. CASE setup[p] = "cs8"
        <5>1. termios_new' = Asked(p)
          BY <4>2, <4>3, <4>4, <4>8, <3>0
             DEF AsSetSoFar, Open, Asked, Cleared, Added
        <5> QED
          BY <5>1, <4>1, <4>8 DEF AsSetSoFar, AfterStep, Asked
      <4>9. CASE setup[p] \in {"noparity", "onestop"}
        <5>1. termios_new' = Asked(p)
          <6>1. termios_new = Asked(p)
            BY <4>3, <4>9, <3>0 DEF AsSetSoFar
          <6>2. Added[setup[p]] = {} /\ Cleared[setup[p]] \in {{"PARENB"}, {"CSTOPB"}}
            BY <4>9 DEF Added, Cleared
          <6> QED
            BY <4>2, <4>4, <6>1, <6>2 DEF Asked
        <5>2. setup'[p] \in {"onestop", "attr"}
          BY <4>1, <4>9 DEF AfterStep
        <5> QED
          BY <5>1, <5>2, <4>1 DEF AsSetSoFar, Asked
      <4> QED
        BY <4>1, <4>5, <4>6, <4>7, <4>8, <4>9 DEF Cleared
    <3>5. CASE SetAttr(p)
      BY <3>5, <3>0, <1>0 DEF SetAttr, SerialTypeOK, AsSetSoFar, Cleared
    <3> QED
      BY <1>4, <3>1, <3>2, <3>3, <3>4, <3>5 DEF SetUp
  <2> QED
    BY <1>2, <2>1, <2>2 DEF AloneInv
<1> QED
  BY <1>1, <1>3, <1>4

\* A set-up of a serial port that no other one meets asks for the port's own
\* attributes, whatever an earlier one has left in termios_new.
THEOREM AloneIsRight == Spec => AloneGetsAsked
<1>1. AloneInv => [\A p \in Ports : setup[p] = "attr" /\ setup'[p] = "ready" /\ ~overlapped[p]
                        => termios_new = Asked(p)]_serialVars
  BY DEF AloneInv, AsSetSoFar
<1>2. Spec => []AloneInv
  BY InitAlone, AloneStep, PTL DEF Spec
<1> QED
  BY <1>1, <1>2, PTL DEF AloneGetsAsked
=============================================================================
