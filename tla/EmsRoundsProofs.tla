-------------------------- MODULE EmsRoundsProofs --------------------------
(***************************************************************************)
(* The order of the commands of one session, for any LCDs and any number   *)
(* of PCS: the session goes round by round through Script, and everything  *)
(* under way (a command in que2, a frame in an inbox or in the hands of a  *)
(* send thread) is of this round or of the one before.  A session is one   *)
(* start of the EMU with one telemetry message: Ems_restart shows that a   *)
(* second start breaks the rounds.                                         *)
(***************************************************************************)
EXTENDS EmsSequenceProofs, FiniteSetTheorems

OneSession == ~Repeats /\ MaxReports <= 1

\* The round the session is in is Stage, the place in Script of the last command,
\* whose frames are those of the round.
Cmd    == Script[Stage]
Cur    == KindSent(Cmd)
CurTr  == TrackerOf(Cur)
Recent(c)     == c = Cmd \/ (Stage >= 3 /\ c = Script[Stage - 1])
RecentKind(k) == k = Cur \/ (Stage >= 3 /\ k = KindSent(Script[Stage - 1]))

Busy(l)  == handler[l] # "idle"
Works(l) == Busy(l) /\ Kind(l) = Cur       \* on a frame of this round

LogInv ==
  /\ Stage \in 0..6
  /\ \A i \in 1..Len(log) : Turn(log, i) \in 1..Stage /\ log[i] = Script[Turn(log, i)]
  /\ \A s \in 1..Stage : Issued(Script[s])

\* Nothing of an earlier round waits in front of the send thread of l any more.
Settled(l) ==
  /\ Busy(l) => Kind(l) = Cur
  /\ \A i \in 1..Len(inbox[l]) : inbox[l][i][1] = Cur
  /\ \A i \in 1..Len(que2) : que2[i] = Cmd

Full == /\ got[Cur] = AllPcs
        /\ \A l \in Lcds : Settled(l)
        /\ \A i \in 1..Len(que2) : que2[i] = Cmd

\* Commands and frames under way are of this round or the one before, in order.
PipeInv == Stage >= 2 =>
  /\ \A i \in 1..Len(que2) :
       Recent(que2[i]) /\ (que2[i] = Cmd => \A j \in i..Len(que2) : que2[j] = Cmd)
  /\ \A l \in Lcds : Busy(l) => RecentKind(Kind(l)) /\ (Kind(l) = Cur => Settled(l))
  /\ \A l \in Lcds : \A i \in 1..Len(inbox[l]) :
       /\ RecentKind(inbox[l][i][1])
       /\ inbox[l][i][1] = Cur => /\ \A j \in i..Len(inbox[l]) : inbox[l][j][1] = Cur
                                  /\ \A j \in 1..Len(que2) : que2[j] = Cmd

GotInv == \A s \in 2..5 : /\ Stage < s => got[KindSent(Script[s])] = {}
                          /\ Stage > s => got[KindSent(Script[s])] = AllPcs

\* The status is the command of this round, or the next one and the round is over.
NextDue == /\ Stage <= 5 /\ g_sys_status = Script[Stage + 1]
           /\ Stage >= 2 => Full
StatusInv == g_sys_status \in Commands => (Stage >= 1 /\ g_sys_status = Cmd) \/ NextDue

\* The collection of this round counts what this round brought.
Zeroed == {"firstload", "firststore", "arm"}
Unarmed == {"zerolcd", "zeropcs"} \cup Zeroed
Live == Cur \in {"pw", "qw"} \/ armed["onoff"] = Cur
        \/ \E l \in Lcds : Works(l) /\ handler[l] \in Zeroed
Got(l, p)  == <<l, p>> \in got[Cur]
Served(l)  == Settled(l) /\ \A p \in Need(l) : Got(l, p)
TrackInv == Stage >= 2 =>
  /\ Live => \A l \in Lcds : \A p \in recvPcs[CurTr][l] : Got(l, p)
  /\ Live \/ (\E l \in Lcds : Works(l) /\ handler[l] = "zeropcs") =>
       \A l \in recvLcd[CurTr] : Served(l)

Ended == {"disarm", "testlast", "testidle", "setstatus", "setlast", "setend"}
HandsInv == Stage >= 2 => \A l \in Lcds : Works(l) =>
  /\ Got(l, frame[l][2])
  /\ handler[l] \in {"store", "firststore"} => \A p \in tmp[l] : Got(l, p)
  /\ handler[l] = "storelcd" => \A m \in tmp[l] : Served(m)
  /\ handler[l] \in {"loadlcd", "storelcd"} => Served(l)
  /\ handler[l] \in Ended => Full
  /\ handler[l] \notin Unarmed /\ Cur \in {"on", "off"} => armed["onoff"] = Cur

PlaceInv == \A l \in Lcds :
  /\ handler[l] = "disarm" => Kind(l) \in {"pw", "qw"}
  /\ handler[l] = "setend" => Kind(l) = "pw"
  /\ handler[l] = "setcmd" => Kind(l) \in {"on", "off"}
  /\ handler[l] = "setstatus" /\ Kind(l) = "on" => Stage < 5

ArmInv == /\ armed["onoff"] = "on" =>
               Stage >= 2 /\ Stage # 5 /\ g_sys_status # ADJUST_EMU_PW
          /\ armed["onoff"] = "off" => Stage >= 4

FreshInv ==
  /\ Stage < 3 => recvLcd["qw"] = {} /\ \A l \in Lcds : recvPcs["qw"][l] = {}
  /\ Stage < 5 => recvLcd["pw"] = {} /\ \A l \in Lcds : recvPcs["pw"][l] = {}

EndInv == Stage = 6 \/ (Stage = 5 /\ g_sys_status = EMS_START_EMU) =>
  \/ g_lcd_status_end = 1
  \/ \E l \in Lcds : handler[l] \in {"setlast", "setend"} /\ Kind(l) = "pw"

CmdInv == \A l \in Lcds : \A p \in Need(l) :
  /\ Stage <= 3 /\ <<l, p>> \in got["on"] =>
       p \in cmd_start_pcs[l] \/ (Busy(l) /\ frame[l] = <<"on", p>>)
  /\ Stage <= 5 /\ <<l, p>> \in got["off"] =>
       p \notin cmd_start_pcs[l] \/ (Busy(l) /\ frame[l] = <<"off", p>>)

COMM == EMS_COMMUNICATION_STATUS_SETTING
Storing == {"post", "loadlast", "setlast", "setidel"}

\* How the session begins: the count, the setting, one telemetry, the start.
StartInv ==
  /\ que1 \in {<<>>, <<"count">>, <<"telemetry">>}
  /\ reports = 0 => que1 = <<>> /\ g_sys_status = SER_WAITTING_START
  /\ reader = "setlast" => que1 = <<"count">>
  /\ reader \in {"testidle", "setstart"} => que1 = <<"telemetry">>
  /\ reader = "setstart" => g_sys_status = SER_IDEL
  /\ que1 = <<"count">> /\ reader \notin {"setlast", "next"} =>
       g_sys_status = SER_WAITTING_START
  /\ que1 = <<"telemetry">> => Stage >= 1
  /\ g_sys_status = SER_WAITTING_START => Stage = 0
  /\ g_sys_status = COMM => Stage = 0 \/ (Stage = 1 /\ writer \in Storing)
  /\ Stage = 0 => /\ g_sys_status \in {SER_WAITTING_START, COMM}
                  /\ que2 = <<>> /\ writer \notin Storing
  /\ Stage = 1 => /\ g_sys_status \in {COMM, SER_IDEL, EMS_START_EMU}
                  /\ que2 \in {<<>>, <<COMM>>}
  /\ configured => Stage = 1 /\ que2 = <<>> /\ que1 # <<"telemetry">>
  /\ que2 = <<COMM>> => ~configured /\ que1 # <<"telemetry">>
  /\ Stage = 1 /\ writer \in Storing => g_sys_status = COMM
  /\ Stage = 1 /\ g_sys_status = EMS_START_EMU => que2 = <<>>
  /\ Stage >= 2 \/ g_sys_status = EMS_START_EMU =>
       ~configured /\ (que1 = <<>> \/ reader = "next")
  /\ Stage <= 1 => \A l \in Lcds : ~Busy(l) /\ inbox[l] = <<>>

RInv == /\ LogInv /\ StartInv /\ StatusInv /\ PipeInv /\ GotInv /\ TrackInv /\ HandsInv
        /\ PlaceInv /\ ArmInv /\ FreshInv /\ EndInv /\ CmdInv

-----------------------------------------------------------------------------
(* The tables.                                                             *)

LEMMA ScriptRounds ==
  /\ Len(Script) = 6
  /\ Script[1] = 2 /\ Script[2] = 3 /\ Script[3] = 8
  /\ Script[4] = 4 /\ Script[5] = 7 /\ Script[6] = 3
  BY StatusNumbers DEF Numbers, Script

LEMMA KindRounds ==
  /\ KindSent(3) = "on" /\ KindSent(8) = "qw" /\ KindSent(4) = "off" /\ KindSent(7) = "pw"
  /\ From("on") = 3 /\ From("qw") = 8 /\ From("off") = 4 /\ From("pw") = 7
  /\ To("on") = 8 /\ To("qw") = 4 /\ To("off") = 7 /\ To("pw") = 3
  /\ TrackerOf("on") = "onoff" /\ TrackerOf("off") = "onoff"
  /\ TrackerOf("pw") = "pw" /\ TrackerOf("qw") = "qw"
<1>1. /\ KindSent(3) = "on" /\ KindSent(8) = "qw" /\ KindSent(4) = "off"
      /\ KindSent(7) = "pw"
  BY StatusNumbers DEF Numbers, KindSent
<1>2. From("on") = 3 /\ From("qw") = 8 /\ From("off") = 4 /\ From("pw") = 7
  BY StatusNumbers DEF Numbers, From
<1>3. To("on") = 8 /\ To("qw") = 4 /\ To("off") = 7 /\ To("pw") = 3
  BY StatusNumbers DEF Numbers, To
<1>4. /\ TrackerOf("on") = "onoff" /\ TrackerOf("off") = "onoff"
      /\ TrackerOf("pw") = "pw" /\ TrackerOf("qw") = "qw"
  BY DEF TrackerOf
<1> QED
  BY <1>1, <1>2, <1>3, <1>4

\* What is of a round: its command, its frames and their tracker.
LEMMA RoundTable == ASSUME Stage \in 2..6
  PROVE  /\ Stage = 2 => Cmd = 3 /\ Cur = "on" /\ CurTr = "onoff"
         /\ Stage = 3 => Cmd = 8 /\ Cur = "qw" /\ CurTr = "qw"
         /\ Stage = 4 => Cmd = 4 /\ Cur = "off" /\ CurTr = "onoff"
         /\ Stage = 5 => Cmd = 7 /\ Cur = "pw" /\ CurTr = "pw"
         /\ Stage = 6 => Cmd = 3 /\ Cur = "on" /\ CurTr = "onoff"
         /\ Cur \in Kinds /\ CurTr \in Trackers
         /\ Stage \in {2, 3, 4, 5, 6}
<1>1. Stage \in {2, 3, 4, 5, 6}
  OBVIOUS
<1>2. CASE Stage = 2
  BY <1>2, ScriptRounds, KindRounds DEF Cmd, Cur, CurTr, Kinds, Trackers
<1>3. CASE Stage = 3
  BY <1>3, ScriptRounds, KindRounds DEF Cmd, Cur, CurTr, Kinds, Trackers
<1>4. CASE Stage = 4
  BY <1>4, ScriptRounds, KindRounds DEF Cmd, Cur, CurTr, Kinds, Trackers
<1>5. CASE Stage = 5
  BY <1>5, ScriptRounds, KindRounds DEF Cmd, Cur, CurTr, Kinds, Trackers
<1>6. CASE Stage = 6
  BY <1>6, ScriptRounds, KindRounds DEF Cmd, Cur, CurTr, Kinds, Trackers
<1> QED
  BY <1>1, <1>2, <1>3, <1>4, <1>5, <1>6

\* The kinds under way in a round.
LEMMA RecentTable == ASSUME Stage \in 2..6, NEW k, RecentKind(k)
  PROVE  /\ k \in Kinds
         /\ Stage = 2 => k = "on"
         /\ Stage = 3 => k \in {"on", "qw"}
         /\ Stage = 4 => k \in {"qw", "off"}
         /\ Stage = 5 => k \in {"off", "pw"}
         /\ Stage = 6 => k \in {"pw", "on"}
         /\ k # Cur => TrackerOf(k) # CurTr /\ To(k) = Cmd
         /\ k = Cur => From(k) = Cmd
<1>1. Stage \in {2, 3, 4, 5, 6}
  OBVIOUS
<1>2. CASE Stage = 2
  BY <1>2, ScriptRounds, KindRounds, RoundTable DEF RecentKind, Kinds
<1>3. CASE Stage = 3
  BY <1>3, ScriptRounds, KindRounds, RoundTable DEF RecentKind, Kinds
<1>4. CASE Stage = 4
  BY <1>4, ScriptRounds, KindRounds, RoundTable DEF RecentKind, Kinds
<1>5. CASE Stage = 5
  BY <1>5, ScriptRounds, KindRounds, RoundTable DEF RecentKind, Kinds
<1>6. CASE Stage = 6
  BY <1>6, ScriptRounds, KindRounds, RoundTable DEF RecentKind, Kinds
<1> QED
  BY <1>1, <1>2, <1>3, <1>4, <1>5, <1>6

-----------------------------------------------------------------------------
(* The history.                                                            *)

\* A command put at the end leaves the turns of the others, and is in the turn
\* of the last one or in the next turn.
LEMMA TurnAppend ==
  ASSUME NEW S, NEW s \in Seq(S), NEW c \in S
  PROVE  /\ \A i \in 1..Len(s) : Turn(Append(s, c), i) = Turn(s, i)
         /\ s = <<>> => Turn(Append(s, c), 1) = 1
         /\ s # <<>> => Turn(Append(s, c), Len(s) + 1) =
              Turn(s, Len(s)) + (IF c = s[Len(s)] THEN 0 ELSE 1)
<1> DEFINE n == Len(s)
           t == Append(s, c)
           J(q, i) == {j \in 2..i : q[j] # q[j - 1]}
<1>1. /\ n \in Nat /\ Len(t) = n + 1 /\ t[n + 1] = c
      /\ \A j \in 1..n : t[j] = s[j]
  OBVIOUS
<1>2. \A i \in 1..n : J(t, i) = J(s, i)
  BY <1>1
<1>3. \A i \in 1..n : Turn(t, i) = Turn(s, i)
  BY <1>2 DEF Turn
<1>4. s = <<>> => Turn(t, 1) = 1
  <2>1. J(t, 1) = {}
    OBVIOUS
  <2> QED
    BY <2>1, FS_EmptySet DEF Turn
<1>5. ASSUME s # <<>>
      PROVE  Turn(t, n + 1) = Turn(s, n) + (IF c = s[n] THEN 0 ELSE 1)
  <2>1. n >= 1 /\ t[n] = s[n]
    BY <1>1, <1>5
  <2>2. IsFiniteSet(J(s, n)) /\ Cardinality(J(s, n)) \in Nat
    <3>1. IsFiniteSet(2..n)
      BY <1>1, FS_Interval
    <3>2. J(s, n) \in SUBSET (2..n)
      OBVIOUS
    <3> HIDE DEF J
    <3>3. IsFiniteSet(J(s, n))
      BY <3>1, <3>2, FS_Subset
    <3> QED
      BY <3>3, FS_CardinalityType
  <2>3. CASE c = s[n]
    <3>1. J(t, n + 1) = J(s, n)
      BY <1>1, <2>1, <2>3
    <3>2. Turn(t, n + 1) = 1 + Cardinality(J(t, n + 1))
          /\ Turn(s, n) = 1 + Cardinality(J(s, n))
      BY DEF Turn
    <3> HIDE DEF J, t, n
    <3> QED
      BY <3>1, <3>2, <2>2, <2>3
  <2>4. CASE c # s[n]
    <3>1. J(t, n + 1) = J(s, n) \cup {n + 1} /\ n + 1 \notin J(s, n)
      BY <1>1, <2>1, <2>4
    <3>2. Cardinality(J(s, n) \cup {n + 1}) = Cardinality(J(s, n)) + 1
      <4> HIDE DEF J
      <4> QED
        BY <2>2, <3>1, FS_AddElement
    <3>3. Turn(t, n + 1) = 1 + Cardinality(J(t, n + 1))
          /\ Turn(s, n) = 1 + Cardinality(J(s, n))
      BY DEF Turn
    <3>4. Cardinality(J(t, n + 1)) = Cardinality(J(s, n)) + 1
      BY <3>1, <3>2
    <3> HIDE DEF J, t, n
    <3> QED
      BY <2>2, <2>4, <3>3, <3>4
  <2> QED
    BY <2>3, <2>4
<1> QED
  BY <1>3, <1>4, <1>5

LEMMA SameStage == ASSUME Stage' = Stage
  PROVE  Cmd' = Cmd /\ Cur' = Cur /\ CurTr' = CurTr
<1>1. Cmd' = Cmd
  BY DEF Cmd
<1>2. Cur' = Cur
  BY <1>1 DEF Cur
<1> QED
  BY <1>1, <1>2 DEF CurTr

LEMMA SameLog == ASSUME UNCHANGED log
  PROVE  Stage' = Stage /\ (LogInv => LogInv')
<1>1. Stage' = Stage
  BY DEF Stage
<1> QED
  BY <1>1 DEF LogInv, Issued

\* A command of this round or the next is put at the end of the history.
LEMMA LogGrows ==
  ASSUME log \in Seq(Commands), LogInv, NEW s \in {Stage, Stage + 1}, s \in 1..6,
         log' = Append(log, Script[s])
  PROVE  /\ LogInv' /\ Stage' = s /\ Cmd' = Script[s]
         /\ Stage = 0 <=> log = <<>>
<1> DEFINE n == Len(log)
           c == Script[s]
<1>1. n \in Nat /\ log' = Append(log, c) /\ c \in Commands
  BY ScriptRounds, StatusNumbers
<1>2. /\ log' \in Seq(Commands) /\ Len(log') = n + 1 /\ log'[n + 1] = c
      /\ \A i \in 1..n : log'[i] = log[i]
  BY <1>1
<1>3. /\ \A i \in 1..n : Turn(log', i) = Turn(log, i)
      /\ log = <<>> => Turn(log', 1) = 1
      /\ log # <<>> => Turn(log', n + 1) = Turn(log, n) + (IF c = log[n] THEN 0 ELSE 1)
  BY <1>1, TurnAppend
<1>4. Stage = 0 <=> log = <<>>
  <2>1. log # <<>> => n \in 1..n
    BY <1>1
  <2> QED
    BY <2>1 DEF Stage, LogInv
<1>5. log # <<>> => n >= 1 /\ Turn(log, n) = Stage /\ log[n] = Script[Stage]
  <2>1. log # <<>> => n \in 1..n
    BY <1>1
  <2> QED
    BY <2>1 DEF Stage, LogInv
<1>6. Turn(log', n + 1) = s
  <2>1. CASE log = <<>>
    <3>1. n = 0 /\ s = 1
      BY <1>4, <2>1
    <3> QED
      BY <1>3, <2>1, <3>1
  <2>2. CASE log # <<>>
    <3>1. Stage \in 1..6 /\ Turn(log', n + 1) = Stage + (IF c = log[n] THEN 0 ELSE 1)
      BY <1>3, <1>4, <1>5, <2>2 DEF LogInv
    <3>2. c = log[n] <=> s = Stage
      BY <1>5, <2>2, <3>1, ScriptRounds
    <3> QED
      BY <3>1, <3>2
  <2> QED
    BY <2>1, <2>2
<1>7. Stage' = s
  BY <1>2, <1>6 DEF Stage
<1>8. \A i \in 1..Len(log') : Turn(log', i) \in 1..s /\ log'[i] = Script[Turn(log', i)]
  <2> TAKE i \in 1..Len(log')
  <2>1. CASE i = n + 1
    BY <2>1, <1>2, <1>6
  <2>2. CASE i \in 1..n
    <3>1. Turn(log', i) = Turn(log, i) /\ log'[i] = log[i]
      BY <2>2, <1>2, <1>3
    <3>2. Turn(log, i) \in 1..Stage /\ log[i] = Script[Turn(log, i)]
      BY <2>2 DEF LogInv
    <3> QED
      BY <3>1, <3>2 DEF LogInv
  <2> QED
    BY <1>2, <2>1, <2>2
<1>9. \A r \in 1..s : \E i \in 1..Len(log') : log'[i] = Script[r]
  <2> TAKE r \in 1..s
  <2>1. CASE r = s
    BY <2>1, <1>2
  <2>2. CASE r \in 1..Stage
    <3>1. PICK i \in 1..n : log[i] = Script[r]
      BY <2>2 DEF LogInv, Issued
    <3> QED
      BY <3>1, <1>2
  <2> QED
    BY <2>1, <2>2 DEF LogInv
<1>10. LogInv'
  <2>1. /\ Stage' \in 0..6
        /\ \A i \in 1..Len(log') :
             Turn(log', i) \in 1..Stage' /\ log'[i] = Script[Turn(log', i)]
    BY <1>7, <1>8
  <2>2. \A r \in 1..Stage' : \E i \in 1..Len(log') : log'[i] = Script[r]
    BY <1>7, <1>9
  <2> QED
    BY ONLY <2>1, <2>2 DEF LogInv, Issued
<1> QED
  BY <1>4, <1>7, <1>10 DEF Cmd

-----------------------------------------------------------------------------
(* What a step within a round never takes back.                            *)

Grows ==
  /\ Stage' = Stage
  /\ \A l \in Lcds : Settled(l) => Settled(l)'
  /\ Full => Full'
  /\ \A k \in Kinds : got[k] \subseteq got'[k]

LEMMA Grown == ASSUME Stage \in 2..6, Grows, NEW l \in Lcds
  PROVE  /\ \A p : Got(l, p) => Got(l, p)'
         /\ Served(l) => Served(l)'
<1>1. Cur' = Cur /\ Cur \in Kinds
  BY SameStage, RoundTable DEF Grows
<1>2. \A p : Got(l, p) => Got(l, p)'
  BY <1>1 DEF Got, Grows
<1> QED
  BY <1>2 DEF Served, Grows

\* The pipe stays, what it holds stays.
LEMMA SamePipe ==
  ASSUME UNCHANGED <<log, got, que2, inbox, handler, frame>>
  PROVE  /\ Grows
         /\ LogInv => LogInv'
         /\ PipeInv => PipeInv'
         /\ GotInv => GotInv'
<1>1. Stage' = Stage /\ Cmd' = Cmd /\ Cur' = Cur /\ (LogInv => LogInv')
  BY SameLog, SameStage
<1>2. \A l \in Lcds : Settled(l)' = Settled(l)
  BY <1>1 DEF Settled, Busy, Kind
<1>3. Full' = Full
  BY <1>1, <1>2 DEF Full
<1>4. PipeInv => PipeInv'
  BY <1>1, <1>2 DEF PipeInv, Recent, RecentKind, Busy, Kind
<1>5. GotInv => GotInv'
  BY <1>1 DEF GotInv
<1> QED
  BY <1>1, <1>2, <1>3, <1>4, <1>5 DEF Grows

LEMMA SameTracks ==
  ASSUME IInv, LogInv, TrackInv, HandsInv, Grows, UNCHANGED <<trackVars, handlerVars>>
  PROVE  TrackInv' /\ HandsInv'
<1>0. CASE Stage < 2
  BY <1>0 DEF Grows, TrackInv, HandsInv, LogInv
<1>1. CASE Stage >= 2
  <2>1. Stage \in 2..6
    BY <1>1 DEF LogInv
  <2>2. Stage' = Stage /\ Cur' = Cur /\ CurTr' = CurTr
    BY SameStage DEF Grows
  <2>3. \A l \in Lcds : /\ \A p : Got(l, p) => Got(l, p)'
                        /\ Served(l) => Served(l)'
    BY <2>1, Grown
  <2>4. \A l \in Lcds : Works(l)' => Works(l)
    BY <2>2 DEF Works, Busy, Kind, handlerVars
  <2>5. Live' => Live
    BY <2>2, <2>4 DEF Live, handlerVars, trackVars
  <2>6. TrackInv'
    <3>1. ASSUME Live', NEW l \in Lcds, NEW p \in recvPcs'[CurTr'][l]
          PROVE  Got(l, p)'
      BY <2>1, <2>2, <2>3, <2>5, <3>1 DEF TrackInv, trackVars
    <3>2. ASSUME Live' \/ \E m \in Lcds : Works(m)' /\ handler'[m] = "zeropcs",
                 NEW l \in recvLcd'[CurTr']
          PROVE  Served(l)'
      <4>1. l \in Lcds
        BY <2>1, <2>2, <3>2, RoundTable DEF trackVars, IInv, TypeOK
      <4> QED
        BY <2>1, <2>2, <2>3, <2>4, <2>5, <3>2, <4>1 DEF TrackInv, trackVars, handlerVars
    <3> QED
      BY <3>1, <3>2 DEF TrackInv
  <2>7. HandsInv'
    <3> SUFFICES ASSUME NEW l \in Lcds, Works(l)'
                 PROVE  /\ Got(l, frame[l][2])'
                        /\ handler[l] \in {"store", "firststore"} => \A p \in tmp[l] : Got(l, p)'
                        /\ handler[l] = "storelcd" => \A m \in tmp[l] : Served(m)'
                        /\ handler[l] \in {"loadlcd", "storelcd"} => Served(l)'
                        /\ handler[l] \in Ended => Full'
                        /\ handler[l] \notin Unarmed /\ Cur \in {"on", "off"} =>
                             armed["onoff"] = Cur
      BY <2>2 DEF HandsInv, handlerVars, trackVars
    <3>1. /\ Got(l, frame[l][2])
          /\ handler[l] \in {"store", "firststore"} => \A p \in tmp[l] : Got(l, p)
          /\ handler[l] = "storelcd" => \A m \in tmp[l] : Served(m)
          /\ handler[l] \in {"loadlcd", "storelcd"} => Served(l)
          /\ handler[l] \in Ended => Full
          /\ handler[l] \notin Unarmed /\ Cur \in {"on", "off"} => armed["onoff"] = Cur
      BY <1>1, <2>4 DEF HandsInv
    <3>2. handler[l] = "storelcd" => tmp[l] \subseteq Lcds
      BY DEF IInv, HandlerInv
    <3> QED
      BY <2>3, <3>1, <3>2 DEF Grows, handlerVars
  <2> QED
    BY <2>6, <2>7
<1> QED
  BY <1>0, <1>1 DEF LogInv

\* What every step of a send thread has in common, but for taking a frame.
Moves(l) ==
  /\ Busy(l)
  /\ UNCHANGED <<log, got, que2, inbox>>
  /\ \A m \in Lcds \ {l} : /\ handler'[m] = handler[m] /\ frame'[m] = frame[m]
                           /\ tmp'[m] = tmp[m]
  /\ handler'[l] = "idle" \/ frame'[l] = frame[l]

LEMMA MovesPipe ==
  ASSUME NEW l \in Lcds, Moves(l), LogInv, PipeInv, GotInv
  PROVE  Grows /\ LogInv' /\ PipeInv' /\ GotInv'
<1>1. Stage' = Stage /\ Cmd' = Cmd /\ Cur' = Cur /\ LogInv'
  BY SameLog, SameStage DEF Moves
<1>2. \A m \in Lcds : Busy(m)' => Busy(m) /\ Kind(m)' = Kind(m)
  BY DEF Moves, Busy, Kind
<1>3. \A m \in Lcds : Settled(m) => Settled(m)'
  BY <1>1, <1>2 DEF Settled, Moves
<1>4. Full => Full'
  BY <1>1, <1>3 DEF Full, Moves
<1>5. PipeInv'
  BY <1>1, <1>2, <1>3 DEF PipeInv, Recent, RecentKind, Moves
<1>6. GotInv'
  BY <1>1 DEF GotInv, Moves
<1> QED
  BY <1>1, <1>3, <1>4, <1>5, <1>6 DEF Grows, Moves

-----------------------------------------------------------------------------
(* The reader.  It moves the status twice in a session: to the setting,    *)
(* before anything is issued, and to the first start command.              *)

\* What no step that leaves the frames and the collections alone can disturb.
LEMMA OtherParts ==
  ASSUME RInv, IInv, UNCHANGED <<log, got, que2, handlerVars, trackVars, lcdVars>>
  PROVE  /\ LogInv' /\ PipeInv' /\ GotInv' /\ TrackInv' /\ HandsInv' /\ PlaceInv'
         /\ FreshInv' /\ CmdInv'
         /\ Stage' = Stage /\ Cmd' = Cmd
         /\ Full => Full'
<1>1. UNCHANGED <<log, got, que2, inbox, handler, frame>>
  BY DEF handlerVars, lcdVars
<1>2. Grows /\ LogInv' /\ PipeInv' /\ GotInv'
  BY <1>1, SamePipe DEF RInv
<1>3. TrackInv' /\ HandsInv'
  BY <1>2, SameTracks DEF RInv
<1>4. Stage' = Stage /\ Cmd' = Cmd
  BY SameLog, SameStage
<1>5. PlaceInv' /\ FreshInv' /\ CmdInv'
  BY <1>1, <1>4 DEF RInv, PlaceInv, FreshInv, CmdInv, Kind, Busy, trackVars, lcdVars
<1> QED
  BY <1>2, <1>3, <1>4, <1>5 DEF Grows

LEMMA ReaderRounds == ASSUME IInv, RInv, Reader PROVE RInv'
<1> USE DEF RInv
<1>0. Numbers /\ Commands = {2, 3, 4, 7, 8}
  BY StatusNumbers
<1>1. UNCHANGED <<writer, loaded, que2, sem2, handlerVars, trackVars, lcdVars, emuVars,
                  histVars,
                  g_lcd_status_end>>
  BY DEF Reader, Attach, Wake, Drain, CountSetsLast, TelemetryTestsIdle,
         TelemetryStarts, DrainNext, shmVars, statusVars
<1>2. UNCHANGED <<log, got, configured, reports, handler, frame, armed, inbox>>
  BY <1>1 DEF histVars, emuVars, handlerVars, trackVars, lcdVars
<1>3. /\ LogInv' /\ PipeInv' /\ GotInv' /\ TrackInv' /\ HandsInv' /\ PlaceInv'
      /\ FreshInv' /\ CmdInv' /\ Stage' = Stage /\ Cmd' = Cmd /\ (Full => Full')
  BY <1>1, <1>2, OtherParts
<1>4. StartInv'
  <2> USE <1>0 DEF Numbers, COMM
  <2>0. Stage \in 0..6
    BY DEF LogInv
  <2>1. CASE Attach
    BY <2>1, <2>0, <1>1, <1>2, <1>3 DEF Attach, StartInv, shmVars, statusVars, Busy
  <2>2. CASE Wake
    BY <2>2, <2>0, <1>1, <1>2, <1>3 DEF Wake, StartInv, statusVars, Busy
  <2>3. CASE Drain
    <3>1. CASE que1 = <<>>
      BY <2>3, <3>1, <2>0, <1>1, <1>2, <1>3 DEF Drain, StartInv, Busy
    <3>2. CASE que1 = <<"count">>
      BY <2>3, <3>2, <2>0, <1>1, <1>2, <1>3 DEF Drain, StartInv, Busy
    <3>3. CASE que1 = <<"telemetry">>
      BY <2>3, <3>3, <2>0, <1>1, <1>2, <1>3 DEF Drain, StartInv, Busy
    <3> QED
      BY <3>1, <3>2, <3>3 DEF StartInv
  <2>4. CASE CountSetsLast
    BY <2>4, <2>0, <1>1, <1>2, <1>3 DEF CountSetsLast, StartInv, shmVars, Busy
  <2>5. CASE TelemetryTestsIdle
    BY <2>5, <2>0, <1>1, <1>2, <1>3 DEF TelemetryTestsIdle, StartInv, shmVars,
       statusVars, Busy
  <2>6. CASE TelemetryStarts
    <3>1. /\ reader = "setstart" /\ g_sys_status' = 3 /\ reader' = "next"
          /\ UNCHANGED que1
      BY <2>6 DEF TelemetryStarts, shmVars
    <3>2. Stage = 1 /\ que1 = <<"telemetry">> /\ g_sys_status = 1 /\ ~configured
      BY <3>1, <2>0 DEF StartInv
    <3>3. que2 = <<>> /\ writer \notin Storing
      BY <3>2 DEF StartInv
    <3> QED
      BY <3>1, <3>2, <3>3, <2>0, <1>1, <1>2, <1>3 DEF StartInv, Busy
  <2>7. CASE DrainNext
    <3>1. que1' = <<>>
      BY <2>7 DEF DrainNext, StartInv, IInv, ReaderInv
    <3> QED
      BY <2>7, <3>1, <2>0, <1>1, <1>2, <1>3 DEF DrainNext, StartInv, statusVars, Busy
  <2> QED
    BY <2>1, <2>2, <2>3, <2>4, <2>5, <2>6, <2>7 DEF Reader
\* Where the reader moves the status, nothing else is going on.
<1>5. \/ UNCHANGED g_sys_status
      \/ Stage = 0 /\ g_sys_status' = Script[1]
      \/ Stage = 1 /\ g_sys_status' = Script[2]
  <2> USE <1>0 DEF Numbers, COMM
  <2>0. Stage \in 0..6
    BY DEF LogInv
  <2>1. CASE Drain /\ que1 = <<"count">>
    <3>1. g_sys_status = 0
      BY <2>1 DEF StartInv, Drain
    <3> QED
      BY <2>1, <3>1, ScriptRounds DEF Drain, StartInv
  <2>2. CASE Drain /\ que1 # <<"count">>
    BY <2>2 DEF Drain, StartInv
  <2>3. CASE TelemetryStarts
    BY <2>3, <2>0, ScriptRounds DEF TelemetryStarts, StartInv
  <2> QED
    BY <2>1, <2>2, <2>3 DEF Reader, Attach, Wake, CountSetsLast, TelemetryTestsIdle,
       DrainNext, statusVars
<1>6. StatusInv'
  BY <1>3, <1>5 DEF StatusInv, NextDue
<1>7. ArmInv' /\ EndInv'
  BY <1>0, <1>1, <1>2, <1>3, <1>5, ScriptRounds DEF ArmInv, EndInv, Kind, Numbers
<1> QED
  BY <1>3, <1>4, <1>6, <1>7

-----------------------------------------------------------------------------
(* The writer.  Its stores only take a command back; Put goes on a round.  *)

LEMMA WriterRounds ==
  ASSUME IInv, RInv, WriterGate \/ WriterTest \/ Post \/ WriterLoads
         \/ WriterSetsLast \/ WriterSetsIdel
  PROVE  RInv'
<1> USE DEF RInv
<1>0. Numbers /\ Commands = {2, 3, 4, 7, 8}
  BY StatusNumbers
<1>1. UNCHANGED <<reader, que1, sem1, que2, handlerVars, trackVars, lcdVars, emuVars,
                  histVars, g_lcd_status_end>>
  BY DEF WriterGate, WriterTest, Post, WriterLoads,
     WriterSetsLast, WriterSetsIdel, shmVars, statusVars
<1>2. UNCHANGED <<log, got, configured, reports, handler, frame, armed, inbox>>
  BY <1>1 DEF histVars, emuVars, handlerVars, trackVars, lcdVars
<1>3. /\ LogInv' /\ PipeInv' /\ GotInv' /\ TrackInv' /\ HandsInv' /\ PlaceInv'
      /\ FreshInv' /\ CmdInv' /\ Stage' = Stage /\ Cmd' = Cmd /\ (Full => Full')
  BY <1>1, <1>2, OtherParts
<1>4. /\ \/ UNCHANGED g_sys_status
         \/ g_sys_status' = 1 /\ writer = "setidel" /\ writer' = "loop"
      /\ writer' \in Storing <=> writer \in {"post", "loadlast", "setlast"}
      /\ writer = "setidel" => g_sys_status' = 1
  BY <1>0 DEF WriterGate, WriterTest, Post, WriterLoads,
     WriterSetsLast, WriterSetsIdel, statusVars,
     Numbers, Storing
<1>5. StartInv'
  <2>0. Stage \in 0..6
    BY DEF LogInv
  <2>1. CASE UNCHANGED g_sys_status
    BY <2>0, <2>1, <1>0, <1>1, <1>2, <1>3, <1>4
       DEF StartInv, Busy, Storing, Numbers, COMM
  <2>2. CASE g_sys_status' = 1 /\ writer = "setidel" /\ writer' = "loop"
    <3>1. /\ Stage >= 1 /\ (Stage = 1 => g_sys_status = 2) /\ writer' \notin Storing
      BY <2>0, <2>2, <1>0 DEF StartInv, Storing, Numbers, COMM
    <3>2. g_sys_status # 0
      BY <2>0, <3>1, <1>0 DEF StartInv, Numbers
    <3> QED
      BY <2>0, <2>2, <3>1, <3>2, <1>0, <1>1, <1>2, <1>3
         DEF StartInv, Busy, Numbers, COMM
  <2> QED
    BY <2>1, <2>2, <1>4
<1>6. StatusInv' /\ ArmInv' /\ EndInv'
  BY <1>0, <1>1, <1>2, <1>3, <1>4
     DEF StatusInv, NextDue, ArmInv, EndInv, Kind, Numbers
<1> QED
  BY <1>3, <1>5, <1>6

\* What Put issues: the command of this round again or, when the round is over,
\* that of the next one.  Nothing has received a frame of the next round.
LEMMA PutIssues ==
  ASSUME IInv, RInv, Put
  PROVE  \E s \in {Stage, Stage + 1} :
           /\ s \in 1..6 /\ g_sys_status = Script[s]
           /\ s = Stage => Stage >= 2
           /\ s # Stage /\ Stage >= 2 => Full
           /\ log' = Append(log, Script[s]) /\ got' = got
           /\ s = 1 => log = <<>>
<1> USE DEF RInv
<1>0. Numbers /\ Commands = {2, 3, 4, 7, 8}
  BY StatusNumbers
<1>1. writer = "put" /\ Stage \in 0..6 /\ log \in Seq(Commands)
      /\ got \in [Kinds -> SUBSET AllPcs]
  BY DEF Put, LogInv, IInv, TypeOK
<1>2. g_sys_status \in Commands
  BY <1>1 DEF IInv, WriterInv
<1>3. Stage = 0 => g_sys_status = 2
  BY <1>0, <1>1, <1>2 DEF StartInv, Numbers, COMM
<1>4. Stage >= 1 => g_sys_status # 2
  BY <1>0, <1>1 DEF StartInv, Numbers, COMM, Storing
<1>5. PICK s \in {Stage, Stage + 1} :
           /\ s \in 1..6 /\ g_sys_status = Script[s]
           /\ s = Stage => Stage >= 2
           /\ s # Stage /\ Stage >= 2 => Full
  <2>1. CASE Stage = 0
    BY <2>1, <1>3, ScriptRounds
  <2>2. CASE Stage >= 1 /\ g_sys_status = Cmd
    BY <2>2, <1>1, <1>4, ScriptRounds DEF Cmd
  <2>3. CASE NextDue
    BY <2>3, <1>1 DEF NextDue
  <2> QED
    BY <1>1, <1>2, <2>1, <2>2, <2>3 DEF StatusInv
<1>6. s = 1 => log = <<>>
  <2>1. s = 1 => Stage = 0
    BY <1>1, <1>5
  <2>2. log # <<>> => Len(log) \in 1..Len(log)
    BY <1>1
  <2> QED
    BY <2>1, <2>2 DEF LogInv, Stage
<1>7. log' = Append(log, Script[s])
  <2>1. CASE s = 1
    <3>1. log' = <<Script[s]>> /\ log = <<>>
      BY <2>1, <1>0, <1>5, <1>6, ScriptRounds DEF Put, Numbers
    <3> QED
      BY <3>1
  <2>2. CASE s # 1
    BY <2>2, <1>0, <1>1, <1>5, ScriptRounds DEF Put, Numbers
  <2> QED
    BY <2>1, <2>2
<1>8. got' = got
  <2>1. CASE s = 1
    BY <2>1, <1>0, <1>5, ScriptRounds DEF Put, Numbers
  <2>2. CASE s \in {Stage, 6} /\ s # 1
    <3>1. Issued(Script[s])
      <4>1. s \in 1..Stage \/ (s = 6 /\ Stage = 5)
        BY <2>2, <1>1, <1>5
      <4>2. Script[6] = Script[2]
        BY ScriptRounds
      <4> QED
        BY <4>1, <4>2 DEF LogInv
    <3> QED
      BY <2>2, <3>1, <1>0, <1>1, <1>5, ScriptRounds DEF Put, Numbers
  <2>3. CASE s \in 2..5
    <3>1. s # Stage => got[KindSent(Script[s])] = {} /\ KindSent(Script[s]) \in Kinds
      <4>1. s # Stage => Stage < s
        BY <2>3, <1>1, <1>5
      <4>2. KindSent(Script[s]) \in Kinds
        BY <2>3, ScriptRounds, KindRounds DEF Kinds
      <4> QED
        BY <2>3, <4>1, <4>2 DEF GotInv
    <3>2. CASE s # Stage
      <4>1. got' = got \/ got' = [got EXCEPT ![KindSent(Script[s])] = {}]
        BY <1>5 DEF Put
      <4> QED
        BY <3>1, <3>2, <4>1, <1>1
    <3> QED
      BY <2>2, <2>3, <3>2
  <2> QED
    BY <1>5, <2>1, <2>2, <2>3
<1> QED
  BY <1>5, <1>6, <1>7, <1>8

\* The command of this round once more: the frames it brings are of this round.
LEMMA PutAgain ==
  ASSUME IInv, RInv, Stage' = Stage, Stage >= 2, got' = got,
         que2' = Append(que2, Cmd), UNCHANGED <<handlerVars, trackVars, lcdVars>>
  PROVE  PipeInv' /\ TrackInv' /\ HandsInv' /\ GotInv' /\ (Full => Full')
<1> USE DEF RInv
<1>1. Cmd' = Cmd /\ Cur' = Cur
  BY SameStage
<1>2. /\ que2 \in Seq(Commands) /\ Len(que2) \in Nat /\ Len(que2') = Len(que2) + 1
      /\ \A i \in 1..Len(que2) : que2'[i] = que2[i]
      /\ que2'[Len(que2) + 1] = Cmd
  BY DEF IInv, TypeOK
<1>3. \A i \in 1..Len(que2') : i \in 1..Len(que2) \/ que2'[i] = Cmd
  BY <1>2
<1>4. UNCHANGED <<inbox, handler, frame>>
  BY DEF handlerVars, lcdVars
<1>5. (\A i \in 1..Len(que2) : que2[i] = Cmd) => \A i \in 1..Len(que2') : que2'[i] = Cmd
  BY <1>2, <1>3
<1>6. \A l \in Lcds : Settled(l) => Settled(l)'
  BY <1>1, <1>4, <1>5 DEF Settled, Busy, Kind
<1>7. Full => Full'
  BY <1>1, <1>5, <1>6 DEF Full
<1>8. PipeInv'
  <2>1. \A i \in 1..Len(que2') :
          Recent(que2[i])' /\ (que2'[i] = Cmd => \A j \in i..Len(que2') : que2'[j] = Cmd)
    <3> TAKE i \in 1..Len(que2')
    <3>1. CASE i \in 1..Len(que2)
      <4>1. Recent(que2[i]) /\ que2'[i] = que2[i]
            /\ (que2[i] = Cmd => \A j \in i..Len(que2) : que2[j] = Cmd)
        BY <3>1, <1>2 DEF PipeInv
      <4>2. Recent(que2[i])'
        BY <4>1, <1>1 DEF Recent
      <4> QED
        BY <3>1, <4>1, <4>2, <1>2, <1>3
    <3>2. CASE i = Len(que2) + 1
      BY <3>2, <1>1, <1>2 DEF Recent
    <3> QED
      BY <3>1, <3>2, <1>2
  <2>2. \A l \in Lcds : Busy(l)' => RecentKind(Kind(l))' /\ (Kind(l)' = Cur => Settled(l)')
    BY <1>1, <1>4, <1>6 DEF PipeInv, RecentKind, Busy, Kind
  <2>3. \A l \in Lcds : \A i \in 1..Len(inbox[l]) :
          /\ RecentKind(inbox[l][i][1])'
          /\ inbox[l][i][1] = Cur => /\ \A j \in i..Len(inbox[l]) : inbox[l][j][1] = Cur
                                     /\ \A j \in 1..Len(que2') : que2'[j] = Cmd
    BY <1>1, <1>4, <1>5 DEF PipeInv, RecentKind
  <2> QED
    BY <1>1, <1>4, <2>1, <2>2, <2>3 DEF PipeInv
<1>9. Grows
  BY <1>6, <1>7 DEF Grows
<1>10. TrackInv' /\ HandsInv'
  BY <1>9, SameTracks
<1>11. GotInv'
  BY DEF GotInv
<1> QED
  BY <1>7, <1>8, <1>10, <1>11

\* The command of the next round: what is under way is of the round that is over,
\* and nothing has been counted for the new one.
LEMMA PutNext ==
  ASSUME IInv, RInv, NEW s \in 2..6, s = Stage + 1, Stage' = s, Stage >= 2 => Full,
         que2' = Append(que2, Script[s]), got' = got, g_sys_status = Script[s],
         UNCHANGED <<handlerVars, trackVars, lcdVars>>
  PROVE  /\ PipeInv' /\ TrackInv' /\ HandsInv' /\ GotInv'
         /\ \A l \in Lcds : Busy(l) => Stage >= 2 /\ Kind(l) = Cur
<1> USE DEF RInv
<1>1. Cmd' = Script[s] /\ Cur' = KindSent(Script[s])
  BY DEF Cmd, Cur
<1>2. /\ que2 \in Seq(Commands) /\ Len(que2) \in Nat /\ Len(que2') = Len(que2) + 1
      /\ \A i \in 1..Len(que2) : que2'[i] = que2[i]
      /\ que2'[Len(que2) + 1] = Script[s]
  BY DEF IInv, TypeOK
<1>3. UNCHANGED <<inbox, handler, frame, armed, recvPcs, recvLcd>>
  BY DEF handlerVars, lcdVars, trackVars
<1>4. s - 1 = Stage /\ Stage \in 1..5
  BY DEF LogInv
\* Everything under way is of the round that is over.
<1>5. /\ \A i \in 1..Len(que2) : Stage >= 2 /\ que2[i] = Cmd
      /\ \A l \in Lcds : Busy(l) => Stage >= 2 /\ Kind(l) = Cur
      /\ \A l \in Lcds : \A i \in 1..Len(inbox[l]) : Stage >= 2 /\ inbox[l][i][1] = Cur
  <2>1. CASE Stage >= 2
    BY <2>1 DEF Full, Settled
  <2>2. CASE Stage = 1
    <3>1. g_sys_status = EMS_START_EMU
      BY <2>2, ScriptRounds, StatusNumbers DEF Numbers
    <3>2. que2 = <<>> /\ \A l \in Lcds : ~Busy(l) /\ inbox[l] = <<>>
      BY <2>2, <3>1 DEF StartInv
    <3> QED
      BY <3>2
  <2> QED
    BY <1>4, <2>1, <2>2
\* The new round is another one.
<1>6. Stage >= 2 => /\ Script[s] # Cmd /\ KindSent(Script[s]) # Cur
                    /\ s >= 3 /\ Cmd = Script[s - 1] /\ Cur = KindSent(Script[s - 1])
  <2>1. CASE Stage = 1
    BY <2>1
  <2>2. CASE Stage = 2
    BY <2>2, ScriptRounds, KindRounds, RoundTable DEF Cmd, Cur
  <2>3. CASE Stage = 3
    BY <2>3, ScriptRounds, KindRounds, RoundTable DEF Cmd, Cur
  <2>4. CASE Stage = 4
    BY <2>4, ScriptRounds, KindRounds, RoundTable DEF Cmd, Cur
  <2>5. CASE Stage = 5
    BY <2>5, ScriptRounds, KindRounds, RoundTable DEF Cmd, Cur
  <2> QED
    BY <1>4, <2>1, <2>2, <2>3, <2>4, <2>5
<1>7. \A l \in Lcds : ~Works(l)'
  BY <1>1, <1>3, <1>5, <1>6 DEF Works, Busy, Kind
<1>8. PipeInv'
  <2>1. \A i \in 1..Len(que2') :
          /\ Recent(que2[i])'
          /\ que2'[i] = Script[s] => \A j \in i..Len(que2') : que2'[j] = Script[s]
    <3> TAKE i \in 1..Len(que2')
    <3>1. CASE i \in 1..Len(que2)
      <4>1. Stage >= 2 /\ que2'[i] = Cmd
        BY <3>1, <1>2, <1>5
      <4>2. Recent(que2[i])' /\ que2'[i] # Script[s]
        BY <4>1, <1>6 DEF Recent
      <4> QED
        BY <4>2
    <3>2. CASE i = Len(que2) + 1
      BY <3>2, <1>1, <1>2 DEF Recent
    <3> QED
      BY <3>1, <3>2, <1>2
  <2>2. \A l \in Lcds : Busy(l)' => RecentKind(Kind(l))' /\ Kind(l)' # Cur'
    BY <1>1, <1>3, <1>5, <1>6 DEF RecentKind, Busy, Kind
  <2>3. \A l \in Lcds : \A i \in 1..Len(inbox[l]) :
          RecentKind(inbox[l][i][1])' /\ inbox[l][i][1] # Cur'
    BY <1>1, <1>3, <1>5, <1>6 DEF RecentKind
  <2> QED
    BY <1>1, <1>3, <2>1, <2>2, <2>3 DEF PipeInv
<1>9. TrackInv'
  <2>0. (Stage \in 2..6)'
    OBVIOUS
  <2>1. CASE s \in {3, 5}
    <3>0. /\ CurTr' = IF s = 3 THEN "qw" ELSE "pw"
          /\ s = 3 => Stage < 3
          /\ s = 5 => Stage < 5
      BY <2>1, <1>1, <1>4, ScriptRounds, KindRounds DEF CurTr
    <3>1. recvLcd'[CurTr'] = {} /\ \A l \in Lcds : recvPcs'[CurTr'][l] = {}
      BY <2>1, <1>3, <3>0 DEF FreshInv
    <3> QED
      BY <3>1 DEF TrackInv
  <2>2. CASE s \in {2, 4, 6}
    <3>1. Cur' \notin {"pw", "qw"} /\ armed'["onoff"] # Cur'
      BY <2>2, <1>1, <1>3, <1>4, ScriptRounds, KindRounds DEF ArmInv
    <3>2. ~Live'
      BY <3>1, <1>7 DEF Live
    <3> QED
      BY <3>2, <1>7 DEF TrackInv
  <2> QED
    BY <2>1, <2>2
<1>10. HandsInv'
  BY <1>7 DEF HandsInv
<1>11. GotInv'
  <2> SUFFICES ASSUME NEW r \in 2..5
               PROVE  /\ s < r => got[KindSent(Script[r])] = {}
                      /\ s > r => got[KindSent(Script[r])] = AllPcs
    BY DEF GotInv
  <2>0. /\ Stage < r => got[KindSent(Script[r])] = {}
        /\ Stage > r => got[KindSent(Script[r])] = AllPcs
    BY DEF GotInv
  <2>1. s < r => got[KindSent(Script[r])] = {}
    BY <1>4, <2>0
  <2>2. s > r => got[KindSent(Script[r])] = AllPcs
    <3>1. CASE r < Stage
      BY <3>1, <1>4, <2>0
    <3>2. CASE r = Stage
      BY <3>2 DEF Full, Cur, Cmd
    <3> QED
      BY <3>1, <3>2, <1>4
  <2> QED
    BY <2>1, <2>2
<1> QED
  BY <1>5, <1>8, <1>9, <1>10, <1>11

LEMMA PutRounds == ASSUME IInv, RInv, Put PROVE RInv'
<1> USE DEF RInv
<1>0. Numbers /\ Commands = {2, 3, 4, 7, 8}
  BY StatusNumbers
<1>1. /\ writer' = "post" /\ que2' = Append(que2, g_sys_status)
      /\ UNCHANGED <<reader, que1, sem1, sem2, statusVars, handlerVars, trackVars,
                     lcdVars, emuVars>>
      /\ writer = "put"
  BY DEF Put
<1>2. UNCHANGED <<g_sys_status, g_lcd_status_end, configured, reports, handler, frame,
                  armed, recvPcs, recvLcd, inbox, cmd_start_pcs>>
  BY <1>1 DEF statusVars, emuVars, handlerVars, trackVars, lcdVars
<1>3. PICK s \in {Stage, Stage + 1} :
           /\ s \in 1..6 /\ g_sys_status = Script[s]
           /\ s = Stage => Stage >= 2
           /\ s # Stage /\ Stage >= 2 => Full
           /\ log' = Append(log, Script[s]) /\ got' = got
           /\ s = 1 => log = <<>>
  BY PutIssues
<1>4. Stage \in 0..6 /\ log \in Seq(Commands)
  BY DEF LogInv, IInv, TypeOK
<1>5. LogInv' /\ Stage' = s /\ Cmd' = Script[s]
  BY <1>3, <1>4, LogGrows
<1>6. /\ PipeInv' /\ TrackInv' /\ HandsInv' /\ GotInv'
      /\ s # Stage => \A l \in Lcds : Busy(l) => Stage >= 2 /\ Kind(l) = Cur
  <2>1. CASE s = Stage
    <3>1. Script[s] = Cmd /\ Stage' = Stage /\ Stage >= 2
      BY <2>1, <1>3, <1>5 DEF Cmd
    <3> QED
      BY <2>1, <3>1, <1>1, <1>3, PutAgain
  <2>2. CASE s = Stage + 1 /\ s # 1
    <3>1. s \in 2..6
      BY <2>2, <1>3
    <3> QED
      BY <2>2, <3>1, <1>1, <1>3, <1>4, <1>5, PutNext
  <2>3. CASE s = 1 /\ Stage = 0
    <3>1. \A l \in Lcds : ~Busy(l)
      BY <2>3 DEF StartInv
    <3> QED
      BY <2>3, <3>1, <1>3, <1>5 DEF PipeInv, TrackInv, HandsInv, GotInv
  <2> QED
    BY <1>3, <1>4, <2>1, <2>2, <2>3
<1>7. StatusInv'
  BY <1>2, <1>3, <1>5 DEF StatusInv
<1>8. PlaceInv'
  <2>1. \A l \in Lcds : handler[l] = "setstatus" /\ Kind(l) = "on" => s < 5
    <3> SUFFICES ASSUME NEW l \in Lcds, handler[l] = "setstatus", Kind(l) = "on", s >= 5
                 PROVE  FALSE
      BY <1>3, <1>4
    <3>1. Stage < 5
      BY DEF PlaceInv
    <3>2. Stage = 4 /\ s # Stage
      BY <3>1, <1>3, <1>4
    <3>3. Kind(l) = Cur
      BY <3>2, <1>6 DEF Busy
    <3> QED
      BY <3>2, <3>3, RoundTable
  <2> QED
    BY <2>1, <1>2, <1>5 DEF PlaceInv, Kind
<1>9. ArmInv'
  <2>1. s = 5 => g_sys_status = ADJUST_EMU_PW
    BY <1>0, <1>3, ScriptRounds DEF Numbers
  <2> QED
    BY <2>1, <1>2, <1>3, <1>4, <1>5 DEF ArmInv
<1>10. FreshInv'
  BY <1>2, <1>3, <1>4, <1>5 DEF FreshInv
<1>11. EndInv'
  <2>1. s = 5 => g_sys_status # EMS_START_EMU
    BY <1>0, <1>3, ScriptRounds DEF Numbers
  <2>2. s = 6 => g_sys_status = EMS_START_EMU
    BY <1>0, <1>3, ScriptRounds DEF Numbers
  <2> QED
    BY <2>1, <2>2, <1>2, <1>3, <1>4, <1>5 DEF EndInv, Kind
<1>12. CmdInv'
  <2>1. (s <= 3 => Stage <= 3) /\ (s <= 5 => Stage <= 5)
    BY <1>3, <1>4
  <2> QED
    BY <2>1, <1>2, <1>3, <1>5 DEF CmdInv, Busy
<1>13. StartInv'
  <2> USE <1>0 DEF Numbers, COMM
  <2>1. CASE s = 1
    <3>1. Stage = 0 /\ g_sys_status = 2 /\ que2 = <<>> /\ que2' = << 2 >>
      <4>1. Stage = 0 /\ g_sys_status = 2
        BY <2>1, <1>3, <1>4, ScriptRounds
      <4>2. que2 = <<>>
        BY <4>1 DEF StartInv
      <4> QED
        BY <4>1, <4>2, <1>1
    <3>2. writer' \in Storing
      BY <1>1 DEF Storing
    <3> QED
      BY <2>1, <3>1, <3>2, <1>1, <1>2, <1>5 DEF StartInv, Busy
  <2>2. CASE s # 1
    <3>1. s >= 2 /\ g_sys_status # 2 /\ g_sys_status # 0 /\ Stage >= 1
      BY <2>2, <1>3, <1>4, ScriptRounds
    <3>2. que2' # << 2 >>
      <4>1. que2 \in Seq(Commands) /\ que2'[Len(que2')] = g_sys_status
        BY <1>1, <1>3 DEF IInv, TypeOK
      <4>2. \A q : q = << 2 >> => q[Len(q)] = 2
        OBVIOUS
      <4> QED
        BY <3>1, <4>1, <4>2
    <3>3. Stage = 1 => g_sys_status = 3
      BY <2>2, <1>3, ScriptRounds
    <3>4. ~configured /\ (que1 = <<>> \/ reader = "next")
      BY <3>1, <3>3, <1>4 DEF StartInv
    <3>5. /\ UNCHANGED <<que1, reader, g_sys_status, reports, configured>>
          /\ Stage' >= 1
          /\ Stage' >= 2 /\ ~(Stage' <= 1) /\ Stage' # 0 /\ Stage' # 1
      BY <3>1, <1>1, <1>2, <1>3, <1>5
    <3> QED
      BY <3>1, <3>2, <3>4, <3>5 DEF StartInv
  <2> QED
    BY <2>1, <2>2
<1> QED
  BY <1>5, <1>6, <1>7, <1>8, <1>9, <1>10, <1>11, <1>12, <1>13

-----------------------------------------------------------------------------
(* The EMU.  In one session it reports once and sends one telemetry message. *)

LEMMA ReportRounds ==
  ASSUME OneSession, IInv, RInv, Report \/ Telemetry
  PROVE  RInv'
<1> USE DEF RInv
<1>0. Numbers
  BY StatusNumbers
<1>1. UNCHANGED <<emsVars, que2, sem2, statusVars, handlerVars, trackVars, lcdVars, histVars>>
  BY DEF Report, Telemetry
<1>2. UNCHANGED <<log, got, reader, writer, que2, g_sys_status, g_lcd_status_end, handler,
                  frame, armed, inbox>>
  BY <1>1 DEF emsVars, statusVars, histVars, handlerVars, trackVars, lcdVars
<1>3. /\ LogInv' /\ PipeInv' /\ GotInv' /\ TrackInv' /\ HandsInv' /\ PlaceInv'
      /\ FreshInv' /\ CmdInv' /\ Stage' = Stage /\ Cmd' = Cmd /\ (Full => Full')
  BY <1>1, <1>2, OtherParts
<1>4. StatusInv' /\ ArmInv' /\ EndInv'
  BY <1>2, <1>3 DEF StatusInv, NextDue, ArmInv, EndInv, Kind
<1>5. StartInv'
  <2> USE <1>0 DEF Numbers, COMM
  <2>0. Stage \in 0..6
    BY DEF LogInv
  <2>1. CASE Report
    <3>1. reports = 0 /\ que1 = <<>> /\ que1' = <<"count">> /\ g_sys_status = 0
      <4>1. reports = 0
        BY <2>1, SequenceAssumption DEF Report, OneSession, IInv, TypeOK
      <4>2. que1 = <<>> /\ g_sys_status = 0
        BY <4>1 DEF StartInv
      <4> QED
        BY <2>1, <4>1, <4>2 DEF Report
    <3>2. reports' # 0 /\ ~configured' /\ reader \in {"attach", "dead", "wait"}
      BY <2>1, <3>1 DEF Report, Mutex1Free
    <3>3. Stage = 0
      BY <3>1 DEF StartInv
    <3> QED
      BY <3>1, <3>2, <3>3, <1>2, <1>3 DEF StartInv, Busy
  <2>2. CASE Telemetry
    <3>1. /\ configured /\ que1' = <<"telemetry">> /\ configured' = FALSE
          /\ UNCHANGED reports /\ que1 = <<>> /\ reader \in {"attach", "dead", "wait"}
      BY <2>2 DEF Telemetry, OneSession, Mutex1Free
    <3>2. Stage = 1 /\ que2 = <<>> /\ g_sys_status \in {1, 2}
      BY <3>1 DEF StartInv
    <3>3. reports # 0
      BY <3>2 DEF StartInv
    <3> QED
      BY <3>1, <3>2, <3>3, <1>2, <1>3 DEF StartInv, Busy
  <2> QED
    BY <2>1, <2>2
<1> QED
  BY <1>3, <1>4, <1>5

\* A command the EMU takes is the oldest of the pipe; its frames go to the end.
LEMMA ExecuteRounds == ASSUME IInv, RInv, Execute PROVE RInv'
<1> USE DEF RInv
<1>0. Numbers /\ Commands = {2, 3, 4, 7, 8}
  BY StatusNumbers
<1>1. /\ UNCHANGED <<emsVars, que1, statusVars, handlerVars, trackVars, cmd_start_pcs,
                     reports, histVars>>
      /\ que2 # <<>> /\ que2' = Tail(que2)
  BY DEF Execute
<1>2. UNCHANGED <<log, got, reader, writer, que1, g_sys_status, g_lcd_status_end, handler,
                  frame, armed, recvPcs, recvLcd, cmd_start_pcs>>
  BY <1>1 DEF emsVars, statusVars, histVars, handlerVars, trackVars
<1>3. Stage' = Stage /\ Cmd' = Cmd /\ Cur' = Cur /\ LogInv' /\ Stage \in 0..6
  BY <1>2, SameLog, SameStage DEF LogInv
<1>4. /\ que2 \in Seq(Commands) /\ Len(que2) >= 1 /\ Len(que2') = Len(que2) - 1
      /\ \A i \in 1..Len(que2') : i + 1 \in 1..Len(que2) /\ que2'[i] = que2[i + 1]
      /\ que2' \in Seq(Commands) /\ Head(que2) = que2[1] /\ 1 \in 1..Len(que2)
  <2>1. que2 \in Seq(Commands)
    BY DEF IInv, TypeOK
  <2> QED
    BY <2>1, <1>1
<1>5. PlaceInv' /\ ArmInv' /\ FreshInv' /\ EndInv' /\ CmdInv' /\ GotInv'
  BY <1>2, <1>3 DEF PlaceInv, ArmInv, FreshInv, EndInv, CmdInv, GotInv, Kind, Busy
<1>6. CASE Head(que2) = EMS_COMMUNICATION_STATUS_SETTING
  <2>1. configured' = TRUE /\ UNCHANGED inbox
    BY <1>6 DEF Execute
  <2>2. Stage = 1
    <3>1. CASE Stage = 0
      BY <3>1, <1>1 DEF StartInv
    <3>2. CASE Stage >= 2
      <4>1. Recent(2)
        BY <3>2, <1>0, <1>4, <1>6 DEF PipeInv, Numbers
      <4> QED
        BY <4>1, <3>2, <1>3, ScriptRounds DEF Recent, Cmd
    <3> QED
      BY <3>1, <3>2, <1>3
  <2>3. que2 = << 2 >> /\ que2' = <<>>
    BY <2>2, <1>0, <1>1, <1>4 DEF StartInv, COMM, Numbers
  <2>4. g_sys_status \in {1, 2} /\ que1 # <<"telemetry">>
    BY <2>2, <2>3, <1>0 DEF StartInv, COMM, Numbers
  <2>5. StartInv'
    BY <2>1, <2>2, <2>3, <2>4, <1>0, <1>1, <1>2, <1>3 DEF StartInv, COMM, Numbers, Busy
  <2>6. PipeInv' /\ TrackInv' /\ HandsInv'
    BY <2>2, <1>3 DEF PipeInv, TrackInv, HandsInv
  <2>7. StatusInv'
    BY <2>2, <1>2, <1>3 DEF StatusInv, NextDue
  <2> QED
    BY <1>3, <1>5, <2>5, <2>6, <2>7
<1>7. CASE Head(que2) # EMS_COMMUNICATION_STATUS_SETTING
  <2> DEFINE c == Head(que2)
             k == KindSent(c)
             Sent(m) == [p \in Need(m) |-> <<k, p>>]
  <2>1. Stage \in 2..6
    BY <1>0, <1>1, <1>3, <1>4, <1>7 DEF StartInv, COMM, Numbers
  <2>2. UNCHANGED configured /\ inbox' = [m \in Lcds |-> inbox[m] \o Sent(m)]
    BY <1>7 DEF Execute
  <2>3. Recent(c) /\ (c = Cmd => \A j \in 1..Len(que2) : que2[j] = Cmd)
    BY <2>1, <1>4 DEF PipeInv
  <2>4. RecentKind(k) /\ (c = Cmd <=> k = Cur)
    <3>1. RecentKind(k) /\ (c = Cmd => k = Cur)
      BY <2>3 DEF Recent, RecentKind, Cur
    <3>2. c # Cmd => k # Cur
      <4> SUFFICES ASSUME c # Cmd PROVE k # Cur
        OBVIOUS
      <4>1. Stage \in {3, 4, 5, 6} /\ c = Script[Stage - 1]
        BY <2>1, <2>3 DEF Recent
      <4> HIDE DEF c
      <4>2. CASE Stage = 3
        BY <4>1, <4>2, ScriptRounds, KindRounds, RoundTable
      <4>3. CASE Stage = 4
        BY <4>1, <4>3, ScriptRounds, KindRounds, RoundTable
      <4>4. CASE Stage = 5
        BY <4>1, <4>4, ScriptRounds, KindRounds, RoundTable
      <4>5. CASE Stage = 6
        BY <4>1, <4>5, ScriptRounds, KindRounds, RoundTable
      <4> QED
        BY <4>1, <4>2, <4>3, <4>4, <4>5
    <3> QED
      BY <3>1, <3>2
  <2> HIDE DEF c, k
  <2>5. ASSUME NEW m \in Lcds
        PROVE  /\ Len(inbox[m]) \in Nat /\ Len(inbox'[m]) >= Len(inbox[m])
               /\ \A i \in 1..Len(inbox[m]) : inbox'[m][i] = inbox[m][i]
               /\ \A i \in 1..Len(inbox'[m]) : i \notin 1..Len(inbox[m]) => inbox'[m][i][1] = k
    <3>1. PcsNum[m] \in Nat /\ Need(m) = 1..PcsNum[m] /\ inbox[m] \in Seq(FramesOf(m))
      BY SequenceAssumption DEF Need, IInv, HandlerInv
    <3>2. /\ Sent(m) \in Seq({k} \X Nat) /\ Len(Sent(m)) = PcsNum[m]
          /\ \A p \in 1..PcsNum[m] : Sent(m)[p][1] = k
      <4>1. \A p \in 1..PcsNum[m] : Sent(m)[p] = <<k, p>>
        BY <3>1
      <4>2. Sent(m) \in [1..PcsNum[m] -> {k} \X Nat]
        BY <3>1
      <4> HIDE DEF Sent
      <4> QED
        BY <4>1, <4>2, <3>1
    <3>3. inbox'[m] = inbox[m] \o Sent(m)
      BY <2>2
    <3> HIDE DEF Sent
    <3> QED
      BY <3>1, <3>2, <3>3
  <2>6. (\A j \in 1..Len(que2) : que2[j] = Cmd) => \A j \in 1..Len(que2') : que2'[j] = Cmd
    BY <1>4
  <2>7. \A m \in Lcds : Settled(m) => Settled(m)'
    <3> SUFFICES ASSUME NEW m \in Lcds, Settled(m) PROVE Settled(m)'
      OBVIOUS
    <3>1. \A j \in 1..Len(que2) : que2[j] = Cmd
      BY DEF Settled
    <3>2. k = Cur
      BY <3>1, <1>4, <2>4 DEF c
    <3>3. \A i \in 1..Len(inbox'[m]) : inbox'[m][i][1] = Cur
      BY <2>5, <3>2 DEF Settled
    <3> QED
      BY <3>1, <3>3, <2>6, <1>2, <1>3 DEF Settled, Busy, Kind
  <2>8. Full => Full'
    BY <2>6, <2>7, <1>2, <1>3 DEF Full
  <2>9. Grows
    BY <1>2, <1>3, <2>7, <2>8 DEF Grows
  <2>10. TrackInv' /\ HandsInv'
    BY <1>1, <2>9, SameTracks
  <2>11. PipeInv'
    <3>1. \A i \in 1..Len(que2') :
            /\ Recent(que2[i])'
            /\ que2'[i] = Cmd => \A j \in i..Len(que2') : que2'[j] = Cmd
      <4> TAKE i \in 1..Len(que2')
      <4>1. /\ i + 1 \in 1..Len(que2) /\ que2'[i] = que2[i + 1]
            /\ Recent(que2[i + 1])
            /\ que2[i + 1] = Cmd => \A j \in (i + 1)..Len(que2) : que2[j] = Cmd
        BY <1>4, <2>1 DEF PipeInv
      <4>2. Recent(que2[i])'
        BY <4>1, <1>3 DEF Recent
      <4>3. que2'[i] = Cmd => \A j \in i..Len(que2') : que2'[j] = Cmd
        BY <4>1, <1>4
      <4> QED
        BY <4>2, <4>3
    <3>2. \A m \in Lcds : Busy(m)' => RecentKind(Kind(m))' /\ (Kind(m)' = Cur => Settled(m)')
      BY <1>2, <1>3, <2>1, <2>7 DEF PipeInv, RecentKind, Busy, Kind
    <3>3. \A m \in Lcds : \A i \in 1..Len(inbox'[m]) :
            /\ RecentKind(inbox[m][i][1])'
            /\ inbox'[m][i][1] = Cur =>
                 /\ \A j \in i..Len(inbox'[m]) : inbox'[m][j][1] = Cur
                 /\ \A j \in 1..Len(que2') : que2'[j] = Cmd
      <4> TAKE m \in Lcds
      <4> TAKE i \in 1..Len(inbox'[m])
      <4>1. CASE i \in 1..Len(inbox[m])
        <5>1. /\ inbox'[m][i] = inbox[m][i] /\ RecentKind(inbox[m][i][1])
              /\ inbox[m][i][1] = Cur => /\ \A j \in i..Len(inbox[m]) : inbox[m][j][1] = Cur
                                         /\ \A j \in 1..Len(que2) : que2[j] = Cmd
          BY <4>1, <2>1, <2>5 DEF PipeInv
        <5>2. RecentKind(inbox[m][i][1])'
          BY <5>1, <1>3 DEF RecentKind
        <5>3. ASSUME inbox'[m][i][1] = Cur
              PROVE  /\ \A j \in i..Len(inbox'[m]) : inbox'[m][j][1] = Cur
                     /\ \A j \in 1..Len(que2') : que2'[j] = Cmd
          <6>1. k = Cur
            BY <5>1, <5>3, <1>4, <2>4 DEF c
          <6>2. ASSUME NEW j \in i..Len(inbox'[m]) PROVE inbox'[m][j][1] = Cur
            <7>1. CASE j \in 1..Len(inbox[m])
              BY <7>1, <5>1, <5>3, <2>5
            <7>2. CASE j \notin 1..Len(inbox[m])
              BY <7>2, <6>1, <2>5
            <7> QED
              BY <7>1, <7>2
          <6> QED
            BY <6>2, <5>1, <5>3, <2>6
        <5> QED
          BY <5>2, <5>3
      <4>2. CASE i \notin 1..Len(inbox[m])
        <5>1. inbox'[m][i][1] = k
          BY <4>2, <2>5
        <5>2. RecentKind(inbox[m][i][1])'
          BY <5>1, <1>3, <2>4 DEF RecentKind
        <5>3. \A j \in i..Len(inbox'[m]) : inbox'[m][j][1] = k
          BY <4>2, <2>5
        <5>4. k = Cur => \A j \in 1..Len(que2') : que2'[j] = Cmd
          BY <2>3, <2>4, <2>6
        <5> QED
          BY <5>1, <5>2, <5>3, <5>4
      <4> QED
        BY <4>1, <4>2
    <3> QED
      BY <1>3, <3>1, <3>2, <3>3 DEF PipeInv
  <2>12. StatusInv'
    BY <1>2, <1>3, <2>8 DEF StatusInv, NextDue
  <2>13. StartInv'
    <3>1. ~configured' /\ (que1 = <<>> \/ reader = "next")
      BY <2>1, <2>2 DEF StartInv
    <3>2. que2' # << 2 >>
      <4> SUFFICES ASSUME que2' = << 2 >> PROVE FALSE
        OBVIOUS
      <4>1. que2'[1] = 2 /\ 1 \in 1..Len(que2')
        OBVIOUS
      <4>2. Recent(2)
        BY <4>1, <1>4, <2>1 DEF PipeInv
      <4> QED
        BY <4>2, <2>1, ScriptRounds DEF Recent, Cmd
    <3> QED
      BY <2>1, <3>1, <3>2, <1>0, <1>1, <1>2, <1>3 DEF StartInv, COMM, Numbers
  <2> QED
    BY <1>3, <1>5, <2>10, <2>11, <2>12, <2>13
<1> QED
  BY <1>6, <1>7

-----------------------------------------------------------------------------
(* The send threads and the collection of this round.  A frame of the round *)
(* before belongs to another tracker; one of this round counts what every   *)
(* PCS really received, whatever the stores of the others did in between.   *)

\* What the send thread of l has in its hands after a step.
NextHand(l) ==
  /\ handler'[l] \in {"store", "firststore"} => \A p \in tmp'[l] : Got(l, p)
  /\ handler'[l] = "storelcd" => \A m \in tmp'[l] : Served(m)
  /\ handler'[l] \in {"loadlcd", "storelcd"} => Served(l)
  /\ handler'[l] \in Ended => Full
  /\ handler'[l] \notin Unarmed /\ Cur \in {"on", "off"} => armed'["onoff"] = Cur

LEMMA HandOf ==
  ASSUME IInv, RInv, NEW l \in Lcds, Busy(l)
  PROVE  /\ Stage \in 2..6 /\ RecentKind(Kind(l)) /\ Kind(l) \in Kinds
         /\ Tr(l) \in Trackers /\ CurTr \in Trackers /\ Cur \in Kinds
         /\ Kind(l) = Cur => Tr(l) = CurTr /\ Settled(l)
         /\ Kind(l) # Cur => Tr(l) # CurTr
         /\ frame[l] \in FramesOf(l) /\ frame[l][2] \in Need(l)
         /\ Cur \in {"on", "off"} <=> CurTr = "onoff"
         /\ Cur \in {"on", "off"} \/ Cur \in {"pw", "qw"}
         /\ Works(l) <=> Kind(l) = Cur
<1>1. Stage \in 2..6
  BY DEF RInv, LogInv, StartInv
<1>2. RecentKind(Kind(l)) /\ (Kind(l) = Cur => Settled(l))
  BY <1>1 DEF RInv, PipeInv
<1>3. /\ Kind(l) \in Kinds /\ CurTr \in Trackers /\ Cur \in Kinds
      /\ Kind(l) = Cur => Tr(l) = CurTr
      /\ Kind(l) # Cur => Tr(l) # CurTr
  BY <1>1, <1>2, RecentTable, RoundTable DEF Tr, CurTr
<1>4. Tr(l) \in Trackers
  BY <1>3, ScriptTables DEF Tr
<1>5. frame[l] \in FramesOf(l) /\ frame[l][2] \in Need(l)
  BY FramesOfLcd DEF IInv, HandlerInv, Busy
<1>6. Cur \in {"on", "off"} <=> CurTr = "onoff"
  BY <1>3, KindRounds DEF Kinds, CurTr
<1> QED
  BY <1>1, <1>2, <1>3, <1>4, <1>5, <1>6 DEF Works, Kinds

\* A step of the send thread of l that goes on to h or ends the frame.
LEMMA HandMoves ==
  ASSUME IInv, NEW l \in Lcds, Busy(l), NEW h, UNCHANGED <<log, got, que2, inbox>>,
         (Goto(l, h) /\ UNCHANGED frame) \/ Done(l),
         UNCHANGED tmp \/ \E x : tmp' = [tmp EXCEPT ![l] = x]
  PROVE  /\ Moves(l) /\ handler'[l] \in {h, "idle"}
         /\ Busy(l)' => handler'[l] = h /\ frame'[l] = frame[l] /\ Kind(l)' = Kind(l)
<1>1. \A m \in Lcds \ {l} : tmp'[m] = tmp[m]
  BY DEF IInv, TypeOK
<1>2. /\ \A m \in Lcds \ {l} : handler'[m] = handler[m] /\ frame'[m] = frame[m]
      /\ (handler'[l] = h /\ frame'[l] = frame[l]) \/ handler'[l] = "idle"
  BY DEF Goto, Done, IInv, TypeOK
<1> QED
  BY <1>1, <1>2 DEF Moves, Busy, Kind

LEMMA HandsNext ==
  ASSUME IInv, IInv', RInv, NEW l \in Lcds, Moves(l), Works(l)' => NextHand(l),
         Cur \in {"on", "off"} /\ armed["onoff"] = Cur => armed'["onoff"] = Cur
  PROVE  HandsInv'
<1>1. Grows
  BY MovesPipe DEF RInv
<1>2. Stage \in 2..6 /\ Stage' = Stage /\ Cur' = Cur
  BY <1>1, HandOf, SameStage DEF Grows, Moves
<1>3. \A m \in Lcds : /\ \A p : Got(m, p) => Got(m, p)'
                      /\ Served(m) => Served(m)'
  BY <1>1, <1>2, Grown
<1>4. \A m \in Lcds : Works(m)' => Works(m) /\ frame'[m] = frame[m]
  BY <1>2 DEF Moves, Works, Busy, Kind
<1>5. \A m \in Lcds \ {l} : handler'[m] = handler[m] /\ tmp'[m] = tmp[m]
  BY DEF Moves
<1>6. ASSUME NEW m \in Lcds, Works(m)'
      PROVE  /\ Got(m, frame[m][2]) /\ frame'[m] = frame[m]
             /\ handler'[m] \in {"store", "firststore"} => \A p \in tmp'[m] : Got(m, p)
             /\ handler'[m] = "storelcd" => \A n \in tmp'[m] : Served(n)
             /\ handler'[m] \in {"loadlcd", "storelcd"} => Served(m)
             /\ handler'[m] \in Ended => Full
             /\ handler'[m] \notin Unarmed /\ Cur \in {"on", "off"} =>
                  armed'["onoff"] = Cur
  <2>1. /\ Works(m) /\ frame'[m] = frame[m]
        /\ Got(m, frame[m][2])
        /\ handler[m] \in {"store", "firststore"} => \A p \in tmp[m] : Got(m, p)
        /\ handler[m] = "storelcd" => \A n \in tmp[m] : Served(n)
        /\ handler[m] \in {"loadlcd", "storelcd"} => Served(m)
        /\ handler[m] \in Ended => Full
        /\ handler[m] \notin Unarmed /\ Cur \in {"on", "off"} => armed["onoff"] = Cur
    BY <1>2, <1>4, <1>6 DEF RInv, HandsInv
  <2>2. CASE m = l
    BY <2>1, <2>2, <1>6 DEF NextHand
  <2>3. CASE m # l
    BY <2>1, <2>3, <1>5
  <2> QED
    BY <2>2, <2>3
<1>7. \A m \in Lcds : handler'[m] = "storelcd" => tmp'[m] \subseteq Lcds
  BY DEF IInv, HandlerInv
<1>8. ASSUME NEW m \in Lcds, Works(m)', handler'[m] = "storelcd", NEW n \in tmp'[m]
      PROVE  Served(n)'
  BY <1>3, <1>6, <1>7, <1>8
<1>9. ASSUME NEW m \in Lcds, Works(m)'
      PROVE  /\ Got(m, frame[m][2])'
             /\ handler'[m] \in {"store", "firststore"} => \A p \in tmp'[m] : Got(m, p)'
             /\ handler'[m] \in {"loadlcd", "storelcd"} => Served(m)'
             /\ handler'[m] \in Ended => Full'
             /\ handler'[m] \notin Unarmed /\ Cur' \in {"on", "off"} =>
                  armed'["onoff"] = Cur'
  BY <1>1, <1>2, <1>3, <1>6, <1>9 DEF Grows
<1> QED
  BY <1>8, <1>9 DEF HandsInv

LEMMA TracksNext ==
  ASSUME IInv, IInv', RInv, NEW l \in Lcds, Moves(l),
         Live' => \A m \in Lcds : \A p \in recvPcs'[CurTr][m] : Got(m, p),
         Live' \/ (\E m \in Lcds : Works(m)' /\ handler'[m] = "zeropcs") =>
           \A m \in recvLcd'[CurTr] : Served(m)
  PROVE  TrackInv'
<1>1. Grows
  BY MovesPipe DEF RInv
<1>2. Stage \in 2..6 /\ Stage' = Stage /\ Cur' = Cur /\ CurTr' = CurTr
      /\ CurTr \in Trackers
  BY <1>1, HandOf, SameStage DEF Grows, Moves
<1>3. \A m \in Lcds : /\ \A p : Got(m, p) => Got(m, p)'
                      /\ Served(m) => Served(m)'
  BY <1>1, <1>2, Grown
<1>4. recvLcd'[CurTr] \subseteq Lcds
  BY <1>2 DEF IInv, TypeOK
<1>5. Live' => \A m \in Lcds : \A p \in recvPcs'[CurTr'][m] : Got(m, p)'
  BY <1>2, <1>3
<1>6. Live' \/ (\E m \in Lcds : Works(m)' /\ handler'[m] = "zeropcs") =>
        \A m \in recvLcd'[CurTr'] : Served(m)'
  BY <1>2, <1>3, <1>4
<1> QED
  BY <1>5, <1>6 DEF TrackInv

\* No collection begins but where a tracker has just been zeroed.
LEMMA LiveNext ==
  ASSUME IInv, RInv, NEW l \in Lcds, Moves(l),
         Works(l)' /\ handler'[l] \in Zeroed => Live,
         Cur \in {"on", "off"} /\ armed'["onoff"] = Cur => Live
  PROVE  Live' => Live
<1>1. Grows
  BY MovesPipe DEF RInv
<1>2. Stage' = Stage /\ Cur' = Cur /\ (Cur \in {"on", "off"} \/ Cur \in {"pw", "qw"})
  BY <1>1, HandOf, SameStage DEF Grows, Moves
<1>3. \A m \in Lcds \ {l} : Works(m)' => Works(m) /\ handler'[m] = handler[m]
  BY <1>2 DEF Moves, Works, Busy, Kind
<1> QED
  BY <1>2, <1>3 DEF Live

LEMMA ZeroingNext ==
  ASSUME IInv, RInv, NEW l \in Lcds, Moves(l), handler'[l] # "zeropcs"
  PROVE  (\E m \in Lcds : Works(m)' /\ handler'[m] = "zeropcs") =>
           \E m \in Lcds : Works(m) /\ handler[m] = "zeropcs"
<1>1. Grows
  BY MovesPipe DEF RInv
<1>2. Cur' = Cur
  BY <1>1, SameStage DEF Grows
<1> QED
  BY <1>2 DEF Moves, Works, Busy, Kind

\* A step that leaves the trackers alone.
LEMMA QuietHand ==
  ASSUME IInv, IInv', RInv, NEW l \in Lcds, Moves(l), UNCHANGED trackVars,
         handler'[l] # "zeropcs", handler'[l] \in Zeroed => handler[l] \in Zeroed,
         Works(l)' => NextHand(l)
  PROVE  TrackInv' /\ HandsInv'
<1>1. UNCHANGED <<armed, recvLcd, recvPcs>>
  BY DEF trackVars
<1>2. Grows
  BY MovesPipe DEF RInv
<1>3. Stage \in 2..6 /\ Cur' = Cur
  BY <1>2, HandOf, SameStage DEF Grows, Moves
<1>4. Works(l)' => Works(l)
  BY <1>3 DEF Moves, Works, Busy, Kind
<1>5. Live' => Live
  BY <1>1, <1>4, LiveNext DEF Live
<1>6. TrackInv'
  <2>1. Live' => \A m \in Lcds : \A p \in recvPcs'[CurTr][m] : Got(m, p)
    BY <1>1, <1>3, <1>5 DEF RInv, TrackInv
  <2>2. Live' \/ (\E m \in Lcds : Works(m)' /\ handler'[m] = "zeropcs") =>
          \A m \in recvLcd'[CurTr] : Served(m)
    BY <1>1, <1>3, <1>5, ZeroingNext DEF RInv, TrackInv
  <2> QED
    BY <2>1, <2>2, TracksNext
<1>7. HandsInv'
  BY <1>1, HandsNext
<1> QED
  BY <1>6, <1>7

\* The steps that only load, test or store the status.
LEMMA QuietSteps ==
  ASSUME IInv, IInv', RInv, NEW l \in Lcds,
         \/ LoadPcs(l) \/ TestFull(l) \/ LoadLcd(l) \/ TestAll(l) \/ TestLast(l)
         \/ TestIdle(l) \/ SetStatus(l) \/ SetLast(l) \/ SetEnd(l) \/ SetCmd(l)
  PROVE  Moves(l) /\ TrackInv' /\ HandsInv'
<1>1. /\ Busy(l) /\ UNCHANGED <<log, got, que2, inbox, trackVars>>
  BY DEF LoadPcs, TestFull, LoadLcd, TestAll, TestLast, TestIdle, SetStatus, SetLast,
         SetEnd, SetCmd, OnlyHandler, Busy, shmVars, lcdVars, histVars
<1>2. UNCHANGED armed
  BY <1>1 DEF trackVars
<1>3. /\ Stage \in 2..6 /\ Kind(l) \in Kinds /\ CurTr \in Trackers /\ Tr(l) \in Trackers
      /\ Works(l) <=> Kind(l) = Cur
      /\ Kind(l) = Cur => Tr(l) = CurTr /\ Settled(l)
      /\ Cur \in {"on", "off"} \/ Cur \in {"pw", "qw"}
  BY <1>1, HandOf
<1>4. Works(l) =>
        /\ handler[l] \in {"loadlcd", "storelcd"} => Served(l)
        /\ handler[l] \in Ended => Full
        /\ handler[l] \notin Unarmed /\ Cur \in {"on", "off"} => armed["onoff"] = Cur
  BY <1>3 DEF RInv, HandsInv
<1>5. Works(l) /\ handler[l] \notin {"zerolcd", "zeropcs"} => Live
  BY <1>3, <1>4 DEF Live, Unarmed
<1>6. Live => /\ \A p \in recvPcs[CurTr][l] : Got(l, p)
              /\ \A m \in recvLcd[CurTr] : Served(m)
  BY <1>3 DEF RInv, TrackInv
\* It goes on to h, or ends with the frame.
<1>7. ASSUME NEW h, h # "zeropcs", h # "idle", h \in Zeroed => handler[l] \in Zeroed,
             (Goto(l, h) /\ UNCHANGED frame) \/ Done(l),
             UNCHANGED tmp \/ \E x : tmp' = [tmp EXCEPT ![l] = x],
             Works(l) /\ handler'[l] = h => NextHand(l)
      PROVE  Moves(l) /\ TrackInv' /\ HandsInv'
  <2>1. /\ Moves(l) /\ handler'[l] \in {h, "idle"}
        /\ Busy(l)' => handler'[l] = h /\ Kind(l)' = Kind(l)
    BY <1>1, <1>7, HandMoves
  <2>2. Stage' = Stage /\ Cur' = Cur
    BY <2>1, MovesPipe, SameStage DEF Grows, RInv
  <2>3. Works(l)' => Works(l) /\ handler'[l] = h
    BY <2>1, <2>2, <1>1 DEF Works
  <2>4. handler'[l] # "zeropcs" /\ (handler'[l] \in Zeroed => handler[l] \in Zeroed)
    BY <2>1, <1>7 DEF Zeroed
  <2> QED
    BY <2>1, <2>3, <2>4, <1>1, <1>7, QuietHand
<1>8. Ended \cap Unarmed = {} /\ Ended \cap Zeroed = {}
      /\ "setcmd" \notin Ended /\ "setcmd" \notin Unarmed
  BY DEF Ended, Unarmed, Zeroed
<1>9. CASE LoadPcs(l)
  <2>1. PICK h \in {"store", "firststore"} :
          /\ Goto(l, h) /\ UNCHANGED frame
          /\ tmp' = [tmp EXCEPT ![l] = recvPcs[Tr(l)][l]]
          /\ h = "store" => handler[l] = "load"
          /\ h = "firststore" => handler[l] = "firstload"
    BY <1>9 DEF LoadPcs, OnlyHandler
  <2>2. Works(l) /\ handler'[l] = h => NextHand(l)
    <3>1. tmp'[l] = recvPcs[Tr(l)][l]
      BY <2>1 DEF IInv, TypeOK
    <3> QED
      BY <2>1, <3>1, <1>2, <1>3, <1>4, <1>5, <1>6 DEF NextHand, Ended, Unarmed, Zeroed
  <2> QED
    BY <2>1, <2>2, <1>7 DEF Zeroed
<1>10. CASE TestFull(l)
  <2>1. PICK h \in {"loadlcd", "testall"} :
          /\ Goto(l, h) /\ UNCHANGED <<frame, tmp>> /\ handler[l] = "testfull"
          /\ h = "loadlcd" => recvPcs[Tr(l)][l] = Need(l)
    BY <1>10 DEF TestFull, OnlyHandler, LcdIsFull
  <2>2. Works(l) /\ handler'[l] = h => NextHand(l)
    <3>1. Works(l) /\ h = "loadlcd" => Served(l)
      BY <2>1, <1>3, <1>5, <1>6 DEF Served
    <3> QED
      BY <2>1, <3>1, <1>2, <1>4 DEF NextHand, Ended, Unarmed, Zeroed
  <2> QED
    BY <2>1, <2>2, <1>7 DEF Zeroed
<1>11. CASE LoadLcd(l)
  <2>1. /\ Goto(l, "storelcd") /\ UNCHANGED frame /\ handler[l] = "loadlcd"
        /\ tmp' = [tmp EXCEPT ![l] = recvLcd[Tr(l)]]
    BY <1>11 DEF LoadLcd, OnlyHandler
  <2>2. Works(l) /\ handler'[l] = "storelcd" => NextHand(l)
    <3>1. tmp'[l] = recvLcd[Tr(l)]
      BY <2>1 DEF IInv, TypeOK
    <3> QED
      BY <2>1, <3>1, <1>2, <1>3, <1>4, <1>5, <1>6 DEF NextHand, Ended, Unarmed, Zeroed
  <2> QED
    BY <2>1, <2>2, <1>7 DEF Zeroed
\* AfterCollection leaves nothing in the hands that counts.
<1>12. ASSUME AfterCollection(l), UNCHANGED tmp, handler[l] \notin Unarmed
       PROVE  Moves(l) /\ TrackInv' /\ HandsInv'
  <2>1. (Goto(l, "setcmd") /\ UNCHANGED frame) \/ Done(l)
    BY <1>12 DEF AfterCollection
  <2>2. Works(l) /\ handler'[l] = "setcmd" => NextHand(l)
    BY <1>2, <1>4, <1>8, <1>12 DEF NextHand
  <2> QED
    BY <2>1, <2>2, <1>7, <1>12 DEF Zeroed
\* On a complete collection it goes on to h.
<1>13. ASSUME NEW h \in Ended, Goto(l, h), UNCHANGED <<frame, tmp>>,
              handler[l] \notin Unarmed, Works(l) => Full
       PROVE  Moves(l) /\ TrackInv' /\ HandsInv'
  <2>1. Works(l) /\ handler'[l] = h => NextHand(l)
    BY <1>2, <1>4, <1>13 DEF NextHand, Ended
  <2> QED
    BY <2>1, <1>7, <1>13 DEF Zeroed, Ended
<1>14. CASE TestAll(l)
  <2>1. handler[l] = "testall" /\ UNCHANGED tmp /\ handler[l] \notin Unarmed
    BY <1>14 DEF TestAll, Unarmed, Zeroed
  <2>2. CASE AfterCollection(l)
    BY <2>1, <2>2, <1>12
  <2>3. CASE ~AfterCollection(l)
    <3>1. PICK h \in {"testlast", "disarm"} :
            recvLcd[Tr(l)] = Lcds /\ Goto(l, h) /\ UNCHANGED frame
      BY <1>14, <2>3 DEF TestAll
    <3>2. Works(l) => Full
      <4> SUFFICES ASSUME Works(l) PROVE Full
        OBVIOUS
      <4>1. \A m \in Lcds : Served(m)
        BY <2>1, <3>1, <1>3, <1>5, <1>6
      <4>2. got[Cur] \subseteq AllPcs
        BY <1>3, HandOf, <1>1 DEF IInv, TypeOK
      <4>3. AllPcs \subseteq got[Cur]
        BY <4>1 DEF AllPcs, Served, Got
      <4>4. \A i \in 1..Len(que2) : que2[i] = Cmd
        BY <4>1 DEF Served, Settled
      <4> QED
        BY <4>1, <4>2, <4>3, <4>4 DEF Full, Served
    <3> QED
      BY <2>1, <3>1, <3>2, <1>13 DEF Ended
  <2> QED
    BY <2>2, <2>3
<1>15. CASE TestLast(l) \/ TestIdle(l) \/ SetStatus(l) \/ SetLast(l)
  <2>1. handler[l] \in Ended /\ UNCHANGED tmp
    BY <1>15 DEF TestLast, TestIdle, SetStatus, SetLast, Ended
  <2>2. \/ AfterCollection(l)
        \/ \E h \in {"testidle", "setstatus", "setlast", "setend"} :
             Goto(l, h) /\ UNCHANGED frame
    BY <1>15 DEF TestLast, TestIdle, SetStatus, SetLast
  <2>3. handler[l] \notin Unarmed /\ (Works(l) => Full)
    BY <2>1, <1>4, <1>8
  <2> QED
    BY <2>1, <2>2, <2>3, <1>12, <1>13 DEF Ended
<1>16. CASE SetEnd(l) \/ SetCmd(l)
  <2>1. Done(l) /\ UNCHANGED tmp
    BY <1>16 DEF SetEnd, SetCmd
  <2>2. handler'[l] = "idle"
    BY <2>1 DEF Done, Goto, IInv, TypeOK
  <2>3. /\ (Goto(l, "setcmd") /\ UNCHANGED frame) \/ Done(l)
        /\ Works(l) /\ handler'[l] = "setcmd" => NextHand(l)
    BY <2>1, <2>2
  <2> QED
    BY <2>1, <2>3, <1>7 DEF Zeroed
<1> QED
  BY <1>9, <1>10, <1>11, <1>14, <1>15, <1>16

\* The steps that store the flags of a tracker.
LEMMA TrackSteps ==
  ASSUME IInv, IInv', RInv, NEW l \in Lcds,
         ZeroLcd(l) \/ ZeroPcs(l) \/ Arm(l) \/ StorePcs(l) \/ StoreLcd(l) \/ Disarm(l)
  PROVE  Moves(l) /\ TrackInv' /\ HandsInv'
<1>1. /\ Busy(l) /\ UNCHANGED <<log, got, que2, inbox>>
  BY DEF ZeroLcd, ZeroPcs, Arm, StorePcs, StoreLcd, Disarm, Busy, shmVars, lcdVars, histVars
<1>2. /\ Stage \in 2..6 /\ Kind(l) \in Kinds /\ CurTr \in Trackers /\ Tr(l) \in Trackers
      /\ Works(l) <=> Kind(l) = Cur
      /\ Kind(l) = Cur => Tr(l) = CurTr /\ Settled(l)
      /\ Kind(l) # Cur => Tr(l) # CurTr
      /\ Cur \in {"on", "off"} \/ Cur \in {"pw", "qw"}
      /\ Cur \in {"on", "off"} <=> CurTr = "onoff"
  BY <1>1, HandOf
<1>3. Works(l) =>
        /\ Got(l, frame[l][2])
        /\ handler[l] \in {"store", "firststore"} => \A p \in tmp[l] : Got(l, p)
        /\ handler[l] = "storelcd" => \A m \in tmp[l] : Served(m)
        /\ handler[l] \in {"loadlcd", "storelcd"} => Served(l)
        /\ handler[l] \in Ended => Full
        /\ handler[l] \notin Unarmed /\ Cur \in {"on", "off"} => armed["onoff"] = Cur
  BY <1>2 DEF RInv, HandsInv
<1>4. Works(l) /\ handler[l] \notin {"zerolcd", "zeropcs"} => Live
  BY <1>2, <1>3 DEF Live, Unarmed
<1>5. /\ Live => \A m \in Lcds : \A p \in recvPcs[CurTr][m] : Got(m, p)
      /\ Live \/ (\E m \in Lcds : Works(m) /\ handler[m] = "zeropcs") =>
           \A m \in recvLcd[CurTr] : Served(m)
  BY <1>2 DEF RInv, TrackInv
<1>6. /\ armed \in [Trackers -> Kinds \cup {"none"}]
      /\ recvLcd \in [Trackers -> SUBSET Lcds]
      /\ recvPcs \in [Trackers -> [Lcds -> SUBSET Pcs]]
  BY DEF IInv, TypeOK
<1>7. ASSUME NEW h, h # "idle",
             (Goto(l, h) /\ UNCHANGED frame) \/ Done(l),
             UNCHANGED tmp \/ \E x : tmp' = [tmp EXCEPT ![l] = x]
      PROVE  /\ Moves(l) /\ handler'[l] \in {h, "idle"}
             /\ Works(l)' => Works(l) /\ handler'[l] = h
  <2>1. /\ Moves(l) /\ handler'[l] \in {h, "idle"}
        /\ Busy(l)' => handler'[l] = h /\ Kind(l)' = Kind(l)
    BY <1>1, <1>7, HandMoves
  <2>2. Cur' = Cur
    BY <2>1, MovesPipe, SameStage DEF Grows, RInv
  <2> QED
    BY <2>1, <2>2, <1>1 DEF Works
<1>8. CASE ZeroLcd(l)
  <2>1. /\ handler[l] = "zerolcd" /\ Goto(l, "zeropcs")
        /\ recvLcd' = [recvLcd EXCEPT ![Tr(l)] = {}] /\ UNCHANGED <<frame, tmp, armed, recvPcs>>
    BY <1>8 DEF ZeroLcd
  <2>2. Moves(l) /\ handler'[l] \in {"zeropcs", "idle"} /\ (Works(l)' => Works(l))
    BY <2>1, <1>7
  <2>3. Works(l)' => NextHand(l)
    BY <2>1, <2>2 DEF NextHand, Ended, Unarmed, Works, Busy
  <2>4. Live' => Live
    BY <2>1, <2>2, LiveNext DEF Live, Zeroed
  <2>5. Live' => \A m \in Lcds : \A p \in recvPcs'[CurTr][m] : Got(m, p)
    BY <2>1, <2>4, <1>5
  <2>6. Live' \/ (\E m \in Lcds : Works(m)' /\ handler'[m] = "zeropcs") =>
          \A m \in recvLcd'[CurTr] : Served(m)
    <3>1. CASE Kind(l) = Cur
      BY <2>1, <3>1, <1>2, <1>6
    <3>2. CASE Kind(l) # Cur
      <4>1. recvLcd'[CurTr] = recvLcd[CurTr] /\ ~Works(l)'
        BY <2>1, <2>2, <3>2, <1>2, <1>6
      <4>2. Cur' = Cur
        BY <2>2, MovesPipe, SameStage DEF Grows, RInv
      <4>3. \A m \in Lcds : Works(m)' => Works(m) /\ handler'[m] = handler[m]
        BY <2>2, <4>1, <4>2 DEF Moves, Works, Busy, Kind
      <4> QED
        BY <2>4, <4>1, <4>3, <1>5
    <3> QED
      BY <3>1, <3>2
  <2> QED
    BY <2>1, <2>2, <2>3, <2>5, <2>6, HandsNext, TracksNext
<1>9. CASE ZeroPcs(l)
  <2>1. /\ handler[l] = "zeropcs" /\ Goto(l, "firstload")
        /\ recvPcs' = [recvPcs EXCEPT ![Tr(l)] = [m \in Lcds |-> {}]]
        /\ UNCHANGED <<frame, tmp, armed, recvLcd>>
    BY <1>9 DEF ZeroPcs
  <2>2. /\ Moves(l) /\ handler'[l] \in {"firstload", "idle"}
        /\ Works(l)' => Works(l)
    BY <2>1, <1>7
  <2>3. Works(l)' => NextHand(l)
    BY <2>1, <2>2 DEF NextHand, Ended, Unarmed, Zeroed, Works, Busy
  <2>4. Kind(l) # Cur => (Live' => Live)
    BY <2>1, <2>2, <1>2, LiveNext DEF Live
  <2>5. Live' => \A m \in Lcds : \A p \in recvPcs'[CurTr][m] : Got(m, p)
    <3>1. CASE Kind(l) = Cur
      BY <2>1, <3>1, <1>2, <1>6
    <3>2. CASE Kind(l) # Cur
      <4>1. recvPcs'[CurTr] = recvPcs[CurTr]
        BY <2>1, <3>2, <1>2, <1>6
      <4> QED
        BY <2>4, <3>2, <4>1, <1>5
    <3> QED
      BY <3>1, <3>2
  <2>6. Live' \/ (\E m \in Lcds : Works(m)' /\ handler'[m] = "zeropcs") =>
          \A m \in recvLcd'[CurTr] : Served(m)
    <3>1. CASE Kind(l) = Cur
      BY <2>1, <3>1, <1>2, <1>5
    <3>2. CASE Kind(l) # Cur
      BY <2>1, <2>2, <2>4, <3>2, <1>5, ZeroingNext
    <3> QED
      BY <3>1, <3>2
  <2> QED
    BY <2>1, <2>2, <2>3, <2>5, <2>6, HandsNext, TracksNext
<1>10. CASE Arm(l)
  <2>1. /\ handler[l] = "arm" /\ ((Goto(l, "setcmd") /\ UNCHANGED frame) \/ Done(l))
        /\ armed' = [armed EXCEPT ![Tr(l)] = Kind(l)]
        /\ UNCHANGED <<tmp, recvLcd, recvPcs>>
    BY <1>10 DEF Arm, AfterCollection
  <2>2. /\ Moves(l) /\ handler'[l] \in {"setcmd", "idle"}
        /\ Works(l)' => Works(l) /\ handler'[l] = "setcmd"
    BY <2>1, <1>7
  <2>3. Works(l)' => NextHand(l)
    BY <2>1, <2>2, <1>2, <1>6 DEF NextHand, Ended
  <2>4. Live' => Live
    <3>1. Cur \in {"on", "off"} /\ armed'["onoff"] = Cur => Live
      BY <2>1, <1>2, <1>4, <1>6 DEF Live
    <3> QED
      BY <2>1, <2>2, <3>1, LiveNext DEF Zeroed
  <2>5. Live' => \A m \in Lcds : \A p \in recvPcs'[CurTr][m] : Got(m, p)
    BY <2>1, <2>4, <1>5
  <2>6. Live' \/ (\E m \in Lcds : Works(m)' /\ handler'[m] = "zeropcs") =>
          \A m \in recvLcd'[CurTr] : Served(m)
    BY <2>1, <2>2, <2>4, <1>5, ZeroingNext
  <2>7. Cur \in {"on", "off"} /\ armed["onoff"] = Cur => armed'["onoff"] = Cur
    BY <2>1, <1>2, <1>6
  <2> QED
    BY <2>2, <2>3, <2>5, <2>6, <2>7, HandsNext, TracksNext
<1>11. CASE StorePcs(l)
  <2>1. PICK h \in {"testfull", "arm"} :
          /\ Goto(l, h) /\ tmp' = [tmp EXCEPT ![l] = {}] /\ UNCHANGED <<frame, armed, recvLcd>>
          /\ recvPcs' = [recvPcs EXCEPT ![Tr(l)][l] = tmp[l] \cup {frame[l][2]}]
          /\ h = "testfull" => handler[l] = "store"
          /\ h = "arm" => handler[l] = "firststore"
    BY <1>11 DEF StorePcs
  <2>2. /\ Moves(l) /\ handler'[l] \in {h, "idle"}
        /\ Works(l)' => Works(l) /\ handler'[l] = h
    BY <2>1, <1>7
  <2>3. Works(l)' => NextHand(l)
    BY <2>1, <2>2, <1>3 DEF NextHand, Ended, Unarmed, Zeroed
  <2>4. Live' => Live
    BY <2>1, <2>2, <1>4, LiveNext DEF Live, Zeroed
  <2>5. Live' => \A m \in Lcds : \A p \in recvPcs'[CurTr][m] : Got(m, p)
    <3>1. ASSUME Live', NEW m \in Lcds, NEW p \in recvPcs'[CurTr][m]
          PROVE  Got(m, p)
      <4>1. CASE Kind(l) = Cur /\ m = l
        <5>1. recvPcs'[CurTr][m] = tmp[l] \cup {frame[l][2]}
          BY <2>1, <4>1, <1>2, <1>6
        <5> QED
          BY <2>1, <3>1, <4>1, <5>1, <1>2, <1>3
      <4>2. CASE Kind(l) # Cur \/ m # l
        <5>1. recvPcs'[CurTr][m] = recvPcs[CurTr][m]
          BY <2>1, <4>2, <1>2, <1>6
        <5> QED
          BY <2>4, <3>1, <5>1, <1>5
      <4> QED
        BY <4>1, <4>2
    <3> QED
      BY <3>1
  <2>6. Live' \/ (\E m \in Lcds : Works(m)' /\ handler'[m] = "zeropcs") =>
          \A m \in recvLcd'[CurTr] : Served(m)
    BY <2>1, <2>2, <2>4, <1>5, ZeroingNext
  <2> QED
    BY <2>1, <2>2, <2>3, <2>5, <2>6, HandsNext, TracksNext
<1>12. CASE StoreLcd(l)
  <2>1. /\ handler[l] = "storelcd" /\ Goto(l, "testall") /\ tmp' = [tmp EXCEPT ![l] = {}]
        /\ recvLcd' = [recvLcd EXCEPT ![Tr(l)] = tmp[l] \cup {l}]
        /\ UNCHANGED <<frame, armed, recvPcs>>
    BY <1>12 DEF StoreLcd
  <2>2. /\ Moves(l) /\ handler'[l] \in {"testall", "idle"}
        /\ Works(l)' => Works(l) /\ handler'[l] = "testall"
    BY <2>1, <1>7
  <2>3. Works(l)' => NextHand(l)
    BY <2>1, <2>2, <1>3 DEF NextHand, Ended, Unarmed, Zeroed
  <2>4. Live' => Live
    BY <2>1, <2>2, <1>4, LiveNext DEF Live, Zeroed
  <2>5. Live' => \A m \in Lcds : \A p \in recvPcs'[CurTr][m] : Got(m, p)
    BY <2>1, <2>4, <1>5
  <2>6. Live' \/ (\E m \in Lcds : Works(m)' /\ handler'[m] = "zeropcs") =>
          \A m \in recvLcd'[CurTr] : Served(m)
    <3>1. CASE Kind(l) = Cur
      <4>1. recvLcd'[CurTr] = tmp[l] \cup {l}
        BY <2>1, <3>1, <1>2, <1>6
      <4> QED
        BY <2>1, <3>1, <4>1, <1>2, <1>3
    <3>2. CASE Kind(l) # Cur
      <4>1. recvLcd'[CurTr] = recvLcd[CurTr]
        BY <2>1, <3>2, <1>2, <1>6
      <4> QED
        BY <2>2, <2>4, <4>1, <1>5, ZeroingNext
    <3> QED
      BY <3>1, <3>2
  <2> QED
    BY <2>1, <2>2, <2>3, <2>5, <2>6, HandsNext, TracksNext
<1>13. CASE Disarm(l)
  <2>1. /\ handler[l] = "disarm" /\ Goto(l, "testlast")
        /\ armed' = [armed EXCEPT ![Tr(l)] = "none"]
        /\ UNCHANGED <<frame, tmp, recvLcd, recvPcs>>
    BY <1>13 DEF Disarm
  <2>2. /\ Moves(l) /\ handler'[l] \in {"testlast", "idle"}
        /\ Works(l)' => Works(l) /\ handler'[l] = "testlast"
    BY <2>1, <1>7
  <2>3. armed'["onoff"] = armed["onoff"]
    <3>1. Kind(l) \in {"pw", "qw"}
      BY <2>1 DEF RInv, PlaceInv
    <3>2. Tr(l) # "onoff"
      BY <3>1, KindRounds DEF Tr
    <3> QED
      BY <2>1, <3>2, <1>6 DEF Trackers
  <2>4. Works(l)' => NextHand(l)
    BY <2>1, <2>2, <2>3, <1>3 DEF NextHand, Ended, Unarmed, Zeroed
  <2>5. Live' => Live
    BY <2>1, <2>2, <2>3, LiveNext DEF Live, Zeroed
  <2>6. Live' => \A m \in Lcds : \A p \in recvPcs'[CurTr][m] : Got(m, p)
    BY <2>1, <2>5, <1>5
  <2>7. Live' \/ (\E m \in Lcds : Works(m)' /\ handler'[m] = "zeropcs") =>
          \A m \in recvLcd'[CurTr] : Served(m)
    BY <2>1, <2>2, <2>5, <1>5, ZeroingNext
  <2> QED
    BY <2>2, <2>3, <2>4, <2>6, <2>7, HandsNext, TracksNext
<1> QED
  BY <1>8, <1>9, <1>10, <1>11, <1>12, <1>13

-----------------------------------------------------------------------------
(* The send threads and the rest of the state.                             *)

\* What a step of a send thread that holds a frame keeps.
LEMMA HandKeeps ==
  ASSUME IInv, RInv, NEW l \in Lcds, Handler(l), ~Take(l)
  PROVE  /\ Moves(l) /\ TrackInv' /\ HandsInv'
         /\ Grows /\ LogInv' /\ PipeInv' /\ GotInv'
         /\ Stage' = Stage /\ Cmd' = Cmd /\ Cur' = Cur
         /\ UNCHANGED <<emsVars, shmVars, emuVars>>
<1>1. IInv'
  BY HandlerStep
<1>2. Moves(l) /\ TrackInv' /\ HandsInv'
  BY <1>1, QuietSteps, TrackSteps DEF Handler
<1>3. Grows /\ LogInv' /\ PipeInv' /\ GotInv'
  BY <1>2, MovesPipe DEF RInv
<1>4. Stage' = Stage /\ Cmd' = Cmd /\ Cur' = Cur
  BY <1>3, SameStage DEF Grows
<1>5. UNCHANGED <<emsVars, shmVars, emuVars>>
  BY DEF Handler, ZeroLcd, ZeroPcs, Arm, LoadPcs, StorePcs, TestFull, LoadLcd, StoreLcd,
         TestAll, Disarm, TestLast, TestIdle, SetStatus, SetLast, SetEnd, SetCmd,
         OnlyHandler
<1> QED
  BY <1>2, <1>3, <1>4, <1>5

\* What it changes, and where.
LEMMA HandChanges ==
  ASSUME IInv, RInv, NEW l \in Lcds, Handler(l), ~Take(l)
  PROVE  /\ UNCHANGED g_sys_status \/ SetStatus(l)
         /\ UNCHANGED g_lcd_status_end \/ SetEnd(l)
         /\ UNCHANGED cmd_start_pcs \/ SetCmd(l)
         /\ UNCHANGED armed \/ Arm(l) \/ Disarm(l)
         /\ \A t \in Trackers : t # Tr(l) => /\ recvLcd'[t] = recvLcd[t]
                                             /\ recvPcs'[t] = recvPcs[t]
         /\ handler'[l] = "idle" /\ ~SetCmd(l) => Kind(l) \notin {"on", "off"}
<1>1. /\ UNCHANGED g_sys_status \/ SetStatus(l)
      /\ UNCHANGED g_lcd_status_end \/ SetEnd(l)
      /\ UNCHANGED cmd_start_pcs \/ SetCmd(l)
      /\ UNCHANGED armed \/ Arm(l) \/ Disarm(l)
  BY DEF Handler, ZeroLcd, ZeroPcs, Arm, LoadPcs, StorePcs, TestFull, LoadLcd, StoreLcd,
         TestAll, Disarm, TestLast, TestIdle, SetStatus, SetLast, SetEnd, SetCmd,
         OnlyHandler, statusVars, lcdVars, trackVars
<1>2. ASSUME NEW t \in Trackers, t # Tr(l)
      PROVE  recvLcd'[t] = recvLcd[t] /\ recvPcs'[t] = recvPcs[t]
  <2>1. recvLcd \in [Trackers -> SUBSET Lcds] /\ recvPcs \in [Trackers -> [Lcds -> SUBSET Pcs]]
    BY DEF IInv, TypeOK
  <2>2. \/ UNCHANGED <<recvLcd, recvPcs>>
        \/ UNCHANGED recvPcs /\ \E x : recvLcd' = [recvLcd EXCEPT ![Tr(l)] = x]
        \/ UNCHANGED recvLcd /\ \E x : recvPcs' = [recvPcs EXCEPT ![Tr(l)] = x]
        \/ UNCHANGED recvLcd /\ \E x : recvPcs' = [recvPcs EXCEPT ![Tr(l)][l] = x]
    BY DEF Handler, ZeroLcd, ZeroPcs, Arm, LoadPcs, StorePcs, TestFull, LoadLcd, StoreLcd,
           TestAll, Disarm, TestLast, TestIdle, SetStatus, SetLast, SetEnd, SetCmd,
           OnlyHandler, trackVars
  <2> QED
    BY <1>2, <2>1, <2>2
<1>3. ASSUME handler'[l] = "idle", ~SetCmd(l)
      PROVE  Kind(l) \notin {"on", "off"}
  <2>1. handler \in [Lcds -> {"idle", "zerolcd", "zeropcs", "firstload", "firststore",
           "arm", "load", "store", "testfull", "loadlcd", "storelcd", "testall", "disarm",
           "testlast", "testidle", "setstatus", "setlast", "setend", "setcmd"}]
    BY DEF IInv, TypeOK
  <2>2. \A h : Goto(l, h) => handler'[l] = h
    BY <2>1 DEF Goto
  <2>3. AfterCollection(l) \/ SetEnd(l)
    BY <1>3, <2>2
       DEF Handler, ZeroLcd, ZeroPcs, Arm, LoadPcs, StorePcs, TestFull, LoadLcd, StoreLcd,
           TestAll, Disarm, TestLast, TestIdle, SetStatus, SetLast
  <2>4. CASE AfterCollection(l)
    BY <2>2, <2>4, <1>3, KindRounds DEF AfterCollection, Tr
  <2>5. CASE SetEnd(l)
    BY <2>5 DEF SetEnd, RInv, PlaceInv
  <2> QED
    BY <2>3, <2>4, <2>5
<1> QED
  BY <1>1, <1>2, <1>3

\* A complete collection of this round makes the next command due; a thread
\* that comes late with a frame of the round before only asks for this command.
LEMMA HandStatus ==
  ASSUME IInv, RInv, NEW l \in Lcds, Handler(l), ~Take(l)
  PROVE  StatusInv' /\ StartInv'
<1> USE DEF RInv
<1>0. Numbers /\ Commands = {2, 3, 4, 7, 8}
  BY StatusNumbers
<1>1. /\ Moves(l) /\ Grows /\ Stage' = Stage /\ Cmd' = Cmd
      /\ UNCHANGED <<emsVars, shmVars, emuVars>>
  BY HandKeeps
<1>2. Stage \in 2..6 /\ RecentKind(Kind(l)) /\ Kind(l) \in Kinds
  BY <1>1, HandOf DEF Moves
<1>3. UNCHANGED g_sys_status \/ SetStatus(l)
  BY HandChanges
<1>4. CASE UNCHANGED g_sys_status
  <2>1. StatusInv'
    BY <1>1, <1>4 DEF StatusInv, NextDue, Grows
  <2>2. StartInv'
    BY <1>0, <1>1, <1>2, <1>4 DEF StartInv, emsVars, shmVars, emuVars, Numbers, COMM
  <2> QED
    BY <2>1, <2>2
<1>5. CASE SetStatus(l)
  <2>1. g_sys_status' = To(Kind(l)) /\ handler[l] = "setstatus"
    BY <1>5 DEF SetStatus
  <2>2. ASSUME Kind(l) # Cur PROVE StatusInv'
    <3>1. g_sys_status' = Cmd
      BY <2>1, <2>2, <1>2, RecentTable
    <3> QED
      BY <3>1, <1>1, <1>2 DEF StatusInv
  <2>3. ASSUME Kind(l) = Cur PROVE StatusInv'
    <3>1. Full
      BY <2>1, <2>3, <1>2 DEF HandsInv, Works, Busy, Ended
    <3>2. Stage # 6
      <4>1. Kind(l) = "on" => Stage < 5
        BY <2>1 DEF PlaceInv
      <4> QED
        BY <4>1, <2>3, <1>2, RoundTable
    <3>3. To(Cur) = Script[Stage + 1]
      BY <1>2, <3>2, ScriptRounds, KindRounds, RoundTable
    <3> QED
      BY <2>1, <2>3, <3>1, <3>2, <3>3, <1>1, <1>2 DEF StatusInv, NextDue, Grows
  <2>4. g_sys_status' \in {3, 4, 7, 8}
    BY <2>1, <1>2, KindRounds DEF Kinds
  <2>5. StartInv'
    BY <2>4, <1>0, <1>1, <1>2 DEF StartInv, emsVars, shmVars, emuVars, Numbers, COMM
  <2> QED
    BY <2>2, <2>3, <2>5
<1> QED
  BY <1>3, <1>4, <1>5

\* The second start command never begins the script again: its collection finds
\* g_lcd_status_end set, for the thread that asked for it has let go of its frame.
LEMMA HandPlace ==
  ASSUME IInv, RInv, NEW l \in Lcds, Handler(l), ~Take(l)
  PROVE  PlaceInv' /\ EndInv'
<1> USE DEF RInv
<1>0. Numbers
  BY StatusNumbers
<1>1. Moves(l) /\ Stage' = Stage
  BY HandKeeps
<1>2. Stage \in 2..6 /\ RecentKind(Kind(l)) /\ Kind(l) \in Kinds
  BY <1>1, HandOf DEF Moves
<1>3. \A m \in Lcds \ {l} : handler'[m] = handler[m] /\ Kind(m)' = Kind(m)
  BY <1>1 DEF Moves, Kind
<1>4. handler'[l] # "idle" => Kind(l)' = Kind(l)
  BY <1>1 DEF Moves, Kind
<1>5. handler \in [Lcds -> {"idle", "zerolcd", "zeropcs", "firstload", "firststore",
         "arm", "load", "store", "testfull", "loadlcd", "storelcd", "testall", "disarm",
         "testlast", "testidle", "setstatus", "setlast", "setend", "setcmd"}]
  BY DEF IInv, TypeOK
<1>6. \A h : Goto(l, h) => handler'[l] = h
  BY <1>5 DEF Goto
<1>7. AfterCollection(l) => /\ handler'[l] \in {"setcmd", "idle"}
                            /\ handler'[l] = "setcmd" => Tr(l) = "onoff"
  BY <1>6 DEF AfterCollection, Done
<1>8. /\ handler'[l] = "disarm" => Tr(l) # "onoff"
      /\ handler'[l] = "setcmd" => Tr(l) = "onoff"
      /\ handler'[l] = "setend" => Kind(l) = "pw"
      /\ handler'[l] = "setstatus" => TestIdle(l)
  BY <1>6, <1>7
     DEF Handler, ZeroLcd, ZeroPcs, Arm, LoadPcs, StorePcs, TestFull, LoadLcd, StoreLcd,
         TestAll, Disarm, TestLast, TestIdle, SetStatus, SetLast, SetEnd, SetCmd, Done
<1>9. ASSUME handler'[l] = "setstatus", Kind(l) = "on"
      PROVE  Stage < 5
  <2>1. handler[l] = "testidle" /\ g_lcd_status_end = 0
    BY <1>6, <1>7, <1>8, <1>9 DEF TestIdle, Ready, NotOver
  <2> SUFFICES ASSUME Stage >= 5 PROVE FALSE
    BY <1>2
  <2>2. Stage = 6 /\ Cur = "on"
    BY <1>2, <1>9, RecentTable, RoundTable
  <2>3. Full
    BY <2>1, <2>2, <1>9 DEF HandsInv, Works, Busy, Ended
  <2>4. \A m \in Lcds : Busy(m) => Kind(m) = "on"
    BY <2>2, <2>3 DEF Full, Settled
  <2> QED
    BY <2>1, <2>2, <2>4 DEF EndInv, Busy
<1>10. PlaceInv'
  <2>1. Tr(l) = "onoff" <=> Kind(l) \in {"on", "off"}
    BY <1>2, KindRounds DEF Tr, Kinds
  <2>2. /\ handler'[l] = "disarm" => Kind(l)' \in {"pw", "qw"}
        /\ handler'[l] = "setend" => Kind(l)' = "pw"
        /\ handler'[l] = "setcmd" => Kind(l)' \in {"on", "off"}
        /\ handler'[l] = "setstatus" /\ Kind(l)' = "on" => Stage' < 5
    BY <2>1, <1>1, <1>2, <1>4, <1>8, <1>9 DEF Kinds
  <2> QED
    BY <2>2, <1>1, <1>3 DEF PlaceInv
<1>11. EndInv'
  <2> DEFINE Over == Stage = 6 \/ (Stage = 5 /\ g_sys_status = EMS_START_EMU)
  <2>1. CASE SetEnd(l)
    BY <2>1 DEF SetEnd, EndFlag, EndInv
  <2>2. CASE SetStatus(l) /\ Kind(l) = "pw"
    <3>1. handler'[l] = "setlast" /\ Kind(l)' = "pw"
      BY <2>2, <1>4, <1>6 DEF SetStatus
    <3> QED
      BY <3>1 DEF EndInv
  <2>3. CASE ~SetEnd(l) /\ ~(SetStatus(l) /\ Kind(l) = "pw")
    <3>1. UNCHANGED g_lcd_status_end /\ (UNCHANGED g_sys_status \/ SetStatus(l))
      BY <2>3, HandChanges
    <3>2. Over' => Over
      <4>1. SetStatus(l) => g_sys_status' # EMS_START_EMU
        BY <2>3, <1>0, <1>2, KindRounds DEF SetStatus, Kinds, Numbers
      <4> QED
        BY <3>1, <4>1, <1>1
    <3>3. ASSUME NEW m \in Lcds, handler[m] \in {"setlast", "setend"}, Kind(m) = "pw"
          PROVE  handler'[m] \in {"setlast", "setend"} /\ Kind(m)' = "pw"
      <4>1. CASE m # l
        BY <3>3, <4>1, <1>3
      <4>2. CASE m = l
        <5>1. SetLast(l)
          BY <2>3, <3>3, <4>2
             DEF Handler, ZeroLcd, ZeroPcs, Arm, LoadPcs, StorePcs, TestFull, LoadLcd,
                 StoreLcd, TestAll, Disarm, TestLast, TestIdle, SetStatus, SetEnd, SetCmd
        <5>2. handler'[l] = "setend"
          BY <5>1, <3>3, <4>2, <1>6 DEF SetLast
        <5> QED
          BY <5>2, <3>3, <4>2, <1>4
      <4> QED
        BY <4>1, <4>2
    <3> QED
      BY <3>1, <3>2, <3>3 DEF EndInv
  <2> QED
    BY <2>1, <2>2, <2>3
<1> QED
  BY <1>10, <1>11

\* The start flags are armed for "on" in the rounds of a start only.
LEMMA HandArm ==
  ASSUME IInv, RInv, NEW l \in Lcds, Handler(l), ~Take(l)
  PROVE  ArmInv' /\ FreshInv'
<1> USE DEF RInv
<1>0. Numbers /\ Commands = {2, 3, 4, 7, 8}
  BY StatusNumbers
<1>1. Moves(l) /\ Stage' = Stage
  BY HandKeeps
<1>2. Stage \in 2..6 /\ RecentKind(Kind(l)) /\ Kind(l) \in Kinds
  BY <1>1, HandOf DEF Moves
<1>3. /\ Kind(l) = "on" => Stage \in {2, 3, 6}
      /\ Kind(l) = "qw" => Stage \in {3, 4}
      /\ Kind(l) = "off" => Stage \in {4, 5}
      /\ Kind(l) = "pw" => Stage \in {5, 6}
  BY <1>2, RecentTable
<1>4. /\ Tr(l) = "qw" <=> Kind(l) = "qw"
      /\ Tr(l) = "pw" <=> Kind(l) = "pw"
      /\ Tr(l) = "onoff" <=> Kind(l) \in {"on", "off"}
  BY <1>2, KindRounds DEF Tr, Kinds
<1>5. UNCHANGED g_sys_status \/ SetStatus(l)
  BY HandChanges
<1>6. armed \in [Trackers -> Kinds \cup {"none"}] /\ "onoff" \in Trackers
  BY DEF IInv, TypeOK, Trackers
<1>7. FreshInv'
  <2>1. Stage < 3 => recvLcd'["qw"] = recvLcd["qw"] /\ recvPcs'["qw"] = recvPcs["qw"]
    BY <1>3, <1>4, HandChanges DEF Trackers
  <2>2. Stage < 5 => recvLcd'["pw"] = recvLcd["pw"] /\ recvPcs'["pw"] = recvPcs["pw"]
    BY <1>3, <1>4, HandChanges DEF Trackers
  <2> QED
    BY <2>1, <2>2, <1>1 DEF FreshInv
<1>8. CASE Arm(l)
  <2>1. armed' = [armed EXCEPT ![Tr(l)] = Kind(l)] /\ UNCHANGED g_sys_status
    BY <1>8 DEF Arm, statusVars
  <2>2. \/ armed'["onoff"] = armed["onoff"]
        \/ Kind(l) \in {"on", "off"} /\ armed'["onoff"] = Kind(l)
    BY <2>1, <1>4, <1>6
  <2>3. Kind(l) = "on" => g_sys_status # ADJUST_EMU_PW
    <3> SUFFICES ASSUME Kind(l) = "on", g_sys_status = 7 PROVE FALSE
      BY <1>0 DEF Numbers
    <3>1. Cmd = 7 \/ (Stage <= 5 /\ Script[Stage + 1] = 7)
      BY <1>0 DEF StatusInv, NextDue
    <3>2. Stage \in {2, 3, 6}
      BY <1>3
    <3> QED
      BY <3>1, <3>2, RoundTable, ScriptRounds
  <2> QED
    BY <2>1, <2>2, <2>3, <1>1, <1>2, <1>3, <1>7 DEF ArmInv
<1>9. CASE ~Arm(l)
  <2>1. armed'["onoff"] = armed["onoff"]
    <3>1. CASE Disarm(l)
      <4>1. handler[l] = "disarm" /\ armed' = [armed EXCEPT ![Tr(l)] = "none"]
        BY <3>1 DEF Disarm
      <4>2. Tr(l) # "onoff"
        BY <4>1, <1>4 DEF PlaceInv
      <4> QED
        BY <4>1, <4>2, <1>6
    <3> QED
      BY <3>1, <1>9, HandChanges
  <2>2. CASE UNCHANGED g_sys_status
    BY <2>1, <2>2, <1>1, <1>7 DEF ArmInv
  <2>3. CASE SetStatus(l)
    <3>1. g_sys_status' = To(Kind(l)) /\ handler[l] = "setstatus"
      BY <2>3 DEF SetStatus
    <3>2. armed["onoff"] = "on" => Kind(l) # "off"
      <4> SUFFICES ASSUME armed["onoff"] = "on", Kind(l) = "off" PROVE FALSE
        OBVIOUS
      <4>1. Stage = 4
        BY <1>3 DEF ArmInv
      <4>2. Works(l) /\ Cur = "off"
        BY <4>1, <3>1, RoundTable DEF Works, Busy
      <4> QED
        BY <4>1, <4>2, <3>1 DEF HandsInv, Unarmed, Zeroed
    <3>3. Kind(l) # "off" => g_sys_status' # ADJUST_EMU_PW
      BY <3>1, <1>0, <1>2, KindRounds DEF Kinds, Numbers
    <3> QED
      BY <2>1, <3>2, <3>3, <1>1, <1>7 DEF ArmInv
  <2> QED
    BY <2>2, <2>3, <1>5
<1> QED
  BY <1>8, <1>9

\* A start or stop frame is let go only when its register is stored.
LEMMA HandCmd ==
  ASSUME IInv, RInv, NEW l \in Lcds, Handler(l), ~Take(l)
  PROVE  CmdInv'
<1> USE DEF RInv
<1>1. /\ Moves(l) /\ Stage' = Stage /\ got' = got
      /\ \A m \in Lcds \ {l} : handler'[m] = handler[m] /\ frame'[m] = frame[m]
      /\ handler'[l] = "idle" \/ frame'[l] = frame[l]
  BY HandKeeps DEF Moves
<1>2. /\ Stage \in 2..6 /\ RecentKind(Kind(l)) /\ Kind(l) \in Kinds
      /\ frame[l] \in FramesOf(l)
  BY <1>1, HandOf DEF Moves
<1>3. /\ Kind(l) = "on" => Stage \in {2, 3, 6}
      /\ Kind(l) = "off" => Stage \in {4, 5}
  BY <1>2, RecentTable
<1>4. frame[l] = <<Kind(l), frame[l][2]>>
  BY <1>2, FramesOfLcd DEF Kind
<1>5. Stage <= 3 => got["off"] = {}
  <2>1. KindSent(Script[4]) = "off"
    BY ScriptRounds, KindRounds
  <2> QED
    BY <2>1, <1>2 DEF GotInv
<1>6. \A m \in Lcds : \A p \in Need(m) :
        /\ Stage <= 3 /\ <<m, p>> \in got["on"] =>
             p \in cmd_start_pcs[m] \/ (Busy(m) /\ frame[m] = <<"on", p>>)
        /\ Stage <= 5 /\ <<m, p>> \in got["off"] =>
             p \notin cmd_start_pcs[m] \/ (Busy(m) /\ frame[m] = <<"off", p>>)
  BY DEF CmdInv
<1>7. CASE SetCmd(l)
  <2>1. /\ handler[l] = "setcmd"
        /\ cmd_start_pcs' = [cmd_start_pcs EXCEPT ![l] =
             IF Kind(l) = "on" THEN @ \cup {frame[l][2]} ELSE @ \ {frame[l][2]}]
    BY <1>7 DEF SetCmd
  <2>2. cmd_start_pcs \in [Lcds -> SUBSET Pcs]
    BY DEF IInv, TypeOK
  <2>3. /\ \A m \in Lcds \ {l} : cmd_start_pcs'[m] = cmd_start_pcs[m]
        /\ cmd_start_pcs'[l] = IF Kind(l) = "on" THEN cmd_start_pcs[l] \cup {frame[l][2]}
                               ELSE cmd_start_pcs[l] \ {frame[l][2]}
    BY <2>1, <2>2
  <2>4. Kind(l) \in {"on", "off"}
    BY <2>1 DEF PlaceInv
  <2>5. ASSUME NEW m \in Lcds, NEW p \in Need(m)
        PROVE  /\ Stage <= 3 /\ <<m, p>> \in got["on"] =>
                    p \in cmd_start_pcs'[m] \/ (Busy(m)' /\ frame'[m] = <<"on", p>>)
               /\ Stage <= 5 /\ <<m, p>> \in got["off"] =>
                    p \notin cmd_start_pcs'[m] \/ (Busy(m)' /\ frame'[m] = <<"off", p>>)
    <3>1. CASE m # l
      BY <3>1, <1>1, <1>6, <2>3, <2>5 DEF Busy
    <3>2. CASE m = l /\ Kind(l) = "on"
      <4>1. Stage <= 5 => got["off"] = {}
        BY <3>2, <1>3, <1>5
      <4>2. Stage <= 3 /\ <<l, p>> \in got["on"] =>
              p \in cmd_start_pcs[l] \/ frame[l] = <<"on", p>>
        BY <3>2, <2>5, <1>6
      <4>3. frame[l] = <<"on", p>> => frame[l][2] = p
        OBVIOUS
      <4> QED
        BY <3>2, <4>1, <4>2, <4>3, <2>3
    <3>3. CASE m = l /\ Kind(l) = "off"
      <4>1. ~(Stage <= 3)
        BY <3>3, <1>3
      <4>2. Stage <= 5 /\ <<l, p>> \in got["off"] =>
              p \notin cmd_start_pcs[l] \/ frame[l] = <<"off", p>>
        BY <3>3, <2>5, <1>6
      <4>3. frame[l] = <<"off", p>> => frame[l][2] = p
        OBVIOUS
      <4> QED
        BY <3>3, <4>1, <4>2, <4>3, <2>3
    <3> QED
      BY <3>1, <3>2, <3>3, <2>4
  <2> QED
    BY <2>5, <1>1 DEF CmdInv
<1>8. CASE ~SetCmd(l)
  <2>1. UNCHANGED cmd_start_pcs /\ (handler'[l] = "idle" => Kind(l) \notin {"on", "off"})
    BY <1>8, HandChanges
  <2>2. \A k \in {"on", "off"} : \A m \in Lcds : \A p \in Need(m) :
          Busy(m) /\ frame[m] = <<k, p>> => Busy(m)' /\ frame'[m] = <<k, p>>
    BY <2>1, <1>1 DEF Busy, Kind
  <2> QED
    BY <2>1, <2>2, <1>1, <1>6 DEF CmdInv
<1> QED
  BY <1>7, <1>8

-----------------------------------------------------------------------------
(* Taking a frame.                                                         *)

\* The frame a send thread takes, and what has reached the PCS with it.
LEMMA TakeGives ==
  ASSUME IInv, RInv, NEW l \in Lcds, Take(l)
  PROVE  \E k, p :
           /\ Stage \in 2..6 /\ RecentKind(k) /\ k \in Kinds /\ p \in Need(l)
           /\ inbox[l] \in Seq(FramesOf(l)) /\ Len(inbox[l]) >= 1
           /\ inbox[l][1] = <<k, p>>
           /\ ~Busy(l) /\ Busy(l)' /\ frame'[l] = <<k, p>> /\ Kind(l)' = k
           /\ handler'[l] = IF armed[TrackerOf(k)] = k THEN "load" ELSE "zerolcd"
           /\ inbox'[l] = Tail(inbox[l])
           /\ \A m \in Lcds \ {l} : /\ handler'[m] = handler[m] /\ frame'[m] = frame[m]
                                    /\ inbox'[m] = inbox[m]
           /\ \A j \in Kinds : got'[j] = got[j] \cup (IF j = k THEN {<<l, p>>} ELSE {})
           /\ \A j \in Kinds : got[j] \subseteq AllPcs /\ got'[j] \subseteq AllPcs
<1> DEFINE f == Head(inbox[l])
<1>1. inbox[l] \in Seq(FramesOf(l)) /\ inbox[l] # <<>> /\ handler[l] = "idle"
  BY DEF Take, IInv, HandlerInv
<1>2. Len(inbox[l]) >= 1 /\ 1 \in 1..Len(inbox[l]) /\ f = inbox[l][1] /\ f \in FramesOf(l)
  BY <1>1
<1>3. /\ f[1] \in Kinds /\ f[2] \in Need(l) /\ <<l, f[2]>> \in AllPcs
      /\ f = <<f[1], f[2]>>
  BY <1>2, FramesOfLcd
<1>4. Stage \in 2..6
  BY <1>1 DEF RInv, LogInv, StartInv
<1>5. RecentKind(f[1])
  BY <1>2, <1>4 DEF RInv, PipeInv
<1>6. /\ handler \in [Lcds -> {"idle", "zerolcd", "zeropcs", "firstload", "firststore",
           "arm", "load", "store", "testfull", "loadlcd", "storelcd", "testall", "disarm",
           "testlast", "testidle", "setstatus", "setlast", "setend", "setcmd"}]
      /\ frame \in [Lcds -> Frames \cup {NoFrame}]
      /\ inbox \in [Lcds -> Seq(Frames)] /\ got \in [Kinds -> SUBSET AllPcs]
  BY DEF IInv, TypeOK
<1>7. /\ frame' = [frame EXCEPT ![l] = f]
      /\ got' = [got EXCEPT ![f[1]] = @ \cup {<<l, f[2]>>}]
      /\ Goto(l, IF armed[TrackerOf(f[1])] = f[1] THEN "load" ELSE "zerolcd")
      /\ inbox' = [inbox EXCEPT ![l] = Tail(@)]
  BY DEF Take
<1>8. handler'[l] = IF armed[TrackerOf(f[1])] = f[1] THEN "load" ELSE "zerolcd"
  BY <1>6, <1>7 DEF Goto
<1>9. frame'[l] = f /\ inbox'[l] = Tail(inbox[l])
  BY <1>6, <1>7
<1>10. \A m \in Lcds \ {l} : /\ handler'[m] = handler[m] /\ frame'[m] = frame[m]
                             /\ inbox'[m] = inbox[m]
  BY <1>6, <1>7 DEF Goto
<1>11. \A j \in Kinds : got'[j] = got[j] \cup (IF j = f[1] THEN {<<l, f[2]>>} ELSE {})
  BY <1>6, <1>7
<1>12. ASSUME NEW j \in Kinds PROVE got[j] \subseteq AllPcs /\ got'[j] \subseteq AllPcs
  <2>1. got[j] \subseteq AllPcs
    BY <1>6
  <2>2. got'[j] = got[j] \/ got'[j] = got[j] \cup {<<l, f[2]>>}
    BY <1>11
  <2> HIDE DEF f
  <2> QED
    BY <1>3, <2>1, <2>2
<1>13. ~Busy(l) /\ Busy(l)' /\ Kind(l)' = f[1]
  BY <1>1, <1>8, <1>9 DEF Busy, Kind
<1> HIDE DEF f
<1> WITNESS f[1], f[2]
<1> QED
  BY <1>1, <1>2, <1>3, <1>4, <1>5, <1>8, <1>9, <1>10, <1>11, <1>12, <1>13

LEMMA TakePipe ==
  ASSUME IInv, RInv, NEW l \in Lcds, Take(l)
  PROVE  Grows /\ LogInv' /\ PipeInv' /\ GotInv'
<1> USE DEF RInv
<1>1. PICK k, p :
           /\ Stage \in 2..6 /\ RecentKind(k) /\ k \in Kinds /\ p \in Need(l)
           /\ inbox[l] \in Seq(FramesOf(l)) /\ Len(inbox[l]) >= 1
           /\ inbox[l][1] = <<k, p>>
           /\ ~Busy(l) /\ Busy(l)' /\ Kind(l)' = k
           /\ inbox'[l] = Tail(inbox[l])
           /\ \A m \in Lcds \ {l} : /\ handler'[m] = handler[m] /\ frame'[m] = frame[m]
                                    /\ inbox'[m] = inbox[m]
           /\ \A j \in Kinds : got'[j] = got[j] \cup (IF j = k THEN {<<l, p>>} ELSE {})
           /\ \A j \in Kinds : got[j] \subseteq AllPcs /\ got'[j] \subseteq AllPcs
  BY TakeGives
<1>2. UNCHANGED <<log, que2>>
  BY DEF Take, shmVars
<1>3. Stage' = Stage /\ Cmd' = Cmd /\ Cur' = Cur /\ LogInv' /\ Cur \in Kinds
  BY <1>1, <1>2, SameLog, SameStage, RoundTable
<1>4. /\ Len(inbox'[l]) = Len(inbox[l]) - 1 /\ Len(inbox[l]) \in Nat
      /\ \A i \in 1..Len(inbox'[l]) : /\ i + 1 \in 1..Len(inbox[l])
                                      /\ inbox'[l][i] = inbox[l][i + 1]
      /\ 1 \in 1..Len(inbox[l]) /\ inbox[l][1][1] = k
  BY <1>1
<1>5. \A m \in Lcds : Settled(m) => Settled(m)'
  <2> SUFFICES ASSUME NEW m \in Lcds, Settled(m) PROVE Settled(m)'
    OBVIOUS
  <2>1. CASE m # l
    BY <2>1, <1>1, <1>2, <1>3 DEF Settled, Busy, Kind
  <2>2. CASE m = l
    <3>1. k = Cur /\ \A i \in 1..Len(inbox'[l]) : inbox'[l][i][1] = Cur
      BY <2>2, <1>4 DEF Settled
    <3> QED
      BY <2>2, <3>1, <1>1, <1>2, <1>3 DEF Settled
  <2> QED
    BY <2>1, <2>2
<1>6. Full => Full'
  BY <1>1, <1>2, <1>3, <1>5 DEF Full
<1>7. Grows
  BY <1>1, <1>3, <1>5, <1>6 DEF Grows
<1>8. k = Cur => Settled(l)
  BY <1>1, <1>4 DEF PipeInv, Settled
<1>9. PipeInv'
  <2>1. \A i \in 1..Len(que2') :
          /\ Recent(que2[i])'
          /\ que2'[i] = Cmd => \A j \in i..Len(que2') : que2'[j] = Cmd
    BY <1>1, <1>2, <1>3 DEF PipeInv, Recent
  <2>2. ASSUME NEW m \in Lcds, Busy(m)'
        PROVE  RecentKind(Kind(m))' /\ (Kind(m)' = Cur => Settled(m)')
    <3>1. CASE m = l
      BY <3>1, <1>1, <1>3, <1>5, <1>8 DEF RecentKind
    <3>2. CASE m # l
      BY <2>2, <3>2, <1>1, <1>3, <1>5 DEF PipeInv, RecentKind, Busy, Kind
    <3> QED
      BY <3>1, <3>2
  <2>3. ASSUME NEW m \in Lcds, NEW i \in 1..Len(inbox'[m])
        PROVE  /\ RecentKind(inbox[m][i][1])'
               /\ inbox'[m][i][1] = Cur =>
                    /\ \A j \in i..Len(inbox'[m]) : inbox'[m][j][1] = Cur
                    /\ \A j \in 1..Len(que2') : que2'[j] = Cmd
    <3>1. CASE m = l
      <4>1. /\ i + 1 \in 1..Len(inbox[l]) /\ inbox'[l][i] = inbox[l][i + 1]
        BY <2>3, <3>1, <1>4
      <4>2. /\ RecentKind(inbox[l][i + 1][1])
            /\ inbox[l][i + 1][1] = Cur =>
                 /\ \A j \in (i + 1)..Len(inbox[l]) : inbox[l][j][1] = Cur
                 /\ \A j \in 1..Len(que2) : que2[j] = Cmd
        BY <4>1, <1>1 DEF PipeInv
      <4>3. RecentKind(inbox[m][i][1])'
        BY <3>1, <4>1, <4>2, <1>3 DEF RecentKind
      <4>4. inbox[l][i + 1][1] = Cur =>
              \A j \in i..Len(inbox'[l]) : inbox'[l][j][1] = Cur
        <5> SUFFICES ASSUME inbox[l][i + 1][1] = Cur, NEW j \in i..Len(inbox'[l])
                     PROVE  inbox'[l][j][1] = Cur
          OBVIOUS
        <5>1. i \in 1..Len(inbox'[l])
          BY <2>3, <3>1
        <5>2. j \in 1..Len(inbox'[l]) /\ j + 1 \in (i + 1)..Len(inbox[l])
          BY <5>1, <1>4
        <5>3. inbox[l][j + 1][1] = Cur
          BY <4>2, <5>2
        <5> QED
          BY <5>2, <5>3, <1>4
      <4> QED
        BY <3>1, <4>1, <4>2, <4>3, <4>4, <1>2
    <3>2. CASE m # l
      <4>1. inbox'[m] = inbox[m] /\ i \in 1..Len(inbox[m])
        BY <2>3, <3>2, <1>1
      <4>2. /\ RecentKind(inbox[m][i][1])
            /\ inbox[m][i][1] = Cur => /\ \A j \in i..Len(inbox[m]) : inbox[m][j][1] = Cur
                                       /\ \A j \in 1..Len(que2) : que2[j] = Cmd
        BY <4>1, <1>1 DEF PipeInv
      <4>3. RecentKind(inbox[m][i][1])'
        BY <4>1, <4>2, <1>3 DEF RecentKind
      <4> QED
        BY <4>1, <4>2, <4>3, <1>2
    <3> QED
      BY <3>1, <3>2
  <2> QED
    BY <2>1, <2>2, <2>3, <1>3 DEF PipeInv
<1>10. GotInv'
  <2> SUFFICES ASSUME NEW s \in 2..5
               PROVE  /\ Stage < s => got'[KindSent(Script[s])] = {}
                      /\ Stage > s => got'[KindSent(Script[s])] = AllPcs
    BY <1>3 DEF GotInv
  <2>1. /\ Stage < s => got[KindSent(Script[s])] = {}
        /\ Stage > s => got[KindSent(Script[s])] = AllPcs
    BY DEF GotInv
  <2>2. KindSent(Script[s]) \in Kinds /\ (Stage < s => KindSent(Script[s]) # k)
    <3>1. s \in {2, 3, 4, 5}
      OBVIOUS
    <3>2. /\ Stage = 2 => k = "on"
          /\ Stage = 3 => k \in {"on", "qw"}
          /\ Stage = 4 => k \in {"qw", "off"}
      BY <1>1, RecentTable
    <3> QED
      BY <3>1, <3>2, <1>1, ScriptRounds, KindRounds DEF Kinds
  <2> QED
    BY <2>1, <2>2, <1>1
<1> QED
  BY <1>3, <1>7, <1>9, <1>10

LEMMA TakeRounds == ASSUME IInv, RInv, NEW l \in Lcds, Take(l) PROVE RInv'
<1> USE DEF RInv
<1>1. PICK k, p :
           /\ Stage \in 2..6 /\ RecentKind(k) /\ k \in Kinds /\ p \in Need(l)
           /\ ~Busy(l) /\ Busy(l)' /\ frame'[l] = <<k, p>> /\ Kind(l)' = k
           /\ handler'[l] = IF armed[TrackerOf(k)] = k THEN "load" ELSE "zerolcd"
           /\ \A m \in Lcds \ {l} : handler'[m] = handler[m] /\ frame'[m] = frame[m]
           /\ \A j \in Kinds : got'[j] = got[j] \cup (IF j = k THEN {<<l, p>>} ELSE {})
  BY TakeGives
<1>2. UNCHANGED <<reader, writer, que1, que2, reports, configured, g_sys_status,
                  g_lcd_status_end, tmp, armed, recvLcd, recvPcs, cmd_start_pcs, log>>
  BY DEF Take, emsVars, shmVars, emuVars, statusVars, trackVars
<1>3. Grows /\ LogInv' /\ PipeInv' /\ GotInv'
  BY TakePipe
<1>4. /\ Stage' = Stage /\ Cmd' = Cmd /\ Cur' = Cur /\ CurTr' = CurTr
      /\ CurTr \in Trackers /\ (Full => Full')
  BY <1>1, <1>3, SameStage, RoundTable DEF Grows
<1>5. \A m \in Lcds : /\ \A q : Got(m, q) => Got(m, q)'
                      /\ Served(m) => Served(m)'
  BY <1>1, <1>3, Grown
<1>6. \A m \in Lcds \ {l} : Works(m)' => Works(m)
  BY <1>1, <1>4 DEF Works, Busy, Kind
<1>7. Live' => Live
  BY <1>1, <1>2, <1>4, <1>6 DEF Live, Zeroed
<1>8. TrackInv'
  <2>1. recvLcd[CurTr] \subseteq Lcds
    BY <1>4 DEF IInv, TypeOK
  <2>2. (\E m \in Lcds : Works(m)' /\ handler'[m] = "zeropcs") =>
          \E m \in Lcds : Works(m) /\ handler[m] = "zeropcs"
    BY <1>1, <1>6
  <2>3. Live' => \A m \in Lcds : \A q \in recvPcs'[CurTr'][m] : Got(m, q)'
    BY <1>1, <1>2, <1>4, <1>5, <1>7 DEF TrackInv
  <2>4. Live' \/ (\E m \in Lcds : Works(m)' /\ handler'[m] = "zeropcs") =>
          \A m \in recvLcd'[CurTr'] : Served(m)'
    BY <2>1, <2>2, <1>1, <1>2, <1>4, <1>5, <1>7 DEF TrackInv
  <2> QED
    BY <2>3, <2>4 DEF TrackInv
<1>9. HandsInv'
  <2> SUFFICES ASSUME NEW m \in Lcds, Works(m)'
               PROVE  /\ Got(m, frame[m][2])'
                      /\ handler'[m] \in {"store", "firststore"} =>
                           \A q \in tmp'[m] : Got(m, q)'
                      /\ handler'[m] = "storelcd" => \A n \in tmp'[m] : Served(n)'
                      /\ handler'[m] \in {"loadlcd", "storelcd"} => Served(m)'
                      /\ handler'[m] \in Ended => Full'
                      /\ handler'[m] \notin Unarmed /\ Cur' \in {"on", "off"} =>
                           armed'["onoff"] = Cur'
    BY DEF HandsInv
  <2>1. CASE m = l
    <3>1. k = Cur
      BY <2>1, <1>1, <1>4 DEF Works
    <3>2. Got(l, p)' /\ frame'[l][2] = p
      BY <3>1, <1>1, <1>4 DEF Got
    <3>3. Cur \in {"on", "off"} /\ handler'[l] = "load" => armed["onoff"] = Cur
      BY <3>1, <1>1, KindRounds
    <3> QED
      BY <2>1, <3>2, <3>3, <1>1, <1>2, <1>4 DEF Ended, Unarmed
  <2>2. CASE m # l
    <3>1. /\ Got(m, frame[m][2])
          /\ handler[m] \in {"store", "firststore"} => \A q \in tmp[m] : Got(m, q)
          /\ handler[m] = "storelcd" => \A n \in tmp[m] : Served(n)
          /\ handler[m] \in {"loadlcd", "storelcd"} => Served(m)
          /\ handler[m] \in Ended => Full
          /\ handler[m] \notin Unarmed /\ Cur \in {"on", "off"} => armed["onoff"] = Cur
      BY <2>2, <1>1, <1>6 DEF HandsInv
    <3>2. handler[m] = "storelcd" => tmp[m] \subseteq Lcds
      BY DEF IInv, HandlerInv
    <3>3. handler'[m] = handler[m] /\ frame'[m] = frame[m]
      BY <2>2, <1>1
    <3> QED
      BY <3>1, <3>2, <3>3, <1>2, <1>4, <1>5
  <2> QED
    BY <2>1, <2>2
<1>10. PlaceInv' /\ EndInv'
  <2>1. handler[l] = "idle" /\ handler'[l] \in {"load", "zerolcd"}
    BY <1>1 DEF Busy
  <2>2. PlaceInv'
    BY <2>1, <1>1, <1>4 DEF PlaceInv, Kind
  <2>3. EndInv'
    BY <2>1, <1>1, <1>2, <1>4 DEF EndInv, Kind
  <2> QED
    BY <2>2, <2>3
<1>11. ArmInv' /\ FreshInv' /\ StatusInv'
  BY <1>2, <1>4 DEF ArmInv, FreshInv, StatusInv, NextDue
<1>12. CmdInv'
  <2> SUFFICES ASSUME NEW m \in Lcds, NEW q \in Need(m)
               PROVE  /\ Stage <= 3 /\ <<m, q>> \in got'["on"] =>
                           \/ q \in cmd_start_pcs[m]
                           \/ Busy(m)' /\ frame'[m] = <<"on", q>>
                      /\ Stage <= 5 /\ <<m, q>> \in got'["off"] =>
                           \/ q \notin cmd_start_pcs[m]
                           \/ Busy(m)' /\ frame'[m] = <<"off", q>>
    BY <1>2, <1>4 DEF CmdInv
  <2>1. /\ Stage <= 3 /\ <<m, q>> \in got["on"] =>
             q \in cmd_start_pcs[m] \/ (Busy(m) /\ frame[m] = <<"on", q>>)
        /\ Stage <= 5 /\ <<m, q>> \in got["off"] =>
             q \notin cmd_start_pcs[m] \/ (Busy(m) /\ frame[m] = <<"off", q>>)
    BY DEF CmdInv
  <2>2. \A j \in {"on", "off"} : <<m, q>> \in got'[j] =>
          <<m, q>> \in got[j] \/ (m = l /\ q = p /\ j = k)
    BY <1>1 DEF Kinds
  <2>3. m # l => (Busy(m)' <=> Busy(m)) /\ frame'[m] = frame[m]
    BY <1>1 DEF Busy
  <2> QED
    BY <2>1, <2>2, <2>3, <1>1
<1>13. StartInv'
  BY <1>1, <1>2, <1>4 DEF StartInv
<1> QED
  BY <1>3, <1>8, <1>9, <1>10, <1>11, <1>12, <1>13

-----------------------------------------------------------------------------
(* The invariant of a session.                                             *)

LEMMA InitRounds == Init => RInv
<1> SUFFICES ASSUME Init PROVE RInv
  OBVIOUS
<1>0. Numbers /\ Commands = {2, 3, 4, 7, 8}
  BY StatusNumbers
<1>1. /\ log = <<>> /\ Len(log) = 0 /\ que1 = <<>> /\ que2 = <<>> /\ reader = "attach"
      /\ writer = "gate" /\ g_sys_status = 0 /\ reports = 0 /\ ~configured
      /\ \A l \in Lcds : ~Busy(l) /\ handler[l] = "idle" /\ inbox[l] = <<>>
      /\ armed["onoff"] = "none"
      /\ recvLcd["qw"] = {} /\ recvLcd["pw"] = {}
      /\ \A l \in Lcds : recvPcs["qw"][l] = {} /\ recvPcs["pw"][l] = {}
      /\ \A k \in Kinds : got[k] = {}
  BY <1>0 DEF Init, Busy, Trackers, Numbers
<1>2. Stage = 0
  BY <1>1 DEF Stage
<1>3. LogInv
  BY <1>1, <1>2 DEF LogInv
<1>4. StartInv
  BY <1>0, <1>1, <1>2 DEF StartInv, Storing, COMM, Numbers
<1>5. StatusInv /\ PipeInv /\ TrackInv /\ HandsInv /\ PlaceInv /\ ArmInv /\ FreshInv /\ EndInv
  BY <1>0, <1>1, <1>2
     DEF StatusInv, PipeInv, TrackInv, HandsInv, PlaceInv, ArmInv, FreshInv, EndInv
<1>6. GotInv
  <2> SUFFICES ASSUME NEW s \in 2..5 PROVE got[KindSent(Script[s])] = {}
    BY <1>2 DEF GotInv
  <2>1. s \in {2, 3, 4, 5}
    OBVIOUS
  <2>2. KindSent(Script[s]) \in Kinds
    BY <2>1, ScriptRounds, KindRounds DEF Kinds
  <2> QED
    BY <2>2, <1>1
<1>7. CmdInv
  BY <1>1 DEF CmdInv, Kinds
<1> QED
  BY <1>3, <1>4, <1>5, <1>6, <1>7 DEF RInv

LEMMA StutterRounds == ASSUME IInv, RInv, UNCHANGED vars PROVE RInv'
<1>1. UNCHANGED <<emsVars, shmVars, statusVars, handlerVars, trackVars, lcdVars, emuVars,
                  histVars>>
  BY DEF vars
<1>2. UNCHANGED <<log, got, reader, writer, que1, que2, g_sys_status, g_lcd_status_end,
                  handler, frame, armed, inbox, reports, configured>>
  BY <1>1 DEF emsVars, shmVars, statusVars, handlerVars, trackVars, lcdVars, emuVars,
              histVars
<1>3. /\ LogInv' /\ PipeInv' /\ GotInv' /\ TrackInv' /\ HandsInv' /\ PlaceInv'
      /\ FreshInv' /\ CmdInv' /\ Stage' = Stage /\ Cmd' = Cmd /\ (Full => Full')
  BY <1>1, <1>2, OtherParts
<1>4. StatusInv' /\ ArmInv' /\ EndInv'
  BY <1>2, <1>3 DEF RInv, StatusInv, NextDue, ArmInv, EndInv, Kind
<1>5. StartInv'
  BY <1>2, <1>3 DEF RInv, StartInv, Busy
<1> QED
  BY <1>3, <1>4, <1>5 DEF RInv

LEMMA HandlerRounds == ASSUME IInv, RInv, NEW l \in Lcds, Handler(l) PROVE RInv'
<1>1. CASE Take(l)
  BY <1>1, TakeRounds
<1>2. CASE ~Take(l)
  BY <1>2, HandKeeps, HandStatus, HandPlace, HandArm, HandCmd DEF RInv
<1> QED
  BY <1>1, <1>2

LEMMA RoundsStep == ASSUME OneSession, IInv, RInv, [Next]_vars PROVE RInv'
<1>1. CASE Reader
  BY <1>1, ReaderRounds
<1>2. CASE Writer
  BY <1>2, WriterRounds, PutRounds DEF Writer
<1>3. CASE Emu
  BY <1>3, ReportRounds, ExecuteRounds DEF Emu
<1>4. CASE \E l \in Lcds : Handler(l)
  BY <1>4, HandlerRounds
<1>5. CASE UNCHANGED vars
  BY <1>5, StutterRounds
<1> QED
  BY <1>1, <1>2, <1>3, <1>4, <1>5 DEF Next

LEMMA RInvHolds == OneSession => (Spec => [](IInv /\ RInv))
<1> SUFFICES ASSUME OneSession PROVE Spec => [](IInv /\ RInv)
  OBVIOUS
<1>1. Init => IInv /\ RInv
  BY InitIInv, InitRounds
<1>2. IInv /\ RInv /\ [Next]_vars => (IInv /\ RInv)'
  <2>1. IInv /\ [Next]_vars => IInv'
    BY ReaderStep, WriterStep, EmuStep, HandlerStep, StutterStep DEF Next
  <2> QED
    BY <2>1, RoundsStep
<1> QED
  BY <1>1, <1>2, PTL DEF Spec

-----------------------------------------------------------------------------
(* The theorems.                                                           *)

\* Only Put writes the history.
LEMMA OnlyPutIssues == [Next]_vars /\ log' # log => Put
<1> SUFFICES ASSUME [Next]_vars, log' # log PROVE Put
  OBVIOUS
<1>1. CASE Reader
  BY <1>1 DEF Reader, Attach, Wake, Drain, CountSetsLast, TelemetryTestsIdle,
     TelemetryStarts, DrainNext, histVars
<1>2. CASE Writer
  BY <1>2 DEF Writer, WriterGate, WriterTest, Post, WriterLoads,
     WriterSetsLast, WriterSetsIdel, histVars
<1>3. CASE Emu
  BY <1>3 DEF Emu, Report, Telemetry, Execute, histVars
<1>4. CASE \E l \in Lcds : Handler(l)
  BY <1>4 DEF Handler, Take, ZeroLcd, ZeroPcs, Arm, LoadPcs, StorePcs, TestFull, LoadLcd,
     StoreLcd, TestAll, Disarm, TestLast, TestIdle, SetStatus, SetLast, SetEnd, SetCmd,
     OnlyHandler, histVars
<1>5. CASE UNCHANGED vars
  BY <1>5 DEF vars, histVars
<1> QED
  BY <1>1, <1>2, <1>3, <1>4, <1>5 DEF Next

\* In a session of any LCDs and PCS the commands come in the order of the
\* script, none left out: whatever the send threads, the reader and the writer
\* do to the status in between, it never asks for another command than that of
\* the round or, when the round is over, that of the next.
THEOREM CommandsInScriptOrder == OneSession => (Spec => InScriptOrder)
<1> SUFFICES ASSUME OneSession PROVE Spec => InScriptOrder
  OBVIOUS
<1>1. RInv' => \A i \in 1..Len(log') : /\ Turn(log', i) <= Len(Script)
                                        /\ log'[i] = Script[Turn(log', i)]
  <2> SUFFICES ASSUME RInv', NEW i \in 1..Len(log')
               PROVE  Turn(log', i) <= Len(Script) /\ log'[i] = Script[Turn(log', i)]
    OBVIOUS
  <2>1. Stage' \in 0..6 /\ Turn(log', i) \in 1..Stage' /\ log'[i] = Script[Turn(log', i)]
    BY DEF RInv, LogInv
  <2> QED
    BY <2>1, ScriptRounds
<1>2. IInv /\ RInv /\ [Next]_vars => RInv'
  BY RoundsStep
<1>3. IInv /\ RInv /\ [Next]_vars =>
        [log' # log =>
           \A i \in 1..Len(log') : /\ Turn(log', i) <= Len(Script)
                                   /\ log'[i] = Script[Turn(log', i)]]_vars
  BY <1>1, <1>2
<1> QED
  BY <1>3, RInvHolds, PTL DEF Spec, InScriptOrder

LEMMA CmdIsCommand == ASSUME LogInv, log \in Seq(Commands), Stage >= 1
  PROVE  /\ Cmd \in Commands
         /\ log # <<>> /\ log[Len(log)] = Cmd
<1>1. Stage \in {1, 2, 3, 4, 5, 6}
  BY DEF LogInv
<1>2. Cmd \in Commands
  BY <1>1, ScriptRounds, StatusNumbers DEF Cmd
<1>3. log # <<>> /\ Turn(log, Len(log)) = Stage
  BY DEF Stage
<1>4. log[Len(log)] = Cmd
  <2>1. Len(log) \in 1..Len(log)
    BY <1>3
  <2> QED
    BY <2>1, <1>3 DEF LogInv, Cmd
<1> QED
  BY <1>2, <1>3, <1>4

\* A command that follows another in the script is put only when the round of
\* the earlier one is over.
LEMMA IssuedAfterRound ==
  ASSUME IInv, RInv, Put, NEW k \in Kinds, Issues(To(k)), Issued(From(k))
  PROVE  /\ got' = got /\ got[k] = AllPcs
         /\ k = "on" => Stage \in {2, 3}
         /\ k = "off" => Stage \in {4, 5}
<1> USE DEF RInv
<1>1. PICK s \in {Stage, Stage + 1} :
           /\ s \in 1..6
           /\ s = Stage => Stage >= 2
           /\ s # Stage /\ Stage >= 2 => Full
           /\ log' = Append(log, Script[s]) /\ got' = got
  BY PutIssues
<1>2. Stage \in 0..6 /\ log \in Seq(Commands)
  BY DEF LogInv, IInv, TypeOK
<1>3. Script[s] = To(k)
  BY <1>1, <1>2 DEF Issues
\* The earlier command has been issued, so the session has come to its round.
<1>4. PICK r \in 1..Stage : Script[r] = From(k)
  BY <1>2 DEF LogInv, Issued
<1>5. /\ k = "on" => s = 3 /\ Stage \in {2, 3}
      /\ k = "qw" => s = 4 /\ Stage \in {3, 4}
      /\ k = "off" => s = 5 /\ Stage \in {4, 5}
      /\ k = "pw" => s = 6 /\ Stage \in {5, 6}
  <2>1. s \in {1, 2, 3, 4, 5, 6} /\ r \in {1, 2, 3, 4, 5, 6} /\ r <= Stage
        /\ (s = Stage \/ Stage = s - 1)
    BY <1>1, <1>2, <1>4
  <2>2. CASE k = "on"
    BY <2>1, <2>2, <1>3, ScriptRounds, KindRounds
  <2>3. CASE k = "qw"
    BY <2>1, <2>3, <1>3, ScriptRounds, KindRounds
  <2>4. CASE k = "off"
    BY <2>1, <2>4, <1>3, ScriptRounds, KindRounds
  <2>5. CASE k = "pw"
    <3>1. s \in {2, 6} /\ r = 5
      BY <2>1, <2>5, <1>3, <1>4, ScriptRounds, KindRounds
    <3> QED
      BY <2>1, <2>5, <3>1
  <2> QED
    BY <2>2, <2>3, <2>4, <2>5 DEF Kinds
<1>6. k = KindSent(Script[s - 1]) /\ s - 1 \in 2..5
  BY <1>5, ScriptRounds, KindRounds DEF Kinds
<1>7. ASSUME s = Stage PROVE got[k] = AllPcs
  <2>1. s - 1 \in 2..5 /\ Stage > s - 1
    BY <1>6, <1>7
  <2>2. got[KindSent(Script[s - 1])] = AllPcs
    BY <2>1 DEF GotInv
  <2> QED
    BY <2>2, <1>6
<1>8. ASSUME s # Stage PROVE got[k] = AllPcs
  <2>1. Stage = s - 1 /\ Stage >= 2
    BY <1>8, <1>1, <1>2, <1>6
  <2>2. k = Cur /\ Full
    BY <2>1, <1>6, <1>1, <1>8 DEF Cur, Cmd
  <2> QED
    BY <2>2 DEF Full
<1> QED
  BY <1>1, <1>5, <1>7, <1>8

\* The EMS goes on only when every PCS of every LCD has received the frame the
\* last command made the EMU send: the collection flags never complete early,
\* although the send threads of all LCDs update them without a lock.
THEOREM NoCommandEarly == OneSession => (Spec => NothingIssuedEarly)
<1> SUFFICES ASSUME OneSession PROVE Spec => NothingIssuedEarly
  OBVIOUS
<1>1. IInv /\ RInv /\ [Next]_vars =>
        [\A k \in Kinds : Issues(To(k)) /\ Issued(From(k)) => got[k] = AllPcs]_vars
  BY OnlyPutIssues, IssuedAfterRound DEF Issues
<1> QED
  BY <1>1, RInvHolds, PTL DEF Spec, NothingIssuedEarly

\* The commands follow each other as To says, and a command is put for the first
\* time when the round of the one before it is over.
LEMMA FirstAfterRound ==
  ASSUME IInv, RInv, Put, NEW k \in {"on", "off"},
         Issues(AfterNext(k)), Issued(To(k)), log[Len(log)] # AfterNext(k)
  PROVE  /\ got[k] = AllPcs /\ Full
         /\ Stage = IF k = "on" THEN 3 ELSE 5
<1> USE DEF RInv
<1>1. PICK s \in {Stage, Stage + 1} :
           /\ s \in 1..6
           /\ s = Stage => Stage >= 2
           /\ s # Stage /\ Stage >= 2 => Full
           /\ log' = Append(log, Script[s]) /\ got' = got
  BY PutIssues
<1>2. Stage \in 0..6 /\ log \in Seq(Commands)
  BY DEF LogInv, IInv, TypeOK
<1>3. Script[s] = AfterNext(k)
  BY <1>1, <1>2 DEF Issues
<1>4. PICK r \in 1..Stage : Script[r] = To(k)
  BY <1>2 DEF LogInv, Issued
<1>5. s # Stage
  <2>1. Stage >= 1 => log[Len(log)] = Cmd
    BY <1>2, CmdIsCommand
  <2> QED
    BY <2>1, <1>3, <1>2, <1>1 DEF Cmd
<1>6. Stage \in {1, 2, 3, 4, 5} /\ s = Stage + 1 /\ r \in {1, 2, 3, 4, 5} /\ r <= Stage
  BY <1>1, <1>2, <1>4, <1>5
<1>7. Stage = IF k = "on" THEN 3 ELSE 5
  <2>1. CASE k = "on"
    <3>1. To(k) = 8 /\ AfterNext(k) = 4
      BY <2>1, KindRounds DEF AfterNext
    <3> QED
      BY <2>1, <3>1, <1>3, <1>6, ScriptRounds
  <2>2. CASE k = "off"
    <3>1. To(k) = 7 /\ AfterNext(k) = 3
      BY <2>2, KindRounds DEF AfterNext
    <3>2. r = 5
      BY <3>1, <1>4, <1>6, ScriptRounds
    <3> QED
      BY <2>2, <3>2, <1>6
  <2> QED
    BY <2>1, <2>2
<1>8. Full
  BY <1>1, <1>5, <1>7
<1>9. got[k] = AllPcs
  <2>1. KindSent(Script[Stage - 1]) = k /\ Stage - 1 \in 2..5 /\ Stage > Stage - 1
    BY <1>7, ScriptRounds, KindRounds
  <2> QED
    BY <2>1 DEF GotInv
<1> QED
  BY <1>7, <1>8, <1>9

\* When the EMS goes on after a start (a stop), a PCS that is not started (stopped)
\* has its frame in the hands of its send thread, which has moved the EMS on before
\* it stores the register.  When the command after the next is put first, every
\* register is as the order said, without exception.
THEOREM RegistersFollow == OneSession => (Spec => OrdersAreObeyed)
<1> SUFFICES ASSUME OneSession PROVE Spec => OrdersAreObeyed
  OBVIOUS
<1>1. ASSUME IInv, RInv, Put, NEW k \in {"on", "off"}, Issues(To(k)), Issued(From(k))
      PROVE  Obeyed(k)
  <2>1. /\ got[k] = AllPcs
        /\ k = "on" => Stage \in {2, 3}
        /\ k = "off" => Stage \in {4, 5}
    BY <1>1, IssuedAfterRound DEF Kinds
  <2> SUFFICES ASSUME NEW l \in Lcds, NEW p \in Need(l)
               PROVE  (p \in cmd_start_pcs[l] <=> k = "on") \/ frame[l] = <<k, p>>
    BY DEF Obeyed, Started
  <2>2. <<l, p>> \in got[k]
    BY <2>1 DEF AllPcs
  <2>3. /\ Stage <= 3 /\ <<l, p>> \in got["on"] =>
             p \in cmd_start_pcs[l] \/ frame[l] = <<"on", p>>
        /\ Stage <= 5 /\ <<l, p>> \in got["off"] =>
             p \notin cmd_start_pcs[l] \/ frame[l] = <<"off", p>>
    BY <1>1 DEF RInv, CmdInv
  <2> QED
    BY <2>1, <2>2, <2>3
<1>2. ASSUME IInv, RInv, Put, NEW k \in {"on", "off"},
             Issues(AfterNext(k)), Issued(To(k)), log[Len(log)] # AfterNext(k)
      PROVE  Settles(k)
  <2>1. /\ got[k] = AllPcs /\ Full
        /\ Stage = IF k = "on" THEN 3 ELSE 5
    BY <1>2, FirstAfterRound
  <2>2. Cur # k
    BY <2>1, ScriptRounds, KindRounds DEF Cur, Cmd
  <2> SUFFICES ASSUME NEW l \in Lcds, NEW p \in Need(l)
               PROVE  p \in cmd_start_pcs[l] <=> k = "on"
    BY DEF Settles, Started
  <2>3. ~(Busy(l) /\ frame[l] = <<k, p>>)
    BY <2>1, <2>2 DEF Full, Settled, Kind
  <2>4. <<l, p>> \in got[k]
    BY <2>1 DEF AllPcs
  <2>5. /\ Stage <= 3 /\ <<l, p>> \in got["on"] =>
             p \in cmd_start_pcs[l] \/ (Busy(l) /\ frame[l] = <<"on", p>>)
        /\ Stage <= 5 /\ <<l, p>> \in got["off"] =>
             p \notin cmd_start_pcs[l] \/ (Busy(l) /\ frame[l] = <<"off", p>>)
    BY <1>2 DEF RInv, CmdInv
  <2> QED
    BY <2>1, <2>3, <2>4, <2>5
<1>3. IInv /\ RInv /\ [Next]_vars =>
        [\A k \in {"on", "off"} :
           /\ Issues(To(k)) /\ Issued(From(k)) => Obeyed(k)
           /\ Issues(AfterNext(k)) /\ Issued(To(k)) /\ log[Len(log)] # AfterNext(k) =>
                Settles(k)]_vars
  BY <1>1, <1>2, OnlyPutIssues DEF Issues
<1> QED
  BY <1>3, RInvHolds, PTL DEF Spec, OrdersAreObeyed

-----------------------------------------------------------------------------
(* The status.  While the writer is between put and its last store, the    *)
(* status is the command it has put, and no send thread is about to ask    *)
(* for the next one.                                                       *)

Asks(l) == Works(l) /\ handler[l] = "setstatus"

KeepInv ==
  /\ writer \in Storing => Stage >= 1 /\ g_sys_status = Cmd
  /\ \A l \in Lcds : Asks(l) => writer \notin Storing /\ g_sys_status # Cmd

\* A command that gives way has been issued.
Kept == g_sys_status' # g_sys_status /\ g_sys_status \in Commands =>
          log # <<>> /\ log[Len(log)] = g_sys_status

\* Steps that leave the history, the status and the send threads.
LEMMA KeepsStill ==
  ASSUME KeepInv, UNCHANGED <<log, g_sys_status, handler, frame>>,
         writer' \in Storing => writer \in Storing
  PROVE  KeepInv' /\ Kept
<1>1. Stage' = Stage /\ Cmd' = Cmd /\ Cur' = Cur
  BY SameLog, SameStage
<1>2. \A l \in Lcds : Asks(l)' = Asks(l)
  BY <1>1 DEF Asks, Works, Busy, Kind
<1> QED
  BY <1>1, <1>2 DEF KeepInv, Kept

\* The reader stores a command over none, before the rounds begin.
LEMMA KeepReader == ASSUME IInv, RInv, KeepInv, Reader PROVE KeepInv' /\ Kept
<1>0. Numbers /\ Commands = {2, 3, 4, 7, 8}
  BY StatusNumbers
<1>1. UNCHANGED <<writer, log, handler, frame>>
  BY DEF Reader, Attach, Wake, Drain, CountSetsLast, TelemetryTestsIdle,
         TelemetryStarts, DrainNext, shmVars, statusVars, handlerVars, histVars
<1>2. CASE UNCHANGED g_sys_status
  BY <1>1, <1>2, KeepsStill
<1>3. CASE ~UNCHANGED g_sys_status
  <2>1. g_sys_status \in {0, 1} /\ Stage <= 1 /\ writer \notin Storing
    <3>1. CASE Drain
      <4>1. que1 = <<"count">> /\ reader = "drain"
        BY <3>1, <1>3 DEF Drain, RInv, StartInv
      <4>2. g_sys_status = 0
        BY <4>1, <1>0 DEF RInv, StartInv, Numbers
      <4> QED
        BY <4>2, <1>0 DEF RInv, StartInv, Numbers
    <3>2. CASE TelemetryStarts
      <4>1. reader = "setstart" /\ g_sys_status = 1 /\ que1 = <<"telemetry">>
        BY <3>2, <1>0 DEF TelemetryStarts, RInv, StartInv, Numbers
      <4>2. Stage = 1
        BY <4>1 DEF RInv, StartInv, LogInv
      <4> QED
        BY <4>1, <4>2, <1>0 DEF RInv, StartInv, Numbers, COMM
    <3> QED
      BY <3>1, <3>2, <1>3 DEF Reader, Attach, Wake, CountSetsLast, TelemetryTestsIdle,
         DrainNext, statusVars
  <2>2. \A l \in Lcds : handler[l] = "idle"
    BY <2>1 DEF RInv, StartInv, Busy
  <2> QED
    BY <2>1, <2>2, <1>0, <1>1 DEF KeepInv, Kept, Asks
<1> QED
  BY <1>2, <1>3

\* The writer takes back what it has put.
LEMMA KeepWriter ==
  ASSUME IInv, RInv, KeepInv,
         WriterGate \/ WriterTest \/ Post \/ WriterLoads
         \/ WriterSetsLast \/ WriterSetsIdel
  PROVE  KeepInv' /\ Kept
<1>1. UNCHANGED <<log, handler, frame>>
  BY DEF WriterGate, WriterTest, Post, WriterLoads,
     WriterSetsLast, WriterSetsIdel, handlerVars, histVars
<1>2. CASE ~WriterSetsIdel
  <2>1. UNCHANGED g_sys_status /\ (writer' \in Storing => writer \in Storing)
    BY <1>2 DEF WriterGate, WriterTest, Post, WriterLoads,
     WriterSetsLast, statusVars, Storing
  <2> QED
    BY <1>1, <2>1, KeepsStill
<1>3. CASE WriterSetsIdel
  <2>1. writer \in Storing /\ writer' \notin Storing /\ g_sys_status' = SER_IDEL
    BY <1>3 DEF WriterSetsIdel, Storing
  <2>2. Stage >= 1 /\ g_sys_status = Cmd
    BY <2>1 DEF KeepInv
  <2>3. Cmd \in Commands /\ log # <<>> /\ log[Len(log)] = Cmd
    BY <2>2, CmdIsCommand DEF RInv, IInv, TypeOK
  <2>4. SER_IDEL \notin Commands
    BY StatusNumbers DEF Numbers
  <2>5. Stage' = Stage /\ Cmd' = Cmd /\ Cur' = Cur
    BY <1>1, SameLog, SameStage
  <2> QED
    BY <2>1, <2>2, <2>3, <2>4, <2>5 DEF KeepInv, Kept
<1> QED
  BY <1>2, <1>3

\* With the command the round begins, and nobody has done with a round that
\* begins; when it is put again, nobody has done with it either.
LEMMA KeepPut == ASSUME IInv, RInv, KeepInv, Put PROVE KeepInv' /\ Kept
<1>1. PICK s \in {Stage, Stage + 1} :
           /\ s \in 1..6 /\ g_sys_status = Script[s]
           /\ s = Stage => Stage >= 2
           /\ s # Stage /\ Stage >= 2 => Full
           /\ log' = Append(log, Script[s])
  BY PutIssues
<1>2. UNCHANGED <<g_sys_status, handler, frame>>
  BY DEF Put, statusVars, handlerVars
<1>3. Stage \in 0..6 /\ Stage' = s /\ Cmd' = Script[s]
  BY <1>1, LogGrows DEF RInv, LogInv, IInv, TypeOK
<1>4. ASSUME NEW l \in Lcds, Asks(l)' PROVE FALSE
  <2>1. Busy(l) /\ Kind(l) = Cur' /\ handler[l] = "setstatus"
    BY <1>2, <1>4 DEF Asks, Works, Busy, Kind
  <2>2. Stage >= 2
    BY <2>1, <1>3 DEF RInv, StartInv
  <2>3. CASE s = Stage
    <3>1. Cmd' = Cmd /\ Cur' = Cur
      BY <2>3, <1>3, SameStage
    <3>2. Asks(l)
      BY <2>1, <3>1 DEF Asks, Works
    <3> QED
      BY <3>1, <3>2, <1>1, <1>3 DEF KeepInv
  <2>4. CASE s # Stage
    <3>1. Kind(l) = Cur
      BY <2>1, <2>4, <1>1, <2>2 DEF Full, Settled
    <3>2. Cur = KindSent(Script[Stage]) /\ Cur' = KindSent(Script[Stage + 1])
      BY <1>1, <1>3, <2>4 DEF Cur, Cmd
    <3>3. Stage \in {2, 3, 4, 5}
      BY <1>1, <1>3, <2>2, <2>4
    <3>4. KindSent(Script[Stage]) # KindSent(Script[Stage + 1])
      <4>1. /\ KindSent(Script[2]) = "on" /\ KindSent(Script[3]) = "qw"
            /\ KindSent(Script[4]) = "off" /\ KindSent(Script[5]) = "pw"
            /\ KindSent(Script[6]) = "on"
        BY ScriptRounds, KindRounds
      <4>2. Stage = 2 \/ Stage = 3 \/ Stage = 4 \/ Stage = 5
        BY <3>3
      <4> QED
        BY <4>1, <4>2
    <3> QED
      BY <2>1, <3>1, <3>2, <3>4
  <2> QED
    BY <2>3, <2>4
<1> QED
  BY <1>1, <1>2, <1>3, <1>4 DEF KeepInv, Kept

LEMMA KeepEmu == ASSUME KeepInv, Emu PROVE KeepInv' /\ Kept
<1>1. UNCHANGED <<log, g_sys_status, handler, frame, writer>>
  BY DEF Emu, Report, Telemetry, Execute, emsVars, statusVars, handlerVars, histVars
<1> QED
  BY <1>1, KeepsStill

\* A send thread asks for the next command only when the status is SER_IDEL and
\* all frames of the earlier round are done with; one that comes late asks for
\* the command of this round, which is the status or has been taken back.
LEMMA KeepHand == ASSUME IInv, RInv, KeepInv, NEW l \in Lcds, Handler(l)
  PROVE  KeepInv' /\ Kept
<1>0. Numbers /\ Commands = {2, 3, 4, 7, 8}
  BY StatusNumbers
<1>1. UNCHANGED <<log, writer>> /\ Stage' = Stage /\ Cmd' = Cmd /\ Cur' = Cur
  <2>1. UNCHANGED <<log, writer>>
    BY DEF Handler, Take, ZeroLcd, ZeroPcs, Arm, LoadPcs, StorePcs, TestFull, LoadLcd,
       StoreLcd, TestAll, Disarm, TestLast, TestIdle, SetStatus, SetLast, SetEnd, SetCmd,
       OnlyHandler, histVars, emsVars
  <2> QED
    BY <2>1, SameLog, SameStage
<1>2. \A m \in Lcds \ {l} : Asks(m)' = Asks(m)
  <2>1. \A m \in Lcds \ {l} : handler'[m] = handler[m] /\ frame'[m] = frame[m]
    <3>1. CASE Take(l)
      BY <3>1, TakeGives
    <3>2. CASE ~Take(l)
      BY <3>2, HandKeeps DEF Moves
    <3> QED
      BY <3>1, <3>2
  <2> QED
    BY <1>1, <2>1 DEF Asks, Works, Busy, Kind
<1>3. CASE ~SetStatus(l) /\ ~TestIdle(l)
  <2>1. UNCHANGED g_sys_status
    BY <1>3, HandChanges DEF Take, statusVars
  <2>2. handler'[l] # "setstatus"
    <3>1. handler \in [Lcds -> {"idle", "zerolcd", "zeropcs", "firstload", "firststore",
             "arm", "load", "store", "testfull", "loadlcd", "storelcd", "testall",
             "disarm", "testlast", "testidle", "setstatus", "setlast", "setend",
             "setcmd"}]
      BY DEF IInv, TypeOK
    <3>2. \A h : Goto(l, h) => handler'[l] = h
      BY <3>1 DEF Goto
    <3>3. AfterCollection(l) \/ Done(l) => handler'[l] # "setstatus"
      BY <3>2 DEF AfterCollection, Done
    <3> QED
      BY <1>3, <3>2, <3>3
         DEF Handler, Take, ZeroLcd, ZeroPcs, Arm, LoadPcs, StorePcs, TestFull, LoadLcd,
             StoreLcd, TestAll, Disarm, TestLast, SetLast, SetEnd, SetCmd
  <2>3. ~Asks(l)'
    BY <2>2 DEF Asks
  <2> QED
    BY <1>1, <1>2, <2>1, <2>3 DEF KeepInv, Kept
<1>4. CASE TestIdle(l)
  <2>1. UNCHANGED g_sys_status /\ (handler'[l] = "setstatus" => g_sys_status = 1)
    <3>1. \A h : Goto(l, h) => handler'[l] = h
      BY DEF Goto, IInv, TypeOK
    <3>2. AfterCollection(l) => handler'[l] # "setstatus"
      BY <3>1 DEF AfterCollection, Done
    <3> QED
      BY <1>0, <1>4, <3>2 DEF TestIdle, Ready, statusVars, Numbers
  <2>2. Stage >= 1 => Cmd # 1
    BY <1>0, CmdIsCommand DEF RInv, IInv, TypeOK
  <2>3. Stage >= 1
    BY <1>4 DEF RInv, StartInv, LogInv, TestIdle, Busy
  <2> QED
    BY <1>1, <1>2, <2>1, <2>2, <2>3 DEF KeepInv, Kept, Asks
<1>5. CASE SetStatus(l)
  <2>1. handler[l] = "setstatus" /\ g_sys_status' = To(Kind(l)) /\ Busy(l) /\ ~Take(l)
    BY <1>5 DEF SetStatus, Busy, Take
  <2>2. ~Asks(l)'
    <3>1. handler'[l] = "setlast"
      BY <1>5 DEF SetStatus, Goto, IInv, TypeOK
    <3> QED
      BY <3>1 DEF Asks
  <2>3. Stage \in 2..6 /\ RecentKind(Kind(l)) /\ Kind(l) \in Kinds
    BY <2>1, HandOf
  <2>4. Cmd \in Commands /\ log # <<>> /\ log[Len(log)] = Cmd
    BY <2>3, CmdIsCommand DEF RInv, IInv, TypeOK
  <2>5. CASE Kind(l) = Cur
    <3>1. Asks(l)
      BY <2>1, <2>5 DEF Asks, Works
    <3>2. writer \notin Storing /\ g_sys_status # Cmd
      BY <3>1 DEF KeepInv
    <3>3. Stage # 6
      <4>1. Kind(l) = "on" => Stage < 5
        BY <2>1 DEF RInv, PlaceInv
      <4> QED
        BY <4>1, <2>3, <2>5, RoundTable
    <3>4. g_sys_status' = Script[Stage + 1] /\ g_sys_status' # Cmd
      BY <2>1, <2>3, <2>5, <3>3, ScriptRounds, KindRounds, RoundTable
    <3>5. g_sys_status \in Commands => g_sys_status' = g_sys_status
      BY <3>2, <3>4 DEF RInv, StatusInv, NextDue
    <3> QED
      BY <1>1, <1>2, <2>2, <3>2, <3>4, <3>5 DEF KeepInv, Kept
  <2>6. CASE Kind(l) # Cur
    <3>1. g_sys_status' = Cmd
      BY <2>1, <2>3, <2>6, RecentTable
    <3>2. ~Full
      BY <2>1, <2>6 DEF Full, Settled
    <3>3. g_sys_status \in Commands => g_sys_status = Cmd
      BY <2>3, <3>2 DEF RInv, StatusInv, NextDue
    <3>4. \A m \in Lcds : ~Asks(m)
      BY <2>3, <3>2 DEF RInv, HandsInv, Asks, Ended
    <3> QED
      BY <1>1, <1>2, <2>2, <2>3, <3>1, <3>3, <3>4 DEF KeepInv, Kept
  <2> QED
    BY <2>5, <2>6
<1> QED
  BY <1>3, <1>4, <1>5

\* A command that has been stored stays in g_sys_status until the writer has
\* put it, for any LCDs and PCS: of the stores of the reader, the writer and
\* the send threads none hits a command that is still to be issued.
THEOREM NoCommandIsLost == OneSession => (Spec => KeptUntilIssued)
<1> SUFFICES ASSUME OneSession PROVE Spec => KeptUntilIssued
  OBVIOUS
<1>1. Init => KeepInv
  BY DEF Init, KeepInv, Storing, Asks
<1>2. IInv /\ RInv /\ KeepInv /\ [Next]_vars => KeepInv' /\ Kept
  <2> SUFFICES ASSUME IInv, RInv, KeepInv, [Next]_vars PROVE KeepInv' /\ Kept
    OBVIOUS
  <2>1. CASE Writer
    BY <2>1, KeepWriter, KeepPut DEF Writer
  <2>2. CASE UNCHANGED vars
    <3>1. UNCHANGED <<log, g_sys_status, handler, frame, writer>>
      BY <2>2 DEF vars, emsVars, statusVars, handlerVars, histVars
    <3> QED
      BY <3>1, KeepsStill
  <2> QED
    BY <2>1, <2>2, KeepReader, KeepEmu, KeepHand DEF Next
<1>3. Spec => [](IInv /\ RInv)
  BY RInvHolds
<1> QED
  BY <1>1, <1>2, <1>3, PTL DEF Spec, KeptUntilIssued, Kept
=============================================================================
