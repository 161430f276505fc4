-------------------------- MODULE EmsScriptProofs ---------------------------
(***************************************************************************)
(* The EMS implements EmsScript: with any LCDs when a command issued twice *)
(* in a row counts once, and with one LCD, of any number of PCS, as it is. *)
(* There no command is issued twice: each frame of a round is under way    *)
(* once, so that the collection completes with the last one, and the only  *)
(* send thread has nothing left to ask when the next command is issued.    *)
(***************************************************************************)
EXTENDS EmsRoundsProofs

(* The history as EmsScript sees it.                                       *)

\* What has been reached of the round of the last command.
LEMMA ReachedIs ==
  ASSUME IInv, RInv
  PROVE  reached = IF Stage \in 2..5 THEN got[Cur] ELSE {}
<1>1. Stage \in 2..5 => log[Len(log)] = Cmd
  BY CmdIsCommand DEF RInv, IInv, TypeOK
<1> QED
  BY <1>1, ScriptRounds DEF reached, Cur

\* A full round is over for EmsScript too.
LEMMA FullIsOver ==
  ASSUME IInv, RInv, Stage \in 1..5, Stage >= 2 => Full
  PROVE  log[Len(log)] = EMS_COMMUNICATION_STATUS_SETTING \/ reached = AllPcs
<1>1. CASE Stage = 1
  <2>1. log[Len(log)] = Cmd
    BY <1>1, CmdIsCommand DEF RInv, IInv, TypeOK
  <2> QED
    BY <1>1, <2>1, ScriptRounds, StatusNumbers DEF Numbers, Cmd
<1>2. CASE Stage >= 2
  BY <1>2, ReachedIs DEF Full
<1> QED
  BY <1>1, <1>2

\* Nobody has received a frame of a round that begins.
LEMMA NewRound ==
  ASSUME IInv, RInv, Stage \in 0..5, got' = got, Stage' = Stage + 1,
         log' = Append(log, Script[Stage + 1])
  PROVE  reached' = {}
<1>1. log'[Len(log')] = Script[Stage + 1]
  BY ScriptRounds, StatusNumbers DEF IInv, TypeOK
<1>2. ASSUME Stage + 1 \in 2..5 PROVE got[KindSent(Script[Stage + 1])] = {}
  <2>1. PICK s \in 2..5 : s = Stage + 1
    BY <1>2
  <2>2. Stage < s => got[KindSent(Script[s])] = {}
    BY DEF RInv, GotInv
  <2> QED
    BY <2>1, <2>2
<1> QED
  BY <1>1, <1>2, ScriptRounds DEF reached

\* Taking a frame of the round reaches its PCS, and no other step but Put is
\* seen.
LEMMA OnlyReaches ==
  ASSUME IInv, RInv, [Next]_vars, ~Put
  PROVE  /\ log' = log
         /\ reached' = reached \/ \E p \in AllPcs : reached' = reached \cup {p}
<1>1. CASE \E l \in Lcds : Take(l)
  <2>1. PICK l \in Lcds : Take(l)
    BY <1>1
  <2>2. PICK k, p :
           /\ k \in Kinds /\ p \in Need(l)
           /\ \A j \in Kinds : got'[j] = got[j] \cup (IF j = k THEN {<<l, p>>} ELSE {})
    BY <2>1, TakeGives
  <2>3. log' = log /\ Stage' = Stage
    BY <2>1, SameLog DEF Take
  <2>4. <<l, p>> \in AllPcs
    BY <2>2 DEF AllPcs
  <2>5. Stage \in 2..5 => Cur \in Kinds /\ KindSent(log[Len(log)]) = Cur
    <3>1. Stage \in 2..5 => log[Len(log)] = Cmd
      BY CmdIsCommand DEF RInv, IInv, TypeOK
    <3> QED
      BY <3>1, RoundTable DEF Cur
  <2>6. reached' = reached \/ reached' = reached \cup {<<l, p>>}
    <3>1. CASE Stage \in 2..5
      <4>1. reached = got[Cur] /\ reached' = got'[Cur] /\ Cur \in Kinds
        BY <2>3, <2>5, <3>1, ScriptRounds DEF reached
      <4> QED
        BY <2>2, <4>1
    <3>2. CASE Stage \notin 2..5
      BY <2>3, <3>2, ScriptRounds DEF reached
    <3> QED
      BY <3>1, <3>2
  <2> QED
    BY <2>3, <2>4, <2>6
<1>2. CASE ~\E l \in Lcds : Take(l)
  <2>1. UNCHANGED <<log, got>>
    <3>1. CASE \E l \in Lcds : Handler(l)
      BY <1>2, <3>1 DEF Handler, ZeroLcd, ZeroPcs, Arm, LoadPcs, StorePcs, TestFull,
         LoadLcd, StoreLcd, TestAll, Disarm, TestLast, TestIdle, SetStatus, SetLast,
         SetEnd, SetCmd, OnlyHandler, histVars
    <3>2. CASE Reader \/ Writer \/ Emu \/ UNCHANGED vars
      BY <3>2 DEF Reader, Attach, Wake, Drain, CountSetsLast, TelemetryTestsIdle,
         TelemetryStarts, DrainNext, Writer, WriterGate, WriterTest, Post, WriterLoads,
         WriterSetsLast,
         WriterSetsIdel, Emu, Report, Telemetry, Execute, vars, histVars
    <3> QED
      BY <3>1, <3>2 DEF Next
  <2>2. Stage' = Stage
    BY <2>1, SameLog
  <2> QED
    BY <2>1, <2>2 DEF reached
<1> QED
  BY <1>1, <1>2

-----------------------------------------------------------------------------
(* Any LCDs.                                                               *)

TurnsInv == \A i \in 1..Stage : \E j \in 1..Len(log) : Turn(log, j) = i

\* A history in the order of the script is, without doubles, its beginning.
LEMMA WithoutDoubles ==
  ASSUME NEW q, NEW n,
         \A j \in 1..Len(q) : q[j] = Script[Turn(q, j)],
         \A i \in 1..n : \E j \in 1..Len(q) : Turn(q, j) = i
  PROVE  [i \in 1..n |-> q[CHOOSE j \in 1..Len(q) : Turn(q, j) = i]]
           = [i \in 1..n |-> Script[i]]
<1>1. ASSUME NEW i \in 1..n
      PROVE  q[CHOOSE j \in 1..Len(q) : Turn(q, j) = i] = Script[i]
  <2> DEFINE j == CHOOSE j \in 1..Len(q) : Turn(q, j) = i
  <2>1. j \in 1..Len(q) /\ Turn(q, j) = i
    BY <1>1
  <2> QED
    BY <2>1
<1> QED
  BY <1>1

Begun(n) == [i \in 1..n |-> Script[i]]

LEMMA BegunNext == ASSUME NEW n \in 0..5
  PROVE  /\ Begun(n) \in Seq(Commands) /\ Len(Begun(n)) = n
         /\ Begun(n + 1) = Append(Begun(n), Script[n + 1])
<1>1. \A i \in 1..6 : Script[i] \in Commands
  BY ScriptRounds, StatusNumbers
<1>2. Begun(n) \in Seq(Commands) /\ Len(Begun(n)) = n
  BY <1>1 DEF Begun
<1>3. Begun(n + 1) \in Seq(Commands) /\ Len(Begun(n + 1)) = n + 1
  BY <1>1 DEF Begun
<1>4. /\ Append(Begun(n), Script[n + 1]) \in Seq(Commands)
      /\ Len(Append(Begun(n), Script[n + 1])) = n + 1
  BY <1>1, <1>2
<1>5. \A i \in 1..(n + 1) : Begun(n + 1)[i] = Append(Begun(n), Script[n + 1])[i]
  BY <1>2 DEF Begun
<1> QED
  BY <1>2, <1>3, <1>4, <1>5

LEMMA TurnsAre == ASSUME LogInv, TurnsInv PROVE turns = Begun(Stage)
  BY WithoutDoubles DEF LogInv, TurnsInv, turns, Begun

\* Put goes on to the next turn after a full round, or stays in this one.
LEMMA PutTurns ==
  ASSUME IInv, RInv, TurnsInv, Put
  PROVE  /\ TurnsInv' /\ got' = got
         /\ \/ UNCHANGED <<turns, reached>>
            \/ /\ Stage \in 0..5 /\ (Stage >= 2 => Full)
               /\ turns' = Append(turns, Script[Stage + 1]) /\ reached' = {}
<1>1. PICK s \in {Stage, Stage + 1} :
           /\ s \in 1..6
           /\ s = Stage => Stage >= 2
           /\ s # Stage /\ Stage >= 2 => Full
           /\ log' = Append(log, Script[s]) /\ got' = got
  BY PutIssues
<1>2. log \in Seq(Commands) /\ LogInv
  BY DEF RInv, IInv, TypeOK
<1>3. Stage \in 0..6 /\ LogInv' /\ Stage' = s /\ Cmd' = Script[s]
  BY <1>1, <1>2, LogGrows DEF LogInv
<1>4. /\ Script[s] \in Commands /\ Len(log) \in Nat
      /\ Len(log') = Len(log) + 1 /\ log'[Len(log')] = Script[s] /\ log' # <<>>
  BY <1>1, <1>2, ScriptRounds, StatusNumbers
<1>5. TurnsInv'
  <2> SUFFICES ASSUME NEW i \in 1..s PROVE \E j \in 1..Len(log') : Turn(log', j) = i
    BY <1>3 DEF TurnsInv
  <2>1. CASE i \in 1..Stage
    <3>1. PICK j \in 1..Len(log) : Turn(log, j) = i
      BY <2>1 DEF TurnsInv
    <3>2. \A m \in 1..Len(log) : Turn(log', m) = Turn(log, m)
      BY <1>1, <1>2, <1>4, TurnAppend
    <3>3. j \in 1..Len(log')
      BY <3>1, <1>4
    <3> QED
      BY <3>1, <3>2, <3>3
  <2>2. CASE i \notin 1..Stage
    <3>1. i = Stage'
      BY <2>2, <1>1, <1>3
    <3>2. Turn(log', Len(log')) = Stage' /\ Len(log') \in 1..Len(log')
      BY <1>4 DEF Stage
    <3> QED
      BY <3>1, <3>2
  <2> QED
    BY <2>1, <2>2
<1>6. turns = Begun(Stage) /\ turns' = Begun(s)
  <2>1. turns = Begun(Stage)
    BY <1>2, TurnsAre
  <2>2. \A j \in 1..Len(log') : log'[j] = Script[Turn(log', j)]
    BY <1>3 DEF LogInv
  <2>3. \A i \in 1..s : \E j \in 1..Len(log') : Turn(log', j) = i
    BY <1>3, <1>5 DEF TurnsInv
  <2>4. turns' = [i \in 1..s |-> log'[CHOOSE j \in 1..Len(log') : Turn(log', j) = i]]
    BY <1>3 DEF turns
  <2> QED
    BY <2>1, <2>2, <2>3, <2>4, WithoutDoubles DEF Begun
<1>7. CASE s = Stage
  <2>1. log[Len(log)] = Script[Stage]
    BY <1>1, <1>2, <1>7, CmdIsCommand DEF Cmd
  <2>2. reached' = reached
    BY <1>1, <1>3, <1>4, <1>7, <2>1 DEF reached
  <2> QED
    BY <1>1, <1>5, <1>6, <1>7, <2>2
<1>8. CASE s = Stage + 1
  <2>1. Stage \in 0..5
    BY <1>1, <1>3, <1>8
  <2>2. turns' = Append(turns, Script[Stage + 1])
    BY <2>1, <1>6, <1>8, BegunNext
  <2>3. reached' = {}
    BY <2>1, <1>1, <1>3, <1>8, NewRound
  <2> QED
    BY <2>1, <2>2, <2>3, <1>1, <1>3, <1>5, <1>8
<1> QED
  BY <1>1, <1>7, <1>8

LEMMA TurnsStep ==
  ASSUME IInv, RInv, TurnsInv, [Next]_vars
  PROVE  TurnsInv' /\ [DoublesAside!Next]_(DoublesAside!vars)
<1>1. CASE Put
  <2>1. CASE UNCHANGED <<turns, reached>>
    BY <1>1, <2>1, PutTurns DEF DoublesAside!vars
  <2>2. CASE ~UNCHANGED <<turns, reached>>
    <3>1. /\ TurnsInv' /\ Stage \in 0..5 /\ (Stage >= 2 => Full)
          /\ turns' = Append(turns, Script[Stage + 1]) /\ reached' = {}
      BY <1>1, <2>2, PutTurns
    <3>2. turns = Begun(Stage) /\ Len(turns) = Stage
      BY <3>1, TurnsAre, BegunNext DEF RInv
    <3>3. Len(turns) < Len(Script)
      BY <3>1, <3>2, ScriptRounds
    <3>4. DoublesAside!RoundOver
      <4>1. CASE Stage = 0
        BY <4>1, <3>2 DEF DoublesAside!RoundOver, Begun
      <4>2. CASE Stage # 0
        <5>1. turns[Len(turns)] = Script[Stage] /\ log[Len(log)] = Script[Stage]
          BY <3>1, <3>2, <4>2, CmdIsCommand DEF Begun, Cmd, RInv, IInv, TypeOK
        <5>2. log[Len(log)] = EMS_COMMUNICATION_STATUS_SETTING \/ reached = AllPcs
          BY <3>1, <4>2, FullIsOver
        <5> QED
          BY <5>1, <5>2 DEF DoublesAside!RoundOver
      <4> QED
        BY <4>1, <4>2
    <3> QED
      BY <3>1, <3>2, <3>3, <3>4 DEF DoublesAside!Next, DoublesAside!Issue
  <2> QED
    BY <2>1, <2>2
<1>2. CASE ~Put
  <2>1. log' = log /\ (reached' = reached \/ \E p \in AllPcs : reached' = reached \cup {p})
    BY <1>2, OnlyReaches
  <2>2. turns' = turns /\ Stage' = Stage
    BY <2>1 DEF turns, Stage
  <2>3. TurnsInv'
    BY <2>1, <2>2 DEF TurnsInv
  <2> QED
    BY <2>1, <2>2, <2>3 DEF DoublesAside!Next, DoublesAside!Reach, DoublesAside!vars
<1> QED
  BY <1>1, <1>2

\* In a session of any LCDs and PCS, reader, writer and send threads together
\* issue the commands of the script one after the other, each when every PCS has
\* received what the last one made the EMU send; a command can be issued twice in
\* a row, because two send threads have seen the same round complete.
THEOREM SequenceFollowsScript == OneSession => (Spec => FollowsScript)
<1> SUFFICES ASSUME OneSession PROVE Spec => FollowsScript
  OBVIOUS
<1>1. Init => DoublesAside!Init /\ TurnsInv
  <2> SUFFICES ASSUME Init PROVE DoublesAside!Init /\ TurnsInv
    OBVIOUS
  <2>1. Stage = 0
    BY DEF Init, Stage
  <2>2. turns = <<>> /\ reached = {}
    BY <2>1 DEF turns, reached
  <2> QED
    BY <2>1, <2>2 DEF DoublesAside!Init, TurnsInv
<1>2. IInv /\ RInv /\ TurnsInv /\ [Next]_vars =>
        TurnsInv' /\ [DoublesAside!Next]_(DoublesAside!vars)
  BY TurnsStep
<1>3. Spec => [](IInv /\ RInv)
  BY RInvHolds
<1> QED
  BY <1>1, <1>2, <1>3, PTL DEF Spec, FollowsScript, DoublesAside!Spec

-----------------------------------------------------------------------------
(* One LCD: no doubles.                                                    *)

\* Past the store of the status, a send thread asks for nothing any more.
Leaving == {"setlast", "setend", "setcmd"}

\* The frames of this round: still a command, or those of the PCS after r in the
\* inbox while the first r have theirs.
OnTheWay(l) ==
  \/ que2 = <<Cmd>> /\ inbox[l] = <<>> /\ got[Cur] = {} /\ ~Works(l)
  \/ /\ que2 = <<>>
     /\ \E r \in 0..PcsNum[l] :
          /\ got[Cur] = {l} \X (1..r)
          /\ Len(inbox[l]) = PcsNum[l] - r
          /\ \A i \in 1..Len(inbox[l]) : inbox[l][i] = <<Cur, r + i>>

Once(l) ==
  /\ Len(log) = Stage
  /\ Stage >= 2 =>
       /\ g_sys_status = Cmd => writer \in Storing
       /\ \A i \in 1..Len(que2) : que2[i] = Cmd
       /\ \A i \in 1..Len(inbox[l]) : inbox[l][i][1] = Cur
       /\ Busy(l) /\ Kind(l) # Cur => handler[l] \in Leaving
  /\ Stage \in 2..5 =>
       /\ OnTheWay(l)
       /\ g_sys_status = Script[Stage + 1] =>
            que2 = <<>> /\ inbox[l] = <<>> /\ (Busy(l) => handler[l] \in Leaving)

\* A step that leaves the commands and frames under way alone.
LEMMA OnceKept ==
  ASSUME RInv, NEW l \in Lcds, Once(l), UNCHANGED <<log, got, que2, inbox>>,
         Busy(l)' => Busy(l) /\ frame'[l] = frame[l],
         handler[l] \in Leaving /\ Busy(l)' => handler'[l] \in Leaving,
         Stage >= 2 /\ g_sys_status' = Cmd => writer' \in Storing,
         Stage \in 2..5 /\ g_sys_status' = Script[Stage + 1] =>
           que2 = <<>> /\ inbox[l] = <<>> /\ (Busy(l)' => handler'[l] \in Leaving)
  PROVE  Once(l)'
<1>1. Stage' = Stage /\ Cmd' = Cmd /\ Cur' = Cur
  BY SameLog, SameStage
<1>2. Works(l)' => Works(l)
  BY <1>1 DEF Works, Kind
<1>3. OnTheWay(l) => OnTheWay(l)'
  BY <1>1, <1>2 DEF OnTheWay
<1>4. Stage' >= 2 =>
        /\ g_sys_status' = Cmd' => writer' \in Storing
        /\ \A i \in 1..Len(que2') : que2'[i] = Cmd'
        /\ \A i \in 1..Len(inbox'[l]) : inbox'[l][i][1] = Cur'
        /\ Busy(l)' /\ Kind(l)' # Cur' => handler'[l] \in Leaving
  BY <1>1 DEF Once, Kind
<1>5. Stage' \in 2..5 =>
        /\ OnTheWay(l)'
        /\ g_sys_status' = Script[Stage' + 1] =>
             que2' = <<>> /\ inbox'[l] = <<>> /\ (Busy(l)' => handler'[l] \in Leaving)
  BY <1>1, <1>3 DEF Once
<1>6. Len(log') = Stage'
  BY <1>1 DEF Once
<1> QED
  BY <1>4, <1>5, <1>6 DEF Once

\* In the rounds the reader leaves the status alone, and the writer only takes
\* the command back that it has put.
LEMMA OnceEms ==
  ASSUME IInv, RInv, NEW l \in Lcds, Once(l),
         \/ Reader \/ WriterGate \/ WriterTest \/ Post \/ WriterLoads
         \/ WriterSetsLast \/ WriterSetsIdel
         \/ Report \/ Telemetry
  PROVE  Once(l)'
<1>0. Numbers
  BY StatusNumbers
<1>1. UNCHANGED <<log, got, que2, inbox, handler, frame>>
  BY DEF Reader, Attach, Wake, Drain, CountSetsLast, TelemetryTestsIdle, TelemetryStarts,
         DrainNext, WriterGate, WriterTest, Post, WriterLoads,
         WriterSetsLast, WriterSetsIdel, Report,
         Telemetry, shmVars, handlerVars, lcdVars, histVars
<1>2. Stage \in 0..6
  BY DEF RInv, LogInv
<1>3. ASSUME Stage >= 2
      PROVE  \/ g_sys_status' = 1
             \/ /\ UNCHANGED g_sys_status
                /\ writer \in Storing => writer' \in Storing
  <2>1. CASE Reader
    <3>1. que1 = <<>> \/ reader = "next"
      BY <1>3 DEF RInv, StartInv
    <3>2. UNCHANGED <<g_sys_status, writer>>
      BY <2>1, <3>1 DEF Reader, Attach, Wake, Drain, CountSetsLast, TelemetryTestsIdle,
         TelemetryStarts, DrainNext, statusVars, RInv, StartInv
    <3> QED
      BY <3>2
  <2>2. CASE Report \/ Telemetry
    BY <2>2 DEF Report, Telemetry, statusVars, emsVars
  <2>3. CASE WriterGate \/ WriterTest \/ Post \/ WriterLoads \/ WriterSetsLast
    BY <2>3 DEF WriterGate, WriterTest, Post, WriterLoads,
     WriterSetsLast, statusVars, Storing
  <2>4. CASE WriterSetsIdel
    BY <2>4, <1>0 DEF WriterSetsIdel, Numbers
  <2> QED
    BY <2>1, <2>2, <2>3, <2>4
<1>4. Stage \in 2..6 => Cmd # 1 /\ (Stage <= 5 => Script[Stage + 1] # 1)
  BY RoundTable, ScriptRounds
<1>5. Stage >= 2 /\ g_sys_status' = Cmd => writer' \in Storing
  BY <1>2, <1>3, <1>4 DEF Once
<1>6. Stage \in 2..5 /\ g_sys_status' = Script[Stage + 1] =>
        que2 = <<>> /\ inbox[l] = <<>> /\ (Busy(l)' => handler'[l] \in Leaving)
  BY <1>1, <1>2, <1>3, <1>4 DEF Once, Busy
<1> QED
  BY <1>1, <1>5, <1>6, OnceKept DEF Busy

\* A send thread that holds a frame: it asks for the next command when nothing
\* of the round is under way any more.
LEMMA OnceHand ==
  ASSUME NEW l, Lcds = {l}, IInv, RInv, Once(l), Handler(l), ~Take(l)
  PROVE  Once(l)'
<1>0. Numbers /\ l \in Lcds
  BY StatusNumbers
<1>1. /\ Moves(l) /\ Stage' = Stage /\ Cmd' = Cmd /\ UNCHANGED <<emsVars, shmVars, emuVars>>
  BY <1>0, HandKeeps
<1>2. Stage \in 2..6 /\ Kind(l) \in Kinds /\ RecentKind(Kind(l)) /\ (Works(l) <=> Kind(l) = Cur)
  BY <1>0, <1>1, HandOf DEF Moves
<1>3. /\ UNCHANGED <<log, got, que2, inbox>> /\ Busy(l)
      /\ Busy(l)' => frame'[l] = frame[l]
  BY <1>1 DEF Moves, Busy
<1>4. handler \in [Lcds -> {"idle", "zerolcd", "zeropcs", "firstload", "firststore",
         "arm", "load", "store", "testfull", "loadlcd", "storelcd", "testall", "disarm",
         "testlast", "testidle", "setstatus", "setlast", "setend", "setcmd"}]
  BY DEF IInv, TypeOK
<1>5. \A h : Goto(l, h) => handler'[l] = h
  BY <1>0, <1>4 DEF Goto
<1>6. handler[l] \in Leaving /\ Busy(l)' => handler'[l] \in Leaving
  <2>1. handler[l] \in Leaving => SetLast(l) \/ SetEnd(l) \/ SetCmd(l)
    BY DEF Leaving, Handler, ZeroLcd, ZeroPcs, Arm, LoadPcs, StorePcs, TestFull, LoadLcd,
       StoreLcd, TestAll, Disarm, TestLast, TestIdle, SetStatus
  <2>2. SetLast(l) \/ SetEnd(l) \/ SetCmd(l) =>
          handler'[l] \in {"setend", "setcmd", "idle"}
    BY <1>5 DEF SetLast, SetEnd, SetCmd, AfterCollection, Done
  <2> QED
    BY <2>1, <2>2 DEF Leaving, Busy
<1>7. CASE UNCHANGED g_sys_status
  <2>1. Stage >= 2 /\ g_sys_status' = Cmd => writer' \in Storing
    BY <1>1, <1>7 DEF Once, emsVars
  <2>2. Stage \in 2..5 /\ g_sys_status' = Script[Stage + 1] =>
          que2 = <<>> /\ inbox[l] = <<>> /\ (Busy(l)' => handler'[l] \in Leaving)
    BY <1>3, <1>6, <1>7 DEF Once
  <2> QED
    BY <1>0, <1>3, <1>6, <2>1, <2>2, OnceKept
<1>8. CASE SetStatus(l)
  <2>1. handler[l] = "setstatus" /\ g_sys_status' = To(Kind(l)) /\ handler'[l] = "setlast"
    BY <1>5, <1>8 DEF SetStatus
  <2>2. Kind(l) = Cur /\ Works(l)
    BY <1>2, <1>3, <2>1 DEF Once, Leaving
  <2>3. Full /\ Stage \in 2..5
    <3>1. Full
      BY <1>0, <1>2, <2>1, <2>2 DEF RInv, HandsInv, Ended
    <3>2. Kind(l) = "on" => Stage < 5
      BY <1>0, <2>1 DEF RInv, PlaceInv
    <3> QED
      BY <1>2, <2>2, <3>1, <3>2, RoundTable
  <2>4. que2 = <<>> /\ inbox[l] = <<>>
    <3>1. OnTheWay(l)
      BY <2>3 DEF Once
    <3>2. que2 = <<>>
      BY <3>1, <2>2 DEF OnTheWay
    <3>3. PICK r \in 0..PcsNum[l] : /\ got[Cur] = {l} \X (1..r)
                                    /\ Len(inbox[l]) = PcsNum[l] - r
      BY <3>1, <2>2 DEF OnTheWay
    <3>4. PcsNum[l] \in 1..6 /\ <<l, PcsNum[l]>> \in AllPcs
      BY <1>0, SequenceAssumption DEF AllPcs, Need
    <3>5. PcsNum[l] \in 1..r
      BY <2>3, <3>3, <3>4 DEF Full
    <3>6. Len(inbox[l]) = 0 /\ inbox[l] \in Seq(FramesOf(l))
      BY <1>0, <3>3, <3>4, <3>5 DEF IInv, HandlerInv
    <3> QED
      BY <3>2, <3>6
  <2>5. g_sys_status' # Cmd
    <3>1. Stage \in {2, 3, 4, 5}
      BY <2>3
    <3> QED
      BY <2>1, <2>2, <3>1, RoundTable, KindRounds
  <2> QED
    BY <1>0, <1>3, <1>6, <2>1, <2>4, <2>5, OnceKept DEF Leaving
<1> QED
  BY <1>0, <1>7, <1>8, HandChanges

\* The next frame is the oldest of the round, of the PCS after those served.
LEMMA OnceTake ==
  ASSUME NEW l, Lcds = {l}, IInv, RInv, Once(l), Take(l)
  PROVE  Once(l)'
<1>0. l \in Lcds
  OBVIOUS
<1>1. PICK k, p :
           /\ Stage \in 2..6 /\ k \in Kinds
           /\ inbox[l] \in Seq(FramesOf(l)) /\ Len(inbox[l]) >= 1
           /\ inbox[l][1] = <<k, p>>
           /\ Busy(l)' /\ Kind(l)' = k
           /\ inbox'[l] = Tail(inbox[l])
           /\ \A j \in Kinds : got'[j] = got[j] \cup (IF j = k THEN {<<l, p>>} ELSE {})
  BY <1>0, TakeGives
<1>2. UNCHANGED <<log, que2, g_sys_status, writer>>
  BY DEF Take, shmVars, statusVars, emsVars
<1>3. Stage' = Stage /\ Cmd' = Cmd /\ Cur' = Cur /\ Cur \in Kinds
  BY <1>1, <1>2, SameLog, SameStage, RoundTable
<1>4. /\ Len(inbox'[l]) = Len(inbox[l]) - 1 /\ Len(inbox[l]) \in Nat
      /\ \A i \in 1..Len(inbox'[l]) : /\ i + 1 \in 1..Len(inbox[l])
                                      /\ inbox'[l][i] = inbox[l][i + 1]
      /\ 1 \in 1..Len(inbox[l]) /\ inbox[l][1][1] = k /\ inbox[l] # <<>>
  BY <1>1
<1>5. k = Cur
  BY <1>1, <1>4 DEF Once
<1>6. Stage \in 2..5 => OnTheWay(l)'
  <2> SUFFICES ASSUME Stage \in 2..5 PROVE OnTheWay(l)'
    OBVIOUS
  <2>1. OnTheWay(l) /\ que2 = <<>>
    BY <1>4 DEF Once, OnTheWay
  <2>2. PICK r \in 0..PcsNum[l] :
          /\ got[Cur] = {l} \X (1..r)
          /\ Len(inbox[l]) = PcsNum[l] - r
          /\ \A i \in 1..Len(inbox[l]) : inbox[l][i] = <<Cur, r + i>>
    BY <2>1, <1>4 DEF OnTheWay
  <2>3. PcsNum[l] \in Nat
    BY <1>0, SequenceAssumption
  <2>4. p = r + 1
    BY <1>1, <1>4, <2>2
  <2>5. got'[Cur] = {l} \X (1..(r + 1))
    <3>1. got'[Cur] = got[Cur] \cup {<<l, r + 1>>}
      BY <1>1, <1>3, <1>5, <2>4
    <3>2. 1..(r + 1) = (1..r) \cup {r + 1}
      BY <2>3
    <3> QED
      BY <2>2, <3>1, <3>2
  <2>6. r + 1 \in 0..PcsNum[l] /\ Len(inbox'[l]) = PcsNum[l] - (r + 1)
    BY <1>1, <1>4, <2>2, <2>3
  <2>7. \A i \in 1..Len(inbox'[l]) : inbox'[l][i] = <<Cur, (r + 1) + i>>
    <3> TAKE i \in 1..Len(inbox'[l])
    <3>1. i + 1 \in 1..Len(inbox[l]) /\ inbox'[l][i] = inbox[l][i + 1]
      BY <1>4
    <3>2. r + (i + 1) = (r + 1) + i
      BY <1>4, <2>3
    <3> QED
      BY <2>2, <3>1, <3>2
  <2> QED
    BY <1>2, <1>3, <2>1, <2>5, <2>6, <2>7 DEF OnTheWay
<1>7. Stage >= 2 =>
        /\ g_sys_status' = Cmd' => writer' \in Storing
        /\ \A i \in 1..Len(que2') : que2'[i] = Cmd'
        /\ \A i \in 1..Len(inbox'[l]) : inbox'[l][i][1] = Cur'
        /\ Busy(l)' /\ Kind(l)' # Cur' => handler'[l] \in Leaving
  BY <1>1, <1>2, <1>3, <1>4, <1>5 DEF Once
<1>8. Stage \in 2..5 => g_sys_status' # Script[Stage + 1]
  BY <1>2, <1>4 DEF Once
<1> QED
  BY <1>2, <1>3, <1>6, <1>7, <1>8 DEF Once

\* The writer puts the next command, with nothing of the last round under way.
LEMMA OncePut ==
  ASSUME NEW l, Lcds = {l}, IInv, RInv, Once(l), Put
  PROVE  /\ Once(l)' /\ got' = got
         /\ Stage \in 0..5 /\ log' = Append(log, Script[Stage + 1])
         /\ Stage >= 2 => Full
<1>0. Numbers /\ l \in Lcds
  BY StatusNumbers
<1>1. /\ writer = "put" /\ writer' = "post" /\ que2' = Append(que2, g_sys_status)
      /\ UNCHANGED <<statusVars, handlerVars, lcdVars>>
  BY DEF Put
<1>2. UNCHANGED <<g_sys_status, handler, frame, inbox>>
  BY <1>1 DEF statusVars, handlerVars, lcdVars
<1>3. PICK s \in {Stage, Stage + 1} :
           /\ s \in 1..6 /\ g_sys_status = Script[s]
           /\ s = Stage => Stage >= 2
           /\ s # Stage /\ Stage >= 2 => Full
           /\ log' = Append(log, Script[s]) /\ got' = got
  BY PutIssues
<1>4. log \in Seq(Commands) /\ LogInv /\ Stage \in 0..6
  BY DEF IInv, TypeOK, RInv, LogInv
\* What has been put is taken back before the writer puts again.
<1>5. s = Stage + 1 /\ Stage \in 0..5
  <2>1. s = Stage => g_sys_status = Cmd /\ Stage >= 2
    BY <1>3 DEF Cmd
  <2> QED
    BY <1>1, <1>3, <1>4, <2>1 DEF Once, Storing
<1>6. Stage' = s /\ Cmd' = Script[s] /\ Cur' = KindSent(Script[s])
  <2>1. Stage' = s /\ Cmd' = Script[s]
    BY <1>3, <1>4, LogGrows
  <2> QED
    BY <2>1 DEF Cur
<1>7. Len(log') = s
  BY <1>3, <1>4, <1>5 DEF Once
<1>8. s >= 2 => /\ que2 = <<>> /\ inbox[l] = <<>>
                /\ Busy(l) => handler[l] \in Leaving /\ Stage >= 2 /\ Kind(l) = Cur
  <2>1. CASE s = 2
    <3>1. Stage = 1 /\ g_sys_status = EMS_START_EMU
      BY <2>1, <1>0, <1>3, <1>5, ScriptRounds DEF Numbers
    <3> QED
      BY <3>1, <1>0 DEF RInv, StartInv
  <2>2. CASE s >= 3
    <3>1. Stage \in 2..5 /\ Full
      BY <2>2, <1>3, <1>5
    <3> QED
      BY <3>1, <1>0, <1>3, <1>5 DEF Once, Full, Settled
  <2> QED
    BY <1>3, <2>1, <2>2
<1>9. s >= 2 => que2' = <<Cmd'>>
  BY <1>1, <1>3, <1>6, <1>8
<1>10. s \in 2..5 => OnTheWay(l)'
  <2> SUFFICES ASSUME s \in 2..5 PROVE OnTheWay(l)'
    OBVIOUS
  <2>1. got'[Cur'] = {}
    <3>1. Stage < s => got[KindSent(Script[s])] = {}
      BY DEF RInv, GotInv
    <3> QED
      BY <3>1, <1>3, <1>5, <1>6
  <2>2. ~Works(l)'
    <3>1. s \in {2, 3, 4, 5}
      OBVIOUS
    <3>2. Busy(l) => Kind(l) # KindSent(Script[s])
      BY <3>1, <1>5, <1>8, ScriptRounds, KindRounds, RoundTable
    <3> QED
      BY <3>2, <1>2, <1>6 DEF Works, Busy, Kind
  <2> QED
    BY <2>1, <2>2, <1>2, <1>8, <1>9 DEF OnTheWay
<1>11. s \in 2..5 => g_sys_status # Script[s + 1]
  <2>1. s \in 2..5 => s \in {2, 3, 4, 5}
    OBVIOUS
  <2> QED
    BY <2>1, <1>3, ScriptRounds
<1>12. Stage' >= 2 =>
        /\ g_sys_status' = Cmd' => writer' \in Storing
        /\ \A i \in 1..Len(que2') : que2'[i] = Cmd'
        /\ \A i \in 1..Len(inbox'[l]) : inbox'[l][i][1] = Cur'
        /\ Busy(l)' /\ Kind(l)' # Cur' => handler'[l] \in Leaving
  BY <1>1, <1>2, <1>6, <1>8, <1>9 DEF Storing, Busy
<1>13. Once(l)'
  BY <1>2, <1>6, <1>7, <1>10, <1>11, <1>12 DEF Once
<1> QED
  BY <1>3, <1>5, <1>13

\* The EMU sends each PCS its frame, once.
LEMMA OnceExecute ==
  ASSUME NEW l, Lcds = {l}, IInv, RInv, Once(l), Execute
  PROVE  Once(l)'
<1>0. Numbers /\ l \in Lcds
  BY StatusNumbers
<1>1. /\ UNCHANGED <<emsVars, statusVars, handlerVars, histVars>>
      /\ que2 # <<>> /\ que2' = Tail(que2)
  BY DEF Execute
<1>2. UNCHANGED <<log, got, writer, g_sys_status, handler, frame>>
  BY <1>1 DEF emsVars, statusVars, handlerVars, histVars
<1>3. Stage' = Stage /\ Cmd' = Cmd /\ Cur' = Cur /\ Stage \in 0..6
  BY <1>2, SameLog, SameStage DEF RInv, LogInv
<1>4. CASE Stage < 2
  BY <1>2, <1>3, <1>4 DEF Once
<1>5. CASE Stage >= 2
  <2>1. que2 \in Seq(Commands)
    BY DEF IInv, TypeOK
  <2>2. Head(que2) = Cmd /\ \A i \in 1..Len(que2') : que2'[i] = Cmd
    <3>1. \A i \in 1..Len(que2) : que2[i] = Cmd
      BY <1>5 DEF Once
    <3> QED
      BY <3>1, <2>1, <1>1
  <2>3. Cmd # EMS_COMMUNICATION_STATUS_SETTING
    BY <1>0, <1>3, <1>5, RoundTable DEF Numbers
  <2>4. inbox'[l] = inbox[l] \o [p \in Need(l) |-> <<Cur, p>>]
    BY <1>0, <2>2, <2>3 DEF Execute, Cur
  <2>5. PcsNum[l] \in 1..6 /\ Need(l) = 1..PcsNum[l]
    BY <1>0, SequenceAssumption DEF Need
  <2> DEFINE sent == [p \in Need(l) |-> <<Cur, p>>]
  <2>6. /\ sent \in Seq({Cur} \X Nat) /\ Len(sent) = PcsNum[l]
        /\ \A p \in 1..PcsNum[l] : sent[p] = <<Cur, p>>
    BY <2>5
  <2>7. inbox[l] \in Seq(FramesOf(l))
    BY <1>0 DEF IInv, HandlerInv
  <2>8. \A i \in 1..Len(inbox'[l]) : inbox'[l][i][1] = Cur
    <3>1. \A i \in 1..Len(inbox[l]) : inbox[l][i][1] = Cur
      BY <1>5 DEF Once
    <3>2. inbox'[l] = inbox[l] \o sent
      BY <2>4
    <3> HIDE DEF sent
    <3> QED
      BY <3>1, <3>2, <2>6, <2>7
  <2>9. Stage \in 2..5 => OnTheWay(l)'
    <3> SUFFICES ASSUME Stage \in 2..5 PROVE OnTheWay(l)'
      OBVIOUS
    <3>1. que2 = <<Cmd>> /\ inbox[l] = <<>> /\ got[Cur] = {} /\ ~Works(l)
      BY <1>1 DEF Once, OnTheWay
    <3>2. que2' = <<>>
      BY <1>1, <3>1
    <3>3. inbox'[l] = sent
      <4>1. inbox'[l] = <<>> \o sent
        BY <2>4, <3>1
      <4> HIDE DEF sent
      <4> QED
        BY <4>1, <2>6
    <3> HIDE DEF sent
    <3>4. 0 \in 0..PcsNum[l] /\ got'[Cur] = {l} \X (1..0) /\ Len(inbox'[l]) = PcsNum[l] - 0
      BY <1>2, <2>5, <2>6, <3>1, <3>3
    <3>5. \A i \in 1..Len(inbox'[l]) : inbox'[l][i] = <<Cur, 0 + i>>
      BY <2>5, <2>6, <3>3
    <3> QED
      BY <1>3, <3>2, <3>4, <3>5 DEF OnTheWay
  <2>10. Stage >= 2 =>
        /\ g_sys_status' = Cmd' => writer' \in Storing
        /\ \A i \in 1..Len(que2') : que2'[i] = Cmd'
        /\ \A i \in 1..Len(inbox'[l]) : inbox'[l][i][1] = Cur'
        /\ Busy(l)' /\ Kind(l)' # Cur' => handler'[l] \in Leaving
    BY <1>2, <1>3, <2>2, <2>8 DEF Once, Busy, Kind
  <2>11. Stage \in 2..5 => g_sys_status' # Script[Stage + 1]
    BY <1>1, <1>2 DEF Once
  <2> QED
    BY <1>2, <1>3, <2>9, <2>10, <2>11 DEF Once
<1> QED
  BY <1>3, <1>4, <1>5

LEMMA OnceStep ==
  ASSUME NEW l, Lcds = {l}, IInv, RInv, Once(l), [Next]_vars
  PROVE  Once(l)'
<1>0. l \in Lcds
  OBVIOUS
<1>1. CASE Reader \/ Report \/ Telemetry
  BY <1>0, <1>1, OnceEms
<1>2. CASE Writer
  BY <1>0, <1>2, OnceEms, OncePut DEF Writer
<1>3. CASE Execute
  BY <1>3, OnceExecute
<1>4. CASE \E m \in Lcds : Handler(m)
  <2>1. Handler(l)
    BY <1>4
  <2> QED
    BY <2>1, OnceTake, OnceHand
<1>5. CASE UNCHANGED vars
  <2>1. UNCHANGED <<log, got, que2, inbox, handler, frame, writer, g_sys_status>>
    BY <1>5 DEF vars, histVars, shmVars, lcdVars, handlerVars, emsVars, statusVars
  <2>2. /\ Stage >= 2 /\ g_sys_status' = Cmd => writer' \in Storing
        /\ Stage \in 2..5 /\ g_sys_status' = Script[Stage + 1] =>
             que2 = <<>> /\ inbox[l] = <<>> /\ (Busy(l)' => handler'[l] \in Leaving)
    BY <2>1 DEF Once, Busy
  <2> QED
    BY <1>0, <2>1, <2>2, OnceKept DEF Busy
<1> QED
  BY <1>1, <1>2, <1>3, <1>4, <1>5 DEF Next, Emu

LEMMA InitOnce == ASSUME NEW l, Init PROVE Once(l)
<1>1. log = <<>> /\ Stage = 0
  BY DEF Init, Stage
<1> QED
  BY <1>1 DEF Once

-----------------------------------------------------------------------------
(* The refinement.                                                         *)

\* Put is the abstract Issue.
LEMMA PutIsIssue ==
  ASSUME NEW l, Lcds = {l}, IInv, RInv, Once(l), Put
  PROVE  Abstract!Issue
<1>1. /\ Once(l)' /\ got' = got
      /\ Stage \in 0..5 /\ log' = Append(log, Script[Stage + 1])
      /\ Stage >= 2 => Full
  BY OncePut
<1>2. Len(log) = Stage /\ Stage' = Stage + 1 /\ log \in Seq(Commands)
  <2>1. Len(log) = Stage /\ log \in Seq(Commands)
    BY DEF Once, IInv, TypeOK
  <2>2. Len(log') = Len(log) + 1
    BY <1>1, <2>1, ScriptRounds, StatusNumbers
  <2> QED
    BY <1>1, <2>1, <2>2 DEF Once
<1>3. Len(log) < Len(Script) /\ log' = Append(log, Script[Len(log) + 1])
  BY <1>1, <1>2, ScriptRounds
<1>4. Abstract!RoundOver
  <2>1. CASE Stage = 0
    BY <2>1, <1>2 DEF Abstract!RoundOver
  <2>2. CASE Stage # 0
    BY <2>2, <1>1, FullIsOver DEF Abstract!RoundOver
  <2> QED
    BY <2>1, <2>2
<1>5. reached' = {}
  BY <1>1, <1>2, NewRound
<1> QED
  BY <1>3, <1>4, <1>5 DEF Abstract!Issue

LEMMA StepRefines ==
  ASSUME NEW l, Lcds = {l}, IInv, RInv, Once(l), [Next]_vars
  PROVE  [Abstract!Next]_(Abstract!vars)
<1>1. CASE Put
  BY <1>1, PutIsIssue DEF Abstract!Next
<1>2. CASE ~Put
  BY <1>2, OnlyReaches DEF Abstract!Next, Abstract!Reach, Abstract!vars
<1> QED
  BY <1>1, <1>2

\* In a session with one LCD of any number of PCS, reader, writer and send thread
\* together issue the commands of the script one at a time, each when every PCS
\* has received what the last one made the EMU send.
THEOREM OneLcdFollowsScript ==
  OneSession /\ (\E l : Lcds = {l}) => (Spec => ImplementsScript)
<1> SUFFICES ASSUME OneSession, NEW l, Lcds = {l} PROVE Spec => ImplementsScript
  OBVIOUS
<1>1. Init => Abstract!Init
  <2> SUFFICES ASSUME Init PROVE Abstract!Init
    OBVIOUS
  <2>1. Stage = 0
    BY DEF Init, Stage
  <2> QED
    BY <2>1 DEF Init, Abstract!Init, reached
<1>2. Init => Once(l)
  BY InitOnce
<1>3. IInv /\ RInv /\ Once(l) /\ [Next]_vars => Once(l)'
  BY OnceStep
<1>4. IInv /\ RInv /\ Once(l) /\ [Next]_vars => [Abstract!Next]_(Abstract!vars)
  BY StepRefines
<1>5. Spec => [](IInv /\ RInv)
  BY RInvHolds
<1> QED
  BY <1>1, <1>2, <1>3, <1>4, <1>5, PTL DEF Spec, ImplementsScript, Abstract!Spec
=============================================================================
