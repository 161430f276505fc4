------------------------- MODULE PcsRegistersProofs -------------------------
(***************************************************************************)
(* Proofs about PcsRegisters, for any send threads, PCS and powers.        *)
(***************************************************************************)
EXTENDS PcsRegisters, TLAPS

RegisterKinds == {"val_pw", "val_qw", "cmd_start_pcs", "status", "telemetry"}

LEMMA WordFacts ==
  /\ WORD \in Nat /\ WORD > 256 /\ 0 \in Words
  /\ START \in Words /\ STOP \in Words /\ WRONG \in Words
<1>1. WORD \in Nat /\ WORD > 256
  BY DEF WORD
<1> QED
  BY <1>1 DEF WORD, Words, START, STOP, WRONG

\* The cases of getPcsid do not overlap.
LEMMA CasesApart ==
  ASSUME NEW p \in 1..6, NEW q \in 1..6, NEW a \in PcsCases[p], a \in PcsCases[q]
  PROVE  p = q
  BY DEF PcsCases

\* The two tables agree: getPcsid finds the PCS whose address a list gives.
LEMMA TablesAgree ==
  ASSUME NEW k \in RegisterKinds, NEW p \in 1..6
  PROVE  getPcsid(Addresses[k][p]) = p
<1>1. Addresses[k][p] \in PcsCases[p]
  <2>1. CASE k = "val_pw"
    BY <2>1 DEF Addresses, PcsCases
  <2>2. CASE k = "val_qw"
    BY <2>2 DEF Addresses, PcsCases
  <2>3. CASE k = "cmd_start_pcs"
    BY <2>3 DEF Addresses, PcsCases
  <2>4. CASE k = "status"
    BY <2>4 DEF Addresses, PcsCases
  <2>5. CASE k = "telemetry"
    BY <2>5 DEF Addresses, PcsCases
  <2> QED
    BY <2>1, <2>2, <2>3, <2>4, <2>5 DEF RegisterKinds
<1> DEFINE a == Addresses[k][p]
<1> HIDE DEF a
<1>2. \A q \in 1..6 : a \in PcsCases[q] <=> q = p
  BY <1>1, CasesApart DEF a
<1>3. getPcsid(a) = p
  BY <1>2 DEF getPcsid
<1> QED
  BY <1>3 DEF a

\* The send threads' places: a thread that stores handles a write, one that
\* loads handles a read, and one past the first load a PCS that is started.
Loading == {"loadhi", "loadlo", "arg_pw", "arg_qw", "last_pw", "last_qw"}
PlaceInv ==
  \A s \in Senders :
    /\ place[s] = "store" => frame[s] \in Writes
    /\ place[s] = "loadcmd" => frame[s] \in Reads
    /\ place[s] \in Loading =>
         frame[s] \in Reads /\ Kind(s) = "telemetry" /\ Started(s)

\* What an undisturbed read has loaded so far is what the registers hold.
Loaded(s) ==
  LET p == frame[s][2]   qw == asked["val_qw"][p]
      at(S) == place[s] \in S \/ (place[s] = "reply" /\ Kind(s) = "telemetry" /\ Started(s))
  IN  /\ place[s] \in Loading \cup {"reply"} => seen[s]["cmd"] = asked["cmd_start_pcs"][p]
      /\ at({"loadlo", "arg_pw", "arg_qw", "last_pw", "last_qw"}) => seen[s]["hi"] = qw \div 256
      /\ at({"arg_pw", "arg_qw", "last_pw", "last_qw"}) => seen[s]["lo"] = qw % 256
      /\ at({"last_qw"}) => seen[s]["val_pw"] = asked["val_pw"][p]
      /\ at({"last_pw"}) => seen[s]["val_qw"] = qw

ReadInv == \A s \in Senders : frame[s] \in Reads /\ clean[s] => Loaded(s)

IInv == TypeOK /\ reg = asked /\ PlaceInv /\ ReadInv

\* A thread at work on a register has the PCS that is meant.
LEMMA MeantIsHit ==
  ASSUME IInv, NEW s \in Senders, frame[s] \in Writes \cup Reads
  PROVE  /\ Kind(s) \in RegisterKinds /\ frame[s][2] \in Slots
         /\ pcsid(s) = frame[s][2]
<1>1. Kind(s) \in RegisterKinds /\ frame[s][2] \in Slots
  BY DEF Writes, Reads, Kind, RegisterKinds
<1>2. frame[s][2] \in 1..6
  BY <1>1, RegistersAssumption
<1> QED
  BY <1>1, <1>2, TablesAgree DEF pcsid, Addr

LEMMA InitIInv == Init => IInv
<1> SUFFICES ASSUME Init PROVE IInv
  OBVIOUS
<1>1. \A s \in Senders : place[s] = "idle" /\ frame[s] = Other /\ clean[s]
  BY DEF Init
<1>2. frame \in [Senders -> Frames] /\ clean \in [Senders -> BOOLEAN]
  BY DEF Init, Frames
<1>3. seen \in [Senders -> [Fields -> Words]]
  BY WordFacts DEF Init, Nothing
<1>4. /\ reg \in [Regs -> [Slots -> Words]] /\ asked = reg
      /\ set_up \in [Slots -> 0..3] /\ frames \in 0..MaxFrames
  <2>1. asked = reg
    BY DEF Init
  <2>2. reg \in [Regs -> [Slots -> Words]] /\ set_up \in [Slots -> 0..3]
    BY WordFacts DEF Init
  <2>3. frames \in 0..MaxFrames
    <3>1. frames = 0 /\ MaxFrames \in Nat
      BY RegistersAssumption DEF Init
    <3> QED
      BY <3>1
  <2> QED
    BY <2>1, <2>2, <2>3
<1>5. TypeOK
  BY <1>1, <1>2, <1>3, <1>4 DEF TypeOK, Init
<1>6. PlaceInv
  BY <1>1 DEF PlaceInv, Loading
<1>7. Other \notin Reads
  BY DEF Other, Reads
<1>8. ReadInv
  BY <1>1, <1>7 DEF ReadInv
<1> QED
  BY <1>4, <1>5, <1>6, <1>8 DEF IInv

\* A store to the PCS meant: the registers still are what was asked, and a read
\* of that PCS by another thread is no longer undisturbed.
LEMMA StoreKeeps ==
  ASSUME IInv, NEW r \in Regs, NEW p \in Slots, NEW v \in Words, NEW S \in SUBSET Senders,
         StoreReg(r, p, p, v, S),
         \A s \in Senders \ S : frame[s] \notin Reads,
         UNCHANGED <<frame, seen>>,
         \A s \in Senders : frame[s] \in Reads => place'[s] = place[s]
  PROVE  /\ reg' \in [Regs -> [Slots -> Words]] /\ reg' = asked'
         /\ clean' \in [Senders -> BOOLEAN] /\ ReadInv'
<1> USE DEF IInv
<1>1. reg' = asked' /\ asked' = [asked EXCEPT ![r][p] = v]
  BY DEF StoreReg
<1>2. reg' \in [Regs -> [Slots -> Words]]
  BY <1>1 DEF TypeOK
<1>3. clean' = [s \in Senders |-> clean[s] /\ ~(s \in S /\ frame[s][2] = p)]
  BY DEF StoreReg, Dirty
<1>4. clean' \in [Senders -> BOOLEAN]
  BY <1>3 DEF TypeOK
<1>5. ASSUME NEW s \in Senders, frame'[s] \in Reads, clean'[s]
      PROVE  Loaded(s)'
  <2>1. frame[s] \in Reads /\ clean[s] /\ frame[s][2] # p /\ s \in S
    BY <1>3, <1>5
  <2>2. frame[s][2] \in Slots
    BY <2>1, MeantIsHit
  <2>3. \A k \in Regs : asked'[k][frame[s][2]] = asked[k][frame[s][2]]
    BY <1>1, <2>1, <2>2 DEF TypeOK
  <2>4. Loaded(s)
    BY <2>1 DEF ReadInv
  <2> QED
    BY <2>1, <2>3, <2>4 DEF Loaded, Loading, Kind, Started, Regs
<1> QED
  BY <1>1, <1>2, <1>4, <1>5 DEF ReadInv
LEMMA InitDataStep == ASSUME IInv, NEW p \in Slots, initData(p) PROVE IInv'
<1> DEFINE r == InitOrder[set_up[p] + 1]
           v == IF r = "cmd_start_pcs" THEN STOP ELSE 0
<1>1. /\ set_up[p] < 3 /\ set_up' = [set_up EXCEPT ![p] = @ + 1]
      /\ StoreReg(r, p, p, v, Senders) /\ UNCHANGED <<place, frame, seen, frames>>
  BY DEF initData
<1>2. set_up[p] \in 0..2 /\ set_up' \in [Slots -> 0..3]
  BY <1>1 DEF IInv, TypeOK
<1>3. r \in Regs /\ v \in Words
  BY <1>2, WordFacts DEF InitOrder, Regs
<1> HIDE DEF r, v
<1>4. /\ reg' \in [Regs -> [Slots -> Words]] /\ reg' = asked'
      /\ clean' \in [Senders -> BOOLEAN] /\ ReadInv'
  BY <1>1, <1>3, StoreKeeps
<1>5. TypeOK'
  BY <1>1, <1>2, <1>4 DEF IInv, TypeOK
<1>6. PlaceInv'
  BY <1>1 DEF IInv, PlaceInv, Kind, Started
<1> QED
  BY <1>4, <1>5, <1>6 DEF IInv

\* What is stored is cut to a word, and a word is its two bytes.
LEMMA StoredWord ==
  ASSUME NEW k, NEW v \in Words
  PROVE  Stored(k, v) \in Words
<1>1. v * 10 \in Int
  BY WordFacts DEF Words
<1>2. \A x \in Int : x % WORD \in Words
  BY WordFacts DEF Words
<1> QED
  BY <1>1, <1>2 DEF Stored

LEMMA TwoBytes ==
  ASSUME NEW v \in Words
  PROVE  /\ v % 256 \in Words /\ v \div 256 \in Words
         /\ 256 * (v \div 256) + (v % 256) = v
<1>1. v \in Nat /\ v < WORD
  BY WordFacts DEF Words
<1>2. v % 256 \in 0..255 /\ v \div 256 \in Nat /\ v = 256 * (v \div 256) + (v % 256)
  BY <1>1
<1>3. v \div 256 <= v
  BY <1>1, <1>2
<1>4. v % 256 < WORD /\ v \div 256 < WORD
  BY <1>1, <1>2, <1>3, WordFacts
<1>5. v % 256 \in Words /\ v \div 256 \in Words
  BY <1>2, <1>4, WordFacts DEF Words
<1> QED
  BY <1>2, <1>5

LEMMA WriteStep == ASSUME IInv, NEW s \in Senders, Analysfun06(s) PROVE IInv'
<1> DEFINE p == frame[s][2]
           v == Stored(Kind(s), frame[s][3])
<1>1. frame[s] \in Writes
  BY DEF Analysfun06, IInv, PlaceInv
<1>2. p \in Slots /\ pcsid(s) = p /\ Kind(s) \in Regs
  BY <1>1, MeantIsHit DEF Writes, Kind, Regs
<1>3. v \in Words
  <2>1. frame[s][3] \in Words
    <3>1. frame[s][3] \in Powers \cup {START, STOP, WRONG}
      BY <1>1 DEF Writes
    <3>2. Powers \subseteq Words /\ {START, STOP, WRONG} \subseteq Words
      BY RegistersAssumption, WordFacts
    <3> QED
      BY <3>1, <3>2
  <2> QED
    BY <2>1, StoredWord
<1>4. /\ StoreReg(Kind(s), p, p, v, Senders \ {s}) /\ UNCHANGED <<set_up, frame, seen, frames>>
      /\ place' = [place EXCEPT ![s] = "reply"]
  BY <1>2 DEF Analysfun06, Goto
<1>5. frame[s] \notin Reads
  BY <1>1 DEF Writes, Reads
<1> HIDE DEF p, v
<1>6. \A t \in Senders : t # s => place'[t] = place[t]
  BY <1>4 DEF IInv, TypeOK
<1>7. /\ reg' \in [Regs -> [Slots -> Words]] /\ reg' = asked'
      /\ clean' \in [Senders -> BOOLEAN] /\ ReadInv'
  BY <1>2, <1>3, <1>4, <1>5, <1>6, StoreKeeps
<1>8. TypeOK'
  BY <1>4, <1>7 DEF IInv, TypeOK
<1>9. PlaceInv'
  <2>1. place'[s] = "reply"
    BY <1>4 DEF IInv, TypeOK
  <2> QED
    BY <1>4, <1>6, <2>1 DEF IInv, PlaceInv, Kind, Started, Loading
<1> QED
  BY <1>7, <1>8, <1>9 DEF IInv

LEMMA TakeStep == ASSUME IInv, NEW s \in Senders, AnalysModbus(s) PROVE IInv'
<1>1. PICK f \in Frames :
        /\ frame' = [frame EXCEPT ![s] = f]
        /\ Goto(s, CASE f \in Writes -> "store" [] f \in Reads -> "loadcmd"
                     [] f = Other -> "reply")
  BY DEF AnalysModbus
<1>2. PICK h \in {"store", "loadcmd", "reply"} :
        /\ place' = [place EXCEPT ![s] = h]
        /\ h = "store" => f \in Writes
        /\ h = "loadcmd" => f \in Reads
        /\ h = "reply" => f = Other
  <2>1. CASE f \in Writes
    <3>1. f \notin Reads /\ f # Other
      BY <2>1 DEF Writes, Reads, Other
    <3> QED
      BY <1>1, <2>1, <3>1 DEF Goto
  <2>2. CASE f \in Reads
    <3>1. f \notin Writes /\ f # Other
      BY <2>2 DEF Writes, Reads, Other
    <3> QED
      BY <1>1, <2>2, <3>1 DEF Goto
  <2>3. CASE f = Other
    <3>1. f \notin Writes /\ f \notin Reads
      BY <2>3 DEF Writes, Reads, Other
    <3> QED
      BY <1>1, <2>3, <3>1 DEF Goto
  <2> QED
    BY <2>1, <2>2, <2>3 DEF Frames
<1>3. /\ frames < MaxFrames /\ frames' = frames + 1 /\ UNCHANGED <<reg, set_up, asked>>
      /\ seen' = [seen EXCEPT ![s] = Nothing] /\ clean' = [clean EXCEPT ![s] = TRUE]
  BY DEF AnalysModbus
<1>4. \A t \in Senders : t # s => /\ place'[t] = place[t] /\ frame'[t] = frame[t]
                                  /\ seen'[t] = seen[t] /\ clean'[t] = clean[t]
  BY <1>1, <1>2, <1>3 DEF IInv, TypeOK
<1>5. place'[s] = h /\ frame'[s] = f
  BY <1>1, <1>2 DEF IInv, TypeOK
<1>6. Other \notin Reads
  BY DEF Other, Reads
<1>7. TypeOK'
  <2>1. frames' \in 0..MaxFrames
    <3>1. frames \in 0..MaxFrames /\ MaxFrames \in Nat
      BY RegistersAssumption DEF IInv, TypeOK
    <3> QED
      BY <1>3, <3>1
  <2>2. clean' \in [Senders -> BOOLEAN]
    <3>1. clean \in [Senders -> BOOLEAN]
      BY DEF IInv, TypeOK
    <3> QED
      BY <1>3, <3>1
  <2>3. seen' \in [Senders -> [Fields -> Words]]
    <3>1. Nothing \in [Fields -> Words]
      BY WordFacts DEF Nothing
    <3>2. seen \in [Senders -> [Fields -> Words]]
      BY DEF IInv, TypeOK
    <3> QED
      BY <1>3, <3>1, <3>2
  <2> QED
    BY <1>1, <1>2, <1>3, <2>1, <2>2, <2>3 DEF IInv, TypeOK
<1>8. PlaceInv'
  BY <1>2, <1>4, <1>5 DEF IInv, PlaceInv, Loading, Kind, Started
<1>9. ReadInv'
  <2>1. ASSUME NEW t \in Senders, frame'[t] \in Reads, clean'[t] PROVE Loaded(t)'
    <3>1. CASE t = s
      <4>1. place'[t] \in {"store", "loadcmd"}
        BY <1>2, <1>5, <1>6, <2>1, <3>1
      <4> QED
        BY <4>1 DEF Loaded, Loading
    <3>2. CASE t # s
      <4>1. Loaded(t)
        BY <1>4, <2>1, <3>2 DEF IInv, ReadInv
      <4> QED
        BY <1>3, <1>4, <3>2, <4>1 DEF Loaded, Loading, Kind, Started
    <3> QED
      BY <3>1, <3>2
  <2> QED
    BY <2>1 DEF ReadInv
<1> QED
  BY <1>3, <1>7, <1>8, <1>9 DEF IInv

\* A load or the reply: nothing changes but the thread's place and what it has
\* seen.  It suffices to look at that thread.
LEMMA LoadKeeps ==
  ASSUME IInv, NEW s \in Senders, OnlySender, NEW h, NEW w,
         place' = [place EXCEPT ![s] = h], seen' = [seen EXCEPT ![s] = w],
         h \in Loading \cup {"idle", "reply"}, w \in [Fields -> Words],
         h \in Loading => frame[s] \in Reads /\ Kind(s) = "telemetry" /\ w["cmd"] = START,
         frame[s] \in Reads /\ clean[s] => Loaded(s)'
  PROVE  IInv'
<1> USE DEF IInv
<1>1. UNCHANGED <<reg, set_up, frame, frames, asked, clean>>
  BY DEF OnlySender
<1>2. /\ place'[s] = h /\ seen'[s] = w
      /\ \A t \in Senders : t # s => place'[t] = place[t] /\ seen'[t] = seen[t]
  BY DEF TypeOK
<1>3. TypeOK'
  BY <1>1 DEF TypeOK, Loading
<1>4. PlaceInv'
  BY <1>1, <1>2 DEF PlaceInv, Loading, Kind, Started
<1>5. ReadInv'
  <2>1. ASSUME NEW t \in Senders, t # s, Loaded(t) PROVE Loaded(t)'
    BY <1>1, <1>2, <2>1 DEF Loaded, Loading, Kind, Started
  <2> QED
    BY <1>1, <2>1 DEF ReadInv
<1> QED
  BY <1>1, <1>3, <1>4, <1>5

\* What the thread reads is the register of the PCS meant.
LEMMA LoadReads ==
  ASSUME IInv, NEW s \in Senders, frame[s] \in Reads, NEW r \in Regs
  PROVE  /\ frame[s][2] \in Slots /\ reg[r][pcsid(s)] \in Words
         /\ reg[r][pcsid(s)] = asked[r][frame[s][2]]
  BY MeantIsHit DEF IInv, TypeOK

LEMMA ReadStep ==
  ASSUME IInv, NEW s \in Senders,
         LoadCmd(s) \/ LoadHigh(s) \/ LoadLow(s) \/ LoadPw(s) \/ LoadQw(s) \/ Reply(s)
  PROVE  IInv'
<1> DEFINE p == frame[s][2]
<1>0. seen \in [Senders -> [Fields -> Words]]
  BY DEF IInv, TypeOK
<1>1. OnlySender /\ frame' = frame /\ asked' = asked
  BY DEF LoadCmd, LoadHigh, LoadLow, LoadPw, LoadQw, LoadArgument, Reply, OnlySender
<1>2. frame[s] \in Reads /\ clean[s] => Loaded(s)
  BY DEF IInv, ReadInv
<1>3. ASSUME NEW h, NEW w, place' = [place EXCEPT ![s] = h], seen' = [seen EXCEPT ![s] = w]
      PROVE  place'[s] = h /\ seen'[s] = w
  BY <1>3 DEF IInv, TypeOK
<1>4. CASE LoadCmd(s)
  <2> DEFINE cmd == reg["cmd_start_pcs"][pcsid(s)]
             w   == [seen[s] EXCEPT !["cmd"] = cmd]
  <2>1. frame[s] \in Reads /\ cmd \in Words /\ cmd = asked["cmd_start_pcs"][p]
    BY <1>4, LoadReads DEF LoadCmd, IInv, PlaceInv, Regs
  <2>2. PICK h \in {"loadhi", "reply"} :
          /\ place' = [place EXCEPT ![s] = h] /\ seen' = [seen EXCEPT ![s] = w]
          /\ h = "loadhi" <=> Kind(s) = "telemetry" /\ cmd = START
    BY <1>4 DEF LoadCmd, Goto, See
  <2> HIDE DEF cmd
  <2>3. /\ seen' = [seen EXCEPT ![s] = w] /\ w \in [Fields -> Words]
        /\ place'[s] = h /\ seen'[s] = w /\ w["cmd"] = cmd
    <3>1. w \in [Fields -> Words] /\ w["cmd"] = cmd
      BY <1>0, <2>1 DEF Fields
    <3> HIDE DEF w
    <3> QED
      BY <1>3, <3>1, <2>2
  <2>4. Loaded(s)'
    BY <1>1, <2>1, <2>2, <2>3 DEF Loaded, Loading, Kind, Started
  <2> HIDE DEF w
  <2> QED
    BY <1>1, <2>1, <2>2, <2>3, <2>4, LoadKeeps DEF Loading
<1>5. CASE LoadHigh(s)
  <2> DEFINE qw == reg["val_qw"][pcsid(s)]
             w  == [seen[s] EXCEPT !["hi"] = qw \div 256]
  <2>1. /\ place[s] = "loadhi" /\ frame[s] \in Reads /\ Kind(s) = "telemetry"
        /\ seen[s]["cmd"] = START
    BY <1>5 DEF LoadHigh, IInv, PlaceInv, Loading, Started
  <2>2. qw \in Words /\ qw = asked["val_qw"][p]
    BY <2>1, LoadReads DEF Regs
  <2>3. place' = [place EXCEPT ![s] = "loadlo"] /\ seen' = [seen EXCEPT ![s] = w]
    BY <1>5 DEF LoadHigh, Goto, ReactivePower, See
  <2> HIDE DEF qw
  <2>4. qw \div 256 \in Words
    BY <2>2, TwoBytes
  <2>5. /\ seen' = [seen EXCEPT ![s] = w] /\ w \in [Fields -> Words] /\ w["cmd"] = START
        /\ place'[s] = "loadlo" /\ seen'[s] = w /\ w["hi"] = qw \div 256
    <3>1. w \in [Fields -> Words] /\ w["cmd"] = START /\ w["hi"] = qw \div 256
      BY <1>0, <2>1, <2>4 DEF Fields
    <3> HIDE DEF w
    <3> QED
      BY <1>3, <3>1, <2>3
  <2>6. clean[s] => Loaded(s)'
    BY <1>1, <1>2, <2>1, <2>2, <2>5 DEF Loaded, Loading, Kind, Started
  <2> HIDE DEF w
  <2> QED
    BY <1>1, <2>1, <2>3, <2>5, <2>6, LoadKeeps DEF Loading
<1>6. CASE LoadLow(s)
  <2> DEFINE qw == reg["val_qw"][pcsid(s)]
             w  == [seen[s] EXCEPT !["lo"] = qw % 256]
  <2>1. /\ place[s] = "loadlo" /\ frame[s] \in Reads /\ Kind(s) = "telemetry"
        /\ seen[s]["cmd"] = START
    BY <1>6 DEF LoadLow, IInv, PlaceInv, Loading, Started
  <2>2. qw \in Words /\ qw = asked["val_qw"][p]
    BY <2>1, LoadReads DEF Regs
  <2>3. PICK h \in {"arg_pw", "arg_qw"} :
          place' = [place EXCEPT ![s] = h] /\ seen' = [seen EXCEPT ![s] = w]
    BY <1>6 DEF LoadLow, Goto, ReactivePower, See
  <2> HIDE DEF qw
  <2>4. qw % 256 \in Words
    BY <2>2, TwoBytes
  <2>5. /\ seen' = [seen EXCEPT ![s] = w] /\ w \in [Fields -> Words] /\ w["cmd"] = START
        /\ place'[s] = h /\ seen'[s] = w /\ w["lo"] = qw % 256 /\ w["hi"] = seen[s]["hi"]
    <3>1. w \in [Fields -> Words] /\ w["cmd"] = START /\ w["lo"] = qw % 256 /\ w["hi"] = seen[s]["hi"]
      BY <1>0, <2>1, <2>4 DEF Fields
    <3> HIDE DEF w
    <3> QED
      BY <1>3, <3>1, <2>3
  <2>6. clean[s] => Loaded(s)'
    BY <1>1, <1>2, <2>1, <2>2, <2>3, <2>5 DEF Loaded, Loading, Kind, Started
  <2> HIDE DEF w
  <2> QED
    BY <1>1, <2>1, <2>3, <2>5, <2>6, LoadKeeps DEF Loading
<1>7. ASSUME NEW r \in {"val_pw", "val_qw"},
             LoadArgument(s, r, IF r = "val_pw" THEN "arg_pw" ELSE "arg_qw",
                          IF r = "val_pw" THEN "last_pw" ELSE "last_qw",
                          IF r = "val_pw" THEN "last_qw" ELSE "last_pw")
      PROVE  IInv'
  <2> DEFINE x == reg[r][pcsid(s)]
             w == [seen[s] EXCEPT ![r] = x]
  <2>1. place[s] \in Loading
    BY <1>7 DEF LoadArgument, Loading
  <2>2. frame[s] \in Reads /\ Kind(s) = "telemetry" /\ seen[s]["cmd"] = START
    BY <2>1 DEF IInv, PlaceInv, Started
  <2>3. x \in Words /\ x = asked[r][p]
    BY <2>2, LoadReads DEF Regs
  <2>4. PICK g \in {"last_pw", "last_qw", "reply"} :
          /\ place' = [place EXCEPT ![s] = g] /\ seen' = [seen EXCEPT ![s] = w]
          /\ g = "reply" <=> place[s] = IF r = "val_pw" THEN "last_pw" ELSE "last_qw"
          /\ g # "reply" => /\ place[s] = IF r = "val_pw" THEN "arg_pw" ELSE "arg_qw"
                            /\ g = IF r = "val_pw" THEN "last_qw" ELSE "last_pw"
    BY <1>7 DEF LoadArgument, Goto, See
  <2> HIDE DEF x
  <2>5. /\ seen' = [seen EXCEPT ![s] = w] /\ w \in [Fields -> Words] /\ w["cmd"] = START
        /\ place'[s] = g /\ seen'[s] = w /\ w[r] = x
        /\ \A f \in Fields : f # r => w[f] = seen[s][f]
    <3>1. w \in [Fields -> Words] /\ w["cmd"] = START /\ w[r] = x
          /\ \A f \in Fields : f # r => w[f] = seen[s][f]
      BY <1>0, <2>2, <2>3 DEF Fields
    <3> HIDE DEF w
    <3> QED
      BY <1>3, <3>1, <2>4
  <2>6. ASSUME clean[s] PROVE Loaded(s)'
    <3>1. Loaded(s)
      BY <1>2, <2>2, <2>6
    <3> QED
      BY <1>1, <2>2, <2>3, <2>4, <2>5, <3>1 DEF Loaded, Loading, Kind, Started, Fields
  <2> HIDE DEF w
  <2> QED
    BY <1>1, <2>2, <2>4, <2>5, <2>6, LoadKeeps DEF Loading
<1>8. CASE LoadPw(s)
  BY <1>7, <1>8 DEF LoadPw
<1>9. CASE LoadQw(s)
  BY <1>7, <1>9 DEF LoadQw
<1>10. CASE Reply(s)
  <2>1. place' = [place EXCEPT ![s] = "idle"] /\ seen' = seen
    BY <1>10 DEF Reply, Goto
  <2>2. seen' = [seen EXCEPT ![s] = seen[s]] /\ seen[s] \in [Fields -> Words]
    BY <1>0, <2>1
  <2>3. place'[s] = "idle"
    BY <2>1 DEF IInv, TypeOK
  <2>4. Loaded(s)'
    BY <2>3 DEF Loaded, Loading
  <2> QED
    BY <1>1, <2>1, <2>2, <2>4, LoadKeeps DEF Loading
<1> QED
  BY <1>4, <1>5, <1>6, <1>8, <1>9, <1>10

LEMMA IInvHolds == Spec => []IInv
<1>1. IInv /\ [Next]_vars => IInv'
  <2>1. CASE UNCHANGED vars
    BY <2>1 DEF vars, IInv, TypeOK, PlaceInv, ReadInv, Loaded, Loading, Kind, Started
  <2> QED
    BY <2>1, InitDataStep, WriteStep, TakeStep, ReadStep DEF Next, Sender
<1> QED
  BY InitIInv, <1>1, PTL DEF Spec

-----------------------------------------------------------------------------
(* The theorems.                                                           *)

\* The registers stay words and nothing is stored outside the arrays, for any
\* number of send threads and any powers.
THEOREM RegistersTypeCorrect == Spec => []TypeOK
<1>1. IInv => TypeOK
  BY DEF IInv
<1> QED
  BY IInvHolds, <1>1, PTL

\* The lists of the handlers and the switch of getPcsid agree on all thirty
\* addresses, so every frame works on the registers of the PCS it is meant for.
THEOREM EveryPcsItsRegisters == Spec => []OwnRegisters
<1>1. IInv => OwnRegisters
  <2>1. ASSUME IInv, NEW s \in Senders, place[s] \notin {"idle", "reply"}
        PROVE  pcsid(s) = frame[s][2]
    <3>1. frame[s] \in Writes \cup Reads
      BY <2>1 DEF IInv, TypeOK, PlaceInv, Loading
    <3> QED
      BY <2>1, <3>1, MeantIsHit
  <2> QED
    BY <2>1 DEF OwnRegisters
<1> QED
  BY IInvHolds, <1>1, PTL

\* An answer nobody interfered with tells what the registers were last set to:
\* an old send thread, another connection and initData may all be at work.
THEOREM UndisturbedAnswers == Spec => []AnswerIsCurrent
<1>1. IInv => AnswerIsCurrent
  <2>1. ASSUME IInv, NEW s \in Senders, place[s] = "reply", frame[s] \in Reads, clean[s]
        PROVE  /\ seen[s]["cmd"] = asked["cmd_start_pcs"][frame[s][2]]
               /\ Kind(s) = "telemetry" /\ Started(s) =>
                    /\ 256 * seen[s]["hi"] + seen[s]["lo"] = asked["val_qw"][frame[s][2]]
                    /\ \A r \in {"val_pw", "val_qw"} : seen[s][r] = asked[r][frame[s][2]]
    <3>1. Loaded(s)
      BY <2>1 DEF IInv, ReadInv
    <3>2. asked["val_qw"][frame[s][2]] \in Words
      BY <2>1, LoadReads DEF IInv, Regs
    <3> DEFINE qw == asked["val_qw"][frame[s][2]]
    <3>3. qw \in Words
      BY <3>2
    <3> HIDE DEF qw
    <3>4. 256 * (qw \div 256) + (qw % 256) = qw
      BY <3>3, TwoBytes
    <3>5. Kind(s) = "telemetry" /\ Started(s) =>
            /\ seen[s]["hi"] = qw \div 256 /\ seen[s]["lo"] = qw % 256
            /\ \A r \in {"val_pw", "val_qw"} : seen[s][r] = asked[r][frame[s][2]]
      BY <2>1, <3>1 DEF Loaded, qw
    <3>6. seen[s]["cmd"] = asked["cmd_start_pcs"][frame[s][2]]
      BY <2>1, <3>1 DEF Loaded
    <3>7. Kind(s) = "telemetry" /\ Started(s) => 256 * seen[s]["hi"] + seen[s]["lo"] = qw
      BY <3>4, <3>5
    <3> QED
      BY <3>5, <3>6, <3>7 DEF qw
  <2> QED
    BY <2>1 DEF AnswerIsCurrent
<1> QED
  BY IInvHolds, <1>1, PTL

-----------------------------------------------------------------------------
(* Apparent_Power.                                                         *)

\* A product grows with its factors.
LEMMA ProductBound ==
  ASSUME NEW a \in Nat, NEW b \in Nat, NEW c \in Nat, NEW d \in Nat, a <= c, b <= d
  PROVE  a * b \in Nat /\ a * b <= c * d
<1>1. a * b <= c * b BY SMT
<1>2. c * b <= c * d BY SMT
<1> QED BY SMT, <1>1, <1>2

\* The square of a number below 2^15 as two halves.
LEMMA SquareHalves ==
  ASSUME NEW x \in Nat, x < 32768
  PROVE  /\ Square(x)[1] \in Nat /\ Square(x)[1] < 16384
         /\ Square(x)[2] \in Nat /\ Square(x)[2] < 65536
         /\ 65536 * Square(x)[1] + Square(x)[2] = x * x
<1> DEFINE h == x \div 256
           l == x % 256
           a == h * h
           b == h * l
           c == l * l
           m == 512 * b + c
           v == m \div 65536
           w == m % 65536
<1>1. h \in Nat /\ h <= 127 /\ l \in Nat /\ l <= 255 /\ x = 256 * h + l BY SMT
<1>2. Square(x) = <<(h * h + (512 * h * l + l * l) \div 65536) % 65536,
                    (512 * h * l + l * l) % 65536>>
  BY SMT DEF Square
<1> HIDE DEF h, l
<1>3. a \in Nat /\ a <= 127 * 127 BY SMT, <1>1, ProductBound
<1>4. b \in Nat /\ b <= 127 * 255 BY SMT, <1>1, ProductBound
<1>5. c \in Nat /\ c <= 255 * 255 BY SMT, <1>1, ProductBound
<1>6. x * x = 65536 * a + m
  <2>1. x * x = (256 * h + l) * (256 * h + l) BY SMT, <1>1
  <2>2. (256 * h + l) * (256 * h + l) = 65536 * (h * h) + (512 * (h * l) + l * l)
    BY SMT, <1>1
  <2> QED BY SMT, <2>1, <2>2
<1>7. 512 * h * l + l * l = m BY SMT, <1>1
<1>8. Square(x) = <<(a + v) % 65536, w>> BY SMT, <1>2, <1>7
<1> HIDE DEF a, b, c
<1>9. m \in Nat /\ m < 256 * 65536 BY SMT, <1>4, <1>5
<1> HIDE DEF m
<1>10. v \in Nat /\ v < 256 /\ w \in Nat /\ w < 65536 /\ m = 65536 * v + w
  BY SMT, <1>9
<1> HIDE DEF v, w
<1>11. (a + v) % 65536 = a + v /\ a + v \in Nat BY SMT, <1>3, <1>10
<1>12. 65536 * (a + v) + w = x * x BY SMT, <1>3, <1>6, <1>10
<1>13. x * x <= 32767 * 32767 BY SMT, ProductBound
<1>14. a + v < 16384 BY SMT, <1>10, <1>11, <1>12, <1>13
<1> QED BY SMT, <1>8, <1>10, <1>11, <1>12, <1>14

\* The sum of two such numbers.
LEMMA PlusHalves ==
  ASSUME NEW a1 \in Nat, NEW a2 \in Nat, NEW b1 \in Nat, NEW b2 \in Nat,
         a1 < 16384, a2 < 65536, b1 < 16384, b2 < 65536
  PROVE  \E p1, p2 \in Nat : /\ Plus(<<a1, a2>>, <<b1, b2>>) = <<p1, p2>>
                             /\ p1 < 32768
                             /\ 65536 * p1 + p2 = (65536 * a1 + a2) + (65536 * b1 + b2)
<1> DEFINE c == (a2 + b2) \div 65536
           d == (a2 + b2) % 65536
<1>1. c \in 0..1 /\ d \in Nat /\ a2 + b2 = 65536 * c + d BY SMT
<1>2. Plus(<<a1, a2>>, <<b1, b2>>) = <<(a1 + b1 + c) % 65536, d>> BY SMT DEF Plus
<1> HIDE DEF c, d
<1>3. (a1 + b1 + c) % 65536 = a1 + b1 + c /\ a1 + b1 + c \in Nat BY SMT, <1>1
<1>4. a1 + b1 + c < 32768 BY SMT, <1>1
<1> QED BY SMT, <1>1, <1>2, <1>3, <1>4

\* One step of a bisection of the interval that holds the root.
LEMMA Halved ==
  ASSUME NEW n \in Nat, NEW h \in Nat, NEW u \in Nat, NEW s \in Nat,
         \E r \in Nat : h <= r /\ r + 2 * s <= u /\ r * r <= n
                        /\ n < (r + 2 * s) * (r + 2 * s)
  PROVE  \E r \in Nat : h <= r /\ r + s <= u /\ r * r <= n /\ n < (r + s) * (r + s)
<1>1. PICK r \in Nat : h <= r /\ r + 2 * s <= u /\ r * r <= n
                       /\ n < (r + 2 * s) * (r + 2 * s)
  BY SMT
<1> DEFINE q == r + s
<1>2. q \in Nat /\ h <= q /\ q + s <= u /\ q + s = r + 2 * s BY SMT, <1>1
<1>3. q * q \in Nat BY SMT, <1>2
<1>4. CASE q * q <= n BY SMT, <1>1, <1>2, <1>4
<1>5. CASE n < q * q BY SMT, <1>1, <1>5
<1> QED BY SMT, <1>3, <1>4, <1>5

\* Eight steps find the root among 256 numbers.
LEMMA Bisected ==
  ASSUME NEW n \in Nat, NEW h \in Nat, h * h <= n, n < (h + 256) * (h + 256)
  PROVE  \E r \in h..(h + 255) : r * r <= n /\ n < (r + 1) * (r + 1)
<1> DEFINE In(s) == \E r \in Nat : h <= r /\ r + s <= h + 256 /\ r * r <= n
                                  /\ n < (r + s) * (r + s)
<1>0. ASSUME NEW s \in Nat, In(2 * s) PROVE In(s)
  <2>1. h + 256 \in Nat BY SMT
  <2> QED BY Zenon, <1>0, <2>1, Halved
<1>1. In(256) BY SMT
<1> HIDE DEF In
<1>2. In(128) BY SMT, <1>0, <1>1, 256 = 2 * 128
<1>3. In(64) BY SMT, <1>0, <1>2, 128 = 2 * 64
<1>4. In(32) BY SMT, <1>0, <1>3, 64 = 2 * 32
<1>5. In(16) BY SMT, <1>0, <1>4, 32 = 2 * 16
<1>6. In(8) BY SMT, <1>0, <1>5, 16 = 2 * 8
<1>7. In(4) BY SMT, <1>0, <1>6, 8 = 2 * 4
<1>8. In(2) BY SMT, <1>0, <1>7, 4 = 2 * 2
<1>9. In(1) BY SMT, <1>0, <1>8, 2 = 2 * 1
<1> QED BY SMT, <1>9 DEF In

\* Fits says between which squares a number is.
LEMMA FitsMeans ==
  ASSUME NEW t \in Nat, NEW r \in Nat, NEW k \in Nat
  PROVE  Fits(t, r, k) <=> r * r <= t /\ t < (r + k) * (r + k)
<1>1. (r + k) * (r + k) = r * r + k * (2 * r + k) BY SMT
<1>2. r * r \in Nat /\ k * (2 * r + k) \in Nat BY SMT
<1> DEFINE a == r * r
           b == k * (2 * r + k)
<1> HIDE DEF a, b
<1>3. a \in Nat /\ b \in Nat BY SMT, <1>2 DEF a, b
<1>4. t - a < b <=> t < a + b BY SMT, <1>3
<1> QED BY SMT, <1>1, <1>4 DEF Fits, a, b

\* The root of a number below 2^30 exists, and Isqrt is it.
LEMMA RootIsRoot ==
  ASSUME NEW t \in Nat, t < 16384 * 65536
  PROVE  /\ Isqrt(t) \in Nat /\ Isqrt(t) < 32768
         /\ Isqrt(t) * Isqrt(t) <= t /\ t < (Isqrt(t) + 1) * (Isqrt(t) + 1)
<1> DEFINE n == t \div 65536
           Highs == {256 * d : d \in 0..181}
           high == CHOOSE h \in Highs : Fits(t, h, 256)
           root == CHOOSE r \in high..(high + 255) : Fits(t, r, 1)
<1>1. n \in Nat /\ n < 16384 /\ 65536 * n <= t /\ t < 65536 * n + 65536 BY SMT
<1> HIDE DEF n
<1>2. PICK h \in 0..255 : h * h <= n /\ n < (h + 1) * (h + 1)
  <2>1. 0 * 0 <= n /\ n < (0 + 256) * (0 + 256) BY SMT, <1>1
  <2>2. n \in Nat BY <1>1
  <2> QED BY SMT, <2>1, <2>2, Bisected
<1>3. h <= 181
  <2>1. SUFFICES ASSUME h >= 182 PROVE FALSE BY SMT
  <2>2. 182 * 182 <= h * h BY SMT, <2>1, ProductBound
  <2> QED BY SMT, <1>1, <1>2, <2>2
<1>4. Fits(t, 256 * h, 256)
  <2> DEFINE a == h * h
             b == (h + 1) * (h + 1)
  <2>1. a \in Nat /\ b \in Nat BY SMT
  <2>2. (256 * h) * (256 * h) = 65536 * a /\ (256 * h + 256) * (256 * h + 256) = 65536 * b
    BY SMT
  <2>3. a <= n /\ n < b BY SMT, <1>2
  <2> HIDE DEF a, b
  <2>4. 65536 * a <= t /\ t < 65536 * b BY SMT, <1>1, <2>1, <2>3
  <2> QED BY SMT, <2>2, <2>4, FitsMeans
<1>5. high \in Nat /\ Fits(t, high, 256)
  <2>1. 256 * h \in Highs BY SMT, <1>3
  <2> HIDE DEF Highs
  <2>2. high \in Highs /\ Fits(t, high, 256) BY SMT, <1>4, <2>1
  <2>3. Highs \subseteq Nat BY SMT DEF Highs
  <2> HIDE DEF high
  <2> QED BY SMT, <2>2, <2>3
<1> HIDE DEF high
<1>6. PICK r \in high..(high + 255) : r * r <= t /\ t < (r + 1) * (r + 1)
  <2>1. high * high <= t /\ t < (high + 256) * (high + 256) BY SMT, <1>5, FitsMeans
  <2> QED BY SMT, <1>5, <2>1, Bisected
<1>7. r \in Nat BY SMT, <1>5
<1>8. Fits(t, r, 1) BY SMT, <1>6, <1>7, FitsMeans
<1>9. root \in high..(high + 255) /\ Fits(t, root, 1) BY SMT, <1>8
<1>10. Isqrt(t) = root BY SMT DEF Isqrt, high
<1> HIDE DEF root
<1>11. root \in Nat BY SMT, <1>5, <1>9
<1>12. root * root <= t /\ t < (root + 1) * (root + 1) BY SMT, <1>9, <1>11, FitsMeans
<1>13. root < 32768
  <2>1. SUFFICES ASSUME root >= 32768 PROVE FALSE BY SMT, <1>11
  <2>2. 32768 * 32768 <= root * root BY SMT, <1>11, <2>1, ProductBound
  <2>3. root * root \in Nat BY SMT, <1>11
  <2> QED BY SMT, <1>12, <2>2, <2>3
<1> QED BY SMT, <1>10, <1>11, <1>12, <1>13

\* The apparent power sent is the root of the sum of the squares, whatever powers
\* were loaded, as long as they are not negative and the sum is below 2^30: from
\* Square to Sent nothing is cut off.
THEOREM ApparentPowerRight == Spec => []ApparentIsRight
<1>1. ASSUME NEW pw \in Nat, NEW qw \in Nat, pw < 32768, qw < 32768,
             pw * pw + qw * qw < 16384 * WORD
      PROVE  LET w == Sent(Apparent_Power(pw, qw))
             IN  w * w <= pw * pw + qw * qw /\ pw * pw + qw * qw < (w + 1) * (w + 1)
  <2> DEFINE a == Square(pw)
             b == Square(qw)
             p == Plus(a, b)
             t == pw * pw + qw * qw
  <2>1. /\ a[1] \in Nat /\ a[1] < 16384 /\ a[2] \in Nat /\ a[2] < 65536
        /\ b[1] \in Nat /\ b[1] < 16384 /\ b[2] \in Nat /\ b[2] < 65536
        /\ 65536 * a[1] + a[2] = pw * pw /\ 65536 * b[1] + b[2] = qw * qw
    BY SMT, <1>1, SquareHalves
  <2>2. p = Plus(<<a[1], a[2]>>, <<b[1], b[2]>>) BY SMT DEF Plus
  <2>3. p[1] \in Nat /\ p[1] < 32768 /\ p[2] \in Nat /\ 65536 * p[1] + p[2] = t
    <3> DEFINE a1 == a[1]   a2 == a[2]   b1 == b[1]   b2 == b[2]
    <3>1. /\ a1 \in Nat /\ a1 < 16384 /\ a2 \in Nat /\ a2 < 65536
          /\ b1 \in Nat /\ b1 < 16384 /\ b2 \in Nat /\ b2 < 65536
          /\ (65536 * a1 + a2) + (65536 * b1 + b2) = t
      BY SMT, <2>1
    <3> HIDE DEF a1, a2, b1, b2, t
    <3>2. PICK p1, p2 \in Nat : /\ Plus(<<a1, a2>>, <<b1, b2>>) = <<p1, p2>>
                               /\ p1 < 32768 /\ 65536 * p1 + p2 = t
      BY SMT, <3>1, PlusHalves
    <3>3. p = <<p1, p2>> BY SMT, <2>2, <3>2 DEF a1, a2, b1, b2
    <3> HIDE DEF p
    <3> QED BY SMT, <3>2, <3>3
  <2> HIDE DEF p
  <2>4. t \in Nat /\ t < 16384 * 65536 BY SMT, <1>1 DEF WORD
  <2>5. Root(p) = Isqrt(t) BY SMT, <2>3 DEF Root
  <2> HIDE DEF t
  <2>6. Isqrt(t) \in Nat /\ Isqrt(t) < 32768 BY SMT, <2>4, RootIsRoot
  <2>7. Apparent_Power(pw, qw) = Isqrt(t)
    <3>1. Apparent_Power(pw, qw) = Short(Isqrt(t)) BY SMT, <2>5 DEF Apparent_Power, p
    <3> QED BY SMT, <2>6, <3>1 DEF Short
  <2>8. Sent(Isqrt(t)) = Isqrt(t) BY SMT, <2>6 DEF Sent
  <2> QED BY SMT, <2>4, <2>7, <2>8, RootIsRoot DEF t
<1>2. ASSUME TypeOK PROVE ApparentIsRight
  <2> SUFFICES ASSUME NEW s \in Senders,
                      seen[s]["val_pw"] < 32768, seen[s]["val_qw"] < 32768,
                      seen[s]["val_pw"] * seen[s]["val_pw"]
                        + seen[s]["val_qw"] * seen[s]["val_qw"] < 16384 * WORD
               PROVE  LET pw == seen[s]["val_pw"]
                          qw == seen[s]["val_qw"]
                          w  == Sent(Apparent_Power(pw, qw))
                      IN  /\ w * w <= pw * pw + qw * qw
                          /\ pw * pw + qw * qw < (w + 1) * (w + 1)
    BY SMT DEF ApparentIsRight
  <2> DEFINE pw == seen[s]["val_pw"]
             qw == seen[s]["val_qw"]
  <2>1. pw \in Words /\ qw \in Words BY SMT, <1>2 DEF TypeOK, Fields
  <2>2. pw \in Nat /\ qw \in Nat BY SMT, <2>1, WordFacts DEF Words
  <2>3. pw < 32768 /\ qw < 32768 /\ pw * pw + qw * qw < 16384 * WORD BY SMT
  <2> HIDE DEF pw, qw
  <2>4. LET w == Sent(Apparent_Power(pw, qw))
        IN  w * w <= pw * pw + qw * qw /\ pw * pw + qw * qw < (w + 1) * (w + 1)
    BY SMT, <1>1, <2>2, <2>3
  <2> QED BY SMT, <2>4 DEF pw, qw
<1> QED BY <1>2, RegistersTypeCorrect, PTL
=============================================================================
