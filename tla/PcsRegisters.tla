---------------------------- MODULE PcsRegisters ----------------------------
(***************************************************************************)
(* The register part of src/src/lcd/protocol_lcd.c: AnalysModbus and what  *)
(* it calls, executed by the send threads of ONE display (two displays     *)
(* share no register), while initData may still be running: the start-up   *)
(* creates the server threads first.                                       *)
(*                                                                         *)
(* A PCS has three registers: the power it was set to (val_pw), the        *)
(* reactive power (val_qw) and the last start or stop order                *)
(* (cmd_start_pcs).  A frame names a register by its Modbus address; the   *)
(* lists the handlers compare an address with and the switch of getPcsid   *)
(* are separate tables.  Registers are 16-bit words, and every load and    *)
(* store of one is a step: a telemetry answer is put together from five of *)
(* them.  What a start or stop frame does to the EMS is in EmsSequence.    *)
(* Name_Slip is a faulty variant of Name.                                  *)
(***************************************************************************)
EXTENDS Integers

CONSTANTS Senders,    \* send threads of the display, old and new
          Slots,      \* its PCS, by the number getPcsid gives them
          Powers,     \* values of power frames
          MaxFrames   \* bound: frames the display receives

WORD  == 65536
Words == 0..(WORD - 1)                       \* unsigned short

ASSUME RegistersAssumption ==
  Slots \subseteq 1..6 /\ Powers \subseteq Words /\ MaxFrames \in Nat

START == 65280                               \* 0xff00
STOP  == 255                                 \* 0x00ff
WRONG == 1                                   \* neither: logged, and stored too
Regs  == {"val_pw", "val_qw", "cmd_start_pcs"}

\* The addresses of a kind of frame, as the else-if chains list them.
Addresses ==
  [val_pw        |-> <<\h3005, \h3015, \h3025, \h3035, \h3065, \h3075>>,
   val_qw        |-> <<\h3002, \h3012, \h3022, \h3032, \h3062, \h3072>>,
   cmd_start_pcs |-> <<\h3000, \h3010, \h3020, \h3030, \h3060, \h3070>>,
   status        |-> <<\h1200, \h1210, \h1220, \h1230, \h1250, \h1260>>,
   telemetry     |-> <<\h1100, \h111D, \h113A, \h1157, \h1190, \h11AD>>]

\* The cases of getPcsid; any other address is PCS 0.  The six addresses of the
\* power mode are left out: their frames are only logged.
PcsCases_EvenlySpaced ==
  [p \in 1..6 |-> {\h3005 + 16 * (p - 1), \h3002 + 16 * (p - 1), \h1200 + 16 * (p - 1),
                   \h1100 + 29 * (p - 1), \h3000 + 16 * (p - 1)}]
PcsCases == <<{\h3005, \h3002, \h1200, \h1100, \h3000},
              {\h3015, \h3012, \h1210, \h111D, \h3010},
              {\h3025, \h3022, \h1220, \h113A, \h3020},
              {\h3035, \h3032, \h1230, \h1157, \h3030},
              {\h3065, \h3062, \h1250, \h1190, \h3060},
              {\h3075, \h3072, \h1260, \h11AD, \h3070}>>

getPcsid(addr) == IF \E p \in 1..6 : addr \in PcsCases[p]
                  THEN CHOOSE p \in 1..6 : addr \in PcsCases[p] ELSE 0

\* A frame: its kind, the PCS it is meant for, and its value.  "other" stands for
\* every frame that touches no PCS: function 10, the whole machine, the run mode.
Other  == <<"other", 0, 0>>
Writes == ({"val_pw", "val_qw"} \X Slots \X Powers)
          \cup ({"cmd_start_pcs"} \X Slots \X {START, STOP, WRONG})
Reads  == {"status", "telemetry"} \X Slots \X {0}
Frames == Writes \cup Reads \cup {Other}

VARIABLES
  reg,       \* Regs -> PCS -> word: the arrays of the display
  set_up,    \* PCS -> registers of it that initData has stored
  place,     \* send thread -> where it is
  frame,     \* send thread -> the frame it handles
  seen,      \* send thread -> what it has loaded for the answer
  frames,    \* bound: frames received
  asked,     \* history: what each register was last set to, by the PCS meant
  clean      \* history: no other store to the PCS meant since the frame came

vars == <<reg, set_up, place, frame, seen, frames, asked, clean>>

Fields  == {"cmd", "hi", "lo", "val_pw", "val_qw"}
Nothing == [f \in Fields |-> 0]

TypeOK ==
  /\ reg \in [Regs -> [Slots -> Words]] /\ asked \in [Regs -> [Slots -> Words]]
  /\ set_up \in [Slots -> 0..3]
  /\ place \in [Senders -> {"idle", "store", "loadcmd", "loadhi", "loadlo", "arg_pw",
                            "arg_qw", "last_pw", "last_qw", "reply"}]
  /\ frame \in [Senders -> Frames]
  /\ seen \in [Senders -> [Fields -> Words]]
  /\ frames \in 0..MaxFrames
  /\ clean \in [Senders -> BOOLEAN]

Init ==
  /\ reg = [r \in Regs |-> [p \in Slots |-> 0]] /\ asked = reg
  /\ set_up = [p \in Slots |-> 0]
  /\ place = [s \in Senders |-> "idle"]
  /\ frame = [s \in Senders |-> Other]
  /\ seen = [s \in Senders |-> Nothing]
  /\ frames = 0
  /\ clean = [s \in Senders |-> TRUE]

\* A store of v to register r of PCS index p, by a thread that means PCS q.
Dirty(q, S) == [s \in Senders |-> clean[s] /\ ~(s \in S /\ frame[s][2] = q)]
StoreReg(r, p, q, v, others) ==
  /\ reg' = [reg EXCEPT ![r][p] = v]
  /\ asked' = [asked EXCEPT ![r][q] = v]
  /\ clean' = Dirty(q, others)

\* initData, after the server threads have been created: one register a step.
InitOrder == <<"val_qw", "val_pw", "cmd_start_pcs">>
initData(p) ==
  /\ set_up[p] < 3 /\ \A q \in Slots : q < p => set_up[q] = 3
  /\ set_up' = [set_up EXCEPT ![p] = @ + 1]
  /\ LET r == InitOrder[set_up[p] + 1]
     IN  StoreReg(r, p, p, IF r = "cmd_start_pcs" THEN STOP ELSE 0, Senders)
  /\ UNCHANGED <<place, frame, seen, frames>>

-----------------------------------------------------------------------------
(* A send thread.                                                          *)

Kind(s)   == frame[s][1]
Addr(s)   == Addresses[Kind(s)][frame[s][2]]
pcsid(s)  == getPcsid(Addr(s))
Goto(s, pc) == place' = [place EXCEPT ![s] = pc]

\* AnalysModbus takes the frame apart; every frame is answered.
AnalysModbus(s) ==
  /\ place[s] = "idle" /\ frames < MaxFrames
  /\ \E f \in Frames :
       /\ frame' = [frame EXCEPT ![s] = f]
       /\ Goto(s, CASE f \in Writes -> "store" [] f \in Reads -> "loadcmd"
                    [] f = Other -> "reply")
  /\ frames' = frames + 1
  /\ seen' = [seen EXCEPT ![s] = Nothing]
  /\ clean' = [clean EXCEPT ![s] = TRUE]
  /\ UNCHANGED <<reg, set_up, asked>>

\* val * 10 is cut to an unsigned short; a start or stop value, right or wrong,
\* is stored as it is.
Stored_Wider(kind, val) == IF kind = "cmd_start_pcs" THEN val ELSE val * 10
Stored(kind, val) == IF kind = "cmd_start_pcs" THEN val ELSE (val * 10) % WORD

Analysfun06(s) ==
  /\ place[s] = "store"
  /\ StoreReg(Kind(s), pcsid(s), frame[s][2], Stored(Kind(s), frame[s][3]), Senders \ {s})
  /\ Goto(s, "reply")
  /\ UNCHANGED <<set_up, frame, seen, frames>>

See(s, f, v) == seen' = [seen EXCEPT ![s][f] = v]
OnlySender   == UNCHANGED <<reg, set_up, frame, frames, asked, clean>>

\* BakLcdFun03: is the PCS started?  A PCS that is not has constant answers.
LoadCmd(s) ==
  /\ place[s] = "loadcmd"
  /\ LET cmd == reg["cmd_start_pcs"][pcsid(s)]
     IN  /\ See(s, "cmd", cmd)
         /\ Goto(s, IF Kind(s) = "telemetry" /\ cmd = START THEN "loadhi" ELSE "reply")
  /\ OnlySender

\* The reactive power is loaded once for each of its two bytes ...
ReactivePower_Active(s) == reg["val_pw"][pcsid(s)]
ReactivePower(s) == reg["val_qw"][pcsid(s)]
LoadHigh(s) ==
  /\ place[s] = "loadhi"
  /\ See(s, "hi", ReactivePower(s) \div 256) /\ Goto(s, "loadlo")
  /\ OnlySender

\* The compiler orders the two arguments that come next.
LoadLow(s) ==
  /\ place[s] = "loadlo"
  /\ See(s, "lo", ReactivePower(s) % 256)
  /\ Goto(s, "arg_pw") \/ Goto(s, "arg_qw")
  /\ OnlySender

\* ... and once more, with the power, for the apparent power.
LoadArgument(s, r, first, last, after) ==
  /\ \/ place[s] = first /\ Goto(s, after)
     \/ place[s] = last /\ Goto(s, "reply")
  /\ See(s, r, reg[r][pcsid(s)])
  /\ OnlySender

LoadPw(s) == LoadArgument(s, "val_pw", "arg_pw", "last_pw", "last_qw")
LoadQw(s) == LoadArgument(s, "val_qw", "arg_qw", "last_qw", "last_pw")

Reply(s) ==
  /\ place[s] = "reply"
  /\ Goto(s, "idle") /\ UNCHANGED seen
  /\ OnlySender

Sender(s) == \/ AnalysModbus(s) \/ Analysfun06(s) \/ LoadCmd(s) \/ LoadHigh(s)
             \/ LoadLow(s) \/ LoadPw(s) \/ LoadQw(s) \/ Reply(s)

Next == (\E s \in Senders : Sender(s)) \/ (\E p \in Slots : initData(p))
Spec == Init /\ [][Next]_vars

-----------------------------------------------------------------------------
(* Apparent_Power, at the widths of the code: the squares of two unsigned  *)
(* shorts are multiplied and added as 32-bit int that wrap round, the root *)
(* is cut to a short, and a short is sent with C's division, which rounds  *)
(* to zero.  A 32-bit word is a pair <<high half, low half>>.              *)

Square(x) == LET h == x \div 256   l == x % 256
                 m == 512 * h * l + l * l
             IN  <<(h * h + m \div 65536) % 65536, m % 65536>>

Plus_Low(a, b) == <<0, (a[2] + b[2]) % 65536>>
Plus(a, b) == <<(a[1] + b[1] + (a[2] + b[2]) \div 65536) % 65536, (a[2] + b[2]) % 65536>>

\* sqrt(), cut to a whole number: first its high byte, then the low one.  r Fits
\* when the root is one of the k numbers from r on.
Fits(t, r, k) == r * r <= t /\ t - r * r < k * (2 * r + k)
Isqrt(t) == LET high == CHOOSE h \in {256 * d : d \in 0..181} : Fits(t, h, 256)
            IN  CHOOSE r \in high..(high + 255) : Fits(t, r, 1)

\* The root of a negative int is not a number, which is converted to 0.
Root(t) == IF t[1] >= 32768 THEN 0 ELSE Isqrt(65536 * t[1] + t[2])

Short(x) == IF x >= 32768 THEN x - 65536 ELSE x
Sent(v)  == IF v >= 0 THEN v
            ELSE 256 * ((-((-v) \div 256)) % 256) + ((-((-v) % 256)) % 256)

Apparent_Power(pw, qw) == Short(Root(Plus(Square(pw), Square(qw))))

-----------------------------------------------------------------------------
(* Properties.                                                             *)

\* Every address that reaches the registers is one getPcsid knows, and it knows
\* it as the PCS that is meant: no write or read of a PCS ever hits the registers
\* of another one, or the word before the array.
OwnRegisters ==
  \A s \in Senders : place[s] \notin {"idle", "reply"} => pcsid(s) = frame[s][2]

Started(s) == seen[s]["cmd"] = START

\* The answer to a read is what the registers of the PCS meant were last set to,
\* by whichever thread, unless another thread has stored one of them since the
\* frame came: then its bytes may be of two values.
AnswerIsCurrent ==
  \A s \in Senders : place[s] = "reply" /\ frame[s] \in Reads /\ clean[s] =>
    LET p == frame[s][2]
    IN  /\ seen[s]["cmd"] = asked["cmd_start_pcs"][p]
        /\ Kind(s) = "telemetry" /\ Started(s) =>
             /\ 256 * seen[s]["hi"] + seen[s]["lo"] = asked["val_qw"][p]
             /\ \A r \in {"val_pw", "val_qw"} : seen[s][r] = asked[r][p]

\* The apparent power that is sent is the root of the sum of the squares, as
\* long as no power is negative and the sum is below 2^30, where its root is
\* still a short.
ApparentIsRight ==
  \A s \in Senders : place[s] = "reply" /\ Kind(s) = "telemetry" /\ Started(s) =>
    LET pw == seen[s]["val_pw"]   qw == seen[s]["val_qw"]
        w  == Sent(Apparent_Power(pw, qw))
    IN  pw < 32768 /\ qw < 32768 /\ pw * pw + qw * qw < 16384 * WORD =>
          w * w <= pw * pw + qw * qw /\ pw * pw + qw * qw < (w + 1) * (w + 1)
=============================================================================
