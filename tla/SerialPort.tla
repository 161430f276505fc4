----------------------------- MODULE SerialPort -----------------------------
(***************************************************************************)
(* The set-up of the serial ports (Uart_Init of threads_bams.c,            *)
(* OpenComPort and set_port_attr of src/src/simubams/serial.c).  Every     *)
(* serial_thread opens its own port at once, and all of them build the     *)
(* attributes in the one static termios_new, with no lock; the program is  *)
(* built without optimisation, so every statement loads and stores the     *)
(* control flags.  Of termios_new only c_cflag is kept: the baud code (its *)
(* own bits) and the flags by name; the other fields get the same constant *)
(* from everybody.                                                         *)
(***************************************************************************)
EXTENDS Integers, FiniteSets

CONSTANTS Ports,      \* the serial ports with batteries
          Baud,       \* the baud rate asked for each (pParaBams->baud)
          OpenMayFail \* may the device be missing, or refuse the attributes?

\* baudrate2Bxx: the codes of the rates it lists; any other, 4800 for one, gets
\* the code of 9600.  B0 is the code 0, the others keep the name of their rate.
Rates == {50, 75, 110, 134, 150, 200, 300, 600, 1200, 2400, 9600, 19200, 38400,
          57600, 115200}
baudrate2Bxx(rate) == IF rate \in Rates \cup {0} THEN rate ELSE 9600

ASSUME SerialAssumption ==
  /\ Baud \in [Ports -> Rates]
  /\ OpenMayFail \in BOOLEAN

VARIABLES termios_new,  \* the shared attributes
          setup,        \* port -> the next step of its set-up
          reg_cflag,    \* port -> flags loaded by a statement, or NotLoaded
          open,         \* port -> has it a descriptor?
          overlapped    \* history: another port was set up meanwhile

serialVars == <<termios_new, setup, reg_cflag, open, overlapped>>

Flags     == {"CLOCAL", "CREAD", "CS8", "PARENB", "CSTOPB"}
Cflags    == [baud : Nat, flags : SUBSET Flags]
Zeroed    == [baud |-> 0, flags |-> {}]
NotLoaded == [baud |-> 0, flags |-> Flags]     \* nobody sets them all

\* The statements that load and store c_cflag: the bits they clear and set.
Cleared == [cfmakeraw |-> {"CS8", "PARENB"}, mode |-> {}, nosize |-> {"CS8"},
            cs8 |-> {}, noparity |-> {"PARENB"}, onestop |-> {"CSTOPB"}]
Added   == [cfmakeraw |-> {"CS8"}, mode |-> {"CLOCAL", "CREAD"}, nosize |-> {},
            cs8 |-> {"CS8"}, noparity |-> {}, onestop |-> {}]

AfterStep_BaudLast ==
  [bzero |-> "cfmakeraw", cfmakeraw |-> "mode", mode |-> "nosize",
   nosize |-> "cs8", cs8 |-> "noparity", noparity |-> "onestop",
   onestop |-> "baud", baud |-> "attr"]
AfterStep ==
  [bzero |-> "cfmakeraw", cfmakeraw |-> "baud", baud |-> "mode",
   mode |-> "nosize", nosize |-> "cs8", cs8 |-> "noparity",
   noparity |-> "onestop", onestop |-> "attr"]

SerialTypeOK ==
  /\ termios_new \in Cflags
  /\ setup \in [Ports -> DOMAIN AfterStep \cup {"open", "attr", "ready"}]
  /\ reg_cflag \in [Ports -> Cflags]
  /\ open \in [Ports -> BOOLEAN]
  /\ overlapped \in [Ports -> BOOLEAN]

SerialInit ==
  /\ termios_new = Zeroed
  /\ setup = [p \in Ports |-> "open"]
  /\ reg_cflag = [p \in Ports |-> NotLoaded]
  /\ open = [p \in Ports |-> FALSE]
  /\ overlapped = [p \in Ports |-> FALSE]

\* A step of p on termios_new marks p and the ports in the middle of theirs.
Busy(p) == {q \in Ports \ {p} : setup[q] \notin {"open", "bzero", "ready"}}
Overlap(p) ==
  [q \in Ports |-> \/ overlapped[q]
                  \/ q \in Busy(p)
                  \/ (q = p /\ Busy(p) # {})]

\* open() gives a descriptor or fails, and then nothing is set up.
OpenPort(p) ==
  /\ setup[p] = "open"
  /\ \/ open' = [open EXCEPT ![p] = TRUE] /\ setup' = [setup EXCEPT ![p] = "bzero"]
     \/ OpenMayFail /\ setup' = [setup EXCEPT ![p] = "ready"] /\ UNCHANGED open
  /\ UNCHANGED <<termios_new, reg_cflag, overlapped>>

\* bzero, and set_baudrate, which wipes the other flags, store without a load.
StoreNew(p) ==
  /\ \/ setup[p] = "bzero" /\ termios_new' = Zeroed
     \/ setup[p] = "baud" /\ termios_new' = [Zeroed EXCEPT !.baud = baudrate2Bxx(Baud[p])]
  /\ setup' = [setup EXCEPT ![p] = AfterStep[@]]
  /\ overlapped' = Overlap(p)
  /\ UNCHANGED <<reg_cflag, open>>

LoadFlags(p) ==
  /\ setup[p] \in DOMAIN Cleared /\ reg_cflag[p] = NotLoaded
  /\ reg_cflag' = [reg_cflag EXCEPT ![p] = termios_new]
  /\ overlapped' = Overlap(p)
  /\ UNCHANGED <<termios_new, setup, open>>

StoreFlags(p) ==
  /\ setup[p] \in DOMAIN Cleared /\ reg_cflag[p] # NotLoaded
  /\ termios_new' = [reg_cflag[p] EXCEPT
       !.flags = (@ \ Cleared[setup[p]]) \cup Added[setup[p]]]
  /\ reg_cflag' = [reg_cflag EXCEPT ![p] = NotLoaded]
  /\ setup' = [setup EXCEPT ![p] = AfterStep[@]]
  /\ overlapped' = Overlap(p)
  /\ UNCHANGED open

\* tcsetattr takes what is there; should it fail, that is only printed.
SetAttr(p) ==
  /\ setup[p] = "attr"
  /\ setup' = [setup EXCEPT ![p] = "ready"]
  /\ overlapped' = [Overlap(p) EXCEPT ![p] = FALSE]
  /\ UNCHANGED <<termios_new, reg_cflag, open>>

SetUp(p) ==
  OpenPort(p) \/ StoreNew(p) \/ LoadFlags(p) \/ StoreFlags(p) \/ SetAttr(p)

-----------------------------------------------------------------------------
(* Properties.                                                             *)

\* The attributes asked for: the port's own baud rate, 8 bits, no parity, one
\* stop bit, read enabled, modem lines ignored.
Asked(p) == [baud |-> Baud[p], flags |-> {"CLOCAL", "CREAD", "CS8"}]

\* Ports that are set up one after the other get what was asked for: whatever
\* an earlier set-up has left in termios_new does no harm.  (With an overlap a
\* port can get the baud rate of another one, or none.)
AloneGetsAsked ==
  [][\A p \in Ports : setup[p] = "attr" /\ setup'[p] = "ready" /\ ~overlapped[p]
                        => termios_new = Asked(p)]_serialVars
=============================================================================
