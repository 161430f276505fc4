---------------------------- MODULE MCBamsMaster ----------------------------
(***************************************************************************)
(* Small instances of BamsMaster for TLC.                                  *)
(***************************************************************************)
EXTENDS BamsMaster

BothPorts == {0, 1}
BaudOf    == [p \in {0, 1} |-> IF p = 0 THEN 9600 ELSE 19200]
FdOf      == [p \in {0, 1} |-> 3 + p]
Fifteen   == [p \in {0, 1} |-> 15]
FifteenAndEight == [p \in {0, 1} |-> IF p = 0 THEN 15 ELSE 8]

\* Bound: nobody reads termios_new after the set-ups, so the cycles are followed
\* once both ports are set up and from one of the values that are left in it.
CyclesAfterSetUps ==
  (\E p \in Ports : pc[p] # "frame" \/ page[p] # {} \/ ~line[p]) =>
    /\ \A p \in Ports : setup[p] = "ready"
    /\ \A p \in Ports : open[p] /\ (\A q \in Ports : open[q] => q <= p)
                          => termios_new = Asked(p)
=============================================================================
