--------------------------- MODULE MCEmsSequence ---------------------------
EXTENDS EmsSequence, TLC

CONSTANTS l1, l2

OneLcd  == {l1}
TwoLcds == {l1, l2}
TwoPcs  == [l \in Lcds |-> 2]
TwoAndOne == [l \in Lcds |-> IF l = l1 THEN 2 ELSE 1]
ThreePcs == [l \in Lcds |-> 3]

\* A session in which a command is issued twice is followed up to five commands,
\* one without doubles to the end of the script.
DoubledCmds == 5
Bounds == Len(log) <= DoubledCmds \/ Turn(log, Len(log)) = Len(log)

Symmetry == Permutations({l1, l2})
=============================================================================
