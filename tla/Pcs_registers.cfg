\* Two PCS next to the gap in the addresses, a connection's send thread beside
\* the one of the connection before.  23170 is the largest power both registers
\* can have with the root still a short, 23180 is one step above, 65526 is -10.
CONSTANTS
  Senders = {s1, s2}
  Slots = {4, 5}
  Powers = {2317, 65535}
  MaxFrames = 4
SPECIFICATION Spec
SYMMETRY Symmetry
INVARIANTS TypeOK OwnRegisters AnswerIsCurrent ApparentIsRight
CHECK_DEADLOCK FALSE
