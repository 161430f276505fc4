SPECIFICATION Spec
CONSTANTS
  Ports = {p1, p2}
  MaxConns = 2
  Fds = {3, 4}
  MaxErr = 1
  QueueLen = 1
  MaxFrames = 1
  CreateMayFail = TRUE
  None = None
  Stdin = Stdin
  ZeroIsFree = TRUE
SYMMETRY Symmetry
\* With a failed thread creation nobody is left to act on a port marked ON.
CHECK_DEADLOCK FALSE
INVARIANTS TypeOK OneReceiver ReceiverKeepsItsNumber HandledOnce QueueOfOwnPort
