SPECIFICATION LinksSpec
CONSTANTS
  Ports = {p1, p2}
  MaxConns = 3
  Fds = {0, 3, 4}
  MaxErr = 0
  QueueLen = 1
  MaxFrames = 1
  CreateMayFail = FALSE
  ZeroIsFree = TRUE
  Stdin = Stdin
  None = None
CONSTRAINT Bounds
SYMMETRY Symmetry
\* When all connections are made the server threads have nobody to accept.
CHECK_DEADLOCK FALSE
INVARIANTS LinksTypeOK OwnConnection OneUnserved AnswersGoHome AnswerReachesAsker
