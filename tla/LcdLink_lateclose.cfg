SPECIFICATION Spec
CONSTANTS
  Ports = {p1}
  MaxConns = 2
  Fds = {3, 4}
  MaxErr = 1
  QueueLen = 1
  MaxFrames = 1
  CreateMayFail = FALSE
  None = None
  Stdin = Stdin
  ZeroIsFree = FALSE
PROPERTY ExitClosesOwnConnection
