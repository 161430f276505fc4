SPECIFICATION FairSpec
CONSTANTS
  Ports = {p1}
  MaxConns = 1
  Fds = {3}
  MaxErr = 1
  QueueLen = 1
  MaxFrames = 1
  CreateMayFail = FALSE
  None = None
  Stdin = Stdin
  ZeroIsFree = FALSE
PROPERTY GoneClientFreesPort
