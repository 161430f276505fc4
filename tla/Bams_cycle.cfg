SPECIFICATION FairSpec
CONSTANTS
  Ports <- BothPorts
  Baud <- BaudOf
  OpenMayFail = TRUE
  Fd <- FdOf
  PcsNum <- Fifteen
  MaxStops = 2
CONSTRAINT CyclesAfterSetUps
INVARIANTS TypeOK PagesFollowOn FrameFits LostOnlyByOverlap
PROPERTIES CyclesComplete AloneGetsAsked
