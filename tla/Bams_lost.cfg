SPECIFICATION Spec
CONSTANTS
  Ports <- BothPorts
  Baud <- BaudOf
  OpenMayFail = FALSE
  Fd <- FdOf
  PcsNum <- Fifteen
  MaxStops = 0
INVARIANTS ReadyLineIsWritten
