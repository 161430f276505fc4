SPECIFICATION Spec
CONSTANTS
  l1 = l1
  l2 = l2
  Lcds <- OneLcd
  PcsNum <- TwoPcs
  Repeats = FALSE
  MaxReports = 2
  MaxCmds = 7
PROPERTIES AllStartedBefore
CHECK_DEADLOCK FALSE
