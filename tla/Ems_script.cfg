SPECIFICATION FairSpec
CONSTANTS
  l1 = l1
  l2 = l2
  Lcds <- OneLcd
  PcsNum <- ThreePcs
  Repeats = FALSE
  MaxReports = 1
  MaxCmds = 7
PROPERTIES ImplementsScript PendingIsIssued
CHECK_DEADLOCK FALSE
