SPECIFICATION FairSpec
CONSTANTS
  l1 = l1
  l2 = l2
  Lcds <- OneLcd
  PcsNum <- TwoPcs
  Repeats = TRUE
  MaxReports = 1
  MaxCmds = 7
PROPERTIES AllStartedLeadsOn
CHECK_DEADLOCK FALSE
