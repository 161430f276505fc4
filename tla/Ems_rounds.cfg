SPECIFICATION Spec
CONSTANTS
  l1 = l1
  l2 = l2
  Lcds <- TwoLcds
  PcsNum <- TwoAndOne
  MaxReports = 1
  Repeats = FALSE
  MaxCmds = 6
CONSTRAINT Bounds
INVARIANTS TypeOK WriterAfterAttach
PROPERTIES NothingIssuedEarly OrdersAreObeyed InScriptOrder KeptUntilIssued FollowsScript
CHECK_DEADLOCK FALSE
