SPECIFICATION FairSpec
CONSTANTS
  Orders = {h1, h2, h3}
  Capacity = 1
  Copies = 1
  MayFail = TRUE
  MayCancel = TRUE
INVARIANTS
  OutcomesBalance
  OnlyWhatWasSent
PROPERTIES
  ReturnsWhileBalanced
CHECK_DEADLOCK FALSE
