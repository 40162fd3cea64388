SPECIFICATION FairSpec
CONSTANTS
  Orders = {h1, h2}
  Capacity = 2
  Copies = 0
  MayFail = TRUE
  MayCancel = FALSE
PROPERTIES
  EveryOrderReturns
CHECK_DEADLOCK FALSE
