SPECIFICATION PageSpec
CONSTANTS
  p1 = p1
  p2 = p2
  Pages <- TwoPages
  Threads <- TwoPages
  Requests <- TwoPages
  Products = {1, 2, 3, 4}
  Beside <- SomePages
  max_responses = 1
  MaxMisses = 2
INVARIANTS
  LoadIsBounded
  ListGrowsSlowly
  OffersOthers
PROPERTIES
  LoadEnds
