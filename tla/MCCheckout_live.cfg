SPECIFICATION FairSpec
CONSTANTS
  u1 = u1
  u2 = u2
  r1 = r1
  r2 = r2
  x1 = x1
  x2 = x2
  Users = {u1, u2}
  Requests = {r1, r2}
  UserOf <- TwoShoppers
  Units = {x1, x2}
  KafkaEnabled = FALSE
PROPERTIES
  CartEmptiedForShipped
  EveryOrderSettles
CHECK_DEADLOCK FALSE
