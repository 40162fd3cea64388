SPECIFICATION ConsumersFairSpec
CONSTANTS
  MaxOrders = 3
  MaxKills = 1
  MaxPoll = 2
  Patience = 1
INVARIANTS
  EveryOrderAccounted
  NothingSkipped
PROPERTIES
  EveryOrderLogged
  EveryOrderScreened
