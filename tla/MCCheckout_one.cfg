SPECIFICATION Spec
CONSTANTS
  u1 = u1
  u2 = u2
  r1 = r1
  r2 = r2
  x1 = x1
  x2 = x2
  Users = {u1}
  Requests = {r1, r2}
  UserOf <- OneShopper
  Units = {x1, x2}
  KafkaEnabled = TRUE
SYMMETRY UnitSymmetry
INVARIANTS
  TypeOK
  LedgersAgree
  WordsAreTrue
  NoResale
PROPERTIES
  ContractKept
  CartsKept
CHECK_DEADLOCK FALSE
