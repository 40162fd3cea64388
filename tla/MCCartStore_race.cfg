SPECIFICATION Spec
CONSTANTS
  Users = {u1, u2}
  Products = {p1, p2}
  Calls = {c1, c2, c3}
  Quantities = {1, 2}
  IntHalf = 3
SYMMETRY Symmetry
INVARIANTS
  CartsWellFormed
  LinesAddUp
  OnlyFailuresStay
PROPERTIES
  ContractKept
CHECK_DEADLOCK FALSE
