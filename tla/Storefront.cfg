SPECIFICATION FairSpec
CONSTANTS
  Me = me
  Units = {x1, x2}
  Left = {x1}
  Submits = {s1, s2}
  Empties = {e1}
  Currencies = {usd, eur}
  MyCurrency = usd
  NoCart = NoCart
  MaxEvents = 3
INVARIANTS
  ShownIsTheCart
  CompleteMeansSent
  NoSecondSale
PROPERTIES
  Converges
CHECK_DEADLOCK FALSE
