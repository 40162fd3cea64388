SPECIFICATION PricedSpec
CONSTANTS
  other = other
  Calls <- SomeCalls
  Digits = 3
  Precision = 2000
  NanosMod = 1000
  Catalogue <- SomePrices
  Carts <- SomeCarts
  PerItem = {7}
  Elsewhere <- OnePrice
  U32Mod = 4
  MaxInt32 = 137
  Rates <- SomeRates
  Unlisted = {"XXX"}
  Prices <- SomeAmounts
  Quantities <- SomeQuantities
  WordMod = 4
  Lines = 2
  Code = "USD"
INVARIANTS
  ChargedExactly
  PanicsOnlyOnFractions
  ConvertsClosely
  ChargedAsShown
CHECK_DEADLOCK FALSE
