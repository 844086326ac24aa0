SPECIFICATION Spec

CONSTANTS
  Predictions = {1, 2}
  Symbols <- Both
  DayOf <- SameDay
  Basket <- TwoLegs
  LegQty = 2
  MaxDay = 1
  MaxEquity = 0
  MaxDailyLoss = 0
  MaxAborts = 1
  MaxRefusals = 1
  x = x
  y = y

INVARIANTS
  OneBasketADay

PROPERTIES
  UnexpectedIsForeign
