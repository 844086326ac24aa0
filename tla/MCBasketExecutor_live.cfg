SPECIFICATION FairSpec

CONSTANTS
  Predictions = {1}
  Symbols = {x}
  DayOf <- OneDay
  Basket <- OneBasket
  LegQty = 2
  MaxDay = 2
  MaxEquity = 1
  MaxDailyLoss = 0
  MaxAborts = 1
  MaxRefusals = 0
  x = x
  y = y

INVARIANTS
  FillsCountedOnce

PROPERTIES
  NoEntryOnceHalted
  KillSwitchTrips
  EndsFlat
