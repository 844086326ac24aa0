SPECIFICATION FairSpec

CONSTANTS
  Legs <- MCLegs
  MaxLegs = 2
  Lot = 2
  MinChecks = 2
  EntryLag = 1
  MaxFaults = 2

INVARIANTS
  FlattenedIsFlat
  OneBasket
  FlattenedIsMeasured

PROPERTIES
  KeepsRoundTrip
  LegsResolve
