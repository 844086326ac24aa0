SPECIFICATION Spec

CONSTANTS
  NumBets = 2
  Qty = 1
  MaxConcurrent = 2
  MaxTotalNotional = 2
  MinChecks = 2
  PendChecks = 2
  MaxFaults = 2
  MaxReplaced = 1
  EntryLag = 1
  ExitMayLag = FALSE
  StaleMayFill = FALSE
  PartialFills = FALSE
  OrdersMayDie = TRUE

INVARIANTS
  NeverOversold
  ClosedMeansFlat
  LedgerIsReal

PROPERTIES
  KeepsRoundTrip
