SPECIFICATION FairSpec

CONSTANTS
  NumBets = 1
  Qty = 2
  MaxConcurrent = 1
  MaxTotalNotional = 2
  MinChecks = 3
  PendChecks = 2
  MaxFaults = 3
  MaxReplaced = 1
  EntryLag = 2
  ExitMayLag = TRUE
  StaleMayFill = TRUE
  PartialFills = TRUE
  OrdersMayDie = FALSE

INVARIANTS
  AbandonedNeverLanded
  LedgerFollowsTable

PROPERTIES
  BetsResolve
