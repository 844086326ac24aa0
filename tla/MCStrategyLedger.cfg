SPECIFICATION FairSpec

CONSTANTS
  c1 = c1
  c2 = c2
  Coids = {c1, c2}
  Qty = 2
  Cap = 4
  MaxErrors = 1
  MaxCrashes = 2

INVARIANTS
  NeverOverbooked
  LedgerIsComplete

PROPERTIES
  FilledIsBooked
