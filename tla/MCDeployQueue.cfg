SPECIFICATION FairSpec

CONSTANTS
  Tier1 = {dash}
  Tier2 = {fc}
  Procs = {d}
  MaxMerges = 2
  MaxDeaths = 1

INVARIANTS
  NothingLost
  NoDoubleIntent

PROPERTIES
  FcTreeIsGated
  EventuallyDeployed
