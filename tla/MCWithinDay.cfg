SPECIFICATION FairSpec

CONSTANTS
  g1 = g1
  g2 = g2
  NoAgent = NoAgent
  Groups = {g1, g2}
  Agents = {}
  NCommits = 3
  Owner <- OwnerTwo
  LiveOf <- MCLiveOf
  BatchOf <- MCBatchOf
  FeaturesOf <- ThirdAddsOne
  Stable = 1
  MaxFaults = 1
  MaxRestarts = 1
  MaxPulls = 1
  MaxStalls = 0

INVARIANTS
  RollbackRestores
  AppliedIsRunning

PROPERTIES
  JobsResolve
