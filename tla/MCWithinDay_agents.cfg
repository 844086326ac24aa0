SPECIFICATION Spec

CONSTANTS
  g1 = g1
  g2 = g2
  NoAgent = NoAgent
  Groups = {g1, g2}
  Agents = {a1, a2}
  NCommits = 2
  Owner <- OwnerEach
  LiveOf <- RefactoredOf
  BatchOf <- RefactoredOf
  FeaturesOf <- SameFeatures
  Stable = 1
  MaxFaults = 0
  MaxRestarts = 0
  MaxPulls = 0
  MaxStalls = 1

INVARIANTS
  LeaseIsHeld

PROPERTIES
  GrantIsPermanent
