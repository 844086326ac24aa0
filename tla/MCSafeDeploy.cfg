\* Three merges of any kind, two faults, one relaunch.
CONSTANTS
  Surfaces = {"dash", "docs", "fc", "none"}
  MaxMerges = 3
  MaxFaults = 2
  DiesWriting = FALSE
  MaxRelaunches = 1
SPECIFICATION DeployFairSpec
INVARIANTS DeployTypeOK
PROPERTIES ConsumedIsRunning DashboardFollows
