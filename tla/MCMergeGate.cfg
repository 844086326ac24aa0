\* One pull request pushed twice, one merge beside it, and one of everything
\* that can go wrong.
CONSTANTS
  PRs = {p1}
  p1 = p1
  daemon = daemon
  Watchers = {daemon}
  Daemons = {daemon}
  Armed = {daemon}
  Surfaces = {"dash", "fc"}
  Defects = {{}, {"failure"}, {"error"}, {"broken"}}
  MaxPushes = 2
  MaxOthers = 1
  MaxFailures = 1
  MaxRefusals = 1
SPECIFICATION FairSpec
INVARIANTS SuccessIsEarned
PROPERTIES GradedMergesAreSafe HeadsAreGraded
