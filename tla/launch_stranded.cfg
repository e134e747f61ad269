SPECIFICATION Spec
CONSTANTS
  Requests = {r1}
  Reconcilers = {}
  Ops = {"launch", "teardown"}
  AutoDeploy = TRUE
  MaxOps = 4
  MaxBuilds = 2
  MaxHead = 2
  MaxErrors = 0
  MaxDeaths = 1
INVARIANTS
  NothingStranded
CHECK_DEADLOCK FALSE
