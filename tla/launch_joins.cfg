SPECIFICATION Spec
CONSTANTS
  Requests = {r1}
  Reconcilers = {rec}
  Ops = {"launch", "poll", "provision", "deploy"}
  AutoDeploy = TRUE
  MaxOps = 4
  MaxBuilds = 3
  MaxHead = 2
  MaxErrors = 0
  MaxDeaths = 0
INVARIANTS
  OneBuild
PROPERTIES
  ClaimRespected
CHECK_DEADLOCK FALSE
