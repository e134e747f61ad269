SPECIFICATION FairSpec
CONSTANTS
  Requests = {r1}
  Reconcilers = {rec}
  Ops = {"launch", "check", "poll", "stop"}
  AutoDeploy = TRUE
  MaxOps = 3
  MaxBuilds = 1
  MaxHead = 2
  MaxErrors = 1
  MaxDeaths = 1
PROPERTIES
  LaunchSettles
CHECK_DEADLOCK FALSE
