SPECIFICATION Spec
CONSTANTS
  Requests = {r1}
  Reconcilers = {}
  Ops = {"launch", "check", "provision", "build", "deploy", "rollback", "poll", "dismiss", "deprovision", "teardown", "clusterUp", "clusterDown"}
  AutoDeploy = TRUE
  MaxOps = 5
  MaxBuilds = 2
  MaxHead = 2
  MaxErrors = 1
  MaxDeaths = 0
INVARIANTS
  TypeOK
  NothingStranded
  RegistryTruthful
PROPERTIES
  DeployedImageExists
CHECK_DEADLOCK FALSE
