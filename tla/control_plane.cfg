SPECIFICATION ControlSpec
CONSTANTS
  Containers = {c1, c2}
  Names = {n1}
  RefreshDelays = {1}
  MaxStale = 1
  SharedTtl = 1
  HardTtl = 2
  LockTtl = 1
  LoadTime = 1
  Edits = 1
  TierFaults = 1
  Requests = {q1, q2}
  ClusterFaults = 1
  ClusterKills = 1
  ClusterEdits = 1
  Forms <- ClusterForms
  Apps = {a1, a2}
  Admins = {u1}
  GithubReqs = {g1, g2}
  Intents = {1, 2, 3}
  Spellings = {"lines"}
  GithubKills = 1
  Recycles = 1
  Starts = 3
  NoApp = NoApp
  Tables = {"apps", "maps"}
  RowKeys = {1, 2, 3}
  PageRows = 1
  Turns = 4
  Meddling = 1
  BrowserFaults = 1
  Secrets = {k1, k2}
  TokenNames = {m1}
  McpReqs = {p1, p2}
  CacheTtl = 2
  AuthTime = 1
  RunTime = 1
  Lifetimes = {0, 1}
  Clock = 7
  DatabaseFaults = 1
  Users = {v1, v2}
  Master = v1
  UserReqs = {r1, r2}
  UserEdits = 4
  TokenLife = 1
  Days = 2
  CognitoFaults = 1
  Deployments = 1
SYMMETRY AnyContainer
INVARIANTS
  TiersSafety
  ClusterSafety
  GithubSafety
  BrowserSafety
PROPERTIES
  RetryConverges
  AccessSafety
CHECK_DEADLOCK FALSE
