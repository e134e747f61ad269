SPECIFICATION GithubSpec
CONSTANTS
  Apps = {a1, a2}
  Admins = {u1}
  GithubReqs = {g1}
  Intents = {1, 2}
  Spellings = {"lines", "escaped"}
  GithubKills = 0
  Recycles = 0
  Starts = 2
  NoApp = NoApp
INVARIANTS
  ConfiguredCanMint
CHECK_DEADLOCK FALSE
