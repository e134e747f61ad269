SPECIFICATION BrowserSpec
CONSTANTS
  Tables = {"apps", "maps"}
  RowKeys = {1, 2}
  PageRows = 1
  Turns = 4
  Meddling = 0
  BrowserFaults = 0
INVARIANTS
  WritesHitTheRowShown
CHECK_DEADLOCK FALSE
