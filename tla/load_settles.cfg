SPECIFICATION LoadFairSpec
CONSTANTS
  Reloads = 3
PROPERTIES
  LoadSettles
CHECK_DEADLOCK FALSE
