SPECIFICATION StackSpec
CONSTANTS
  Slow = {"cluster", "network"}
  Deploys = 0
  StackFaults = 0
INVARIANTS
  DestroyNotStranded
CHECK_DEADLOCK FALSE
