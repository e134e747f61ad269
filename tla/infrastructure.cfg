SPECIFICATION InfraSpec
CONSTANTS
  Sensors = {s1}
  Passes = {k1, k2}
  Reaper = reaping
  DescribeLimit = 1
  SensorEdits = 2
  SensorFaults = 1
  Archivers = {s1, s2}
  Buckets = {b1}
  NoBucket = NoBucket
  Prefixes <- NestedPrefixes
  Nested <- NestedPairs
  IngestRequests = {r1, r2}
  Notifiers = {n1}
  StorageOps = 2
  StorageFaults = 1
  Slow = {"schedule", "vpcLambda", "template", "cluster", "topics", "network"}
  Deploys = 1
  StackFaults = 1
INVARIANTS
  StorageSafety
  StackSafety
PROPERTIES
  PassesDoNoHarm
  RerunRepairs
  TeardownSettles
  RestLeftAlone
  WiringConverges
  DestroyFinishes
CHECK_DEADLOCK FALSE
