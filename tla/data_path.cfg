SPECIFICATION DataSpec
CONSTANTS
  Messages <- FiveMessages
  Ts <- FiveTimes
  Window = 1
  Skipped = {}
  Poison = {3}
  BatchSize = 3
  Tasks = {t1, t2}
  TaskStarts = 2
  ConsumerFaults = 1
  Invocations = {i1, i2}
  Phases = {red, green}
  Hour = 3
  Threshold = 1
  TimingWindow = 2
  SignalChanges = 2
  SpatFaults = 1
  MinInterval = 5
  TsTtl = 13
  Lateness = 7
  ClockJump = 6
  Jumps = 1
  RateFaults = 1
  Commands = 4
  SocketFaults = 3
  GarbledReplies = 1
  Services = {"a", "b"}
  Calls = 2
  Visits = 1
  Refreshes = 1
  LostReads = 1
  Reloads = 3
INVARIANTS
  ConsumerSafety
  LossBounded
  RateSafety
  ClientSafety
  PageSafety
  LoadSafety
PROPERTIES
  ImplementsDelivery
  FlushedByNewer
  HeldBackIsKnown
  PhaseReachesVehicles
  ImplementsChannel
  WatchedLaunchEndsUnlessLost
CHECK_DEADLOCK FALSE
