CONSTANTS
  Clients = {a, b}
  Conns = {c1, c2}
  Cleaners = {k}
  Broadcasters = {s}
  NoConn = NoConn
  NoClient = NoClient
  TTL = 1
  MaxTime = 2
  MaxPosts = 2
  MaxFaults = 2
  FirstClient = a
  FirstConn = c1
SPECIFICATION MCSpec
INVARIANTS IndexSafety RegistrationFindable
PROPERTIES FreshClientKept ReapedUnlessRaced DeadRegistrationReaped ReconnectNotWiped ClosedUnregistered
CHECK_DEADLOCK FALSE
