\* A Put before AddServers is done.
SPECIFICATION Spec
CONSTANTS
  s1 = s1
  s2 = s2
  s3 = s3
  Servers = {s1, s2}
  PoolSize = 2
  MaxRequests = 1
  MaxWrites = 1
  None = None
SYMMETRY Symmetry
CHECK_DEADLOCK FALSE
INVARIANT UpdatesReachAll
