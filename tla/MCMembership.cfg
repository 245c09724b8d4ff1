\* Three servers join while one client calls each.
SPECIFICATION Spec
CONSTANTS
  s1 = s1
  s2 = s2
  s3 = s3
  Servers = {s1, s2, s3}
  PoolSize = 3
  MaxRequests = 1
  MaxWrites = 1
  None = None
SYMMETRY Symmetry
CHECK_DEADLOCK FALSE
INVARIANT LockServersAgree
INVARIANT PeersComplete
INVARIANT IInv
INVARIANT NoDeadlock
