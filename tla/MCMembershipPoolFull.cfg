\* As many clients at one server as its pool has threads.
SPECIFICATION Spec
CONSTANTS
  s1 = s1
  s2 = s2
  s3 = s3
  Servers = {s1, s2}
  PoolSize = 2
  MaxRequests = 2
  MaxWrites = 0
  None = None
SYMMETRY Symmetry
INVARIANT NoDeadlock
