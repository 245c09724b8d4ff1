\* The deployments in which no request is left behind.
SPECIFICATION FairSpec
CONSTANTS
  c1 = c1
  c2 = c2
  c3 = c3
  s1 = s1
  s2 = s2
  s3 = s3
  o1 = o1
  o2 = o2
  Clients = {c1, c2, c3}
  Servers = {s1, s2, s3}
  Objects = {o1, o2}
  Collocated = TRUE
  None = None
  Configs <- NoDeadlockPromised
  LockServer <- Crossed
INVARIANT DispatchInv
INVARIANT NoDeadlock
PROPERTY LockReleased
