\* Two clients, two homes, a third server; every operation.
SPECIFICATION FairSpecStrong
CONSTANTS
  c1 = c1
  c2 = c2
  s1 = s1
  s2 = s2
  s3 = s3
  Clients = {c1, c2}
  Servers = {s1, s2, s3}
  Objects = {o1}
  Sizes = {2}
  MaxWrites = 2
  NoFile = NoFile
  Garbage = Garbage
  Initial = Initial
  Home <- TwoHomes
  Kinds <- Everything
  None = None
INVARIANT ReplicasAgree
INVARIANT IInv
INVARIANT PeersWriteUnderLock
PROPERTY ImplementsObjectStore
PROPERTY LockReleased
