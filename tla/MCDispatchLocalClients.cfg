\* Two clients at one server, serialized connections, the pool the comment asks for.
SPECIFICATION Spec
CONSTANTS
  c1 = c1
  c2 = c2
  c3 = c3
  s1 = s1
  s2 = s2
  s3 = s3
  o1 = o1
  o2 = o2
  Clients = {c1, c2}
  Servers = {s1, s2, s3}
  Objects = {o1}
  Collocated = TRUE
  None = None
  Configs <- LocalClients
  LockServer <- Crossed
INVARIANT NoDeadlock
