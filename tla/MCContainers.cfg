\* Two clients of rep-redis or of rep-partial, in settled and in new clusters.
SPECIFICATION FairHistorySpec
CONSTANTS
  c1 = c1
  c2 = c2
  Clients = {c1, c2}
  Servers = {"flecs12", "flecs22", "flecs52"}
  Buckets = {"rep-redis", "rep-partial"}
  MaxWrites = 2
  Nobody = Nobody
  NoFile = NoFile
  Garbage = Garbage
  Missing = Missing
  Plenty = Plenty
  Home <- OppositeHomes
  LockServer <- LockServers
  Scenarios <- AllScenarios
CHECK_DEADLOCK FALSE
INVARIANT IInv
INVARIANT LoadedOnce
INVARIANT RedisReplicasAgree
INVARIANT ReadYourAppends
INVARIANT PreparedServersRun
PROPERTY ImplementsObjectStore
PROPERTY LockReleased
