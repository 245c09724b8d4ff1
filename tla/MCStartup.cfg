\* Restarts of a cluster of two hosts, and trigger files that are replaced.
SPECIFICATION FairSpec
CONSTANTS
  h1 = h1
  h2 = h2
  Hosts = {h1, h2}
  First = h1
  Scenarios <- AllScenarios
CHECK_DEADLOCK FALSE
INVARIANT StartupInv
INVARIANT WatchesIntact
INVARIANT NoStrandedServer
PROPERTY RestartSucceeds
