\* Two appenders, one writer, and each of them with killed and restarted servers.
SPECIFICATION FairSpecCrash
CONSTANTS
  c1 = c1
  c2 = c2
  s1 = s1
  s2 = s2
  s3 = s3
  Clients = {c1, c2}
  Servers = {s1, s2, s3}
  Objects = {o1}
  Sizes = {1, 2}
  MaxWrites = 2
  NoFile = NoFile
  Garbage = Garbage
  Initial = Initial
  Nobody = Nobody
  Home <- TwoHomes
  Host <- TwoHomes
  Kinds <- Everything
  Scenarios <- AllScenarios
CHECK_DEADLOCK FALSE
INVARIANT CrashInv
INVARIANT CheckerAccepts
INVARIANT CheckerExact
INVARIANT OwnWritesEverywhere
INVARIANT LagsByOneAppend
INVARIANT GetReturnsPrefix
INVARIANT SingleWriterAgreement
INVARIANT PeersUsable
PROPERTY CallsEnd
