\* Two peers that come and go.  A tick is ten seconds; the time to live is cut short.
SPECIFICATION FairSpec
CONSTANTS
  Peer = {p1, p2}
  UpdatePeriod = 1
  CleanupPeriod = 3
  TTL = 6
  Delay = 1
  Horizon = 12
INVARIANTS
  TypeOK
  StaleBounded
  ConnectedListed
PROPERTIES
  KeepsUpdating
