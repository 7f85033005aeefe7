\* Three connected nodes, one of them adds three blocks.
SPECIFICATION FairSpec
CONSTANTS
  n1 = n1
  n2 = n2
  n3 = n3
  MaxHeight = 3
  InitialHeight = 0
  MaxTimeDrift <- MCDrift
  Block <- MCBlock
  Hash <- MCHash
  Clock <- SameClock
  Node = {n1, n2, n3}
  Link <- Triangle
  Established = TRUE
  InitialChain <- AllGenesis
  Producer = {n1}
  Bpm = {7}
  Limit = 2
  Daemon = {}
  Old = {}
  ReadAhead = 0
  MaxCommands = 0
  Backlog = 0
CHECK_DEADLOCK FALSE
INVARIANTS
  TypeOK
  HandledMeansOnChain
  QuietMeansAgreed
  FollowsProducer
PROPERTIES
  GossipSettles
