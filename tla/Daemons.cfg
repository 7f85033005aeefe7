\* A daemon behind by one block connects while the next block is added.
SPECIFICATION FairSpec
CONSTANTS
  n1 = n1
  n2 = n2
  n3 = n3
  MaxHeight = 2
  InitialHeight = 1
  MaxTimeDrift <- MCDrift
  Block <- MCBlock
  Hash <- MCHash
  Clock <- SameClock
  Node = {n1, n2}
  Link <- Pair
  Established = FALSE
  InitialChain <- Ahead
  Producer = {n1}
  Bpm = {7}
  Limit = 3
  Daemon = {n1, n2}
  Old = {n2}
  ReadAhead = 0
  MaxCommands = 0
  Backlog = 1
CHECK_DEADLOCK FALSE
PROPERTIES
  ReachesBestHeight
