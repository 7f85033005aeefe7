\* The test of server_sync_spec.go: connect, wait, no other command.
SPECIFICATION FairSpec
CONSTANTS
  n1 = n1
  n2 = n2
  n3 = n3
  MaxHeight = 2
  InitialHeight = 2
  MaxTimeDrift <- MCDrift
  Block <- MCBlock
  Hash <- MCHash
  Clock <- SameClock
  Node = {n1, n2}
  Link <- Pair
  Established = FALSE
  InitialChain <- Ahead
  Producer = {}
  Bpm = {7}
  Limit = 5
  Daemon = {}
  Old = {}
  ReadAhead = 0
  MaxCommands = 0
  Backlog = 0
CHECK_DEADLOCK FALSE
PROPERTIES
  CatchesUp
