\* Two connected nodes fork; one command is given, entries expire, reads lose messages.
SPECIFICATION Spec
CONSTANTS
  n1 = n1
  n2 = n2
  n3 = n3
  MaxHeight = 2
  InitialHeight = 0
  MaxTimeDrift = 1
  Block <- MCBlock
  Hash <- MCHash
  Clock <- SkewedClock
  Node = {n1, n2}
  Link <- Pair
  Established = TRUE
  InitialChain <- AllGenesis
  Producer = {n1, n2}
  Bpm = {7}
  Limit = 2
  Daemon = {}
  Old = {n1, n2}
  ReadAhead = 1
  MaxCommands = 1
  Backlog = 0
CHECK_DEADLOCK FALSE
INVARIANTS
  OnlyOwnBlocks
  RequestsServable
  HistoryAgreement
