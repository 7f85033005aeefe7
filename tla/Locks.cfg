\* Two nodes connect; one may stop reading and does any one thing besides.
SPECIFICATION FairSpec
CONSTANTS
  a = a
  b = b
  Node = {a, b}
  Link <- Pair
  Task <- Tasks
  Established = FALSE
  MayGiveUp <- ToA
  Capacity = 1
  MaxStarts = 1
  MaxBlocks = 1
  MaxServed = 1
CHECK_DEADLOCK FALSE
INVARIANTS
  TypeOK
  NoLockCycle
  OnlyPeerLookupsRace
  HaltsOnlyInAJam
PROPERTIES
  TasksReturn
