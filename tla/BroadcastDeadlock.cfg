\* Two connected nodes add blocks to branches of their own; a stream holds one.
SPECIFICATION Spec
CONSTANTS
  a = a
  b = b
  Node = {a, b}
  Link <- Pair
  Task <- Adders
  Established = TRUE
  MayGiveUp = {}
  Capacity = 1
  MaxStarts = 6
  MaxBlocks = 3
  MaxServed = 0
CONSTRAINT Forked
SYMMETRY Symmetry
CHECK_DEADLOCK FALSE
INVARIANTS
  AddingNeverHalts
