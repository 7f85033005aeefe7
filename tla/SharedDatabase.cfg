\* A daemon and a seed server with the same data directory.
SPECIFICATION Spec
CONSTANTS
  MaxHeight = 2
  MaxTimeDrift <- MCDrift
  Block <- MCBlock
  Hash <- MCHash
  Clock <- MCTimes
  Proc = {sbcd, seed}
  MaxStarts = 2
SYMMETRY Alike
CHECK_DEADLOCK FALSE
INVARIANTS
  TypeOK
  UnforkedSurvives
  AncestorsStored
  LoadReachesLeaf
