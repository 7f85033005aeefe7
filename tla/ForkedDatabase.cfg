\* What the daemon saved is shadowed by what the seed server saved.
SPECIFICATION Spec
CONSTANTS
  MaxHeight = 2
  MaxTimeDrift <- MCDrift
  Block <- MCBlock
  Hash <- MCHash
  Clock <- MCTimes
  Proc = {sbcd, seed}
  MaxStarts = 2
SYMMETRY Alike
CHECK_DEADLOCK FALSE
INVARIANTS
  SavedSurvives
