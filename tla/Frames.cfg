\* Messages shorter and longer than the buffer, up to five of them.
SPECIFICATION FairSpec
CONSTANTS
  Size = {1, 3, 4}
  BufSize = 3
  MaxMessages = 5
CHECK_DEADLOCK FALSE
INVARIANTS
  TypeOK
  AloneArrives
  StopsOnlyAfterOverlap
PROPERTIES
  KeepsReading
  ImplementsLossyStream
