\* Both nodes find each other for ever, and one also dials once on its own account.
\* One dial, connection or reader fails.
SPECIFICATION FairSpec
CONSTANTS
  a = a
  b = b
  c = c
  Node = {a, b, c}
  Dialer <- MCDialer
  Runs = {a, b}
  MayStop = {b}
  MaxFaults = 1
  MaxStreams = 2
  MaxStarts = 1
CHECK_DEADLOCK FALSE
INVARIANTS
  TypeOK
  EntryIsRead
  QuietMeansMutual
PROPERTIES
  Rediscovers
