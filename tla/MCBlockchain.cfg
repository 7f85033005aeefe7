\* One process with two TryAcceptChain callers and one callback.
SPECIFICATION Spec
CONSTANTS
  MaxHeight = 2
  Hash <- MCHash
  Block <- MCBlock
  MaxTimeDrift <- MCDrift
  Subscriber = {broadcast}
  Caller = {a, b}
  Bpm <- MCBpm
  Offer <- MCOffer
  Clock <- MCTimes
INVARIANTS
  TypeOK
  ChainIntact
  NotificationsOrdered
  AnsweredNeverShorter
PROPERTIES
  ValidUntilSetBack
  ImplementsLedger
