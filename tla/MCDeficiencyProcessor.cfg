CONSTANTS
  Message <- MCMessage
  Feed <- MCFeed
  Feedcode = {"a", "b"}
  NULL = NULL
  INTERVAL = 2
  MAXQUEUE = 1
SPECIFICATION DPSpec
INVARIANTS
  DetectorInv
  NoSilentGap
  QueueBound
PROPERTIES
  ImplementsLedger
