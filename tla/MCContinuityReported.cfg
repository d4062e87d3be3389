CONSTANTS
  Message <- DroppingMessage
  Feed <- DroppingFeed
  Feedcode = {"a"}
  NULL = NULL
  INTERVAL = 1
  MAXQUEUE = 3
SPECIFICATION DPSpec
INVARIANT ContinuityReported
