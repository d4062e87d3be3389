CONSTANTS
  Message <- MCMessage
  Feed <- MCFeed
  PartitionOf <- MCPartitionOf
  Partition = {1, 2, 3, 4}
  Feedcode = {"a"}
  NULL = NULL
  INTERVAL = 1
  MAXQUEUE = 1
  LIMIT = 9
SPECIFICATION ELSpec
INVARIANT ReportedOnce
CHECK_DEADLOCK FALSE
