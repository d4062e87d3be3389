CONSTANTS
  Message <- MCMessage
  Feed <- PriceFeeds
  PartitionOf <- PricePartitionOf
  Partition = {1, 2}
  Feedcode = {"a"}
  NULL = NULL
  INTERVAL = 1
  MAXQUEUE = 0
  LIMIT = 9
  MaxCrash = 0
SPECIFICATION FairSpec
PROPERTIES
  ThreadsProgress
