CONSTANTS
  Message <- MCMessage
  Feed <- MCFeed
  PartitionOf <- MCPartitionOf
  Partition = {1, 2}
  Feedcode = {"a"}
  NULL = NULL
  INTERVAL = 1
  MAXQUEUE = 0
  LIMIT = 9
  MaxCrash = 1
SPECIFICATION Spec
INVARIANTS
  CommitFollowsQueue
  MonitorInv
  HeldIsUncommitted
  NoDoubleDelete
PROPERTIES
  LateBlocksPartition
