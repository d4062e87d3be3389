SPECIFICATION Spec
CONSTANTS
  Scenarios = {"seek", "pause", "overtake", "lookup", "file", "broker", "member", "rebalance",
               "auto", "range", "robin", "mixed", "blacklist", "strategies", "v2", "v1", "v0", "consumecalls", "yield", "batchyield",
               "poll", "event", "throttle"}
  Absent = Absent
INVARIANTS
  NothingSkipped
  CommitsAccounted
  FetchersMatch
  AssignedOnce
  Faithful
  OpsAccounted
PROPERTIES
  DeliversInOrder
CHECK_DEADLOCK FALSE
