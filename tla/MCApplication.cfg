SPECIFICATION Spec
CONSTANTS
  Scenarios = {"queues", "barrier", "order", "timers", "wrap", "instance", "instances", "intercept", "async", "replies",
               "build", "calls", "slow", "more", "kinds", "plugins", "held", "reload",
               "handles", "objects", "group", "careless",
               "elements", "attributes", "twice", "text", "header", "encoding", "links", "clones",
               "startup", "generate", "write", "receive", "read"}
  Absent = Absent
INVARIANTS
  QueuesExact
  NoFault
  AtMostOneResult
  AllOrNothing
  DuplicateEqual
  WrappersSound
  
  ReadAsWritten
  GeneratorExact
PROPERTIES
  FiresOnlyArmed
CHECK_DEADLOCK FALSE
