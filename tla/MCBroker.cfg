SPECIFICATION Spec
CONSTANTS
  Scenarios = {"deliver", "moves", "noacks", "expire", "quota", "pollers", "silent", "desired", "unassigned",
               "cache", "fails", "ask", "new", "old", "down", "plain", "tls", "timeouts", "frames", "sasl"}
  Absent = Absent
INVARIANTS
  OneReport
  AccountExact
  OneServer
  FullCounted
  OneAnswer
  HeldBack
  StreamsWhole
  BothProven
CHECK_DEADLOCK FALSE
