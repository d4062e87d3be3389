SPECIFICATION LiveSpec
CONSTANTS
  Scenarios = {"report", "full", "brim", "complete", "bootstrap", "answer"}
  Absent = Absent
PROPERTIES
  Reported
  Answered
CHECK_DEADLOCK FALSE
