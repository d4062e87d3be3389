SPECIFICATION LiveSpec
CONSTANTS
  Scenarios = {"near"}
  Absent = Absent
PROPERTIES
  EnoughSpaceWakes
CHECK_DEADLOCK FALSE
