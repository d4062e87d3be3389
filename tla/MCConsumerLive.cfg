SPECIFICATION LiveSpec
CONSTANTS
  Scenarios = {"consume", "retention", "close", "coordinator", "callback"}
  Absent = Absent
PROPERTIES
  ConsumesAll
  GroupSettles
CHECK_DEADLOCK FALSE
