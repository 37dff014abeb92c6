SPECIFICATION Spec
CONSTANTS
  Absent = Absent
  FireTimes <- MCFires
  Window = 2
  DefaultKeep = 2
  ScheduleSpecs <- KeepSpecs
  Phases = {"InProgress", "Ready", "Failed"}
  MaxTime = 4
  MaxEdits = 1
  MaxFaults = 0
CHECK_DEADLOCK FALSE
PROPERTY KeepsSuccessful
