SPECIFICATION Spec
CONSTANTS
  Absent = Absent
  FireTimes <- MCFires
  Window = 2
  DefaultKeep = 2
  ScheduleSpecs <- KeepSpecs
  Phases = {}
  MaxTime = 4
  MaxEdits = 1
  MaxFaults = 0
CHECK_DEADLOCK FALSE
PROPERTY RetainsNewestKeep
