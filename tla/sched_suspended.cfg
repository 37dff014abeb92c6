SPECIFICATION Spec
CONSTANTS
  Absent = Absent
  FireTimes <- MCFires
  Window = 2
  DefaultKeep = 2
  ScheduleSpecs <- LiveSpecs
  Phases = {}
  MaxTime = 4
  MaxEdits = 2
  MaxFaults = 0
CHECK_DEADLOCK FALSE
PROPERTY SuspendedUntouched
