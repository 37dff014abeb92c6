SPECIFICATION FairSpec
CONSTANTS
  Absent = Absent
  FireTimes <- LiveFires
  Window = 2
  DefaultKeep = 2
  ScheduleSpecs <- LiveSpecs
  Phases = {"InProgress", "Ready"}
  MaxTime = 3
  MaxEdits = 2
  MaxFaults = 1
CHECK_DEADLOCK FALSE
PROPERTY CaughtUp
PROPERTY KeepReached
PROPERTY ActiveSettles
