SPECIFICATION Spec
CONSTANTS
  Absent = Absent
  FireTimes <- MCFires
  Window = 2
  DefaultKeep = 2
  ScheduleSpecs <- SafetySpecs
  Phases = {}
  MaxTime = 4
  MaxEdits = 2
  MaxFaults = 1
CHECK_DEADLOCK FALSE
INVARIANT TypeOK
INVARIANT EveryFireBackedUp
INVARIANT ScheduleInv
INVARIANT FireAwaited
PROPERTY ImplementsFireLog
PROPERTY SpawnedInOrder
PROPERTY RetainsKeepUntied
