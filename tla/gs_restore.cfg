SPECIFICATION RestoreSpec
CONSTANTS
  Absent = Absent
  t1 = t1
  Templates <- MCTemplates
  ServerSpecs <- RestoreServers
  TemplateSpecs <- RestoreTemplates
  BackupStates = {"Ready"}
  MaxEdits = 4
  MaxFaults = 0
  MaxSteps = 4
CHECK_DEADLOCK FALSE
PROPERTY RestoreSeedsWorld
