SPECIFICATION FairSpec
CONSTANTS
  Absent = Absent
  t1 = t1
  Templates <- MCTemplates
  ServerSpecs <- LiveServers
  TemplateSpecs <- LiveTemplates
  BackupStates = {"NotReady", "Ready"}
  MaxEdits = 3
  MaxFaults = 1
  MaxSteps = 3
CHECK_DEADLOCK FALSE
PROPERTY Converges
PROPERTY ChildrenCollected
