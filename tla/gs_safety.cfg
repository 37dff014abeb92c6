SPECIFICATION Spec
CONSTANTS
  Absent = Absent
  t1 = t1
  Templates <- MCTemplates
  ServerSpecs <- SafetyServers
  TemplateSpecs <- SafetyTemplates
  BackupStates = {"Absent"}
  MaxEdits = 3
  MaxFaults = 1
  MaxSteps = 4
CHECK_DEADLOCK FALSE
INVARIANT TypeOK
INVARIANT ObservedSpecApplied
INVARIANT ObservedInv
INVARIANT HealthyPhaseIsBacked
INVARIANT RestIsConverged
PROPERTY ObservedNeverRegresses
