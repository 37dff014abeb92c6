SPECIFICATION FairSpec
CONSTANTS
  t1 = t1
  t2 = t2
  s1 = s1
  s2 = s2
  Templates <- MCTemplates
  Servers <- MCServers
  Absent = Absent
  MaxEdits = 4
  MaxFaults = 1
CHECK_DEADLOCK FALSE
INVARIANT TypeOK
INVARIANT RestIsCounted
PROPERTY CountSettles
