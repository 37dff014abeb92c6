SPECIFICATION FairSpec
CONSTANTS
  Absent = Absent
  KeyOrder <- MCKeyOrder
  Ints <- MCInts
  Bools <- MCBools
  ServerSpecs <- MCServers
  TemplateSpecs <- MCTemplates
  NodePorts = {1, 2, 3}
  Webhooks = TRUE
  MaxEdits = 2
CHECK_DEADLOCK FALSE
INVARIANT TypeOK
INVARIANT RestIsServed
PROPERTY ConfigReachesPod
PROPERTY ServicesSettle
PROPERTY AddressSettles
PROPERTY NodePortsKept
