SPECIFICATION FairRestoreSpec
CONSTANTS
  Absent = Absent
  MaxEdits = 2
  MaxFaults = 1
CHECK_DEADLOCK FALSE
INVARIANT RestoreTypeOK
INVARIANT RestIsMirrored
INVARIANT RestIsRestored
PROPERTY PhaseSettles
PROPERTY SnapshotsCollected
PROPERTY RestoreSettles
