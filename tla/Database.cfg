CONSTANTS
  NBlocks = 2
  BlkLen = 3
  MaxRetry = 2
  MaxFaults = 2
  MaxLate = 1
SPECIFICATION FairSpec
INVARIANTS BackupWhole BackupGenuine RestoreWhole BlocksWhole
PROPERTIES CommandEnds
CHECK_DEADLOCK FALSE
