CONSTANTS
  a = a
  b = b
  Data = {a, b}
  NoData = NoData
  NFiles = 1
  RevFiles = {1}
  Ids = {1, 2, 3, 4}
  IdFile <- MCOneFile
  OwnerIds = {}
  Slots = {1, 2, 3, 4, 5, 6}
  SlotFile <- MCOneFileSlots
  Commands = {"sync"}
  PimMarksDeleted = FALSE
  MaxEdits = 2
  MaxFaults = 2
  MaxCrashes = 0
SPECIFICATION SyncingSpec
PROPERTIES RunEnds Converges
