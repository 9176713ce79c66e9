CONSTANTS
  a = a
  b = b
  Data = {a, b}
  NoData = NoData
  NFiles = 1
  RevFiles = {}
  Ids = {1, 2}
  IdFile <- MCOneFile
  OwnerIds = {1}
  Slots = {1, 2, 3}
  SlotFile <- MCOneFileSlots
  Commands = {"export", "import", "sync"}
  PimMarksDeleted = TRUE
  MaxEdits = 3
  MaxFaults = 1
  MaxCrashes = 1
SPECIFICATION Spec
PROPERTIES KeepsContract
