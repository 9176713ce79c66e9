CONSTANTS
  a = a
  b = b
  Data = {a, b}
  NoData = NoData
  NFiles = 1
  RevFiles = {}
  Ids = {1, 2}
  IdFile <- MCOneFile
  OwnerIds = {}
  Slots = {1, 2, 3}
  SlotFile <- MCOneFileSlots
  Commands = {"sync"}
  PimMarksDeleted = TRUE
  MaxEdits = 4
  MaxFaults = 0
  MaxCrashes = 0
SYMMETRY MCSymmetry
SPECIFICATION Spec
INVARIANTS Phase2Complete
