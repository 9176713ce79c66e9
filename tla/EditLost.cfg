CONSTANTS
  a = a
  b = b
  Data = {a, b}
  NoData = NoData
  NFiles = 1
  RevFiles = {1}
  Ids = {1, 2}
  IdFile <- MCOneFile
  OwnerIds = {}
  Slots = {1, 2, 3}
  SlotFile <- MCOneFileSlots
  Commands = {"sync"}
  PimMarksDeleted = FALSE
  MaxEdits = 3
  MaxFaults = 0
  MaxCrashes = 0
SYMMETRY MCSymmetry
SPECIFICATION HSpec
PROPERTIES EditsKept
