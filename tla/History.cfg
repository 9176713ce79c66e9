CONSTANTS
  a = a
  b = b
  Data = {a, b}
  NoData = NoData
  NFiles = 1
  RevFiles = {}
  Ids = {1, 2}
  IdFile <- MCOneFile
  OwnerIds = {}
  Slots = {1, 2, 3}
  SlotFile <- MCOneFileSlots
  Commands = {"sync"}
  PimMarksDeleted = FALSE
  MaxEdits = 4
  MaxFaults = 2
  MaxCrashes = 0
SYMMETRY MCSymmetry
SPECIFICATION HSpec
INVARIANTS OnlyUserDeletes PimOnlyUserDeletes
PROPERTIES OverrideNeedsEdit EditsKept
