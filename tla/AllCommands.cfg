CONSTANTS
  a = a
  b = b
  Data = {a, b}
  NoData = NoData
  NFiles = 2
  RevFiles = {1}
  Ids = {1, 2, 3, 4}
  IdFile <- MCTwoFiles
  OwnerIds = {1}
  Slots = {1, 2, 3, 4, 5, 6}
  SlotFile <- MCTwoFilesSlots
  Commands = {"export", "import", "sync"}
  PimMarksDeleted = FALSE
  MaxEdits = 3
  MaxFaults = 1
  MaxCrashes = 1
SYMMETRY MCSymmetry
SPECIFICATION Spec
INVARIANTS TypeOK PimIdsUnique StampMeansMirror Phase2Complete MarksLeftAreConflicts CommitMirrored DeleteSettled
