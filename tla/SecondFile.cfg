SPECIFICATION EitherSpec
CONSTANTS
  Formats <- OnlyVca
  Given <- NoMemo
  Found <- SomeFiles
  NewRecs <- SomeRecs
  MaxRuns = 1
  MaxFaults = 0
  MaxPim = 0
  VFiles <- SortFiles
  HFiles <- HandyFiles
  CFiles <- ConvFiles
INVARIANT ReadBack
CHECK_DEADLOCK FALSE
