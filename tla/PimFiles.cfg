SPECIFICATION EitherSpec
CONSTANTS
  Formats <- AllFormats
  Given <- OneOrAll
  Found <- SomeFiles
  NewRecs <- SomeRecs
  MaxRuns = 2
  MaxFaults = 1
  MaxPim = 1
  VFiles <- SortFiles
  HFiles <- HandyFiles
  CFiles <- ConvFiles
INVARIANTS
  TypeOK
  LastCopy
  ReadBack
  SortedWhole
  HandyMade
  ConvertedOnce
CHECK_DEADLOCK FALSE
