CONSTANTS
  Hole0 = 6
  Hole1 = 7
  NPages = 2
  Granules <- MCGranules
  PlainEof = 4
  Size <- MCSize
  Journaled = TRUE
  MaxWrites = 3
  MaxTxn = 3
  MaxFaults = 1
  MaxCrashes = 1
SPECIFICATION Spec
INVARIANTS TypeOK ReadsWhatWasWritten SpaceIsAccounted
PROPERTY CommitIsAtomic
CHECK_DEADLOCK FALSE
