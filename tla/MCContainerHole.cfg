CONSTANTS
  Hole0 = 6
  Hole1 = 7
  NPages = 2
  Granules <- MCGranules
  PlainEof = 4
  Size <- MCSize
  Journaled = TRUE
  MaxWrites = 3
  MaxTxn = 3
  MaxFaults = 0
  MaxCrashes = 0
SPECIFICATION Spec
INVARIANT EveryRunParses
CHECK_DEADLOCK FALSE
