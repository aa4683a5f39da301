CONSTANTS
  Hole0 = 8
  Hole1 = 9
  NPages = 2
  Granules <- MCGranules
  Readers = {r1, r2}
  NReader = 3
  MaxFrames = 2
  MaxFaults = 0
SPECIFICATION Spec
SYMMETRY Interchangeable
INVARIANT EverySnapshotHolds
