SPECIFICATION Spec
CONSTANTS
  Ids = {1, 2, 3, 4}
  MaxThrough = 2
  MaxEpoch = 1
  PatchPrice = {2}
  RollupPrice = {1}
  FullPrice = {3}
  Reuse = FALSE
INVARIANTS CheapestIsMinimal RoadIsRidable TipIsReachable
\* A catalog with every id used up and nothing left to prune is the end of the behaviour.
CHECK_DEADLOCK FALSE
