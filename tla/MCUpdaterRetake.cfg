SPECIFICATION Spec
CONSTANTS
  Ids = {1, 2}
  Days = {1, 2}
  MaxEpoch = 1
  Files = {core}
  Core = core
  PatchPrice = {1}
  FullPrice = {2}
  MaxFaulty = 0
  Rewrites = FALSE
  Unreadable = FALSE
  MaxFaults = 0
  OldClient = TRUE
INVARIANTS HeldSurvivesCalls
