SPECIFICATION Spec
CONSTANTS
  Ids = {1, 2, 3}
  Days = {1, 2, 3}
  MaxEpoch = 1
  Files = {core, vec}
  Core = core
  PatchPrice = {1}
  FullPrice = {2}
  MaxFaulty = 1
  Rewrites = FALSE
  Unreadable = TRUE
  MaxFaults = 1
  OldClient = FALSE
INVARIANTS TypeOK HeldIsWhole
PROPERTIES KeepsPromise
\* A consumer that holds the newest build has nothing to do, and the builds run out.
CHECK_DEADLOCK FALSE
