SPECIFICATION FairSpec
CONSTANTS
  Ids = {1, 2, 3}
  Days = {1, 2}
  MaxEpoch = 0
  Files = {core}
  Core = core
  PatchPrice = {1}
  FullPrice = {2}
  MaxFaulty = 0
  Rewrites = TRUE
  Unreadable = FALSE
  MaxFaults = 1
  OldClient = TRUE
PROPERTIES CatchesUp FullsAreRetaken
\* A consumer that holds the newest build has nothing to do, and the builds run out.
CHECK_DEADLOCK FALSE
