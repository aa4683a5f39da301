SPECIFICATION Spec
CONSTANTS
  Ids = {1, 2, 3, 4}
  Days = {1}
  MaxEpoch = 0
  Files = {core}
  Core = core
  Pages = {}
  KeepTips = 0
  Spans = {1}
  HardLinks = FALSE
  CleansWork = TRUE
INVARIANTS RoutesReproduce
