SPECIFICATION Spec
CONSTANTS
  Ids = {1, 2}
  Days = {1, 2}
  MaxEpoch = 1
  Files = {core}
  Core = core
  Pages = {p}
  KeepTips = 1
  Spans = {1}
  HardLinks = TRUE
  CleansWork = FALSE
INVARIANTS PublishesTheExport
