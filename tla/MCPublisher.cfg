SPECIFICATION Spec
CONSTANTS
  Ids = {1, 2, 3}
  Days = {1, 2}
  MaxEpoch = 1
  Files = {core}
  Core = core
  Pages = {p}
  KeepTips = 1
  Spans = {1}
  HardLinks = TRUE
  CleansWork = TRUE
INVARIANTS TypeOK ThroughNeverRewinds RoutesReproduce PublishesTheExport TipHasDiffBase FullsAreHosted NoUnexplainedRemoval
PROPERTIES PublishedIsImmutable
