SPECIFICATION Spec
CONSTANTS
  NoValue = NoValue
  Bad = Bad
  SixtyText = SixtyText
  LateText = LateText
  Texts = {SixtyText, LateText}
  Number <- Numbers
  BadTime = BadTime
  NoFile = NoFile
  Now = 1
  Rulebooks <- FewRules
  Packs <- ManyPacks
  PolicyModes = {"balanced", "latency_first"}
  ConfiguredMode = "balanced"
  Scenarios <- AllScenarios
  RecId <- Ids
INVARIANTS
  BatchingTrigger
CHECK_DEADLOCK FALSE
