SPECIFICATION Spec
CONSTANTS
  NoValue = NoValue
  Bad = Bad
  SixtyText = SixtyText
  LateText = LateText
  Texts = {SixtyText, LateText}
  Number <- Numbers
  BadTime = BadTime
  NoFile = NoFile
  Now = 1
  Rulebooks <- ManyRules
  Packs <- ManyPacks
  PolicyModes = {"balanced", "latency_first"}
  ConfiguredMode = "balanced"
  Scenarios <- AllScenarios
  RecId <- Ids
INVARIANTS
  TypeOK
  ApprovalGate
  Ranked
  NoActionIsExclusive
  ScaleUpTrigger
  QuarantineTrigger
  ScaleToZeroTrigger
  RaisesOnlyOnUnvalidated
  FlawsThatStop
CHECK_DEADLOCK FALSE
