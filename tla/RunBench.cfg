SPECIFICATION AnySpec
CONSTANTS
  Server = "server"
  Benches <- TwoBenches
  Kinds <- AllKinds
  MaxInterrupts = 3
  Configs <- SmallConfigs
  ScatterNames <- TwoScatter
  ComparisonNames <- OneComparison
  MaxCampaigns = 3
INVARIANTS OneInterruptStopsAll NoListenerIsLeft NothingMixed FinishedIsComplete
PROPERTIES NobodyStays NoLastingDamage
CHECK_DEADLOCK FALSE
