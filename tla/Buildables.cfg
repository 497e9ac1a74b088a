CONSTANTS
  Position <- MCPosition
  Size = 100
  BuildPoints <- MCBuildPoints
  PowerConsumption <- MCPowerConsumption
  Supply <- MCSupply
  SupplyRange <- MCSupplyRange
  Layouts <- MCLayouts
  InitialBuildPoints = 2
  BaseSupply = 10
  CompetitionRange = 320
  UNIT = 320
  MaxHealth = 2
  OptionInstant = TRUE
  MaxActs = 4
SPECIFICATION FairSpec
INVARIANTS TypeOK
PROPERTIES ReactorOnlyForReactor PointsAreKept PlacementKeepsPower PowerSettles
