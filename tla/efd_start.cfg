SPECIFICATION FairSpec
CONSTANTS
  Key = {"k1", "k2"}
  small = small
  big = big
  Value = {small}
  NoKey = NoKey
  NoValue = NoValue
  Size <- Sizes
  SectorNum = 4
  SectorSize = 1
  GcThreshold = 2
  DefaultKey = "k1"
  DefaultValue = small
  StrayName = FALSE
  AnyLoss = FALSE
  MaxCalls = 3
  MaxRestarts = 1
PROPERTY StartCompletes
