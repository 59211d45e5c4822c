SPECIFICATION Spec
CONSTANTS
  Key = {"k1", "k2"}
  small = small
  big = big
  Value = {small, big}
  NoKey = NoKey
  NoValue = NoValue
  Size <- Sizes
  SectorNum = 4
  SectorSize = 3
  GcThreshold = 2
  DefaultKey = "k1"
  DefaultValue = small
  StrayName = FALSE
  AnyLoss = FALSE
  MaxCalls = 4
  MaxRestarts = 2
INVARIANT TypeOK
INVARIANT ReadsStored
INVARIANT OneLiveRecord
 
 
