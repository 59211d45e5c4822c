SPECIFICATION Spec
CONSTANTS
  MaxType = 2
  x = x
  y = y
  Value = {x, y}
  Junk = Junk
  NoValue = NoValue
  PageSlots = 3
  SnMax = 100
  StrayAddress = FALSE
  Calls = {"write", "delete", "reset"}
  MaxCalls = 6
  MaxRestarts = 2
SYMMETRY Values
INVARIANT RepairedKeepsData
