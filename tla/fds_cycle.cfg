SPECIFICATION Spec
CONSTANTS
  MaxType = 2
  x = x
  y = y
  Value = {x, y}
  Junk = Junk
  NoValue = NoValue
  PageSlots = 3
  SnMax = 100
  StrayAddress = FALSE
  Calls = {"write", "delete"}
  MaxCalls = 9
  MaxRestarts = 0
SYMMETRY Values
INVARIANT TypeOK
INVARIANT EntriesInCurrentPage
INVARIANT ReadsLastOrHidden
