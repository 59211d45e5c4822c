SPECIFICATION FairSpec
CONSTANTS
  QueueSize = 2
  MaxBytes = 3
  Lens <- OneLength
  BusyTime = 1
  Oom = TRUE
  MaxInputs = 3
INVARIANTS
  TypeOK
  IndexTrails
  QueuedIsSeen
PROPERTIES
  QueuedIsSent
