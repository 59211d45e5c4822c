SPECIFICATION FairSpec
CONSTANTS
  Caller = {"ot", "app", "hci"}
  NoCaller = "nobody"
  Kind <- Kinds
  QueueSize = 4
  Slots <- Buffers
  EventSize = 1
  MaxDrops = 1
  MaxCommands = 3
  MaxFails = 1
  MaxOther = 1
INVARIANTS TypeOK QueueInOrder NothingStranded NoMissedWakeup ConfirmsConserved
PROPERTY CommandReturns
CHECK_DEADLOCK FALSE
