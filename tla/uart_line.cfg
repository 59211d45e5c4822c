SPECIFICATION FairSpec
CONSTANTS
  FifoSize = 4
  Trigger = 3
  Size = 9
  FrameLens = {5}
  Longest = 24
  MaxRequests = 2
  MaxDisturbed = 2
INVARIANTS TypeOK OneCallerServed NoByteLost DoneWillCome UnreadHasEvent
PROPERTIES  Answered
