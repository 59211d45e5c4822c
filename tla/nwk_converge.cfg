SPECIFICATION FairSpec
CONSTANTS
  l = l
  a = a
  c = c
  Node = {l, a, c}
  NoNode = NoNode
  Null = Null
  FirstLeader = l
  TableSize = 3
  Lease = 4
  RegDelay = 2
  Faults = {"roam", "promote", "restart"}
  Lockstep = TRUE
  MaxChurn = 5
  MaxMissed = 1
  MaxNet = 2
INVARIANT KeepAliveArmed
PROPERTY Converges
