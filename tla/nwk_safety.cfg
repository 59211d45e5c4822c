SPECIFICATION Spec
CONSTANTS
  l = l
  a = a
  c = c
  d = d
  Node = {l, a, c, d}
  NoNode = NoNode
  Null = Null
  FirstLeader = l
  TableSize = 2
  Lease = 2
  RegDelay = 1
  Faults = {"roam", "promote", "restart", "loss", "election", "oom"}
  Lockstep = FALSE
  MaxChurn = 4
  MaxMissed = 1
  MaxNet = 2
SYMMETRY Others
INVARIANT TypeOK
INVARIANT OneSlotPerDevice
INVARIANT ReportAccounted
PROPERTY RouterNotDetached
 
