SPECIFICATION Spec
CONSTANTS
  l = l
  a = a
  c = c
  Node = {l, a, c}
  NoNode = NoNode
  Null = Null
  FirstLeader = l
  TableSize = 3
  Lease = 8
  RegDelay = 4
  Faults = {"roam", "promote", "loss"}
  Lockstep = TRUE
  MaxChurn = 5
  MaxMissed = 1
  MaxNet = 2
SYMMETRY Others
PROPERTY LiveLeaseHolds
PROPERTY TablesImplementRegistries
