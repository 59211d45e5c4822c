SPECIFICATION Spec
CONSTANTS
  l = l
  a = a
  c = c
  Node = {l, a, c}
  NoNode = NoNode
  Null = Null
  FirstLeader = l
  TableSize = 2
  Lease = 2
  RegDelay = 1
  Faults = {"promote", "restart", "election"}
  Lockstep = FALSE
  MaxChurn = 5
  MaxMissed = 1
  MaxNet = 1
SYMMETRY Others
INVARIANT AckSuccessMeansRegistered
