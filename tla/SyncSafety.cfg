CONSTANTS
  Pools = {p, q}
  MaxGen = 3
  MaxTouch = 1
  MaxStale = 0
  MaxFaults = 1
  QueueCap = 2
  MaxPending = 1
SPECIFICATION Spec
INVARIANTS
  NothingMissed
PROPERTIES
  AppliedNeverRegresses
  ColdStartTouchesNothing
SYMMETRY PoolSymmetry
