CONSTANTS
  Pools = {p, q}
  MaxGen = 2
  MaxTouch = 2
  MaxStale = 2
  MaxFaults = 1
  QueueCap = 1
  MaxPending = 1
SPECIFICATION FairSpec
PROPERTIES
  AcceptNeverLosesNewer
  PoolSetHeals
