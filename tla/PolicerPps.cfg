CONSTANTS
  Pools = {p, q}
  Prefixes = {x, y}
  MaxGen = 1
  MaxStamp = 1
  MaxCalls = 3
  CirBits = 6
  Rates = {1, 3, 40, 63, 64, 65}
  Bursts = {1, 2, 5, 64}
  NameBytes = 4
  Addrs4 <- MCAddrs4
  Addrs6 <- MCAddrs6
  Chunk = 2
  MaxKeys = 3
  Counts = {0, 1, 5}
  MaxIndex = 2
  PerEntry = 4
  MinMembers = 2
  MinBuckets = 4
  MaxBuckets = 32
  MinMem = 16
  MaxMem = 200
  WordBits = 6
  Members = {0, 1, 3, 5, 33, 34, 63, 64, 67}
  Limits = {100, 400, 1000, 5000}
  AnchorLists <- MCAnchorLists
  FlowLists <- MCFlowLists
  NextHops4 <- MCNextHops4
  NextHops6 <- MCNextHops6
SPECIFICATION DataSpec
INVARIANT
  InSyncIsNotDrifted
