CONSTANTS
  p1 = p1
  p2 = p2
  k1 = k1
  k2 = k2
  m1 = m1
  m2 = m2
  s1 = s1
  s2 = s2
  NoSpec = NoSpec
  NoPool = NoPool
  NoIdx = NoIdx
  Pools = {p1, p2}
  Keys = {k1, k2}
  Masks = {m1}
  MaskOf <- OneMask
  Homes <- AnyPool
  Specs = {s1}
  Idxs = {0, 1}
  MaxTouch = 2
  MaxChanges = 2
  MaxFaults = 0
SPECIFICATION Spec
PROPERTY KeepsPoliced
