CONSTANTS
  Anchors = {a}
  Flows = {f}
  Families = {"ip4"}
  FamilyOf <- OneFamily
  Attrs = {c, d}
  Hops = {h, i}
  None = None
  MaxOps = 2
  MaxChanges = 1
  MaxFaults = 2
  MaxEvents = 2
SPECIFICATION PromptSpec
INVARIANTS
  FeedInv
PROPERTIES
  Restored
  Delivered
