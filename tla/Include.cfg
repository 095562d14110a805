CONSTANTS
  Loops = {"bird", "canary"}
  Includes <- Wiring
  Contents = {"x", "y", "b"}
  Broken = {"b"}
  Renders <- MayBreak
  Empty = "x"
  None = "none"
  MaxChanges = 2
  MaxFaults = 2
SPECIFICATION FairSpec
INVARIANTS
  IncludeInv
PROPERTY Settles
