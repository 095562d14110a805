CONSTANTS
  Epochs = {1, 2, 3, 4}
  Size <- Sizes
  OldSchema = {2}
  MaxFlips = 3
  MaxOutages = 1
SPECIFICATION LinkFairSpec
INVARIANTS
  LinkInv
  NeverPartial
  NewestLands
PROPERTIES
  ImplementsDelivery
  FrozenInTheEnd
