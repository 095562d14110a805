CONSTANTS
  Setups <- OneSensor
  Grace = 2
  K = 2
  MaxFaults = 1
SPECIFICATION FairSpec
INVARIANTS
  HealthInv
PROPERTIES
  RebuildIsNoBlackHole
  DeathTold
  RecoveryTold
  BlackHoleTold
