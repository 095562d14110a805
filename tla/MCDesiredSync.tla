--------------------------- MODULE MCDesiredSync ---------------------------
EXTENDS DesiredSync, TLC
PoolSymmetry == Permutations(Pools)
=============================================================================
