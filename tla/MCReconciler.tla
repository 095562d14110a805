---------------------------- MODULE MCReconciler ----------------------------
EXTENDS Reconciler, TLC
CONSTANTS p1, p2, k1, k2, m1, m2, s1, s2
OneMask   == (k1 :> m1) @@ (k2 :> m1)
TwoMasks  == (k1 :> m1) @@ (k2 :> m2)
\* Sound where every key may be in any pool, and without fairness.
PoolSymmetry == Permutations(Pools)
AnyPool   == (k1 :> {p1, p2}) @@ (k2 :> {p1, p2})
FixedPool == (k1 :> {p1}) @@ (k2 :> {p2})
=============================================================================
