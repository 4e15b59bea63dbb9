--------------------------- MODULE MCManagedChecks ---------------------------
EXTENDS ManagedChecks, TLC
CONSTANTS s1, s2, c1, c2, k1, r1, r2, r3, d1, d2
Symmetry ==
  Permutations(Sources) \union Permutations(Configs) \union Permutations(Runs)
    \union Permutations(Defs)
=============================================================================
