---------------------------- MODULE MCAutoGroups ----------------------------
EXTENDS AutoGroups, TLC
CONSTANTS s1, s2, c1, c2, k1, r1, r2
Symmetry == Permutations(Configs) \union Permutations(Runs)
=============================================================================
