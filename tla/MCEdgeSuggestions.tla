-------------------------- MODULE MCEdgeSuggestions --------------------------
EXTENDS EdgeSuggestions, TLC
CONSTANTS c1, c2, t1, t2
Symmetry == Permutations(Calls)
=============================================================================
