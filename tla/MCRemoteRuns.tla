---------------------------- MODULE MCRemoteRuns ----------------------------
EXTENDS RemoteRuns, TLC
CONSTANTS r1, r2
RunSymmetry == Permutations(Runs)
=============================================================================
