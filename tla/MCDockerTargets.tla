-------------------------- MODULE MCDockerTargets --------------------------
EXTENDS DockerTargets, TLC
CONSTANTS r1, r2, c1
\* Two runs compete for one config.
SharedConfig == (r1 :> c1) @@ (r2 :> c1)
=============================================================================
