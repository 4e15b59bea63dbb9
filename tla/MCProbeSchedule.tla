--------------------------- MODULE MCProbeSchedule ---------------------------
EXTENDS ProbeSchedule, TLC
CONSTANTS k1, k2
=============================================================================
