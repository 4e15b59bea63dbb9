--------------------------- MODULE MCAgentSessions ---------------------------
EXTENDS AgentSessions
CONSTANTS s1, s2, q1
=============================================================================
