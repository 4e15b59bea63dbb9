--------------------------- MODULE MCAgentExecutor ---------------------------
EXTENDS AgentExecutor
CONSTANTS r1, r2, p1
=============================================================================
