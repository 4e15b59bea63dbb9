-------------------------- MODULE MCAgentEnrolment --------------------------
EXTENDS AgentEnrolment
CONSTANTS s1, s2
=============================================================================
