--------------------------- MODULE MCAgentChannel ---------------------------
EXTENDS AgentChannel
=============================================================================
