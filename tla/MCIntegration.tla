--------------------------- MODULE MCIntegration ---------------------------
(* TLC instance of Integration: two agents and two tests.                  *)
EXTENDS Integration
CONSTANTS a1, a2
MCAgentIds == <<a1, a2>>
=============================================================================
