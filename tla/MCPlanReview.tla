---------------------------- MODULE MCPlanReview ----------------------------
EXTENDS PlanReview, TLC
CONSTANTS p1, p2
MCMaxVersion == (p1 :> 2) @@ (p2 :> 1)
=============================================================================
