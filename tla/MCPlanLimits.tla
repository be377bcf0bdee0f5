---------------------------- MODULE MCPlanLimits ----------------------------
(* Small instances of PlanLimits for TLC: three plans, of one, two and three *)
(* agents.                                                                   *)
EXTENDS PlanLimits, TLC

MCAgents == 1..3
MCAreas == 1..2
MCPlans == {"DISCOVERY", "ESSENTIAL", "PRO"}
MCMaxAgents == "DISCOVERY" :> 1 @@ "ESSENTIAL" :> 2 @@ "PRO" :> 3
MCMaxAreas == "DISCOVERY" :> 1 @@ "ESSENTIAL" :> 1 @@ "PRO" :> 2
=============================================================================
