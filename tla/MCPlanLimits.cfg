CONSTANTS
    Agent <- MCAgents
    Area <- MCAreas
    Plan <- MCPlans
    Discovery = "DISCOVERY"
    MaxAgents <- MCMaxAgents
    MaxAreas <- MCMaxAreas
    Admin = {admin}
    NoCall = NoCall
    Worker = {worker}
SPECIFICATION FairSpec
INVARIANT FreePlanFits
PROPERTIES
    GrowsWithinPlan
    LapsedPlanSuspends
