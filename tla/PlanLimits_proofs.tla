-------------------------- MODULE PlanLimits_proofs --------------------------
(***************************************************************************)
(* Proofs about PlanLimits, for any agents, areas and plans, any limits    *)
(* and any number of pages and workers. The inductive invariant IInv is    *)
(* stated in the module; what it adds to FreePlanFits is that only a paid  *)
(* plan runs out and that a subscription marked EXPIRED has run out, so    *)
(* that the quota of either is the one of the free plan.                   *)
(* Then those about the page of Billing that sells plans, for any offers,  *)
(* accounts and payments: the inductive invariant is PageIInv, and of what *)
(* payments are worth WorthIInv, with the arithmetic of prices and terms.  *)
(***************************************************************************)
EXTENDS PlanLimits, Billing, FiniteSetTheorems, TLAPS

-----------------------------------------------------------------------------
(* Counting *)

\* The active agents and areas are counted by numbers.
LEMMA Counts ==
    /\ ActiveAgents \subseteq Agent /\ OpenAreas \subseteq Area
    /\ IsFiniteSet(ActiveAgents) /\ Cardinality(ActiveAgents) \in Nat
    /\ IsFiniteSet(OpenAreas) /\ Cardinality(OpenAreas) \in Nat
<1>1. ActiveAgents \subseteq Agent /\ OpenAreas \subseteq Area
    BY DEF ActiveAgents, OpenAreas
<1>2. IsFiniteSet(ActiveAgents) /\ IsFiniteSet(OpenAreas)
    BY <1>1, FS_Subset, ConstantsOK
<1> QED BY <1>1, <1>2, FS_CardinalityType

\* So are those of the next state.
LEMMA CountsNext ==
    /\ ActiveAgents' \subseteq Agent /\ OpenAreas' \subseteq Area
    /\ IsFiniteSet(ActiveAgents') /\ Cardinality(ActiveAgents') \in Nat
    /\ IsFiniteSet(OpenAreas') /\ Cardinality(OpenAreas') \in Nat
<1>1. ActiveAgents' \subseteq Agent /\ OpenAreas' \subseteq Area
    BY DEF ActiveAgents, OpenAreas
<1>2. IsFiniteSet(ActiveAgents') /\ IsFiniteSet(OpenAreas')
    BY <1>1, FS_Subset, ConstantsOK
<1> QED BY <1>1, <1>2, FS_CardinalityType

\* The limits of a plan are numbers, and the plan in force is one.
LEMMA Limits ==
    ASSUME TypeOK
    PROVE  /\ \A p \in Plan : MaxAgents[p] \in Nat /\ MaxAreas[p] \in Nat
           /\ Discovery \in Plan /\ PlanInForce \in Plan
BY ConstantsOK DEF TypeOK, PlanInForce

\* Fewer agents and areas fit where more did.
LEMMA FewerFit ==
    ASSUME ActiveAgents' \subseteq ActiveAgents, OpenAreas' \subseteq OpenAreas,
           AgentsFit(Discovery), AreasFit(Discovery)
    PROVE  AgentsFit(Discovery)' /\ AreasFit(Discovery)'
<1>1. /\ Cardinality(ActiveAgents') <= Cardinality(ActiveAgents)
      /\ Cardinality(OpenAreas') <= Cardinality(OpenAreas)
    BY Counts, FS_Subset
<1>2. MaxAgents[Discovery] \in Nat /\ MaxAreas[Discovery] \in Nat
    BY ConstantsOK
<1> QED BY <1>1, <1>2, Counts, CountsNext DEF AgentsFit, AreasFit

\* Places kept for K leave exactly K active.
LEMMA AgentsWithActive ==
    ASSUME TypeOK, NEW K \in SUBSET Agent, agent' = AgentsWith(K)
    PROVE  ActiveAgents' = K /\ agent' \in [Agent -> AgentStates]
BY DEF AgentsWith, ActiveAgents, TypeOK, AgentStates

\* The same for areas.
LEMMA AreasWithOpen ==
    ASSUME TypeOK, NEW K \in SUBSET Area, area' = AreasWith(K)
    PROVE  OpenAreas' = K /\ area' \in [Area -> AreaStates]
BY DEF AreasWith, OpenAreas, TypeOK, AreaStates

\* What is retained is part of what there was and fits.
LEMMA RetainedFits ==
    ASSUME NEW S, NEW wanted, NEW n, NEW K \in Retained(S, wanted, n)
    PROVE  K \subseteq S /\ Cardinality(K) <= n
BY DEF Retained

\* What the console keeps and restores fits.
LEMMA ReconciledFits ==
    ASSUME NEW T, IsFiniteSet(T), NEW S \in SUBSET T, NEW R \in SUBSET T, NEW n \in Nat,
           NEW K \in Reconciled(S, R, n)
    PROVE  K \subseteq T /\ Cardinality(K) <= n
<1>1. IsFiniteSet(S) /\ Cardinality(S) \in Nat
    BY FS_Subset, FS_CardinalityType
<1>2. CASE Cardinality(S) >= n
    BY <1>2, RetainedFits DEF Reconciled
<1>3. CASE ~(Cardinality(S) >= n)
  <2>1. PICK Q \in Retained(R, {}, n - Cardinality(S)) : K = S \cup Q
      BY <1>3 DEF Reconciled
  <2>2. Q \subseteq R /\ Cardinality(Q) <= n - Cardinality(S)
      BY <2>1, RetainedFits
  <2>3. IsFiniteSet(Q) /\ Cardinality(Q) \in Nat
      BY <2>2, FS_Subset, FS_CardinalityType
  <2>4. IsFiniteSet(S \cap Q) /\ Cardinality(S \cap Q) \in Nat
      BY <1>1, FS_Subset, FS_CardinalityType
  <2>5. Cardinality(K) = Cardinality(S) + Cardinality(Q) - Cardinality(S \cap Q)
      BY <1>1, <2>1, <2>3, FS_Union
  <2>6. K \subseteq T
      BY <2>1, <2>2
  <2> QED BY <1>1, <2>2, <2>3, <2>4, <2>5, <2>6
<1> QED BY <1>2, <1>3

\* Enforcing the limits of a plan leaves no more than it carries, and adds nothing.
LEMMA EnforceFits ==
    ASSUME TypeOK, NEW p \in Plan, NEW wa, NEW wz, Enforce(p, wa, wz)
    PROVE  /\ agent' \in [Agent -> AgentStates] /\ area' \in [Area -> AreaStates]
           /\ ActiveAgents' \subseteq ActiveAgents /\ OpenAreas' \subseteq OpenAreas
           /\ AgentsFit(p)' /\ AreasFit(p)'
<1>1. PICK K \in Retained(ActiveAgents, wa, MaxAgents[p]) : agent' = AgentsWith(K)
    BY DEF Enforce
<1>2. PICK Z \in Retained(OpenAreas, wz, MaxAreas[p]) : area' = AreasWith(Z)
    BY DEF Enforce
<1>3. K \subseteq ActiveAgents /\ Cardinality(K) <= MaxAgents[p]
    BY RetainedFits
<1>4. Z \subseteq OpenAreas /\ Cardinality(Z) <= MaxAreas[p]
    BY RetainedFits
<1>5. K \in SUBSET Agent /\ Z \in SUBSET Area
    BY <1>3, <1>4, Counts
<1>6. ActiveAgents' = K /\ agent' \in [Agent -> AgentStates]
    BY <1>1, <1>5, AgentsWithActive
<1>7. OpenAreas' = Z /\ area' \in [Area -> AreaStates]
    BY <1>2, <1>5, AreasWithOpen
<1> QED BY <1>3, <1>4, <1>6, <1>7 DEF AgentsFit, AreasFit

\* So does the console's reconciliation, which may add.
LEMMA ReconcileFits ==
    ASSUME TypeOK, NEW p \in Plan, ReconcileResources(p)
    PROVE  /\ agent' \in [Agent -> AgentStates] /\ area' \in [Area -> AreaStates]
           /\ AgentsFit(p)' /\ AreasFit(p)'
<1> DEFINE SA == {a \in Agent : agent[a] = "SUSPENDED"}
           SZ == {z \in Area : area[z] = "SUSPENDED"}
<1>1. PICK K \in Reconciled(ActiveAgents, SA, MaxAgents[p]) : agent' = AgentsWith(K)
    BY DEF ReconcileResources
<1>2. PICK Z \in Reconciled(OpenAreas, SZ, MaxAreas[p]) : area' = AreasWith(Z)
    BY DEF ReconcileResources
<1>3. SA \in SUBSET Agent /\ SZ \in SUBSET Area
    OBVIOUS
<1>4. MaxAgents[p] \in Nat /\ MaxAreas[p] \in Nat
    BY Limits
<1> HIDE DEF SA, SZ
<1>5. K \subseteq Agent /\ Cardinality(K) <= MaxAgents[p]
  <2>1. IsFiniteSet(Agent) /\ ActiveAgents \in SUBSET Agent
      BY Counts, ConstantsOK
  <2> QED BY <1>1, <1>3, <1>4, <2>1, ReconciledFits
<1>6. Z \subseteq Area /\ Cardinality(Z) <= MaxAreas[p]
  <2>1. IsFiniteSet(Area) /\ OpenAreas \in SUBSET Area
      BY Counts, ConstantsOK
  <2> QED BY <1>2, <1>3, <1>4, <2>1, ReconciledFits
<1>7. ActiveAgents' = K /\ agent' \in [Agent -> AgentStates]
    BY <1>1, <1>5, AgentsWithActive
<1>8. OpenAreas' = Z /\ area' \in [Area -> AreaStates]
    BY <1>2, <1>6, AreasWithOpen
<1> QED BY <1>5, <1>6, <1>7, <1>8 DEF AgentsFit, AreasFit

\* One more agent, admitted under the plan in force, fits it.
LEMMA AdmittedFits ==
    ASSUME IInv, NEW a \in Agent, AgentAdmitted, SetAgent(a, "ACTIVE"), UNCHANGED <<planVars, area>>
    PROVE  /\ agent' \in [Agent -> AgentStates]
           /\ FreePlanFits' /\ GrowthFits
<1>1. TypeOK /\ agent \in [Agent -> AgentStates]
    BY DEF IInv, TypeOK
<1>2. ActiveAgents' = ActiveAgents \cup {a} /\ agent' \in [Agent -> AgentStates]
    BY <1>1 DEF SetAgent, ActiveAgents, AgentStates
<1>3. OpenAreas' = OpenAreas /\ PlanInForce' = PlanInForce
    BY DEF OpenAreas, PlanInForce, planVars
<1>4. Cardinality(ActiveAgents') <= MaxAgents[PlanInForce]
  <2>1. Cardinality(ActiveAgents') <= Cardinality(ActiveAgents) + 1
    <3>1. IsFiniteSet(ActiveAgents) /\ Cardinality(ActiveAgents) \in Nat
        BY Counts
    <3>2. Cardinality(ActiveAgents \cup {a}) \in {Cardinality(ActiveAgents), Cardinality(ActiveAgents) + 1}
        BY <3>1, FS_AddElement
    <3> QED BY <1>2, <3>1, <3>2
  <2>2. MaxAgents[PlanInForce] \in Nat
      BY <1>1, Limits
  <2> QED BY <2>1, <2>2, Counts, CountsNext DEF AgentAdmitted
<1>5. FreePlanFits'
    BY <1>3, <1>4 DEF IInv, FreePlanFits, AgentsFit, AreasFit, PlanInForce, planVars
<1> QED BY <1>2, <1>3, <1>4, <1>5 DEF GrowthFits

\* An agent that stops being active disturbs nothing.
LEMMA LostAgentFits ==
    ASSUME IInv, NEW a \in Agent, NEW s \in AgentStates \ {"ACTIVE"}, SetAgent(a, s),
           UNCHANGED <<planVars, area>>
    PROVE  /\ agent' \in [Agent -> AgentStates]
           /\ FreePlanFits' /\ GrowthFits
<1>1. agent \in [Agent -> AgentStates]
    BY DEF IInv, TypeOK
<1>2. ActiveAgents' \subseteq ActiveAgents /\ agent' \in [Agent -> AgentStates]
    BY <1>1 DEF SetAgent, ActiveAgents
<1>3. OpenAreas' = OpenAreas
    BY DEF OpenAreas
<1>4. FreePlanFits'
    BY <1>2, <1>3, FewerFit DEF IInv, FreePlanFits, planVars
<1> QED BY <1>2, <1>3, <1>4 DEF GrowthFits

\* Steps that touch neither the plan nor the rows of agents and areas.
LEMMA RowsUntouched ==
    ASSUME IInv, UNCHANGED <<planVars, rowVars>>
    PROVE  /\ agent' \in [Agent -> AgentStates] /\ area' \in [Area -> AreaStates]
           /\ FreePlanFits' /\ GrowthFits
<1>1. ActiveAgents' = ActiveAgents /\ OpenAreas' = OpenAreas
    BY DEF ActiveAgents, OpenAreas, rowVars
<1>2. FreePlanFits'
    BY <1>1 DEF IInv, FreePlanFits, AgentsFit, AreasFit, planVars
<1> QED BY <1>1, <1>2 DEF IInv, TypeOK, GrowthFits, rowVars

-----------------------------------------------------------------------------
(* Initial states *)

LEMMA InitInvariant == Init => IInv
<1> SUFFICES ASSUME Init PROVE IInv
    OBVIOUS
<1>1. TypeOK
    BY ConstantsOK DEF Init, TypeOK, AgentStates, AreaStates
<1>2. ActiveAgents = {} /\ OpenAreas = {}
    BY DEF Init, ActiveAgents, OpenAreas
<1>3. Cardinality(ActiveAgents) = 0 /\ Cardinality(OpenAreas) = 0
    BY <1>2, FS_EmptySet
<1>4. FreePlanFits
    BY <1>3, <1>1, Limits DEF FreePlanFits, AgentsFit, AreasFit
<1> QED BY <1>1, <1>4 DEF Init, IInv

-----------------------------------------------------------------------------
(* The plan *)

LEMMA PurchaseKeeps ==
    ASSUME IInv, NEW p \in Plan, Purchase(p)
    PROVE  IInv' /\ GrowthFits
<1>1. TypeOK'
    BY DEF Purchase, IInv, TypeOK, rowVars
<1>2. ActiveAgents' = ActiveAgents /\ OpenAreas' = OpenAreas
    BY DEF Purchase, ActiveAgents, OpenAreas, rowVars
<1>3. FreePlanFits' /\ ~over' /\ subscription' = "ACTIVE"
    BY DEF Purchase, FreePlanFits
<1> QED BY <1>1, <1>2, <1>3 DEF IInv, GrowthFits

LEMMA ApplyCancellationKeeps ==
    ASSUME IInv, ApplyCancellation
    PROVE  IInv' /\ GrowthFits
<1>1. TypeOK /\ Discovery \in Plan /\ Enforce(Discovery, {}, {})
    BY ConstantsOK DEF IInv, ApplyCancellation
<1>2. /\ agent' \in [Agent -> AgentStates] /\ area' \in [Area -> AreaStates]
      /\ ActiveAgents' \subseteq ActiveAgents /\ OpenAreas' \subseteq OpenAreas
      /\ AgentsFit(Discovery)' /\ AreasFit(Discovery)'
    BY <1>1, EnforceFits
<1>3. TypeOK'
    BY <1>1, <1>2 DEF ApplyCancellation, TypeOK
<1> QED BY <1>2, <1>3 DEF ApplyCancellation, IInv, FreePlanFits, GrowthFits

LEMMA ApplyDowngradeKeeps ==
    ASSUME IInv, NEW p \in Plan, ApplyDowngrade(p)
    PROVE  IInv' /\ GrowthFits
<1>1. TypeOK
    BY DEF IInv
<1>2. PICK wa \in Selections(Agent, MaxAgents[p]), wz \in Selections(Area, MaxAreas[p]) :
        Enforce(p, wa, wz)
    BY DEF ApplyDowngrade
<1>3. /\ agent' \in [Agent -> AgentStates] /\ area' \in [Area -> AreaStates]
      /\ ActiveAgents' \subseteq ActiveAgents /\ OpenAreas' \subseteq OpenAreas
    BY <1>1, <1>2, EnforceFits
<1>4. TypeOK'
    BY <1>1, <1>3 DEF ApplyDowngrade, TypeOK
<1> QED BY <1>3, <1>4 DEF ApplyDowngrade, IInv, FreePlanFits, GrowthFits

LEMMA ListExpiredKeeps ==
    ASSUME IInv, NEW w \in Worker, ListExpired(w)
    PROVE  IInv' /\ GrowthFits
<1>1. FreePlanFits' /\ GrowthFits
    BY RowsUntouched DEF ListExpired
<1>2. TypeOK'
    BY DEF ListExpired, IInv, TypeOK, planVars, rowVars
<1> QED BY <1>1, <1>2 DEF ListExpired, IInv, planVars

LEMMA EnforceExpiredKeeps ==
    ASSUME IInv, NEW w \in Worker, EnforceExpired(w)
    PROVE  IInv' /\ GrowthFits
<1>1. TypeOK /\ Discovery \in Plan /\ Enforce(Discovery, {}, {})
    BY ConstantsOK DEF IInv, EnforceExpired
<1>2. /\ agent' \in [Agent -> AgentStates] /\ area' \in [Area -> AreaStates]
      /\ ActiveAgents' \subseteq ActiveAgents /\ OpenAreas' \subseteq OpenAreas
      /\ AgentsFit(Discovery)' /\ AreasFit(Discovery)'
    BY <1>1, EnforceFits
<1>3. TypeOK'
    BY <1>1, <1>2 DEF EnforceExpired, TypeOK
<1> QED BY <1>2, <1>3 DEF EnforceExpired, IInv, FreePlanFits, GrowthFits

LEMMA ChangeSubscriptionKeeps ==
    ASSUME IInv, NEW p \in Plan, ChangeSubscription(p)
    PROVE  IInv' /\ GrowthFits
<1>1. TypeOK /\ ReconcileResources(p)
    BY DEF IInv, ChangeSubscription
<1>2. /\ agent' \in [Agent -> AgentStates] /\ area' \in [Area -> AreaStates]
      /\ AgentsFit(p)' /\ AreasFit(p)'
    BY <1>1, ReconcileFits
<1>3. TypeOK'
    BY <1>1, <1>2 DEF ChangeSubscription, TypeOK
<1>4. PlanInForce' = p /\ plan' = p /\ ~over' /\ subscription' # "EXPIRED"
    BY DEF ChangeSubscription, PlanInForce
<1> QED BY <1>2, <1>3, <1>4 DEF IInv, FreePlanFits, GrowthFits, AgentsFit, AreasFit

LEMMA ExpireKeeps ==
    ASSUME IInv, Expire
    PROVE  IInv' /\ GrowthFits
<1>1. ActiveAgents' = ActiveAgents /\ OpenAreas' = OpenAreas
    BY DEF Expire, ActiveAgents, OpenAreas, rowVars
<1>2. TypeOK'
    BY DEF Expire, IInv, TypeOK, rowVars
<1>3. FreePlanFits'
    BY DEF Expire, IInv, FreePlanFits
<1> QED BY <1>1, <1>2, <1>3 DEF Expire, IInv, GrowthFits

LEMMA SetOrganizationActiveKeeps ==
    ASSUME IInv, SetOrganizationActive
    PROVE  IInv' /\ GrowthFits
<1>1. FreePlanFits' /\ GrowthFits
    BY RowsUntouched DEF SetOrganizationActive
<1>2. TypeOK'
    BY DEF SetOrganizationActive, IInv, TypeOK, planVars, rowVars
<1> QED BY <1>1, <1>2 DEF SetOrganizationActive, IInv, planVars

-----------------------------------------------------------------------------
(* Agents and areas *)

LEMMA AddAgentKeeps ==
    ASSUME IInv, NEW a \in Agent, AddAgent(a)
    PROVE  IInv' /\ GrowthFits
<1>1. TypeOK
    BY DEF IInv
<1>3. agent' \in [Agent -> AgentStates] /\ FreePlanFits' /\ GrowthFits
    BY <1>1, AdmittedFits DEF AddAgent
<1>4. TypeOK'
    BY <1>1, <1>3 DEF AddAgent, TypeOK, planVars
<1> QED BY <1>3, <1>4 DEF AddAgent, IInv, planVars

LEMMA DeleteAgentKeeps ==
    ASSUME IInv, NEW a \in Agent, DeleteAgent(a)
    PROVE  IInv' /\ GrowthFits
<1>1. TypeOK
    BY DEF IInv
<1>2. "ARCHIVED" \in AgentStates \ {"ACTIVE"}
    BY DEF AgentStates
<1>3. agent' \in [Agent -> AgentStates] /\ FreePlanFits' /\ GrowthFits
    BY <1>1, <1>2, LostAgentFits DEF DeleteAgent
<1>4. TypeOK'
    BY <1>1, <1>3 DEF DeleteAgent, TypeOK, planVars
<1> QED BY <1>3, <1>4 DEF DeleteAgent, IInv, planVars

LEMMA DeactivateUserKeeps ==
    ASSUME IInv, NEW a \in Agent, DeactivateUser(a)
    PROVE  IInv' /\ GrowthFits
<1>1. TypeOK
    BY DEF IInv
<1>2. "INACTIVE" \in AgentStates \ {"ACTIVE"}
    BY DEF AgentStates
<1>3. agent' \in [Agent -> AgentStates] /\ FreePlanFits' /\ GrowthFits
    BY <1>1, <1>2, LostAgentFits DEF DeactivateUser
<1>4. TypeOK'
    BY <1>1, <1>3 DEF DeactivateUser, TypeOK, planVars
<1> QED BY <1>3, <1>4 DEF DeactivateUser, IInv, planVars

LEMMA ActivateUserKeeps ==
    ASSUME IInv, NEW a \in Agent, ActivateUser(a)
    PROVE  IInv' /\ GrowthFits
<1>1. TypeOK
    BY DEF IInv
<1>3. agent' \in [Agent -> AgentStates] /\ FreePlanFits' /\ GrowthFits
    BY <1>1, AdmittedFits DEF ActivateUser
<1>4. TypeOK'
    BY <1>1, <1>3 DEF ActivateUser, TypeOK, planVars
<1> QED BY <1>3, <1>4 DEF ActivateUser, IInv, planVars

LEMMA ToggleRevokesKeeps ==
    ASSUME IInv, NEW m \in Admin, ToggleRevokes(m)
    PROVE  IInv' /\ GrowthFits
<1>1. TypeOK /\ call[m].agent \in Agent
    BY DEF ToggleRevokes, IInv, TypeOK, Calls
<1>2. "ARCHIVED" \in AgentStates \ {"ACTIVE"}
    BY DEF AgentStates
<1>3. agent' \in [Agent -> AgentStates] /\ FreePlanFits' /\ GrowthFits
    BY <1>1, <1>2, LostAgentFits DEF ToggleRevokes
<1>4. TypeOK'
    BY <1>1, <1>3 DEF ToggleRevokes, TypeOK, planVars
<1> QED BY <1>3, <1>4 DEF ToggleRevokes, IInv, planVars

LEMMA ToggleRestoresKeeps ==
    ASSUME IInv, NEW m \in Admin, ToggleRestores(m)
    PROVE  IInv' /\ GrowthFits
<1>1. TypeOK /\ call[m].agent \in Agent
    BY DEF ToggleRestores, IInv, TypeOK, Calls
<1>3. agent' \in [Agent -> AgentStates] /\ FreePlanFits' /\ GrowthFits
    BY <1>1, AdmittedFits DEF ToggleRestores
<1>4. TypeOK'
    BY <1>1, <1>3 DEF ToggleRestores, TypeOK, planVars
<1> QED BY <1>3, <1>4 DEF ToggleRestores, IInv, planVars

LEMMA OpenAgentConfirmKeeps ==
    ASSUME IInv, NEW m \in Admin, NEW a \in Agent, OpenAgentConfirm(m, a)
    PROVE  IInv' /\ GrowthFits
<1>1. FreePlanFits' /\ GrowthFits
    BY RowsUntouched DEF OpenAgentConfirm
<1>2. call' \in [Admin -> Calls \cup {NoCall}]
    BY DEF OpenAgentConfirm, IInv, TypeOK, Calls
<1>3. TypeOK'
    BY <1>2 DEF OpenAgentConfirm, IInv, TypeOK, planVars, rowVars
<1> QED BY <1>1, <1>3 DEF OpenAgentConfirm, IInv, planVars

LEMMA ReadAgentKeeps ==
    ASSUME IInv, NEW m \in Admin, ReadAgent(m)
    PROVE  IInv' /\ GrowthFits
<1>1. FreePlanFits' /\ GrowthFits
    BY RowsUntouched DEF ReadAgent
<1>2. call' \in [Admin -> Calls \cup {NoCall}]
    BY DEF ReadAgent, IInv, TypeOK, Calls
<1>3. TypeOK'
    BY <1>2 DEF ReadAgent, IInv, TypeOK, planVars, rowVars
<1> QED BY <1>1, <1>3 DEF ReadAgent, IInv, planVars

LEMMA CloseAgentConfirmKeeps ==
    ASSUME IInv, NEW m \in Admin, CloseAgentConfirm(m)
    PROVE  IInv' /\ GrowthFits
<1>1. FreePlanFits' /\ GrowthFits
    BY RowsUntouched DEF CloseAgentConfirm
<1>2. call' \in [Admin -> Calls \cup {NoCall}]
    BY DEF CloseAgentConfirm, IInv, TypeOK, Calls
<1>3. TypeOK'
    BY <1>2 DEF CloseAgentConfirm, IInv, TypeOK, planVars, rowVars
<1> QED BY <1>1, <1>3 DEF CloseAgentConfirm, IInv, planVars

LEMMA CreateAreaKeeps ==
    ASSUME IInv, NEW z \in Area, CreateArea(z)
    PROVE  IInv' /\ GrowthFits
<1>1. TypeOK /\ area \in [Area -> AreaStates]
    BY DEF IInv, TypeOK
<1>2. OpenAreas' = OpenAreas \cup {z} /\ area' \in [Area -> AreaStates]
    BY <1>1 DEF CreateArea, OpenAreas, AreaStates
<1>3. ActiveAgents' = ActiveAgents /\ PlanInForce' = PlanInForce
    BY DEF CreateArea, ActiveAgents, PlanInForce, planVars
<1>4. Cardinality(OpenAreas') <= MaxAreas[PlanInForce]
  <2>1. Cardinality(OpenAreas') <= Cardinality(OpenAreas) + 1
    <3>1. IsFiniteSet(OpenAreas) /\ Cardinality(OpenAreas) \in Nat
        BY Counts
    <3>2. Cardinality(OpenAreas \cup {z}) \in {Cardinality(OpenAreas), Cardinality(OpenAreas) + 1}
        BY <3>1, FS_AddElement
    <3> QED BY <1>2, <3>1, <3>2
  <2>2. MaxAreas[PlanInForce] \in Nat
      BY <1>1, Limits
  <2> QED BY <2>1, <2>2, Counts, CountsNext DEF CreateArea, AreaAdmitted
<1>5. FreePlanFits'
    BY <1>3, <1>4 DEF CreateArea, IInv, FreePlanFits, AgentsFit, AreasFit, PlanInForce, planVars
<1>6. TypeOK'
    BY <1>1, <1>2 DEF CreateArea, TypeOK, planVars
<1> QED BY <1>3, <1>4, <1>5, <1>6 DEF CreateArea, IInv, GrowthFits, planVars

LEMMA DeleteAreaKeeps ==
    ASSUME IInv, NEW z \in Area, DeleteArea(z)
    PROVE  IInv' /\ GrowthFits
<1>1. TypeOK /\ area \in [Area -> AreaStates]
    BY DEF IInv, TypeOK
<1>2. OpenAreas' \subseteq OpenAreas /\ area' \in [Area -> AreaStates]
    BY <1>1 DEF DeleteArea, OpenAreas, AreaStates
<1>3. ActiveAgents' = ActiveAgents
    BY DEF DeleteArea, ActiveAgents
<1>4. FreePlanFits'
    BY <1>2, <1>3, FewerFit DEF DeleteArea, IInv, FreePlanFits, planVars
<1>5. TypeOK'
    BY <1>1, <1>2 DEF DeleteArea, TypeOK, planVars
<1> QED BY <1>2, <1>3, <1>4, <1>5 DEF DeleteArea, IInv, GrowthFits, planVars

-----------------------------------------------------------------------------
(* Every step *)

LEMMA NextInvariant == IInv /\ [Next]_vars => IInv' /\ GrowthFits
<1> SUFFICES ASSUME IInv, [Next]_vars PROVE IInv' /\ GrowthFits
    OBVIOUS
<1>1. CASE Next
  <2>1. CASE PlanStep
      BY <2>1, PurchaseKeeps, ApplyCancellationKeeps, ApplyDowngradeKeeps,
         ChangeSubscriptionKeeps, ExpireKeeps, SetOrganizationActiveKeeps DEF PlanStep
  <2>2. ASSUME NEW w \in Worker, ListExpired(w) \/ EnforceExpired(w)
        PROVE  IInv' /\ GrowthFits
      BY <2>2, ListExpiredKeeps, EnforceExpiredKeeps
  <2>3. ASSUME NEW a \in Agent, AgentStep(a)
        PROVE  IInv' /\ GrowthFits
      BY <2>3, AddAgentKeeps, DeleteAgentKeeps, DeactivateUserKeeps, ActivateUserKeeps
      DEF AgentStep
  <2>4. ASSUME NEW z \in Area, CreateArea(z) \/ DeleteArea(z)
        PROVE  IInv' /\ GrowthFits
      BY <2>4, CreateAreaKeeps, DeleteAreaKeeps
  <2>5. ASSUME NEW m \in Admin,
               \/ Toggle(m) \/ CloseAgentConfirm(m)
               \/ \E a \in Agent : OpenAgentConfirm(m, a)
        PROVE  IInv' /\ GrowthFits
      BY <2>5, ReadAgentKeeps, ToggleRevokesKeeps, ToggleRestoresKeeps,
         CloseAgentConfirmKeeps, OpenAgentConfirmKeeps DEF Toggle
  <2> QED BY <1>1, <2>1, <2>2, <2>3, <2>4, <2>5 DEF Next
<1>2. CASE UNCHANGED vars
  <2>1. FreePlanFits' /\ GrowthFits
      BY <1>2, RowsUntouched DEF vars
  <2>2. TypeOK'
      BY <1>2 DEF IInv, TypeOK, vars, planVars, rowVars
  <2> QED BY <1>2, <2>1, <2>2 DEF IInv, vars, planVars
<1> QED BY <1>1, <1>2

\* Every reachable state satisfies the inductive invariant.
THEOREM InvariantHolds == Spec => []IInv
<1>1. IInv /\ [Next]_vars => IInv'
    BY NextInvariant
<1> QED BY InitInvariant, <1>1, PTL DEF Spec

\* The rows, the plan and the requests keep their types.
THEOREM TypeCorrect == Spec => []TypeOK
<1>1. IInv => TypeOK
    BY DEF IInv
<1> QED BY <1>1, InvariantHolds, PTL

\* An organization back on the free plan, or whose plan was marked expired, never
\* works beyond it, for any limits and any number of concurrent requests.
THEOREM FreePlanIsKept == Spec => []FreePlanFits
<1>1. IInv => FreePlanFits
    BY DEF IInv
<1> QED BY <1>1, InvariantHolds, PTL

\* No step adds an active agent or area beyond the plan in force.
THEOREM GrowthIsBounded == Spec => GrowsWithinPlan
<1>1. IInv /\ [Next]_vars => [GrowthFits]_vars
    BY NextInvariant
<1> QED BY <1>1, InvariantHolds, PTL DEF Spec, GrowsWithinPlan
-----------------------------------------------------------------------------
(* The page that sells plans *)

\* A step of the server on a row: what was opened stays so, as the page was told.
RowsKept ==
    /\ pay' = [q \in Payment |-> pay'[q]]
    /\ RowsWritten'
    /\ \A q \in Opened : q \in Opened' /\ pay'[q].told = pay[q].told

\* A new status and a new state of the change leave the rest of an opened row.
LEMMA StatusKept ==
    ASSUME PageIInv, NEW p \in Opened, NEW s, NEW c,
           pay' = [pay EXCEPT ![p] = [[pay[p] EXCEPT !.status = s] EXCEPT !.change = c]]
    PROVE  RowsKept
<1> DEFINE row == [[pay[p] EXCEPT !.status = s] EXCEPT !.change = c]
<1>1. p \in Payment /\ pay[p].phase = "OPENED" /\ pay[p] = [f \in RowFields |-> pay[p][f]]
    BY DEF PageIInv, RowsWritten, Opened
<1>2. row = [f \in RowFields |-> row[f]] /\ row.phase = "OPENED" /\ row.told = pay[p].told
    BY <1>1 DEF RowFields
<1>3. pay' = [pay EXCEPT ![p] = row]
    OBVIOUS
<1> HIDE DEF row
<1>4. \A q \in Payment : pay'[q] = IF q = p THEN row ELSE pay[q]
    BY <1>1, <1>3 DEF PageIInv
<1>5. pay' = [q \in Payment |-> pay'[q]]
    BY <1>1, <1>3 DEF PageIInv
<1>6. RowsWritten'
    BY <1>2, <1>4 DEF PageIInv, RowsWritten, Opened
<1>7. \A q \in Opened : q \in Opened' /\ pay'[q].told = pay[q].told
    BY <1>2, <1>4 DEF Opened
<1> QED BY <1>5, <1>6, <1>7 DEF RowsKept

\* A row that was not open is written, or opened whole.
LEMMA RowReplaced ==
    ASSUME PageIInv, NEW p \in Payment, pay[p].phase # "OPENED", NEW row,
           row.phase = "OPENED" => row = [f \in RowFields |-> row[f]],
           pay' = [pay EXCEPT ![p] = row]
    PROVE  RowsKept
<1>1. \A q \in Payment : pay'[q] = IF q = p THEN row ELSE pay[q]
    BY DEF PageIInv
<1>2. pay' = [q \in Payment |-> pay'[q]]
    BY DEF PageIInv
<1>3. RowsWritten'
    BY <1>1 DEF PageIInv, RowsWritten, Opened
<1>4. \A q \in Opened : q \in Opened' /\ pay'[q].told = pay[q].told
    BY <1>1 DEF Opened
<1> QED BY <1>2, <1>3, <1>4 DEF RowsKept

\* Steps that leave the page alone, but for loading, and keep the rows.
LEMMA PageRests ==
    ASSUME PageIInv, RowsKept, UNCHANGED <<formVars, quoteVars, payVars>>,
           clock' \in 1 .. EndOfTime, version' \in Nat \ {0}, loading' \in BOOLEAN
    PROVE  PageIInv'
<1>1. BillingTypeOK'
    BY DEF PageIInv, PageSound, BillingTypeOK, RowsKept, formVars, payVars
<1>2. QuoteSettles' /\ AnswersSettle'
    BY DEF PageIInv, PageSound, QuoteSettles, AnswersSettle, formVars, quoteVars
<1> QED BY <1>1, <1>2 DEF PageIInv, PageSound, RowsKept

\* No row changes.
LEMMA RowsRest ==
    ASSUME PageIInv, UNCHANGED pay
    PROVE  RowsKept
BY DEF PageIInv, RowsKept, RowsWritten, Opened

\* What the page asks for when its form changes, and what it still shows.
LEMMA AskSettles ==
    ASSUME PageIInv, sel' \in Offer, AskQuote(sel', acct')
    PROVE  QuoteSettles' /\ AnswersSettle'
<1> DEFINE ignored == {[q EXCEPT !.live = FALSE] : q \in quoting}
           asked == [live |-> TRUE, answer |-> GetPaymentQuote(sel', acct')]
<1>1. \A q \in ignored : "live" \in DOMAIN q /\ q.live = FALSE
  <2> SUFFICES ASSUME NEW r \in quoting
               PROVE  "live" \in DOMAIN [r EXCEPT !.live = FALSE]
                      /\ [r EXCEPT !.live = FALSE].live = FALSE
      OBVIOUS
  <2>1. "live" \in DOMAIN r
      BY DEF PageIInv, AnswersSettle
  <2> QED BY <2>1
<1>2. "live" \in DOMAIN asked /\ asked.live = TRUE
      /\ asked.answer \in {NoQuote, [offer |-> sel', acct |-> acct']}
    BY DEF GetPaymentQuote
<1>3. \/ quoting' = ignored /\ quote' = NoQuote
      \/ quoting' = ignored \cup {asked}
    BY DEF AskQuote
<1> HIDE DEF ignored, asked
<1>4. AnswersSettle'
    BY <1>1, <1>2, <1>3 DEF AnswersSettle
<1>5. QuoteSettles'
    BY <1>2, <1>3 DEF QuoteSettles
<1> QED BY <1>4, <1>5

LEMMA PageInit == BillingInit => PageIInv
<1> SUFFICES ASSUME BillingInit PROVE PageIInv
    OBVIOUS
<1>1. BillingTypeOK
    BY BillingConstantsOK DEF BillingInit, BillingTypeOK
<1>2. QuoteSettles /\ AnswersSettle
    BY DEF BillingInit, QuoteSettles, AnswersSettle
<1>3. pay = [p \in Payment |-> pay[p]] /\ RowsWritten
    BY DEF BillingInit, RowsWritten, Opened, NewPayment
<1> QED BY <1>1, <1>2, <1>3 DEF PageIInv, PageSound

LEMMA FormSteps ==
    ASSUME PageIInv,
           \/ \E o \in Offer : SelectPlan(o)
           \/ \E a \in accounts : SelectAccount(a)
           \/ \E up \in BOOLEAN : LoadBilling(up)
    PROVE  PageIInv'
<1>1. UNCHANGED <<serverVars, payVars>> /\ loading' \in BOOLEAN
    BY DEF SelectPlan, SelectAccount, LoadBilling, PageIInv, PageSound, BillingTypeOK
<1>2. sel' \in Offer /\ accounts' \in {{}, Account} /\ acct' \in accounts' \cup {NoAccount}
  <2>1. CASE \E o \in Offer : SelectPlan(o)
      BY <2>1 DEF SelectPlan, PageIInv, PageSound, BillingTypeOK
  <2>2. CASE \E a \in accounts : SelectAccount(a)
      BY <2>2 DEF SelectAccount, PageIInv, PageSound, BillingTypeOK
  <2>3. CASE \E up \in BOOLEAN : LoadBilling(up)
      BY <2>3, BillingConstantsOK DEF LoadBilling, PageIInv, PageSound, BillingTypeOK
  <2> QED BY <2>1, <2>2, <2>3
<1>3. QuoteSettles' /\ AnswersSettle'
  <2>1. CASE AskQuote(sel', acct')
      BY <2>1, <1>2, AskSettles
  <2>2. CASE UNCHANGED <<formVars, quoteVars>>
      BY <2>2 DEF PageIInv, PageSound, QuoteSettles, AnswersSettle, formVars, quoteVars
  <2>3. CASE UNCHANGED <<sel, acct, quoteVars>>
      BY <2>3 DEF PageIInv, PageSound, QuoteSettles, AnswersSettle, quoteVars
  <2>4. AskQuote(sel', acct') \/ UNCHANGED <<sel, acct, quoteVars>>
    <3>1. CASE \E o \in Offer : SelectPlan(o)
      <4> PICK o \in Offer : SelectPlan(o)
          BY <3>1
      <4>1. sel' = o /\ acct' = acct /\ AskQuote(o, acct)
          BY DEF SelectPlan
      <4> QED BY <4>1
    <3>2. CASE \E a \in accounts : SelectAccount(a)
      <4> PICK a \in accounts : SelectAccount(a)
          BY <3>2
      <4>1. acct' = a /\ sel' = sel /\ AskQuote(sel, a)
          BY DEF SelectAccount
      <4> QED BY <4>1
    <3>3. CASE \E up \in BOOLEAN : LoadBilling(up)
      <4> PICK up \in BOOLEAN : LoadBilling(up)
          BY <3>3
      <4>1. sel' = sel /\ IF acct' = acct THEN UNCHANGED quoteVars ELSE AskQuote(sel, acct')
          BY DEF LoadBilling
      <4> QED BY <4>1
    <3> QED BY <3>1, <3>2, <3>3
  <2> QED BY <2>1, <2>3, <2>4
<1>4. BillingTypeOK'
    BY <1>1, <1>2 DEF PageIInv, PageSound, BillingTypeOK, serverVars, payVars, Opened
<1>5. RowsKept
    BY <1>1, RowsRest DEF serverVars
<1> QED BY <1>3, <1>4, <1>5 DEF PageIInv, PageSound, RowsKept

LEMMA ShowQuoteStep ==
    ASSUME PageIInv, NEW q \in quoting, ShowQuote(q)
    PROVE  PageIInv'
<1>1. UNCHANGED <<serverVars, formVars, payVars, loading>> /\ quoting' = quoting \ {q}
    BY DEF ShowQuote
<1>2. AnswersSettle'
    BY <1>1 DEF PageIInv, AnswersSettle, formVars
<1>3. QuoteSettles'
  <2>1. CASE UNCHANGED quote /\ ~q.live
      BY <1>1, <2>1 DEF PageIInv, PageSound, QuoteSettles, formVars
  <2>2. CASE quote' = NoQuote
      BY <2>2 DEF QuoteSettles
  <2>3. CASE quote' = q.answer /\ q.live
      BY <1>1, <2>3 DEF PageIInv, AnswersSettle, QuoteSettles, formVars
  <2> QED BY <2>1, <2>2, <2>3 DEF ShowQuote, ListenedTo
<1>4. BillingTypeOK'
    BY <1>1 DEF PageIInv, PageSound, BillingTypeOK, serverVars, formVars, payVars, Opened
<1>5. RowsKept
    BY <1>1, RowsRest DEF serverVars
<1> QED BY <1>2, <1>3, <1>4, <1>5 DEF PageIInv, PageSound, RowsKept

LEMMA PollSteps ==
    ASSUME PageIInv,
           \/ LoadFails \/ SubmitAnswered \/ SubmitLost \/ PollPayment
           \/ \E r \in polls : ShowStatus(r) \/ PollFails(r)
    PROVE  PageIInv'
<1>1. UNCHANGED <<serverVars, formVars, quoteVars>>
    BY DEF LoadFails, SubmitAnswered, SubmitLost, PollPayment, ShowStatus, PollFails
<1>2. /\ submit' \in {0, submit}
      /\ active' \in {0, active} \/ (active' \in Opened /\ pay[active'].told = "PENDING")
      /\ loading' \in BOOLEAN
    BY DEF LoadFails, SubmitAnswered, SubmitLost, PollPayment, ShowStatus, PollFails,
           payVars, PageIInv, PageSound, BillingTypeOK
<1>3. BillingTypeOK'
    BY <1>1, <1>2 DEF PageIInv, PageSound, BillingTypeOK, serverVars, formVars, Opened
<1>4. QuoteSettles' /\ AnswersSettle'
    BY <1>1 DEF PageIInv, PageSound, QuoteSettles, AnswersSettle, formVars, quoteVars
<1>5. RowsKept
    BY <1>1, RowsRest DEF serverVars
<1> QED BY <1>3, <1>4, <1>5 DEF PageIInv, PageSound, RowsKept

LEMMA ReloadStep ==
    ASSUME PageIInv, Reload
    PROVE  PageIInv'
<1>1. BillingTypeOK'
    BY BillingConstantsOK DEF Reload, PageIInv, PageSound, BillingTypeOK, serverVars
<1>2. QuoteSettles' /\ AnswersSettle'
    BY DEF Reload, QuoteSettles, AnswersSettle
<1>3. RowsKept
    BY RowsRest DEF Reload, serverVars
<1> QED BY <1>1, <1>2, <1>3 DEF PageIInv, PageSound, RowsKept

LEMMA SubmitStep ==
    ASSUME PageIInv, NEW p \in Payment, SubmitPayment(p)
    PROVE  PageIInv'
<1> DEFINE row == [phase |-> "SENT", offer |-> sel, acct |-> acct]
<1>1. RowsKept
  <2>1. pay[p].phase # "OPENED" /\ row.phase # "OPENED" /\ pay' = [pay EXCEPT ![p] = row]
      BY DEF SubmitPayment
  <2> HIDE DEF row
  <2> QED BY <2>1, RowReplaced
<1>2. submit' = p /\ UNCHANGED <<clock, version, formVars, quoteVars, active, loading>>
    BY DEF SubmitPayment
<1>3. BillingTypeOK'
    BY <1>1, <1>2 DEF PageIInv, PageSound, BillingTypeOK, RowsKept, formVars
<1>4. QuoteSettles' /\ AnswersSettle'
    BY <1>2 DEF PageIInv, PageSound, QuoteSettles, AnswersSettle, formVars, quoteVars
<1> QED BY <1>1, <1>3, <1>4 DEF PageIInv, PageSound, RowsKept

\* The page rests while the server works.
LEMMA CheckoutSteps ==
    ASSUME PageIInv, NEW p \in Payment, ReadOrganization(p) \/ RefuseCheckout(p) \/ OpenChange(p)
    PROVE  PageIInv'
<1>1. UNCHANGED <<clock, version, formVars, quoteVars, payVars, loading>>
    BY DEF ReadOrganization, RefuseCheckout, OpenChange
<1>2. PICK row : /\ pay' = [pay EXCEPT ![p] = row]
                 /\ row.phase = "OPENED" => row = [f \in RowFields |-> row[f]]
  <2>1. CASE ReadOrganization(p) \/ RefuseCheckout(p)
    <3> DEFINE read == [phase |-> "READ", offer |-> pay[p].offer, acct |-> pay[p].acct,
                        type |-> ClassifyChange(org, pay[p].offer, clock),
                        effective |-> EffectiveAt(org, ClassifyChange(org, pay[p].offer, clock), clock),
                        amount |-> CalculatePaymentQuote(org, pay[p].offer, pay[p].acct, clock),
                        basis |-> org]
               refused == [phase |-> "REFUSED"]
    <3>1. read.phase # "OPENED" /\ refused.phase # "OPENED"
        OBVIOUS
    <3>2. pay' = [pay EXCEPT ![p] = read] \/ pay' = [pay EXCEPT ![p] = refused]
        BY <2>1 DEF ReadOrganization, RefuseCheckout, PageIInv
    <3> HIDE DEF read, refused
    <3> QED BY <3>1, <3>2
  <2>2. CASE OpenChange(p)
    <3> DEFINE opened(told) ==
                 [phase |-> "OPENED", offer |-> pay[p].offer, acct |-> pay[p].acct,
                  type |-> pay[p].type, effective |-> pay[p].effective,
                  amount |-> pay[p].amount, basis |-> pay[p].basis, told |-> told,
                  source |-> version,
                  status |-> IF told = "FAILED" THEN "FAILED" ELSE "PENDING",
                  change |-> IF told = "FAILED" THEN "FAILED" ELSE "AWAITING_PAYMENT"]
               refused == [phase |-> "REFUSED"]
    <3>1. refused.phase # "OPENED"
        OBVIOUS
    <3>2. \A told : opened(told) = [f \in RowFields |-> opened(told)[f]]
        BY DEF RowFields
    <3>3. pay' = [pay EXCEPT ![p] = refused] \/ \E told : pay' = [pay EXCEPT ![p] = opened(told)]
        BY <2>2 DEF OpenChange, PageIInv
    <3> HIDE DEF opened, refused
    <3> QED BY <3>1, <3>2, <3>3
  <2> QED BY <2>1, <2>2
<1>3. pay[p].phase # "OPENED"
    BY DEF ReadOrganization, RefuseCheckout, OpenChange
<1>4. RowsKept
    BY <1>2, <1>3, RowReplaced
<1> QED BY <1>1, <1>4, PageRests DEF PageIInv, PageSound, BillingTypeOK

\* A step on a deposit writes the status of its row and of its change.
LEMMA DepositRow ==
    ASSUME PageIInv, NEW p \in Opened,
           \/ DepositCompletes(p) \/ DepositEnds(p)
           \/ ApplyScheduledChange(p) \/ UndoChange(p) \/ RefundEnds(p)
    PROVE  \E s, c : pay' = [pay EXCEPT ![p] = [[pay[p] EXCEPT !.status = s] EXCEPT !.change = c]]
<1>1. p \in Payment /\ pay[p] = [f \in RowFields |-> pay[p][f]] /\ pay = [q \in Payment |-> pay[q]]
    BY DEF PageIInv, RowsWritten, Opened
<1>2. ASSUME NEW c PROVE [pay[p] EXCEPT !.change = c]
                         = [[pay[p] EXCEPT !.status = pay[p].status] EXCEPT !.change = c]
    BY <1>1 DEF RowFields
<1>3. (\E c : pay' = [pay EXCEPT ![p].change = c])
      \/ \E s, c : pay' = [pay EXCEPT ![p].status = s, ![p].change = c]
    BY DEF DepositCompletes, DepositEnds, ApplyScheduledChange, UndoChange, RefundEnds, Grant
<1>4. ASSUME NEW c PROVE [pay EXCEPT ![p].change = c]
                         = [pay EXCEPT ![p] = [pay[p] EXCEPT !.change = c]]
    OBVIOUS
<1>5. ASSUME NEW s, NEW c
      PROVE  [pay EXCEPT ![p].status = s, ![p].change = c]
             = [pay EXCEPT ![p] = [[pay[p] EXCEPT !.status = s] EXCEPT !.change = c]]
    BY <1>1 DEF Opened
<1>6. CASE \E c : pay' = [pay EXCEPT ![p].change = c]
  <2>1. PICK c : pay' = [pay EXCEPT ![p].change = c]
      BY <1>6
  <2>2. pay' = [pay EXCEPT ![p] = [pay[p] EXCEPT !.change = c]]
      BY <2>1, <1>4
  <2>3. pay' = [pay EXCEPT ![p] =
                  [[pay[p] EXCEPT !.status = pay[p].status] EXCEPT !.change = c]]
      BY <2>2, <1>2
  <2> QED BY <2>3
<1>7. CASE \E s, c : pay' = [pay EXCEPT ![p].status = s, ![p].change = c]
  <2>1. PICK s, c : pay' = [pay EXCEPT ![p].status = s, ![p].change = c]
      BY <1>7
  <2>2. pay' = [pay EXCEPT ![p] = [[pay[p] EXCEPT !.status = s] EXCEPT !.change = c]]
      BY <2>1, <1>5
  <2> QED BY <2>2
<1> QED BY <1>3, <1>6, <1>7

LEMMA DepositSteps ==
    ASSUME PageIInv, NEW p \in Payment,
           \/ DepositCompletes(p) \/ DepositEnds(p)
           \/ ApplyScheduledChange(p) \/ UndoChange(p) \/ RefundEnds(p)
    PROVE  PageIInv'
<1>1. /\ UNCHANGED <<clock, formVars, quoteVars, payVars>>
      /\ p \in Opened /\ loading' \in {loading, TRUE} /\ version' \in {version, version + 1}
    BY DEF DepositCompletes, DepositEnds, ApplyScheduledChange, UndoChange, RefundEnds, Grant
<1>2. PICK s, c : pay' = [pay EXCEPT ![p] = [[pay[p] EXCEPT !.status = s] EXCEPT !.change = c]]
    BY <1>1, DepositRow
<1>3. RowsKept
    BY <1>1, <1>2, StatusKept
<1>4. clock' \in 1 .. EndOfTime /\ loading' \in BOOLEAN
    BY <1>1 DEF PageIInv, PageSound, BillingTypeOK
<1>5. version' \in Nat \ {0}
  <2>1. version \in Nat \ {0}
      BY DEF PageIInv, PageSound, BillingTypeOK
  <2> QED BY <1>1, <2>1
<1> QED BY <1>1, <1>3, <1>4, <1>5, PageRests

LEMMA OtherSteps ==
    ASSUME PageIInv, OverridePlan \/ Tick
    PROVE  PageIInv'
<1>1. UNCHANGED <<pay, formVars, quoteVars, payVars, loading>>
    BY DEF OverridePlan, Tick
<1>2. clock' \in 1 .. EndOfTime /\ version' \in Nat \ {0} /\ loading' \in BOOLEAN
    BY BillingConstantsOK DEF OverridePlan, Tick, PageIInv, PageSound, BillingTypeOK
<1> QED BY <1>1, <1>2, RowsRest, PageRests

LEMMA PageNext ==
    ASSUME PageIInv, [BillingNext]_billingVars
    PROVE  PageIInv'
<1>1. CASE Page
    BY <1>1, FormSteps, ShowQuoteStep, PollSteps, ReloadStep, SubmitStep DEF Page
<1>2. CASE Server
    BY <1>2, CheckoutSteps, DepositSteps DEF Server
<1>3. CASE OverridePlan \/ Tick
    BY <1>3, OtherSteps
<1>4. CASE UNCHANGED billingVars
  <2>1. RowsKept
      BY <1>4, RowsRest DEF billingVars, serverVars
  <2> QED BY <1>4, <2>1, PageRests
          DEF billingVars, serverVars, PageIInv, PageSound, BillingTypeOK
<1> QED BY <1>1, <1>2, <1>3, <1>4 DEF BillingNext

\* Every reachable state of the page satisfies its inductive invariant.
THEOREM PageInvariantHolds == BillingSpec => []PageIInv
<1>1. PageIInv /\ [BillingNext]_billingVars => PageIInv'
    BY PageNext
<1> QED BY PageInit, <1>1, PTL DEF BillingSpec

\* However answers overtake each other, a page at rest shows the price of what it
\* shows, and it polls a payment it was told about.
THEOREM PageStaysSound == BillingSpec => []PageSound
<1>1. PageIInv => PageSound
    BY DEF PageIInv
<1> QED BY <1>1, PageInvariantHolds, PTL
-----------------------------------------------------------------------------
(* What payments are worth                                                   *)

\* Rounding is off by half a unit at most, and makes nothing positive.
LEMMA RoundHalfUpBound ==
    ASSUME NEW n \in Int, NEW d \in Nat \ {0}
    PROVE  /\ RoundHalfUp(n, d) \in Int
           /\ 2 * (d * RoundHalfUp(n, d)) >= 2 * n - d
           /\ n >= 0 => RoundHalfUp(n, d) >= 0
           /\ RoundHalfUp(n, d) > 0 => n > 0
<1> DEFINE q == n \div d
           m == n % d
<1>1. q \in Int /\ m \in Int /\ 0 <= m /\ m < d /\ n = d * q + m
    OBVIOUS
<1>2. RoundHalfUp(n, d) = q + (IF 2 * m >= d THEN 1 ELSE 0)
    BY DEF RoundHalfUp
<1> HIDE DEF q, m
<1>3. d * (q + 1) = d * q + d
    BY <1>1
<1>4. q >= 1 => d * q >= d
    BY <1>1
<1>5. q <= -1 => d * q <= -d
    BY <1>1
<1>6. q = 0 => d * q = 0
    BY <1>1
<1>7. n >= 0 => q >= 0
    BY <1>1, <1>5
<1>8. 2 * (d * RoundHalfUp(n, d)) >= 2 * n - d
  <2>1. CASE 2 * m >= d
      BY <2>1, <1>1, <1>2, <1>3
  <2>2. CASE 2 * m < d
      BY <2>2, <1>1, <1>2
  <2> QED BY <2>1, <2>2, <1>1
<1>9. RoundHalfUp(n, d) > 0 => n > 0
    BY <1>1, <1>2, <1>4, <1>6
<1> QED BY <1>1, <1>2, <1>7, <1>8, <1>9

LEMMA RoundForProviderBound ==
    ASSUME NEW n \in Int, NEW d \in Nat \ {0}, NEW decimals
    PROVE  /\ RoundForProvider(n, d, decimals) \in Int
           /\ 2 * (d * RoundForProvider(n, d, decimals)) >= 2 * n - 100 * d
           /\ RoundForProvider(n, d, decimals) > 0 => n > 0
<1> DEFINE unit == IF decimals = 0 THEN 100 ELSE IF decimals = 1 THEN 10 ELSE 1
           r == RoundHalfUp(n, d * unit)
<1>1. unit \in {1, 10, 100} /\ RoundForProvider(n, d, decimals) = unit * r
    BY DEF RoundForProvider
<1> HIDE DEF unit
<1>2. d * unit \in Nat \ {0} /\ d * unit <= 100 * d
    BY <1>1
<1>3. r \in Int /\ 2 * ((d * unit) * r) >= 2 * n - d * unit /\ (r > 0 => n > 0)
    BY <1>2, RoundHalfUpBound
<1> HIDE DEF r
<1>4. (d * unit) * r = d * (unit * r)
    BY <1>1, <1>3
<1>5. unit * r \in Int /\ (unit * r > 0 => r > 0)
    BY <1>1, <1>3
<1> QED BY <1>1, <1>2, <1>3, <1>4, <1>5

LEMMA PriceIsNat ==
    ASSUME NEW o \in DOMAIN Factor, NEW c \in DOMAIN Base
    PROVE  GetFixedPlanPrice(o, c) \in Nat
<1> DEFINE n == Base[c] * Factor[o]
<1>1. Base[c] \in Nat /\ Factor[o] \in Nat
    BY PricesOK
<1>2. n \in Nat /\ n * 100 \in Nat
    BY <1>1
<1> HIDE DEF n
<1>3. RoundHalfUp(n, 10) \in Nat /\ RoundHalfUp(n * 100, 10) \in Nat
    BY <1>2, RoundHalfUpBound
<1> QED BY <1>3 DEF GetFixedPlanPrice, ScalePrices, n

\* A year is a whole number of terms.
LEMMA YearOfTerms ==
    ASSUME NEW i \in DOMAIN Length
    PROVE  /\ Length[i] \in Nat \ {0} /\ Length["ANNUAL"] \div Length[i] \in Nat
           /\ Length["ANNUAL"] \in Nat \ {0}
           /\ Length[i] * (Length["ANNUAL"] \div Length[i]) = Length["ANNUAL"]
<1>1. /\ Length[i] \in Nat \ {0} /\ Length["ANNUAL"] \in Nat \ {0}
      /\ Length["ANNUAL"] % Length[i] = 0
    BY PricesOK
<1>2. ASSUME NEW a \in Nat, NEW l \in Nat \ {0}, a % l = 0
      PROVE  a \div l \in Nat /\ l * (a \div l) = a
    BY <1>2
<1> QED BY <1>1, <1>2

\* What an upgrade costs covers the difference for what is left later.
LEMMA DifferenceCovered ==
    ASSUME NEW pn \in Nat, NEW po \in Nat, NEW before \in Nat, NEW left \in Nat, left <= before,
           NEW l \in Nat \ {0}, NEW k \in Nat, NEW a \in Int,
           2 * (l * a) >= 2 * ((pn - po) * before) - 100 * l,
           (pn - po) * before > 0
    PROVE  pn * left * k - po * left * k <= a * (l * k) + 50 * (l * k)
<1> DEFINE d == pn - po
<1>1. d \in Int /\ d * before > 0 /\ 2 * (l * a) >= 2 * (d * before) - 100 * l
    OBVIOUS
<1>2. pn * left - po * left = d * left
    OBVIOUS
<1>3. (pn * left) * k - (po * left) * k = (pn * left - po * left) * k
    OBVIOUS
<1> HIDE DEF d
<1>4. d > 0
    BY <1>1
<1>5. d * left <= d * before
    BY <1>1, <1>4
<1>6. d * left \in Int /\ d * before \in Int /\ l * a \in Int
    BY <1>1
<1>7. d * left <= l * a + 50 * l
    BY <1>1, <1>5, <1>6
<1>8. (d * left) * k <= (l * a + 50 * l) * k
    BY <1>6, <1>7
<1>9. (l * a + 50 * l) * k = a * (l * k) + 50 * (l * k)
    OBVIOUS
<1> QED BY <1>2, <1>3, <1>8, <1>9

LEMMA AccountsHaveCurrencies ==
    ASSUME NEW a \in Account
    PROVE  a.currency \in DOMAIN Base
BY DEF Account

LEMMA OffersPriced ==
    ASSUME NEW o \in Offer
    PROVE  /\ o.plan \in {"ESSENTIAL", "PRO"} /\ o.interval \in DOMAIN Length
           /\ [plan |-> o.plan, interval |-> o.interval] = o /\ o \in DOMAIN Factor
BY PricesOK

\* An organization that is granted what a priced row asks for is one that can be.
LEMMA GrantKeepsOrg ==
    ASSUME OrgSound(org), NEW p, pay[p].offer \in Offer, Grant(p),
           clock \in Nat \ {0}, StartsAt(p) \in Nat
    PROVE  OrgSound(org')
<1> DEFINE o == pay[p].offer
           l == Length[o.interval]
<1>1. /\ o.plan \in {"ESSENTIAL", "PRO"} /\ o.interval \in DOMAIN Length
      /\ [plan |-> o.plan, interval |-> o.interval] = o /\ o \in DOMAIN Factor
    BY OffersPriced
<1>2. l \in Nat \ {0}
    BY <1>1, PricesOK
<1>3. /\ org.expires \in Nat /\ org.trial \in Nat /\ org.trial <= org.expires
      /\ \A i \in DOMAIN Length : org.trial <= Length[i] + 1
    BY DEF OrgSound
<1>4. /\ org'.plan = o.plan /\ org'.interval = o.interval /\ org'.expires = ExpiresAt(p)
      /\ org'.trial \in {0, org.trial}
      /\ org'.trial # 0 => pay[p].change # "SCHEDULED"
    BY DEF Grant
<1>5. ExpiresAt(p) \in {org.expires, StartsAt(p) + l} /\ ExpiresAt(p) \in Nat
    BY <1>2, <1>3 DEF ExpiresAt, AddTerm
<1>6. org'.trial # 0 => org'.trial <= ExpiresAt(p)
  <2> SUFFICES ASSUME org'.trial # 0
               PROVE  org.trial <= ExpiresAt(p)
      BY <1>4
  <2>1. StartsAt(p) \in {org.expires, clock}
      BY <1>4 DEF StartsAt
  <2>2. org.trial <= l + 1 /\ org.trial <= org.expires
      BY <1>1, <1>3
  <2>3. CASE ExpiresAt(p) = org.expires
      BY <2>2, <2>3
  <2>4. CASE ExpiresAt(p) = StartsAt(p) + l
      BY <2>1, <2>2, <2>4, <1>2, <1>3
  <2> QED BY <2>3, <2>4, <1>5
<1>7. org'.trial \in Nat /\ org'.trial <= org'.expires
      /\ \A i \in DOMAIN Length : org'.trial <= Length[i] + 1
  <2>1. \A i \in DOMAIN Length : Length[i] \in Nat
      BY PricesOK
  <2> QED BY <2>1, <1>3, <1>4, <1>5, <1>6
<1> QED BY <1>1, <1>4, <1>5, <1>7 DEF OrgSound

\* What a row was priced from does not change when time passes.
LEMMA PricedLater ==
    ASSUME NEW r, NEW now \in Nat, NEW later \in Nat, now <= later, Priced(r, now)
    PROVE  Priced(r, later)
BY DEF Priced

LEMMA PricedWithStatus ==
    ASSUME NEW p \in Opened, PageIInv, NEW now, Priced(pay[p], now), NEW s, NEW c,
           c \in {"SCHEDULED", "REFUND_PENDING"} => pay[p].type \in {"DOWNGRADE", "INTERVAL_CHANGE"}
    PROVE  Priced([[pay[p] EXCEPT !.status = s] EXCEPT !.change = c], now)
<1> DEFINE row == [[pay[p] EXCEPT !.status = s] EXCEPT !.change = c]
<1>1. pay[p] = [f \in RowFields |-> pay[p][f]] /\ pay[p].phase = "OPENED"
    BY DEF PageIInv, RowsWritten, Opened
<1>2. /\ row.phase = "OPENED" /\ row.offer = pay[p].offer /\ row.acct = pay[p].acct
      /\ row.type = pay[p].type /\ row.effective = pay[p].effective
      /\ row.amount = pay[p].amount /\ row.basis = pay[p].basis /\ row.change = c
    BY <1>1 DEF RowFields
<1> HIDE DEF row
<1>3. \A t : QuotedAt(pay[p], t) => QuotedAt(row, t)
    BY <1>2 DEF QuotedAt
<1>4. Priced(row, now)
    BY <1>1, <1>2, <1>3 DEF Priced
<1> QED BY <1>4 DEF row

LEMMA WorthInit == BillingInit => WorthIInv
<1> SUFFICES ASSUME BillingInit PROVE WorthIInv
    OBVIOUS
<1>1. OrgSound(org)
    BY PricesOK DEF BillingInit
<1>2. \A p \in Payment : Priced(pay[p], clock)
    BY DEF BillingInit, NewPayment, Priced
<1> QED BY <1>1, <1>2, PageInit DEF WorthIInv

\* The rows as one of them is written.
LEMMA RowWritten ==
    ASSUME WorthIInv, NEW p \in Payment, NEW row, pay' = [pay EXCEPT ![p] = row],
           clock' = clock, Priced(row, clock)
    PROVE  \A q \in Payment : Priced(pay'[q], clock')
<1>1. \A q \in Payment : pay'[q] = IF q = p THEN row ELSE pay[q]
    BY DEF WorthIInv, PageIInv
<1> QED BY <1>1 DEF WorthIInv

LEMMA SubmitPriced ==
    ASSUME WorthIInv, NEW p \in Payment, SubmitPayment(p)
    PROVE  \A q \in Payment : Priced(pay'[q], clock')
<1> DEFINE row == [phase |-> "SENT", offer |-> sel, acct |-> acct]
<1>1. sel \in Offer /\ acct \in Account
    BY DEF SubmitPayment, CanPay, WorthIInv, PageIInv, PageSound, BillingTypeOK
<1>2. Priced(row, clock)
    BY <1>1 DEF Priced
<1>3. pay' = [pay EXCEPT ![p] = row] /\ clock' = clock
    BY DEF SubmitPayment
<1> HIDE DEF row
<1> QED BY <1>2, <1>3, RowWritten

LEMMA RefusedPriced ==
    ASSUME NEW now
    PROVE  Priced([phase |-> "REFUSED"], now)
BY DEF Priced

LEMMA ReadPriced ==
    ASSUME WorthIInv, NEW p \in Payment, ReadOrganization(p)
    PROVE  \A q \in Payment : Priced(pay'[q], clock')
<1> DEFINE read == [phase |-> "READ", offer |-> pay[p].offer, acct |-> pay[p].acct,
                    type |-> ClassifyChange(org, pay[p].offer, clock),
                    effective |-> EffectiveAt(org, ClassifyChange(org, pay[p].offer, clock), clock),
                    amount |-> CalculatePaymentQuote(org, pay[p].offer, pay[p].acct, clock),
                    basis |-> org]
           refused == [phase |-> "REFUSED"]
<1>1. \/ pay' = [pay EXCEPT ![p] = read] /\ IsDue(read.amount)
      \/ pay' = [pay EXCEPT ![p] = refused]
    BY DEF ReadOrganization, WorthIInv, PageIInv
<1>2. clock' = clock /\ clock \in 1 .. clock
    BY DEF ReadOrganization, WorthIInv, PageIInv, PageSound, BillingTypeOK
<1>3. Priced(pay[p], clock) /\ pay[p].phase = "SENT" /\ OrgSound(org)
    BY DEF ReadOrganization, WorthIInv
<1>4. IsDue(read.amount) => QuotedAt(read, clock)
    BY DEF QuotedAt
<1>5. pay[p].offer \in Offer /\ pay[p].acct \in Account
    BY <1>3 DEF Priced
<1>6. read.phase = "READ" /\ read.offer = pay[p].offer /\ read.acct = pay[p].acct
      /\ read.basis = org
    OBVIOUS
<1> HIDE DEF read
<1>7. IsDue(read.amount) => Priced(read, clock)
    BY <1>2, <1>3, <1>4, <1>5, <1>6 DEF Priced
<1>8. Priced(refused, clock)
    BY RefusedPriced
<1> HIDE DEF refused
<1> QED BY <1>1, <1>2, <1>7, <1>8, RowWritten

LEMMA OpenPriced ==
    ASSUME WorthIInv, NEW p \in Payment, OpenChange(p)
    PROVE  \A q \in Payment : Priced(pay'[q], clock')
<1> DEFINE opened(told) ==
             [phase |-> "OPENED", offer |-> pay[p].offer, acct |-> pay[p].acct,
              type |-> pay[p].type, effective |-> pay[p].effective,
              amount |-> pay[p].amount, basis |-> pay[p].basis, told |-> told,
              source |-> version,
              status |-> IF told = "FAILED" THEN "FAILED" ELSE "PENDING",
              change |-> IF told = "FAILED" THEN "FAILED" ELSE "AWAITING_PAYMENT"]
           refused == [phase |-> "REFUSED"]
<1>1. pay' = [pay EXCEPT ![p] = refused] \/ \E told : pay' = [pay EXCEPT ![p] = opened(told)]
    BY DEF OpenChange, WorthIInv, PageIInv
<1>2. clock' = clock /\ pay[p].phase = "READ" /\ Priced(pay[p], clock)
    BY DEF OpenChange, WorthIInv
<1>3. ASSUME NEW told
      PROVE  Priced(opened(told), clock)
  <2> DEFINE row == opened(told)
  <2>1. /\ row.phase = "OPENED" /\ row.offer = pay[p].offer /\ row.acct = pay[p].acct
        /\ row.type = pay[p].type /\ row.effective = pay[p].effective
        /\ row.amount = pay[p].amount /\ row.basis = pay[p].basis
        /\ row.change \in {"FAILED", "AWAITING_PAYMENT"}
      OBVIOUS
  <2> HIDE DEF row
  <2>2. \A t : QuotedAt(pay[p], t) => QuotedAt(row, t)
      BY <2>1 DEF QuotedAt
  <2>3. Priced(row, clock)
      BY <2>1, <2>2, <1>2 DEF Priced
  <2> QED BY <2>3 DEF row
<1>4. Priced(refused, clock)
    BY RefusedPriced
<1> HIDE DEF opened, refused
<1> QED BY <1>1, <1>2, <1>3, <1>4, RowWritten

\* The times that a priced row names.
LEMMA RowTimes ==
    ASSUME WorthIInv, NEW p \in Opened
    PROVE  /\ clock \in Nat \ {0} /\ StartsAt(p) \in Nat /\ pay[p].offer \in Offer
           /\ org.expires \in Nat /\ org.trial \in Nat
<1>1. p \in Payment /\ pay[p].phase = "OPENED" /\ Priced(pay[p], clock) /\ OrgSound(org)
    BY DEF Opened, WorthIInv
<1>2. clock \in Nat \ {0}
    BY BillingConstantsOK DEF WorthIInv, PageIInv, PageSound, BillingTypeOK
<1>3. pay[p].offer \in Offer /\ OrgSound(pay[p].basis)
    BY <1>1 DEF Priced
<1>4. PICK t \in 1 .. clock : QuotedAt(pay[p], t)
    BY <1>1 DEF Priced
<1>5. pay[p].effective \in {t, pay[p].basis.expires}
    BY <1>4 DEF QuotedAt, EffectiveAt
<1>6. pay[p].basis.expires \in Nat /\ org.expires \in Nat /\ org.trial \in Nat /\ t \in Nat
    BY <1>1, <1>2, <1>3 DEF OrgSound
<1>7. StartsAt(p) \in {pay[p].effective, org.expires, clock}
    BY DEF StartsAt
<1> QED BY <1>2, <1>3, <1>5, <1>6, <1>7

LEMMA DepositPriced ==
    ASSUME WorthIInv, NEW p \in Payment,
           \/ DepositCompletes(p) \/ DepositEnds(p)
           \/ ApplyScheduledChange(p) \/ UndoChange(p) \/ RefundEnds(p)
    PROVE  OrgSound(org') /\ \A q \in Payment : Priced(pay'[q], clock')
<1>1. p \in Opened /\ clock' = clock /\ (Grant(p) \/ UNCHANGED org)
    BY DEF DepositCompletes, DepositEnds, ApplyScheduledChange, UndoChange, RefundEnds
<1>2. OrgSound(org')
    BY <1>1, RowTimes, GrantKeepsOrg DEF WorthIInv
<1>3. PICK s, c : pay' = [pay EXCEPT ![p] = [[pay[p] EXCEPT !.status = s] EXCEPT !.change = c]]
    BY <1>1, DepositRow DEF WorthIInv
<1>4. pay[p] = [f \in RowFields |-> pay[p][f]] /\ pay = [q \in Payment |-> pay[q]]
      /\ Priced(pay[p], clock) /\ pay[p].phase = "OPENED"
    BY <1>1 DEF WorthIInv, PageIInv, RowsWritten, Opened
<1>5. c = pay'[p].change
    BY <1>3, <1>4 DEF RowFields
<1>6. pay'[p].change \in {"SCHEDULED", "REFUND_PENDING"}
        => \/ Scheduled(p)
           \/ pay[p].change \in {"SCHEDULED", "REFUND_PENDING"}
    BY <1>4 DEF DepositCompletes, DepositEnds, ApplyScheduledChange, UndoChange, RefundEnds,
                Grant, RowFields
<1>7. c \in {"SCHEDULED", "REFUND_PENDING"} => pay[p].type \in {"DOWNGRADE", "INTERVAL_CHANGE"}
    BY <1>4, <1>5, <1>6 DEF Scheduled, Priced
<1>8. Priced([[pay[p] EXCEPT !.status = s] EXCEPT !.change = c], clock)
    BY <1>1, <1>4, <1>7, PricedWithStatus DEF WorthIInv
<1> QED BY <1>1, <1>2, <1>3, <1>8, RowWritten

LEMMA WorthNext ==
    ASSUME WorthIInv, [BillingNext]_billingVars
    PROVE  WorthIInv'
<1>1. PageIInv'
    BY PageNext DEF WorthIInv
<1>2. OrgSound(org') /\ \A q \in Payment : Priced(pay'[q], clock')
  <2>1. CASE UNCHANGED <<org, pay, clock>>
      BY <2>1 DEF WorthIInv
  <2>2. CASE Page
    <3>1. (\E p \in Payment : SubmitPayment(p)) \/ UNCHANGED serverVars
        BY <2>2 DEF Page, SelectPlan, SelectAccount, ShowQuote, LoadBilling, LoadFails, Reload,
                    SubmitAnswered, SubmitLost, PollPayment, ShowStatus, PollFails
    <3>2. (\E p \in Payment : SubmitPayment(p)) => UNCHANGED org
        BY DEF SubmitPayment
    <3> QED BY <2>1, <3>1, <3>2, SubmitPriced DEF serverVars, WorthIInv
  <2>3. CASE Server
    <3> PICK p \in Payment :
          \/ ReadOrganization(p) \/ RefuseCheckout(p) \/ OpenChange(p)
          \/ DepositCompletes(p) \/ DepositEnds(p)
          \/ ApplyScheduledChange(p) \/ UndoChange(p) \/ RefundEnds(p)
        BY <2>3 DEF Server
    <3>1. CASE ReadOrganization(p)
        BY <3>1, ReadPriced DEF ReadOrganization, WorthIInv
    <3>2. CASE RefuseCheckout(p)
      <4>1. pay' = [pay EXCEPT ![p] = [phase |-> "REFUSED"]] /\ clock' = clock /\ org' = org
          BY <3>2 DEF RefuseCheckout
      <4> QED BY <4>1, RefusedPriced, RowWritten DEF WorthIInv
    <3>3. CASE OpenChange(p)
        BY <3>3, OpenPriced DEF OpenChange, WorthIInv
    <3> QED BY <3>1, <3>2, <3>3, DepositPriced
  <2>4. CASE OverridePlan
    <3>1. org' \in Start /\ UNCHANGED <<clock, pay>>
        BY <2>4 DEF OverridePlan
    <3> QED BY <3>1, PricesOK DEF WorthIInv
  <2>5. CASE Tick
    <3>1. UNCHANGED <<org, pay>> /\ clock' = clock + 1 /\ clock \in Nat
        BY <2>5, BillingConstantsOK DEF Tick, WorthIInv, PageIInv, PageSound, BillingTypeOK
    <3> QED BY <3>1, PricedLater DEF WorthIInv
  <2> QED BY <2>1, <2>2, <2>3, <2>4, <2>5 DEF BillingNext, billingVars, serverVars
<1> QED BY <1>1, <1>2 DEF WorthIInv

\* Every reachable state has priced rows.
THEOREM WorthInvariantHolds == BillingSpec => []WorthIInv
<1>1. WorthIInv /\ [BillingNext]_billingVars => WorthIInv'
    BY WorthNext
<1> QED BY WorthInit, <1>1, PTL DEF BillingSpec

\* A term is worth its price, whatever was left of a term that had ended by then.
LEMMA TermIsWorth ==
    ASSUME WorthIInv, NEW p \in Opened, Grant(p),
           pay[p].type # "UPGRADE", pay[p].amount = GetFixedPlanPrice(pay[p].offer, pay[p].acct.currency),
           pay[p].acct \in Account,
           org.plan = "DISCOVERY" \/ org.expires <= StartsAt(p)
    PROVE  PaidIsWorth(p)
<1> DEFINE o == pay[p].offer
           c == pay[p].acct.currency
           t == StartsAt(p)
           price == GetFixedPlanPrice(o, c)
           k == Length["ANNUAL"] \div Length[o.interval]
<1>1. /\ o.plan \in {"ESSENTIAL", "PRO"} /\ o.interval \in DOMAIN Length
      /\ [plan |-> o.plan, interval |-> o.interval] = o /\ o \in DOMAIN Factor
      /\ clock \in Nat /\ t \in Nat /\ org.expires \in Nat /\ org.trial \in Nat
    BY RowTimes, OffersPriced
<1>2. OrgSound(org)
    BY DEF WorthIInv
<1>3. Worth(org, c, t) = 0
  <2>1. ~HasActiveTerm(org, t)
      BY <1>1 DEF HasActiveTerm, PlanOf
  <2> QED BY <2>1 DEF Worth
<1>4. /\ org'.plan = o.plan /\ org'.interval = o.interval
      /\ org'.expires = t + Length[o.interval]
      /\ org'.trial = IF pay[p].change # "SCHEDULED" /\ org.trial > clock THEN org.trial ELSE 0
    BY DEF Grant, ExpiresAt, AddTerm
<1>5. /\ Length[o.interval] \in Nat \ {0} /\ k \in Nat /\ Length["ANNUAL"] \in Nat \ {0}
      /\ Length[o.interval] * k = Length["ANNUAL"]
    BY <1>1, YearOfTerms
<1>6. org'.trial <= t
  <2>1. org.plan = "DISCOVERY" => org.trial = 0
      BY <1>2 DEF OrgSound
  <2>2. org.trial <= org.expires
      BY <1>2 DEF OrgSound
  <2> QED BY <1>1, <1>4, <2>1, <2>2
<1>7. HasActiveTerm(org', t) /\ ~(org'.trial > t)
  <2>1. org'.expires > t /\ org'.expires \in Nat
      BY <1>1, <1>4, <1>5
  <2>2. ~IsSubscriptionExpired(org', t)
      BY <1>1, <2>1 DEF IsSubscriptionExpired
  <2>3. org'.trial \in Nat
      BY <1>1, <1>4
  <2> QED BY <1>1, <1>4, <1>6, <2>1, <2>2, <2>3 DEF HasActiveTerm, PlanOf
<1>8. Worth(org', c, t) = price * (org'.expires - t) * k
    BY <1>1, <1>4, <1>7 DEF Worth
<1>9. price \in Nat
    BY <1>1, AccountsHaveCurrencies, PriceIsNat
<1> HIDE DEF price, k, t, o, c
<1>10. org'.expires - t = Length[o.interval]
    BY <1>1, <1>4, <1>5
<1>11. (price * Length[o.interval]) * k = price * (Length[o.interval] * k)
    BY <1>5, <1>9
<1>12. Worth(org', c, t) - Worth(org, c, t) = price * Length["ANNUAL"]
  <2>1. price * Length["ANNUAL"] \in Nat
      BY <1>5, <1>9
  <2> QED BY <2>1, <1>3, <1>5, <1>8, <1>10, <1>11
<1> QED BY <1>12 DEF PaidIsWorth, price, t, o, c

\* An upgrade is worth the difference for what is left, less than what was left when it
\* was priced.
LEMMA UpgradeIsWorth ==
    ASSUME WorthIInv, NEW p \in Opened, Grant(p),
           pay[p].type = "UPGRADE", pay[p].change # "SCHEDULED",
           org.expires > clock, NEW t0 \in 1 .. clock,
           ClassifyChange(org, pay[p].offer, t0) = "UPGRADE",
           pay[p].amount = ProratedPrice(org, pay[p].offer, pay[p].acct, t0), IsDue(pay[p].amount),
           pay[p].acct \in Account
    PROVE  PaidIsWorth(p)
<1> DEFINE o == pay[p].offer
           c == pay[p].acct.currency
           l == Length[o.interval]
           k == Length["ANNUAL"] \div l
           old == [plan |-> org.plan, interval |-> org.interval]
           pn == GetFixedPlanPrice(o, c)
           po == GetFixedPlanPrice(old, c)
           a == pay[p].amount
           left == org.expires - clock
           before == org.expires - t0
<1>1. /\ o.plan \in {"ESSENTIAL", "PRO"} /\ o.interval \in DOMAIN Length
      /\ [plan |-> o.plan, interval |-> o.interval] = o /\ o \in DOMAIN Factor
      /\ clock \in Nat /\ t0 \in Nat /\ t0 <= clock /\ org.expires \in Nat /\ org.trial \in Nat
    BY RowTimes, OffersPriced
<1>2. /\ HasActiveTerm(org, t0) /\ ~(org.trial > t0) /\ org.interval = o.interval
    BY DEF ClassifyChange
<1>3. org.plan # "DISCOVERY" /\ old \in DOMAIN Factor
  <2>1. org.plan # "DISCOVERY"
      BY <1>2 DEF HasActiveTerm, PlanOf
  <2> QED BY <2>1 DEF WorthIInv, OrgSound
<1>4. StartsAt(p) = clock
    BY DEF StartsAt
<1>5. /\ org'.plan = o.plan /\ org'.interval = o.interval /\ org'.expires = org.expires
      /\ org'.trial = 0
    BY <1>1, <1>2 DEF Grant, ExpiresAt
<1>6. /\ l \in Nat \ {0} /\ k \in Nat /\ l * k = Length["ANNUAL"]
    BY <1>1, YearOfTerms
<1>7. pn \in Nat /\ po \in Nat
    BY <1>1, <1>3, AccountsHaveCurrencies, PriceIsNat
<1>8. left \in Nat /\ before \in Nat /\ left <= before
    BY <1>1
<1>9. Worth(org, c, clock) = po * left * k
  <2>1. HasActiveTerm(org, clock) /\ ~(org.trial > clock)
      BY <1>1, <1>2, <1>3 DEF HasActiveTerm, PlanOf, IsSubscriptionExpired
  <2> QED BY <2>1, <1>2 DEF Worth
<1>10. Worth(org', c, clock) = pn * left * k
  <2>1. HasActiveTerm(org', clock) /\ ~(org'.trial > clock)
      BY <1>1, <1>5 DEF HasActiveTerm, PlanOf, IsSubscriptionExpired
  <2> QED BY <2>1, <1>1, <1>5 DEF Worth
<1>11. a = RoundForProvider((pn - po) * before, l, pay[p].acct.decimals)
    BY <1>1 DEF ProratedPrice, Remaining
<1> HIDE DEF pn, po, l, k, left, before, a, old, c, o
<1>12. (pn - po) * before \in Int
    BY <1>7, <1>8
<1>13. /\ a \in Int /\ 2 * (l * a) >= 2 * ((pn - po) * before) - 100 * l
       /\ (a > 0 => (pn - po) * before > 0)
    BY <1>6, <1>11, <1>12, RoundForProviderBound
<1>14. a > 0
    BY DEF IsDue, a
<1>15. pn * left * k - po * left * k <= a * (l * k) + 50 * (l * k)
    BY <1>6, <1>7, <1>8, <1>13, <1>14, DifferenceCovered
<1> QED BY <1>4, <1>6, <1>9, <1>10, <1>15 DEF PaidIsWorth, a, c

\* A payment that takes effect on the plan it was quoted on is worth what it cost.
LEMMA GrantIsWorth ==
    ASSUME WorthIInv, NEW p \in Opened, Grant(p), org = pay[p].basis,
           \/ pay[p].change = "SCHEDULED" /\ pay[p].effective <= clock
           \/ pay[p].change = "AWAITING_PAYMENT" /\ ~Scheduled(p),
           ~(pay[p].type = "UPGRADE" /\ org.expires <= clock)
    PROVE  PaidIsWorth(p)
<1> DEFINE type == pay[p].type
<1>1. p \in Payment /\ Priced(pay[p], clock) /\ pay[p].phase = "OPENED"
    BY DEF WorthIInv, Opened
<1>2. pay[p].acct \in Account
    BY <1>1 DEF Priced
<1>3. PICK t0 \in 1 .. clock : QuotedAt(pay[p], t0)
    BY <1>1 DEF Priced
<1>4. /\ type = ClassifyChange(org, pay[p].offer, t0)
      /\ pay[p].effective = EffectiveAt(org, type, t0)
      /\ pay[p].amount = CalculatePaymentQuote(org, pay[p].offer, pay[p].acct, t0)
      /\ IsDue(pay[p].amount)
    BY <1>3 DEF QuotedAt
<1>5. clock \in Nat /\ t0 \in Nat /\ t0 <= clock /\ org.expires \in Nat
    BY RowTimes
<1>6. pay[p].change = "SCHEDULED" => type \in {"DOWNGRADE", "INTERVAL_CHANGE"}
    BY <1>1 DEF Priced
<1>7. type \in {"PURCHASE", "RENEWAL", "UPGRADE", "DOWNGRADE", "INTERVAL_CHANGE"}
    BY <1>4 DEF ClassifyChange
<1>8. CASE type = "UPGRADE"
  <2>1. pay[p].amount = ProratedPrice(org, pay[p].offer, pay[p].acct, t0)
      BY <1>4, <1>8 DEF CalculatePaymentQuote
  <2>2. org.expires > clock
      BY <1>5, <1>8
  <2> QED BY <2>1, <2>2, <1>2, <1>4, <1>6, <1>8, UpgradeIsWorth
<1>9. CASE type # "UPGRADE"
  <2>1. pay[p].amount = GetFixedPlanPrice(pay[p].offer, pay[p].acct.currency)
      BY <1>4, <1>9 DEF CalculatePaymentQuote
  <2>2. org.plan = "DISCOVERY" \/ org.expires <= StartsAt(p)
    <3>1. CASE type = "PURCHASE"
      <4>1. StartsAt(p) = clock
          BY <1>6, <3>1 DEF StartsAt
      <4>2. ~HasActiveTerm(org, t0)
          BY <1>4, <3>1 DEF ClassifyChange
      <4>3. org.plan = "DISCOVERY" \/ org.expires <= t0
          BY <4>2, <1>5 DEF HasActiveTerm, PlanOf, IsSubscriptionExpired
      <4> QED BY <4>1, <4>3, <1>5
    <3>2. CASE type = "RENEWAL"
        BY <1>5, <1>6, <3>2 DEF StartsAt
    <3>3. CASE type \in {"DOWNGRADE", "INTERVAL_CHANGE"}
      <4>1. pay[p].effective = org.expires
          BY <1>4, <3>3 DEF EffectiveAt
      <4>2. CASE pay[p].change = "SCHEDULED"
          BY <4>1, <4>2, <1>5 DEF StartsAt
      <4>3. CASE ~Scheduled(p) /\ pay[p].change = "AWAITING_PAYMENT"
          BY <4>1, <4>3, <1>5, <3>3 DEF Scheduled, StartsAt
      <4> QED BY <4>2, <4>3
    <3> QED BY <1>7, <1>9, <3>1, <3>2, <3>3
  <2> QED BY <2>1, <2>2, <1>2, <1>9, TermIsWorth
<1> QED BY <1>8, <1>9

\* Only a grant makes the change of an opened payment applied.
LEMMA AppliedByGrant ==
    ASSUME WorthIInv, BillingNext, NEW p \in Opened,
           pay[p].change # "APPLIED", pay'[p].change = "APPLIED"
    PROVE  /\ Grant(p)
           /\ \/ pay[p].change = "SCHEDULED" /\ pay[p].effective <= clock
              \/ pay[p].change = "AWAITING_PAYMENT" /\ ~Scheduled(p)
<1>1. /\ p \in Payment /\ pay[p].phase = "OPENED" /\ pay = [q \in Payment |-> pay[q]]
      /\ pay[p] = [f \in RowFields |-> pay[p][f]]
    BY DEF WorthIInv, PageIInv, RowsWritten, Opened
<1>2. pay' # pay
    OBVIOUS
<1>3. ASSUME NEW q \in Payment, q # p, NEW row, pay' = [pay EXCEPT ![q] = row]
      PROVE  FALSE
    BY <1>1, <1>3
<1>4. PICK q \in Payment :
        \/ SubmitPayment(q) \/ ReadOrganization(q) \/ RefuseCheckout(q) \/ OpenChange(q)
        \/ DepositCompletes(q) \/ DepositEnds(q)
        \/ ApplyScheduledChange(q) \/ UndoChange(q) \/ RefundEnds(q)
    BY <1>2 DEF BillingNext, Page, Server, SelectPlan, SelectAccount, ShowQuote, LoadBilling,
                LoadFails, Reload, SubmitAnswered, SubmitLost, PollPayment, ShowStatus,
                PollFails, OverridePlan, Tick, serverVars
<1>5. CASE SubmitPayment(q) \/ ReadOrganization(q) \/ RefuseCheckout(q) \/ OpenChange(q)
  <2>1. q # p
      BY <1>1, <1>5 DEF SubmitPayment, ReadOrganization, RefuseCheckout, OpenChange
  <2>2. pay'[p] = pay[p]
      BY <1>1, <1>5, <2>1 DEF SubmitPayment, ReadOrganization, RefuseCheckout, OpenChange
  <2> QED BY <2>2
<1>6. CASE \/ DepositCompletes(q) \/ DepositEnds(q)
           \/ ApplyScheduledChange(q) \/ UndoChange(q) \/ RefundEnds(q)
  <2>1. q = p
    <3> SUFFICES ASSUME q # p PROVE FALSE
        OBVIOUS
    <3>1. q \in Opened
        BY <1>6 DEF DepositCompletes, DepositEnds, ApplyScheduledChange, UndoChange, RefundEnds
    <3>2. \E s, c : pay' = [pay EXCEPT ![q] = [[pay[q] EXCEPT !.status = s] EXCEPT !.change = c]]
        BY <1>6, <3>1, DepositRow DEF WorthIInv
    <3> QED BY <3>2, <1>3
  <2>2. CASE DepositCompletes(p)
      BY <1>1, <2>2 DEF DepositCompletes, RowFields
  <2>3. CASE ApplyScheduledChange(p)
      BY <1>1, <2>3 DEF ApplyScheduledChange, RowFields
  <2>4. CASE DepositEnds(p) \/ UndoChange(p) \/ RefundEnds(p)
      BY <1>1, <2>4 DEF DepositEnds, UndoChange, RefundEnds, RowFields
  <2> QED BY <1>6, <2>1, <2>2, <2>3, <2>4
<1> QED BY <1>4, <1>5, <1>6

\* For any prices, terms, currencies and precisions, a payment that takes effect on the plan
\* it was quoted on gives what it paid for: a whole term, or for an upgrade in time no more
\* than the difference.
THEOREM PaymentsAreWorth == BillingSpec => GrantsWhatIsPaid
<1> DEFINE Worthy == \A p \in Opened :
             /\ pay[p].change # "APPLIED" /\ pay'[p].change = "APPLIED"
             /\ org = pay[p].basis
             /\ ~(pay[p].type = "UPGRADE" /\ org.expires <= clock)
             => PaidIsWorth(p)
<1>1. WorthIInv /\ [BillingNext]_billingVars => [Worthy]_billingVars
    BY AppliedByGrant, GrantIsWorth
<1> QED BY <1>1, WorthInvariantHolds, PTL DEF BillingSpec, GrantsWhatIsPaid
=============================================================================
