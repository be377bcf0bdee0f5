----------------------------- MODULE PlanLimits -----------------------------
(***************************************************************************)
(* The agents and areas of one organization and the limits of its plan.    *)
(* services/organization_quota.service.js admits a new or restored one     *)
(* under the lock of the organization; services/payment/{policy,           *)
(* subscription}.js suspends what a smaller plan no longer carries, when a *)
(* scheduled change is applied and when the worker finds a plan that ran   *)
(* out; the console of administration does both, suspending or restoring,  *)
(* when it replaces the plan. The dashboard revokes and restores an agent  *)
(* through one toggle, decided on a row the request read before the lock.  *)
(*                                                                         *)
(* Agents and areas are numbered in the order of their creation, the order *)
(* in which the code keeps them. An enterprise contract is one more plan,  *)
(* with the limits it was signed for; no limit (null) is a large one.      *)
(* Administrators of the organization, who count for nothing, are left out.*)
(***************************************************************************)
EXTENDS Naturals, FiniteSets

CONSTANTS
    Agent,      \* agents, numbered from the oldest
    Area,       \* areas, numbered from the oldest
    Plan,       \* the plans an organization may have
    Discovery,  \* the free one, which never runs out
    MaxAgents,  \* for each plan, the active agents it carries
    MaxAreas,   \* for each plan, the areas it carries
    Admin,      \* pages of the dashboard where agents are managed
    NoCall,     \* a page that asks for nothing
    Worker      \* background passes of applyDueSubscriptionChanges

\* ACTIVE; INACTIVE: is_active is false; SUSPENDED: and suspended_by_plan;
\* ARCHIVED: deleted_at is set.
AgentStates == {"NONE", "ACTIVE", "INACTIVE", "SUSPENDED", "ARCHIVED"}
AreaStates == {"NONE", "OPEN", "SUSPENDED", "DELETED"}

\* A page that shows an agent, as active or not, and what the toggle it sent has
\* read: isCurrentlyDeleted, once there is an answer.
Calls == [agent : Agent, active : BOOLEAN, read : {"NOTHING", "ACTIVE", "DELETED"}]

ASSUME ConstantsOK ==
    /\ IsFiniteSet(Agent) /\ Agent \subseteq Nat
    /\ IsFiniteSet(Area) /\ Area \subseteq Nat
    /\ Discovery \in Plan
    /\ MaxAgents \in [Plan -> Nat]
    /\ MaxAreas \in [Plan -> Nat]
    /\ NoCall \notin Calls

VARIABLES
    plan,           \* organizations.subscription_plan
    over,           \* organizations.subscription_expires_at is passed
    subscription,   \* subscriptions.status
    open,           \* organizations.is_active
    agent,          \* the state of each agent
    area,           \* the state of each area
    call,           \* what each page of the dashboard is asking
    listed          \* workers that found this organization's plan expired

planVars == <<plan, over, subscription>>
rowVars == <<agent, area>>
vars == <<planVars, open, rowVars, call, listed>>

Init ==
    /\ plan = Discovery
    /\ over = FALSE
    /\ subscription = "NONE"
    /\ open = TRUE
    /\ agent = [a \in Agent |-> "NONE"]
    /\ area = [z \in Area |-> "NONE"]
    /\ call = [m \in Admin |-> NoCall]
    /\ listed = {}

\* A plan that ran out counts for the free one.
PlanInForce == IF over THEN Discovery ELSE plan

ActiveAgents == {a \in Agent : agent[a] = "ACTIVE"}
OpenAreas == {z \in Area : area[z] = "OPEN"}
AgentAdmitted == Cardinality(ActiveAgents) < MaxAgents[PlanInForce]
AreaAdmitted == Cardinality(OpenAreas) < MaxAreas[PlanInForce]

-----------------------------------------------------------------------------
(* What a plan keeps *)

\* What a customer may ask to keep of S when n places are to come: it is compared with the
\* plan at that time, and may be revoked or deleted until the plan comes.
Selections(S, n) == {W \in SUBSET S : Cardinality(W) <= n}

\* What n places keep of S: those the customer asked for first, then the oldest.
Retained(S, wanted, n) ==
    {K \in SUBSET S :
        /\ Cardinality(K) <= n
        /\ K = S \/ Cardinality(K) = n
        /\ K \subseteq wanted \/ wanted \cap S \subseteq K
        /\ \A a \in K \ wanted, b \in S \ K : a < b}

\* The console restores suspended ones, oldest first, when places are free.
Reconciled(S, suspended, n) ==
    IF Cardinality(S) >= n
    THEN Retained(S, {}, n)
    ELSE {S \cup R : R \in Retained(suspended, {}, n - Cardinality(S))}

\* The rows once K are the ones the plan carries.
AgentsWith(K) ==
    [a \in Agent |-> IF a \in K THEN "ACTIVE"
                     ELSE IF agent[a] = "ACTIVE" THEN "SUSPENDED" ELSE agent[a]]
AreasWith(K) ==
    [z \in Area |-> IF z \in K THEN "OPEN"
                    ELSE IF area[z] = "OPEN" THEN "SUSPENDED" ELSE area[z]]

Enforce(p, wantedAgents, wantedAreas) ==
    /\ \E K \in Retained(ActiveAgents, wantedAgents, MaxAgents[p]) : agent' = AgentsWith(K)
    /\ \E K \in Retained(OpenAreas, wantedAreas, MaxAreas[p]) : area' = AreasWith(K)

ReconcileResources(p) ==
    /\ \E K \in Reconciled(ActiveAgents, {a \in Agent : agent[a] = "SUSPENDED"}, MaxAgents[p]) :
          agent' = AgentsWith(K)
    /\ \E K \in Reconciled(OpenAreas, {z \in Area : area[z] = "SUSPENDED"}, MaxAreas[p]) :
          area' = AreasWith(K)

-----------------------------------------------------------------------------
(* The plan *)

\* A completed payment that takes effect at once: a purchase, a renewal, an
\* upgrade, or a downgrade whose payment came after the old plan ran out. It
\* suspends and restores nothing.
Purchase(p) ==
    /\ p # Discovery
    /\ \/ over
       \/ MaxAgents[p] >= MaxAgents[plan] /\ MaxAreas[p] >= MaxAreas[plan]
    /\ plan' = p
    /\ over' = FALSE
    /\ subscription' = "ACTIVE"
    /\ UNCHANGED <<open, rowVars, call, listed>>

\* A cancellation that has reached its date; the free plan keeps the oldest.
ApplyCancellation ==
    /\ plan # Discovery /\ over
    /\ Enforce(Discovery, {}, {})
    /\ plan' = Discovery
    /\ over' = FALSE
    /\ subscription' = "CANCELED"
    /\ UNCHANGED <<open, call, listed>>

\* A paid downgrade or change of interval that has reached its date, with the
\* agents and areas the customer chose to keep.
ApplyDowngrade(p) ==
    /\ plan # Discovery /\ over
    /\ p # Discovery
    /\ MaxAgents[p] <= MaxAgents[plan] /\ MaxAreas[p] <= MaxAreas[plan]
    /\ \E wa \in Selections(Agent, MaxAgents[p]), wz \in Selections(Area, MaxAreas[p]) :
         Enforce(p, wa, wz)
    /\ plan' = p
    /\ over' = FALSE
    /\ subscription' = "ACTIVE"
    /\ UNCHANGED <<open, call, listed>>

\* A worker that reads only subscriptions of the free plan.
ListExpiredFree(w) ==
    /\ over /\ subscription = "CANCELED"
    /\ listed' = listed \cup {w}
    /\ UNCHANGED <<planVars, open, rowVars, call>>

\* The worker reads the subscriptions that ran out, outside any transaction.
ListExpired(w) ==
    /\ over /\ subscription = "ACTIVE"
    /\ listed' = listed \cup {w}
    /\ UNCHANGED <<planVars, open, rowVars, call>>

\* A pass that reads the same subscription but writes EXPIRED without the limits.
EnforceNothing(w) ==
    /\ w \in listed
    /\ subscription' = IF over /\ subscription = "ACTIVE" THEN "EXPIRED" ELSE subscription
    /\ listed' = listed \ {w}
    /\ UNCHANGED <<plan, over, open, rowVars, call>>

\* Then applies the limits of the free plan whatever has become of the
\* subscription, and marks it only if it still is as it was found.
EnforceExpired(w) ==
    /\ w \in listed
    /\ Enforce(Discovery, {}, {})
    /\ subscription' = IF over /\ subscription = "ACTIVE" THEN "EXPIRED" ELSE subscription
    /\ listed' = listed \ {w}
    /\ UNCHANGED <<plan, over, open, call>>

\* The console: an enterprise contract, or a plan set by an administrator.
ChangeSubscription(p) ==
    /\ ReconcileResources(p)
    /\ plan' = p
    /\ over' = FALSE
    /\ subscription' = IF p = Discovery THEN "CANCELED" ELSE "ACTIVE"
    /\ UNCHANGED <<open, call, listed>>

\* The period that was paid for ends.
Expire ==
    /\ plan # Discovery /\ ~over
    /\ over' = TRUE
    /\ UNCHANGED <<plan, subscription, open, rowVars, call, listed>>

SetOrganizationActive ==
    /\ open' = ~open
    /\ UNCHANGED <<planVars, rowVars, call, listed>>

-----------------------------------------------------------------------------
(* Agents and areas *)

SetAgent(a, s) == agent' = [agent EXCEPT ![a] = s]

AddAgent(a) ==
    /\ open
    /\ agent[a] = "NONE"
    /\ \A b \in Agent : b < a => agent[b] # "NONE"
    /\ AgentAdmitted
    /\ SetAgent(a, "ACTIVE")
    /\ UNCHANGED <<planVars, open, area, call, listed>>

\* An administrator of the organization asks to confirm a change of the agent,
\* worded after the state the page shows.
OpenAgentConfirm(m, a) ==
    /\ call[m] = NoCall
    /\ open
    /\ agent[a] # "NONE"
    /\ call' = [call EXCEPT ![m] = [agent |-> a, active |-> agent[a] = "ACTIVE", read |-> "NOTHING"]]
    /\ UNCHANGED <<planVars, open, rowVars, listed>>

\* The toggle reads the agent, outside the transaction of the quota.
ReadAgent(m) ==
    /\ call[m] # NoCall /\ call[m].read = "NOTHING"
    /\ call' = [call EXCEPT ![m].read =
                   IF agent[call[m].agent] = "ACTIVE" THEN "ACTIVE" ELSE "DELETED"]
    /\ UNCHANGED <<planVars, open, rowVars, listed>>

ToggleRevokes(m) ==
    /\ call[m] # NoCall /\ call[m].read = "ACTIVE"
    /\ SetAgent(call[m].agent, "ARCHIVED")
    /\ call' = [call EXCEPT ![m] = NoCall]
    /\ UNCHANGED <<planVars, open, area, listed>>

\* A restoration that counts nothing.
ToggleRestoresFreely(m) ==
    /\ call[m] # NoCall /\ call[m].read = "DELETED"
    /\ SetAgent(call[m].agent, "ACTIVE")
    /\ call' = [call EXCEPT ![m] = NoCall]
    /\ UNCHANGED <<planVars, open, area, listed>>

\* An archived or suspended agent comes back like an inactive one.
ToggleRestores(m) ==
    /\ call[m] # NoCall /\ call[m].read = "DELETED"
    /\ AgentAdmitted
    /\ SetAgent(call[m].agent, "ACTIVE")
    /\ call' = [call EXCEPT ![m] = NoCall]
    /\ UNCHANGED <<planVars, open, area, listed>>

\* The administrator closes the dialog, or the quota refuses.
CloseAgentConfirm(m) ==
    /\ call[m] # NoCall
    /\ \/ call[m].read = "NOTHING"
       \/ call[m].read = "DELETED" /\ ~AgentAdmitted
    /\ call' = [call EXCEPT ![m] = NoCall]
    /\ UNCHANGED <<planVars, open, rowVars, listed>>

DeleteAgent(a) ==
    /\ open
    /\ agent[a] # "NONE"
    /\ SetAgent(a, "ARCHIVED")
    /\ UNCHANGED <<planVars, open, area, call, listed>>

\* The console deactivates an agent; one the plan has suspended stays so.
DeactivateUser(a) ==
    /\ agent[a] = "ACTIVE"
    /\ SetAgent(a, "INACTIVE")
    /\ UNCHANGED <<planVars, open, area, call, listed>>

ActivateUser(a) ==
    /\ agent[a] = "INACTIVE"
    /\ open
    /\ AgentAdmitted
    /\ SetAgent(a, "ACTIVE")
    /\ UNCHANGED <<planVars, open, area, call, listed>>

CreateArea(z) ==
    /\ open
    /\ area[z] = "NONE"
    /\ \A y \in Area : y < z => area[y] # "NONE"
    /\ AreaAdmitted
    /\ area' = [area EXCEPT ![z] = "OPEN"]
    /\ UNCHANGED <<planVars, open, agent, call, listed>>

DeleteArea(z) ==
    /\ open
    /\ area[z] \in {"OPEN", "SUSPENDED"}
    /\ area' = [area EXCEPT ![z] = "DELETED"]
    /\ UNCHANGED <<planVars, open, agent, call, listed>>

-----------------------------------------------------------------------------
Toggle(m) == ReadAgent(m) \/ ToggleRevokes(m) \/ ToggleRestores(m)

PlanStep ==
    \/ \E p \in Plan : Purchase(p) \/ ApplyDowngrade(p) \/ ChangeSubscription(p)
    \/ ApplyCancellation \/ Expire \/ SetOrganizationActive

AgentStep(a) == AddAgent(a) \/ DeleteAgent(a) \/ DeactivateUser(a) \/ ActivateUser(a)

Next ==
    \/ PlanStep
    \/ \E w \in Worker : ListExpired(w) \/ EnforceExpired(w)
    \/ \E a \in Agent : AgentStep(a)
    \/ \E z \in Area : CreateArea(z) \/ DeleteArea(z)
    \/ \E m \in Admin : Toggle(m) \/ CloseAgentConfirm(m) \/ \E a \in Agent : OpenAgentConfirm(m, a)

Spec == Init /\ [][Next]_vars

\* The worker starts a pass every minute and finishes it.
Fairness == \A w \in Worker : WF_vars(ListExpired(w)) /\ WF_vars(EnforceExpired(w))

FairSpec == Spec /\ Fairness
-----------------------------------------------------------------------------
(* Properties *)

TypeOK ==
    /\ plan \in Plan
    /\ over \in BOOLEAN
    /\ subscription \in {"NONE", "ACTIVE", "EXPIRED", "CANCELED"}
    /\ open \in BOOLEAN
    /\ agent \in [Agent -> AgentStates]
    /\ area \in [Area -> AreaStates]
    /\ call \in [Admin -> Calls \cup {NoCall}]
    /\ listed \subseteq Worker

AgentsFit(p) == Cardinality(ActiveAgents) <= MaxAgents[p]
AreasFit(p) == Cardinality(OpenAreas) <= MaxAreas[p]

\* Once a plan has been given up, or the worker has marked it expired, the
\* organization works within the free plan, and no addition, restoration,
\* stale toggle or console action takes it out of it again (policy.js:52-103,
\* subscription.js:155-168, organization_quota.service.js:22-65). Before that,
\* or after a late downgrade, more agents may be active than the plan carries.
FreePlanFits ==
    (plan = Discovery \/ subscription = "EXPIRED") => (AgentsFit(Discovery) /\ AreasFit(Discovery))

\* A step that adds to the active agents or areas leaves them within the plan.
GrowthFits ==
    /\ ActiveAgents' \subseteq ActiveAgents \/ Cardinality(ActiveAgents') <= MaxAgents[PlanInForce']
    /\ OpenAreas' \subseteq OpenAreas \/ Cardinality(OpenAreas') <= MaxAreas[PlanInForce']

\* Whatever step gives the organization one more active agent or area leaves it
\* within the plan in force: a dashboard request, a toggle on a row read before
\* the lock, a console activation, or the console's restoration of suspended ones
\* (organization_quota.service.js:22-65, organization.controller.js:36-76,
\* agent-access.service.js:48-60).
GrowsWithinPlan == [][GrowthFits]_vars

\* A plan that ran out and is not renewed ends up with no more agents and areas
\* than the free plan, whatever is added or restored meanwhile (the general
\* conditions: frontendAccessQ, conditions-utilisation/page.jsx:61).
LapsedPlanSuspends ==
    over ~> (~over \/ (AgentsFit(Discovery) /\ AreasFit(Discovery)))

\* FreePlanFits with what it rests on: only a paid plan can run out.
IInv ==
    /\ TypeOK
    /\ over => plan # Discovery
    /\ subscription = "EXPIRED" => over
    /\ FreePlanFits
=============================================================================
