------------------------------ MODULE EventPasses ------------------------------
(***************************************************************************)
(* What entitles an organization to an event: a pass, bought through       *)
(* pawaPay and good for one event, or the plan with its quota of events    *)
(* per monthly cycle (the EVENT_PASS branch of payment/reconciliation.js,  *)
(* withEventCreationQuota, event.service.js, the page that creates events).*)
(* Callbacks, refreshes and the background worker reconcile a payment in   *)
(* steps of their own; the transaction that grants the pass locks the      *)
(* organization, FAILED, PROCESSING and EXPIRED are written by primary key *)
(* with no lock. Creating an event is one serializable transaction; the    *)
(* page chose the pass before. Titles, dates and areas are left out.       *)
(***************************************************************************)
EXTENDS Naturals, FiniteSets, Sequences

CONSTANTS
    Deposit,        \* pass payments the organization starts
    Handler,        \* HTTP requests that reconcile: callbacks and refreshes
    Worker,         \* background passes of reconcilePendingTransactions
    NoCall,         \* a caller that reconciles nothing
    Page,           \* browsers of the organization on the dashboard
    Low, High,      \* a plan and a larger one
    EventLimit,     \* maxEventsPerCycle of each plan
    Month,          \* length of a cycle and of a pass
    MaxEvents,      \* bound: events ever created
    MaxNow          \* bound of the clock

Caller == Handler \cup Worker
Plan == {Low, High}

\* Mutant of OpenPayment: the worker leaves out those in progress.
PendingPayment == {"PENDING"}

OpenPayment == {"PENDING", "PROCESSING"}

Found == {"IN_PROGRESS", "COMPLETED", "FAILED"}
Never == MaxNow + Month + 1

ASSUME PassesConstantsOK ==
    /\ NoCall \notin Caller
    /\ EventLimit \in [Plan -> Nat]
    /\ {Month, MaxEvents} \subseteq Nat \ {0} /\ MaxNow \in Nat

VARIABLES
    now,        \* the clock
    plan,       \* the plan in force
    anchor,     \* subscription_started_at, from which the cycles are counted; maybe to come
    payment,    \* payments.status of a pass payment
    purchase,   \* the checkout request of a payment
    deposit,    \* pawaPay's deposit
    old,        \* the payment was created more than 24 hours ago
    call,       \* what each caller that reconciles is doing
    passes,     \* the rows of event_passes
    events,     \* the rows of events
    page        \* the form each browser has open

planVars == <<now, plan, anchor>>
buyingVars == <<payment, purchase, deposit, old, call>>
passVars == <<planVars, buyingVars, passes, events, page>>

NoPage == [at |-> "AWAY", ref |-> 0]

PassesInit ==
    /\ now = 0 /\ anchor = 0 /\ plan \in Plan
    /\ payment = [d \in Deposit |-> "NONE"]
    /\ purchase = [d \in Deposit |-> "NEW"]
    /\ deposit = [d \in Deposit |-> "NONE"]
    /\ old = [d \in Deposit |-> FALSE]
    /\ call = [r \in Caller |-> NoCall]
    /\ passes = <<>>
    /\ events = <<>>
    /\ page = [p \in Page |-> NoPage]

-----------------------------------------------------------------------------
(* Buying a pass.                                                          *)

\* The payment row, before pawaPay is asked for the deposit.
InitiatePass(d) ==
    /\ purchase[d] = "NEW"
    /\ purchase' = [purchase EXCEPT ![d] = "ASKING"]
    /\ payment' = [payment EXCEPT ![d] = "PENDING"]
    /\ UNCHANGED <<planVars, deposit, old, call, passes, events, page>>

\* pawaPay has the deposit, whether or not its answer comes back.
DepositReceived(d) ==
    /\ purchase[d] = "ASKING" /\ deposit[d] = "NONE"
    /\ deposit' = [deposit EXCEPT ![d] = "IN_PROGRESS"]
    /\ UNCHANGED <<planVars, payment, purchase, old, call, passes, events, page>>

\* The answer is written by primary key: over what a callback wrote meanwhile.
InitiateAnswered(d) ==
    /\ purchase[d] = "ASKING" /\ deposit[d] # "NONE"
    /\ purchase' = [purchase EXCEPT ![d] = "DONE"]
    /\ \E s \in OpenPayment : payment' = [payment EXCEPT ![d] = s]
    /\ UNCHANGED <<planVars, deposit, old, call, passes, events, page>>

InitiateRejected(d) ==
    /\ purchase[d] = "ASKING" /\ deposit[d] = "NONE"
    /\ purchase' = [purchase EXCEPT ![d] = "DONE"]
    /\ payment' = [payment EXCEPT ![d] = "FAILED"]
    /\ UNCHANGED <<planVars, deposit, old, call, passes, events, page>>

\* No answer: the row stays as it is.
InitiateUncertain(d) ==
    /\ purchase[d] = "ASKING"
    /\ purchase' = [purchase EXCEPT ![d] = "DONE"]
    /\ UNCHANGED <<planVars, payment, deposit, old, call, passes, events, page>>

\* The customer confirms or not.
DepositEnds(d) ==
    /\ deposit[d] = "IN_PROGRESS"
    /\ \E s \in {"COMPLETED", "FAILED"} : deposit' = [deposit EXCEPT ![d] = s]
    /\ UNCHANGED <<planVars, payment, purchase, old, call, passes, events, page>>

DayPasses(d) ==
    /\ purchase[d] = "DONE" /\ ~old[d]
    /\ old' = [old EXCEPT ![d] = TRUE]
    /\ UNCHANGED <<planVars, payment, purchase, deposit, call, passes, events, page>>

\* A handler takes the payment it is called for, a worker one that is open.
Reconcile(r, d) ==
    /\ call[r] = NoCall
    /\ payment[d] \notin {"NONE", "COMPLETED"}
    /\ r \in Worker => payment[d] \in OpenPayment
    /\ call' = [call EXCEPT ![r] = [dep |-> d, phase |-> "CHECKING", answer |-> "NONE"]]
    /\ UNCHANGED <<planVars, payment, purchase, deposit, old, passes, events, page>>

InPhase(r, phase) == call[r] # NoCall /\ call[r].phase = phase
Return(r) == call' = [call EXCEPT ![r] = NoCall]

CheckDeposit(r) ==
    /\ InPhase(r, "CHECKING")
    /\ call' = [call EXCEPT ![r].phase = "ANSWERED", ![r].answer = deposit[call[r].dep]]
    /\ UNCHANGED <<planVars, payment, purchase, deposit, old, passes, events, page>>

CallStops(r) ==
    /\ call[r] # NoCall
    /\ Return(r)
    /\ UNCHANGED <<planVars, payment, purchase, deposit, old, passes, events, page>>

\* Unknown to pawaPay: the payment is left as it is; the worker looks at its age.
NotFound(r) ==
    /\ InPhase(r, "ANSWERED") /\ call[r].answer = "NONE"
    /\ IF r \in Worker
         THEN call' = [call EXCEPT ![r].phase = "EXPIRING"]
         ELSE Return(r)
    /\ UNCHANGED <<planVars, payment, purchase, deposit, old, passes, events, page>>

\* Written by primary key, without a look at the row after pawaPay's answer.
WriteUnfinished(r) ==
    /\ InPhase(r, "ANSWERED") /\ call[r].answer = "IN_PROGRESS"
    /\ payment' = [payment EXCEPT ![call[r].dep] = "PROCESSING"]
    /\ IF r \in Worker
         THEN call' = [call EXCEPT ![r].phase = "EXPIRING"]
         ELSE Return(r)
    /\ UNCHANGED <<planVars, purchase, deposit, old, passes, events, page>>

WriteFailed(r) ==
    /\ InPhase(r, "ANSWERED") /\ call[r].answer = "FAILED"
    /\ payment' = [payment EXCEPT ![call[r].dep] = "FAILED"]
    /\ Return(r)
    /\ UNCHANGED <<planVars, purchase, deposit, old, passes, events, page>>

\* event_passes.payment_id is unique.
PassFree(d) == \A i \in 1..Len(passes) : passes[i].deposit # d

\* Under the lock on the organization. A payment that a late PROCESSING reopened
\* already has its pass: the insertion fails and the transaction writes nothing.
GrantPass(r) ==
    LET d == call[r].dep
        granted == payment[d] # "COMPLETED" /\ PassFree(d)
    IN  /\ InPhase(r, "ANSWERED") /\ call[r].answer = "COMPLETED"
        /\ passes' = IF granted
                       THEN Append(passes, [deposit |-> d, status |-> "AVAILABLE",
                                            event |-> 0, expires |-> Never])
                       ELSE passes
        /\ payment' = IF granted THEN [payment EXCEPT ![d] = "COMPLETED"] ELSE payment
        /\ Return(r)
        /\ UNCHANGED <<planVars, purchase, deposit, old, events, page>>

\* The worker, when its reconciliation left an overdue payment open.
ExpireOverdue(r) ==
    LET d == call[r].dep IN
    /\ InPhase(r, "EXPIRING")
    /\ payment' = IF old[d] THEN [payment EXCEPT ![d] = "EXPIRED"] ELSE payment
    /\ Return(r)
    /\ UNCHANGED <<planVars, purchase, deposit, old, passes, events, page>>

-----------------------------------------------------------------------------
(* Time and the plan.                                                      *)

Tick ==
    /\ now < MaxNow
    /\ now' = now + 1
    /\ UNCHANGED <<plan, anchor, buyingVars, passes, events, page>>

\* A payment applied: an upgrade keeps the anchor, a new purchase moves it.
ChangePlan ==
    /\ plan' \in Plan
    /\ anchor' \in {anchor, now}
    /\ UNCHANGED <<now, buyingVars, passes, events, page>>

\* The finance console writes the dates of a contract, whichever they are, and puts it in
\* force at once.
ActivateEnterprise ==
    /\ plan' = High
    /\ anchor' \in 0..MaxNow
    /\ UNCHANGED <<now, buyingVars, passes, events, page>>

\* The contract is in force and begins later.
BeforeContract == anchor > now

\* Before the contract begins, the cycle begins with each request, after every event of
\* before it: in these ticks, with the next.
CycleStart == IF BeforeContract THEN now + 1 ELSE anchor + ((now - anchor) \div Month) * Month

\* The events of the cycle that the plan paid for, deleted ones included.
InCycle == Cardinality({e \in 1..Len(events) :
    /\ events[e].kind = "SUBSCRIPTION"
    /\ events[e].created >= CycleStart})

-----------------------------------------------------------------------------
(* The page that creates an event.                                         *)

Close(p) == page' = [page EXCEPT ![p] = NoPage]

\* It offers the passes that are available when it opens.
OpenNewEvent(p) ==
    /\ page[p].at = "AWAY"
    /\ \E i \in {0} \cup {k \in 1..Len(passes) : passes[k].status = "AVAILABLE"} :
         page' = [page EXCEPT ![p] = [at |-> "NEW", ref |-> i]]
    /\ UNCHANGED <<planVars, buyingVars, passes, events>>

NewEvent(kind) ==
    [kind |-> kind, created |-> now, deleted |-> FALSE,
     expires |-> IF kind = "EVENT_PASS" THEN now + Month ELSE Never]

\* The page leaves for the list, or stays when the answer is lost.
EventCreated(p) == page' = page \/ Close(p)

\* Mutant of PassUsable: whether the pass has served already is not looked at.
PassExists(i) == i \in 1..Len(passes)

PassUsable(i) ==
    /\ i \in 1..Len(passes)
    /\ passes[i].status = "AVAILABLE" /\ passes[i].event = 0

CreateWithPass(p) ==
    LET i == page[p].ref IN
    /\ page[p].at = "NEW" /\ i # 0
    /\ Len(events) < MaxEvents
    /\ PassUsable(i)
    /\ events' = Append(events, NewEvent("EVENT_PASS"))
    /\ passes' = [passes EXCEPT ![i].event = Len(events) + 1, ![i].status = "ASSIGNED",
                                ![i].expires = now + Month]
    /\ EventCreated(p)
    /\ UNCHANGED <<planVars, buyingVars>>

CreateWithPlan(p) ==
    /\ page[p].at = "NEW" /\ page[p].ref = 0
    /\ Len(events) < MaxEvents
    /\ InCycle < EventLimit[plan]
    /\ events' = Append(events, NewEvent("SUBSCRIPTION"))
    /\ EventCreated(p)
    /\ UNCHANGED <<planVars, buyingVars, passes>>

\* Refused, for what the rows hold or for what they do not tell: dates, areas.
CreateRefused(p) ==
    /\ page[p].at = "NEW"
    /\ Close(p)
    /\ UNCHANGED <<planVars, buyingVars, passes, events>>

------------------------------------------------------------------------
\* Deleting twice changes nothing more. The pass of the event stays spent.
DeleteEvent(p) ==
    /\ page[p].at = "AWAY"
    /\ \E e \in 1..Len(events) :
         ~events[e].deleted /\ events' = [events EXCEPT ![e].deleted = TRUE]
    /\ UNCHANGED <<planVars, buyingVars, passes, page>>

-----------------------------------------------------------------------------

BuyPass(d) ==
    \/ InitiatePass(d) \/ DepositReceived(d) \/ InitiateAnswered(d)
    \/ InitiateRejected(d) \/ InitiateUncertain(d)
    \/ DepositEnds(d) \/ DayPasses(d)

Settle(r) ==
    \/ CheckDeposit(r) \/ NotFound(r) \/ WriteUnfinished(r) \/ WriteFailed(r)
    \/ GrantPass(r) \/ ExpireOverdue(r)

Browse(p) ==
    \/ OpenNewEvent(p) \/ CreateWithPass(p) \/ CreateWithPlan(p) \/ CreateRefused(p)
    \/ DeleteEvent(p)

PassesNext ==
    \/ \E d \in Deposit : BuyPass(d)
    \/ \E r \in Caller : CallStops(r) \/ Settle(r) \/ \E d \in Deposit : Reconcile(r, d)
    \/ Tick \/ ChangePlan \/ ActivateEnterprise
    \/ \E p \in Page : Browse(p)

PassesSpec == PassesInit /\ [][PassesNext]_passVars

\* The worker comes back to every open payment, and pawaPay answers it in the end.
Fairness ==
    \A r \in Worker :
      /\ \A d \in Deposit : SF_passVars(Reconcile(r, d))
      /\ WF_passVars(Settle(r))
      /\ SF_passVars(CheckDeposit(r)) /\ SF_passVars(GrantPass(r))

FairSpec == PassesSpec /\ Fairness

-----------------------------------------------------------------------------
(* Properties.                                                             *)

\* Every variable has its type: the rows, the requests under way, the bounds.
PassesTypeOK ==
    /\ now \in 0..MaxNow /\ anchor \in 0..MaxNow /\ plan \in Plan
    /\ \A d \in Deposit :
         /\ payment[d] \in {"NONE", "COMPLETED", "FAILED", "EXPIRED"} \cup OpenPayment
         /\ purchase[d] \in {"NEW", "ASKING", "DONE"}
         /\ deposit[d] \in {"NONE"} \cup Found /\ old[d] \in BOOLEAN
    /\ \A i \in 1..Len(passes) : passes[i].event \in 0..Len(events)
    /\ Len(events) <= MaxEvents
    /\ \A p \in Page : page[p].at \in {"AWAY", "NEW"}

\* A pass was paid for, and a payment gives one pass, however many callbacks,
\* refreshes and background passes reconcile it and whichever late write
\* reopens it.
PassPaidOnce ==
    /\ \A i \in 1..Len(passes) : deposit[passes[i].deposit] = "COMPLETED"
    /\ \A i, j \in 1..Len(passes) : passes[i].deposit = passes[j].deposit => i = j

\* A pass serves one event, an event under a pass has exactly one, and they run
\* out together, also when two pages chose the same pass.
PassServesOneEvent ==
    /\ \A e \in 1..Len(events) :
         Cardinality({i \in 1..Len(passes) : passes[i].event = e})
           = IF events[e].kind = "EVENT_PASS" THEN 1 ELSE 0
    /\ \A i \in 1..Len(passes) : passes[i].event # 0 =>
         passes[i].expires = events[passes[i].event].expires

\* The plan's quota of a cycle counts the events deleted since: an event is created under
\* the plan only while the cycle has room, or while the contract in force is yet to begin.
CreatedWithinQuota ==
    Len(events') > Len(events) /\ events'[Len(events')].kind = "SUBSCRIPTION" =>
      \/ BeforeContract
      \/ Cardinality({e \in 1..Len(events') : /\ events'[e].kind = "SUBSCRIPTION"
                                              /\ events'[e].created >= CycleStart})
           <= EventLimit[plan]

\* Every step does so.
CycleWithinQuota == [][CreatedWithinQuota]_passVars

\* Every event was paid for once, by its own pass or within a cycle of the plan, but for
\* those that are created before the contract begins (getMonthlyCycle, activateEnterprise).
EventsArePaidFor ==
    /\ [](PassesTypeOK /\ PassPaidOnce /\ PassServesOneEvent)
    /\ CycleWithinQuota

\* A paid deposit whose payment is open ends with its pass, or with a payment
\* the worker gave up after a day.
PaidPassIsGranted ==
    \A d \in Deposit :
      (deposit[d] = "COMPLETED" /\ payment[d] \in OpenPayment)
        ~> (\/ \E i \in 1..Len(passes) : passes[i].deposit = d
            \/ payment[d] \in {"FAILED", "EXPIRED"})

-----------------------------------------------------------------------------
(* The inductive invariant behind EventsArePaidFor.                        *)

PassesRowsOK ==
    /\ payment \in [Deposit -> {"NONE", "COMPLETED", "FAILED", "EXPIRED"} \cup OpenPayment]
    /\ purchase \in [Deposit -> {"NEW", "ASKING", "DONE"}]
    /\ deposit \in [Deposit -> {"NONE"} \cup Found] /\ old \in [Deposit -> BOOLEAN]
    /\ call \in [Caller ->
         [dep : Deposit, phase : {"CHECKING", "ANSWERED", "EXPIRING"}, answer : {"NONE"} \cup Found]
           \cup {NoCall}]
    /\ passes \in Seq([deposit : Deposit, status : {"AVAILABLE", "ASSIGNED"},
                       event : Nat, expires : Nat])
    /\ events \in Seq([kind : {"SUBSCRIPTION", "EVENT_PASS"}, created : Nat,
                       deleted : BOOLEAN, expires : Nat])
    /\ page \in [Page -> [at : {"AWAY", "NEW"}, ref : Nat]]

\* What pawaPay has completed stays so: a caller that was told so may come late.
AnswerTruthful(r) ==
    call[r] # NoCall /\ call[r].answer = "COMPLETED" => deposit[call[r].dep] = "COMPLETED"

\* The pass of an event is one, is of an event under a pass, and runs out with it.
PassesAssigned ==
    /\ \A i \in 1..Len(passes) : passes[i].event # 0 =>
         /\ events[passes[i].event].kind = "EVENT_PASS"
         /\ passes[i].expires = events[passes[i].event].expires
    /\ \A i, j \in 1..Len(passes) :
         passes[i].event # 0 /\ passes[i].event = passes[j].event => i = j
    /\ \A e \in 1..Len(events) : events[e].kind = "EVENT_PASS" =>
         \E i \in 1..Len(passes) : passes[i].event = e

PassesIInv ==
    /\ PassesTypeOK /\ PassesRowsOK
    /\ \A r \in Caller : AnswerTruthful(r)
    /\ PassPaidOnce /\ PassesAssigned

=============================================================================
