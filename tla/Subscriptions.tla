---------------------------- MODULE Subscriptions ----------------------------
(***************************************************************************)
(* The plan changes of one organization and their payments:                *)
(* services/payment/{checkout,reconciliation,subscription}.js and the      *)
(* administrator's override. A checkout opens a change on the version of   *)
(* the subscription it finds and asks pawaPay for a deposit; callbacks,    *)
(* the customer's refresh and the background worker reconcile deposits and *)
(* refunds in steps of their own. Most transactions lock the row of the    *)
(* organization and are one step here; FAILED, PROCESSING, EXPIRED and the *)
(* end of a failed refund are written without that lock, by primary key.   *)
(*                                                                         *)
(* A paid change has one payment, so the two share an index; a             *)
(* cancellation has none. Payments of event passes, which open no change,  *)
(* are left out, and so are prices and the lengths of terms.               *)
(***************************************************************************)
EXTENDS Naturals, FiniteSets

CONSTANTS
    Change,     \* the changes the organization asks for
    Handler,    \* HTTP requests that reconcile: callbacks and refreshes
    Worker,     \* background passes of reconcilePendingTransactions
    NoCall,     \* a caller that reconciles nothing
    TrialOffered, \* ENABLE_PRO_TRIAL
    MaxVersion  \* bound: administrators override the plan up to this version

Caller == Handler \cup Worker

OpenPayment == {"PENDING", "PROCESSING"}
Payments == {"NONE", "COMPLETED", "FAILED", "EXPIRED", "REFUND_PENDING",
             "REFUNDED", "REVIEW_REQUIRED"} \cup OpenPayment

OPEN_CHANGE_STATUSES == {"AWAITING_PAYMENT", "SCHEDULED", "REFUND_PENDING"}
Statuses == {"NONE", "APPLIED", "FAILED", "CANCELED", "EXPIRED", "REVIEW_REQUIRED"}
              \cup OPEN_CHANGE_STATUSES

\* The statuses of which the partial unique index allows one per organization.
Indexed == {"AWAITING_PAYMENT", "SCHEDULED"}

OpenRefund == {"PENDING", "PROCESSING"}
Refunds == {"NONE", "COMPLETED", "FAILED"} \cup OpenRefund

\* NOW: purchase, renewal, upgrade. LATER: downgrade, change of interval.
Kinds == {"NOW", "LATER", "CANCEL"}

\* A deposit or a refund at pawaPay, and what pawaPay answers about it.
Found == {"IN_PROGRESS", "COMPLETED", "FAILED"}
Remotes == {"NONE", "SENT", "REJECTED"} \cup Found
Answers == {"NOT_FOUND"} \cup Found

\* A reconciliation under way, of the deposit or of the refund of a change.
Calls == [about   : {"DEPOSIT", "REFUND"},
          phase   : {"CHECKING", "ANSWERED", "FAILING", "EXPIRING"},
          chg     : Change,
          overdue : BOOLEAN,
          answer  : Answers]

ASSUME ConstantsOK ==
    /\ NoCall \notin Calls
    /\ TrialOffered \in BOOLEAN
    /\ MaxVersion \in Nat

VARIABLES
    version,    \* subscriptions.version
    term,       \* whether the organization has a paid plan that runs
    trial,      \* the request that starts the Pro trial, allowed once
    kind,       \* subscription_changes.type
    change,     \* subscription_changes.status
    source,     \* subscription_changes.source_version, 0 without a row
    due,        \* subscription_changes.effective_at is reached
    request,    \* the checkout request of the change
    payment,    \* payments.status
    old,        \* the payment was created more than 24 hours ago
    periods,    \* rows of subscription_periods that came from the change
    refund,     \* refunds.status
    refunding,  \* the request that asked for the refund
    deposit,    \* pawaPay's deposit
    payback,    \* pawaPay's refund
    call,       \* what each caller that reconciles is doing
    withdrawn   \* history: changes cancelled with no refund asked for

planVars == <<version, term, trial>>
rowVars == <<kind, source, due, old>>
requestVars == <<request, refunding>>
remoteVars == <<deposit, payback>>
vars == <<planVars, rowVars, requestVars, remoteVars, change, payment, periods,
          refund, call, withdrawn>>

Init ==
    /\ version = 1
    /\ term = "FREE"
    /\ trial = "UNUSED"
    /\ kind = [c \in Change |-> "NOW"]
    /\ change = [c \in Change |-> "NONE"]
    /\ source = [c \in Change |-> 0]
    /\ due = [c \in Change |-> FALSE]
    /\ request = [c \in Change |-> "NEW"]
    /\ payment = [c \in Change |-> "NONE"]
    /\ old = [c \in Change |-> FALSE]
    /\ periods = [c \in Change |-> 0]
    /\ refund = [c \in Change |-> "NONE"]
    /\ refunding = [c \in Change |-> "NONE"]
    /\ deposit = [c \in Change |-> "NONE"]
    /\ payback = [c \in Change |-> "NONE"]
    /\ call = [r \in Caller |-> NoCall]
    /\ withdrawn = {}

NoOpenChange == \A c \in Change : change[c] \notin OPEN_CHANGE_STATUSES

\* The unique index lets c enter one of the indexed statuses.
IndexFree(c) == \A d \in Change \ {c} : change[d] \notin Indexed

-----------------------------------------------------------------------------
(* Checkout *)

\* The organization is read and the change classified, before any lock.
Quote(c) ==
    /\ request[c] = "NEW"
    /\ request' = [request EXCEPT ![c] = "QUOTED"]
    /\ \E k \in {"NOW", "LATER"} :
          /\ k = "LATER" => term = "PAID"
          /\ kind' = [kind EXCEPT ![c] = k]
    /\ UNCHANGED <<planVars, source, due, old, refunding, remoteVars, change,
                   payment, periods, refund, call, withdrawn>>

\* The transaction of initiatePayment, with the request to pawaPay sent. The
\* version is the one it finds under the lock.
OpenChange(c) ==
    /\ request[c] = "QUOTED"
    /\ NoOpenChange
    /\ change' = [change EXCEPT ![c] = "AWAITING_PAYMENT"]
    /\ source' = [source EXCEPT ![c] = version]
    /\ payment' = [payment EXCEPT ![c] = "PENDING"]
    /\ request' = [request EXCEPT ![c] = "WAITING"]
    /\ deposit' = [deposit EXCEPT ![c] = "SENT"]
    /\ UNCHANGED <<planVars, kind, due, old, refunding, payback, periods, refund,
                   call, withdrawn>>

\* pawaPay's answer is written over whatever the payment has become meanwhile.
InitiateAccepted(c) ==
    /\ request[c] = "WAITING"
    /\ deposit[c] \in Found
    /\ \E s \in OpenPayment : payment' = [payment EXCEPT ![c] = s]
    /\ request' = [request EXCEPT ![c] = "DONE"]
    /\ UNCHANGED <<planVars, rowVars, refunding, remoteVars, change, periods,
                   refund, call, withdrawn>>

\* The payment and its change fail in two writes.
InitiateRejected(c) ==
    /\ request[c] = "WAITING"
    /\ deposit[c] = "REJECTED"
    /\ payment' = [payment EXCEPT ![c] = "FAILED"]
    /\ request' = [request EXCEPT ![c] = "FAILING"]
    /\ UNCHANGED <<planVars, rowVars, refunding, remoteVars, change, periods,
                   refund, call, withdrawn>>

FailRejectedChange(c) ==
    /\ request[c] = "FAILING"
    /\ change' = [change EXCEPT ![c] = "FAILED"]
    /\ request' = [request EXCEPT ![c] = "DONE"]
    /\ UNCHANGED <<planVars, rowVars, refunding, remoteVars, payment, periods,
                   refund, call, withdrawn>>

\* Time-out, error or crash of the request: nothing more is written.
InitiateUncertain(c) ==
    /\ request[c] \in {"WAITING", "FAILING"}
    /\ request' = [request EXCEPT ![c] = "DONE"]
    /\ UNCHANGED <<planVars, rowVars, refunding, remoteVars, change, payment,
                   periods, refund, call, withdrawn>>

-----------------------------------------------------------------------------
(* Changes taking effect *)

\* A row of subscription_periods, and the next version of the subscription.
Grant(c) ==
    /\ periods' = [periods EXCEPT ![c] = @ + 1]
    /\ change' = [change EXCEPT ![c] = "APPLIED"]
    /\ version' = version + 1
    /\ term' = IF kind[c] = "CANCEL" THEN "FREE" ELSE "PAID"
    /\ UNCHANGED trial

\* Mutant of OnItsVersion: the version is not compared.
OnAnyVersion(c) == TRUE

OnItsVersion(c) == version = source[c]

\* applyScheduledChange, which the worker and every billing page run.
ApplyScheduled(c) ==
    /\ change[c] = "SCHEDULED"
    /\ due[c]
    /\ OnItsVersion(c)
    /\ Grant(c)
    /\ UNCHANGED <<rowVars, requestVars, remoteVars, payment, refund, call, withdrawn>>

ReviewScheduled(c) ==
    /\ change[c] = "SCHEDULED"
    /\ due[c]
    /\ ~OnItsVersion(c)
    /\ change' = [change EXCEPT ![c] = "REVIEW_REQUIRED"]
    /\ UNCHANGED <<planVars, rowVars, requestVars, remoteVars, payment, periods,
                   refund, call, withdrawn>>

-----------------------------------------------------------------------------
(* reconcilePayment and reconcileRefund: read, ask, write *)

Begin(r, about, c) ==
    /\ call[r] = NoCall
    /\ call' = [call EXCEPT ![r] = [about   |-> about,
                                    phase   |-> "CHECKING",
                                    chg     |-> c,
                                    overdue |-> about = "DEPOSIT" /\ r \in Worker /\ old[c],
                                    answer  |-> "NOT_FOUND"]]
    /\ UNCHANGED <<planVars, rowVars, requestVars, remoteVars, change, payment,
                   periods, refund, withdrawn>>

\* The worker lists open payments only; one that has moved on before it is read
\* is reconciled as in a callback.
BeginPayment(r, c) ==
    /\ payment[c] \in IF r \in Worker THEN OpenPayment
                      ELSE OpenPayment \cup {"FAILED", "EXPIRED", "REFUND_PENDING"}
    /\ Begin(r, "DEPOSIT", c)

BeginRefund(r, c) ==
    /\ refund[c] \in OpenRefund
    /\ Begin(r, "REFUND", c)

InPhase(r, phase) ==
    /\ call[r] # NoCall
    /\ call[r].phase = phase

Remote(r) == IF call[r].about = "DEPOSIT" THEN deposit[call[r].chg] ELSE payback[call[r].chg]

AskPawaPay(r) ==
    /\ InPhase(r, "CHECKING")
    /\ call' = [call EXCEPT
         ![r].phase = "ANSWERED",
         ![r].answer = IF Remote(r) \in Found THEN Remote(r) ELSE "NOT_FOUND"]
    /\ UNCHANGED <<planVars, rowVars, requestVars, remoteVars, change, payment,
                   periods, refund, withdrawn>>

\* pawaPay cannot be reached, the deposit does not match the payment, a write is
\* refused by an index, or the process stops: nothing more is written.
CallStops(r) ==
    /\ call[r] # NoCall
    /\ call' = [call EXCEPT ![r] = NoCall]
    /\ UNCHANGED <<planVars, rowVars, requestVars, remoteVars, change, payment,
                   periods, refund, withdrawn>>

Answered(r, about, answer) ==
    /\ InPhase(r, "ANSWERED")
    /\ call[r].about = about
    /\ call[r].answer = answer

Return(r) == call' = [call EXCEPT ![r] = NoCall]

\* The worker goes on to expire a payment that is still open after 24 hours.
ReturnOpen(r) ==
    call' = IF call[r].overdue THEN [call EXCEPT ![r].phase = "EXPIRING"]
                               ELSE [call EXCEPT ![r] = NoCall]

WritePayment(r, s) == payment' = [payment EXCEPT ![call[r].chg] = s]
WriteChange(r, s) == change' = [change EXCEPT ![call[r].chg] = s]

PaymentNotFound(r) ==
    /\ Answered(r, "DEPOSIT", "NOT_FOUND")
    /\ ReturnOpen(r)
    /\ UNCHANGED <<planVars, rowVars, requestVars, remoteVars, change, payment,
                   periods, refund, withdrawn>>

PaymentInProgress(r) ==
    /\ Answered(r, "DEPOSIT", "IN_PROGRESS")
    /\ WritePayment(r, "PROCESSING")
    /\ ReturnOpen(r)
    /\ UNCHANGED <<planVars, rowVars, requestVars, remoteVars, change, periods,
                   refund, withdrawn>>

ExpireOverdue(r) ==
    /\ InPhase(r, "EXPIRING")
    /\ WritePayment(r, "EXPIRED")
    /\ WriteChange(r, "EXPIRED")
    /\ Return(r)
    /\ UNCHANGED <<planVars, rowVars, requestVars, remoteVars, periods, refund, withdrawn>>

PaymentFailed(r) ==
    /\ Answered(r, "DEPOSIT", "FAILED")
    /\ WritePayment(r, "FAILED")
    /\ call' = [call EXCEPT ![r].phase = "FAILING"]
    /\ UNCHANGED <<planVars, rowVars, requestVars, remoteVars, change, periods,
                   refund, withdrawn>>

FailChange(r) ==
    /\ InPhase(r, "FAILING")
    /\ WriteChange(r, "FAILED")
    /\ Return(r)
    /\ UNCHANGED <<planVars, rowVars, requestVars, remoteVars, payment, periods,
                   refund, withdrawn>>

\* Mutant of AwaitsPayment: any change that is not settled may be applied.
AwaitsAnything(c) == change[c] \notin {"APPLIED", "CANCELED"}

AwaitsPayment(c) == change[c] = "AWAITING_PAYMENT"

\* The transaction of a completed deposit. Of the payment's status only COMPLETED
\* is looked at again under the lock.
CompleteAgain(r) ==
    /\ Answered(r, "DEPOSIT", "COMPLETED")
    /\ payment[call[r].chg] = "COMPLETED"
    /\ Return(r)
    /\ UNCHANGED <<planVars, rowVars, requestVars, remoteVars, change, payment,
                   periods, refund, withdrawn>>

CompleteForReview(r) ==
    /\ Answered(r, "DEPOSIT", "COMPLETED")
    /\ payment[call[r].chg] # "COMPLETED"
    /\ ~(AwaitsPayment(call[r].chg) /\ OnItsVersion(call[r].chg))
    /\ WritePayment(r, "REVIEW_REQUIRED")
    /\ WriteChange(r, "REVIEW_REQUIRED")
    /\ Return(r)
    /\ UNCHANGED <<planVars, rowVars, requestVars, remoteVars, periods, refund, withdrawn>>

CompleteLater(r) ==
    LET c == call[r].chg IN
    /\ Answered(r, "DEPOSIT", "COMPLETED")
    /\ payment[c] # "COMPLETED"
    /\ AwaitsPayment(c) /\ OnItsVersion(c)
    /\ kind[c] = "LATER" /\ ~due[c]
    /\ WritePayment(r, "COMPLETED")
    /\ WriteChange(r, "SCHEDULED")
    /\ Return(r)
    /\ UNCHANGED <<planVars, rowVars, requestVars, remoteVars, periods, refund, withdrawn>>

CompleteNow(r) ==
    LET c == call[r].chg IN
    /\ Answered(r, "DEPOSIT", "COMPLETED")
    /\ payment[c] # "COMPLETED"
    /\ AwaitsPayment(c) /\ OnItsVersion(c)
    /\ kind[c] = "LATER" => due[c]
    /\ Grant(c)
    /\ WritePayment(r, "COMPLETED")
    /\ Return(r)
    /\ UNCHANGED <<rowVars, requestVars, remoteVars, refund, withdrawn>>

Complete(r) == CompleteAgain(r) \/ CompleteForReview(r) \/ CompleteLater(r) \/ CompleteNow(r)

WriteRefund(r, s) == refund' = [refund EXCEPT ![call[r].chg] = s]

RefundCompleted(r) ==
    /\ Answered(r, "REFUND", "COMPLETED")
    /\ WriteRefund(r, "COMPLETED")
    /\ WritePayment(r, "REFUNDED")
    /\ WriteChange(r, "CANCELED")
    /\ Return(r)
    /\ UNCHANGED <<planVars, rowVars, requestVars, remoteVars, periods, withdrawn>>

\* The change is scheduled again, unless the index refuses it.
RefundFailed(r) ==
    /\ Answered(r, "REFUND", "FAILED")
    /\ IndexFree(call[r].chg)
    /\ WriteRefund(r, "FAILED")
    /\ WritePayment(r, "COMPLETED")
    /\ WriteChange(r, "SCHEDULED")
    /\ Return(r)
    /\ UNCHANGED <<planVars, rowVars, requestVars, remoteVars, periods, withdrawn>>

\* Any other answer, NOT_FOUND included.
RefundUnsettled(r) ==
    /\ Answered(r, "REFUND", "IN_PROGRESS") \/ Answered(r, "REFUND", "NOT_FOUND")
    /\ WriteRefund(r, "PROCESSING")
    /\ Return(r)
    /\ UNCHANGED <<planVars, rowVars, requestVars, remoteVars, change, payment,
                   periods, withdrawn>>

-----------------------------------------------------------------------------
(* Cancelling *)

\* Not renewing: a change to the free plan, due at the end of the term.
RequestCancellation(c) ==
    /\ request[c] = "NEW"
    /\ term = "PAID"
    /\ NoOpenChange
    /\ request' = [request EXCEPT ![c] = "DONE"]
    /\ kind' = [kind EXCEPT ![c] = "CANCEL"]
    /\ change' = [change EXCEPT ![c] = "SCHEDULED"]
    /\ source' = [source EXCEPT ![c] = version]
    /\ UNCHANGED <<planVars, due, old, refunding, remoteVars, payment, periods,
                   refund, call, withdrawn>>

\* cancelOpenChange on a change that is paid and scheduled, with the request to
\* pawaPay sent. A payment has one row in refunds, whatever became of it.
CancelPaidChange(c) ==
    /\ change[c] = "SCHEDULED"
    /\ payment[c] = "COMPLETED"
    /\ refund[c] = "NONE"
    /\ refund' = [refund EXCEPT ![c] = "PENDING"]
    /\ change' = [change EXCEPT ![c] = "REFUND_PENDING"]
    /\ payment' = [payment EXCEPT ![c] = "REFUND_PENDING"]
    /\ refunding' = [refunding EXCEPT ![c] = "WAITING"]
    /\ payback' = [payback EXCEPT ![c] = "SENT"]
    /\ UNCHANGED <<planVars, rowVars, request, deposit, periods, call, withdrawn>>

\* cancelOpenChange on any other change that is open but not being refunded. Which
\* of two open changes is the newest, the one it takes, is left open.
CancelOpenChange(c) ==
    /\ change[c] \in {"AWAITING_PAYMENT", "SCHEDULED"}
    /\ ~(change[c] = "SCHEDULED" /\ payment[c] = "COMPLETED")
    /\ change' = [change EXCEPT ![c] = "CANCELED"]
    /\ withdrawn' = IF refund[c] = "NONE" THEN withdrawn \cup {c} ELSE withdrawn
    /\ UNCHANGED <<planVars, rowVars, requestVars, remoteVars, payment, periods,
                   refund, call>>

\* pawaPay's answer is written over whatever the refund has become meanwhile.
RefundAccepted(c) ==
    /\ refunding[c] = "WAITING"
    /\ payback[c] \in Found
    /\ \E s \in OpenRefund : refund' = [refund EXCEPT ![c] = s]
    /\ refunding' = [refunding EXCEPT ![c] = "NONE"]
    /\ UNCHANGED <<planVars, rowVars, request, remoteVars, change, payment,
                   periods, call, withdrawn>>

\* A rejected refund is written first, its payment and change in a transaction of
\* their own.
RefundRejected(c) ==
    /\ refunding[c] = "WAITING"
    /\ payback[c] = "REJECTED"
    /\ refund' = [refund EXCEPT ![c] = "FAILED"]
    /\ refunding' = [refunding EXCEPT ![c] = "RESTORING"]
    /\ UNCHANGED <<planVars, rowVars, request, remoteVars, change, payment,
                   periods, call, withdrawn>>

RestoreChange(c) ==
    /\ refunding[c] = "RESTORING"
    /\ IndexFree(c)
    /\ change' = [change EXCEPT ![c] = "SCHEDULED"]
    /\ payment' = [payment EXCEPT ![c] = "COMPLETED"]
    /\ refunding' = [refunding EXCEPT ![c] = "NONE"]
    /\ UNCHANGED <<planVars, rowVars, request, remoteVars, periods, refund, call,
                   withdrawn>>

RefundUncertain(c) ==
    /\ refunding[c] # "NONE"
    /\ refunding' = [refunding EXCEPT ![c] = "NONE"]
    /\ UNCHANGED <<planVars, rowVars, request, remoteVars, change, payment,
                   periods, refund, call, withdrawn>>

-----------------------------------------------------------------------------
(* Other ways the plan is replaced *)

changeVars == <<rowVars, requestVars, remoteVars, change, payment, periods,
                refund, call, withdrawn>>

\* startProTrial reads the organization, then the open changes, and only then
\* begins its transaction, which looks at trial_started_at alone.
BeginTrial ==
    /\ TrialOffered
    /\ trial = "UNUSED"
    /\ term = "FREE"
    /\ trial' = "READ"
    /\ UNCHANGED <<version, term, changeVars>>

CheckTrial ==
    /\ trial = "READ"
    /\ NoOpenChange
    /\ trial' = "CHECKED"
    /\ UNCHANGED <<version, term, changeVars>>

ActivateTrial ==
    /\ trial = "CHECKED"
    /\ trial' = "USED"
    /\ version' = version + 1
    /\ term' = "PAID"
    /\ UNCHANGED changeVars

StopTrial ==
    /\ trial \in {"READ", "CHECKED"}
    /\ trial' = "UNUSED"
    /\ UNCHANGED <<version, term, changeVars>>

\* changeSubscription and activateEnterprise of the administrator's console.
OverridePlan ==
    /\ version < MaxVersion
    /\ NoOpenChange
    /\ version' = version + 1
    /\ term' \in {"FREE", "PAID"}
    /\ UNCHANGED <<trial, changeVars>>

-----------------------------------------------------------------------------
(* The environment: pawaPay and time *)

DepositArrives(c) ==
    /\ deposit[c] = "SENT"
    /\ \E s \in {"IN_PROGRESS", "REJECTED"} : deposit' = [deposit EXCEPT ![c] = s]
    /\ UNCHANGED <<planVars, rowVars, requestVars, payback, change, payment,
                   periods, refund, call, withdrawn>>

DepositSettles(c) ==
    /\ deposit[c] = "IN_PROGRESS"
    /\ \E s \in {"COMPLETED", "FAILED"} : deposit' = [deposit EXCEPT ![c] = s]
    /\ UNCHANGED <<planVars, rowVars, requestVars, payback, change, payment,
                   periods, refund, call, withdrawn>>

PaybackArrives(c) ==
    /\ payback[c] = "SENT"
    /\ \E s \in {"IN_PROGRESS", "REJECTED"} : payback' = [payback EXCEPT ![c] = s]
    /\ UNCHANGED <<planVars, rowVars, requestVars, deposit, change, payment,
                   periods, refund, call, withdrawn>>

PaybackSettles(c) ==
    /\ payback[c] = "IN_PROGRESS"
    /\ \E s \in {"COMPLETED", "FAILED"} : payback' = [payback EXCEPT ![c] = s]
    /\ UNCHANGED <<planVars, rowVars, requestVars, deposit, change, payment,
                   periods, refund, call, withdrawn>>

\* Ages and dates are only looked at while the payment or the change is open, so
\* that is when they advance. A request to pawaPay ends long before 24 hours.
GrowOld(c) ==
    /\ ~old[c]
    /\ payment[c] \in OpenPayment
    /\ request[c] = "DONE"
    /\ old' = [old EXCEPT ![c] = TRUE]
    /\ UNCHANGED <<planVars, kind, source, due, requestVars, remoteVars, change,
                   payment, periods, refund, call, withdrawn>>

ReachDate(c) ==
    /\ ~due[c]
    /\ kind[c] # "NOW"
    /\ change[c] \in Indexed
    /\ due' = [due EXCEPT ![c] = TRUE]
    /\ UNCHANGED <<planVars, kind, source, old, requestVars, remoteVars, change,
                   payment, periods, refund, call, withdrawn>>

EndTerm ==
    /\ term = "PAID"
    /\ term' = "FREE"
    /\ UNCHANGED <<version, trial, changeVars>>

-----------------------------------------------------------------------------
Checkout(c) ==
    \/ Quote(c) \/ OpenChange(c)
    \/ InitiateAccepted(c) \/ InitiateRejected(c)
    \/ FailRejectedChange(c) \/ InitiateUncertain(c)

Cancel(c) ==
    \/ RequestCancellation(c) \/ CancelPaidChange(c) \/ CancelOpenChange(c)
    \/ RefundAccepted(c) \/ RefundRejected(c) \/ RestoreChange(c) \/ RefundUncertain(c)

Schedule(c) == ApplyScheduled(c) \/ ReviewScheduled(c)

Environment(c) ==
    \/ DepositArrives(c) \/ DepositSettles(c)
    \/ PaybackArrives(c) \/ PaybackSettles(c)
    \/ GrowOld(c) \/ ReachDate(c)

Reconcile(r) ==
    \/ \E c \in Change : BeginPayment(r, c) \/ BeginRefund(r, c)
    \/ AskPawaPay(r) \/ CallStops(r)
    \/ PaymentNotFound(r) \/ PaymentInProgress(r) \/ ExpireOverdue(r)
    \/ PaymentFailed(r) \/ FailChange(r) \/ Complete(r)
    \/ RefundCompleted(r) \/ RefundFailed(r) \/ RefundUnsettled(r)

PlanReplaced == BeginTrial \/ CheckTrial \/ ActivateTrial \/ StopTrial \/ OverridePlan

Next ==
    \/ \E c \in Change : Checkout(c) \/ Cancel(c) \/ Schedule(c) \/ Environment(c)
    \/ \E r \in Caller : Reconcile(r)
    \/ PlanReplaced
    \/ EndTerm

Spec == Init /\ [][Next]_vars

-----------------------------------------------------------------------------
(* Properties *)

TypeOK ==
    /\ version \in Nat \ {0}
    /\ term \in {"FREE", "PAID"}
    /\ trial \in {"UNUSED", "READ", "CHECKED", "USED"}
    /\ kind \in [Change -> Kinds]
    /\ change \in [Change -> Statuses]
    /\ source \in [Change -> Nat]
    /\ due \in [Change -> BOOLEAN]
    /\ request \in [Change -> {"NEW", "QUOTED", "WAITING", "FAILING", "DONE"}]
    /\ payment \in [Change -> Payments]
    /\ old \in [Change -> BOOLEAN]
    /\ periods \in [Change -> Nat]
    /\ refund \in [Change -> Refunds]
    /\ refunding \in [Change -> {"NONE", "WAITING", "RESTORING"}]
    /\ deposit \in [Change -> Remotes]
    /\ payback \in [Change -> Remotes]
    /\ call \in [Caller -> Calls \cup {NoCall}]
    /\ withdrawn \subseteq Change

\* A change whose price pawaPay has given back never took effect and is not about
\* to: no stale answer about its deposit or its refund puts it in force.
RefundedNotGranted ==
    \A c \in Change : payback[c] = "COMPLETED"
        => periods[c] = 0 /\ change[c] \notin {"AWAITING_PAYMENT", "SCHEDULED", "APPLIED"}

\* The parts of the inductive invariant. A period was granted on an earlier
\* version than the present one, so the version test refuses a second.
GrantedBefore(c) ==
    /\ source[c] <= version
    /\ periods[c] <= 1
    /\ periods[c] = 1 => source[c] < version
    /\ change[c] = "APPLIED" => periods[c] = 1
    /\ source[c] = 0 => /\ change[c] = "NONE" /\ payment[c] = "NONE"
                       /\ deposit[c] = "NONE" /\ periods[c] = 0
                       /\ request[c] \in {"NEW", "QUOTED"}
    /\ request[c] \in {"NEW", "QUOTED"} => source[c] = 0

\* What may take effect is free or paid.
Funded(c) ==
    /\ kind[c] = "CANCEL" => /\ payment[c] = "NONE" /\ refund[c] = "NONE"
                            /\ source[c] # 0 /\ request[c] = "DONE"
    /\ change[c] = "AWAITING_PAYMENT" => kind[c] # "CANCEL"
    /\ change[c] = "SCHEDULED" /\ kind[c] # "CANCEL" => deposit[c] = "COMPLETED"
    /\ periods[c] > 0 /\ kind[c] # "CANCEL" => deposit[c] = "COMPLETED"

\* A refund asked for keeps its change out of force, until pawaPay says it failed.
Refundable(c) ==
    /\ refund[c] = "NONE" => payback[c] = "NONE" /\ refunding[c] = "NONE"
    /\ refund[c] = "NONE" /\ change[c] \in Indexed => periods[c] = 0
    /\ refund[c] # "NONE" => /\ payback[c] # "NONE" /\ payment[c] # "NONE"
                            /\ deposit[c] = "COMPLETED"
    /\ payback[c] \in {"SENT", "IN_PROGRESS", "COMPLETED"}
         => periods[c] = 0 /\ change[c] \notin Indexed
    /\ refunding[c] = "RESTORING" => payback[c] = "REJECTED"

\* A change withdrawn without a refund cannot be scheduled again.
WithdrawnStays(c) ==
    c \in withdrawn => refund[c] = "NONE" /\ change[c] \notin Indexed \cup {"NONE", "APPLIED"}

\* What a caller was told stays true: deposits and refunds only move forward.
CallTruthful(r) ==
    LET k == call[r] IN
    k # NoCall =>
        /\ payment[k.chg] # "NONE"
        /\ k.phase = "FAILING" => k.about = "DEPOSIT" /\ deposit[k.chg] = "FAILED"
        /\ k.phase = "EXPIRING" => k.about = "DEPOSIT"
        /\ k.about = "DEPOSIT" /\ k.answer \in {"COMPLETED", "FAILED"}
             => deposit[k.chg] = k.answer
        /\ k.about = "REFUND" => refund[k.chg] # "NONE"
        /\ k.about = "REFUND" /\ k.answer \in {"COMPLETED", "FAILED"}
             => payback[k.chg] = k.answer

RowConsistent(c) == GrantedBefore(c) /\ Funded(c) /\ Refundable(c) /\ WithdrawnStays(c)

IInv ==
    /\ TypeOK
    /\ \A c \in Change : RowConsistent(c)
    /\ \A r \in Caller : CallTruthful(r)

\* The plan changes implement what Plans promises of them.
Contract == INSTANCE Plans WITH
    base <- source,
    free <- {c \in Change : kind[c] = "CANCEL"},
    paid <- {c \in Change : deposit[c] = "COMPLETED"},
    granted <- periods,
    returned <- {c \in Change : payback[c] = "COMPLETED"}

PlansSpec == Contract!Spec

=============================================================================
