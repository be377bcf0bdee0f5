--------------------------- MODULE TicketPayments ---------------------------
(***************************************************************************)
(* Paid tickets: services/ticket_payment.service.js, for the payments of   *)
(* one offer. A checkout reserves a place for a limited time and asks      *)
(* pawaPay for a deposit. Callbacks, the buyer's polling page and the      *)
(* background worker each run reconcile, which reads the payment, asks     *)
(* pawaPay for the deposit and then writes what it was told: three steps   *)
(* that other requests interleave with. Only fulfil locks and re-reads the *)
(* payment; every other write of reconcile is an unconditional update.     *)
(*                                                                         *)
(* The two counters of the database that matter are its unique indexes:    *)
(* one registration per (form, submission key) and one TICKET_SALE entry   *)
(* per payment. An offer without a capacity is one whose Capacity is the   *)
(* number of payments. A repeated checkout request with the same           *)
(* Idempotency-Key finds the existing row and changes nothing, so a        *)
(* payment stands for one key.                                             *)
(***************************************************************************)
EXTENDS Naturals, FiniteSets

CONSTANTS
    Payment,    \* the ticket payments of the offer, one per Idempotency-Key
    Capacity,   \* the places of the offer
    Handler,    \* HTTP requests that may run reconcile: callbacks and polling
    Worker,     \* background passes of reconcilePending
    NoCall      \* a caller that runs no reconciliation

Caller == Handler \cup Worker

OpenStatuses == {"PENDING", "PROCESSING"}

\* REFUND_PENDING is not one of them.
FinalStatuses == {"COMPLETED", "FAILED", "EXPIRED", "REFUNDED", "REVIEW_REQUIRED"}

Statuses == {"NO_ROW", "REFUND_PENDING"} \cup OpenStatuses \cup FinalStatuses

(***************************************************************************)
(* The age of a payment, in the only steps the code tells apart: up to     *)
(* NOT_FOUND_GRACE_MS (5 min), up to the end of its hold (at least 5 min), *)
(* up to the worker's 24 hours, and beyond.                                *)
(***************************************************************************)
Fresh == 0
PastGrace == 1
HoldLapsed == 2
Overdue == 3
Ages == Fresh .. Overdue

\* What pawaPay has of the deposit.
DepositStates == {"NONE", "SENT", "IN_PROGRESS", "COMPLETED", "FAILED", "REJECTED"}

\* The deposits pawaPay has accepted: checkDeposit finds no other.
Found == {"IN_PROGRESS", "COMPLETED", "FAILED"}

\* What checkDeposit is told, after unwrapDepositStatus and the comparison of
\* the deposit with the payment.
Answers == {"NOT_FOUND", "MISMATCH", "IN_PROGRESS", "COMPLETED", "FAILED"}

\* A reconciliation under way. "graced" and "overdue" compare the payment's age
\* with the time "now" taken when the call began; only the worker expires.
Calls == [phase   : {"CHECKING", "ANSWERED", "EXPIRING"},
          pay     : Payment,
          graced  : BOOLEAN,
          overdue : BOOLEAN,
          answer  : Answers]

ASSUME ConstantsOK ==
    /\ IsFiniteSet(Payment)
    /\ Capacity \in Nat
    /\ NoCall \notin Calls

VARIABLES
    status,     \* ticket_payments.status
    age,        \* how long ago the payment was created
    initiating, \* the checkout request still waits for pawaPay
    tickets,    \* registrations created for the payment
    held,       \* registrations.capacity_held
    sales,      \* TICKET_SALE entries of the organizer's ledger
    refund,     \* the payment has a row in ticket_refunds
    deposit,    \* pawaPay's deposit
    matches,    \* pawaPay's deposit has the payment's amount, currency and payer
    usable,     \* the offer's card template is published and allowed by the plan
    call        \* what each caller of reconcile is doing

vars == <<status, age, initiating, tickets, held, sales, refund,
          deposit, matches, usable, call>>

rowVars == <<age, initiating>>
ticketVars == <<tickets, held, sales>>
remoteVars == <<deposit, matches, usable>>

Init ==
    /\ status = [p \in Payment |-> "NO_ROW"]
    /\ age = [p \in Payment |-> Fresh]
    /\ initiating = [p \in Payment |-> FALSE]
    /\ tickets = [p \in Payment |-> 0]
    /\ held = [p \in Payment |-> FALSE]
    /\ sales = [p \in Payment |-> 0]
    /\ refund = [p \in Payment |-> FALSE]
    /\ deposit = [p \in Payment |-> "NONE"]
    /\ matches = [p \in Payment |-> TRUE]
    /\ usable = TRUE
    /\ call = [r \in Caller |-> NoCall]

-----------------------------------------------------------------------------
(* Places *)

HeldRegistrations == {p \in Payment : held[p]}

OpenHolds == {p \in Payment : /\ status[p] \in OpenStatuses
                              /\ tickets[p] = 0
                              /\ age[p] < HoldLapsed}

\* A payment that has its registration is not an open hold, so the two counts
\* the code adds are counts of disjoint sets.
HeldPlaces == Cardinality(HeldRegistrations \cup OpenHolds)

SoldOut == HeldPlaces >= Capacity

-----------------------------------------------------------------------------
(* Checkout *)

\* The serializable transaction of initiate, with the request to pawaPay sent.
\* A form, organization or offer that is closed, or a price that has changed,
\* refuses the checkout and changes nothing: Reserve never has to happen.
Reserve(p) ==
    /\ status[p] = "NO_ROW"
    /\ ~SoldOut
    /\ status' = [status EXCEPT ![p] = "PENDING"]
    /\ initiating' = [initiating EXCEPT ![p] = TRUE]
    /\ deposit' = [deposit EXCEPT ![p] = "SENT"]
    /\ UNCHANGED <<age, ticketVars, refund, matches, usable, call>>

\* pawaPay's answer to the deposit request is written over whatever the status
\* has become meanwhile.
InitiateAccepted(p) ==
    /\ initiating[p]
    /\ deposit[p] \in Found
    /\ \E s \in OpenStatuses : status' = [status EXCEPT ![p] = s]
    /\ initiating' = [initiating EXCEPT ![p] = FALSE]
    /\ UNCHANGED <<age, ticketVars, refund, remoteVars, call>>

InitiateRejected(p) ==
    /\ initiating[p]
    /\ deposit[p] = "REJECTED"
    /\ status' = [status EXCEPT ![p] = "FAILED"]
    /\ initiating' = [initiating EXCEPT ![p] = FALSE]
    /\ UNCHANGED <<age, ticketVars, refund, remoteVars, call>>

\* Time-out, error or crash of the checkout request: the payment stays open.
InitiateUncertain(p) ==
    /\ initiating[p]
    /\ initiating' = [initiating EXCEPT ![p] = FALSE]
    /\ UNCHANGED <<status, age, ticketVars, refund, remoteVars, call>>

-----------------------------------------------------------------------------
(* reconcile: read, ask, write *)

\* A mutant of BeginReconcile: the worker leaves out the payments in progress.
BeginReconcilePending(r, p) ==
    /\ call[r] = NoCall
    /\ status[p] = "PENDING"
    /\ call' = [call EXCEPT ![r] = [phase   |-> "CHECKING",
                                    pay     |-> p,
                                    graced  |-> age[p] >= PastGrace,
                                    overdue |-> r \in Worker /\ age[p] = Overdue,
                                    answer  |-> "NOT_FOUND"]]
    /\ UNCHANGED <<status, rowVars, ticketVars, refund, remoteVars>>

\* A payment that is not final is read. The worker lists open payments only; a
\* listed payment that has moved on by the time it is read is like a callback.
BeginReconcile(r, p) ==
    /\ call[r] = NoCall
    /\ status[p] \in IF r \in Worker THEN OpenStatuses
                                     ELSE Statuses \ ({"NO_ROW"} \cup FinalStatuses)
    /\ call' = [call EXCEPT ![r] = [phase   |-> "CHECKING",
                                    pay     |-> p,
                                    graced  |-> age[p] >= PastGrace,
                                    overdue |-> r \in Worker /\ age[p] = Overdue,
                                    answer  |-> "NOT_FOUND"]]
    /\ UNCHANGED <<status, rowVars, ticketVars, refund, remoteVars>>

\* Mutant of RemoteAnswer: the amounts are not compared.
AnswerWithAnyAmount(p) == IF deposit[p] \in Found THEN deposit[p] ELSE "NOT_FOUND"

\* What checkDeposit answers about the deposit of p.
RemoteAnswer(p) ==
    CASE deposit[p] \notin Found -> "NOT_FOUND"
      [] deposit[p] \in Found /\ ~matches[p] -> "MISMATCH"
      [] deposit[p] \in Found /\ matches[p] -> deposit[p]

\* pawaPay has the money, but snapshotOffer, which fulfil calls before its
\* transaction, throws: the call ends there, and the worker's catch leaps over the
\* 24-hour expiry. A completed deposit stays completed, so the answer and the
\* snapshot are taken at one moment, that of the snapshot.
SnapshotThrows(r) ==
    /\ call[r] # NoCall
    /\ call[r].phase = "CHECKING"
    /\ RemoteAnswer(call[r].pay) = "COMPLETED"
    /\ ~usable
    /\ call' = [call EXCEPT ![r] = NoCall]
    /\ UNCHANGED <<status, rowVars, ticketVars, refund, remoteVars>>

CheckDeposit(r) ==
    /\ call[r] # NoCall
    /\ call[r].phase = "CHECKING"
    /\ RemoteAnswer(call[r].pay) = "COMPLETED" => usable
    /\ call' = [call EXCEPT ![r].phase = "ANSWERED",
                            ![r].answer = RemoteAnswer(call[r].pay)]
    /\ UNCHANGED <<status, rowVars, ticketVars, refund, remoteVars>>

\* An exception on the way (pawaPay unreachable, third serialization failure) or a
\* crash: nothing more is written.
CallFails(r) ==
    /\ call[r] # NoCall
    /\ call' = [call EXCEPT ![r] = NoCall]
    /\ UNCHANGED <<status, rowVars, ticketVars, refund, remoteVars>>

Answered(r, a) ==
    /\ call[r] # NoCall
    /\ call[r].phase = "ANSWERED"
    /\ call[r].answer = a

\* reconcile returns; it has set the status of its payment, and nothing else.
ReturnWith(r, s) ==
    /\ status' = [status EXCEPT ![call[r].pay] = s]
    /\ call' = [call EXCEPT ![r] = NoCall]
    /\ UNCHANGED <<rowVars, ticketVars, refund, remoteVars>>

ReturnUnchanged(r) ==
    /\ call' = [call EXCEPT ![r] = NoCall]
    /\ UNCHANGED <<status, rowVars, ticketVars, refund, remoteVars>>

ApplyNotFound(r) ==
    /\ Answered(r, "NOT_FOUND")
    /\ IF call[r].graced THEN ReturnWith(r, "FAILED") ELSE ReturnUnchanged(r)

ApplyMismatch(r) ==
    /\ Answered(r, "MISMATCH")
    /\ ReturnWith(r, "REVIEW_REQUIRED")

ApplyFailed(r) ==
    /\ Answered(r, "FAILED")
    /\ ReturnWith(r, "FAILED")

\* Any other status. The worker then expires a payment it listed as overdue.
ApplyInProgress(r) ==
    /\ Answered(r, "IN_PROGRESS")
    /\ status' = [status EXCEPT ![call[r].pay] = "PROCESSING"]
    /\ call' = IF call[r].overdue
                 THEN [call EXCEPT ![r].phase = "EXPIRING"]
                 ELSE [call EXCEPT ![r] = NoCall]
    /\ UNCHANGED <<rowVars, ticketVars, refund, remoteVars>>

ExpireOverdue(r) ==
    /\ call[r] # NoCall
    /\ call[r].phase = "EXPIRING"
    /\ ReturnWith(r, "EXPIRED")

-----------------------------------------------------------------------------
(* fulfil: one serializable transaction that locks the payment and the offer *)

\* Mutants: there is no unique index, and the capacity is not looked at again.
NoUniqueIndex(p) == FALSE
NeverSoldOutAfterHold(p) == FALSE

\* The unique index on (form, submission key).
RegistrationExists(p) == tickets[p] > 0

\* No place is left for a payment whose hold is over.
SoldOutAfterHold(p) == age[p] >= HoldLapsed /\ SoldOut

FulfilFinal(r) ==
    /\ Answered(r, "COMPLETED")
    /\ status[call[r].pay] \in FinalStatuses
    /\ ReturnUnchanged(r)

FulfilSoldOut(r) ==
    /\ Answered(r, "COMPLETED")
    /\ status[call[r].pay] \notin FinalStatuses
    /\ SoldOutAfterHold(call[r].pay)
    /\ ReturnWith(r, "REVIEW_REQUIRED")

\* The insertion violates the unique index: the transaction is rolled back and
\* reconcile throws.
FulfilDuplicate(r) ==
    /\ Answered(r, "COMPLETED")
    /\ status[call[r].pay] \notin FinalStatuses
    /\ ~SoldOutAfterHold(call[r].pay)
    /\ RegistrationExists(call[r].pay)
    /\ ReturnUnchanged(r)

FulfilIssues(r) ==
    LET p == call[r].pay IN
    /\ Answered(r, "COMPLETED")
    /\ status[p] \notin FinalStatuses
    /\ ~SoldOutAfterHold(p)
    /\ ~RegistrationExists(p)
    /\ tickets' = [tickets EXCEPT ![p] = @ + 1]
    /\ held' = [held EXCEPT ![p] = TRUE]
    /\ sales' = [sales EXCEPT ![p] = @ + 1]
    /\ status' = [status EXCEPT ![p] = "COMPLETED"]
    /\ call' = [call EXCEPT ![r] = NoCall]
    /\ UNCHANGED <<rowVars, refund, remoteVars>>

Fulfil(r) == FulfilFinal(r) \/ FulfilSoldOut(r) \/ FulfilDuplicate(r) \/ FulfilIssues(r)

-----------------------------------------------------------------------------
(* The registration of a sold ticket: the worker that cannot issue its pass
   gives the place back, and an administrator may retry the issuance. *)

ReleaseFailedRegistration(p) ==
    /\ RegistrationExists(p)
    /\ held[p]
    /\ held' = [held EXCEPT ![p] = FALSE]
    /\ UNCHANGED <<status, rowVars, tickets, sales, refund, remoteVars, call>>

ReacquireCapacity(p) ==
    /\ RegistrationExists(p)
    /\ ~held[p]
    /\ ~SoldOut
    /\ held' = [held EXCEPT ![p] = TRUE]
    /\ UNCHANGED <<status, rowVars, tickets, sales, refund, remoteVars, call>>

-----------------------------------------------------------------------------
(* Refunds, as far as they write the payment *)

\* The administrator's request, from the finance console. A refund row that
\* exists is reset.
RefundTicketPayment(p) ==
    /\ status[p] = "REVIEW_REQUIRED"
    /\ status' = [status EXCEPT ![p] = "REFUND_PENDING"]
    /\ refund' = [refund EXCEPT ![p] = TRUE]
    /\ UNCHANGED <<rowVars, ticketVars, remoteVars, call>>

\* The refund's row is claimed if it is open; then the payment is written whatever
\* its status is. A submission or a check that was under way may have opened again
\* a row that had ended, so a row that exists is one that may be open.
RefundCompleted(p) ==
    /\ refund[p]
    /\ status' = [status EXCEPT ![p] = "REFUNDED"]
    /\ UNCHANGED <<rowVars, ticketVars, refund, remoteVars, call>>

RefundFailed(p) ==
    /\ refund[p]
    /\ status' = [status EXCEPT ![p] = "REVIEW_REQUIRED"]
    /\ UNCHANGED <<rowVars, ticketVars, refund, remoteVars, call>>

-----------------------------------------------------------------------------
(* The environment: pawaPay and time *)

\* A request reaches pawaPay within the grace period or never does. The code
\* never looks at the outcome of a deposit that does not match its payment: it is
\* the worst one from the start, money taken.
DepositArrives(p) ==
    /\ deposit[p] = "SENT"
    /\ age[p] = Fresh
    /\ \/ /\ deposit' = [deposit EXCEPT ![p] = "IN_PROGRESS"]
          /\ UNCHANGED matches
       \/ /\ deposit' = [deposit EXCEPT ![p] = "COMPLETED"]
          /\ matches' = [matches EXCEPT ![p] = FALSE]
       \/ /\ deposit' = [deposit EXCEPT ![p] = "REJECTED"]
          /\ UNCHANGED matches
    /\ UNCHANGED <<status, rowVars, ticketVars, refund, usable, call>>

\* The payer confirms, refuses or lets the request end at the operator.
DepositSettles(p) ==
    /\ deposit[p] = "IN_PROGRESS"
    /\ \E d \in {"COMPLETED", "FAILED"} : deposit' = [deposit EXCEPT ![p] = d]
    /\ UNCHANGED <<status, rowVars, ticketVars, refund, matches, usable, call>>

\* The client's 15 s time-out ends a checkout request before it is 5 min old.
TimePasses(p) ==
    /\ status[p] # "NO_ROW"
    /\ ~initiating[p]
    /\ age[p] < Overdue
    /\ age' = [age EXCEPT ![p] = @ + 1]
    /\ UNCHANGED <<status, initiating, ticketVars, refund, remoteVars, call>>

\* The template of the offer is archived, deleted or published again, or the plan
\* loses or regains custom templates, at any time (CardTemplates, Subscriptions).
TemplateChanges ==
    /\ usable' = ~usable
    /\ UNCHANGED <<status, rowVars, ticketVars, refund, deposit, matches, call>>

-----------------------------------------------------------------------------
Checkout(p) == Reserve(p) \/ InitiateAccepted(p) \/ InitiateRejected(p)
                          \/ InitiateUncertain(p)

Apply(r) == \/ ApplyNotFound(r) \/ ApplyMismatch(r) \/ ApplyFailed(r)
            \/ ApplyInProgress(r) \/ ExpireOverdue(r) \/ Fulfil(r)

Reconcile(r) == \/ \E p \in Payment : BeginReconcile(r, p)
                \/ CheckDeposit(r) \/ SnapshotThrows(r) \/ Apply(r) \/ CallFails(r)

Registration(p) == ReleaseFailedRegistration(p) \/ ReacquireCapacity(p)

Refund(p) == RefundTicketPayment(p) \/ RefundCompleted(p) \/ RefundFailed(p)

Environment(p) == DepositArrives(p) \/ DepositSettles(p) \/ TimePasses(p)

Next == \/ \E p \in Payment : Checkout(p) \/ Registration(p) \/ Refund(p) \/ Environment(p)
        \/ \E r \in Caller : Reconcile(r)
        \/ TemplateChanges

Spec == Init /\ [][Next]_vars

(***************************************************************************)
(* The worker lists the open payments every minute, oldest first, up to 50 *)
(* of them: a payment is reached as long as fewer than 50 older ones stay  *)
(* open. pawaPay, the database and the process do not fail a payment's     *)
(* every pass. Nothing is assumed of the template: a snapshot that throws  *)
(* is an outcome of the check like any other.                              *)
(***************************************************************************)
Fairness ==
    \A w \in Worker, p \in Payment :
        /\ SF_vars(BeginReconcile(w, p))
        /\ SF_vars((CheckDeposit(w) \/ SnapshotThrows(w)) /\ call[w].pay = p)
        /\ SF_vars(Apply(w) /\ call[w].pay = p)

FairSpec == Spec /\ Fairness

-----------------------------------------------------------------------------
(* Properties *)

\* The rows and calls are well formed (fields written by initiate, reconcile,
\* fulfil, registration.worker and the finance console).
TypeOK ==
    /\ status \in [Payment -> Statuses]
    /\ age \in [Payment -> Ages]
    /\ initiating \in [Payment -> BOOLEAN]
    /\ tickets \in [Payment -> Nat]
    /\ held \in [Payment -> BOOLEAN]
    /\ sales \in [Payment -> Nat]
    /\ refund \in [Payment -> BOOLEAN]
    /\ deposit \in [Payment -> DepositStates]
    /\ matches \in [Payment -> BOOLEAN]
    /\ usable \in BOOLEAN
    /\ call \in [Caller -> Calls \cup {NoCall}]

\* pawaPay holds the money of the purchase, for the price asked.
Paid(p) == deposit[p] = "COMPLETED" /\ matches[p]

\* A ticket and the organizer's credit exist only for a deposit pawaPay has
\* confirmed with the right amount: neither a callback, nor a stale answer, nor
\* a tampered deposit issues one (fulfil, reconcile).
TicketOnlyIfPaid ==
    \A p \in Payment : tickets[p] > 0 \/ sales[p] > 0 => Paid(p)

\* The tickets that hold a place never exceed the capacity, whatever the order
\* of checkouts, late confirmations, released places and overwritten statuses
\* (heldPlaces, reserve, fulfil, reacquireCapacityAndEnqueue).
NeverOversold == Cardinality(HeldRegistrations) <= Capacity

\* The sale of tickets behaves as TicketSales: money first, one ticket and one
\* credit per purchase, a place for every ticket seated.
Sales == INSTANCE TicketSales WITH
            paid    <- {p \in Payment : Paid(p)},
            sold    <- {p \in Payment : tickets[p] = 1},
            seated  <- HeldRegistrations,
            credits <- sales
SalesSpec == Sales!Spec

\* Once the offer's card template stays usable, a buyer whose deposit is confirmed
\* is served in the end, with a ticket, a manual review and its refund, or the
\* 24-hour expiry (reconcilePending, fulfil). While the template stays unusable the
\* payment stays open for ever: every pass throws before the expiry.
PaidIsServed ==
    <>[]usable =>
        \A p \in Payment :
            Paid(p) ~> \/ tickets[p] = 1
                       \/ status[p] \in {"EXPIRED", "REVIEW_REQUIRED", "REFUND_PENDING", "REFUNDED"}

-----------------------------------------------------------------------------
(* The inductive invariant behind TicketOnlyIfPaid, NeverOversold and SalesSpec *)

\* What a caller remembers of pawaPay stays true of the deposit while it waits to
\* write: an answer is late, never wrong.
CallTruthful(r) ==
    LET c == call[r]
        p == c.pay
    IN  call[r] # NoCall =>
          /\ c.graced => age[p] >= PastGrace
          /\ c.overdue => age[p] = Overdue
          /\ c.phase = "EXPIRING" => c.overdue
          /\ c.phase = "ANSWERED" =>
               /\ c.answer = "NOT_FOUND" /\ c.graced =>
                      deposit[p] \in {"NONE", "SENT", "REJECTED"}
               /\ c.answer = "MISMATCH" => ~matches[p]
               /\ c.answer = "FAILED" => deposit[p] = "FAILED"
               /\ c.answer = "COMPLETED" => Paid(p)

RowConsistent(p) ==
    /\ status[p] = "NO_ROW" => deposit[p] = "NONE" /\ ~refund[p]
    /\ ~matches[p] => deposit[p] = "COMPLETED"
    /\ tickets[p] \in {0, 1}
    /\ sales[p] = tickets[p]
    /\ tickets[p] > 0 => Paid(p)
    /\ held[p] => tickets[p] > 0

\* The hold of p runs and its deposit may still complete: p may claim its ticket
\* without looking at the capacity again.
Live(p) ==
    /\ tickets[p] = 0
    /\ matches[p]
    /\ age[p] < HoldLapsed
    /\ \/ deposit[p] \in {"IN_PROGRESS", "COMPLETED"}
       \/ deposit[p] = "SENT" /\ age[p] = Fresh

LivePayments == {p \in Payment : Live(p)}

\* No stale write closes a live payment, so its place stays counted.
LiveIsOpen(p) ==
    Live(p) => status[p] \in OpenStatuses /\ ~refund[p]

\* Seated tickets and live holds fit in the offer. Open holds may not: a failed
\* payment that a late write reopens is counted again and can exceed it.
PlacesSuffice == Cardinality(HeldRegistrations \cup LivePayments) <= Capacity

IInv ==
    /\ TypeOK
    /\ \A r \in Caller : CallTruthful(r)
    /\ \A p \in Payment : RowConsistent(p) /\ LiveIsOpen(p)
    /\ PlacesSuffice

=============================================================================
