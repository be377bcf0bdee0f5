---------------------------- MODULE TicketRefunds ----------------------------
(***************************************************************************)
(* The refund of a ticket's payment to its payer: the finance console and  *)
(* organizer_payout.service.js, for one payment whose deposit pawaPay has  *)
(* accepted. It has one row in ticket_refunds, which every request of the  *)
(* console makes new, under another identifier at pawaPay. Passes of the   *)
(* worker and callbacks send what the row asks and check what was sent,    *)
(* each a read or a claim, a call to pawaPay and a write, with others in   *)
(* between; the writes claim the row by its key, whatever identifier it    *)
(* has by then. The deposit is still checked meanwhile, by callbacks that  *)
(* pawaPay repeats and checks begun earlier, and REFUND_PENDING is open to *)
(* them: what they write crosses the refund (ticket_payment.service.js).   *)
(* The places of the offer are in TicketPayments: here a payment may find  *)
(* the offer sold out, or not. A deposit that fails is never reviewed.     *)
(***************************************************************************)
EXTENDS FiniteSets

CONSTANTS
    Attempt,    \* identifiers at pawaPay, a new one for each request of the console
    NoAttempt,
    Runner,     \* passes of the worker that overlap, callbacks, polls, a checkout
    NoRun       \* a runner that has nothing in hand

OpenRefund == {"PENDING", "PROCESSING"}

\* The refunds that pawaPay has accepted: checkRefund finds no other.
Accepted == {"IN_PROGRESS", "COMPLETED", "FAILED"}

\* FINAL_STATUSES that this payment can have.
FinalDue == {"COMPLETED", "EXPIRED", "REFUNDED", "REVIEW_REQUIRED"}

\* What checkDeposit tells of the deposit, which may not be what the payment asked.
Deposits == {"IN_PROGRESS", "COMPLETED", "MISMATCH"}

\* A refund that was listed, or claimed and sent; and one that is checked, with its
\* status when it was read; a deposit of which pawaPay has answered, and a payment
\* that the worker is about to expire.
Runs ==
    [op : {"LISTED"}, id : Attempt]
    \cup [op : {"SEND"}, id : Attempt, answer : {"WAITING", "ACCEPTED", "REJECTED"}]
    \cup [op : {"CHECK"}, id : Attempt, seen : OpenRefund, stale : BOOLEAN,
          answer : {"WAITING", "NOT_FOUND"} \cup Accepted]
    \cup [op : {"DEPOSIT"}, answer : Deposits]
    \cup [op : {"EXPIRE"}]

ASSUME RefundConstantsOK == NoAttempt \notin Attempt /\ NoRun \notin Runs

VARIABLES
    due,        \* ticket_payments.status, PENDING and PROCESSING taken together
    ticket,     \* the payment has its registration
    told,       \* what checkDeposit tells of the deposit
    row,        \* ticket_refunds: provider_refund_id, status, submitted_at
    pawa,       \* pawaPay's refund under each identifier
    run,        \* what each runner has in hand
    late        \* history: the writes that crossed a refund, of the kinds in Late

\* CROSSED: the failure of an attempt, over a later one. REVIEWED, TICKETED: a check of
\* the deposit put the payment to review, or gave the ticket, with a refund under way
\* or made. OPENED: the deposit's first answer, over a payment that had moved on.
Late == {"CROSSED", "REVIEWED", "TICKETED", "OPENED"}

depositVars == <<ticket, told>>
refundVars == <<due, ticket, told, row, pawa, run, late>>

\* The checkout may still wait for the answer to its request.
CheckoutRuns ==
    {[q \in Runner |-> IF q = r THEN [op |-> "DEPOSIT", answer |-> "IN_PROGRESS"] ELSE NoRun] : r \in Runner}

RefundsInit ==
    /\ due = "OPEN" /\ ticket = FALSE
    /\ told \in Deposits
    /\ row = [id |-> NoAttempt, status |-> "NO_ROW", sent |-> "NO"]
    /\ pawa = [a \in Attempt |-> "UNUSED"]
    /\ run \in CheckoutRuns \cup {[r \in Runner |-> NoRun]}
    /\ late = {}

-----------------------------------------------------------------------------

Take(r, t) == run' = [run EXCEPT ![r] = t]
Finish(r) == Take(r, NoRun)
InHand(r, op) == run[r] # NoRun /\ run[r].op = op
Heard(r, op, a) == InHand(r, op) /\ run[r].answer = a

SetRow(s, sent) == row' = [row EXCEPT !.status = s, !.sent = sent]

\* refundTicketPayment: one transaction claims the payment and makes the row new.
RequestRefund(a) ==
    /\ due = "REVIEW_REQUIRED" /\ pawa[a] = "UNUSED"
    /\ due' = "REFUND_PENDING"
    /\ row' = [id |-> a, status |-> "PENDING", sent |-> "NO"]
    /\ pawa' = [pawa EXCEPT ![a] = "NONE"]
    /\ UNCHANGED <<depositVars, run, late>>

(* submitRefund: claim, send, write *)

ListRefund(r) ==
    /\ run[r] = NoRun /\ row.status = "PENDING" /\ row.sent = "NO"
    /\ Take(r, [op |-> "LISTED", id |-> row.id])
    /\ UNCHANGED <<due, depositVars, row, pawa, late>>

\* The row may have another identifier by now: the one that was listed is sent.
ClaimRefund(r) ==
    /\ InHand(r, "LISTED")
    /\ IF row.status = "PENDING" /\ row.sent = "NO"
         THEN /\ SetRow("PENDING", "RECENT")
              /\ Take(r, [op |-> "SEND", id |-> run[r].id, answer |-> "WAITING"])
         ELSE UNCHANGED row /\ Finish(r)
    /\ UNCHANGED <<due, depositVars, pawa, late>>

Answer(r, a) == run' = [run EXCEPT ![r].answer = a]

\* pawaPay ignores a request for a refund it has, and accepts or rejects any other; what
\* it rejected it never accepts.
SendRefund(r) ==
    LET a == run[r].id IN
    /\ Heard(r, "SEND", "WAITING")
    /\ \/ pawa[a] \in Accepted /\ Answer(r, "ACCEPTED") /\ UNCHANGED pawa
       \/ pawa[a] = "NONE" /\ Answer(r, "ACCEPTED") /\ pawa' = [pawa EXCEPT ![a] = "IN_PROGRESS"]
       \/ pawa[a] \notin Accepted /\ Answer(r, "REJECTED") /\ pawa' = [pawa EXCEPT ![a] = "REJECTED"]
    /\ UNCHANGED <<due, depositVars, row, late>>

\* A write that does not look at the row.
RefundSent(r) ==
    /\ Heard(r, "SEND", "ACCEPTED")
    /\ SetRow("PROCESSING", row.sent)
    /\ Finish(r)
    /\ UNCHANGED <<due, depositVars, pawa, late>>

Crosses(kind, c) == late' = IF c THEN late \cup {kind} ELSE late

\* failRefund: the payment is to be reviewed again.
FailRefund(a) ==
    IF row.status \in OpenRefund
      THEN SetRow("FAILED", row.sent) /\ due' = "REVIEW_REQUIRED" /\ Crosses("CROSSED", row.id # a)
      ELSE UNCHANGED <<row, due, late>>

RefundRejected(r) ==
    /\ Heard(r, "SEND", "REJECTED")
    /\ FailRefund(run[r].id)
    /\ Finish(r)
    /\ UNCHANGED <<depositVars, pawa>>

\* Mutant of SendUncertain: a request that may have arrived is given up.
SendAbandoned(r) ==
    /\ InHand(r, "SEND")
    /\ FailRefund(run[r].id)
    /\ Finish(r)
    /\ UNCHANGED <<depositVars, pawa>>

\* A time-out, or any error before the answer is written: it will be sent again.
SendUncertain(r) ==
    /\ InHand(r, "SEND")
    /\ IF row.status = "PENDING" THEN SetRow("PENDING", "NO") ELSE UNCHANGED row
    /\ Finish(r)
    /\ UNCHANGED <<due, depositVars, pawa, late>>

(* reconcileTicketRefund: read, ask, write *)

\* A callback finds the row by the identifier it names, if the row still has it.
BeginRefundCheck(r) ==
    /\ run[r] = NoRun /\ row.status \in OpenRefund /\ row.sent # "NO"
    /\ Take(r, [op |-> "CHECK", id |-> row.id, seen |-> row.status,
                stale |-> row.sent = "STALE", answer |-> "WAITING"])
    /\ UNCHANGED <<due, depositVars, row, pawa, late>>

AskRefund(r) ==
    /\ Heard(r, "CHECK", "WAITING")
    /\ Answer(r, IF pawa[run[r].id] \in Accepted THEN pawa[run[r].id] ELSE "NOT_FOUND")
    /\ UNCHANGED <<due, depositVars, row, pawa, late>>

\* A submission that was interrupted and never arrived is sent again.
RefundNotFound(r) ==
    /\ Heard(r, "CHECK", "NOT_FOUND")
    /\ IF run[r].seen = "PENDING" /\ run[r].stale /\ row.status = "PENDING"
         THEN SetRow("PENDING", "NO") ELSE UNCHANGED row
    /\ Finish(r)
    /\ UNCHANGED <<due, depositVars, pawa, late>>

RefundCompleted(r) ==
    /\ Heard(r, "CHECK", "COMPLETED")
    /\ IF row.status \in OpenRefund
         THEN SetRow("COMPLETED", row.sent) /\ due' = "REFUNDED"
         ELSE UNCHANGED <<row, due>>
    /\ Finish(r)
    /\ UNCHANGED <<depositVars, pawa, late>>

RefundFailed(r) ==
    /\ Heard(r, "CHECK", "FAILED")
    /\ FailRefund(run[r].id)
    /\ Finish(r)
    /\ UNCHANGED <<depositVars, pawa>>

\* The other write that does not look at the row, but at what it was.
RefundUnderWay(r) ==
    /\ Heard(r, "CHECK", "IN_PROGRESS")
    /\ IF run[r].seen = "PENDING" THEN SetRow("PROCESSING", row.sent) ELSE UNCHANGED row
    /\ Finish(r)
    /\ UNCHANGED <<due, depositVars, pawa, late>>

\* A crash, or the error of a check.
RunStops(r) ==
    /\ run[r] # NoRun /\ Finish(r)
    /\ UNCHANGED <<due, depositVars, row, pawa, late>>

(* reconcile and fulfil, of the deposit *)

\* A payment that is not final is read, and pawaPay asked. What it answers of a deposit
\* that has ended stays true, and fulfil looks at the payment again: the answer and the
\* read may be taken at one moment.
BeginDepositCheck(r) ==
    /\ run[r] = NoRun /\ due \notin FinalDue
    /\ Take(r, [op |-> "DEPOSIT", answer |-> told])
    /\ UNCHANGED <<due, depositVars, row, pawa, late>>

\* The checkout's answer, or that of a check, written over whatever the status is. The
\* worker goes on to expire a payment that is a day old.
DepositUnderWay(r) ==
    /\ Heard(r, "DEPOSIT", "IN_PROGRESS")
    /\ due' = "OPEN" /\ Crosses("OPENED", due # "OPEN")
    /\ Finish(r) \/ Take(r, [op |-> "EXPIRE"])
    /\ UNCHANGED <<depositVars, row, pawa>>

ExpirePayment(r) ==
    /\ InHand(r, "EXPIRE")
    /\ due' = "EXPIRED"
    /\ Finish(r)
    /\ UNCHANGED <<depositVars, row, pawa, late>>

\* The refund that the row asks for is under way or made.
Refunding == row.status \in {"PENDING", "PROCESSING", "COMPLETED"}

PutToReview == due' = "REVIEW_REQUIRED" /\ Crosses("REVIEWED", Refunding) /\ UNCHANGED ticket

\* A write that does not look at the status either.
DepositMismatch(r) ==
    /\ Heard(r, "DEPOSIT", "MISMATCH")
    /\ PutToReview
    /\ Finish(r)
    /\ UNCHANGED <<told, row, pawa>>

GiveTicket == ticket' = TRUE /\ due' = "COMPLETED" /\ Crosses("TICKETED", Refunding)

\* Under the lock of the payment: it is final, the offer is sold out, the unique index
\* refuses a second registration, or the ticket is given.
FulfilDeposit(r) ==
    /\ Heard(r, "DEPOSIT", "COMPLETED")
    /\ \/ due \in FinalDue /\ UNCHANGED <<due, ticket, late>>
       \/ due \notin FinalDue /\ PutToReview
       \/ due \notin FinalDue /\ ticket /\ UNCHANGED <<due, ticket, late>>
       \/ due \notin FinalDue /\ ~ticket /\ GiveTicket
    /\ Finish(r)
    /\ UNCHANGED <<told, row, pawa>>

(* pawaPay and time *)

DepositConfirmed ==
    /\ told = "IN_PROGRESS"
    /\ told' = "COMPLETED"
    /\ UNCHANGED <<due, ticket, row, pawa, run, late>>

RefundSettles(a) ==
    /\ pawa[a] = "IN_PROGRESS"
    /\ \E s \in {"COMPLETED", "FAILED"} : pawa' = [pawa EXCEPT ![a] = s]
    /\ UNCHANGED <<due, depositVars, row, run, late>>

\* A request to pawaPay ends long before it is STALE_SUBMISSION_MS old.
RefundAges ==
    /\ row.sent = "RECENT" /\ \A r \in Runner : ~InHand(r, "SEND")
    /\ SetRow(row.status, "STALE")
    /\ UNCHANGED <<due, depositVars, pawa, run, late>>

SendNext(r) ==
    \/ ListRefund(r) \/ ClaimRefund(r) \/ SendRefund(r)
    \/ RefundSent(r) \/ RefundRejected(r) \/ SendUncertain(r)

CheckNext(r) ==
    \/ BeginRefundCheck(r) \/ AskRefund(r)
    \/ RefundNotFound(r) \/ RefundCompleted(r) \/ RefundFailed(r) \/ RefundUnderWay(r)

DepositNext(r) ==
    \/ BeginDepositCheck(r) \/ DepositUnderWay(r) \/ ExpirePayment(r)
    \/ DepositMismatch(r) \/ FulfilDeposit(r)

RefundsNext ==
    \/ \E a \in Attempt : RequestRefund(a) \/ RefundSettles(a)
    \/ \E r \in Runner : SendNext(r) \/ CheckNext(r) \/ DepositNext(r) \/ RunStops(r)
    \/ DepositConfirmed \/ RefundAges

RefundsSpec == RefundsInit /\ [][RefundsNext]_refundVars

-----------------------------------------------------------------------------
(* Properties *)

\* The payer gets, or may still get, money under this identifier.
PaysBack(a) == pawa[a] \in {"IN_PROGRESS", "COMPLETED"}

\* A failure was written over a later attempt, or a payment put to review over a refund.
Misled == late \cap {"CROSSED", "REVIEWED"} # {}

\* The payer is paid back once, however often the console asks. There are two ways to pay
\* twice: the failure of an attempt is written over a later one (failRefund claims the row
\* by its key, not by the identifier that failed), or a check of the deposit puts the
\* payment to review again over its refund (reconcile, fulfil: REFUND_PENDING is open).
PaidBackOnce == Misled \/ \A a, b \in Attempt : PaysBack(a) /\ PaysBack(b) => a = b

\* The console offers a payment for a refund, or for one more, only while nothing is on its
\* way back to the payer, with the same exceptions (refundTicketPayment, failRefund).
ReviewIsSafe == due = "REVIEW_REQUIRED" => Misled \/ \A a \in Attempt : ~PaysBack(a)

\* A payment that is shown refunded was paid back (reconcileTicketRefund).
RefundedIsPaid == due = "REFUNDED" => \E a \in Attempt : pawa[a] = "COMPLETED"

\* A check of the deposit gave the ticket over a refund, or opened again what had moved on.
Reopened == late \cap {"TICKETED", "OPENED"} # {}

\* The payer gets the ticket or the money: to get both, a check of the deposit has to write
\* over a refund, or over a payment that had moved on (fulfil, refundTicketPayment).
TicketOrMoney == ticket => Reopened \/ \A a \in Attempt : ~PaysBack(a)

\* The refunds of a payment are what the console and the payer are told.
RefundsHold == PaidBackOnce /\ ReviewIsSafe /\ RefundedIsPaid /\ TicketOrMoney

-----------------------------------------------------------------------------
(* The inductive invariant behind them *)

RefundsTypeOK ==
    /\ due \in {"OPEN", "REFUND_PENDING"} \cup FinalDue
    /\ ticket \in BOOLEAN /\ told \in Deposits
    /\ row \in [id : Attempt \cup {NoAttempt}, sent : {"NO", "RECENT", "STALE"},
                status : {"NO_ROW", "COMPLETED", "FAILED"} \cup OpenRefund]
    /\ pawa \in [Attempt -> {"UNUSED", "NONE", "REJECTED"} \cup Accepted]
    /\ run \in [Runner -> Runs \cup {NoRun}]
    /\ late \subseteq Late

\* A runner has a refund in hand, not the deposit.
OfRefund(r) == InHand(r, "LISTED") \/ InHand(r, "SEND") \/ InHand(r, "CHECK")

\* What a runner was told stays true: pawaPay's ends are final.
RunTruthful(r) ==
    LET a == run[r].id IN
    /\ OfRefund(r) => row.id # NoAttempt /\ pawa[a] # "UNUSED"
    /\ Heard(r, "SEND", "REJECTED") => pawa[a] = "REJECTED"
    /\ Heard(r, "CHECK", "COMPLETED") => pawa[a] = "COMPLETED"
    /\ Heard(r, "CHECK", "FAILED") => pawa[a] = "FAILED"
    /\ Heard(r, "DEPOSIT", "COMPLETED") => told = "COMPLETED"
    /\ Heard(r, "DEPOSIT", "MISMATCH") => told = "MISMATCH"

Ended(a) == pawa[a] \in {"REJECTED", "FAILED"}

\* Of the attempts of before nothing is left, nor of one that has failed or is reviewed.
EarlierEnded ==
    /\ \A a \in Attempt : a # row.id => pawa[a] = "UNUSED" \/ Ended(a)
    /\ row.id # NoAttempt /\ (due = "REVIEW_REQUIRED" \/ row.status = "FAILED") => Ended(row.id)

\* Unless a late write opened the payment again, no refund comes before or after a ticket.
TicketFirst ==
    /\ ticket => told = "COMPLETED"
    /\ row.id = NoAttempt => \A a \in Attempt : pawa[a] = "UNUSED"
    /\ due = "REFUND_PENDING" => row.status \in OpenRefund
    /\ ~Reopened => /\ due = "OPEN" => row.id = NoAttempt
                    /\ ticket => row.id = NoAttempt /\ due \in {"COMPLETED", "EXPIRED"}

RefundsIInv ==
    /\ RefundsTypeOK
    /\ \A r \in Runner : RunTruthful(r)
    /\ row.status = "NO_ROW" <=> row.id = NoAttempt
    /\ row.id # NoAttempt => pawa[row.id] # "UNUSED"
    /\ Misled \/ EarlierEnded
    /\ RefundedIsPaid
    /\ TicketFirst

=============================================================================
