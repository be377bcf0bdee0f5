-------------------------- MODULE OrganizerPayouts --------------------------
(***************************************************************************)
(* Payouts to organizers: services/organizer_payout.service.js and the     *)
(* finance console, for one organization and one currency. A request takes *)
(* its amount out of the balance at once; an administrator approves or     *)
(* rejects it; the background worker submits what is approved to pawaPay   *)
(* and checks what is in flight, as callbacks do. Submitting and checking  *)
(* are each a claim or a read, a call to pawaPay and a write, with other   *)
(* requests in between. All writes look at the row again, but one: the     *)
(* status after an accepted submission.                                    *)
(***************************************************************************)
EXTENDS Integers, FiniteSets

CONSTANTS
    Payout,     \* payout requests
    Credit,     \* organizer_amount of a ticket sale
    MaxBalance, \* bound: no sale takes the balance beyond it
    Worker,     \* passes of processPending that overlap
    Handler,    \* HTTP requests: callbacks of pawaPay
    NoCall,     \* a caller that is doing nothing
    RejectionsAreFinal \* pawaPay never accepts an id that it once rejected

Caller == Worker \cup Handler

OpenPayoutStatuses == {"REQUESTED", "APPROVED", "SUBMITTING", "PROCESSING"}

InFlightStatuses == {"SUBMITTING", "PROCESSING"}

ClosedUnpaid == {"FAILED", "REJECTED", "CANCELED"}

Statuses == {"NO_ROW", "COMPLETED"} \cup OpenPayoutStatuses \cup ClosedUnpaid

\* The payouts pawaPay has accepted: checkPayout finds no other.
Found == {"IN_PROGRESS", "COMPLETED", "FAILED"}

RemoteStates == {"NONE", "REJECTED"} \cup Found

\* A submission: the payout is claimed, then pawaPay answers.
Submissions == [kind : {"SUBMIT"}, pay : Payout,
                answer : {"WAITING", "ACCEPTED", "REJECTED"}]

\* A check; "stale" tells that the payout was read as a submission more than
\* STALE_SUBMISSION_MS old.
Checks == [kind : {"CHECK"}, pay : Payout, stale : BOOLEAN,
           answer : {"WAITING", "NOT_FOUND", "MISMATCH"} \cup Found]

ASSUME PayoutConstantsOK ==
    /\ Credit \subseteq Nat
    /\ MaxBalance \in Nat
    /\ RejectionsAreFinal \in BOOLEAN
    /\ NoCall \notin Submissions \cup Checks

VARIABLES
    balance,    \* sum of the ledger entries of the organization in the currency
    status,     \* organizer_payouts.status
    amount,     \* organizer_payouts.amount
    reversed,   \* the PAYOUT_REVERSAL entry of the payout exists
    stale,      \* submitted_at is more than STALE_SUBMISSION_MS ago
    remote,     \* pawaPay's payout
    matches,    \* pawaPay's payout has the amount, currency and recipient asked
    call        \* what each caller is doing

vars == <<balance, status, amount, reversed, stale, remote, matches, call>>

ledgerVars == <<balance, amount, reversed>>
remoteVars == <<remote, matches>>

Init ==
    /\ balance = 0
    /\ status = [p \in Payout |-> "NO_ROW"]
    /\ amount = [p \in Payout |-> 0]
    /\ reversed = [p \in Payout |-> FALSE]
    /\ stale = [p \in Payout |-> FALSE]
    /\ remote = [p \in Payout |-> "NONE"]
    /\ matches = [p \in Payout |-> TRUE]
    /\ call = [r \in Caller |-> NoCall]

-----------------------------------------------------------------------------
(* The ledger *)

\* fulfil inserts the TICKET_SALE entry of a sale.
TicketSold ==
    /\ \E a \in Credit : balance + a <= MaxBalance /\ balance' = balance + a
    /\ UNCHANGED <<status, amount, reversed, stale, remoteVars, call>>

\* Mutant of Reverse: the entry is forgotten.
ReverseNothing(p) == UNCHANGED <<balance, reversed>>

\* The upsert on the unique key (payout, PAYOUT_REVERSAL).
Reverse(p) ==
    /\ balance' = IF reversed[p] THEN balance ELSE balance + amount[p]
    /\ reversed' = [reversed EXCEPT ![p] = TRUE]

\* One statement that moves the payout from a set of statuses to another status,
\* and moves nothing if it is not there (updateMany).
UpdateIf(p, from, to) ==
    status' = IF status[p] \in from THEN [status EXCEPT ![p] = to] ELSE status

-----------------------------------------------------------------------------
(* The organizer and the administrator *)

\* A serializable transaction that locks the organization.
RequestPayout(p) ==
    /\ status[p] = "NO_ROW"
    /\ \A q \in Payout : status[q] \notin OpenPayoutStatuses
    /\ \E a \in 1 .. balance :
         /\ balance' = balance - a
         /\ amount' = [amount EXCEPT ![p] = a]
    /\ status' = [status EXCEPT ![p] = "REQUESTED"]
    /\ UNCHANGED <<reversed, stale, remoteVars, call>>

CancelPayout(p) ==
    /\ status[p] = "REQUESTED"
    /\ status' = [status EXCEPT ![p] = "CANCELED"]
    /\ Reverse(p)
    /\ UNCHANGED <<amount, stale, remoteVars, call>>

ApprovePayout(p) ==
    /\ status[p] = "REQUESTED"
    /\ status' = [status EXCEPT ![p] = "APPROVED"]
    /\ UNCHANGED <<ledgerVars, stale, remoteVars, call>>

\* The console inserts the entry; were it there already, it would be refused.
RejectPayout(p) ==
    /\ status[p] = "REQUESTED"
    /\ ~reversed[p]
    /\ status' = [status EXCEPT ![p] = "REJECTED"]
    /\ balance' = balance + amount[p]
    /\ reversed' = [reversed EXCEPT ![p] = TRUE]
    /\ UNCHANGED <<amount, stale, remoteVars, call>>

-----------------------------------------------------------------------------
(* submitPayout: claim, send, write *)

Return(r) == call' = [call EXCEPT ![r] = NoCall]

ClaimPayout(w, p) ==
    /\ call[w] = NoCall
    /\ status[p] = "APPROVED"
    /\ status' = [status EXCEPT ![p] = "SUBMITTING"]
    /\ stale' = [stale EXCEPT ![p] = FALSE]
    /\ call' = [call EXCEPT ![w] = [kind |-> "SUBMIT", pay |-> p, answer |-> "WAITING"]]
    /\ UNCHANGED <<ledgerVars, remoteVars>>

Waiting(r, k) == call[r] # NoCall /\ call[r].kind = k /\ call[r].answer = "WAITING"

Told(r, k, a) == call[r] # NoCall /\ call[r].kind = k /\ call[r].answer = a

\* pawaPay handles the request: it ignores one for a payout it has, and accepts or
\* rejects any other.
SendPayout(r) ==
    LET p == call[r].pay
        Answer(a) == call' = [call EXCEPT ![r].answer = a]
    IN  /\ Waiting(r, "SUBMIT")
        /\ \/ remote[p] \in Found /\ Answer("ACCEPTED") /\ UNCHANGED remoteVars
           \/ /\ \/ remote[p] = "NONE"
                 \/ remote[p] = "REJECTED" /\ ~RejectionsAreFinal
              /\ remote' = [remote EXCEPT ![p] = "IN_PROGRESS"]
              /\ \E m \in BOOLEAN : matches' = [matches EXCEPT ![p] = m]
              /\ Answer("ACCEPTED")
           \/ /\ remote[p] \notin Found
              /\ remote' = [remote EXCEPT ![p] = "REJECTED"]
              /\ Answer("REJECTED")
              /\ UNCHANGED matches
        /\ UNCHANGED <<status, ledgerVars, stale>>

\* The one write that does not look at the row.
SubmitAccepted(r) ==
    /\ Told(r, "SUBMIT", "ACCEPTED")
    /\ status' = [status EXCEPT ![call[r].pay] = "PROCESSING"]
    /\ Return(r)
    /\ UNCHANGED <<ledgerVars, stale, remoteVars>>

\* failPayout: one transaction claims the payout and gives its amount back.
FailPayout(p) ==
    /\ UpdateIf(p, InFlightStatuses, "FAILED")
    /\ IF status[p] \in InFlightStatuses THEN Reverse(p) ELSE UNCHANGED <<balance, reversed>>
    /\ UNCHANGED amount

SubmitRejected(r) ==
    /\ Told(r, "SUBMIT", "REJECTED")
    /\ FailPayout(call[r].pay)
    /\ Return(r)
    /\ UNCHANGED <<stale, remoteVars>>

\* A mutant of SubmitUncertain: a submission that may have gone out is failed.
SubmitAbandoned(r) ==
    /\ call[r] # NoCall
    /\ call[r].kind = "SUBMIT"
    /\ FailPayout(call[r].pay)
    /\ Return(r)
    /\ UNCHANGED <<stale, remoteVars>>

\* A time-out, or any error before the answer is written: the payout will be sent
\* again, under the same identifier.
SubmitUncertain(r) ==
    /\ call[r] # NoCall
    /\ call[r].kind = "SUBMIT"
    /\ UpdateIf(call[r].pay, {"SUBMITTING"}, "APPROVED")
    /\ Return(r)
    /\ UNCHANGED <<ledgerVars, stale, remoteVars>>

-----------------------------------------------------------------------------
(* reconcilePayout: read, ask, write *)

\* A mutant of BeginCheck: the worker does not list the interrupted submissions.
BeginCheckRunning(r, p) ==
    /\ call[r] = NoCall
    /\ status[p] \in InFlightStatuses
    /\ r \in Worker => status[p] = "PROCESSING"
    /\ call' = [call EXCEPT ![r] = [kind |-> "CHECK", pay |-> p, stale |-> FALSE,
                                    answer |-> "WAITING"]]
    /\ UNCHANGED <<status, ledgerVars, stale, remoteVars>>

\* The worker lists payouts in progress and submissions that are stale.
BeginCheck(r, p) ==
    /\ call[r] = NoCall
    /\ status[p] \in InFlightStatuses
    /\ r \in Worker => status[p] = "PROCESSING" \/ stale[p]
    /\ call' = [call EXCEPT ![r] = [kind |-> "CHECK", pay |-> p,
                                    stale |-> status[p] = "SUBMITTING" /\ stale[p],
                                    answer |-> "WAITING"]]
    /\ UNCHANGED <<status, ledgerVars, stale, remoteVars>>

RemoteAnswer(p) ==
    CASE remote[p] \notin Found -> "NOT_FOUND"
      [] remote[p] \in Found /\ ~matches[p] -> "MISMATCH"
      [] remote[p] \in Found /\ matches[p] -> remote[p]

CheckPayout(r) ==
    /\ Waiting(r, "CHECK")
    /\ call' = [call EXCEPT ![r].answer = RemoteAnswer(call[r].pay)]
    /\ UNCHANGED <<status, ledgerVars, stale, remoteVars>>

\* A stale submission that pawaPay never received will be sent again.
ApplyNotFound(r) ==
    /\ Told(r, "CHECK", "NOT_FOUND")
    /\ IF call[r].stale THEN UpdateIf(call[r].pay, {"SUBMITTING"}, "APPROVED")
                        ELSE UNCHANGED status
    /\ Return(r)
    /\ UNCHANGED <<ledgerVars, stale, remoteVars>>

\* The money may have left: nothing is written.
ApplyMismatch(r) ==
    /\ Told(r, "CHECK", "MISMATCH")
    /\ Return(r)
    /\ UNCHANGED <<status, ledgerVars, stale, remoteVars>>

ApplyCompleted(r) ==
    /\ Told(r, "CHECK", "COMPLETED")
    /\ UpdateIf(call[r].pay, InFlightStatuses, "COMPLETED")
    /\ Return(r)
    /\ UNCHANGED <<ledgerVars, stale, remoteVars>>

ApplyFailed(r) ==
    /\ Told(r, "CHECK", "FAILED")
    /\ FailPayout(call[r].pay)
    /\ Return(r)
    /\ UNCHANGED <<stale, remoteVars>>

ApplyInProgress(r) ==
    /\ Told(r, "CHECK", "IN_PROGRESS")
    /\ UpdateIf(call[r].pay, {"SUBMITTING"}, "PROCESSING")
    /\ Return(r)
    /\ UNCHANGED <<ledgerVars, stale, remoteVars>>

\* A crash, or for a check an error: nothing more is written.
CallStops(r) ==
    /\ call[r] # NoCall
    /\ Return(r)
    /\ UNCHANGED <<status, ledgerVars, stale, remoteVars>>

-----------------------------------------------------------------------------
(* The environment: pawaPay and time *)

PayoutSettles(p) ==
    /\ remote[p] = "IN_PROGRESS"
    /\ \E s \in {"COMPLETED", "FAILED"} : remote' = [remote EXCEPT ![p] = s]
    /\ UNCHANGED <<status, ledgerVars, stale, matches, call>>

\* A submission under way ends, by the client's 15 s time-out if not before, long
\* before it is 5 min old: only an interrupted one becomes stale.
SubmissionAges(p) ==
    /\ status[p] = "SUBMITTING"
    /\ ~stale[p]
    /\ \A r \in Caller : call[r] # NoCall => call[r].kind # "SUBMIT" \/ call[r].pay # p
    /\ stale' = [stale EXCEPT ![p] = TRUE]
    /\ UNCHANGED <<status, ledgerVars, remoteVars, call>>

-----------------------------------------------------------------------------
Console(p) == RequestPayout(p) \/ CancelPayout(p) \/ ApprovePayout(p) \/ RejectPayout(p)

Submit(r) == SendPayout(r) \/ SubmitAccepted(r) \/ SubmitRejected(r) \/ SubmitUncertain(r)

Apply(r) == \/ ApplyNotFound(r) \/ ApplyMismatch(r) \/ ApplyCompleted(r)
            \/ ApplyFailed(r) \/ ApplyInProgress(r)

Check(r) == \/ \E p \in Payout : BeginCheck(r, p)
            \/ CheckPayout(r) \/ Apply(r)

Next == \/ TicketSold
        \/ \E p \in Payout : Console(p) \/ PayoutSettles(p) \/ SubmissionAges(p)
        \/ \E w \in Worker, p \in Payout : ClaimPayout(w, p)
        \/ \E r \in Caller : Submit(r) \/ Check(r) \/ CallStops(r)

Spec == Init /\ [][Next]_vars

(***************************************************************************)
(* The worker passes every minute over approved, stale and running         *)
(* payouts, some calls to pawaPay end well, pawaPay settles what it        *)
(* accepted and time passes. Nobody has to ask for, approve or cancel      *)
(* anything.                                                               *)
(***************************************************************************)
Fairness ==
    /\ \A p \in Payout : WF_vars(PayoutSettles(p)) /\ WF_vars(SubmissionAges(p))
    /\ \A w \in Worker, p \in Payout :
         /\ SF_vars(ClaimPayout(w, p))
         /\ SF_vars(BeginCheck(w, p))
         /\ SF_vars(SendPayout(w) /\ call[w].pay = p)
         /\ SF_vars((SubmitAccepted(w) \/ SubmitRejected(w)) /\ call[w].pay = p)
         /\ SF_vars(CheckPayout(w) /\ call[w].pay = p)
         /\ SF_vars(Apply(w) /\ call[w].pay = p)

FairSpec == Spec /\ Fairness

-----------------------------------------------------------------------------
(* Properties *)

\* The rows, the ledger and the calls are well formed; the balance, a sum of
\* positive and negative entries, never goes below zero (requestPayout, reverse).
TypeOK ==
    /\ balance \in Nat
    /\ status \in [Payout -> Statuses]
    /\ amount \in [Payout -> Nat]
    /\ reversed \in [Payout -> BOOLEAN]
    /\ stale \in [Payout -> BOOLEAN]
    /\ remote \in [Payout -> RemoteStates]
    /\ matches \in [Payout -> BOOLEAN]
    /\ call \in [Caller -> Submissions \cup Checks \cup {NoCall}]

\* What the organizer reads is so: a payout shown COMPLETED was paid by pawaPay,
\* and one that failed, was refused or was canceled has its amount back, however
\* late the answers are that set its status (applyRemotePayout, failPayout,
\* cancelPayout, rejectPayout).
StatusTruthful ==
    \A p \in Payout :
        /\ status[p] = "COMPLETED" => remote[p] = "COMPLETED"
        /\ status[p] \in ClosedUnpaid => reversed[p]

\* The balance and the payouts behave as PayoutFunds: the money of a payout is
\* sent or returned, once and never both.
FundOf(p) ==
    CASE status[p] = "NO_ROW" -> "unused"
      [] status[p] # "NO_ROW" /\ reversed[p] -> "returned"
      [] status[p] # "NO_ROW" /\ ~reversed[p] /\ remote[p] = "COMPLETED" -> "sent"
      [] OTHER -> "aside"

Funds == INSTANCE PayoutFunds WITH
            available <- balance,
            fund      <- [p \in Payout |-> FundOf(p)]
FundsSpec == Funds!Spec

\* pawaPay calls back about a payout when it has settled it.
CallbacksAreFinal ==
    \A h \in Handler :
        call[h] = NoCall /\ call'[h] # NoCall =>
            remote[call'[h].pay] \in {"COMPLETED", "FAILED"}

\* An approved payout is settled in the end, unless pawaPay's payout differs from
\* the one asked (processPending): interrupted submissions are taken up again.
ApprovedIsSettled ==
    <>[][CallbacksAreFinal]_vars =>
        \A p \in Payout :
            status[p] = "APPROVED" ~> \/ status[p] \in {"COMPLETED", "FAILED"}
                                      \/ ~matches[p]

-----------------------------------------------------------------------------
(* The inductive invariant behind StatusTruthful and FundsSpec *)

\* pawaPay has not heard of the payout, and no caller has it in hand.
Unsubmitted == {"NO_ROW", "REQUESTED", "CANCELED", "REJECTED"}

\* A caller's answer stays true of pawaPay while the caller waits to write it.
CallTruthful(r) ==
    call[r] # NoCall =>
        LET p == call[r].pay IN
        /\ status[p] \notin Unsubmitted
        /\ Told(r, "SUBMIT", "ACCEPTED") => remote[p] \in Found
        /\ Told(r, "CHECK", "COMPLETED") => remote[p] = "COMPLETED"
        /\ Told(r, "CHECK", "FAILED") => remote[p] = "FAILED"
        /\ Told(r, "CHECK", "IN_PROGRESS") => remote[p] \in Found

RowConsistent(p) ==
    /\ status[p] \in Unsubmitted => remote[p] = "NONE"
    /\ status[p] \in {"NO_ROW", "REQUESTED"} => ~reversed[p]
    /\ status[p] = "NO_ROW" => amount[p] = 0

\* Two submissions of a payout may be under way. Only because a rejection is final
\* can neither of them pay what the other one gave back.
RejectionTruthful(r) ==
    Told(r, "SUBMIT", "REJECTED") => remote[call[r].pay] = "REJECTED"

RestoredStays(p) ==
    reversed[p] => \/ status[p] \in Unsubmitted
                   \/ remote[p] \in {"REJECTED", "FAILED"}

MoneyBackStays ==
    /\ \A r \in Caller : RejectionTruthful(r)
    /\ \A p \in Payout : RestoredStays(p)

IInv ==
    /\ TypeOK
    /\ \A r \in Caller : CallTruthful(r)
    /\ \A p \in Payout : RowConsistent(p)
    /\ StatusTruthful
    /\ RejectionsAreFinal => MoneyBackStays

=============================================================================
