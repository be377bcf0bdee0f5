------------------------ MODULE Subscriptions_proofs ------------------------
(***************************************************************************)
(* Proofs about Subscriptions, for any changes and any number of callers   *)
(* that reconcile at the same time, and about Accounts, for any number of  *)
(* browsers, passwords and links. The inductive invariants IInv and        *)
(* AccountsIInv are stated in the modules themselves.                      *)
(***************************************************************************)
EXTENDS Subscriptions, Accounts, TLAPS

\* A call under way is about a change.
LEMMA CallType ==
    ASSUME TypeOK, NEW r \in Caller, call[r] # NoCall
    PROVE  call[r] \in Calls /\ call[r].chg \in Change
BY DEF TypeOK, Calls

-----------------------------------------------------------------------------
\* Every step keeps the types of the rows and of the calls.
LEMMA TypeInductive == TypeOK /\ [Next]_vars => TypeOK'
<1> SUFFICES ASSUME TypeOK, [Next]_vars
             PROVE  TypeOK'
    OBVIOUS
<1> USE DEF planVars, rowVars, requestVars, remoteVars, changeVars
<1> USE DEF Statuses, OPEN_CHANGE_STATUSES, Payments, OpenPayment, Refunds, OpenRefund,
            Kinds, Remotes, Found
<1>1. ASSUME NEW c \in Change, Checkout(c)
      PROVE  TypeOK'
  <2>1. CASE Quote(c) \/ OpenChange(c)
      BY <2>1 DEF TypeOK, Quote, OpenChange
  <2>2. CASE InitiateAccepted(c) \/ InitiateUncertain(c)
      BY <2>2 DEF TypeOK, InitiateAccepted, InitiateUncertain
  <2>3. CASE InitiateRejected(c) \/ FailRejectedChange(c)
      BY <2>3 DEF TypeOK, InitiateRejected, FailRejectedChange
  <2> QED BY <1>1, <2>1, <2>2, <2>3 DEF Checkout
<1>2. ASSUME NEW c \in Change, Cancel(c)
      PROVE  TypeOK'
  <2>1. CASE RequestCancellation(c)
      BY <2>1 DEF TypeOK, RequestCancellation
  <2>5. CASE CancelPaidChange(c)
      BY <2>5 DEF TypeOK, CancelPaidChange
  <2>2. CASE CancelOpenChange(c)
      BY <2>2 DEF TypeOK, CancelOpenChange
  <2>3. CASE RefundAccepted(c) \/ RefundRejected(c)
      BY <2>3 DEF TypeOK, RefundAccepted, RefundRejected
  <2>4. CASE RestoreChange(c) \/ RefundUncertain(c)
      BY <2>4 DEF TypeOK, RestoreChange, RefundUncertain
  <2> QED BY <1>2, <2>1, <2>2, <2>3, <2>4, <2>5 DEF Cancel
<1>3. ASSUME NEW c \in Change, Schedule(c)
      PROVE  TypeOK'
    BY <1>3 DEF TypeOK, Schedule, ApplyScheduled, ReviewScheduled, Grant
<1>4. ASSUME NEW c \in Change, Environment(c)
      PROVE  TypeOK'
  <2>1. CASE DepositArrives(c) \/ DepositSettles(c)
      BY <2>1 DEF TypeOK, DepositArrives, DepositSettles
  <2>2. CASE PaybackArrives(c) \/ PaybackSettles(c)
      BY <2>2 DEF TypeOK, PaybackArrives, PaybackSettles
  <2>3. CASE GrowOld(c)
      BY <2>3 DEF TypeOK, GrowOld
  <2>4. CASE ReachDate(c)
      BY <2>4 DEF TypeOK, ReachDate
  <2> QED BY <1>4, <2>1, <2>2, <2>3, <2>4 DEF Environment
<1>5. ASSUME NEW r \in Caller, Reconcile(r)
      PROVE  TypeOK'
  <2>1. ASSUME NEW c \in Change, BeginPayment(r, c) \/ BeginRefund(r, c)
        PROVE  TypeOK'
    <3>1. PICK about \in {"DEPOSIT", "REFUND"} : Begin(r, about, c)
        BY <2>1 DEF BeginPayment, BeginRefund
    <3>2. PICK b \in BOOLEAN : b = (about = "DEPOSIT" /\ r \in Worker /\ old[c])
        OBVIOUS
    <3>3. call' = [call EXCEPT ![r] = [about |-> about, phase |-> "CHECKING", chg |-> c,
                                       overdue |-> b, answer |-> "NOT_FOUND"]]
        BY <3>1, <3>2 DEF Begin
    <3>4. call' \in [Caller -> Calls \cup {NoCall}]
        BY <3>3 DEF TypeOK, Calls, Answers
    <3> QED BY <3>1, <3>4 DEF Begin, TypeOK
  <2>2. CASE AskPawaPay(r)
    <3>1. call[r] \in Calls
        BY <2>2, CallType DEF AskPawaPay, InPhase
    <3>2. PICK a \in Answers :
               call' = [call EXCEPT ![r].phase = "ANSWERED", ![r].answer = a]
        BY <2>2 DEF AskPawaPay, Answers
    <3>3. [call[r] EXCEPT !.phase = "ANSWERED", !.answer = a] \in Calls
        BY <3>1 DEF Calls
    <3>4. \A q \in Caller : call'[q] = IF q = r
               THEN [call[r] EXCEPT !.phase = "ANSWERED", !.answer = a] ELSE call[q]
        BY <3>1, <3>2 DEF TypeOK, Calls
    <3>5. call' \in [Caller -> Calls \cup {NoCall}]
        BY <3>2, <3>3, <3>4 DEF TypeOK
    <3> QED BY <2>2, <3>5 DEF AskPawaPay, TypeOK
  <2>3. CASE CallStops(r)
      BY <2>3 DEF TypeOK, CallStops
  <2>4. CASE \/ PaymentNotFound(r) \/ PaymentInProgress(r)
             \/ ExpireOverdue(r) \/ PaymentFailed(r) \/ FailChange(r)
    <3>1. call[r] \in Calls /\ call[r].chg \in Change
        BY <2>4, CallType DEF PaymentNotFound, PaymentInProgress, ExpireOverdue,
                              PaymentFailed, FailChange, Answered, InPhase
    <3>2. call'[r] \in Calls \cup {NoCall}
        BY <2>4, <3>1 DEF TypeOK, PaymentNotFound, PaymentInProgress, ExpireOverdue,
                          PaymentFailed, FailChange, ReturnOpen, Return, Calls
    <3> QED BY <2>4, <3>1, <3>2 DEF TypeOK, PaymentNotFound, PaymentInProgress, ExpireOverdue,
                PaymentFailed, FailChange, ReturnOpen, Return, WritePayment, WriteChange
  <2>5. CASE Complete(r)
    <3>1. call[r].chg \in Change
        BY <2>5, CallType DEF Complete, CompleteAgain, CompleteForReview, CompleteLater,
                              CompleteNow, Answered, InPhase
    <3>2. CASE CompleteNow(r)
        BY <3>1, <3>2 DEF TypeOK, CompleteNow, Grant, WritePayment, Return
    <3>3. CASE ~CompleteNow(r)
        BY <2>5, <3>1, <3>3 DEF TypeOK, Complete, CompleteAgain, CompleteForReview,
                                CompleteLater, WritePayment, WriteChange, Return
    <3> QED BY <3>2, <3>3
  <2>6. CASE RefundCompleted(r) \/ RefundFailed(r) \/ RefundUnsettled(r)
    <3>1. call[r].chg \in Change
        BY <2>6, CallType DEF RefundCompleted, RefundFailed, RefundUnsettled, Answered, InPhase
    <3> QED BY <2>6, <3>1 DEF TypeOK, RefundCompleted, RefundFailed, RefundUnsettled,
                WriteRefund, WritePayment, WriteChange, Return
  <2> QED BY <1>5, <2>1, <2>2, <2>3, <2>4, <2>5, <2>6 DEF Reconcile
<1>6. CASE PlanReplaced \/ EndTerm
    BY <1>6 DEF TypeOK, PlanReplaced, BeginTrial, CheckTrial, ActivateTrial, StopTrial,
                OverridePlan, EndTerm
<1>7. CASE UNCHANGED vars
    BY <1>7 DEF TypeOK, vars
<1> QED BY <1>1, <1>2, <1>3, <1>4, <1>5, <1>6, <1>7 DEF Next

THEOREM TypeCorrect == Spec => []TypeOK
<1>1. Init => TypeOK
    BY DEF Init, TypeOK, Statuses, OPEN_CHANGE_STATUSES, Payments, Refunds, Kinds, Remotes
<1> QED BY <1>1, TypeInductive, PTL DEF Spec

-----------------------------------------------------------------------------
(* The rows of a change *)

\* Nothing of change c is written.
RowSame(c) ==
    /\ kind'[c] = kind[c] /\ change'[c] = change[c] /\ source'[c] = source[c]
    /\ request'[c] = request[c] /\ payment'[c] = payment[c] /\ periods'[c] = periods[c]
    /\ refund'[c] = refund[c] /\ refunding'[c] = refunding[c]
    /\ deposit'[c] = deposit[c] /\ payback'[c] = payback[c]
    /\ c \in withdrawn' <=> c \in withdrawn

\* A change that is not written stays consistent while the version grows.
LEMMA RowUntouched ==
    ASSUME TypeOK, NEW c \in Change, RowConsistent(c), RowSame(c),
           version' \in Nat, version <= version'
    PROVE  RowConsistent(c)'
<1>1. GrantedBefore(c)'
    BY DEF RowConsistent, GrantedBefore, RowSame, TypeOK
<1>2. Funded(c)'
    BY DEF RowConsistent, Funded, RowSame
<1>3. Refundable(c)'
    BY DEF RowConsistent, Refundable, RowSame
<1>4. WithdrawnStays(c)'
    BY DEF RowConsistent, WithdrawnStays, RowSame
<1> QED BY <1>1, <1>2, <1>3, <1>4 DEF RowConsistent

LEMMA CheckoutKeepsRow ==
    ASSUME TypeOK, NEW c \in Change, RowConsistent(c), Checkout(c)
    PROVE  RowConsistent(c)'
<1> USE DEF RowConsistent, GrantedBefore, Funded, Refundable, WithdrawnStays, TypeOK,
            planVars, rowVars, requestVars, remoteVars, Indexed, OpenPayment, Found
<1>1. CASE Quote(c)
    BY <1>1 DEF Quote
<1>2. CASE OpenChange(c)
    BY <1>2 DEF OpenChange
<1>3. CASE InitiateAccepted(c)
    BY <1>3 DEF InitiateAccepted
<1>4. CASE InitiateRejected(c)
    BY <1>4 DEF InitiateRejected
<1>5. CASE FailRejectedChange(c)
    BY <1>5 DEF FailRejectedChange
<1>6. CASE InitiateUncertain(c)
    BY <1>6 DEF InitiateUncertain
<1> QED BY <1>1, <1>2, <1>3, <1>4, <1>5, <1>6 DEF Checkout

LEMMA CancelKeepsRow ==
    ASSUME TypeOK, NEW c \in Change, RowConsistent(c), Cancel(c)
    PROVE  RowConsistent(c)'
<1> USE DEF RowConsistent, GrantedBefore, Funded, Refundable, WithdrawnStays, TypeOK,
            planVars, rowVars, requestVars, remoteVars, Indexed, OpenRefund, Found
<1>1. CASE RequestCancellation(c)
    BY <1>1 DEF RequestCancellation
<1>2. CASE CancelPaidChange(c)
    BY <1>2 DEF CancelPaidChange
<1>3. CASE CancelOpenChange(c)
    BY <1>3 DEF CancelOpenChange
<1>4. CASE RefundAccepted(c)
    BY <1>4 DEF RefundAccepted
<1>5. CASE RefundRejected(c)
    BY <1>5 DEF RefundRejected
<1>6. CASE RestoreChange(c)
    BY <1>6 DEF RestoreChange
<1>7. CASE RefundUncertain(c)
    BY <1>7 DEF RefundUncertain
<1> QED BY <1>1, <1>2, <1>3, <1>4, <1>5, <1>6, <1>7 DEF Cancel

LEMMA ScheduleKeepsRow ==
    ASSUME TypeOK, NEW c \in Change, RowConsistent(c), Schedule(c)
    PROVE  RowConsistent(c)'
<1> USE DEF RowConsistent, GrantedBefore, Funded, Refundable, WithdrawnStays, TypeOK,
            planVars, rowVars, requestVars, remoteVars, Indexed
<1>1. CASE ApplyScheduled(c)
    BY <1>1 DEF ApplyScheduled, Grant, OnItsVersion
<1>2. CASE ReviewScheduled(c)
    BY <1>2 DEF ReviewScheduled
<1> QED BY <1>1, <1>2 DEF Schedule

LEMMA EnvironmentKeepsRow ==
    ASSUME TypeOK, NEW c \in Change, RowConsistent(c), Environment(c)
    PROVE  RowConsistent(c)'
<1> USE DEF RowConsistent, GrantedBefore, Funded, Refundable, WithdrawnStays, TypeOK,
            planVars, rowVars, requestVars, remoteVars
<1>1. CASE DepositArrives(c)
    BY <1>1 DEF DepositArrives
<1>2. CASE DepositSettles(c)
    BY <1>2 DEF DepositSettles
<1>3. CASE PaybackArrives(c)
    BY <1>3 DEF PaybackArrives
<1>4. CASE PaybackSettles(c)
    BY <1>4 DEF PaybackSettles
<1>5. CASE GrowOld(c)
    BY <1>5 DEF GrowOld
<1>6. CASE ReachDate(c)
    BY <1>6 DEF ReachDate
<1> QED BY <1>1, <1>2, <1>3, <1>4, <1>5, <1>6 DEF Environment

\* A reconciliation that writes nothing but the caller's own state.
CallOnly(r) ==
    \/ \E c \in Change : BeginPayment(r, c) \/ BeginRefund(r, c)
    \/ AskPawaPay(r) \/ CallStops(r) \/ PaymentNotFound(r) \/ CompleteAgain(r)

LEMMA CallOnlySame ==
    ASSUME NEW r \in Caller, CallOnly(r), NEW c \in Change
    PROVE  RowSame(c) /\ version' = version
BY DEF CallOnly, BeginPayment, BeginRefund, Begin, AskPawaPay, CallStops, PaymentNotFound,
       CompleteAgain, RowSame, planVars, rowVars, requestVars, remoteVars

LEMMA ReconcileKeepsRow ==
    ASSUME TypeOK, NEW r \in Caller, call[r] # NoCall, CallTruthful(r),
           NEW c \in Change, c = call[r].chg, RowConsistent(c), Reconcile(r)
    PROVE  RowConsistent(c)'
<1>1. CASE CallOnly(r)
    BY <1>1, CallOnlySame, RowUntouched DEF TypeOK
<1>2. CASE ~CallOnly(r)
  <2> USE DEF RowConsistent, GrantedBefore, Funded, Refundable, WithdrawnStays, TypeOK,
              CallTruthful, planVars, rowVars, requestVars, remoteVars, Indexed,
              WritePayment, WriteChange, WriteRefund, OpenRefund
  <2>1. CASE PaymentInProgress(r)
      BY <2>1 DEF PaymentInProgress
  <2>2. CASE ExpireOverdue(r)
      BY <2>2 DEF ExpireOverdue
  <2>3. CASE PaymentFailed(r)
      BY <2>3 DEF PaymentFailed
  <2>4. CASE FailChange(r)
      BY <2>4 DEF FailChange
  <2>5. CASE CompleteForReview(r)
      BY <2>5 DEF CompleteForReview
  <2>6. CASE CompleteLater(r)
      BY <2>6 DEF CompleteLater, Answered, AwaitsPayment
  <2>7. CASE CompleteNow(r)
      BY <2>7 DEF CompleteNow, Answered, AwaitsPayment, OnItsVersion, Grant
  <2>8. CASE RefundCompleted(r)
      BY <2>8 DEF RefundCompleted, Answered
  <2>9. CASE RefundFailed(r)
      BY <2>9 DEF RefundFailed, Answered
  <2>10. CASE RefundUnsettled(r)
      BY <2>10 DEF RefundUnsettled, Answered
  <2> QED BY <1>2, <2>1, <2>2, <2>3, <2>4, <2>5, <2>6, <2>7, <2>8, <2>9, <2>10
          DEF Reconcile, CallOnly, Complete
<1> QED BY <1>1, <1>2

\* A step about one change writes no other change.
LEMMA OtherSame ==
    ASSUME TypeOK, NEW c \in Change, NEW d \in Change, c # d,
           Checkout(d) \/ Cancel(d) \/ Schedule(d) \/ Environment(d)
    PROVE  RowSame(c) /\ version' \in Nat /\ version <= version'
<1> USE DEF RowSame, TypeOK, planVars, rowVars, requestVars, remoteVars
<1>1. CASE Checkout(d)
    BY <1>1 DEF Checkout, Quote, OpenChange, InitiateAccepted, InitiateRejected,
                FailRejectedChange, InitiateUncertain
<1>2. CASE Cancel(d)
    BY <1>2 DEF Cancel, RequestCancellation, CancelPaidChange, CancelOpenChange,
                RefundAccepted, RefundRejected, RestoreChange, RefundUncertain
<1>3. CASE Schedule(d)
    BY <1>3 DEF Schedule, ApplyScheduled, ReviewScheduled, Grant
<1>4. CASE Environment(d)
    BY <1>4 DEF Environment, DepositArrives, DepositSettles, PaybackArrives,
                PaybackSettles, GrowOld, ReachDate
<1> QED BY <1>1, <1>2, <1>3, <1>4

LEMMA OtherSameInReconcile ==
    ASSUME TypeOK, NEW c \in Change, NEW r \in Caller, Reconcile(r),
           call[r] # NoCall => c # call[r].chg
    PROVE  RowSame(c) /\ version' \in Nat /\ version <= version'
<1>1. CASE CallOnly(r)
    BY <1>1, CallOnlySame DEF TypeOK
<1>2. CASE ~CallOnly(r)
  <2> USE DEF RowSame, TypeOK, planVars, rowVars, requestVars, remoteVars,
              WritePayment, WriteChange, WriteRefund, InPhase, Answered
  <2>1. CASE PaymentInProgress(r) \/ ExpireOverdue(r) \/ PaymentFailed(r) \/ FailChange(r)
      BY <2>1 DEF PaymentInProgress, ExpireOverdue, PaymentFailed, FailChange
  <2>2. CASE CompleteForReview(r) \/ CompleteLater(r) \/ CompleteNow(r)
      BY <2>2 DEF CompleteForReview, CompleteLater, CompleteNow, Grant
  <2>3. CASE RefundCompleted(r) \/ RefundFailed(r) \/ RefundUnsettled(r)
      BY <2>3 DEF RefundCompleted, RefundFailed, RefundUnsettled
  <2> QED BY <1>2, <2>1, <2>2, <2>3 DEF Reconcile, CallOnly, Complete
<1> QED BY <1>1, <1>2

LEMMA RowInductive ==
    ASSUME IInv, [Next]_vars, NEW c \in Change
    PROVE  RowConsistent(c)'
<1> USE DEF IInv
<1>1. ASSUME NEW d \in Change, Checkout(d) \/ Cancel(d) \/ Schedule(d) \/ Environment(d)
      PROVE  RowConsistent(c)'
  <2>1. CASE c = d
      BY <1>1, <2>1, CheckoutKeepsRow, CancelKeepsRow, ScheduleKeepsRow, EnvironmentKeepsRow
  <2>2. CASE c # d
      BY <1>1, <2>2, OtherSame, RowUntouched
  <2> QED BY <2>1, <2>2
<1>2. ASSUME NEW r \in Caller, Reconcile(r)
      PROVE  RowConsistent(c)'
  <2>1. CASE call[r] # NoCall /\ c = call[r].chg
      BY <1>2, <2>1, ReconcileKeepsRow
  <2>2. CASE call[r] # NoCall => c # call[r].chg
      BY <1>2, <2>2, OtherSameInReconcile, RowUntouched
  <2> QED BY <2>1, <2>2
<1>3. CASE PlanReplaced \/ EndTerm \/ UNCHANGED vars
  <2>1. RowSame(c) /\ version' \in Nat /\ version <= version'
      BY <1>3 DEF PlanReplaced, BeginTrial, CheckTrial, ActivateTrial, StopTrial, OverridePlan,
                  EndTerm, RowSame, TypeOK, vars, changeVars, planVars, rowVars, requestVars,
                  remoteVars
  <2> QED BY <2>1, RowUntouched
<1> QED BY <1>1, <1>2, <1>3 DEF Next

-----------------------------------------------------------------------------
(* Deposits and refunds only move forward *)

LEMMA Forward ==
    ASSUME IInv, [Next]_vars, NEW c \in Change
    PROVE  /\ deposit[c] \in {"COMPLETED", "FAILED"} => deposit'[c] = deposit[c]
           /\ payback[c] \in {"COMPLETED", "FAILED"} => payback'[c] = payback[c]
           /\ payment[c] # "NONE" => payment'[c] # "NONE"
           /\ refund[c] # "NONE" => refund'[c] # "NONE"
<1> USE DEF IInv
<1>1. ASSUME NEW d \in Change, Checkout(d) \/ Cancel(d) \/ Schedule(d) \/ Environment(d), c # d
      PROVE  RowSame(c)
    BY <1>1, OtherSame
<1>2. ASSUME NEW r \in Caller, Reconcile(r), call[r] # NoCall => c # call[r].chg
      PROVE  RowSame(c)
    BY <1>2, OtherSameInReconcile
<1>3. CASE \/ \E d \in Change \ {c} : Checkout(d) \/ Cancel(d) \/ Schedule(d) \/ Environment(d)
           \/ \E r \in Caller : Reconcile(r) /\ (call[r] # NoCall => c # call[r].chg)
    BY <1>1, <1>2, <1>3 DEF RowSame
<1> USE DEF RowConsistent, GrantedBefore, Refundable, TypeOK, planVars, rowVars,
            requestVars, remoteVars, OpenPayment, OpenRefund
<1>4. CASE Checkout(c)
    BY <1>4 DEF Checkout, Quote, OpenChange, InitiateAccepted, InitiateRejected,
                FailRejectedChange, InitiateUncertain
<1>5. CASE Cancel(c)
    BY <1>5 DEF Cancel, RequestCancellation, CancelPaidChange, CancelOpenChange,
                RefundAccepted, RefundRejected, RestoreChange, RefundUncertain
<1>6. CASE Schedule(c) \/ Environment(c)
    BY <1>6 DEF Schedule, ApplyScheduled, ReviewScheduled, Grant, Environment, DepositArrives,
                DepositSettles, PaybackArrives, PaybackSettles, GrowOld, ReachDate
<1>7. ASSUME NEW r \in Caller, Reconcile(r), call[r] # NoCall, c = call[r].chg
      PROVE  /\ deposit' = deposit /\ payback' = payback
             /\ payment[c] # "NONE" => payment'[c] # "NONE"
             /\ refund[c] # "NONE" => refund'[c] # "NONE"
  <2>1. CASE CallOnly(r)
      BY <2>1 DEF CallOnly, BeginPayment, BeginRefund, Begin, AskPawaPay, CallStops,
                  PaymentNotFound, CompleteAgain
  <2>2. CASE ~CallOnly(r)
      BY <1>7, <2>2 DEF Reconcile, CallOnly, PaymentInProgress, ExpireOverdue, PaymentFailed,
                  FailChange, Complete, CompleteForReview, CompleteLater, CompleteNow,
                  RefundCompleted, RefundFailed, RefundUnsettled,
                  WritePayment, WriteRefund
  <2> QED BY <2>1, <2>2
<1>8. CASE PlanReplaced \/ EndTerm \/ UNCHANGED vars
    BY <1>8 DEF PlanReplaced, BeginTrial, CheckTrial, ActivateTrial, StopTrial, OverridePlan,
                EndTerm, vars, changeVars
<1> QED BY <1>3, <1>4, <1>5, <1>6, <1>7, <1>8 DEF Next

-----------------------------------------------------------------------------
(* Calls *)

LEMMA CallUntouched ==
    ASSUME IInv, [Next]_vars, NEW r \in Caller, call'[r] = call[r]
    PROVE  CallTruthful(r)'
<1>1. CASE call[r] = NoCall
    BY <1>1 DEF CallTruthful
<1>2. CASE call[r] # NoCall
  <2>1. PICK c \in Change : c = call[r].chg
      BY <1>2, CallType DEF IInv
  <2>2. CallTruthful(r)
      BY DEF IInv
  <2> QED BY <1>2, <2>1, <2>2, Forward DEF CallTruthful
<1> QED BY <1>1, <1>2

\* Only a caller's own reconciliation changes its state.
LEMMA CallOfOther ==
    ASSUME TypeOK, [Next]_vars, NEW r \in Caller, ~Reconcile(r)
    PROVE  call'[r] = call[r]
<1> USE DEF planVars, rowVars, requestVars, remoteVars, changeVars, TypeOK
<1>1. ASSUME NEW c \in Change, Checkout(c)
      PROVE  call' = call
    BY <1>1 DEF Checkout, Quote, OpenChange, InitiateAccepted, InitiateRejected,
                FailRejectedChange, InitiateUncertain
<1>2. ASSUME NEW c \in Change, Cancel(c)
      PROVE  call' = call
    BY <1>2 DEF Cancel, RequestCancellation, CancelPaidChange, CancelOpenChange,
                RefundAccepted, RefundRejected, RestoreChange, RefundUncertain
<1>3. ASSUME NEW c \in Change, Schedule(c) \/ Environment(c)
      PROVE  call' = call
    BY <1>3 DEF Schedule, ApplyScheduled, ReviewScheduled, Environment, DepositArrives,
                DepositSettles, PaybackArrives, PaybackSettles, GrowOld, ReachDate
<1>4. ASSUME NEW q \in Caller, Reconcile(q)
      PROVE  call'[r] = call[r]
  <2>1. q # r
      BY <1>4
  <2>2. CASE CallOnly(q)
      BY <2>1, <2>2 DEF CallOnly, BeginPayment, BeginRefund, Begin, AskPawaPay, CallStops,
                        PaymentNotFound, CompleteAgain, Return, ReturnOpen
  <2>3. CASE ~CallOnly(q)
      BY <1>4, <2>1, <2>3 DEF Reconcile, CallOnly, PaymentInProgress, ExpireOverdue,
                PaymentFailed, FailChange, Complete, CompleteForReview, CompleteLater,
                CompleteNow, RefundCompleted, RefundFailed, RefundUnsettled, Return, ReturnOpen
  <2> QED BY <2>2, <2>3
<1>5. CASE PlanReplaced \/ EndTerm \/ UNCHANGED vars
    BY <1>5 DEF PlanReplaced, BeginTrial, CheckTrial, ActivateTrial, StopTrial, OverridePlan,
                EndTerm, vars
<1> QED BY <1>1, <1>2, <1>3, <1>4, <1>5 DEF Next

\* What a reconciliation remembers of pawaPay's answer is what pawaPay holds.
LEMMA CallsInductive ==
    ASSUME IInv, [Next]_vars, NEW r \in Caller
    PROVE  CallTruthful(r)'
<1> USE DEF IInv
<1>1. CASE ~Reconcile(r)
    BY <1>1, CallOfOther, CallUntouched
<1>2. ASSUME call'[r] = NoCall
      PROVE  CallTruthful(r)'
    BY <1>2 DEF CallTruthful
<1>3. ASSUME NEW c \in Change, BeginPayment(r, c)
      PROVE  CallTruthful(r)'
  <2>1. payment[c] # "NONE" /\ payment' = payment
      BY <1>3 DEF BeginPayment, Begin, OpenPayment
  <2>2. /\ call'[r].about = "DEPOSIT" /\ call'[r].phase = "CHECKING"
        /\ call'[r].chg = c /\ call'[r].answer = "NOT_FOUND"
      BY <1>3 DEF BeginPayment, Begin, TypeOK
  <2> QED BY <2>1, <2>2 DEF CallTruthful
<1>4. ASSUME NEW c \in Change, BeginRefund(r, c)
      PROVE  CallTruthful(r)'
  <2>1. refund[c] # "NONE" /\ refund' = refund /\ payment' = payment
      BY <1>4 DEF BeginRefund, Begin, OpenRefund
  <2>2. /\ call'[r].about = "REFUND" /\ call'[r].phase = "CHECKING"
        /\ call'[r].chg = c /\ call'[r].answer = "NOT_FOUND"
      BY <1>4 DEF BeginRefund, Begin, TypeOK
  <2>3. payment[c] # "NONE"
      BY <2>1 DEF RowConsistent, Refundable
  <2> QED BY <2>1, <2>2, <2>3 DEF CallTruthful
<1>5. CASE AskPawaPay(r)
  <2>1. call[r] # NoCall /\ call[r].phase = "CHECKING" /\ call[r] \in Calls /\ call[r].chg \in Change
      BY <1>5, CallType DEF AskPawaPay, InPhase
  <2>2. PICK a \in Answers : a = IF Remote(r) \in Found THEN Remote(r) ELSE "NOT_FOUND"
      BY DEF Answers
  <2>3. call' = [call EXCEPT ![r].phase = "ANSWERED", ![r].answer = a]
      BY <1>5, <2>2 DEF AskPawaPay
  <2>4. call'[r] = [call[r] EXCEPT !.phase = "ANSWERED", !.answer = a]
      BY <2>1, <2>3 DEF TypeOK, Calls
  <2>5. /\ call'[r].about = call[r].about /\ call'[r].chg = call[r].chg
        /\ call'[r].phase = "ANSWERED" /\ call'[r].answer = a
      BY <2>1, <2>4 DEF Calls
  <2>6. UNCHANGED <<deposit, payback, payment, refund>>
      BY <1>5 DEF AskPawaPay, remoteVars
  <2>7. a \in {"COMPLETED", "FAILED"} => Remote(r) = a
      BY <2>2
  <2> QED BY <2>1, <2>5, <2>6, <2>7 DEF CallTruthful, Remote, Calls
<1>6. CASE \/ PaymentNotFound(r) \/ PaymentInProgress(r) \/ PaymentFailed(r)
  <2>1. /\ call[r] # NoCall /\ call[r] \in Calls /\ call[r].chg \in Change
        /\ call[r].about = "DEPOSIT"
      BY <1>6, CallType DEF PaymentNotFound, PaymentInProgress, PaymentFailed, Answered, InPhase
  <2>2. PICK p \in {"EXPIRING", "FAILING"} :
             /\ call'[r] = NoCall \/ call'[r] = [call[r] EXCEPT !.phase = p]
             /\ p = "FAILING" => call[r].answer = "FAILED"
      BY <1>6, <2>1 DEF PaymentNotFound, PaymentInProgress, PaymentFailed, Answered,
                        ReturnOpen, TypeOK
  <2>3. UNCHANGED <<deposit, payback, refund>>
      BY <1>6 DEF PaymentNotFound, PaymentInProgress, PaymentFailed, remoteVars
  <2>4. payment'[call[r].chg] # "NONE"
    <3>1. payment[call[r].chg] # "NONE"
        BY <2>1 DEF CallTruthful
    <3> QED BY <1>6, <2>1, <3>1, Forward
  <2>5. CASE call'[r] = [call[r] EXCEPT !.phase = p]
    <3>1. /\ call'[r].about = "DEPOSIT" /\ call'[r].chg = call[r].chg
          /\ call'[r].phase = p /\ call'[r].answer = call[r].answer
        BY <2>1, <2>5 DEF Calls
    <3> QED BY <2>1, <2>2, <2>3, <2>4, <3>1 DEF CallTruthful
  <2> QED BY <1>2, <2>2, <2>5
<1>7. CASE \/ CallStops(r) \/ ExpireOverdue(r) \/ FailChange(r) \/ Complete(r)
           \/ RefundCompleted(r) \/ RefundFailed(r) \/ RefundUnsettled(r)
  <2>1. call'[r] = NoCall
      BY <1>7 DEF CallStops, ExpireOverdue, FailChange, Complete, CompleteAgain,
                  CompleteForReview, CompleteLater, CompleteNow, RefundCompleted,
                  RefundFailed, RefundUnsettled, Return, TypeOK
  <2> QED BY <1>2, <2>1
<1> QED BY <1>1, <1>3, <1>4, <1>5, <1>6, <1>7 DEF Reconcile

-----------------------------------------------------------------------------
(* The theorems *)

LEMMA InitIInv == Init => IInv
<1> SUFFICES ASSUME Init
             PROVE  IInv
    OBVIOUS
<1>1. TypeOK
    BY DEF Init, TypeOK, Statuses, OPEN_CHANGE_STATUSES, Payments, Refunds, Kinds, Remotes
<1>2. ASSUME NEW c \in Change
      PROVE  RowConsistent(c)
    BY DEF Init, RowConsistent, GrantedBefore, Funded, Refundable, WithdrawnStays, Indexed
<1>3. ASSUME NEW r \in Caller
      PROVE  CallTruthful(r)
    BY DEF Init, CallTruthful
<1> QED BY <1>1, <1>2, <1>3 DEF IInv

\* The inductive invariant holds throughout: a change takes effect at most once,
\* on the version of the plan it was asked for.
THEOREM InvariantHolds == Spec => []IInv
<1>1. IInv /\ [Next]_vars => IInv'
    BY TypeInductive, RowInductive, CallsInductive DEF IInv
<1> QED BY <1>1, InitIInv, PTL DEF Spec

\* A change whose price was given back has not taken effect and never will.
THEOREM RefundedNeverGranted == Spec => []RefundedNotGranted
<1>1. IInv => RefundedNotGranted
  <2> SUFFICES ASSUME IInv, NEW c \in Change, payback[c] = "COMPLETED"
               PROVE  periods[c] = 0 /\ change[c] \notin {"AWAITING_PAYMENT", "SCHEDULED", "APPLIED"}
      BY DEF RefundedNotGranted
  <2>1. periods[c] = 0 /\ change[c] \notin Indexed
      BY DEF IInv, RowConsistent, Refundable
  <2>2. change[c] # "APPLIED"
      BY <2>1 DEF IInv, RowConsistent, GrantedBefore
  <2> QED BY <2>1, <2>2 DEF Indexed
<1> QED BY <1>1, InvariantHolds, PTL

-----------------------------------------------------------------------------
(* The changes implement Plans *)

Free == {c \in Change : kind[c] = "CANCEL"}
PaidFor == {c \in Change : deposit[c] = "COMPLETED"}
Returned == {c \in Change : payback[c] = "COMPLETED"}

\* A step that settles nothing is invisible to Plans.
LEMMA PlansStutter ==
    ASSUME UNCHANGED <<version, source, periods, withdrawn, kind, deposit, payback>>
    PROVE  UNCHANGED Contract!vars
BY DEF Contract!vars

LEMMA CheckoutImplements ==
    ASSUME IInv, NEW c \in Change, Checkout(c)
    PROVE  [Contract!Next]_(Contract!vars)
<1> USE DEF IInv, planVars, rowVars, requestVars, remoteVars
<1>1. CASE Quote(c)
  <2>1. kind[c] # "CANCEL" /\ kind'[c] # "CANCEL"
      BY <1>1 DEF Quote, RowConsistent, GrantedBefore, Funded, TypeOK
  <2>2. Free' = Free
      BY <1>1, <2>1 DEF Quote, Free, TypeOK
  <2> QED BY <1>1, <2>2 DEF Quote, Free, Contract!vars
<1>2. CASE OpenChange(c)
  <2>1. source[c] = 0 /\ source' = [source EXCEPT ![c] = version] /\ kind' = kind
      BY <1>2 DEF OpenChange, RowConsistent, GrantedBefore
  <2>2. deposit[c] = "NONE"
      BY <2>1 DEF RowConsistent, GrantedBefore
  <2>3. PaidFor' = PaidFor
      BY <1>2, <2>2 DEF OpenChange, PaidFor, TypeOK
  <2>4. UNCHANGED <<version, periods, withdrawn, payback>>
      BY <1>2 DEF OpenChange
  <2>5. Contract!Ask(c)
      BY <2>1, <2>3, <2>4 DEF Contract!Ask, PaidFor
  <2> QED BY <2>5 DEF Contract!Next
<1>3. CASE ~Quote(c) /\ ~OpenChange(c)
    BY <1>3, PlansStutter DEF Checkout, InitiateAccepted, InitiateRejected,
                              FailRejectedChange, InitiateUncertain
<1> QED BY <1>1, <1>2, <1>3

LEMMA CancelImplements ==
    ASSUME IInv, NEW c \in Change, Cancel(c)
    PROVE  [Contract!Next]_(Contract!vars)
<1> USE DEF IInv, planVars, rowVars, requestVars, remoteVars
<1>1. CASE RequestCancellation(c)
  <2>1. source[c] = 0 /\ source' = [source EXCEPT ![c] = version]
      BY <1>1 DEF RequestCancellation, RowConsistent, GrantedBefore
  <2>2. Free' = Free \cup {c}
      BY <1>1 DEF RequestCancellation, Free, TypeOK
  <2>3. Contract!Ask(c)
      BY <1>1, <2>1, <2>2 DEF RequestCancellation, Contract!Ask, Free
  <2> QED BY <2>3 DEF Contract!Next
<1>2. CASE CancelPaidChange(c)
  <2>1. payback[c] # "COMPLETED"
      BY <1>2 DEF CancelPaidChange, RowConsistent, Refundable
  <2>2. Returned' = Returned
      BY <1>2, <2>1 DEF CancelPaidChange, Returned, TypeOK
  <2> QED BY <1>2, <2>2 DEF CancelPaidChange, Returned, Contract!vars
<1>3. CASE CancelOpenChange(c)
  <2>1. CASE refund[c] = "NONE"
    <3>1. periods[c] = 0
        BY <1>3, <2>1 DEF CancelOpenChange, RowConsistent, Refundable, Indexed
    <3>2. Contract!Withdraw(c)
        BY <1>3, <2>1, <3>1 DEF CancelOpenChange, Contract!Withdraw
    <3> QED BY <3>2 DEF Contract!Next
  <2>2. CASE refund[c] # "NONE"
      BY <1>3, <2>2, PlansStutter DEF CancelOpenChange
  <2> QED BY <2>1, <2>2
<1>4. CASE RefundAccepted(c) \/ RefundRejected(c) \/ RestoreChange(c) \/ RefundUncertain(c)
    BY <1>4, PlansStutter DEF RefundAccepted, RefundRejected, RestoreChange, RefundUncertain
<1> QED BY <1>1, <1>2, <1>3, <1>4 DEF Cancel

\* A change in force again, or for the first time: what Plans asks of it.
LEMMA GrantImplements ==
    ASSUME IInv, NEW c \in Change, change[c] \in Indexed, OnItsVersion(c), Grant(c),
           UNCHANGED <<source, kind, deposit, payback, withdrawn>>,
           change[c] = "AWAITING_PAYMENT" => deposit[c] = "COMPLETED"
    PROVE  Contract!Next
<1> USE DEF IInv
<1>1. RowConsistent(c) /\ periods[c] \in Nat
    BY DEF TypeOK
<1>2. periods[c] = 0
    BY <1>1 DEF RowConsistent, GrantedBefore, OnItsVersion, TypeOK
<1>3. payback[c] # "COMPLETED" /\ c \notin withdrawn
    BY <1>1 DEF RowConsistent, Refundable, WithdrawnStays
<1>4. kind[c] = "CANCEL" \/ deposit[c] = "COMPLETED"
    BY <1>1 DEF RowConsistent, Funded, Indexed
<1>5. Contract!Grant(c)
    BY <1>2, <1>3, <1>4 DEF Contract!Grant, Grant, OnItsVersion
<1> QED BY <1>5 DEF Contract!Next

LEMMA ReconcileImplements ==
    ASSUME IInv, NEW r \in Caller, Reconcile(r)
    PROVE  [Contract!Next]_(Contract!vars)
<1> USE DEF IInv, planVars, rowVars, requestVars, remoteVars
<1>1. CASE CallOnly(r)
    BY <1>1, PlansStutter DEF CallOnly, BeginPayment, BeginRefund, Begin, AskPawaPay,
              CallStops, PaymentNotFound, CompleteAgain
<1>2. CASE PaymentInProgress(r) \/ ExpireOverdue(r) \/ PaymentFailed(r) \/ FailChange(r)
    BY <1>2, PlansStutter DEF PaymentInProgress, ExpireOverdue, PaymentFailed, FailChange
<1>3. CASE CompleteForReview(r) \/ CompleteLater(r)
    BY <1>3, PlansStutter DEF CompleteForReview, CompleteLater
<1>4. CASE CompleteNow(r)
  <2>1. PICK c \in Change : c = call[r].chg
      BY <1>4, CallType DEF CompleteNow, Answered, InPhase
  <2>2. change[c] \in Indexed /\ OnItsVersion(c) /\ Grant(c)
      BY <1>4, <2>1 DEF CompleteNow, AwaitsPayment, Indexed
  <2>3. deposit[c] = "COMPLETED"
      BY <1>4, <2>1 DEF CompleteNow, Answered, InPhase, CallTruthful
  <2>4. UNCHANGED <<source, kind, deposit, payback, withdrawn>>
      BY <1>4 DEF CompleteNow
  <2> QED BY <2>2, <2>3, <2>4, GrantImplements
<1>5. CASE RefundCompleted(r) \/ RefundFailed(r) \/ RefundUnsettled(r)
    BY <1>5, PlansStutter DEF RefundCompleted, RefundFailed, RefundUnsettled
<1> QED BY <1>1, <1>2, <1>3, <1>4, <1>5 DEF Reconcile, CallOnly, Complete

LEMMA EnvironmentImplements ==
    ASSUME IInv, NEW c \in Change, Environment(c)
    PROVE  [Contract!Next]_(Contract!vars)
<1> USE DEF IInv, planVars, rowVars, requestVars, remoteVars
<1>1. CASE DepositArrives(c)
  <2>1. PaidFor' = PaidFor
      BY <1>1 DEF DepositArrives, PaidFor, TypeOK
  <2> QED BY <1>1, <2>1 DEF DepositArrives, PaidFor, Contract!vars
<1>2. CASE DepositSettles(c)
  <2>1. PaidFor' = PaidFor \/ PaidFor' = PaidFor \cup {c}
      BY <1>2 DEF DepositSettles, PaidFor, TypeOK
  <2>2. CASE PaidFor' = PaidFor
      BY <1>2, <2>2 DEF DepositSettles, PaidFor, Contract!vars
  <2>3. CASE PaidFor' = PaidFor \cup {c}
      BY <1>2, <2>3 DEF DepositSettles, PaidFor, Contract!Collect, Contract!Next
  <2> QED BY <2>1, <2>2, <2>3
<1>3. CASE PaybackArrives(c)
  <2>1. Returned' = Returned
      BY <1>3 DEF PaybackArrives, Returned, TypeOK
  <2> QED BY <1>3, <2>1 DEF PaybackArrives, Returned, Contract!vars
<1>4. CASE PaybackSettles(c)
  <2>1. Returned' = Returned \/ Returned' = Returned \cup {c}
      BY <1>4 DEF PaybackSettles, Returned, TypeOK
  <2>2. CASE Returned' = Returned
      BY <1>4, <2>2 DEF PaybackSettles, Returned, Contract!vars
  <2>3. CASE Returned' = Returned \cup {c}
    <3>1. periods[c] = 0 /\ deposit[c] = "COMPLETED"
        BY <1>4 DEF PaybackSettles, RowConsistent, Refundable
    <3> QED BY <1>4, <2>3, <3>1 DEF PaybackSettles, Returned, Contract!GiveBack, Contract!Next
  <2> QED BY <2>1, <2>2, <2>3
<1>5. CASE GrowOld(c) \/ ReachDate(c)
    BY <1>5, PlansStutter DEF GrowOld, ReachDate
<1> QED BY <1>1, <1>2, <1>3, <1>4, <1>5 DEF Environment

LEMMA StepImplementsPlans ==
    IInv /\ [Next]_vars => [Contract!Next]_(Contract!vars)
<1> SUFFICES ASSUME IInv, [Next]_vars
             PROVE  [Contract!Next]_(Contract!vars)
    OBVIOUS
<1> USE DEF planVars, rowVars, requestVars, remoteVars, changeVars
<1>1. ASSUME NEW c \in Change, Schedule(c)
      PROVE  [Contract!Next]_(Contract!vars)
  <2>1. CASE ApplyScheduled(c)
      BY <2>1, GrantImplements DEF ApplyScheduled, Indexed
  <2>2. CASE ReviewScheduled(c)
      BY <2>2, PlansStutter DEF ReviewScheduled
  <2> QED BY <1>1, <2>1, <2>2 DEF Schedule
<1>2. CASE ActivateTrial \/ OverridePlan
  <2>1. Contract!Replace
      BY <1>2 DEF ActivateTrial, OverridePlan, Contract!Replace
  <2> QED BY <2>1 DEF Contract!Next
<1>3. CASE BeginTrial \/ CheckTrial \/ StopTrial \/ EndTerm \/ UNCHANGED vars
    BY <1>3, PlansStutter DEF BeginTrial, CheckTrial, StopTrial, EndTerm, vars
<1> QED BY <1>1, <1>2, <1>3, CheckoutImplements, CancelImplements, ReconcileImplements,
           EnvironmentImplements DEF Next, PlanReplaced

\* Stale answers, retries, refunds and overrides included, a change takes effect as
\* in Plans: paid for, once, on its own version, never once refunded or withdrawn.
THEOREM ImplementsPlans == Spec => PlansSpec
<1>1. Init => Contract!Init
    BY DEF Init, Contract!Init
<1>2. IInv /\ [Next]_vars => [Contract!Next]_(Contract!vars)
    BY StepImplementsPlans
<1> QED BY <1>1, <1>2, InvariantHolds, PTL DEF Spec, PlansSpec, Contract!Spec

-----------------------------------------------------------------------------
(* Accounts *)

-----------------------------------------------------------------------------
(* Types of what the steps write *)

\* A request that goes on keeps its type.
LEMMA GoesTyped ==
    ASSUME AccountsTypeOK, NEW c \in Client, NEW step \in Steps, Goes(c, step)
    PROVE  asked' \in [Client -> Requests]
<1>1. [asked[c] EXCEPT !.step = step] \in Requests
    BY DEF AccountsTypeOK, Requests
<1> QED BY <1>1 DEF Goes, AccountsTypeOK

\* So does one that ends,
LEMMA EndsTyped ==
    ASSUME AccountsTypeOK, NEW c \in Client, Ends(c)
    PROVE  asked' \in [Client -> Requests]
<1>1. "NONE" \in Steps /\ 0 \in Versions /\ None \in Passwords /\ None \in Links
    BY AccountConstantsOK DEF Steps, Versions, Passwords, Links
<1>2. NoRequest \in Requests
    BY <1>1 DEF NoRequest, Requests
<1> QED BY <1>2 DEF Ends, AccountsTypeOK

\* and one that takes something with it.
LEMMA CarriesTyped ==
    ASSUME AccountsTypeOK, NEW c \in Client, NEW step \in Steps, NEW v \in Versions,
           NEW p \in Passwords, NEW l \in Links, Carries(c, step, v, p, l)
    PROVE  asked' \in [Client -> Requests]
<1>1. [step |-> step, version |-> v, password |-> p, link |-> l] \in Requests
    BY DEF Requests
<1> QED BY <1>1 DEF Carries, AccountsTypeOK

\* A dropped session keeps the type of the cookies,
LEMMA ClearTyped ==
    ASSUME AccountsTypeOK, NEW c \in Client, ClearSession(c)
    PROVE  cookie' \in [Client -> Sessions]
<1>1. NoSession \in Sessions
    BY AccountConstantsOK DEF NoSession, Sessions, Versions, Passwords
<1> QED BY <1>1 DEF ClearSession, AccountsTypeOK

\* and so does an issued one,
LEMMA IssueTyped ==
    ASSUME AccountsTypeOK, NEW c \in Client, NEW v \in Versions, NEW p \in Passwords, Issue(c, v, p)
    PROVE  cookie' \in [Client -> Sessions]
<1>1. [held |-> TRUE, version |-> v, password |-> p, access |-> TRUE] \in Sessions
    BY DEF Sessions
<1> QED BY <1>1 DEF Issue, AccountsTypeOK

\* and one whose access token has expired.
LEMMA AccessTyped ==
    ASSUME AccountsTypeOK, NEW c \in Client, cookie' = [cookie EXCEPT ![c].access = FALSE]
    PROVE  cookie' \in [Client -> Sessions]
<1>1. [cookie[c] EXCEPT !.access = FALSE] \in Sessions
    BY DEF AccountsTypeOK, Sessions
<1> QED BY <1>1 DEF AccountsTypeOK

\* The constants that requests carry belong to their sets.
LEMMA AccountsConstants ==
    /\ None \in Passwords /\ None \in Links /\ 0 \in Versions
    /\ Password \subseteq Passwords /\ Link \subseteq Links
    /\ {"NONE", "SIGNUP", "SEND_VERIFICATION", "RESEND", "VERIFY", "LOGIN", "UNVERIFIED",
        "ALLOWED", "ASKED", "REFUSED", "RETRIED", "AUTHORIZED", "CHANGE", "FORGOT", "SEND_RESET",
        "RESET"} = Steps
BY AccountConstantsOK DEF Passwords, Links, Versions, Steps

\* What a request and a session carry is of their types.
LEMMA Carried ==
    ASSUME AccountsTypeOK, NEW c \in Client
    PROVE  /\ asked[c].version \in Versions /\ asked[c].password \in Passwords
           /\ asked[c].link \in Links
           /\ cookie[c].password \in Passwords /\ account.version \in Versions
           /\ account.password \in Passwords
<1>1. asked[c] \in Requests /\ cookie[c] \in Sessions
    BY DEF AccountsTypeOK
<1> QED BY <1>1 DEF Requests, Sessions, AccountsTypeOK

\* Replacing the password raises the version.
LEMMA Raised ==
    ASSUME AccountsTypeOK, Room, NEW p \in Passwords,
           account' = [account EXCEPT !.password = p, !.version = @ + 1]
    PROVE  /\ account' \in [known: BOOLEAN, password: Passwords, version: Versions,
                            verified: BOOLEAN, active: BOOLEAN, archived: BOOLEAN]
           /\ account'.version > account.version
<1>1. account.version \in 0 .. MaxSessionVersion /\ account.version + 1 \in 0 .. MaxSessionVersion
    BY AccountConstantsOK DEF AccountsTypeOK, Room, Versions
<1>2. account'.version = account.version + 1
    BY DEF AccountsTypeOK
<1>3. account.version \in Nat
    BY <1>1
<1>4. account' = [known |-> account.known, password |-> p, version |-> account.version + 1,
                 verified |-> account.verified, active |-> account.active,
                 archived |-> account.archived]
    BY DEF AccountsTypeOK
<1>5. account' \in [known: BOOLEAN, password: Passwords, version: Versions,
                   verified: BOOLEAN, active: BOOLEAN, archived: BOOLEAN]
    BY <1>1, <1>4 DEF AccountsTypeOK, Versions
<1> QED BY <1>2, <1>3, <1>5

\* The two columns of a link.
LEMMA LinkRecords ==
    \A l \in Links, b \in BOOLEAN :
        [link |-> l, live |-> b] \in [link: Links, live: BOOLEAN]
OBVIOUS

\* No link at all.
LEMMA NoLinkRecord == [link |-> None, live |-> FALSE] \in [link: Links, live: BOOLEAN]
<1>1. None \in Links
    BY DEF Links
<1> QED BY <1>1, LinkRecords

-----------------------------------------------------------------------------
(* Sign-up and verification *)

\* Nothing is written while the first password is hashed.
LEMMA SignUpKeeps ==
    ASSUME AccountsIInv, NEW c \in Client, NEW p \in Password, SignUp(c, p)
    PROVE  AccountsIInv'
<1>1. asked' \in [Client -> Requests]
    BY AccountsConstants, CarriesTyped DEF AccountsIInv, AccountsTypeOK, SignUp
<1>2. AccountsTypeOK'
    BY <1>1 DEF AccountsIInv, AccountsTypeOK, accountRowVars, linkVars, SignUp
<1>3. SessionsTruthful'
    BY DEF AccountsIInv, AccountsTypeOK, SessionsTruthful, Truthful, accountRowVars, SignUp
<1>4. LoginsTruthful'
    BY DEF AccountsIInv, AccountsTypeOK, LoginsTruthful, Truthful, Requests, accountRowVars, Carries,
       SignUp
<1>5. NobodyBefore'
    BY DEF AccountsIInv, AccountsTypeOK, NobodyBefore, Requests, accountRowVars, Idle, Carries, SignUp
<1>6. LinksUnused' /\ ResetOnce' /\ LinksCarried'
    BY DEF AccountsIInv, AccountsTypeOK, LinksUnused, ResetOnce, LinksCarried, Requests, linkVars,
       Carries, SignUp
<1> QED BY <1>2, <1>3, <1>4, <1>5, <1>6 DEF AccountsIInv

\* The account is created with no session before it.
LEMMA SignUpCreatesKeeps ==
    ASSUME AccountsIInv, NEW c \in Client, NEW l \in Link, SignUpCreates(c, l)
    PROVE  AccountsIInv'
<1>1. asked' \in [Client -> Requests]
    BY AccountsConstants, EndsTyped, CarriesTyped DEF AccountsIInv, AccountsTypeOK, SignUpCreates
<1>2. AccountsTypeOK'
    <2>1. account' \in [known: BOOLEAN, password: Passwords, version: Versions,
                         verified: BOOLEAN, active: BOOLEAN, archived: BOOLEAN]
        BY Carried DEF AccountsIInv, AccountsTypeOK, accountRowVars, SignUpCreates
    <2>2. drawn' \subseteq Link /\ mail' \subseteq drawn'
        BY DEF AccountsIInv, AccountsTypeOK, linkVars, SignUpCreates
    <2>3. verification' \in [link: Links, live: BOOLEAN]
        BY LinkRecords, AccountsConstants DEF AccountsIInv, AccountsTypeOK, linkVars, SignUpCreates
    <2> QED BY <1>1, <2>1, <2>2, <2>3 DEF AccountsIInv, AccountsTypeOK, accountRowVars, linkVars, SignUpCreates
<1>3. SessionsTruthful'
    BY DEF AccountsIInv, AccountsTypeOK, SessionsTruthful, Truthful, NobodyBefore, accountRowVars,
       SignUpCreates
<1>4. LoginsTruthful'
    BY DEF AccountsIInv, AccountsTypeOK, LoginsTruthful, Truthful, NobodyBefore, NoRequest,
       Requests, accountRowVars, Ends, Carries, SignUpCreates
<1>5. NobodyBefore'
    BY DEF AccountsIInv, AccountsTypeOK, NobodyBefore, NoRequest, Requests, accountRowVars, Ends, Carries,
       SignUpCreates
<1>6. LinksUnused' /\ ResetOnce' /\ LinksCarried'
    <2>1. CASE account.known
        BY <2>1 DEF AccountsIInv, AccountsTypeOK, LinksUnused, ResetOnce, LinksCarried, NoRequest,
           linkVars, Ends, SignUpCreates
    <2>2. CASE ~account.known
        BY <2>2 DEF AccountsIInv, AccountsTypeOK, LinksUnused, ResetOnce, LinksCarried, Requests,
           Carries, SignUpCreates
    <2> QED BY <2>1, <2>2
<1> QED BY <1>2, <1>3, <1>4, <1>5, <1>6 DEF AccountsIInv

\* The e-mail carries a link that was drawn.
LEMMA VerificationSentKeeps ==
    ASSUME AccountsIInv, NEW c \in Client, VerificationSent(c)
    PROVE  AccountsIInv'
<1>1. asked' \in [Client -> Requests]
    BY AccountsConstants, EndsTyped DEF AccountsIInv, AccountsTypeOK, VerificationSent
<1>2. AccountsTypeOK'
    <2>1. asked[c].link \in drawn
        BY DEF AccountsIInv, LinksCarried, VerificationSent
    <2> QED BY <1>1, <2>1 DEF AccountsIInv, AccountsTypeOK, accountRowVars, linkVars, VerificationSent
<1>3. SessionsTruthful'
    BY DEF AccountsIInv, AccountsTypeOK, SessionsTruthful, Truthful, accountRowVars, VerificationSent
<1>4. LoginsTruthful'
    BY DEF AccountsIInv, AccountsTypeOK, LoginsTruthful, Truthful, NoRequest, accountRowVars, Ends,
       VerificationSent
<1>5. NobodyBefore'
    BY DEF AccountsIInv, AccountsTypeOK, NobodyBefore, NoRequest, accountRowVars, Ends, VerificationSent
<1>6. LinksUnused' /\ ResetOnce' /\ LinksCarried'
    BY DEF AccountsIInv, AccountsTypeOK, LinksUnused, ResetOnce, LinksCarried, NoRequest, Ends,
       VerificationSent
<1> QED BY <1>2, <1>3, <1>4, <1>5, <1>6 DEF AccountsIInv

\* Nothing is written before the new link.
LEMMA ResendKeeps ==
    ASSUME AccountsIInv, NEW c \in Client, Resend(c)
    PROVE  AccountsIInv'
<1>1. asked' \in [Client -> Requests]
    BY AccountsConstants, GoesTyped DEF AccountsIInv, AccountsTypeOK, Resend
<1>2. AccountsTypeOK'
    BY <1>1 DEF AccountsIInv, AccountsTypeOK, accountRowVars, linkVars, Resend
<1>3. SessionsTruthful'
    BY DEF AccountsIInv, AccountsTypeOK, SessionsTruthful, Truthful, accountRowVars, Resend
<1>4. LoginsTruthful'
    BY DEF AccountsIInv, AccountsTypeOK, LoginsTruthful, Truthful, Requests, accountRowVars, Goes, Resend
<1>5. NobodyBefore'
    BY DEF AccountsIInv, AccountsTypeOK, NobodyBefore, Requests, accountRowVars, Idle, Goes, Resend
<1>6. LinksUnused' /\ ResetOnce' /\ LinksCarried'
    BY DEF AccountsIInv, AccountsTypeOK, LinksUnused, ResetOnce, LinksCarried, Requests, linkVars,
       Goes, Resend
<1> QED BY <1>2, <1>3, <1>4, <1>5, <1>6 DEF AccountsIInv

\* A fresh link has changed nothing.
LEMMA ResendStoresKeeps ==
    ASSUME AccountsIInv, NEW c \in Client, NEW l \in Link, ResendStores(c, l)
    PROVE  AccountsIInv'
<1>1. asked' \in [Client -> Requests]
    BY AccountsConstants, CarriesTyped DEF AccountsIInv, AccountsTypeOK, ResendStores
<1>2. AccountsTypeOK'
    BY <1>1, AccountsConstants, LinkRecords DEF AccountsIInv, AccountsTypeOK, accountRowVars, ResendStores
<1>3. SessionsTruthful'
    BY DEF AccountsIInv, AccountsTypeOK, SessionsTruthful, Truthful, accountRowVars, ResendStores
<1>4. LoginsTruthful'
    BY DEF AccountsIInv, AccountsTypeOK, LoginsTruthful, Truthful, Requests, accountRowVars, Carries,
       ResendStores
<1>5. NobodyBefore'
    BY DEF AccountsIInv, AccountsTypeOK, NobodyBefore, Requests, accountRowVars, Carries, ResendStores
<1>6. LinksUnused' /\ ResetOnce' /\ LinksCarried'
    BY AccountConstantsOK DEF AccountsIInv, AccountsTypeOK, LinksUnused, ResetOnce, LinksCarried,
       Requests, Carries, ResendStores
<1> QED BY <1>2, <1>3, <1>4, <1>5, <1>6 DEF AccountsIInv

\* The link is only looked up.
LEMMA VerifyKeeps ==
    ASSUME AccountsIInv, NEW c \in Client, NEW l \in Link, Verify(c, l)
    PROVE  AccountsIInv'
<1>1. asked' \in [Client -> Requests]
    BY AccountsConstants, GoesTyped DEF AccountsIInv, AccountsTypeOK, Verify
<1>2. AccountsTypeOK'
    BY <1>1 DEF AccountsIInv, AccountsTypeOK, accountRowVars, linkVars, Verify
<1>3. SessionsTruthful'
    BY DEF AccountsIInv, AccountsTypeOK, SessionsTruthful, Truthful, accountRowVars, Verify
<1>4. LoginsTruthful'
    BY DEF AccountsIInv, AccountsTypeOK, LoginsTruthful, Truthful, Requests, accountRowVars, Goes, Verify
<1>5. NobodyBefore'
    BY DEF AccountsIInv, AccountsTypeOK, NobodyBefore, Requests, accountRowVars, Idle, Goes, Verify
<1>6. LinksUnused' /\ ResetOnce' /\ LinksCarried'
    BY DEF AccountsIInv, AccountsTypeOK, LinksUnused, ResetOnce, LinksCarried, Requests, linkVars,
       Goes, Verify
<1> QED BY <1>2, <1>3, <1>4, <1>5, <1>6 DEF AccountsIInv

\* Verifying touches neither password nor version.
LEMMA VerifyWritesKeeps ==
    ASSUME AccountsIInv, NEW c \in Client, VerifyWrites(c)
    PROVE  AccountsIInv'
<1>1. asked' \in [Client -> Requests]
    BY AccountsConstants, EndsTyped DEF AccountsIInv, AccountsTypeOK, VerifyWrites
<1>2. AccountsTypeOK'
    BY <1>1, AccountsConstants, LinkRecords DEF AccountsIInv, AccountsTypeOK, VerifyWrites
<1>3. SessionsTruthful'
    BY DEF AccountsIInv, AccountsTypeOK, SessionsTruthful, Truthful, VerifyWrites
<1>4. LoginsTruthful'
    BY DEF AccountsIInv, AccountsTypeOK, LoginsTruthful, Truthful, NoRequest, Ends, VerifyWrites
<1>5. NobodyBefore'
    BY DEF AccountsIInv, AccountsTypeOK, NobodyBefore, NoRequest, Ends, VerifyWrites
<1>6. LinksUnused' /\ ResetOnce' /\ LinksCarried'
    BY DEF AccountsIInv, AccountsTypeOK, LinksUnused, ResetOnce, LinksCarried, NoRequest, Ends,
       VerifyWrites
<1> QED BY <1>2, <1>3, <1>4, <1>5, <1>6 DEF AccountsIInv

-----------------------------------------------------------------------------
(* Sessions *)

\* The hash and the version are read together.
LEMMA LoginKeeps ==
    ASSUME AccountsIInv, NEW c \in Client, Login(c)
    PROVE  AccountsIInv'
<1>1. asked' \in [Client -> Requests]
    BY AccountsConstants, CarriesTyped DEF AccountsIInv, AccountsTypeOK, Login
<1>2. AccountsTypeOK'
    BY <1>1 DEF AccountsIInv, AccountsTypeOK, accountRowVars, linkVars, Login
<1>3. SessionsTruthful'
    BY DEF AccountsIInv, AccountsTypeOK, SessionsTruthful, Truthful, accountRowVars, Login
<1>4. LoginsTruthful'
    BY DEF AccountsIInv, AccountsTypeOK, LoginsTruthful, Truthful, Versions, Requests, accountRowVars,
       Carries, Login
<1>5. NobodyBefore'
    BY DEF AccountsIInv, AccountsTypeOK, NobodyBefore, Requests, accountRowVars, Idle, Carries, Login
<1>6. LinksUnused' /\ ResetOnce' /\ LinksCarried'
    BY DEF AccountsIInv, AccountsTypeOK, LinksUnused, ResetOnce, LinksCarried, Requests, linkVars,
       Carries, Login
<1> QED BY <1>2, <1>3, <1>4, <1>5, <1>6 DEF AccountsIInv

\* The second read keeps what the first one took.
LEMMA LoginAllowedKeeps ==
    ASSUME AccountsIInv, NEW c \in Client, LoginAllowed(c)
    PROVE  AccountsIInv'
<1>1. asked' \in [Client -> Requests]
    BY AccountsConstants, GoesTyped, EndsTyped DEF AccountsIInv, AccountsTypeOK, LoginAllowed
<1>2. cookie' \in [Client -> Sessions]
    BY ClearTyped DEF AccountsIInv, AccountsTypeOK, LoginAllowed
<1>3. AccountsTypeOK'
    BY <1>1, <1>2 DEF AccountsIInv, AccountsTypeOK, accountRowVars, linkVars, LoginAllowed
<1>4. SessionsTruthful'
    BY DEF AccountsIInv, AccountsTypeOK, SessionsTruthful, Truthful, NoSession, accountRowVars,
       ClearSession, Allowed, LoginAllowed
<1>5. LoginsTruthful'
    <2>1. \A d \in Client : asked'[d].step \in {"LOGIN", "ALLOWED"} =>
            /\ asked[d].step \in {"LOGIN", "ALLOWED"}
            /\ asked'[d].version = asked[d].version
            /\ asked'[d].password = asked[d].password
        BY DEF AccountsIInv, AccountsTypeOK, Requests, NoRequest, Goes, Ends, LoginAllowed
    <2> QED BY <2>1 DEF AccountsIInv, LoginsTruthful, Truthful, accountRowVars, LoginAllowed
<1>6. NobodyBefore'
    BY DEF AccountsIInv, AccountsTypeOK, NobodyBefore, NoRequest, Requests, NoSession, accountRowVars,
       Goes, Ends, ClearSession, Allowed, LoginAllowed
<1>7. LinksUnused' /\ ResetOnce' /\ LinksCarried'
    <2>1. \A d \in Client : asked'[d].step \in {"SEND_VERIFICATION", "SEND_RESET",
       "RESET"} =>
            asked'[d] = asked[d]
        BY DEF AccountsIInv, AccountsTypeOK, Requests, NoRequest, Goes, Ends, LoginAllowed
    <2> QED BY <2>1 DEF AccountsIInv, LinksUnused, ResetOnce, LinksCarried, linkVars,
            LoginAllowed
<1> QED BY <1>3, <1>4, <1>5, <1>6, <1>7 DEF AccountsIInv

\* The session repeats what the login read.
LEMMA LoginIssuesKeeps ==
    ASSUME AccountsIInv, NEW c \in Client, LoginIssues(c)
    PROVE  AccountsIInv'
<1>1. asked' \in [Client -> Requests]
    BY AccountsConstants, EndsTyped DEF AccountsIInv, AccountsTypeOK, LoginIssues, Requests, Sessions
<1>2. cookie' \in [Client -> Sessions]
    BY AccountsConstants, IssueTyped DEF AccountsIInv, AccountsTypeOK, LoginIssues, Requests, Sessions
<1>3. AccountsTypeOK'
    BY <1>1, <1>2 DEF AccountsIInv, AccountsTypeOK, accountRowVars, linkVars, LoginIssues
<1>4. SessionsTruthful'
    BY DEF AccountsIInv, AccountsTypeOK, SessionsTruthful, Truthful, LoginsTruthful, Requests,
       Versions, Sessions, accountRowVars, Issue, LoginIssues
<1>5. LoginsTruthful'
    BY DEF AccountsIInv, AccountsTypeOK, LoginsTruthful, Truthful, NoRequest, accountRowVars, Ends,
       LoginIssues
<1>6. NobodyBefore'
    BY DEF AccountsIInv, AccountsTypeOK, NobodyBefore, NoRequest, accountRowVars, Ends, Issue, LoginIssues
<1>7. LinksUnused' /\ ResetOnce' /\ LinksCarried'
    BY DEF AccountsIInv, AccountsTypeOK, LinksUnused, ResetOnce, LinksCarried, NoRequest, linkVars,
       Ends, LoginIssues
<1> QED BY <1>3, <1>4, <1>5, <1>6, <1>7 DEF AccountsIInv

\* A request begins.
LEMMA AskKeeps ==
    ASSUME AccountsIInv, NEW c \in Client, Ask(c)
    PROVE  AccountsIInv'
<1>1. asked' \in [Client -> Requests]
    BY AccountsConstants, GoesTyped DEF AccountsIInv, AccountsTypeOK, Ask
<1>2. AccountsTypeOK'
    BY <1>1 DEF AccountsIInv, AccountsTypeOK, accountRowVars, linkVars, Ask
<1>3. SessionsTruthful'
    BY DEF AccountsIInv, AccountsTypeOK, SessionsTruthful, Truthful, accountRowVars, Ask
<1>4. LoginsTruthful'
    BY DEF AccountsIInv, AccountsTypeOK, LoginsTruthful, Truthful, Requests, accountRowVars, Goes, Ask
<1>5. NobodyBefore'
    BY DEF AccountsIInv, AccountsTypeOK, NobodyBefore, Requests, accountRowVars, Idle, Goes, Ask
<1>6. LinksUnused' /\ ResetOnce' /\ LinksCarried'
    BY DEF AccountsIInv, AccountsTypeOK, LinksUnused, ResetOnce, LinksCarried, Requests, linkVars,
       Goes, Ask
<1> QED BY <1>2, <1>3, <1>4, <1>5, <1>6 DEF AccountsIInv

\* A refused session is dropped.
LEMMA AuthenticateKeeps ==
    ASSUME AccountsIInv, NEW c \in Client, Authenticate(c)
    PROVE  AccountsIInv'
<1>1. asked' \in [Client -> Requests]
    BY AccountsConstants, GoesTyped, EndsTyped DEF AccountsIInv, AccountsTypeOK, Authenticate
<1>2. cookie' \in [Client -> Sessions]
    BY ClearTyped, AccessTyped DEF AccountsIInv, AccountsTypeOK, Authenticate
<1>3. AccountsTypeOK'
    BY <1>1, <1>2 DEF AccountsIInv, AccountsTypeOK, accountRowVars, linkVars, Authenticate
<1>4. SessionsTruthful'
    BY DEF AccountsIInv, AccountsTypeOK, SessionsTruthful, Truthful, NoSession, accountRowVars,
       ClearSession, InForce, Allowed, Authenticate
<1>5. LoginsTruthful'
    BY DEF AccountsIInv, AccountsTypeOK, LoginsTruthful, Truthful, NoRequest, Requests, accountRowVars,
       Goes, Ends, Authenticate
<1>6. NobodyBefore'
    BY DEF AccountsIInv, AccountsTypeOK, NobodyBefore, NoRequest, Requests, NoSession, accountRowVars,
       Goes, Ends, ClearSession, InForce, Allowed, Authenticate
<1>7. LinksUnused' /\ ResetOnce' /\ LinksCarried'
  <2>1. UNCHANGED linkVars
      BY DEF Authenticate
  <2>2. \A d \in Client : asked'[d].step \in {"SEND_VERIFICATION", "SEND_RESET", "RESET"} =>
          asked'[d] = asked[d]
      BY DEF AccountsIInv, AccountsTypeOK, Requests, NoRequest, Goes, Ends, Authenticate
  <2>3. LinksUnused' /\ ResetOnce'
      BY <2>1 DEF AccountsIInv, LinksUnused, ResetOnce, linkVars
  <2>4. LinksCarried'
      BY <2>1, <2>2 DEF AccountsIInv, LinksCarried, linkVars
  <2> QED BY <2>3, <2>4
<1> QED BY <1>3, <1>4, <1>5, <1>6, <1>7 DEF AccountsIInv

\* A session in force is renewed with the version it has.
LEMMA RefreshKeeps ==
    ASSUME AccountsIInv, NEW c \in Client, Refresh(c)
    PROVE  AccountsIInv'
<1>1. asked' \in [Client -> Requests]
    BY AccountsConstants, GoesTyped, EndsTyped DEF AccountsIInv, AccountsTypeOK, Refresh, Requests, Sessions
<1>2. cookie' \in [Client -> Sessions]
    BY AccountsConstants, ClearTyped, IssueTyped DEF AccountsIInv, AccountsTypeOK, Refresh, Requests,
       Sessions
<1>3. AccountsTypeOK'
    BY <1>1, <1>2 DEF AccountsIInv, AccountsTypeOK, accountRowVars, linkVars, Refresh
<1>4. SessionsTruthful'
    <2>1. \A d \in Client : cookie'[d].held =>
            \/ cookie'[d] = cookie[d]
            \/ cookie'[d].version = account.version /\ cookie'[d].password =
               cookie[c].password
               /\ InForce(cookie[c])
        BY DEF AccountsIInv, AccountsTypeOK, NoSession, Issue, ClearSession, Refresh
    <2> QED BY <2>1 DEF AccountsIInv, AccountsTypeOK, SessionsTruthful, Truthful, InForce, Versions,
            accountRowVars, Refresh
<1>5. LoginsTruthful'
  <2>1. UNCHANGED accountRowVars
      BY DEF Refresh
  <2>2. \A d \in Client : asked'[d].step \in {"LOGIN", "ALLOWED"} => asked'[d] = asked[d]
      BY DEF AccountsIInv, AccountsTypeOK, NoRequest, Requests, Goes, Ends, Refresh
  <2> QED BY <2>1, <2>2 DEF AccountsIInv, LoginsTruthful, Truthful, accountRowVars
<1>6. NobodyBefore'
    BY DEF AccountsIInv, AccountsTypeOK, NobodyBefore, NoRequest, Requests, NoSession, accountRowVars,
       Goes, Ends, Issue, ClearSession, InForce, Allowed, Refresh
<1>7. LinksUnused' /\ ResetOnce' /\ LinksCarried'
    <2>1. \A d \in Client : asked'[d].step \in {"SEND_VERIFICATION", "SEND_RESET",
       "RESET"} =>
            asked'[d] = asked[d]
        BY DEF AccountsIInv, AccountsTypeOK, Requests, NoRequest, Goes, Ends, Refresh
    <2> QED BY <2>1 DEF AccountsIInv, LinksUnused, ResetOnce, LinksCarried, linkVars, Refresh
<1> QED BY <1>3, <1>4, <1>5, <1>6, <1>7 DEF AccountsIInv

\* The request ends.
LEMMA AnswerKeeps ==
    ASSUME AccountsIInv, NEW c \in Client, Answer(c)
    PROVE  AccountsIInv'
<1>1. asked' \in [Client -> Requests]
    BY AccountsConstants, EndsTyped DEF AccountsIInv, AccountsTypeOK, Answer
<1>2. AccountsTypeOK'
    BY <1>1 DEF AccountsIInv, AccountsTypeOK, accountRowVars, linkVars, Answer
<1>3. SessionsTruthful'
    BY DEF AccountsIInv, AccountsTypeOK, SessionsTruthful, Truthful, accountRowVars, Answer
<1>4. LoginsTruthful'
    BY DEF AccountsIInv, AccountsTypeOK, LoginsTruthful, Truthful, NoRequest, accountRowVars, Ends, Answer
<1>5. NobodyBefore'
    BY DEF AccountsIInv, AccountsTypeOK, NobodyBefore, NoRequest, accountRowVars, Ends, Answer
<1>6. LinksUnused' /\ ResetOnce' /\ LinksCarried'
    BY DEF AccountsIInv, AccountsTypeOK, LinksUnused, ResetOnce, LinksCarried, NoRequest, linkVars,
       Ends, Answer
<1> QED BY <1>2, <1>3, <1>4, <1>5, <1>6 DEF AccountsIInv

\* The version rises, so no session claims it yet.
LEMMA LogoutKeeps ==
    ASSUME AccountsIInv, NEW c \in Client, Logout(c)
    PROVE  AccountsIInv'
<1>1. asked' \in [Client -> Requests]
    BY AccountsConstants, EndsTyped DEF AccountsIInv, AccountsTypeOK, Logout
<1>2. cookie' \in [Client -> Sessions]
    BY ClearTyped DEF AccountsIInv, AccountsTypeOK, Logout
<1>3. AccountsTypeOK'
    <2>1. account' \in [known: BOOLEAN, password: Passwords, version: Versions,
                         verified: BOOLEAN, active: BOOLEAN, archived: BOOLEAN]
        BY Carried, AccountConstantsOK DEF AccountsIInv, AccountsTypeOK, Versions, Room, Logout
    <2> QED BY <1>1, <1>2, <2>1 DEF AccountsIInv, AccountsTypeOK, accountRowVars, linkVars, Logout
<1>4. SessionsTruthful'
    BY DEF AccountsIInv, AccountsTypeOK, SessionsTruthful, Truthful, Versions, Sessions, NoSession,
       ClearSession, Room, Logout
<1>5. LoginsTruthful'
    BY DEF AccountsIInv, AccountsTypeOK, LoginsTruthful, Truthful, Versions, NoRequest, Requests,
       Ends, Room, Logout
<1>6. NobodyBefore'
    BY DEF AccountsIInv, AccountsTypeOK, NobodyBefore, NoRequest, NoSession, Ends, ClearSession,
       Logout
<1>7. LinksUnused' /\ ResetOnce' /\ LinksCarried'
    BY DEF AccountsIInv, AccountsTypeOK, LinksUnused, ResetOnce, LinksCarried, NoRequest, linkVars,
       Ends, Logout
<1> QED BY <1>3, <1>4, <1>5, <1>6, <1>7 DEF AccountsIInv

\* Nothing is written while the new password is hashed.
LEMMA ChangePasswordKeeps ==
    ASSUME AccountsIInv, NEW c \in Client, NEW p \in Password, ChangePassword(c, p)
    PROVE  AccountsIInv'
<1>1. asked' \in [Client -> Requests]
    BY AccountsConstants, CarriesTyped DEF AccountsIInv, AccountsTypeOK, ChangePassword
<1>2. AccountsTypeOK'
    BY <1>1 DEF AccountsIInv, AccountsTypeOK, accountRowVars, linkVars, ChangePassword
<1>3. SessionsTruthful'
    BY DEF AccountsIInv, AccountsTypeOK, SessionsTruthful, Truthful, accountRowVars, ChangePassword
<1>4. LoginsTruthful'
    BY DEF AccountsIInv, AccountsTypeOK, LoginsTruthful, Truthful, Requests, accountRowVars, Carries,
       ChangePassword
<1>5. NobodyBefore'
    BY DEF AccountsIInv, AccountsTypeOK, NobodyBefore, Requests, accountRowVars, Carries, ChangePassword
<1>6. LinksUnused' /\ ResetOnce' /\ LinksCarried'
    BY DEF AccountsIInv, AccountsTypeOK, LinksUnused, ResetOnce, LinksCarried, Requests, linkVars,
       Carries, ChangePassword
<1> QED BY <1>2, <1>3, <1>4, <1>5, <1>6 DEF AccountsIInv

\* The version rises with the password.
LEMMA ChangeWritesKeeps ==
    ASSUME AccountsIInv, NEW c \in Client, ChangeWrites(c)
    PROVE  AccountsIInv'
<1>1. asked' \in [Client -> Requests]
    BY AccountsConstants, EndsTyped DEF AccountsIInv, AccountsTypeOK, ChangeWrites
<1>2. cookie' \in [Client -> Sessions]
    BY ClearTyped DEF AccountsIInv, AccountsTypeOK, ChangeWrites
<1>3. AccountsTypeOK'
    <2>1. /\ account' \in [known: BOOLEAN, password: Passwords, version: Versions,
                            verified: BOOLEAN, active: BOOLEAN, archived: BOOLEAN]
          /\ account'.version > account.version
        BY Carried, Raised DEF AccountsIInv, ChangeWrites
    <2> QED BY <1>1, <1>2, <2>1 DEF AccountsIInv, AccountsTypeOK, accountRowVars, linkVars, ChangeWrites
<1>4. SessionsTruthful'
    BY DEF AccountsIInv, AccountsTypeOK, SessionsTruthful, Truthful, Versions, Sessions, NoSession,
       ClearSession, Room, ChangeWrites
<1>5. LoginsTruthful'
    BY DEF AccountsIInv, AccountsTypeOK, LoginsTruthful, Truthful, Versions, NoRequest, Requests,
       Ends, Room, ChangeWrites
<1>6. NobodyBefore'
    BY DEF AccountsIInv, AccountsTypeOK, NobodyBefore, NoRequest, NoSession, Ends, ClearSession,
       ChangeWrites
<1>7. LinksUnused' /\ ResetOnce' /\ LinksCarried'
    BY DEF AccountsIInv, AccountsTypeOK, LinksUnused, ResetOnce, LinksCarried, NoRequest, linkVars,
       Ends, ChangeWrites
<1> QED BY <1>3, <1>4, <1>5, <1>6, <1>7 DEF AccountsIInv

\* Archiving leaves password and version.
LEMMA DeleteOrganizationKeeps ==
    ASSUME AccountsIInv, NEW c \in Client, DeleteOrganization(c)
    PROVE  AccountsIInv'
<1>1. asked' \in [Client -> Requests]
    BY AccountsConstants, EndsTyped DEF AccountsIInv, AccountsTypeOK, DeleteOrganization
<1>2. cookie' \in [Client -> Sessions]
    BY AccessTyped DEF AccountsIInv, AccountsTypeOK, DeleteOrganization
<1>3. AccountsTypeOK'
    BY <1>1, <1>2 DEF AccountsIInv, AccountsTypeOK, linkVars, DeleteOrganization
<1>4. SessionsTruthful'
    BY DEF AccountsIInv, AccountsTypeOK, SessionsTruthful, Truthful, DeleteOrganization
<1>5. LoginsTruthful'
    BY DEF AccountsIInv, AccountsTypeOK, LoginsTruthful, Truthful, NoRequest, Ends,
       DeleteOrganization
<1>6. NobodyBefore'
    BY DEF AccountsIInv, AccountsTypeOK, NobodyBefore, NoRequest, Ends, DeleteOrganization
<1>7. LinksUnused' /\ ResetOnce' /\ LinksCarried'
    BY DEF AccountsIInv, AccountsTypeOK, LinksUnused, ResetOnce, LinksCarried, NoRequest, linkVars,
       Ends, DeleteOrganization
<1> QED BY <1>3, <1>4, <1>5, <1>6, <1>7 DEF AccountsIInv

-----------------------------------------------------------------------------
(* A forgotten password *)

\* Nothing is written before the link.
LEMMA ForgotKeeps ==
    ASSUME AccountsIInv, NEW c \in Client, Forgot(c)
    PROVE  AccountsIInv'
<1>1. asked' \in [Client -> Requests]
    BY AccountsConstants, GoesTyped DEF AccountsIInv, AccountsTypeOK, Forgot
<1>2. AccountsTypeOK'
    BY <1>1 DEF AccountsIInv, AccountsTypeOK, accountRowVars, linkVars, Forgot
<1>3. SessionsTruthful'
    BY DEF AccountsIInv, AccountsTypeOK, SessionsTruthful, Truthful, accountRowVars, Forgot
<1>4. LoginsTruthful'
    BY DEF AccountsIInv, AccountsTypeOK, LoginsTruthful, Truthful, Requests, accountRowVars, Goes, Forgot
<1>5. NobodyBefore'
    BY DEF AccountsIInv, AccountsTypeOK, NobodyBefore, Requests, accountRowVars, Idle, Goes, Forgot
<1>6. LinksUnused' /\ ResetOnce' /\ LinksCarried'
    BY DEF AccountsIInv, AccountsTypeOK, LinksUnused, ResetOnce, LinksCarried, Requests, linkVars,
       Goes, Forgot
<1> QED BY <1>2, <1>3, <1>4, <1>5, <1>6 DEF AccountsIInv

\* A fresh link has changed nothing.
LEMMA ForgotStoresKeeps ==
    ASSUME AccountsIInv, NEW c \in Client, NEW l \in Link, ForgotStores(c, l)
    PROVE  AccountsIInv'
<1>1. asked' \in [Client -> Requests]
    BY AccountsConstants, CarriesTyped DEF AccountsIInv, AccountsTypeOK, ForgotStores
<1>2. AccountsTypeOK'
    BY <1>1, AccountsConstants, LinkRecords DEF AccountsIInv, AccountsTypeOK, accountRowVars, ForgotStores
<1>3. SessionsTruthful'
    BY DEF AccountsIInv, AccountsTypeOK, SessionsTruthful, Truthful, accountRowVars, ForgotStores
<1>4. LoginsTruthful'
    BY DEF AccountsIInv, AccountsTypeOK, LoginsTruthful, Truthful, Requests, accountRowVars, Carries,
       ForgotStores
<1>5. NobodyBefore'
    BY DEF AccountsIInv, AccountsTypeOK, NobodyBefore, Requests, accountRowVars, Carries, ForgotStores
<1>6. LinksUnused' /\ ResetOnce' /\ LinksCarried'
    BY AccountConstantsOK DEF AccountsIInv, AccountsTypeOK, LinksUnused, ResetOnce, LinksCarried,
       Requests, Carries, ForgotStores
<1> QED BY <1>2, <1>3, <1>4, <1>5, <1>6 DEF AccountsIInv

\* Withdrawing a link leaves none in the row.
LEMMA ResetSentKeeps ==
    ASSUME AccountsIInv, NEW c \in Client, ResetSent(c)
    PROVE  AccountsIInv'
<1>1. asked' \in [Client -> Requests]
    BY AccountsConstants, EndsTyped DEF AccountsIInv, AccountsTypeOK, ResetSent
<1>2. AccountsTypeOK'
    <2>1. asked[c].link \in drawn
        BY DEF AccountsIInv, LinksCarried, ResetSent
    <2>2. mail' \subseteq drawn /\ cooling' \in BOOLEAN
        BY <2>1 DEF AccountsIInv, AccountsTypeOK, ResetSent
    <2>3. reset' \in [link: Links, live: BOOLEAN]
        BY NoLinkRecord DEF AccountsIInv, AccountsTypeOK, ResetSent
    <2> QED BY <1>1, <2>2, <2>3 DEF AccountsIInv, AccountsTypeOK, accountRowVars, ResetSent
<1>3. SessionsTruthful'
    BY DEF AccountsIInv, AccountsTypeOK, SessionsTruthful, Truthful, accountRowVars, ResetSent
<1>4. LoginsTruthful'
    BY DEF AccountsIInv, AccountsTypeOK, LoginsTruthful, Truthful, NoRequest, accountRowVars, Ends,
       ResetSent
<1>5. NobodyBefore'
    BY DEF AccountsIInv, AccountsTypeOK, NobodyBefore, NoRequest, accountRowVars, Ends, ResetSent
<1>6. LinksUnused' /\ ResetOnce' /\ LinksCarried'
    BY DEF AccountsIInv, AccountsTypeOK, LinksUnused, ResetOnce, LinksCarried, NoRequest, Ends,
       ResetSent
<1> QED BY <1>2, <1>3, <1>4, <1>5, <1>6 DEF AccountsIInv

\* The link is looked up, and carried on.
LEMMA ResetKeeps ==
    ASSUME AccountsIInv, NEW c \in Client, NEW l \in Link, NEW p \in Password, Reset(c, l, p)
    PROVE  AccountsIInv'
<1>1. asked' \in [Client -> Requests]
    BY AccountsConstants, CarriesTyped DEF AccountsIInv, AccountsTypeOK, Reset
<1>2. AccountsTypeOK'
    BY <1>1 DEF AccountsIInv, AccountsTypeOK, accountRowVars, linkVars, Reset
<1>3. SessionsTruthful'
    BY DEF AccountsIInv, AccountsTypeOK, SessionsTruthful, Truthful, accountRowVars, Reset
<1>4. LoginsTruthful'
    BY DEF AccountsIInv, AccountsTypeOK, LoginsTruthful, Truthful, Requests, accountRowVars, Carries, Reset
<1>5. NobodyBefore'
    BY DEF AccountsIInv, AccountsTypeOK, NobodyBefore, Requests, accountRowVars, Idle, Carries, Reset
<1>6. LinksUnused' /\ ResetOnce' /\ LinksCarried'
    BY DEF AccountsIInv, AccountsTypeOK, LinksUnused, ResetOnce, LinksCarried, Requests, linkVars,
       Carries, Reset
<1> QED BY <1>2, <1>3, <1>4, <1>5, <1>6 DEF AccountsIInv

\* The write needs the link in the row, and clears it there.
LEMMA ResetWritesKeeps ==
    ASSUME AccountsIInv, NEW c \in Client, ResetWrites(c)
    PROVE  AccountsIInv'
<1>1. asked' \in [Client -> Requests]
    BY AccountsConstants, EndsTyped DEF AccountsIInv, AccountsTypeOK, ResetWrites
<1>2. cookie' \in [Client -> Sessions]
    BY ClearTyped DEF AccountsIInv, AccountsTypeOK, ResetWrites
<1>3. AccountsTypeOK'
    <2>1. CASE ~ResetStands(c)
        BY <1>1, <1>2, <2>1 DEF AccountsIInv, AccountsTypeOK, ResetWrites
    <2>2. CASE ResetStands(c)
        <3>1. account' \in [known: BOOLEAN, password: Passwords, version: Versions,
                            verified: BOOLEAN, active: BOOLEAN, archived: BOOLEAN]
            BY <2>2, Carried, Raised DEF AccountsIInv, ResetWrites
        <3>2. reset' \in [link: Links, live: BOOLEAN] /\ cooling' \in BOOLEAN
            BY <2>2, NoLinkRecord DEF ResetWrites
        <3>3. changed' \in [Link -> Nat]
            BY <2>2 DEF AccountsIInv, AccountsTypeOK, ResetWrites
        <3> QED BY <1>1, <1>2, <3>1, <3>2, <3>3 DEF AccountsIInv, AccountsTypeOK, ResetWrites
    <2> QED BY <2>1, <2>2
<1>4. SessionsTruthful'
    <2>1. \A d \in Client : cookie'[d].held => cookie'[d] = cookie[d]
        BY DEF AccountsIInv, AccountsTypeOK, NoSession, ClearSession, ResetWrites
    <2>2. account' = account \/ account'.version > account.version
        BY Carried, Raised DEF AccountsIInv, ResetWrites
    <2>3. account.version \in Nat /\ account'.version \in Nat /\ AccountsTypeOK'
        BY <1>3 DEF AccountsIInv, AccountsTypeOK, Versions
    <2>4. \A d \in Client : cookie[d].version \in Nat
        BY DEF AccountsIInv, AccountsTypeOK, Sessions, Versions
    <2> QED BY <2>1, <2>2, <2>3, <2>4 DEF AccountsIInv, SessionsTruthful, Truthful
<1>5. LoginsTruthful'
    <2>1. \A d \in Client : asked'[d].step \in {"LOGIN", "ALLOWED"} => asked'[d] =
       asked[d]
        BY DEF AccountsIInv, AccountsTypeOK, NoRequest, Ends, ResetWrites
    <2>2. account' = account \/ account'.version > account.version
        BY Carried, Raised DEF AccountsIInv, ResetWrites
    <2>3. account.version \in Nat /\ account'.version \in Nat /\ AccountsTypeOK'
        BY <1>3 DEF AccountsIInv, AccountsTypeOK, Versions
    <2>4. \A d \in Client : asked[d].version \in Nat
        BY DEF AccountsIInv, AccountsTypeOK, Requests, Versions
    <2> QED BY <2>1, <2>2, <2>3, <2>4 DEF AccountsIInv, LoginsTruthful, Truthful
<1>6. NobodyBefore'
    BY DEF AccountsIInv, AccountsTypeOK, NobodyBefore, NoRequest, NoSession, Ends, ClearSession,
       ResetWrites
<1>7. LinksUnused' /\ ResetOnce' /\ LinksCarried'
    <2>1. \A d \in Client : asked'[d].step \in {"SEND_VERIFICATION", "SEND_RESET",
       "RESET"} =>
            asked'[d] = asked[d]
        BY DEF AccountsIInv, AccountsTypeOK, NoRequest, Ends, ResetWrites
    <2>2. LinksCarried'
        BY <2>1 DEF AccountsIInv, LinksCarried, ResetWrites
    <2>3. CASE ResetStands(c)
        <3>1. changed[asked[c].link] = 0 /\ asked[c].link \in Link
            BY <2>3, AccountConstantsOK DEF AccountsIInv, AccountsTypeOK, LinksUnused, LinksCarried,
               ResetStands, ResetWrites
        <3> QED BY <2>2, <2>3, <3>1 DEF AccountsIInv, AccountsTypeOK, LinksUnused, ResetOnce,
                LinksCarried, ResetWrites
    <2>4. CASE ~ResetStands(c)
        BY <2>2, <2>4 DEF AccountsIInv, AccountsTypeOK, LinksUnused, ResetOnce, ResetWrites
    <2> QED BY <2>3, <2>4
<1> QED BY <1>3, <1>4, <1>5, <1>6, <1>7 DEF AccountsIInv

-----------------------------------------------------------------------------
(* Time and the administrators *)

\* Time only ends what is live.
LEMMA VerificationExpiresKeeps ==
    ASSUME AccountsIInv, VerificationExpires
    PROVE  AccountsIInv'
BY DEF AccountsIInv, AccountsTypeOK, SessionsTruthful, LoginsTruthful, Truthful, NobodyBefore,
   LinksUnused, ResetOnce, LinksCarried, accountRowVars, VerificationExpires

\* Time only ends what is live.
LEMMA ResetExpiresKeeps ==
    ASSUME AccountsIInv, ResetExpires
    PROVE  AccountsIInv'
BY DEF AccountsIInv, AccountsTypeOK, SessionsTruthful, LoginsTruthful, Truthful, NobodyBefore,
   LinksUnused, ResetOnce, LinksCarried, accountRowVars, ResetExpires

\* Time only ends what is live.
LEMMA CoolingEndsKeeps ==
    ASSUME AccountsIInv, CoolingEnds
    PROVE  AccountsIInv'
BY DEF AccountsIInv, AccountsTypeOK, SessionsTruthful, LoginsTruthful, Truthful, NobodyBefore,
   LinksUnused, ResetOnce, LinksCarried, accountRowVars, CoolingEnds

\* The session keeps its claims.
LEMMA AccessExpiresKeeps ==
    ASSUME AccountsIInv, NEW c \in Client, AccessExpires(c)
    PROVE  AccountsIInv'
<1>1. cookie' \in [Client -> Sessions]
    BY AccessTyped DEF AccountsIInv, AccountsTypeOK, AccessExpires
<1>2. AccountsTypeOK'
    BY <1>1 DEF AccountsIInv, AccountsTypeOK, accountRowVars, linkVars, AccessExpires
<1>3. SessionsTruthful'
    BY DEF AccountsIInv, AccountsTypeOK, SessionsTruthful, Truthful, Versions, Sessions, accountRowVars,
       AccessExpires
<1>4. LoginsTruthful'
    BY DEF AccountsIInv, AccountsTypeOK, LoginsTruthful, Truthful, accountRowVars, AccessExpires
<1>5. NobodyBefore'
    BY DEF AccountsIInv, AccountsTypeOK, NobodyBefore, Sessions, accountRowVars, AccessExpires
<1>6. LinksUnused' /\ ResetOnce' /\ LinksCarried'
    BY DEF AccountsIInv, AccountsTypeOK, LinksUnused, ResetOnce, LinksCarried, linkVars,
       AccessExpires
<1> QED BY <1>2, <1>3, <1>4, <1>5, <1>6 DEF AccountsIInv

\* The session is gone.
LEMMA SessionExpiresKeeps ==
    ASSUME AccountsIInv, NEW c \in Client, SessionExpires(c)
    PROVE  AccountsIInv'
<1>1. cookie' \in [Client -> Sessions]
    BY ClearTyped DEF AccountsIInv, AccountsTypeOK, SessionExpires
<1>2. AccountsTypeOK'
    BY <1>1 DEF AccountsIInv, AccountsTypeOK, accountRowVars, linkVars, SessionExpires
<1>3. SessionsTruthful'
    BY DEF AccountsIInv, AccountsTypeOK, SessionsTruthful, Truthful, NoSession, accountRowVars,
       ClearSession, SessionExpires
<1>4. LoginsTruthful'
    BY DEF AccountsIInv, AccountsTypeOK, LoginsTruthful, Truthful, accountRowVars, SessionExpires
<1>5. NobodyBefore'
    BY DEF AccountsIInv, AccountsTypeOK, NobodyBefore, NoSession, accountRowVars, ClearSession,
       SessionExpires
<1>6. LinksUnused' /\ ResetOnce' /\ LinksCarried'
    BY DEF AccountsIInv, AccountsTypeOK, LinksUnused, ResetOnce, LinksCarried, linkVars,
       SessionExpires
<1> QED BY <1>2, <1>3, <1>4, <1>5, <1>6 DEF AccountsIInv

\* The console leaves password and version.
LEMMA SetAgentActiveKeeps ==
    ASSUME AccountsIInv, NEW b \in BOOLEAN, SetAgentActive(b)
    PROVE  AccountsIInv'
BY DEF AccountsIInv, AccountsTypeOK, SessionsTruthful, LoginsTruthful, Truthful, NobodyBefore,
   LinksUnused, ResetOnce, LinksCarried, linkVars, SetAgentActive

\* The administrator leaves password and version.
LEMMA UpdateAgentStatusKeeps ==
    ASSUME AccountsIInv, NEW b \in BOOLEAN, UpdateAgentStatus(b)
    PROVE  AccountsIInv'
BY DEF AccountsIInv, AccountsTypeOK, SessionsTruthful, LoginsTruthful, Truthful, NobodyBefore,
   LinksUnused, ResetOnce, LinksCarried, linkVars, UpdateAgentStatus

\* The members are left alone.
LEMMA SetOrganizationActiveKeeps ==
    ASSUME AccountsIInv, NEW b \in BOOLEAN, SetOrganizationActive(b)
    PROVE  AccountsIInv'
BY DEF AccountsIInv, AccountsTypeOK, SessionsTruthful, LoginsTruthful, Truthful, NobodyBefore,
   LinksUnused, ResetOnce, LinksCarried, linkVars, SetOrganizationActive

\* Archiving leaves password and version.
LEMMA ArchiveOrganizationKeeps ==
    ASSUME AccountsIInv, ArchiveOrganization
    PROVE  AccountsIInv'
BY DEF AccountsIInv, AccountsTypeOK, SessionsTruthful, LoginsTruthful, Truthful, NobodyBefore,
   LinksUnused, ResetOnce, LinksCarried, linkVars, ArchiveOrganization

-----------------------------------------------------------------------------
(* The theorems *)

\* The empty database satisfies the invariant.
LEMMA AccountsInitInvariant == AccountsInit => AccountsIInv
<1> SUFFICES ASSUME AccountsInit PROVE AccountsIInv
    OBVIOUS
<1>1. NoSession \in Sessions /\ NoRequest \in Requests
    BY AccountConstantsOK DEF NoSession, Sessions, NoRequest, Requests, Steps,
       Versions, Passwords, Links
<1>2. account \in [known: BOOLEAN, password: Passwords, version: Versions,
                  verified: BOOLEAN, active: BOOLEAN, archived: BOOLEAN]
    BY AccountsConstants DEF AccountsInit
<1>3. AccountsTypeOK
    BY <1>1, <1>2, NoLinkRecord DEF AccountsInit, AccountsTypeOK
<1>4. /\ SessionsTruthful /\ LoginsTruthful /\ NobodyBefore
      /\ LinksUnused /\ ResetOnce /\ LinksCarried
    BY DEF AccountsInit, SessionsTruthful, LoginsTruthful, NobodyBefore, LinksUnused, ResetOnce,
       LinksCarried, NoSession, NoRequest
<1> QED BY <1>3, <1>4 DEF AccountsIInv

\* Every step keeps it.
LEMMA AccountsNextInvariant == AccountsIInv /\ [AccountsNext]_accountVars => AccountsIInv'
<1> SUFFICES ASSUME AccountsIInv, [AccountsNext]_accountVars PROVE AccountsIInv'
    OBVIOUS
<1>1. ASSUME NEW c \in Client, ServerStep(c)
      PROVE  AccountsIInv'
    BY <1>1, SignUpCreatesKeeps, ResendStoresKeeps, ForgotStoresKeeps,
       VerificationSentKeeps, VerifyWritesKeeps, LoginAllowedKeeps,
       LoginIssuesKeeps, AuthenticateKeeps, RefreshKeeps, AnswerKeeps,
       ChangeWritesKeeps, ResetSentKeeps, ResetWritesKeeps DEF ServerStep
<1>2. ASSUME NEW c \in Client, UserStep(c)
      PROVE  AccountsIInv'
    BY <1>2, SignUpKeeps, ChangePasswordKeeps, VerifyKeeps, ResetKeeps, ResendKeeps,
       LoginKeeps, AskKeeps, LogoutKeeps, DeleteOrganizationKeeps, ForgotKeeps DEF
       UserStep
<1>3. CASE TimeStep
    BY <1>3, VerificationExpiresKeeps, ResetExpiresKeeps, CoolingEndsKeeps,
       AccessExpiresKeeps, SessionExpiresKeeps DEF TimeStep
<1>4. CASE AdminStep
    BY <1>4, SetAgentActiveKeeps, UpdateAgentStatusKeeps,
       SetOrganizationActiveKeeps, ArchiveOrganizationKeeps DEF AdminStep
<1>5. CASE UNCHANGED accountVars
    BY <1>5 DEF accountVars, accountRowVars, linkVars, AccountsIInv, AccountsTypeOK, SessionsTruthful, LoginsTruthful,
       Truthful, NobodyBefore, LinksUnused, ResetOnce, LinksCarried
<1> QED BY <1>1, <1>2, <1>3, <1>4, <1>5 DEF AccountsNext

\* The rows, the cookies and the requests under way keep their types.
THEOREM AccountsTypeCorrect == AccountsSpec => []AccountsTypeOK
<1>1. AccountsIInv => AccountsTypeOK
    BY DEF AccountsIInv
<1> QED BY <1>1, AccountsInitInvariant, AccountsNextInvariant, PTL DEF AccountsSpec

\* However requests overlap, what sessions, logins and e-mail links claim of the row
\* stays true of it (api.auth.controller.js, api.user.controller.js).
THEOREM AccountsInvariantHolds == AccountsSpec => []AccountsIInv
<1> QED BY AccountsInitInvariant, AccountsNextInvariant, PTL DEF AccountsSpec

\* No session outlives the password it was opened with, for any number of browsers:
\* the version is raised in the write that replaces the password, and a login
\* carries the version it read with the hash (updatePassword, resetPassword, login).
THEOREM SessionsFollow == AccountsSpec => []SessionsFollowPassword
<1>1. AccountsIInv => SessionsFollowPassword
    BY DEF AccountsIInv, SessionsTruthful, Truthful, SessionsFollowPassword, InForce
<1> QED BY <1>1, AccountsInvariantHolds, PTL

\* A reset link changes the password at most once (resetPassword's conditional write).
THEOREM LinksServeOnce == AccountsSpec => []ResetOnce
<1>1. AccountsIInv => ResetOnce
    BY DEF AccountsIInv
<1> QED BY <1>1, AccountsInvariantHolds, PTL
=============================================================================
