----------------------- MODULE TicketPayments_proofs -----------------------
(***************************************************************************)
(* Proofs about TicketPayments, for any payments, any capacity and any     *)
(* number of concurrent callers. The inductive invariant IInv is stated in *)
(* the module itself; each of its four parts has a lemma here.             *)
(***************************************************************************)
EXTENDS TicketPayments, FiniteSetTheorems, TLAPS

\* What pawaPay answers has the type of an answer.
LEMMA RemoteAnswerType ==
    ASSUME TypeOK, NEW p \in Payment
    PROVE  RemoteAnswer(p) \in Answers
BY DEF TypeOK, RemoteAnswer, Found, Answers, DepositStates

\* The answer, at the moment it is given, describes the deposit.
LEMMA RemoteAnswerTrue ==
    ASSUME TypeOK, NEW p \in Payment
    PROVE  /\ RemoteAnswer(p) = "NOT_FOUND" => deposit[p] \in {"NONE", "SENT", "REJECTED"}
           /\ RemoteAnswer(p) = "MISMATCH" => ~matches[p]
           /\ RemoteAnswer(p) = "FAILED" => deposit[p] = "FAILED"
           /\ RemoteAnswer(p) = "COMPLETED" => Paid(p)
BY DEF TypeOK, RemoteAnswer, Found, Paid, DepositStates

-----------------------------------------------------------------------------
\* Every step keeps the types of the rows and of the calls.
LEMMA TypeInductive == TypeOK /\ [Next]_vars => TypeOK'
<1> SUFFICES ASSUME TypeOK, [Next]_vars
             PROVE  TypeOK'
    OBVIOUS
<1> USE DEF TypeOK, Statuses, OpenStatuses, FinalStatuses, Ages, Fresh, PastGrace,
            HoldLapsed, Overdue, DepositStates, rowVars, ticketVars, remoteVars
<1>1. ASSUME NEW p \in Payment, Checkout(p)
      PROVE  TypeOK'
  <2>1. CASE Reserve(p)
      BY <2>1 DEF Reserve
  <2>2. CASE InitiateAccepted(p)
      BY <2>2 DEF InitiateAccepted
  <2>3. CASE InitiateRejected(p) \/ InitiateUncertain(p)
      BY <2>3 DEF InitiateRejected, InitiateUncertain
  <2> QED BY <1>1, <2>1, <2>2, <2>3 DEF Checkout
<1>2. ASSUME NEW p \in Payment, Registration(p)
      PROVE  TypeOK'
    BY <1>2 DEF Registration, ReleaseFailedRegistration, ReacquireCapacity
<1>3. ASSUME NEW p \in Payment, Refund(p)
      PROVE  TypeOK'
    BY <1>3 DEF Refund, RefundTicketPayment, RefundCompleted, RefundFailed
<1>4. ASSUME NEW p \in Payment, Environment(p)
      PROVE  TypeOK'
  <2>1. CASE DepositArrives(p)
      BY <2>1 DEF DepositArrives
  <2>2. CASE DepositSettles(p)
      BY <2>2 DEF DepositSettles
  <2>3. CASE TimePasses(p)
      BY <2>3 DEF TimePasses
  <2> QED BY <1>4, <2>1, <2>2, <2>3 DEF Environment
<1>5. ASSUME NEW r \in Caller, Reconcile(r)
      PROVE  TypeOK'
  <2>1. ASSUME NEW p \in Payment, BeginReconcile(r, p)
        PROVE  TypeOK'
      BY <2>1 DEF BeginReconcile, Calls, Answers
  <2>2. CASE CheckDeposit(r)
    <3>1. call[r] \in Calls /\ call[r].pay \in Payment
        BY <2>2 DEF CheckDeposit, Calls
    <3>2. RemoteAnswer(call[r].pay) \in Answers
        BY <3>1, RemoteAnswerType
    <3>3. call'[r] \in Calls
        BY <2>2, <3>1, <3>2 DEF CheckDeposit, Calls
    <3> QED BY <2>2, <3>3 DEF CheckDeposit
  <2>3. CASE CallFails(r) \/ SnapshotThrows(r)
      BY <2>3 DEF CallFails, SnapshotThrows
  <2>4. CASE ApplyNotFound(r) \/ ApplyMismatch(r) \/ ApplyFailed(r) \/ ExpireOverdue(r)
      BY <2>4 DEF ApplyNotFound, ApplyMismatch, ApplyFailed, ExpireOverdue, Answered,
                  ReturnWith, ReturnUnchanged, Calls
  <2>5. CASE ApplyInProgress(r)
      BY <2>5 DEF ApplyInProgress, Answered, Calls
  <2>6. CASE FulfilFinal(r) \/ FulfilSoldOut(r) \/ FulfilDuplicate(r)
      BY <2>6 DEF FulfilFinal, FulfilSoldOut, FulfilDuplicate, Answered,
                  ReturnWith, ReturnUnchanged, Calls
  <2>7. CASE FulfilIssues(r)
    <3>1. call[r].pay \in Payment
        BY <2>7 DEF FulfilIssues, Answered, Calls
    <3> QED BY <2>7, <3>1 DEF FulfilIssues
  <2> QED BY <1>5, <2>1, <2>2, <2>3, <2>4, <2>5, <2>6, <2>7 DEF Reconcile, Apply, Fulfil
<1>6. CASE TemplateChanges
    BY <1>6 DEF TemplateChanges
<1>7. CASE UNCHANGED vars
    BY <1>7 DEF vars
<1> QED BY <1>1, <1>2, <1>3, <1>4, <1>5, <1>6, <1>7 DEF Next

-----------------------------------------------------------------------------
(* The deposit only moves forward *)

\* No step takes back what an answer of pawaPay may have said about a deposit.
LEMMA DepositMonotone ==
    ASSUME TypeOK, [Next]_vars, NEW p \in Payment, RowConsistent(p)
    PROVE  /\ age[p] <= age'[p]
           /\ Paid(p) => Paid(p)'
           /\ deposit[p] = "FAILED" => deposit'[p] = "FAILED"
           /\ ~matches[p] => ~matches'[p]
           /\ deposit[p] \in {"NONE", "SENT", "REJECTED"} /\ age[p] >= PastGrace
                => deposit'[p] \in {"NONE", "SENT", "REJECTED"}
<1> USE DEF TypeOK, Ages, Fresh, PastGrace, HoldLapsed, Overdue, DepositStates, Paid,
            RowConsistent, rowVars, ticketVars, remoteVars
<1>1. ASSUME NEW q \in Payment, Checkout(q)
      PROVE  /\ age' = age /\ matches' = matches
             /\ deposit' = deposit \/ (status[q] = "NO_ROW" /\ deposit' = [deposit EXCEPT ![q] = "SENT"])
    BY <1>1 DEF Checkout, Reserve, InitiateAccepted, InitiateRejected, InitiateUncertain
<1>2. ASSUME NEW q \in Payment, Registration(q) \/ Refund(q)
      PROVE  age' = age /\ matches' = matches /\ deposit' = deposit
    BY <1>2 DEF Registration, ReleaseFailedRegistration, ReacquireCapacity, Refund,
                RefundTicketPayment, RefundCompleted, RefundFailed
<1>3. ASSUME NEW r \in Caller, Reconcile(r)
      PROVE  age' = age /\ matches' = matches /\ deposit' = deposit
    BY <1>3 DEF Reconcile, BeginReconcile, CheckDeposit, SnapshotThrows, CallFails, Apply,
                ApplyNotFound, ApplyMismatch, ApplyFailed, ApplyInProgress, ExpireOverdue, Fulfil,
                FulfilFinal, FulfilSoldOut, FulfilDuplicate, FulfilIssues,
                ReturnWith, ReturnUnchanged
<1>4. CASE \E q \in Payment : Environment(q)
    BY <1>4 DEF Environment, DepositArrives, DepositSettles, TimePasses
<1>5. CASE UNCHANGED vars \/ TemplateChanges
    BY <1>5 DEF vars, TemplateChanges
<1>6. CASE \E q \in Payment : Checkout(q)
    BY <1>1, <1>6
<1> QED BY <1>2, <1>3, <1>4, <1>5, <1>6 DEF Next

-----------------------------------------------------------------------------
(* Calls *)

\* A call that a step does not touch stays truthful, because the deposit only
\* moves forward.
LEMMA CallUntouched ==
    ASSUME TypeOK, [Next]_vars, \A p \in Payment : RowConsistent(p),
           NEW r \in Caller, CallTruthful(r), call'[r] = call[r]
    PROVE  CallTruthful(r)'
<1>1. CASE call[r] = NoCall
    BY <1>1 DEF CallTruthful
<1>2. CASE call[r] # NoCall
  <2>1. call[r] \in Calls /\ call[r].pay \in Payment
      BY <1>2 DEF TypeOK, Calls
  <2>2. PICK p \in Payment : p = call[r].pay
      BY <2>1
  <2>3. /\ age[p] <= age'[p]
        /\ Paid(p) => Paid(p)'
        /\ deposit[p] = "FAILED" => deposit'[p] = "FAILED"
        /\ ~matches[p] => ~matches'[p]
        /\ deposit[p] \in {"NONE", "SENT", "REJECTED"} /\ age[p] >= PastGrace
             => deposit'[p] \in {"NONE", "SENT", "REJECTED"}
      BY DepositMonotone
  <2>4. age[p] \in Ages /\ age'[p] \in Ages
      BY TypeInductive DEF TypeOK
  <2> QED BY <1>2, <2>2, <2>3, <2>4 DEF CallTruthful, Ages, Fresh, PastGrace, HoldLapsed, Overdue
<1> QED BY <1>1, <1>2

\* Every call stays truthful: it begins with the payment's age, and is given a
\* true answer.
LEMMA CallInductive ==
    ASSUME TypeOK, [Next]_vars, \A p \in Payment : RowConsistent(p),
           \A r \in Caller : CallTruthful(r)
    PROVE  \A r \in Caller : CallTruthful(r)'
<1> SUFFICES ASSUME NEW q \in Caller
             PROVE  CallTruthful(q)'
    OBVIOUS
<1>1. CASE call'[q] = call[q]
    BY <1>1, CallUntouched
<1>2. ASSUME NEW r \in Caller, Reconcile(r)
      PROVE  CallTruthful(q)'
  <2> USE DEF TypeOK
  <2>1. ASSUME NEW p \in Payment, BeginReconcile(r, p)
        PROVE  CallTruthful(q)'
    <3>1. CASE q = r
        BY <2>1, <3>1 DEF BeginReconcile, CallTruthful, rowVars, PastGrace, Overdue
    <3>2. CASE q # r
        BY <2>1, <3>2, <1>1 DEF BeginReconcile
    <3> QED BY <3>1, <3>2
  <2>2. CASE CheckDeposit(r)
    <3>1. CASE q = r
      <4>1. call[r] \in Calls /\ call[r] # NoCall /\ call[r].phase = "CHECKING"
          BY <2>2 DEF CheckDeposit
      <4>2. PICK p \in Payment : p = call[r].pay
          BY <4>1 DEF Calls
      <4>3. call' = [call EXCEPT ![r] = [call[r] EXCEPT !.phase = "ANSWERED",
                                                        !.answer = RemoteAnswer(p)]]
          BY <2>2, <4>1, <4>2 DEF CheckDeposit, Calls
      <4>4. call'[r] = [phase |-> "ANSWERED", pay |-> p, graced |-> call[r].graced,
                        overdue |-> call[r].overdue, answer |-> RemoteAnswer(p)]
          BY <4>1, <4>2, <4>3 DEF Calls
      <4>5. UNCHANGED <<age, deposit, matches>>
          BY <2>2 DEF CheckDeposit, rowVars, remoteVars
      <4> QED BY <3>1, <4>1, <4>2, <4>4, <4>5, RemoteAnswerTrue DEF CallTruthful, Paid
    <3>2. CASE q # r
        BY <2>2, <3>2, <1>1 DEF CheckDeposit
    <3> QED BY <3>1, <3>2
  <2>3. CASE CallFails(r) \/ SnapshotThrows(r)
      BY <2>3, <1>1 DEF CallFails, SnapshotThrows, CallTruthful
  <2>4. CASE ApplyNotFound(r) \/ ApplyMismatch(r) \/ ApplyFailed(r) \/ ExpireOverdue(r)
             \/ FulfilFinal(r) \/ FulfilSoldOut(r) \/ FulfilDuplicate(r)
      BY <2>4, <1>1 DEF ApplyNotFound, ApplyMismatch, ApplyFailed, ExpireOverdue, FulfilFinal,
            FulfilSoldOut, FulfilDuplicate, ReturnWith, ReturnUnchanged, CallTruthful
  <2>5. CASE FulfilIssues(r)
      BY <2>5, <1>1 DEF FulfilIssues, CallTruthful
  <2>6. CASE ApplyInProgress(r)
    <3>1. CASE q = r /\ call[r].overdue
      <4>1. call[r] \in Calls
          BY <2>6 DEF ApplyInProgress, Answered
      <4>2. call'[r] = [phase |-> "EXPIRING", pay |-> call[r].pay, graced |-> call[r].graced,
                        overdue |-> call[r].overdue, answer |-> call[r].answer]
          BY <2>6, <3>1, <4>1 DEF ApplyInProgress, Calls
      <4>3. UNCHANGED <<age, deposit, matches>>
          BY <2>6 DEF ApplyInProgress, rowVars, remoteVars
      <4>4. CallTruthful(r) /\ call[r] # NoCall
          BY <2>6 DEF ApplyInProgress, Answered
      <4> QED BY <3>1, <4>1, <4>2, <4>3, <4>4 DEF CallTruthful
    <3>2. CASE ~(q = r /\ call[r].overdue)
        BY <2>6, <3>2, <1>1 DEF ApplyInProgress, CallTruthful
    <3> QED BY <3>1, <3>2
  <2> QED BY <1>2, <2>1, <2>2, <2>3, <2>4, <2>5, <2>6 DEF Reconcile, Apply, Fulfil
<1>3. CASE \E p \in Payment : Checkout(p) \/ Registration(p) \/ Refund(p) \/ Environment(p)
  <2>1. call' = call
      BY <1>3 DEF Checkout, Reserve, InitiateAccepted, InitiateRejected, InitiateUncertain,
            Registration, ReleaseFailedRegistration, ReacquireCapacity, Refund,
            RefundTicketPayment, RefundCompleted, RefundFailed, Environment,
            DepositArrives, DepositSettles, TimePasses
  <2> QED BY <2>1, <1>1
<1>4. CASE UNCHANGED vars \/ TemplateChanges
    BY <1>4, <1>1 DEF vars, TemplateChanges
<1> QED BY <1>2, <1>3, <1>4 DEF Next

-----------------------------------------------------------------------------
(* Rows *)

\* One ticket and one credit per paid purchase: the unique index stops a second
\* fulfil of a payment that a late write has reopened.
LEMMA RowInductive ==
    ASSUME TypeOK, [Next]_vars, \A r \in Caller : CallTruthful(r),
           NEW p \in Payment, RowConsistent(p)
    PROVE  RowConsistent(p)'
<1> USE DEF TypeOK, rowVars, ticketVars, remoteVars, RowConsistent, Paid
<1>1. ASSUME NEW q \in Payment, Checkout(q)
      PROVE  RowConsistent(p)'
    BY <1>1 DEF Checkout, Reserve, InitiateAccepted, InitiateRejected, InitiateUncertain,
                OpenStatuses
<1>2. ASSUME NEW q \in Payment, Registration(q)
      PROVE  RowConsistent(p)'
    BY <1>2 DEF Registration, ReleaseFailedRegistration, ReacquireCapacity, RegistrationExists
<1>3. ASSUME NEW q \in Payment, Refund(q)
      PROVE  RowConsistent(p)'
    BY <1>3 DEF Refund, RefundTicketPayment, RefundCompleted, RefundFailed
<1>4. ASSUME NEW q \in Payment, Environment(q)
      PROVE  RowConsistent(p)'
    BY <1>4 DEF Environment, DepositArrives, DepositSettles, TimePasses, DepositStates
<1>5. ASSUME NEW r \in Caller, Reconcile(r)
      PROVE  RowConsistent(p)'
  <2>1. CASE \/ \E q \in Payment : BeginReconcile(r, q)
             \/ CheckDeposit(r) \/ SnapshotThrows(r) \/ CallFails(r)
      BY <2>1 DEF BeginReconcile, CheckDeposit, SnapshotThrows, CallFails
  <2>2. CASE ApplyNotFound(r) \/ ApplyMismatch(r) \/ ApplyFailed(r) \/ ApplyInProgress(r)
             \/ ExpireOverdue(r) \/ FulfilFinal(r) \/ FulfilSoldOut(r) \/ FulfilDuplicate(r)
      BY <2>2 DEF ApplyNotFound, ApplyMismatch, ApplyFailed, ApplyInProgress, ExpireOverdue,
            FulfilFinal, FulfilSoldOut, FulfilDuplicate, ReturnWith, ReturnUnchanged
  <2>3. CASE FulfilIssues(r)
    <3>1. Paid(call[r].pay) /\ call[r].pay \in Payment
        BY <2>3 DEF FulfilIssues, Answered, CallTruthful, Calls
    <3> QED BY <2>3, <3>1 DEF FulfilIssues, RegistrationExists
  <2> QED BY <1>5, <2>1, <2>2, <2>3 DEF Reconcile, Apply, Fulfil
<1>6. CASE UNCHANGED vars \/ TemplateChanges
    BY <1>6 DEF vars, TemplateChanges
<1> QED BY <1>1, <1>2, <1>3, <1>4, <1>5, <1>6 DEF Next

-----------------------------------------------------------------------------
(* Live payments *)

\* Only a checkout makes a payment live, and no write closes a live one.
LEMMA LiveInductive ==
    ASSUME TypeOK, [Next]_vars, \A r \in Caller : CallTruthful(r),
           NEW p \in Payment, RowConsistent(p), LiveIsOpen(p)
    PROVE  /\ LiveIsOpen(p)'
           /\ Live(p)' => Live(p) \/ Reserve(p)
<1> USE DEF TypeOK, rowVars, ticketVars, remoteVars, LiveIsOpen, Live, OpenStatuses,
            Ages, Fresh, PastGrace, HoldLapsed, Overdue
<1> DEFINE Goal == LiveIsOpen(p)' /\ (Live(p)' => Live(p) \/ Reserve(p))
<1>1. ASSUME NEW q \in Payment, Reserve(q)
      PROVE  Goal
    BY <1>1 DEF Reserve, RowConsistent
<1>2. ASSUME NEW q \in Payment,
             InitiateAccepted(q) \/ InitiateRejected(q) \/ InitiateUncertain(q)
      PROVE  Goal
    BY <1>2 DEF InitiateAccepted, InitiateRejected, InitiateUncertain
<1>3. ASSUME NEW q \in Payment, Registration(q)
      PROVE  Goal
    BY <1>3 DEF Registration, ReleaseFailedRegistration, ReacquireCapacity
<1>4. ASSUME NEW q \in Payment, Refund(q)
      PROVE  Goal
    BY <1>4 DEF Refund, RefundTicketPayment, RefundCompleted, RefundFailed
<1>5. ASSUME NEW q \in Payment, Environment(q)
      PROVE  Goal
    BY <1>5 DEF Environment, DepositArrives, DepositSettles, TimePasses, RowConsistent
<1>6. ASSUME NEW r \in Caller, Reconcile(r)
      PROVE  Goal
  <2>1. CASE \/ \E q \in Payment : BeginReconcile(r, q)
             \/ CheckDeposit(r) \/ SnapshotThrows(r) \/ CallFails(r)
             \/ FulfilFinal(r) \/ FulfilDuplicate(r)
      BY <2>1 DEF BeginReconcile, CheckDeposit, SnapshotThrows, CallFails, FulfilFinal, FulfilDuplicate,
                  ReturnUnchanged
  <2>2. call[r] # NoCall => call[r] \in Calls
      OBVIOUS
  <2>3. CASE ApplyNotFound(r) \/ ApplyMismatch(r) \/ ApplyFailed(r)
      BY <2>2, <2>3 DEF ApplyNotFound, ApplyMismatch, ApplyFailed, Answered, ReturnWith,
            ReturnUnchanged, CallTruthful, Calls
  <2>4. CASE ApplyInProgress(r)
      BY <2>4 DEF ApplyInProgress
  <2>5. CASE ExpireOverdue(r)
      BY <2>2, <2>5 DEF ExpireOverdue, ReturnWith, CallTruthful, Calls
  <2>6. CASE FulfilSoldOut(r)
      BY <2>2, <2>6 DEF FulfilSoldOut, Answered, SoldOutAfterHold, ReturnWith, Calls
  <2>7. CASE FulfilIssues(r)
      BY <2>2, <2>7 DEF FulfilIssues, Answered, Calls, RegistrationExists
  <2> QED BY <1>6, <2>1, <2>3, <2>4, <2>5, <2>6, <2>7 DEF Reconcile, Apply, Fulfil
<1>7. CASE UNCHANGED vars \/ TemplateChanges
    BY <1>7 DEF vars, TemplateChanges
<1> HIDE DEF TypeOK, LiveIsOpen, Live
<1>8. ASSUME NEW q \in Payment, Checkout(q)
      PROVE  Goal
    BY <1>1, <1>2, <1>8 DEF Checkout
<1> QED BY <1>3, <1>4, <1>5, <1>6, <1>7, <1>8 DEF Next

-----------------------------------------------------------------------------
(* Places *)

Places == HeldRegistrations \cup LivePayments

\* Every payment that may still claim its ticket without looking at the
\* capacity is counted by the code among the open holds.
LEMMA LiveIsCounted ==
    ASSUME \A p \in Payment : LiveIsOpen(p)
    PROVE  LivePayments \subseteq OpenHolds
BY DEF LiveIsOpen, Live, LivePayments, OpenHolds

\* While the code sees a free place, one more place can be given.
LEMMA RoomForOneMore ==
    ASSUME \A p \in Payment : LiveIsOpen(p), ~SoldOut, NEW p \in Payment
    PROVE  Cardinality(Places \cup {p}) <= Capacity
<1> DEFINE Counted == HeldRegistrations \cup OpenHolds
<1>1. IsFiniteSet(Counted)
    BY ConstantsOK, FS_Subset DEF HeldRegistrations, OpenHolds
<1>2. Places \subseteq Counted
    BY LiveIsCounted DEF Places
<1>3. IsFiniteSet(Places) /\ Cardinality(Places) <= Cardinality(Counted)
    BY <1>1, <1>2, FS_Subset
<1>4. Cardinality(Places) \in Nat /\ Cardinality(Counted) \in Nat
    BY <1>1, <1>3, FS_CardinalityType
<1>5. Cardinality(Counted) < Capacity
    BY <1>4, ConstantsOK DEF SoldOut, HeldPlaces
<1>6. Cardinality(Places \cup {p}) <= Cardinality(Places) + 1
    BY <1>3, <1>4, FS_AddElement
<1>7. Cardinality(Places \cup {p}) \in Nat
    BY <1>3, FS_AddElement, FS_CardinalityType
<1> QED BY <1>3, <1>4, <1>5, <1>6, <1>7, ConstantsOK

\* A step gives at most one place that was not counted, and only after it has
\* seen a free one. A ticket issued within its hold takes the place that its
\* live payment had.
LEMMA PlacesGrow ==
    ASSUME TypeOK, [Next]_vars, \A r \in Caller : CallTruthful(r),
           \A p \in Payment : RowConsistent(p) /\ LiveIsOpen(p)
    PROVE  \/ Places' \subseteq Places
           \/ ~SoldOut /\ \E p \in Payment : Places' \subseteq Places \cup {p}
<1> DEFINE Goal == \/ Places' \subseteq Places
                   \/ ~SoldOut /\ \E p \in Payment : Places' \subseteq Places \cup {p}
<1>1. \A p \in Payment : Live(p)' => Live(p) \/ Reserve(p)
    BY LiveInductive
<1>2. ASSUME NEW q \in Payment, Reserve(q)
      PROVE  Goal
  <2>1. \A p \in Payment : Reserve(p) => p = q
      BY <1>2 DEF Reserve, TypeOK
  <2>2. LivePayments' \subseteq LivePayments \cup {q}
      BY <1>1, <2>1 DEF LivePayments
  <2>3. HeldRegistrations' = HeldRegistrations /\ ~SoldOut
      BY <1>2 DEF Reserve, ticketVars, HeldRegistrations
  <2> QED BY <2>2, <2>3 DEF Places
<1>3. CASE \A q \in Payment : ~Reserve(q)
  <2>1. LivePayments' \subseteq LivePayments
      BY <1>1, <1>3 DEF LivePayments
  <2>2. CASE \A p \in Payment : held'[p] => held[p]
      BY <2>1, <2>2 DEF Places, HeldRegistrations
  <2>3. ASSUME NEW q \in Payment, ReacquireCapacity(q)
        PROVE  Goal
    <3>1. HeldRegistrations' \subseteq HeldRegistrations \cup {q} /\ ~SoldOut
        BY <2>3 DEF ReacquireCapacity, HeldRegistrations, TypeOK
    <3> QED BY <2>1, <3>1 DEF Places
  <2>4. ASSUME NEW r \in Caller, FulfilIssues(r)
        PROVE  Goal
    <3>1. PICK q \in Payment : q = call[r].pay
        BY <2>4 DEF FulfilIssues, Answered, TypeOK, Calls
    <3>2. HeldRegistrations' \subseteq HeldRegistrations \cup {q}
        BY <2>4, <3>1 DEF FulfilIssues, HeldRegistrations, TypeOK
    <3>3. Paid(q) /\ tickets[q] = 0
        BY <2>4, <3>1 DEF FulfilIssues, Answered, CallTruthful, TypeOK, RegistrationExists
    <3>4. CASE age[q] < HoldLapsed
      <4>1. q \in LivePayments
          BY <3>3, <3>4 DEF LivePayments, Live, Paid
      <4> QED BY <2>1, <3>2, <4>1 DEF Places
    <3>5. CASE ~SoldOut
        BY <2>1, <3>2, <3>5 DEF Places
    <3>6. age[q] < HoldLapsed \/ ~SoldOut
        BY <2>4, <3>1 DEF FulfilIssues, SoldOutAfterHold, TypeOK, Ages, Fresh, Overdue, HoldLapsed
    <3> QED BY <3>4, <3>5, <3>6
  <2>5. \/ \A p \in Payment : held'[p] => held[p]
        \/ \E q \in Payment : ReacquireCapacity(q)
        \/ \E r \in Caller : FulfilIssues(r)
    <3> USE DEF ticketVars
    <3>1. ASSUME NEW q \in Payment, Checkout(q) \/ Refund(q) \/ Environment(q)
          PROVE  held' = held
        BY <3>1 DEF Checkout, Reserve, InitiateAccepted, InitiateRejected, InitiateUncertain,
            Refund, RefundTicketPayment, RefundCompleted, RefundFailed,
            Environment, DepositArrives, DepositSettles, TimePasses
    <3>2. ASSUME NEW q \in Payment, ReleaseFailedRegistration(q)
          PROVE  \A p \in Payment : held'[p] => held[p]
        BY <3>2 DEF ReleaseFailedRegistration, TypeOK
    <3>3. ASSUME NEW r \in Caller, Reconcile(r), ~FulfilIssues(r)
          PROVE  held' = held
        BY <3>3 DEF Reconcile, BeginReconcile, CheckDeposit, SnapshotThrows, CallFails, Apply, ApplyNotFound,
            ApplyMismatch, ApplyFailed, ApplyInProgress, ExpireOverdue, Fulfil, FulfilFinal,
            FulfilSoldOut, FulfilDuplicate, ReturnWith, ReturnUnchanged
    <3>4. CASE UNCHANGED vars \/ TemplateChanges
        BY <3>4 DEF vars, TemplateChanges
    <3> QED BY <3>1, <3>2, <3>3, <3>4 DEF Next, Registration
  <2> QED BY <2>2, <2>3, <2>4, <2>5
<1> QED BY <1>2, <1>3

\* Seated tickets and live holds always fit in the offer.
LEMMA PlacesInductive ==
    ASSUME TypeOK, [Next]_vars, \A r \in Caller : CallTruthful(r),
           \A p \in Payment : RowConsistent(p) /\ LiveIsOpen(p), PlacesSuffice
    PROVE  PlacesSuffice'
<1>1. IsFiniteSet(Places) /\ Cardinality(Places) \in Nat /\ Cardinality(Places) <= Capacity
  <2>1. Places \subseteq Payment
      BY DEF Places, HeldRegistrations, LivePayments
  <2> QED BY <2>1, ConstantsOK, FS_Subset, FS_CardinalityType DEF PlacesSuffice, Places
<1>2. CASE Places' \subseteq Places
  <2>1. IsFiniteSet(Places') /\ Cardinality(Places') <= Cardinality(Places)
      BY <1>1, <1>2, FS_Subset
  <2>2. Cardinality(Places') \in Nat
      BY <2>1, FS_CardinalityType
  <2>3. Cardinality(Places') <= Capacity
      BY <1>1, <2>1, <2>2, ConstantsOK
  <2> QED BY <2>3 DEF PlacesSuffice, Places
<1>3. ASSUME ~SoldOut, NEW p \in Payment, Places' \subseteq Places \cup {p}
      PROVE  PlacesSuffice'
  <2>1. IsFiniteSet(Places \cup {p}) /\ Cardinality(Places \cup {p}) \in Nat
      BY <1>1, FS_AddElement, FS_CardinalityType
  <2>2. Cardinality(Places \cup {p}) <= Capacity
      BY <1>3, RoomForOneMore
  <2>3. IsFiniteSet(Places') /\ Cardinality(Places') <= Cardinality(Places \cup {p})
      BY <1>3, <2>1, FS_Subset
  <2>4. Cardinality(Places') \in Nat
      BY <2>3, FS_CardinalityType
  <2>5. Cardinality(Places') <= Capacity
      BY <2>1, <2>2, <2>3, <2>4, ConstantsOK
  <2> QED BY <2>5 DEF PlacesSuffice, Places
<1> QED BY <1>2, <1>3, PlacesGrow

-----------------------------------------------------------------------------
(* Theorems *)

LEMMA InvariantInitially == Init => IInv
<1> SUFFICES ASSUME Init
             PROVE  IInv
    OBVIOUS
<1>1. TypeOK
    BY DEF Init, TypeOK, Statuses, Ages, Fresh, Overdue, DepositStates
<1>2. \A r \in Caller : CallTruthful(r)
    BY DEF Init, CallTruthful
<1>3. \A p \in Payment : RowConsistent(p) /\ LiveIsOpen(p)
    BY DEF Init, RowConsistent, LiveIsOpen, Live
<1>4. HeldRegistrations \cup LivePayments = {}
    BY DEF Init, HeldRegistrations, LivePayments, Live
<1>5. PlacesSuffice
    BY <1>4, FS_EmptySet, ConstantsOK DEF PlacesSuffice
<1> QED BY <1>1, <1>2, <1>3, <1>5 DEF IInv

LEMMA InvariantInductive == IInv /\ [Next]_vars => IInv'
<1> SUFFICES ASSUME IInv, [Next]_vars
             PROVE  IInv'
    OBVIOUS
<1>1. TypeOK'
    BY TypeInductive DEF IInv
<1>2. \A r \in Caller : CallTruthful(r)'
    BY CallInductive DEF IInv
<1>3. \A p \in Payment : RowConsistent(p)'
    BY RowInductive DEF IInv
<1>4. \A p \in Payment : LiveIsOpen(p)'
    BY LiveInductive DEF IInv
<1>5. PlacesSuffice'
    BY PlacesInductive DEF IInv
<1> QED BY <1>1, <1>2, <1>3, <1>4, <1>5 DEF IInv

\* The rows and the calls have their types in every reachable state.
THEOREM TypeCorrect == Spec => []TypeOK
<1>1. Init => TypeOK
    BY InvariantInitially DEF IInv
<1> QED BY <1>1, TypeInductive, PTL DEF Spec

\* The invariant that the correctness of the payments rests on.
THEOREM InvariantHolds == Spec => []IInv
BY InvariantInitially, InvariantInductive, PTL DEF Spec

\* No ticket and no credit without a confirmed deposit, for any number of
\* callbacks, polling requests and workers that interleave.
THEOREM OnlyPaidTickets == Spec => []TicketOnlyIfPaid
<1>1. IInv => TicketOnlyIfPaid
    BY DEF IInv, RowConsistent, TypeOK, TicketOnlyIfPaid
<1> QED BY <1>1, InvariantHolds, PTL

\* The seated tickets of the offer never exceed its capacity.
THEOREM OfferNotOversold == Spec => []NeverOversold
<1>1. ASSUME IInv
      PROVE  NeverOversold
  <2>1. HeldRegistrations \subseteq Places /\ Places \subseteq Payment
      BY DEF Places, HeldRegistrations, LivePayments
  <2>2. IsFiniteSet(Places)
      BY <2>1, ConstantsOK, FS_Subset
  <2>3. IsFiniteSet(HeldRegistrations) /\ Cardinality(HeldRegistrations) <= Cardinality(Places)
      BY <2>1, <2>2, FS_Subset
  <2>4. Cardinality(HeldRegistrations) \in Nat /\ Cardinality(Places) \in Nat
      BY <2>2, <2>3, FS_CardinalityType
  <2> QED BY <1>1, <2>3, <2>4, ConstantsOK DEF IInv, PlacesSuffice, Places, NeverOversold
<1> QED BY <1>1, InvariantHolds, PTL

-----------------------------------------------------------------------------
(* The payments implement TicketSales *)

SalesPaid == {p \in Payment : Paid(p)}
SalesSold == {p \in Payment : tickets[p] = 1}

\* What Paid depends on changes only when pawaPay settles a deposit.
LEMMA PaidGrows ==
    ASSUME TypeOK, NEW p \in Payment, DepositSettles(p)
    PROVE  SalesPaid' = SalesPaid \/ SalesPaid' = SalesPaid \cup {p}
BY DEF DepositSettles, SalesPaid, Paid, TypeOK, DepositStates

\* A ticket takes its place only while fewer tickets than the capacity are
\* seated: it was counted with them, or a free place was seen.
LEMMA SeatLeft ==
    ASSUME IInv, NEW p \in Payment, ~held[p], Live(p) \/ ~SoldOut
    PROVE  Cardinality(HeldRegistrations) < Capacity
<1>1. Cardinality(Places \cup {p}) <= Capacity
  <2>1. CASE Live(p)
    <3>1. Places \cup {p} = Places
        BY <2>1 DEF Places, LivePayments
    <3> QED BY <3>1 DEF IInv, PlacesSuffice, Places
  <2>2. CASE ~SoldOut
      BY <2>2, RoomForOneMore DEF IInv
  <2> QED BY <2>1, <2>2
<1>2. HeldRegistrations \cup {p} \subseteq Places \cup {p} /\ Places \cup {p} \subseteq Payment
    BY DEF Places, HeldRegistrations, LivePayments
<1>3. IsFiniteSet(Places \cup {p})
    BY <1>2, ConstantsOK, FS_Subset
<1>4. /\ IsFiniteSet(HeldRegistrations \cup {p})
      /\ Cardinality(HeldRegistrations \cup {p}) <= Cardinality(Places \cup {p})
    BY <1>2, <1>3, FS_Subset
<1>5. IsFiniteSet(HeldRegistrations) /\ p \notin HeldRegistrations
    BY <1>4, FS_Subset DEF HeldRegistrations
<1>6. Cardinality(HeldRegistrations \cup {p}) = Cardinality(HeldRegistrations) + 1
    BY <1>5, FS_AddElement
<1>7. Cardinality(HeldRegistrations) \in Nat /\ Cardinality(Places \cup {p}) \in Nat
    BY <1>3, <1>5, FS_CardinalityType
<1> QED BY <1>1, <1>4, <1>6, <1>7, ConstantsOK

\* The two modules count alike.
LEMMA SameCount == \A S : Sales!Cardinality(S) = Cardinality(S)
BY Zenon DEF Sales!Cardinality, Cardinality

\* Every step of the payments is a step of the sale, or leaves it unchanged.
LEMMA StepImplementsSales ==
    ASSUME IInv, [Next]_vars
    PROVE  [Sales!Next]_(Sales!vars)
<1> DEFINE Goal == [Sales!Next]_(Sales!vars)
<1>1. CASE UNCHANGED <<tickets, held, sales, deposit, matches>>
    BY <1>1 DEF Sales!vars, Paid, HeldRegistrations
<1>2. ASSUME NEW p \in Payment, Reserve(p)
      PROVE  Goal
  <2>1. status[p] = "NO_ROW" /\ deposit[p] = "NONE"
      BY <1>2 DEF Reserve, IInv, RowConsistent
  <2>2. SalesPaid' = SalesPaid
      BY <1>2, <2>1 DEF Reserve, SalesPaid, Paid, IInv, TypeOK
  <2> QED BY <1>2, <2>2 DEF Reserve, Sales!vars, ticketVars, SalesPaid, HeldRegistrations
<1>3. ASSUME NEW p \in Payment, DepositArrives(p)
      PROVE  Goal
  <2>1. SalesPaid' = SalesPaid
      BY <1>3 DEF DepositArrives, SalesPaid, Paid, IInv, TypeOK
  <2> QED BY <1>3, <2>1 DEF DepositArrives, Sales!vars, ticketVars, SalesPaid, HeldRegistrations
<1>4. ASSUME NEW p \in Payment, DepositSettles(p)
      PROVE  Goal
  <2>1. SalesPaid' = SalesPaid \/ SalesPaid' = SalesPaid \cup {p}
      BY <1>4, PaidGrows DEF IInv
  <2> QED BY <1>4, <2>1 DEF DepositSettles, Sales!vars, Sales!Next, Sales!Collect, ticketVars,
                            SalesPaid, HeldRegistrations
<1>5. ASSUME NEW p \in Payment, ReleaseFailedRegistration(p)
      PROVE  Goal
  <2>1. HeldRegistrations' = HeldRegistrations \ {p}
      BY <1>5 DEF ReleaseFailedRegistration, HeldRegistrations, IInv, TypeOK
  <2>2. Sales!Release(p)
      BY <1>5, <2>1 DEF ReleaseFailedRegistration, Sales!Release, remoteVars, Paid
  <2> QED BY <2>2 DEF Sales!Next
<1>6. ASSUME NEW p \in Payment, ReacquireCapacity(p)
      PROVE  Goal
  <2>1. HeldRegistrations' = HeldRegistrations \cup {p}
      BY <1>6 DEF ReacquireCapacity, HeldRegistrations, IInv, TypeOK
  <2>2. p \in SalesSold \ HeldRegistrations
      BY <1>6 DEF ReacquireCapacity, RegistrationExists, SalesSold, HeldRegistrations, IInv,
                  RowConsistent
  <2>3. Cardinality(HeldRegistrations) < Capacity
      BY <1>6, SeatLeft DEF ReacquireCapacity
  <2>4. Sales!Reseat(p)
      BY <1>6, <2>1, <2>2, <2>3, SameCount DEF ReacquireCapacity, Sales!Reseat, remoteVars, Paid, SalesSold
  <2> QED BY <2>4 DEF Sales!Next
<1>7. ASSUME NEW r \in Caller, FulfilIssues(r)
      PROVE  Goal
  <2>1. PICK p \in Payment : p = call[r].pay
      BY <1>7 DEF FulfilIssues, Answered, IInv, TypeOK, Calls
  <2>2. Paid(p) /\ tickets[p] = 0 /\ ~held[p]
      BY <1>7, <2>1 DEF FulfilIssues, Answered, IInv, TypeOK, CallTruthful, RowConsistent,
                        RegistrationExists
  <2>3. Live(p) \/ ~SoldOut
      BY <1>7, <2>1, <2>2 DEF FulfilIssues, SoldOutAfterHold, Live, Paid, IInv, TypeOK, Ages,
                              Fresh, Overdue, HoldLapsed
  <2>4. Cardinality(HeldRegistrations) < Capacity
      BY <2>2, <2>3, SeatLeft
  <2>5. HeldRegistrations' = HeldRegistrations \cup {p}
      BY <1>7, <2>1 DEF FulfilIssues, HeldRegistrations, IInv, TypeOK
  <2>6. SalesSold' = SalesSold \cup {p} /\ p \in SalesPaid \ SalesSold
      BY <1>7, <2>1, <2>2 DEF FulfilIssues, SalesSold, SalesPaid, IInv, TypeOK
  <2>7. SalesPaid' = SalesPaid
      BY <1>7 DEF FulfilIssues, SalesPaid, remoteVars, Paid
  <2>8. Sales!Sell(p)
      BY <1>7, <2>1, <2>4, <2>5, <2>6, <2>7, SameCount DEF FulfilIssues, Sales!Sell, SalesSold, SalesPaid
  <2> QED BY <2>8 DEF Sales!Next
<1>8. ASSUME NEW p \in Payment,
             Checkout(p) \/ Registration(p) \/ Refund(p) \/ Environment(p)
      PROVE  Goal
  <2>1. CASE \/ InitiateAccepted(p) \/ InitiateRejected(p) \/ InitiateUncertain(p)
             \/ Refund(p) \/ TimePasses(p)
      BY <1>1, <2>1 DEF InitiateAccepted, InitiateRejected, InitiateUncertain, Refund,
            RefundTicketPayment, RefundCompleted, RefundFailed, TimePasses, ticketVars, remoteVars
  <2> QED BY <1>2, <1>3, <1>4, <1>5, <1>6, <1>8, <2>1 DEF Checkout, Registration, Environment
<1>9. ASSUME NEW r \in Caller, Reconcile(r)
      PROVE  Goal
  <2>1. CASE ~FulfilIssues(r)
      BY <1>1, <1>9, <2>1 DEF Reconcile, BeginReconcile, CheckDeposit, SnapshotThrows, CallFails, Apply,
            ApplyNotFound, ApplyMismatch, ApplyFailed, ApplyInProgress, ExpireOverdue, Fulfil,
            FulfilFinal, FulfilSoldOut, FulfilDuplicate, ReturnWith, ReturnUnchanged,
            ticketVars, remoteVars
  <2> QED BY <1>7, <2>1
<1>10. CASE UNCHANGED vars \/ TemplateChanges
    BY <1>1, <1>10 DEF vars, TemplateChanges, ticketVars
<1> QED BY <1>8, <1>9, <1>10 DEF Next

\* The whole checkout, with its late answers and its retries, sells tickets as
\* TicketSales does: money first, once per purchase, within the capacity.
THEOREM ImplementsSales == Spec => SalesSpec
<1>1. Init => Sales!Init
  <2> SUFFICES ASSUME Init
               PROVE  Sales!Init
      OBVIOUS
  <2>1. SalesPaid = {} /\ SalesSold = {} /\ HeldRegistrations = {}
      BY DEF Init, SalesPaid, SalesSold, HeldRegistrations, Paid
  <2> QED BY <2>1 DEF Init, Sales!Init, SalesPaid, SalesSold
<1>2. IInv /\ [Next]_vars => [Sales!Next]_(Sales!vars)
    BY StepImplementsSales
<1> QED BY <1>1, <1>2, InvariantHolds, PTL DEF Spec, SalesSpec, Sales!Spec
=============================================================================
