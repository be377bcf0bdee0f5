---------------------- MODULE OrganizerPayouts_proofs ----------------------
(***************************************************************************)
(* Proofs about OrganizerPayouts, for any payouts, amounts and number of   *)
(* concurrent callers (the lemmas follow the parts of IInv), about the     *)
(* amounts of SalesBalance and about the refunds of TicketRefunds.         *)
(***************************************************************************)
EXTENDS OrganizerPayouts, SalesBalance, TicketRefunds, WellFoundedInduction, FiniteSetTheorems, TLAPS

\* A call under way names a payout and has one of the two kinds.
LEMMA CallType ==
    ASSUME TypeOK, NEW r \in Caller, call[r] # NoCall
    PROVE  /\ call[r] \in Submissions \cup Checks
           /\ call[r].pay \in Payout
BY DEF TypeOK, Submissions, Checks

\* What pawaPay answers has the type of an answer and is true when it is given.
LEMMA RemoteAnswerTrue ==
    ASSUME TypeOK, NEW p \in Payout
    PROVE  /\ RemoteAnswer(p) \in {"NOT_FOUND", "MISMATCH"} \cup Found
           /\ RemoteAnswer(p) \in Found => remote[p] = RemoteAnswer(p)
BY DEF TypeOK, RemoteAnswer, Found, RemoteStates

\* Giving an amount back keeps the balance a sum that is not negative.
LEMMA ReverseType ==
    ASSUME TypeOK, NEW p \in Payout, Reverse(p)
    PROVE  balance' \in Nat /\ reversed' \in [Payout -> BOOLEAN]
BY DEF TypeOK, Reverse

LEMMA UpdateIfType ==
    ASSUME TypeOK, NEW p \in Payout, NEW from, NEW to \in Statuses, UpdateIf(p, from, to)
    PROVE  status' \in [Payout -> Statuses]
BY DEF TypeOK, UpdateIf

LEMMA FailPayoutType ==
    ASSUME TypeOK, NEW p \in Payout, FailPayout(p)
    PROVE  /\ status' \in [Payout -> Statuses]
           /\ balance' \in Nat
           /\ reversed' \in [Payout -> BOOLEAN]
           /\ amount' = amount
<1>1. status' \in [Payout -> Statuses]
    BY UpdateIfType DEF FailPayout, Statuses, ClosedUnpaid
<1>2. balance' \in Nat /\ reversed' \in [Payout -> BOOLEAN]
    BY ReverseType DEF FailPayout, TypeOK
<1> QED BY <1>1, <1>2 DEF FailPayout

-----------------------------------------------------------------------------
\* The balance never goes below zero, and rows and calls keep their types.
LEMMA TypeInductive == TypeOK /\ [Next]_vars => TypeOK'
<1> SUFFICES ASSUME TypeOK, [Next]_vars
             PROVE  TypeOK'
    OBVIOUS
<1> USE DEF ledgerVars, remoteVars
<1>1. CASE TicketSold
    BY <1>1, PayoutConstantsOK DEF TypeOK, TicketSold
<1>2. ASSUME NEW p \in Payout, RequestPayout(p)
      PROVE  TypeOK'
    BY <1>2 DEF TypeOK, RequestPayout, Statuses, OpenPayoutStatuses
<1>3. ASSUME NEW p \in Payout, CancelPayout(p)
      PROVE  TypeOK'
    BY <1>3, ReverseType DEF TypeOK, CancelPayout, Statuses, ClosedUnpaid
<1>4. ASSUME NEW p \in Payout, ApprovePayout(p)
      PROVE  TypeOK'
    BY <1>4 DEF TypeOK, ApprovePayout, Statuses, OpenPayoutStatuses
<1>5. ASSUME NEW p \in Payout, RejectPayout(p)
      PROVE  TypeOK'
    BY <1>5 DEF TypeOK, RejectPayout, Statuses, ClosedUnpaid
<1>6. ASSUME NEW p \in Payout, PayoutSettles(p) \/ SubmissionAges(p)
      PROVE  TypeOK'
    BY <1>6 DEF TypeOK, PayoutSettles, SubmissionAges, RemoteStates, Found
<1>7. ASSUME NEW w \in Worker, NEW p \in Payout, ClaimPayout(w, p)
      PROVE  TypeOK'
    BY <1>7 DEF TypeOK, ClaimPayout, Statuses, OpenPayoutStatuses, Submissions
<1>8. ASSUME NEW r \in Caller, Submit(r)
      PROVE  TypeOK'
  <2>1. CASE SendPayout(r)
    <3>1. call[r] \in Submissions
        BY <2>1, CallType DEF SendPayout, Waiting, Checks
    <3>2. \A a \in {"ACCEPTED", "REJECTED"} : [call[r] EXCEPT !.answer = a] \in Submissions
        BY <3>1 DEF Submissions
    <3>3. \E a \in {"ACCEPTED", "REJECTED"} :
              call' = [call EXCEPT ![r] = [call[r] EXCEPT !.answer = a]]
        BY <2>1 DEF SendPayout
    <3>4. call' \in [Caller -> Submissions \cup Checks \cup {NoCall}]
        BY <3>2, <3>3 DEF TypeOK
    <3>5. remote' \in [Payout -> RemoteStates] /\ matches' \in [Payout -> BOOLEAN]
        BY <2>1 DEF TypeOK, SendPayout, RemoteStates, Found
    <3> QED BY <2>1, <3>4, <3>5 DEF SendPayout, TypeOK
  <2>2. CASE SubmitAccepted(r)
      BY <2>2 DEF TypeOK, SubmitAccepted, Return, Statuses, OpenPayoutStatuses
  <2>3. CASE SubmitRejected(r)
    <3>1. call[r].pay \in Payout
        BY <2>3, CallType DEF SubmitRejected, Told
    <3> QED BY <2>3, <3>1, FailPayoutType DEF TypeOK, SubmitRejected, Return
  <2>4. CASE SubmitUncertain(r)
    <3>1. call[r].pay \in Payout
        BY <2>4, CallType DEF SubmitUncertain
    <3>2. status' \in [Payout -> Statuses]
        BY <2>4, <3>1, UpdateIfType DEF SubmitUncertain, Statuses, OpenPayoutStatuses
    <3> QED BY <2>4, <3>2 DEF TypeOK, SubmitUncertain, Return
  <2> QED BY <1>8, <2>1, <2>2, <2>3, <2>4 DEF Submit
<1>9. ASSUME NEW r \in Caller, Check(r)
      PROVE  TypeOK'
  <2>1. ASSUME NEW p \in Payout, BeginCheck(r, p)
        PROVE  TypeOK'
    <3>1. (status[p] = "SUBMITTING" /\ stale[p]) \in BOOLEAN
        BY Zenon DEF TypeOK
    <3> QED BY <2>1, <3>1 DEF TypeOK, BeginCheck, Checks
  <2>2. CASE CheckPayout(r)
    <3>1. call[r] \in Checks /\ call[r].pay \in Payout
        BY <2>2, CallType DEF CheckPayout, Waiting, Submissions
    <3>2. RemoteAnswer(call[r].pay) \in {"NOT_FOUND", "MISMATCH"} \cup Found
        BY <3>1, RemoteAnswerTrue
    <3>3. [call[r] EXCEPT !.answer = RemoteAnswer(call[r].pay)] \in Checks
        BY <3>1, <3>2 DEF Checks
    <3>4. call' \in [Caller -> Submissions \cup Checks \cup {NoCall}]
        BY <2>2, <3>3 DEF TypeOK, CheckPayout
    <3> QED BY <2>2, <3>4 DEF TypeOK, CheckPayout
  <2>3. CASE Apply(r)
    <3>1. call[r].pay \in Payout
        BY <2>3, CallType DEF Apply, ApplyNotFound, ApplyMismatch, ApplyCompleted, ApplyFailed,
                              ApplyInProgress, Told
    <3>2. CASE ApplyFailed(r)
        BY <3>1, <3>2, FailPayoutType DEF TypeOK, ApplyFailed, Return
    <3>3. CASE ApplyNotFound(r) \/ ApplyMismatch(r) \/ ApplyCompleted(r) \/ ApplyInProgress(r)
      <4>1. status' \in [Payout -> Statuses]
          BY <3>1, <3>3, UpdateIfType DEF TypeOK, ApplyNotFound, ApplyMismatch, ApplyCompleted,
             ApplyInProgress, Statuses, OpenPayoutStatuses
      <4> QED BY <3>3, <4>1 DEF TypeOK, ApplyNotFound, ApplyMismatch, ApplyCompleted,
             ApplyInProgress, Return
    <3> QED BY <2>3, <3>2, <3>3 DEF Apply
  <2> QED BY <1>9, <2>1, <2>2, <2>3 DEF Check
<1>10. ASSUME NEW r \in Caller, CallStops(r)
       PROVE  TypeOK'
    BY <1>10 DEF TypeOK, CallStops, Return
<1>11. CASE UNCHANGED vars
    BY <1>11 DEF TypeOK, vars
<1> QED BY <1>1, <1>2, <1>3, <1>4, <1>5, <1>6, <1>7, <1>8, <1>9, <1>10, <1>11
        DEF Next, Console

-----------------------------------------------------------------------------
(* What pawaPay has only moves forward *)

\* No step takes back what an answer of pawaPay may have said, and a payout once
\* submitted is never as if it had not been.
LEMMA RemoteMonotone ==
    ASSUME TypeOK, [Next]_vars, NEW p \in Payout
    PROVE  /\ remote[p] \in Found => remote'[p] \in Found
           /\ remote[p] = "COMPLETED" => remote'[p] = "COMPLETED"
           /\ remote[p] = "FAILED" => remote'[p] = "FAILED"
           /\ RejectionsAreFinal /\ remote[p] = "REJECTED" => remote'[p] = "REJECTED"
<1> USE DEF remoteVars
<1>1. ASSUME NEW r \in Caller, SendPayout(r)
      PROVE  \/ remote' = remote
             \/ remote' = [remote EXCEPT ![call[r].pay] = "REJECTED"]
                  /\ remote[call[r].pay] \notin Found
             \/ remote' = [remote EXCEPT ![call[r].pay] = "IN_PROGRESS"]
                  /\ remote[call[r].pay] \notin Found
                  /\ (remote[call[r].pay] = "REJECTED" => ~RejectionsAreFinal)
    BY <1>1 DEF SendPayout, Found
<1>2. CASE \E r \in Caller : SendPayout(r)
    BY <1>1, <1>2 DEF TypeOK, Found
<1>3. CASE \E q \in Payout : PayoutSettles(q)
    BY <1>3 DEF PayoutSettles, TypeOK, Found
<1>4. CASE ~(\E r \in Caller : SendPayout(r)) /\ ~(\E q \in Payout : PayoutSettles(q))
  <2>1. remote' = remote
      BY <1>4 DEF Next, vars, TicketSold, Console, RequestPayout, CancelPayout, ApprovePayout,
         RejectPayout, SubmissionAges, ClaimPayout, Submit, SubmitAccepted, SubmitRejected,
         SubmitUncertain, Check, BeginCheck, CheckPayout, Apply, ApplyNotFound, ApplyMismatch,
         ApplyCompleted, ApplyFailed, ApplyInProgress, CallStops
  <2> QED BY <2>1
<1> QED BY <1>2, <1>3, <1>4

\* A caller that has a payout in hand writes no status of an unsubmitted payout,
\* and the console writes no other.
LEMMA StatusMonotone ==
    ASSUME TypeOK, [Next]_vars, NEW p \in Payout
    PROVE  status[p] \notin Unsubmitted => status'[p] \notin Unsubmitted
<1> USE DEF Unsubmitted, TypeOK, ledgerVars, remoteVars
<1>1. ASSUME NEW q \in Payout, Console(q)
      PROVE  status[p] \notin Unsubmitted => status'[p] = status[p]
    BY <1>1 DEF Console, RequestPayout, CancelPayout, ApprovePayout, RejectPayout
<1>2. CASE TicketSold \/ \E q \in Payout : PayoutSettles(q) \/ SubmissionAges(q)
    BY <1>2 DEF TicketSold, PayoutSettles, SubmissionAges
<1>3. ASSUME NEW w \in Worker, NEW q \in Payout, ClaimPayout(w, q)
      PROVE  status[p] \notin Unsubmitted => status'[p] \notin Unsubmitted
    BY <1>3 DEF ClaimPayout
<1>4. ASSUME NEW r \in Caller, Submit(r)
      PROVE  status[p] \notin Unsubmitted => status'[p] \notin Unsubmitted
    BY <1>4 DEF Submit, SendPayout, SubmitAccepted, SubmitRejected, SubmitUncertain,
                FailPayout, UpdateIf
<1>5. ASSUME NEW r \in Caller, Check(r) \/ CallStops(r)
      PROVE  status[p] \notin Unsubmitted => status'[p] \notin Unsubmitted
    BY <1>5 DEF Check, BeginCheck, CheckPayout, Apply, ApplyNotFound, ApplyMismatch,
                ApplyCompleted, ApplyFailed, ApplyInProgress, CallStops, FailPayout, UpdateIf
<1>6. CASE UNCHANGED vars
    BY <1>6 DEF vars
<1> QED BY <1>1, <1>2, <1>3, <1>4, <1>5, <1>6 DEF Next

-----------------------------------------------------------------------------
(* Calls *)

\* A call that a step does not touch stays truthful.
LEMMA CallUntouched ==
    ASSUME TypeOK, [Next]_vars, NEW r \in Caller, call'[r] = call[r], CallTruthful(r)
    PROVE  CallTruthful(r)'
<1>1. CASE call[r] = NoCall
    BY <1>1 DEF CallTruthful
<1>2. CASE call[r] # NoCall
  <2>1. PICK p \in Payout : p = call[r].pay
      BY <1>2, CallType
  <2>2. /\ remote[p] \in Found => remote'[p] \in Found
        /\ remote[p] = "COMPLETED" => remote'[p] = "COMPLETED"
        /\ remote[p] = "FAILED" => remote'[p] = "FAILED"
        /\ status[p] \notin Unsubmitted => status'[p] \notin Unsubmitted
      BY RemoteMonotone, StatusMonotone
  <2> QED BY <1>2, <2>1, <2>2 DEF CallTruthful, Told
<1> QED BY <1>1, <1>2

\* A step changes the call of one caller, and that one's alone.
LEMMA CallInductive ==
    ASSUME TypeOK, [Next]_vars, \A r \in Caller : CallTruthful(r)
    PROVE  \A r \in Caller : CallTruthful(r)'
<1> SUFFICES ASSUME NEW q \in Caller
             PROVE  CallTruthful(q)'
    OBVIOUS
<1> USE DEF ledgerVars, remoteVars
<1>1. CASE call'[q] = call[q]
    BY <1>1, CallUntouched
<1>2. CASE call'[q] = NoCall
    BY <1>2 DEF CallTruthful
<1>3. ASSUME NEW w \in Worker, NEW p \in Payout, ClaimPayout(w, p)
      PROVE  CallTruthful(q)'
  <2>1. CASE q = w
    <3>1. call'[q] = [kind |-> "SUBMIT", pay |-> p, answer |-> "WAITING"]
        BY <1>3, <2>1 DEF ClaimPayout, TypeOK
    <3>2. status'[p] = "SUBMITTING"
        BY <1>3 DEF ClaimPayout, TypeOK
    <3> QED BY <3>1, <3>2 DEF CallTruthful, Told, Unsubmitted
  <2>2. CASE q # w
      BY <1>1, <1>3, <2>2 DEF ClaimPayout, TypeOK
  <2> QED BY <2>1, <2>2
<1>4. ASSUME NEW r \in Caller, Submit(r)
      PROVE  CallTruthful(q)'
  <2>1. CASE SendPayout(r)
    <3>1. CASE q = r
      <4>1. call[r] \in Submissions /\ call[r] # NoCall
          BY <2>1, CallType DEF SendPayout, Waiting, Checks
      <4>2. PICK p \in Payout : p = call[r].pay
          BY <4>1 DEF Submissions
      <4>3. PICK a \in {"ACCEPTED", "REJECTED"} :
              /\ call' = [call EXCEPT ![r] = [call[r] EXCEPT !.answer = a]]
              /\ a = "ACCEPTED" => remote'[p] \in Found
          BY <2>1, <4>2 DEF SendPayout, TypeOK, Found
      <4>4. call'[r] = [kind |-> "SUBMIT", pay |-> p, answer |-> a]
          BY <4>1, <4>2, <4>3 DEF TypeOK, Submissions
      <4>5. status' = status /\ status[p] \notin Unsubmitted
          BY <2>1, <4>1, <4>2 DEF SendPayout, CallTruthful
      <4> QED BY <3>1, <4>3, <4>4, <4>5 DEF CallTruthful, Told
    <3>2. CASE q # r
        BY <1>1, <2>1, <3>2 DEF SendPayout, TypeOK
    <3> QED BY <3>1, <3>2
  <2>2. CASE SubmitAccepted(r) \/ SubmitRejected(r) \/ SubmitUncertain(r)
      BY <1>1, <1>2, <2>2 DEF SubmitAccepted, SubmitRejected, SubmitUncertain, Return, TypeOK
  <2> QED BY <1>4, <2>1, <2>2 DEF Submit
<1>5. ASSUME NEW r \in Caller, Check(r)
      PROVE  CallTruthful(q)'
  <2>1. ASSUME NEW p \in Payout, BeginCheck(r, p)
        PROVE  CallTruthful(q)'
    <3>1. CASE q = r
        BY <2>1, <3>1 DEF BeginCheck, TypeOK, CallTruthful, Told, InFlightStatuses, Unsubmitted
    <3>2. CASE q # r
        BY <1>1, <2>1, <3>2 DEF BeginCheck, TypeOK
    <3> QED BY <3>1, <3>2
  <2>2. CASE CheckPayout(r)
    <3>1. CASE q = r
      <4>1. call[r] \in Checks /\ call[r] # NoCall
          BY <2>2, CallType DEF CheckPayout, Waiting, Submissions
      <4>2. PICK p \in Payout : p = call[r].pay
          BY <4>1 DEF Checks
      <4>3. call'[r] = [kind |-> "CHECK", pay |-> p, stale |-> call[r].stale,
                        answer |-> RemoteAnswer(p)]
          BY <2>2, <4>1, <4>2 DEF CheckPayout, TypeOK, Checks
      <4>4. UNCHANGED <<status, remote>> /\ status[p] \notin Unsubmitted
          BY <2>2, <4>1, <4>2 DEF CheckPayout, CallTruthful
      <4>5. RemoteAnswer(p) \in Found => remote[p] = RemoteAnswer(p)
          BY RemoteAnswerTrue
      <4> QED BY <3>1, <4>3, <4>4, <4>5 DEF CallTruthful, Told, Found
    <3>2. CASE q # r
        BY <1>1, <2>2, <3>2 DEF CheckPayout, TypeOK
    <3> QED BY <3>1, <3>2
  <2>3. CASE Apply(r)
      BY <1>1, <1>2, <2>3 DEF Apply, ApplyNotFound, ApplyMismatch, ApplyCompleted, ApplyFailed,
         ApplyInProgress, Return, TypeOK
  <2> QED BY <1>5, <2>1, <2>2, <2>3 DEF Check
<1>6. ASSUME NEW r \in Caller, CallStops(r)
      PROVE  CallTruthful(q)'
    BY <1>1, <1>2, <1>6 DEF CallStops, Return, TypeOK
<1>7. CASE TicketSold \/ \E p \in Payout : Console(p) \/ PayoutSettles(p) \/ SubmissionAges(p)
    BY <1>1, <1>7 DEF TicketSold, Console, RequestPayout, CancelPayout, ApprovePayout,
       RejectPayout, PayoutSettles, SubmissionAges
<1>8. CASE UNCHANGED vars
    BY <1>1, <1>8 DEF vars
<1> QED BY <1>3, <1>4, <1>5, <1>6, <1>7, <1>8 DEF Next

-----------------------------------------------------------------------------
(* Rows *)

\* What each kind of step may do to one payout. A transition is made with the
\* amount given back exactly when it closes the payout unpaid.
LEMMA StatusSteps ==
    ASSUME TypeOK, [Next]_vars, \A r \in Caller : CallTruthful(r), NEW p \in Payout
    PROVE  \/ status'[p] = status[p] /\ reversed'[p] = reversed[p]
           \/ /\ status[p] = "NO_ROW" /\ status'[p] = "REQUESTED"
              /\ reversed'[p] = reversed[p] /\ remote' = remote
           \/ /\ status[p] = "REQUESTED" /\ status'[p] \in {"CANCELED", "REJECTED"}
              /\ reversed'[p] /\ remote' = remote
           \/ /\ status[p] = "REQUESTED" \/ status[p] \notin Unsubmitted
              /\ status'[p] \in {"APPROVED", "SUBMITTING", "PROCESSING"}
              /\ reversed'[p] = reversed[p] /\ remote' = remote
           \/ /\ status[p] \in InFlightStatuses /\ status'[p] = "FAILED"
              /\ reversed'[p] /\ remote' = remote
           \/ /\ status[p] \in InFlightStatuses /\ status'[p] = "COMPLETED"
              /\ reversed'[p] = reversed[p] /\ remote' = remote
              /\ remote[p] = "COMPLETED"
<1> DEFINE Goal ==
           \/ status'[p] = status[p] /\ reversed'[p] = reversed[p]
           \/ /\ status[p] = "NO_ROW" /\ status'[p] = "REQUESTED"
              /\ reversed'[p] = reversed[p] /\ remote' = remote
           \/ /\ status[p] = "REQUESTED" /\ status'[p] \in {"CANCELED", "REJECTED"}
              /\ reversed'[p] /\ remote' = remote
           \/ /\ status[p] = "REQUESTED" \/ status[p] \notin Unsubmitted
              /\ status'[p] \in {"APPROVED", "SUBMITTING", "PROCESSING"}
              /\ reversed'[p] = reversed[p] /\ remote' = remote
           \/ /\ status[p] \in InFlightStatuses /\ status'[p] = "FAILED"
              /\ reversed'[p] /\ remote' = remote
           \/ /\ status[p] \in InFlightStatuses /\ status'[p] = "COMPLETED"
              /\ reversed'[p] = reversed[p] /\ remote' = remote
              /\ remote[p] = "COMPLETED"
<1> USE DEF ledgerVars, remoteVars
<1>1. CASE TicketSold \/ \E q \in Payout : PayoutSettles(q) \/ SubmissionAges(q)
    BY <1>1 DEF TicketSold, PayoutSettles, SubmissionAges
<1>2. ASSUME NEW q \in Payout, Console(q)
      PROVE  Goal
    BY <1>2 DEF Console, RequestPayout, CancelPayout, ApprovePayout, RejectPayout, Reverse, TypeOK
<1>3. ASSUME NEW w \in Worker, NEW q \in Payout, ClaimPayout(w, q)
      PROVE  Goal
    BY <1>3 DEF ClaimPayout, TypeOK, Unsubmitted
<1>4. ASSUME NEW r \in Caller, Submit(r)
      PROVE  Goal
  <2>1. CASE SendPayout(r)
      BY <2>1 DEF SendPayout
  <2>2. CASE SubmitAccepted(r)
    <3>1. call[r].pay \in Payout /\ status[call[r].pay] \notin Unsubmitted
        BY <2>2, CallType DEF SubmitAccepted, Told, CallTruthful
    <3> QED BY <2>2, <3>1 DEF SubmitAccepted, TypeOK
  <2>3. CASE SubmitRejected(r)
    <3>1. call[r].pay \in Payout
        BY <2>3, CallType DEF SubmitRejected, Told
    <3> QED BY <2>3, <3>1 DEF SubmitRejected, FailPayout, UpdateIf, Reverse, TypeOK
  <2>4. CASE SubmitUncertain(r)
      BY <2>4 DEF SubmitUncertain, UpdateIf, TypeOK, Unsubmitted
  <2> QED BY <1>4, <2>1, <2>2, <2>3, <2>4 DEF Submit
<1>5. ASSUME NEW r \in Caller, Check(r) \/ CallStops(r)
      PROVE  Goal
  <2>1. CASE (\E q \in Payout : BeginCheck(r, q)) \/ CheckPayout(r) \/ ApplyMismatch(r)
             \/ CallStops(r)
      BY <2>1 DEF BeginCheck, CheckPayout, ApplyMismatch, CallStops
  <2>2. CASE ApplyNotFound(r) \/ ApplyInProgress(r)
      BY <2>2 DEF ApplyNotFound, ApplyInProgress, UpdateIf, TypeOK, Unsubmitted
  <2>3. CASE ApplyCompleted(r)
    <3>1. call[r].pay \in Payout /\ remote[call[r].pay] = "COMPLETED"
        BY <2>3, CallType DEF ApplyCompleted, Told, CallTruthful
    <3> QED BY <2>3, <3>1 DEF ApplyCompleted, UpdateIf, TypeOK
  <2>4. CASE ApplyFailed(r)
    <3>1. call[r].pay \in Payout
        BY <2>4, CallType DEF ApplyFailed, Told
    <3> QED BY <2>4, <3>1 DEF ApplyFailed, FailPayout, UpdateIf, Reverse, TypeOK
  <2> QED BY <1>5, <2>1, <2>2, <2>3, <2>4 DEF Check, Apply
<1>6. CASE UNCHANGED vars
    BY <1>6 DEF vars
<1> QED BY <1>1, <1>2, <1>3, <1>4, <1>5, <1>6 DEF Next

\* Until it is submitted, pawaPay has not heard of a payout.
LEMMA RemoteOfUnsubmitted ==
    ASSUME TypeOK, [Next]_vars, \A r \in Caller : CallTruthful(r),
           NEW p \in Payout, RowConsistent(p), status[p] \in Unsubmitted
    PROVE  remote'[p] = "NONE"
<1> USE DEF remoteVars, RowConsistent
<1>1. ASSUME NEW r \in Caller, SendPayout(r)
      PROVE  remote'[p] = "NONE"
    BY <1>1, CallType DEF SendPayout, Waiting, CallTruthful, TypeOK
<1>2. CASE \E q \in Payout : PayoutSettles(q)
    BY <1>2 DEF PayoutSettles, TypeOK
<1>3. CASE ~(\E r \in Caller : SendPayout(r)) /\ ~(\E q \in Payout : PayoutSettles(q))
  <2>1. remote' = remote
      BY <1>3 DEF Next, vars, TicketSold, Console, RequestPayout, CancelPayout, ApprovePayout,
         RejectPayout, SubmissionAges, ClaimPayout, Submit, SubmitAccepted, SubmitRejected,
         SubmitUncertain, Check, BeginCheck, CheckPayout, Apply, ApplyNotFound, ApplyMismatch,
         ApplyCompleted, ApplyFailed, ApplyInProgress, CallStops
  <2> QED BY <2>1
<1> QED BY <1>1, <1>2, <1>3

LEMMA RowInductive ==
    ASSUME TypeOK, [Next]_vars, \A r \in Caller : CallTruthful(r),
           NEW p \in Payout, RowConsistent(p)
    PROVE  RowConsistent(p)'
<1>1. status'[p] \in Unsubmitted => status[p] \in Unsubmitted
    BY StatusMonotone
<1>2. status'[p] \in Unsubmitted => remote'[p] = "NONE"
    BY <1>1, RemoteOfUnsubmitted
<1>3. status'[p] \in {"NO_ROW", "REQUESTED"} => ~reversed'[p]
    BY StatusSteps DEF RowConsistent
<1>4. status'[p] = "NO_ROW" => amount'[p] = 0
  <2>1. status'[p] = "NO_ROW" => status[p] = "NO_ROW"
      BY StatusSteps
  <2>2. status'[p] = "NO_ROW" => amount'[p] = amount[p]
    <3>1. ASSUME NEW q \in Payout, RequestPayout(q)
          PROVE  status'[p] = "NO_ROW" => amount'[p] = amount[p]
        BY <3>1 DEF RequestPayout, TypeOK
    <3>2. CASE ~\E q \in Payout : RequestPayout(q)
      <4>1. amount' = amount
          BY <3>2 DEF Next, vars, ledgerVars, TicketSold, Console, CancelPayout, ApprovePayout,
             RejectPayout, PayoutSettles, SubmissionAges, ClaimPayout, Submit, SendPayout,
             SubmitAccepted, SubmitRejected, SubmitUncertain, Check, BeginCheck, CheckPayout,
             Apply, ApplyNotFound, ApplyMismatch, ApplyCompleted, ApplyFailed, ApplyInProgress,
             CallStops, FailPayout
      <4> QED BY <4>1
    <3> QED BY <3>1, <3>2
  <2> QED BY <2>1, <2>2 DEF RowConsistent
<1> QED BY <1>2, <1>3, <1>4 DEF RowConsistent

\* A status that tells the end of a payout is only ever written with that end.
LEMMA StatusInductive ==
    ASSUME TypeOK, [Next]_vars, \A r \in Caller : CallTruthful(r), StatusTruthful
    PROVE  StatusTruthful'
<1> SUFFICES ASSUME NEW p \in Payout
             PROVE  /\ status'[p] = "COMPLETED" => remote'[p] = "COMPLETED"
                    /\ status'[p] \in ClosedUnpaid => reversed'[p]
    BY DEF StatusTruthful
<1>1. remote[p] = "COMPLETED" => remote'[p] = "COMPLETED"
    BY RemoteMonotone
<1> QED BY <1>1, StatusSteps DEF StatusTruthful, ClosedUnpaid

-----------------------------------------------------------------------------
(* Money given back *)

\* If pawaPay never accepts what it rejected, a rejection stays true until the
\* caller that was told it has given the amount back.
LEMMA RejectionInductive ==
    ASSUME TypeOK, [Next]_vars, RejectionsAreFinal, NEW q \in Caller, RejectionTruthful(q)
    PROVE  RejectionTruthful(q)'
<1>1. CASE call'[q] = call[q]
  <2>1. Told(q, "SUBMIT", "REJECTED") => call[q].pay \in Payout
      BY CallType DEF Told
  <2> QED BY <1>1, <2>1, RemoteMonotone DEF RejectionTruthful, Told
<1>2. CASE call'[q] = NoCall
    BY <1>2 DEF RejectionTruthful, Told
<1>3. ASSUME NEW r \in Caller, SendPayout(r)
      PROVE  RejectionTruthful(q)'
  <2>1. CASE q = r
    <3>1. call[r] \in Submissions /\ call[r] # NoCall
        BY <1>3, CallType DEF SendPayout, Waiting, Checks
    <3>2. PICK p \in Payout : p = call[r].pay
        BY <3>1 DEF Submissions
    <3>3. PICK a \in {"ACCEPTED", "REJECTED"} :
            /\ call' = [call EXCEPT ![r] = [call[r] EXCEPT !.answer = a]]
            /\ a = "REJECTED" => remote'[p] = "REJECTED"
        BY <1>3, <3>2 DEF SendPayout, TypeOK
    <3>4. call'[r] = [kind |-> "SUBMIT", pay |-> p, answer |-> a]
        BY <3>1, <3>2, <3>3 DEF TypeOK, Submissions
    <3> QED BY <2>1, <3>3, <3>4 DEF RejectionTruthful, Told
  <2>2. CASE q # r
      BY <1>1, <1>3, <2>2 DEF SendPayout, TypeOK
  <2> QED BY <2>1, <2>2
<1>4. CASE call'[q] # call[q] /\ call'[q] # NoCall /\ ~\E r \in Caller : SendPayout(r)
  <2>1. ~Told(q, "SUBMIT", "REJECTED")'
    <3>1. ASSUME NEW w \in Worker, NEW p \in Payout, ClaimPayout(w, p)
          PROVE  ~Told(q, "SUBMIT", "REJECTED")'
        BY <1>4, <3>1 DEF ClaimPayout, TypeOK, Told
    <3>2. ASSUME NEW r \in Caller, Submit(r)
          PROVE  FALSE
        BY <1>4, <3>2 DEF Submit, SubmitAccepted, SubmitRejected, SubmitUncertain, Return, TypeOK
    <3>3. ASSUME NEW r \in Caller, NEW p \in Payout, BeginCheck(r, p)
          PROVE  ~Told(q, "SUBMIT", "REJECTED")'
        BY <1>4, <3>3 DEF BeginCheck, TypeOK, Told
    <3>4. ASSUME NEW r \in Caller, CheckPayout(r)
          PROVE  ~Told(q, "SUBMIT", "REJECTED")'
      <4>1. q = r /\ call[r] \in Checks
          BY <1>4, <3>4, CallType DEF CheckPayout, Waiting, Submissions, TypeOK
      <4>2. call'[r].kind = "CHECK"
          BY <3>4, <4>1 DEF CheckPayout, TypeOK, Checks
      <4> QED BY <4>1, <4>2 DEF Told
    <3>5. ASSUME NEW r \in Caller, Apply(r) \/ CallStops(r)
          PROVE  FALSE
        BY <1>4, <3>5 DEF Apply, ApplyNotFound, ApplyMismatch, ApplyCompleted, ApplyFailed,
           ApplyInProgress, CallStops, Return, TypeOK
    <3>6. call' # call
        BY <1>4
    <3> QED BY <3>1, <3>2, <3>3, <3>4, <3>5, <3>6 DEF Next, vars, Check, TicketSold, Console,
           RequestPayout, CancelPayout, ApprovePayout, RejectPayout, PayoutSettles, SubmissionAges
  <2> QED BY <2>1 DEF RejectionTruthful
<1> QED BY <1>1, <1>2, <1>3, <1>4

\* An amount is given back only for a payout that was never submitted, or that
\* pawaPay has rejected or failed.
LEMMA RestoredInductive ==
    ASSUME TypeOK, [Next]_vars, RejectionsAreFinal,
           \A r \in Caller : CallTruthful(r) /\ RejectionTruthful(r),
           NEW p \in Payout, RowConsistent(p), RestoredStays(p)
    PROVE  RestoredStays(p)'
<1> USE DEF RestoredStays, ledgerVars, remoteVars
<1>1. /\ remote[p] = "FAILED" => remote'[p] = "FAILED"
      /\ remote[p] = "REJECTED" => remote'[p] = "REJECTED"
    BY RemoteMonotone
<1>2. CASE reversed'[p] = reversed[p]
  <2>1. status[p] \in Unsubmitted /\ status'[p] \notin Unsubmitted => ~reversed[p]
      BY StatusSteps DEF Unsubmitted, RowConsistent, InFlightStatuses
  <2> QED BY <1>1, <1>2, <2>1
<1>3. CASE reversed'[p] # reversed[p]
  <2>1. ASSUME NEW q \in Payout, Console(q)
        PROVE  status'[p] \in Unsubmitted
      BY <1>3, <2>1 DEF Console, RequestPayout, CancelPayout, ApprovePayout, RejectPayout,
         Reverse, TypeOK, Unsubmitted
  <2>2. ASSUME NEW r \in Caller, SubmitRejected(r)
        PROVE  remote'[p] = "REJECTED"
    <3>1. call[r].pay \in Payout /\ remote[call[r].pay] = "REJECTED"
        BY <2>2, CallType DEF SubmitRejected, Told, RejectionTruthful
    <3>2. p = call[r].pay
        BY <1>3, <2>2, <3>1 DEF SubmitRejected, FailPayout, Reverse, TypeOK
    <3> QED BY <1>1, <3>1, <3>2
  <2>3. ASSUME NEW r \in Caller, ApplyFailed(r)
        PROVE  remote'[p] = "FAILED"
    <3>1. call[r].pay \in Payout /\ remote[call[r].pay] = "FAILED"
        BY <2>3, CallType DEF ApplyFailed, Told, CallTruthful
    <3>2. p = call[r].pay
        BY <1>3, <2>3, <3>1 DEF ApplyFailed, FailPayout, Reverse, TypeOK
    <3> QED BY <1>1, <3>1, <3>2
  <2>4. \/ \E q \in Payout : Console(q)
        \/ \E r \in Caller : SubmitRejected(r) \/ ApplyFailed(r)
    <3>1. reversed' # reversed
        BY <1>3
    <3> QED BY <3>1 DEF Next, vars, TicketSold, PayoutSettles, SubmissionAges, ClaimPayout,
         Submit, SendPayout, SubmitAccepted, SubmitUncertain, Check, BeginCheck, CheckPayout,
         Apply, ApplyNotFound, ApplyMismatch, ApplyCompleted, ApplyInProgress, CallStops
  <2> QED BY <2>1, <2>2, <2>3, <2>4
<1> QED BY <1>2, <1>3

-----------------------------------------------------------------------------
(* Theorems *)

LEMMA InvariantInitially == Init => IInv
<1> SUFFICES ASSUME Init
             PROVE  IInv
    OBVIOUS
<1>1. TypeOK
    BY DEF Init, TypeOK, Statuses, RemoteStates
<1>2. \A r \in Caller : CallTruthful(r) /\ RejectionTruthful(r)
    BY DEF Init, CallTruthful, RejectionTruthful, Told
<1>3. \A p \in Payout : RowConsistent(p) /\ RestoredStays(p)
    BY DEF Init, RowConsistent, RestoredStays
<1>4. StatusTruthful
    BY DEF Init, StatusTruthful, ClosedUnpaid
<1> QED BY <1>1, <1>2, <1>3, <1>4 DEF IInv, MoneyBackStays

LEMMA InvariantInductive == IInv /\ [Next]_vars => IInv'
<1> SUFFICES ASSUME IInv, [Next]_vars
             PROVE  IInv'
    OBVIOUS
<1>1. TypeOK'
    BY TypeInductive DEF IInv
<1>2. \A r \in Caller : CallTruthful(r)'
    BY CallInductive DEF IInv
<1>3. \A p \in Payout : RowConsistent(p)'
    BY RowInductive DEF IInv
<1>4. StatusTruthful'
    BY StatusInductive DEF IInv
<1>5. ASSUME RejectionsAreFinal
      PROVE  MoneyBackStays'
  <2>1. \A r \in Caller : RejectionTruthful(r)'
      BY <1>5, RejectionInductive DEF IInv, MoneyBackStays
  <2>2. \A p \in Payout : RestoredStays(p)'
      BY <1>5, RestoredInductive DEF IInv, MoneyBackStays
  <2> QED BY <2>1, <2>2 DEF MoneyBackStays
<1> QED BY <1>1, <1>2, <1>3, <1>4, <1>5 DEF IInv

\* The balance of an organization never goes below zero, whatever sales, requests,
\* cancellations, late answers and crashes interleave.
THEOREM TypeCorrect == Spec => []TypeOK
<1>1. Init => TypeOK
    BY InvariantInitially DEF IInv
<1> QED BY <1>1, TypeInductive, PTL DEF Spec

\* The invariant that the correctness of the payouts rests on.
THEOREM InvariantHolds == Spec => []IInv
BY InvariantInitially, InvariantInductive, PTL DEF Spec

\* COMPLETED means paid, and a payout closed unpaid has its amount back.
THEOREM StatusesAreTruthful == Spec => []StatusTruthful
<1>1. IInv => StatusTruthful
    BY DEF IInv
<1> QED BY <1>1, InvariantHolds, PTL

-----------------------------------------------------------------------------
(* The payouts implement PayoutFunds *)

\* The payouts that exist are the same after the step.
SameRows == \A q \in Payout : status'[q] = "NO_ROW" <=> status[q] = "NO_ROW"

\* A step that creates no payout, writes no entry and completes nothing at pawaPay
\* moves no money.
LEMMA NoMoneyMoves ==
    ASSUME TypeOK, SameRows, UNCHANGED ledgerVars,
           \A q \in Payout : remote'[q] = "COMPLETED" <=> remote[q] = "COMPLETED"
    PROVE  UNCHANGED Funds!vars
<1>1. \A q \in Payout : FundOf(q)' = FundOf(q)
    BY DEF SameRows, ledgerVars, FundOf
<1>2. [q \in Payout |-> FundOf(q)]' = [q \in Payout |-> FundOf(q)]
    BY <1>1
<1> QED BY <1>2 DEF Funds!vars, ledgerVars

\* An entry that gives the amount of an unpaid payout back is a return.
LEMMA MoneyReturns ==
    ASSUME TypeOK, NEW p \in Payout, SameRows, status[p] # "NO_ROW",
           ~reversed[p], remote[p] # "COMPLETED",
           balance' = balance + amount[p], reversed' = [reversed EXCEPT ![p] = TRUE],
           UNCHANGED <<amount, remote>>
    PROVE  Funds!Return(p)
<1>1. FundOf(p) = "aside" /\ FundOf(p)' = "returned"
    BY DEF FundOf, SameRows, TypeOK
<1>2. \A q \in Payout : q # p => FundOf(q)' = FundOf(q)
    BY DEF FundOf, SameRows, TypeOK
<1>3. [q \in Payout |-> FundOf(q)]' = [[q \in Payout |-> FundOf(q)] EXCEPT ![p] = "returned"]
    BY <1>1, <1>2
<1> QED BY <1>1, <1>3 DEF Funds!Return

\* failPayout either returns the amount or, for a payout that was closed in the
\* meantime or has its amount back, moves no money.
LEMMA FailReturns ==
    ASSUME TypeOK, NEW p \in Payout, FailPayout(p), UNCHANGED remote,
           remote[p] # "COMPLETED"
    PROVE  Funds!Return(p) \/ UNCHANGED Funds!vars
<1>1. SameRows
    BY DEF FailPayout, UpdateIf, SameRows, InFlightStatuses, TypeOK
<1>2. CASE status[p] \in InFlightStatuses /\ ~reversed[p]
    BY <1>1, <1>2, MoneyReturns DEF FailPayout, Reverse, InFlightStatuses
<1>3. CASE ~(status[p] \in InFlightStatuses /\ ~reversed[p])
  <2>1. UNCHANGED ledgerVars
      BY <1>3 DEF FailPayout, Reverse, ledgerVars, TypeOK
  <2> QED BY <1>1, <2>1, NoMoneyMoves
<1> QED BY <1>2, <1>3

\* Only a request creates a payout.
LEMMA RowsAppear ==
    ASSUME TypeOK, [Next]_vars, \A r \in Caller : CallTruthful(r),
           \A p \in Payout : ~RequestPayout(p)
    PROVE  SameRows
<1> SUFFICES ASSUME NEW q \in Payout
             PROVE  status'[q] = "NO_ROW" <=> status[q] = "NO_ROW"
    BY DEF SameRows
<1> USE DEF TypeOK, ledgerVars, remoteVars
<1>1. status'[q] = "NO_ROW" => status[q] = "NO_ROW"
    BY StatusSteps
<1>2. ASSUME NEW p \in Payout, CancelPayout(p) \/ ApprovePayout(p) \/ RejectPayout(p)
      PROVE  status[q] = "NO_ROW" => status'[q] = "NO_ROW"
    BY <1>2 DEF CancelPayout, ApprovePayout, RejectPayout
<1>3. ASSUME NEW w \in Worker, NEW p \in Payout, ClaimPayout(w, p)
      PROVE  status[q] = "NO_ROW" => status'[q] = "NO_ROW"
    BY <1>3 DEF ClaimPayout
<1>4. ASSUME NEW r \in Caller, SubmitAccepted(r)
      PROVE  status[q] = "NO_ROW" => status'[q] = "NO_ROW"
    BY <1>4 DEF SubmitAccepted, Told, CallTruthful, Unsubmitted
<1>5. ASSUME NEW r \in Caller, SubmitRejected(r) \/ SubmitUncertain(r) \/ Apply(r)
      PROVE  status[q] = "NO_ROW" => status'[q] = "NO_ROW"
    BY <1>5 DEF SubmitRejected, SubmitUncertain, Apply, ApplyNotFound, ApplyMismatch,
       ApplyCompleted, ApplyFailed, ApplyInProgress, FailPayout, UpdateIf, InFlightStatuses
<1>6. ASSUME UNCHANGED status
      PROVE  status[q] = "NO_ROW" => status'[q] = "NO_ROW"
    BY <1>6
<1> HIDE DEF TypeOK
<1> QED BY <1>1, <1>2, <1>3, <1>4, <1>5, <1>6 DEF Next, vars, TicketSold, Console,
       PayoutSettles, SubmissionAges, Submit, SendPayout, Check, BeginCheck, CheckPayout, CallStops

\* Only pawaPay completes a payout.
LEMMA CompletedByPawaPay ==
    ASSUME TypeOK, [Next]_vars, \A p \in Payout : ~PayoutSettles(p), NEW q \in Payout
    PROVE  remote'[q] = "COMPLETED" <=> remote[q] = "COMPLETED"
<1> USE DEF remoteVars
<1>1. ASSUME NEW r \in Caller, SendPayout(r)
      PROVE  remote'[q] = "COMPLETED" <=> remote[q] = "COMPLETED"
    BY <1>1 DEF SendPayout, Found, TypeOK
<1>2. CASE ~\E r \in Caller : SendPayout(r)
  <2>1. remote' = remote
      BY <1>2 DEF Next, vars, TicketSold, Console, RequestPayout, CancelPayout, ApprovePayout,
         RejectPayout, SubmissionAges, ClaimPayout, Submit, SubmitAccepted, SubmitRejected,
         SubmitUncertain, Check, BeginCheck, CheckPayout, Apply, ApplyNotFound, ApplyMismatch,
         ApplyCompleted, ApplyFailed, ApplyInProgress, CallStops
  <2> QED BY <2>1
<1> QED BY <1>1, <1>2

\* Every step of the payouts is a step of the funds, or moves no money.
LEMMA StepImplementsFunds ==
    ASSUME IInv, [Next]_vars, RejectionsAreFinal
    PROVE  [Funds!Next]_(Funds!vars)
<1> TypeOK
    BY DEF IInv
<1> USE DEF remoteVars
<1>1. CASE TicketSold
  <2>1. PICK a \in Credit : balance' = balance + a
      BY <1>1 DEF TicketSold
  <2>2. [q \in Payout |-> FundOf(q)]' = [q \in Payout |-> FundOf(q)]
      BY <1>1 DEF TicketSold, FundOf
  <2>3. Funds!Earn(a)
      BY <1>1, <2>1, <2>2 DEF TicketSold, Funds!Earn
  <2> QED BY <2>3 DEF Funds!Next
<1>2. ASSUME NEW p \in Payout, RequestPayout(p)
      PROVE  [Funds!Next]_(Funds!vars)
  <2>1. status[p] = "NO_ROW" /\ status'[p] # "NO_ROW" /\ ~reversed'[p] /\ remote'[p] = "NONE"
      BY <1>2 DEF RequestPayout, IInv, RowConsistent, TypeOK, Unsubmitted
  <2>2. FundOf(p) = "unused" /\ FundOf(p)' = "aside"
      BY <2>1 DEF FundOf
  <2>3. \A q \in Payout : q # p => FundOf(q)' = FundOf(q)
      BY <1>2 DEF RequestPayout, FundOf, TypeOK
  <2>4. [q \in Payout |-> FundOf(q)]' = [[q \in Payout |-> FundOf(q)] EXCEPT ![p] = "aside"]
      BY <2>2, <2>3
  <2>5. Funds!SetAside(p)
      BY <1>2, <2>2, <2>4 DEF RequestPayout, Funds!SetAside
  <2> QED BY <2>5 DEF Funds!Next
<1>3. ASSUME NEW p \in Payout, CancelPayout(p) \/ RejectPayout(p)
      PROVE  [Funds!Next]_(Funds!vars)
  <2>1. status[p] = "REQUESTED" /\ ~reversed[p] /\ remote[p] = "NONE"
      BY <1>3 DEF CancelPayout, RejectPayout, IInv, RowConsistent, Unsubmitted
  <2>2. SameRows /\ UNCHANGED <<amount, remote>>
      BY <1>3, <2>1 DEF CancelPayout, RejectPayout, SameRows, TypeOK
  <2>3. balance' = balance + amount[p] /\ reversed' = [reversed EXCEPT ![p] = TRUE]
      BY <1>3, <2>1 DEF CancelPayout, RejectPayout, Reverse
  <2>4. Funds!Return(p)
      BY <2>1, <2>2, <2>3, MoneyReturns
  <2> QED BY <2>4 DEF Funds!Next
<1>4. ASSUME NEW p \in Payout, PayoutSettles(p)
      PROVE  [Funds!Next]_(Funds!vars)
  <2>1. UNCHANGED ledgerVars /\ SameRows
      BY <1>4 DEF PayoutSettles, SameRows
  <2>2. CASE remote' = [remote EXCEPT ![p] = "FAILED"]
    <3>1. \A q \in Payout : remote'[q] = "COMPLETED" <=> remote[q] = "COMPLETED"
        BY <1>4, <2>2 DEF PayoutSettles, TypeOK
    <3> QED BY <2>1, <3>1, NoMoneyMoves
  <2>3. CASE remote' = [remote EXCEPT ![p] = "COMPLETED"]
    <3>1. status[p] \notin Unsubmitted /\ ~reversed[p] /\ remote[p] = "IN_PROGRESS"
        BY <1>4 DEF PayoutSettles, IInv, RowConsistent, MoneyBackStays, RestoredStays
    <3>2. FundOf(p) = "aside" /\ FundOf(p)' = "sent"
        BY <2>1, <2>3, <3>1 DEF FundOf, SameRows, ledgerVars, Unsubmitted, TypeOK
    <3>3. \A q \in Payout : q # p => FundOf(q)' = FundOf(q)
        BY <2>1, <2>3 DEF FundOf, SameRows, ledgerVars, TypeOK
    <3>4. [q \in Payout |-> FundOf(q)]' = [[q \in Payout |-> FundOf(q)] EXCEPT ![p] = "sent"]
        BY <3>2, <3>3
    <3>5. Funds!Send(p)
        BY <2>1, <3>2, <3>4 DEF Funds!Send, ledgerVars
    <3> QED BY <3>5 DEF Funds!Next
  <2> QED BY <1>4, <2>2, <2>3 DEF PayoutSettles
<1>5. ASSUME NEW r \in Caller, SubmitRejected(r) \/ ApplyFailed(r)
      PROVE  [Funds!Next]_(Funds!vars)
  <2>1. PICK p \in Payout : p = call[r].pay
      BY <1>5, CallType DEF SubmitRejected, ApplyFailed, Told
  <2>2. remote[p] # "COMPLETED"
      BY <1>5, <2>1 DEF SubmitRejected, ApplyFailed, Told, IInv, CallTruthful, MoneyBackStays,
                        RejectionTruthful
  <2>3. FailPayout(p) /\ UNCHANGED remote
      BY <1>5, <2>1 DEF SubmitRejected, ApplyFailed
  <2> QED BY <2>2, <2>3, FailReturns DEF Funds!Next
<1>6. ASSUME \A p \in Payout : ~RequestPayout(p) /\ ~PayoutSettles(p), UNCHANGED ledgerVars
      PROVE  [Funds!Next]_(Funds!vars)
  <2>1. SameRows
      BY <1>6, RowsAppear DEF IInv
  <2>2. \A q \in Payout : remote'[q] = "COMPLETED" <=> remote[q] = "COMPLETED"
      BY <1>6, CompletedByPawaPay DEF IInv
  <2> QED BY <1>6, <2>1, <2>2, NoMoneyMoves
<1>7. \/ TicketSold
      \/ \E p \in Payout : \/ RequestPayout(p) \/ CancelPayout(p) \/ RejectPayout(p)
                           \/ PayoutSettles(p)
      \/ \E r \in Caller : SubmitRejected(r) \/ ApplyFailed(r)
      \/ UNCHANGED ledgerVars
    BY DEF Next, vars, ledgerVars, Console, ApprovePayout, SubmissionAges, ClaimPayout, Submit,
       SendPayout, SubmitAccepted, SubmitUncertain, Check, BeginCheck, CheckPayout, Apply,
       ApplyNotFound, ApplyMismatch, ApplyCompleted, ApplyInProgress, CallStops
<1> QED BY <1>1, <1>2, <1>3, <1>4, <1>5, <1>6, <1>7

\* If pawaPay never accepts an id that it rejected, the money of every payout is
\* sent or returned, once and never both, and the balance always covers the rest.
THEOREM ImplementsFunds == ASSUME RejectionsAreFinal PROVE Spec => FundsSpec
<1>1. Init => Funds!Init
    BY DEF Init, Funds!Init, FundOf
<1>2. IInv /\ [Next]_vars => [Funds!Next]_(Funds!vars)
    BY StepImplementsFunds
<1> QED BY <1>1, <1>2, InvariantHolds, PTL DEF Spec, FundsSpec, Funds!Spec
-----------------------------------------------------------------------------
(* Amounts *)

LEMMA Units == ASSUME NEW d \in Digits PROVE Unit(d) \in {1, 10, 100}
BY DEF Digits, Unit

\* An amount is whole when it is a number of units.
LEMMA WholeUnits ==
    ASSUME NEW d \in Digits, NEW k \in Nat
    PROVE  Whole(k * Unit(d), d)
<1>1. CASE Unit(d) = 1
    BY <1>1 DEF HalfUp, Whole
<1>2. CASE Unit(d) = 10
    BY <1>2 DEF HalfUp, Whole
<1>3. CASE Unit(d) = 100
    BY <1>3 DEF HalfUp, Whole
<1> QED BY <1>1, <1>2, <1>3, Units

LEMMA UnitsOfWhole ==
    ASSUME NEW d \in Digits, NEW v \in Nat, Whole(v, d)
    PROVE  \E k \in Nat : v = k * Unit(d)
<1> DEFINE k == HalfUp(v, Unit(d))
<1>1. k \in Nat
  <2>1. CASE Unit(d) = 1
      BY <2>1 DEF HalfUp
  <2>2. CASE Unit(d) = 10
      BY <2>2 DEF HalfUp
  <2>3. CASE Unit(d) = 100
      BY <2>3 DEF HalfUp
  <2> QED BY <2>1, <2>2, <2>3, Units
<1> QED BY <1>1 DEF Whole

\* The commission c on v, and the rest, are amounts that the provider can carry, the
\* first of them nearest to the rate.
PartsOf(v, bps, d, c) ==
    /\ c \in Nat /\ v - c \in Nat
    /\ Whole(c, d) /\ Whole(v - c, d)
    /\ 2 * (c * 10000 - v * bps) <= 10000 * Unit(d)
    /\ 2 * (v * bps - c * 10000) <= 10000 * Unit(d)

\* splitAmount cuts a price that can be carried in such parts.
LEMMA SplitParts ==
    ASSUME NEW v \in Nat \ {0}, NEW d \in Digits, NEW bps \in 0 .. MaxCommissionBps, Whole(v, d)
    PROVE  PartsOf(v, bps, d, Commission(v, bps, d))
<1> DEFINE u == Unit(d)
           w == v * bps
           h == HalfUp(w, 10000 * u)
           c == h * u
<1>1. u \in {1, 10, 100} /\ c = Commission(v, bps, d)
    BY Units DEF Commission
<1>2. w \in Nat /\ w <= v * 5000
    BY DEF MaxCommissionBps
<1>3. PICK k \in Nat : v = k * u
    BY UnitsOfWhole
<1> HIDE DEF w, u
<1>4. /\ h \in Nat
      /\ 2 * (h * 10000 * u) <= 2 * w + 10000 * u
      /\ 2 * w < 2 * (h * 10000 * u) + 10000 * u
  <2>1. CASE u = 1
      BY <1>2, <2>1 DEF HalfUp
  <2>2. CASE u = 10
      BY <1>2, <2>2 DEF HalfUp
  <2>3. CASE u = 100
      BY <1>2, <2>3 DEF HalfUp
  <2> QED BY <1>1, <2>1, <2>2, <2>3
<1> HIDE DEF h
<1>5. h <= k /\ k - h \in Nat
  <2>1. CASE u = 1
      BY <1>2, <1>3, <1>4, <2>1
  <2>2. CASE u = 10
      BY <1>2, <1>3, <1>4, <2>2
  <2>3. CASE u = 100
      BY <1>2, <1>3, <1>4, <2>3
  <2> QED BY <1>1, <2>1, <2>2, <2>3
<1>6. c \in Nat /\ v - c = (k - h) * u /\ v - c \in Nat
  <2>1. CASE u = 1
      BY <1>3, <1>4, <1>5, <2>1
  <2>2. CASE u = 10
      BY <1>3, <1>4, <1>5, <2>2
  <2>3. CASE u = 100
      BY <1>3, <1>4, <1>5, <2>3
  <2> QED BY <1>1, <2>1, <2>2, <2>3
<1>7. Whole(c, d) /\ Whole(v - c, d)
    BY <1>4, <1>5, <1>6, WholeUnits DEF u
<1>8. /\ 2 * (c * 10000 - w) <= 10000 * u
      /\ 2 * (w - c * 10000) <= 10000 * u
  <2>1. CASE u = 1
      BY <1>2, <1>4, <2>1
  <2>2. CASE u = 10
      BY <1>2, <1>4, <2>2
  <2>3. CASE u = 100
      BY <1>2, <1>4, <2>3
  <2> QED BY <1>1, <2>1, <2>2, <2>3
<1> QED BY <1>1, <1>6, <1>7, <1>8 DEF PartsOf, u, w

SaleRecord == [at : {"NONE", "READ", "OPEN", "COMPLETED", "ENDED"}, price : Int, digits : Int,
               bps : Int, commission : Int, share : Int]
PayoutRecord == [at : {"NONE", "OPEN", "PAID", "RETURNED"}, paid : Int, digits : Int]

\* The rows have their types, and a price that was read is one its provider can carry.
SalesIInv ==
    /\ ticketPrice \in Prices /\ rate \in Rates \cup {NoRate}
    /\ sold \in [Sale -> SaleRecord] /\ payout \in [Payouts -> PayoutRecord]
    /\ funds \in Int /\ account \in Digits /\ asking \in Digits \cup {NotAsking}
    /\ \A s \in Sale : sold[s].at = "READ" =>
         /\ sold[s].price \in Prices /\ sold[s].digits \in Digits
         /\ Whole(sold[s].price, sold[s].digits)
    /\ AmountsFair

LEMMA SalesInitInvariant == SalesInit => SalesIInv
BY DEF SalesInit, SalesIInv, SaleRecord, PayoutRecord, NoSale, NoPayout, Digits, AmountsFair,
       SplitIsFair, PayoutsPayable

\* What the property asks of one sale, and of one payout.
SaleFair(x) ==
    /\ x.at = "READ" => x.price \in Prices /\ x.digits \in Digits /\ Whole(x.price, x.digits)
    /\ x.at \notin {"NONE", "READ"} =>
         /\ x.commission + x.share = x.price
         /\ x.commission >= 0 /\ x.share >= 0
         /\ Whole(x.price, x.digits) /\ Whole(x.commission, x.digits) /\ Whole(x.share, x.digits)
         /\ 2 * (x.commission * 10000 - x.price * x.bps) <= 10000 * Unit(x.digits)
         /\ 2 * (x.price * x.bps - x.commission * 10000) <= 10000 * Unit(x.digits)
PayoutFair(x) == x.at # "NONE" => x.paid > 0 /\ Whole(x.paid, x.digits)

LEMMA SalesParts ==
    SalesIInv <=>
      /\ ticketPrice \in Prices /\ rate \in Rates \cup {NoRate}
      /\ sold \in [Sale -> SaleRecord] /\ payout \in [Payouts -> PayoutRecord]
      /\ funds \in Int /\ account \in Digits /\ asking \in Digits \cup {NotAsking}
      /\ \A s \in Sale : SaleFair(sold[s])
      /\ \A p \in Payouts : PayoutFair(payout[p])
BY DEF SalesIInv, AmountsFair, SplitIsFair, PayoutsPayable, SaleFair, PayoutFair

LEMMA OneSale ==
    ASSUME SalesIInv, NEW s \in Sale, NEW x \in SaleRecord, SaleFair(x),
           sold' = [sold EXCEPT ![s] = x], funds' \in Int,
           UNCHANGED <<ticketPrice, rate, account, asking, payout>>
    PROVE  SalesIInv'
<1>1. sold' \in [Sale -> SaleRecord] /\ \A z \in Sale : SaleFair(sold[z])'
    BY SalesParts DEF SaleFair
<1>2. \A p \in Payouts : PayoutFair(payout[p])'
    BY SalesParts DEF PayoutFair
<1> QED BY <1>1, <1>2, SalesParts DEF SalesIInv, AmountsFair, SplitIsFair, PayoutsPayable,
        SaleFair, PayoutFair

LEMMA OnePayout ==
    ASSUME SalesIInv, NEW p \in Payouts, NEW x \in PayoutRecord, PayoutFair(x),
           payout' = [payout EXCEPT ![p] = x], funds' \in Int, asking' \in Digits \cup {NotAsking},
           UNCHANGED <<ticketPrice, rate, account, sold>>
    PROVE  SalesIInv'
<1>1. payout' \in [Payouts -> PayoutRecord] /\ \A z \in Payouts : PayoutFair(payout[z])'
    BY SalesParts DEF PayoutFair
<1>2. \A s \in Sale : SaleFair(sold[s])'
    BY SalesParts DEF SaleFair
<1> QED BY <1>1, <1>2, SalesParts DEF SalesIInv, AmountsFair, SplitIsFair, PayoutsPayable,
        SaleFair, PayoutFair

LEMMA SalesNextInvariant == SalesIInv /\ [SalesNext]_salesVars => SalesIInv'
<1> SUFFICES ASSUME SalesIInv, [SalesNext]_salesVars PROVE SalesIInv'
    OBVIOUS
<1>1. /\ ticketPrice \in Prices /\ rate \in Rates \cup {NoRate}
      /\ sold \in [Sale -> SaleRecord] /\ payout \in [Payouts -> PayoutRecord]
      /\ funds \in Int /\ account \in Digits /\ asking \in Digits \cup {NotAsking}
      /\ \A s \in Sale : SaleFair(sold[s])
      /\ \A p \in Payouts : PayoutFair(payout[p])
    BY SalesParts
<1>2. CASE SetPrice \/ ChangeTicketCommission \/ SetAccount \/ AskPayout \/ UNCHANGED salesVars
    BY <1>1, <1>2 DEF SetPrice, ChangeTicketCommission, SetAccount, AskPayout, salesVars,
                      SalesIInv, AmountsFair, SplitIsFair, PayoutsPayable
<1>3. ASSUME NEW s \in Sale, Initiate(s) PROVE SalesIInv'
  <2>1. PICK d \in Digits :
          /\ Whole(ticketPrice, d)
          /\ sold' = [sold EXCEPT ![s].at = "READ", ![s].price = ticketPrice, ![s].digits = d]
          /\ UNCHANGED <<ticketPrice, rate, funds, account, asking, payout>>
      BY <1>3 DEF Initiate
  <2> DEFINE x == [sold[s] EXCEPT !.at = "READ", !.price = ticketPrice, !.digits = d]
  <2>2. sold' = [sold EXCEPT ![s] = x]
      BY <1>1, <2>1 DEF SaleRecord
  <2>3. /\ x \in SaleRecord /\ x.at = "READ" /\ x.price = ticketPrice /\ x.digits = d
    <3>1. ticketPrice \in Int /\ d \in Int /\ sold[s] \in SaleRecord
        BY <1>1, SalesConstantsOK DEF Digits
    <3> QED BY <3>1 DEF SaleRecord
  <2> HIDE DEF x
  <2>4. SaleFair(x)
      BY <1>1, <2>1, <2>3 DEF SaleFair
  <2> QED BY <1>1, <2>1, <2>2, <2>3, <2>4, OneSale
<1>4. ASSUME NEW s \in Sale, Reserve(s) PROVE SalesIInv'
  <2> DEFINE v == ticketPrice
             d == sold[s].digits
             bps == RateOf
             c == Commission(v, bps, d)
             x == [sold[s] EXCEPT !.at = "OPEN", !.price = v, !.bps = bps, !.commission = c,
                                  !.share = v - c]
  <2>1. /\ sold[s].at = "READ" /\ sold' = [sold EXCEPT ![s] = IF PriceStands(s) THEN x ELSE NoSale]
        /\ UNCHANGED <<ticketPrice, rate, funds, account, asking, payout>>
      BY <1>1, <1>4 DEF Reserve
  <2>2. d \in Digits /\ Whole(sold[s].price, d)
      BY <1>1, <2>1 DEF SaleFair
  <2>3. v \in Nat \ {0} /\ bps \in 0 .. MaxCommissionBps /\ bps \in Int
    <3>1. Prices \subseteq Nat \ {0} /\ Rates \subseteq 0 .. MaxCommissionBps
          /\ DefaultRate \in 0 .. MaxCommissionBps
        BY SalesConstantsOK
    <3>2. v \in Nat \ {0}
        BY <1>1, <3>1
    <3>3. bps \in 0 .. MaxCommissionBps
        BY <1>1, <3>1 DEF RateOf
    <3> QED BY <3>2, <3>3 DEF MaxCommissionBps
  <2>4. CASE ~PriceStands(s)
    <3>1. NoSale \in SaleRecord /\ SaleFair(NoSale)
        BY DEF NoSale, SaleRecord, SaleFair
    <3> QED BY <1>1, <2>1, <2>4, <3>1, OneSale
  <2>5. CASE PriceStands(s)
    <3>1. Whole(v, d)
        BY <2>2, <2>5 DEF PriceStands
    <3>2. PartsOf(v, bps, d, c)
      <4> HIDE DEF v, d, bps
      <4> QED BY <2>2, <2>3, <3>1, SplitParts
    <3> HIDE DEF c, bps, v, d
    <3>3. c \in Nat /\ v - c \in Nat /\ c \in Int /\ v - c \in Int /\ v \in Int
        BY <2>3, <3>2 DEF PartsOf
    <3>4. sold[s] \in SaleRecord /\ d = sold[s].digits
        BY <1>1 DEF d
    <3>5. /\ x \in SaleRecord /\ x.at = "OPEN" /\ x.price = v /\ x.bps = bps
          /\ x.commission = c /\ x.share = v - c /\ x.digits = d
        BY <2>3, <3>3, <3>4 DEF SaleRecord
    <3> HIDE DEF x
    <3>6. c + (v - c) = v /\ c >= 0 /\ v - c >= 0
        BY <3>3
    <3>7. SaleFair(x)
        BY <3>1, <3>2, <3>5, <3>6 DEF SaleFair, PartsOf
    <3> QED BY <1>1, <2>1, <2>5, <3>5, <3>7, OneSale
  <2> QED BY <2>4, <2>5
<1>5. ASSUME NEW s \in Sale, FulfilSale(s) \/ SaleEnds(s) PROVE SalesIInv'
  <2>1. PICK at \in {"COMPLETED", "ENDED"} :
          /\ sold[s].at = "OPEN" /\ sold' = [sold EXCEPT ![s].at = at]
          /\ funds' \in {funds, funds + sold[s].share}
          /\ UNCHANGED <<ticketPrice, rate, account, asking, payout>>
      BY <1>5 DEF FulfilSale, SaleEnds, ShareDue
  <2> DEFINE x == [sold[s] EXCEPT !.at = at]
  <2>2. sold' = [sold EXCEPT ![s] = x] /\ funds' \in Int
      BY <1>1, <2>1 DEF SaleRecord
  <2>3. /\ x \in SaleRecord /\ x.at = at /\ x.price = sold[s].price /\ x.bps = sold[s].bps
        /\ x.commission = sold[s].commission /\ x.share = sold[s].share
        /\ x.digits = sold[s].digits
      BY <1>1 DEF SaleRecord
  <2> HIDE DEF x
  <2>4. SaleFair(x)
      BY <1>1, <2>1, <2>3 DEF SaleFair
  <2> QED BY <1>1, <2>1, <2>2, <2>3, <2>4, OneSale
<1>6. CASE CommitPayout
  <2>1. CASE UNCHANGED <<payout, funds>>
      BY <1>1, <1>6, <2>1 DEF CommitPayout, SalesIInv, AmountsFair, SplitIsFair, PayoutsPayable
  <2>2. CASE ~UNCHANGED <<payout, funds>>
    <3>1. PICK p \in Payouts, a \in Asked :
            LET v == IF a = 0 THEN funds ELSE a IN
            /\ Payable(v, asking)
            /\ payout' = [payout EXCEPT ![p] = [at |-> "OPEN", paid |-> v, digits |-> asking]]
            /\ funds' = funds - v
        BY <1>6, <2>2 DEF CommitPayout
    <3> DEFINE v == IF a = 0 THEN funds ELSE a
               x == [at |-> "OPEN", paid |-> v, digits |-> asking]
    <3>2. v \in Int /\ v > 0 /\ Whole(v, asking)
        BY <1>1, <3>1, SalesConstantsOK DEF Payable
    <3>3. asking' = NotAsking /\ UNCHANGED <<ticketPrice, rate, sold, account>>
        BY <1>6 DEF CommitPayout
    <3>4. payout' = [payout EXCEPT ![p] = x] /\ funds' \in Int
        BY <1>1, <3>1, <3>2
    <3> HIDE DEF v
    <3>5. x \in PayoutRecord /\ PayoutFair(x)
        BY <1>1, <3>2 DEF PayoutRecord, PayoutFair, Digits, NotAsking
    <3> HIDE DEF x
    <3> QED BY <1>1, <3>3, <3>4, <3>5, OnePayout
  <2> QED BY <2>1, <2>2
<1>7. ASSUME NEW p \in Payouts, PayoutEnds(p) PROVE SalesIInv'
  <2>1. PICK at \in {"PAID", "RETURNED"} :
          /\ payout[p].at = "OPEN" /\ payout' = [payout EXCEPT ![p].at = at]
          /\ funds' \in {funds, funds + payout[p].paid}
          /\ UNCHANGED <<ticketPrice, rate, sold, account, asking>>
      BY <1>7 DEF PayoutEnds
  <2> DEFINE x == [payout[p] EXCEPT !.at = at]
  <2>2. payout' = [payout EXCEPT ![p] = x] /\ funds' \in Int
      BY <1>1, <2>1 DEF PayoutRecord
  <2>3. x \in PayoutRecord /\ x.at = at /\ x.paid = payout[p].paid /\ x.digits = payout[p].digits
      BY <1>1 DEF PayoutRecord
  <2> HIDE DEF x
  <2>4. PayoutFair(x)
      BY <1>1, <2>1, <2>3 DEF PayoutFair
  <2> QED BY <1>1, <2>1, <2>2, <2>3, <2>4, OnePayout
<1> QED BY <1>2, <1>3, <1>4, <1>5, <1>6, <1>7 DEF SalesNext

\* The inductive invariant of the amounts.
THEOREM SalesInvariantHolds == SalesBalanceSpec => []SalesIInv
BY SalesInitInvariant, SalesNextInvariant, PTL DEF SalesBalanceSpec

\* For any prices, rates, precisions and numbers of sales and payouts, commission and share
\* add up to the price, are not negative and can be carried by the provider, as can what is
\* paid out (splitAmount, requestPayout).
THEOREM AmountsStayFair == SalesBalanceSpec => []AmountsFair
<1>1. SalesIInv => AmountsFair
    BY DEF SalesIInv
<1> QED BY <1>1, SalesInvariantHolds, PTL

(***************************************************************************)
(* Sums over finite sets of rows, by induction on their number.            *)
(***************************************************************************)

\* A nonempty set of numbers has a least one.
LEMMA LeastNumber ==
    ASSUME NEW T \in SUBSET Nat, T # {}
    PROVE  \E m \in T : \A n \in T : ~(n < m)
<1>1. IsWellFoundedOn(OpToRel(<, Nat), Nat)
    BY NatLessThanWellFounded
<1> DEFINE R == OpToRel(<, Nat)
<1>2. \A n, m \in Nat : <<n, m>> \in R <=> n < m
    BY DEF OpToRel
<1>3. IsWellFoundedOn(R, Nat)
    BY <1>1
<1> HIDE DEF R
<1>4. PICK m \in T : \A n \in T : ~(<<n, m>> \in R)
    BY <1>3, WFMin
<1> QED BY <1>2, <1>4

\* What is kept from each number to the next is true of all.
LEMMA SetInduction ==
    ASSUME NEW P, 0 \in P, \A n \in Nat : n \in P => n + 1 \in P
    PROVE  Nat \subseteq P
<1> SUFFICES ASSUME ~(Nat \subseteq P) PROVE FALSE
    OBVIOUS
<1> DEFINE T == Nat \ P
<1>1. PICK m \in T : \A n \in T : ~(n < m)
  <2>1. T \in SUBSET Nat /\ T # {}
      OBVIOUS
  <2> HIDE DEF T
  <2> QED BY <2>1, LeastNumber
<1>2. m \in Nat /\ m # 0
    OBVIOUS
<1>3. m - 1 \in Nat /\ m - 1 < m
    BY <1>2
<1>4. m - 1 \in P
    BY <1>1, <1>3
<1>5. (m - 1) + 1 = m
    BY <1>2
<1> QED BY <1>3, <1>4, <1>5

\* A sum over the subsets of S, one element taken off at a time.
First(s) == CHOOSE x \in s : TRUE
IsSum(g, f, S) == g = [s \in SUBSET S |-> IF s = {} THEN 0 ELSE f[First(s)] + g[s \ {First(s)}]]

\* Taking an element off makes a set smaller.
LEMMA FirstIn == \A s : s # {} => First(s) \in s
BY DEF First

LEMMA SmallerSet ==
    ASSUME NEW s, IsFiniteSet(s), NEW x \in s
    PROVE  /\ IsFiniteSet(s \ {x}) /\ Cardinality(s) \in Nat /\ Cardinality(s \ {x}) \in Nat
           /\ Cardinality(s \ {x}) = Cardinality(s) - 1
BY FS_RemoveElement, FS_CardinalityType

\* The fold of the community modules is such a sum.
LEMMA SumUnfolds ==
    ASSUME NEW f, NEW S
    PROVE  FoldFunctionOnSet(+, 0, f, S) = (CHOOSE g : IsSum(g, f, S))[S]
BY DEF FoldFunctionOnSet, MapThenFoldSet, IsSum, First

\* There is such a function.
LEMMA SumExists ==
    ASSUME NEW f, NEW S, IsFiniteSet(S), \A i \in S : f[i] \in Int
    PROVE  \E g \in [SUBSET S -> Int] : IsSum(g, f, S)
<1> DEFINE Step(g, s) == IF s = {} THEN 0 ELSE f[First(s)] + g[s \ {First(s)}]
           P == {n \in Nat : \E g \in [SUBSET S -> Int] :
                   \A s \in SUBSET S : Cardinality(s) <= n => g[s] = Step(g, s)}
<1>1. \A s \in SUBSET S : IsFiniteSet(s) /\ Cardinality(s) \in Nat /\ Cardinality(s) <= Cardinality(S)
    BY FS_Subset, FS_CardinalityType
<1>2. \A s \in SUBSET S : s # {} => First(s) \in s /\ f[First(s)] \in Int /\ s \ {First(s)} \in SUBSET S
    BY FirstIn
<1>3. 0 \in P
  <2> DEFINE g == [s \in SUBSET S |-> 0]
  <2>1. g \in [SUBSET S -> Int]
      OBVIOUS
  <2>2. \A s \in SUBSET S : Cardinality(s) <= 0 => s = {}
      BY <1>1, FS_EmptySet
  <2>3. \A s \in SUBSET S : Cardinality(s) <= 0 => g[s] = Step(g, s)
      BY <2>2
  <2> HIDE DEF g
  <2> QED BY <2>1, <2>3
<1>4. ASSUME NEW n \in Nat, n \in P PROVE n + 1 \in P
  <2>1. PICK g \in [SUBSET S -> Int] : \A s \in SUBSET S : Cardinality(s) <= n => g[s] = Step(g, s)
      BY <1>4
  <2> DEFINE h == [s \in SUBSET S |-> Step(g, s)]
  <2>2. h \in [SUBSET S -> Int]
      BY <1>2
  <2>3. ASSUME NEW s \in SUBSET S, Cardinality(s) <= n + 1 PROVE h[s] = Step(h, s)
    <3>1. CASE s = {}
        BY <3>1
    <3>2. CASE s # {}
      <4> DEFINE r == s \ {First(s)}
      <4>1. r \in SUBSET S /\ Cardinality(r) <= n
          BY <1>1, <1>2, <2>3, <3>2, SmallerSet
      <4>2. g[r] = h[r]
          BY <2>1, <4>1
      <4> QED BY <3>2, <4>1, <4>2
    <3> QED BY <3>1, <3>2
  <2> HIDE DEF h, Step
  <2> QED BY <2>2, <2>3
<1> HIDE DEF P
<1>5. Cardinality(S) \in P
    BY <1>1, <1>3, <1>4, SetInduction
<1>6. PICK g \in [SUBSET S -> Int] : \A s \in SUBSET S : Cardinality(s) <= Cardinality(S) => g[s] = Step(g, s)
    BY <1>5 DEF P
<1>7. \A s \in SUBSET S : g[s] = Step(g, s)
    BY <1>1, <1>6
<1> QED BY <1>7 DEF IsSum

\* It depends only on what is summed.
LEMMA SumsAgree ==
    ASSUME NEW f, NEW e, NEW S, NEW T, NEW g, NEW h, IsSum(g, f, S), IsSum(h, e, T),
           NEW s \in SUBSET (S \cap T), IsFiniteSet(s), \A x \in s : f[x] = e[x]
    PROVE  g[s] = h[s]
<1> DEFINE P == {n \in Nat : \A r \in SUBSET s : Cardinality(r) <= n => g[r] = h[r]}
<1>1. \A r \in SUBSET s : IsFiniteSet(r) /\ Cardinality(r) \in Nat
    BY FS_Subset, FS_CardinalityType
<1>2. \A r \in SUBSET s : /\ r \in SUBSET S /\ r \in SUBSET T
                          /\ g[r] = IF r = {} THEN 0 ELSE f[First(r)] + g[r \ {First(r)}]
                          /\ h[r] = IF r = {} THEN 0 ELSE e[First(r)] + h[r \ {First(r)}]
    BY DEF IsSum
<1>3. 0 \in P
  <2>1. \A r \in SUBSET s : Cardinality(r) <= 0 => r = {}
      BY <1>1, FS_EmptySet
  <2> QED BY <1>2, <2>1
<1>4. ASSUME NEW n \in Nat, n \in P PROVE n + 1 \in P
  <2> SUFFICES ASSUME NEW r \in SUBSET s, Cardinality(r) <= n + 1 PROVE g[r] = h[r]
      OBVIOUS
  <2>0. CASE r = {}
      BY <1>2, <2>0
  <2> SUFFICES ASSUME r # {} PROVE g[r] = h[r]
      BY <2>0
  <2>1. First(r) \in r /\ f[First(r)] = e[First(r)]
      BY FirstIn
  <2>2. r \ {First(r)} \in SUBSET s /\ Cardinality(r \ {First(r)}) <= n
      BY <1>1, <2>1, SmallerSet
  <2>3. g[r \ {First(r)}] = h[r \ {First(r)}]
      BY <1>4, <2>2
  <2> QED BY <1>2, <2>1, <2>3
<1>5. Cardinality(s) \in Nat
    BY <1>1
<1> HIDE DEF P
<1>6. Cardinality(s) \in P
    BY <1>3, <1>4, <1>5, SetInduction
<1> QED BY <1>5, <1>6 DEF P

\* Whichever element is taken off.
LEMMA SumTakesAny ==
    ASSUME NEW f, NEW S, IsFiniteSet(S), \A i \in S : f[i] \in Int,
           NEW g, IsSum(g, f, S), \A s \in SUBSET S : g[s] \in Int, NEW y \in S
    PROVE  g[S] = f[y] + g[S \ {y}]
<1> DEFINE P == {n \in Nat : \A s \in SUBSET S : Cardinality(s) <= n =>
                               \A z \in s : g[s] = f[z] + g[s \ {z}]}
<1>1. \A s \in SUBSET S : IsFiniteSet(s) /\ Cardinality(s) \in Nat /\ Cardinality(s) <= Cardinality(S)
    BY FS_Subset, FS_CardinalityType
<1>2. \A s \in SUBSET S : s # {} => g[s] = f[First(s)] + g[s \ {First(s)}]
    BY DEF IsSum
<1>3. 0 \in P
  <2>1. \A s \in SUBSET S : Cardinality(s) <= 0 => s = {}
      BY <1>1, FS_EmptySet
  <2> QED BY <2>1
<1>4. ASSUME NEW n \in Nat, n \in P PROVE n + 1 \in P
  <2> SUFFICES ASSUME NEW s \in SUBSET S, Cardinality(s) <= n + 1, NEW z \in s
               PROVE  g[s] = f[z] + g[s \ {z}]
      OBVIOUS
  <2> DEFINE x == First(s)
  <2>1. x \in s /\ g[s] = f[x] + g[s \ {x}]
      BY <1>2, FirstIn
  <2> HIDE DEF x
  <2>2. CASE x = z
      BY <2>1, <2>2
  <2>3. CASE x # z
    <3> DEFINE a == s \ {x}
               b == s \ {z}
               c == (s \ {x}) \ {z}
    <3>1. /\ a \in SUBSET S /\ b \in SUBSET S /\ c \in SUBSET S /\ z \in a /\ x \in b
          /\ c = a \ {z} /\ c = b \ {x}
        BY <2>1, <2>3
    <3>2. Cardinality(a) <= n /\ Cardinality(b) <= n
        BY <1>1, <2>1, SmallerSet
    <3> HIDE DEF a, b, c
    <3>3. g[a] = f[z] + g[c] /\ g[b] = f[x] + g[c]
      <4>1. \A r \in SUBSET S : Cardinality(r) <= n => \A w \in r : g[r] = f[w] + g[r \ {w}]
          BY <1>4
      <4> HIDE DEF P
      <4>2. g[a] = f[z] + g[a \ {z}] /\ g[b] = f[x] + g[b \ {x}]
          BY <3>1, <3>2, <4>1
      <4> QED BY <3>1, <4>2
    <3>4. f[x] \in Int /\ f[z] \in Int /\ g[c] \in Int
        BY <2>1, <3>1
    <3>5. g[s] = f[x] + g[a]
        BY <2>1 DEF a
    <3>6. g[s] = f[z] + g[b]
        BY <3>3, <3>4, <3>5
    <3> QED BY <3>6 DEF b
  <2> QED BY <2>2, <2>3
<1> HIDE DEF P
<1>5. Nat \subseteq P
    BY <1>3, <1>4, SetInduction
<1> QED BY <1>1, <1>5 DEF P

Total(f, S) == FoldFunctionOnSet(+, 0, f, S)
Sums(f, S) == CHOOSE g : IsSum(g, f, S)

\* The total is the value at S of a sum, and a number.
LEMMA TotalIs ==
    ASSUME NEW f, NEW S, IsFiniteSet(S), \A i \in S : f[i] \in Int
    PROVE  /\ Sums(f, S) \in [SUBSET S -> Int] /\ IsSum(Sums(f, S), f, S)
           /\ Total(f, S) = Sums(f, S)[S]
<1>1. PICK g \in [SUBSET S -> Int] : IsSum(g, f, S)
    BY SumExists
<1> DEFINE h == Sums(f, S)
<1>2. IsSum(h, f, S) /\ Total(f, S) = h[S]
    BY <1>1, SumUnfolds DEF Total, Sums
<1> HIDE DEF h
<1>3. ASSUME NEW s \in SUBSET S PROVE g[s] = h[s]
  <2>1. IsFiniteSet(s) /\ s \in SUBSET (S \cap S)
      BY FS_Subset
  <2> QED BY <1>1, <1>2, <2>1, SumsAgree
<1>4. h = [s \in SUBSET S |-> h[s]]
  <2> DEFINE step(s) == IF s = {} THEN 0 ELSE f[First(s)] + h[s \ {First(s)}]
  <2>1. h = [s \in SUBSET S |-> step(s)]
      BY <1>2 DEF IsSum
  <2> HIDE DEF step
  <2> QED BY <2>1
<1>5. h \in [SUBSET S -> Int]
    BY <1>3, <1>4
<1> QED BY <1>2, <1>5 DEF h

LEMMA TotalType ==
    ASSUME NEW f, NEW S, IsFiniteSet(S), \A i \in S : f[i] \in Int
    PROVE  Total(f, S) \in Int
<1> DEFINE g == Sums(f, S)
<1>1. g \in [SUBSET S -> Int] /\ Total(f, S) = g[S]
    BY TotalIs
<1> HIDE DEF g
<1> QED BY <1>1

\* The total of nothing, of equal rows and of one row more.
LEMMA TotalEmpty == ASSUME NEW f PROVE Total(f, {}) = 0
<1> DEFINE g == [s \in SUBSET {} |-> 0]
<1>1. IsSum(g, f, {})
    BY DEF IsSum
<1> HIDE DEF g
<1> DEFINE h == Sums(f, {})
<1>2. IsSum(h, f, {}) /\ Total(f, {}) = h[{}]
    BY <1>1, SumUnfolds DEF Total, Sums
<1> HIDE DEF h
<1>3. h[{}] = 0
    BY <1>2 DEF IsSum
<1> QED BY <1>2, <1>3

LEMMA TotalAgrees ==
    ASSUME NEW f, NEW e, NEW S, IsFiniteSet(S), \A x \in S : f[x] \in Int,
           \A x \in S : f[x] = e[x]
    PROVE  Total(f, S) = Total(e, S)
<1> DEFINE g == Sums(f, S)
           h == Sums(e, S)
<1>1. IsSum(g, f, S) /\ Total(f, S) = g[S] /\ IsSum(h, e, S) /\ Total(e, S) = h[S]
    BY TotalIs
<1> HIDE DEF g, h
<1>3. g[S] = h[S]
    BY <1>1, SumsAgree
<1> QED BY <1>1, <1>3

LEMMA TotalAdds ==
    ASSUME NEW f, NEW S, IsFiniteSet(S), NEW x, x \notin S, f[x] \in Int, \A i \in S : f[i] \in Int
    PROVE  Total(f, S \cup {x}) = f[x] + Total(f, S)
<1> DEFINE T == S \cup {x}
<1>1. IsFiniteSet(T) /\ x \in T /\ T \ {x} = S /\ \A i \in T : f[i] \in Int
    BY FS_AddElement
<1> HIDE DEF T
<1> DEFINE g == Sums(f, T)
           h == Sums(f, S)
<1>2. g \in [SUBSET T -> Int] /\ IsSum(g, f, T) /\ Total(f, T) = g[T]
    BY <1>1, TotalIs
<1>3. IsSum(h, f, S) /\ Total(f, S) = h[S]
    BY TotalIs
<1> HIDE DEF g, h
<1>4. g[T] = f[x] + g[T \ {x}]
  <2>1. \A s \in SUBSET T : g[s] \in Int
      BY <1>2
  <2> QED BY <1>1, <1>2, <2>1, SumTakesAny
<1>5. g[S] = h[S]
  <2>1. S \in SUBSET (T \cap S) /\ \A y \in S : f[y] = f[y]
      BY <1>1
  <2> QED BY <1>2, <1>3, <2>1, SumsAgree
<1>6. g[T \ {x}] = g[S]
    BY <1>1
<1> QED BY <1>2, <1>3, <1>4, <1>5, <1>6 DEF T

(***************************************************************************)
(* The books.                                                              *)
(***************************************************************************)

BooksIInv == SalesIInv /\ BooksBalance

Out == {p \in Payouts : payout[p].at \in {"OPEN", "PAID"}}
PriceOf == [s \in Sale |-> sold[s].price]
CommissionOf == [s \in Sale |-> sold[s].commission]
PaidOf == [p \in Payouts |-> payout[p].paid]

\* The figures are totals, now and after a step.
LEMMA FiguresNow ==
    Gross = Total(PriceOf, Completed) /\ CommissionTaken = Total(CommissionOf, Completed)
      /\ PaidOut = Total(PaidOf, Out)
BY DEF Gross, CommissionTaken, PaidOut, Total, PriceOf, CommissionOf, PaidOf, Out

LEMMA FiguresNext ==
    Gross' = Total(PriceOf', Completed') /\ CommissionTaken' = Total(CommissionOf', Completed')
      /\ PaidOut' = Total(PaidOf', Out')
<1>1. (Gross = Total(PriceOf, Completed) /\ CommissionTaken = Total(CommissionOf, Completed)
        /\ PaidOut = Total(PaidOf, Out))'
    BY FiguresNow, PTL
<1> QED BY <1>1

\* The figures are totals over finite sets of rows.
LEMMA FiguresAreTotals ==
    SalesIInv =>
      /\ IsFiniteSet(Completed) /\ IsFiniteSet(Out)
      /\ Gross \in Int /\ CommissionTaken \in Int /\ PaidOut \in Int
<1> SUFFICES ASSUME SalesIInv
             PROVE  /\ IsFiniteSet(Completed) /\ IsFiniteSet(Out)
                    /\ Gross \in Int /\ CommissionTaken \in Int /\ PaidOut \in Int
    OBVIOUS
<1>1. sold \in [Sale -> SaleRecord] /\ payout \in [Payouts -> PayoutRecord]
    BY DEF SalesIInv
<1>2. Completed \subseteq Sale /\ Out \subseteq Payouts
    BY DEF Completed, Out
<1>3. IsFiniteSet(Completed) /\ IsFiniteSet(Out)
    BY <1>2, SalesConstantsOK, FS_Subset
<1>4. /\ \A s \in Completed : PriceOf[s] \in Int
      /\ \A s \in Completed : CommissionOf[s] \in Int
      /\ \A p \in Out : PaidOf[p] \in Int
    BY <1>1, <1>2 DEF SaleRecord, PayoutRecord, PriceOf, CommissionOf, PaidOf
<1>5. Gross \in Int /\ CommissionTaken \in Int /\ PaidOut \in Int
    BY <1>3, <1>4, FiguresNow, TotalType
<1> QED BY <1>3, <1>5

LEMMA FiguresAreTotalsNext == SalesIInv' => PaidOut' \in Int
<1>1. SalesIInv => PaidOut \in Int
    BY FiguresAreTotals
<1>2. (SalesIInv => PaidOut \in Int)'
    BY <1>1, PTL
<1> QED BY <1>2

\* The sums of the sales do not move unless a sale is fulfilled.
LEMMA SalesKept ==
    ASSUME SalesIInv, SalesIInv',
           \A s \in Sale : sold'[s].at = "COMPLETED" <=> sold[s].at = "COMPLETED",
           \A s \in Completed : sold'[s] = sold[s]
    PROVE  Gross' = Gross /\ CommissionTaken' = CommissionTaken
<1>1. sold \in [Sale -> SaleRecord] /\ Completed \subseteq Sale /\ Completed' = Completed
    BY DEF SalesIInv, Completed
<1>2. IsFiniteSet(Completed)
    BY FiguresAreTotals
<1> DEFINE f == PriceOf
           c == CommissionOf
           f1 == PriceOf'
           c1 == CommissionOf'
<1>3. /\ \A s \in Completed : f[s] \in Int
      /\ \A s \in Completed : c[s] \in Int
    BY <1>1 DEF SaleRecord, PriceOf, CommissionOf
<1>4. \A s \in Completed : f[s] = f1[s]
    BY <1>1 DEF PriceOf
<1>5. \A s \in Completed : c[s] = c1[s]
    BY <1>1 DEF CommissionOf
<1>6. /\ Gross = Total(f, Completed) /\ CommissionTaken = Total(c, Completed)
      /\ Gross' = Total(f1, Completed) /\ CommissionTaken' = Total(c1, Completed)
    BY <1>1, FiguresNow, FiguresNext
<1> HIDE DEF f, c, f1, c1
<1>7. Total(f, Completed) = Total(f1, Completed)
    BY <1>2, <1>3, <1>4, TotalAgrees
<1>8. Total(c, Completed) = Total(c1, Completed)
    BY <1>2, <1>3, <1>5, TotalAgrees
<1> QED BY <1>6, <1>7, <1>8

\* A fulfilled sale adds its price and its commission.
LEMMA SaleAdded ==
    ASSUME SalesIInv, SalesIInv', NEW s \in Sale, sold[s].at # "COMPLETED",
           sold'[s].at = "COMPLETED", \A r \in Sale : r # s => sold'[r] = sold[r]
    PROVE  /\ Gross' = Gross + sold'[s].price
           /\ CommissionTaken' = CommissionTaken + sold'[s].commission
<1>1. /\ sold \in [Sale -> SaleRecord] /\ sold' \in [Sale -> SaleRecord]
      /\ Completed \subseteq Sale /\ s \notin Completed /\ Completed' = Completed \cup {s}
    BY DEF SalesIInv, Completed
<1>2. IsFiniteSet(Completed)
    BY FiguresAreTotals
<1> DEFINE f == PriceOf
           c == CommissionOf
           f1 == PriceOf'
           c1 == CommissionOf'
<1>3. /\ \A r \in Completed : f[r] \in Int
      /\ \A r \in Completed : c[r] \in Int
      /\ \A r \in Completed : f1[r] \in Int
      /\ \A r \in Completed : c1[r] \in Int
      /\ f1[s] = sold'[s].price /\ c1[s] = sold'[s].commission
      /\ f1[s] \in Int /\ c1[s] \in Int
    BY <1>1 DEF SaleRecord, PriceOf, CommissionOf
<1>4. \A r \in Completed : f[r] = f1[r]
    BY <1>1 DEF PriceOf
<1>5. \A r \in Completed : c[r] = c1[r]
    BY <1>1 DEF CommissionOf
<1>6. /\ Gross = Total(f, Completed) /\ CommissionTaken = Total(c, Completed)
      /\ Gross' = Total(f1, Completed \cup {s}) /\ CommissionTaken' = Total(c1, Completed \cup {s})
    BY <1>1, FiguresNow, FiguresNext
<1> HIDE DEF f, c, f1, c1
<1>7. Total(f, Completed) = Total(f1, Completed) /\ Total(f1, Completed) \in Int
    BY <1>2, <1>3, <1>4, TotalAgrees, TotalType
<1>8. Total(c, Completed) = Total(c1, Completed) /\ Total(c1, Completed) \in Int
    BY <1>2, <1>3, <1>5, TotalAgrees, TotalType
<1>9. Total(f1, Completed \cup {s}) = f1[s] + Total(f1, Completed)
    BY <1>1, <1>2, <1>3, TotalAdds
<1>10. Total(c1, Completed \cup {s}) = c1[s] + Total(c1, Completed)
    BY <1>1, <1>2, <1>3, TotalAdds
<1> QED BY <1>3, <1>6, <1>7, <1>8, <1>9, <1>10

\* What is paid out does not move unless a payout is opened or given back.
LEMMA PayoutsKept ==
    ASSUME SalesIInv, SalesIInv',
           \A p \in Payouts : payout'[p].at \in {"OPEN", "PAID"} <=> payout[p].at \in {"OPEN", "PAID"},
           \A p \in Payouts : payout'[p].paid = payout[p].paid
    PROVE  PaidOut' = PaidOut
<1>1. Out' = Out /\ PaidOf' = PaidOf
    BY DEF Out, PaidOf
<1> QED BY <1>1, FiguresNow, FiguresNext

\* One payout more is on its way or done.
LEMMA PayoutAdded ==
    ASSUME SalesIInv, SalesIInv', NEW p \in Payouts, payout[p].at \notin {"OPEN", "PAID"},
           payout'[p].at \in {"OPEN", "PAID"}, \A r \in Payouts : r # p => payout'[r] = payout[r]
    PROVE  PaidOut' = PaidOut + payout'[p].paid
<1> DEFINE g == PaidOf
           g1 == PaidOf'
<1>1. /\ payout \in [Payouts -> PayoutRecord] /\ payout' \in [Payouts -> PayoutRecord]
      /\ Out \subseteq Payouts /\ p \notin Out
      /\ Out' = Out \cup {p}
    BY DEF SalesIInv, Out
<1>2. IsFiniteSet(Out)
    BY FiguresAreTotals
<1>3. /\ \A r \in Out : g[r] \in Int
      /\ \A r \in Out : g1[r] \in Int
      /\ g1[p] = payout'[p].paid /\ g1[p] \in Int
    BY <1>1 DEF PayoutRecord, PaidOf
<1>4. \A r \in Out : g[r] = g1[r]
    BY <1>1 DEF PaidOf
<1>5. PaidOut = Total(g, Out) /\ PaidOut' = Total(g1, Out \cup {p})
    BY <1>1, FiguresNow, FiguresNext
<1> HIDE DEF g, g1
<1>6. Total(g, Out) = Total(g1, Out) /\ Total(g1, Out) \in Int
    BY <1>2, <1>3, <1>4, TotalAgrees, TotalType
<1>7. Total(g1, Out \cup {p}) = g1[p] + Total(g1, Out)
    BY <1>1, <1>2, <1>3, TotalAdds
<1> QED BY <1>3, <1>5, <1>6, <1>7

\* A payout that failed or was refused no longer counts.
LEMMA PayoutTakenBack ==
    ASSUME SalesIInv, SalesIInv', NEW p \in Payouts, payout[p].at \in {"OPEN", "PAID"},
           payout'[p].at \notin {"OPEN", "PAID"}, \A r \in Payouts : r # p => payout'[r] = payout[r]
    PROVE  PaidOut = PaidOut' + payout[p].paid
<1> DEFINE out == Out'
           g == PaidOf
           g1 == PaidOf'
<1>1. /\ payout \in [Payouts -> PayoutRecord] /\ payout' \in [Payouts -> PayoutRecord]
      /\ out \subseteq Payouts /\ p \notin out /\ Out = out \cup {p}
    BY DEF SalesIInv, Out
<1>2. IsFiniteSet(out)
    BY <1>1, SalesConstantsOK, FS_Subset
<1>3. /\ \A r \in out : g[r] \in Int
      /\ \A r \in out : g1[r] \in Int
      /\ g[p] = payout[p].paid /\ g[p] \in Int
    BY <1>1 DEF PayoutRecord, PaidOf
<1>4. \A r \in out : g[r] = g1[r]
    BY <1>1 DEF PaidOf
<1>5. PaidOut = Total(g, out \cup {p}) /\ PaidOut' = Total(g1, out)
    BY <1>1, FiguresNow, FiguresNext
<1> HIDE DEF g, g1, out
<1>6. Total(g, out) = Total(g1, out) /\ Total(g, out) \in Int
    BY <1>2, <1>3, <1>4, TotalAgrees, TotalType
<1>7. Total(g, out \cup {p}) = g[p] + Total(g, out)
    BY <1>1, <1>2, <1>3, TotalAdds
<1> QED BY <1>3, <1>5, <1>6, <1>7

LEMMA BooksInit == SalesInit => BooksIInv
<1> SUFFICES ASSUME SalesInit PROVE BooksIInv
    OBVIOUS
<1>1. Completed = {} /\ Out = {} /\ funds = 0
    BY DEF SalesInit, Completed, Out, NoSale, NoPayout
<1>2. Gross = 0 /\ CommissionTaken = 0 /\ PaidOut = 0
    BY <1>1, TotalEmpty, FiguresNow
<1>3. BooksBalance
    BY <1>1, <1>2 DEF BooksBalance
<1> QED BY <1>3, SalesInitInvariant DEF BooksIInv

LEMMA BooksNext == BooksIInv /\ [SalesNext]_salesVars => BooksIInv'
<1> SUFFICES ASSUME BooksIInv, [SalesNext]_salesVars PROVE BooksIInv'
    OBVIOUS
<1>1. /\ SalesIInv /\ SalesIInv'
      /\ sold \in [Sale -> SaleRecord] /\ payout \in [Payouts -> PayoutRecord] /\ funds \in Int
      /\ \A s \in Sale : SaleFair(sold[s])
      /\ \A p \in Payouts : PayoutFair(payout[p])
    BY SalesNextInvariant, SalesParts DEF BooksIInv
<1>2. Gross \in Int /\ CommissionTaken \in Int /\ PaidOut \in Int
    BY <1>1, FiguresAreTotals
<1>2a. PaidOut' \in Int
    BY <1>1, FiguresAreTotalsNext
<1>3. Gross - CommissionTaken = funds + PaidOut /\ funds >= 0
    BY DEF BooksIInv, BooksBalance
<1> SUFFICES BooksBalance'
    BY <1>1 DEF BooksIInv
<1>4. CASE UNCHANGED <<sold, funds, payout>>
  <2>1. Gross' = Gross /\ CommissionTaken' = CommissionTaken
      BY <1>1, <1>4, SalesKept
  <2>2. PaidOut' = PaidOut
      BY <1>1, <1>4, PayoutsKept
  <2> QED BY <1>3, <1>4, <2>1, <2>2 DEF BooksBalance
<1>5. ASSUME NEW s \in Sale, Initiate(s) \/ Reserve(s) \/ SaleEnds(s) PROVE BooksBalance'
  <2>1. /\ sold[s].at # "COMPLETED" /\ UNCHANGED <<funds, payout>>
        /\ sold'[s].at # "COMPLETED" /\ \A r \in Sale : r # s => sold'[r] = sold[r]
    <3>1. PICK x : /\ sold[s].at \in {"NONE", "READ", "OPEN"} /\ UNCHANGED <<funds, payout>>
                   /\ sold' = [sold EXCEPT ![s] = x] /\ x.at # "COMPLETED"
      <4>1. CASE Initiate(s)
        <5>1. PICK d \in Digits :
                sold' = [sold EXCEPT ![s].at = "READ", ![s].price = ticketPrice, ![s].digits = d]
            BY <4>1 DEF Initiate
        <5> DEFINE x == [sold[s] EXCEPT !.at = "READ", !.price = ticketPrice, !.digits = d]
        <5>2. sold' = [sold EXCEPT ![s] = x] /\ x.at # "COMPLETED"
            BY <1>1, <5>1 DEF SaleRecord
        <5> QED BY <4>1, <5>2 DEF Initiate
      <4>2. CASE Reserve(s)
        <5> DEFINE c == Commission(ticketPrice, RateOf, sold[s].digits)
                   y == [sold[s] EXCEPT !.at = "OPEN", !.price = ticketPrice, !.bps = RateOf,
                                        !.commission = c, !.share = ticketPrice - c]
                   x == IF PriceStands(s) THEN y ELSE NoSale
        <5>1. sold' = [sold EXCEPT ![s] = x]
            BY <1>1, <4>2 DEF Reserve
        <5>2. x.at # "COMPLETED"
          <6>1. y.at = "OPEN"
              BY <1>1 DEF SaleRecord
          <6> HIDE DEF y
          <6> QED BY <6>1 DEF NoSale
        <5> HIDE DEF x
        <5> QED BY <4>2, <5>1, <5>2 DEF Reserve
      <4>3. CASE SaleEnds(s)
        <5> DEFINE x == [sold[s] EXCEPT !.at = "ENDED"]
        <5>1. sold' = [sold EXCEPT ![s] = x] /\ x.at # "COMPLETED"
            BY <1>1, <4>3 DEF SaleEnds, SaleRecord
        <5> QED BY <4>3, <5>1 DEF SaleEnds
      <4> QED BY <1>5, <4>1, <4>2, <4>3
    <3> QED BY <1>1, <3>1
  <2>2. Gross' = Gross /\ CommissionTaken' = CommissionTaken
    <3>1. \A r \in Sale : sold'[r].at = "COMPLETED" <=> sold[r].at = "COMPLETED"
        BY <2>1
    <3>2. \A r \in Completed : sold'[r] = sold[r]
        BY <2>1 DEF Completed
    <3> QED BY <1>1, <3>1, <3>2, SalesKept
  <2>3. PaidOut' = PaidOut
      BY <1>1, <2>1, PayoutsKept
  <2> QED BY <1>3, <2>1, <2>2, <2>3 DEF BooksBalance
<1>6. ASSUME NEW s \in Sale, FulfilSale(s) PROVE BooksBalance'
  <2>1. /\ sold[s].at = "OPEN" /\ funds' = funds + sold[s].share /\ UNCHANGED payout
        /\ sold' = [sold EXCEPT ![s].at = "COMPLETED"]
      BY <1>6 DEF FulfilSale, ShareDue
  <2>2. /\ sold'[s].at = "COMPLETED" /\ sold'[s].price = sold[s].price
        /\ sold'[s].commission = sold[s].commission
        /\ \A r \in Sale : r # s => sold'[r] = sold[r]
      BY <1>1, <2>1 DEF SaleRecord
  <2>3. Gross' = Gross + sold[s].price /\ CommissionTaken' = CommissionTaken + sold[s].commission
      BY <1>1, <2>1, <2>2, SaleAdded
  <2>4. PaidOut' = PaidOut
      BY <1>1, <2>1, PayoutsKept
  <2>5. /\ sold[s].price \in Int /\ sold[s].commission \in Int /\ sold[s].share \in Int
        /\ sold[s].commission + sold[s].share = sold[s].price /\ sold[s].share >= 0
      BY <1>1, <2>1 DEF SaleFair, SaleRecord
  <2> DEFINE a == sold[s].price
             b == sold[s].commission
             c == sold[s].share
  <2>6. Gross' = Gross + a /\ CommissionTaken' = CommissionTaken + b /\ funds' = funds + c
      BY <2>1, <2>3
  <2>7. a \in Int /\ b \in Int /\ c \in Int /\ b + c = a /\ c >= 0
      BY <2>5
  <2> HIDE DEF a, b, c
  <2>8. Gross' - CommissionTaken' = funds' + PaidOut' /\ funds' >= 0
      BY <1>1, <1>2, <1>3, <2>4, <2>6, <2>7
  <2> QED BY <2>8 DEF BooksBalance
<1>7. CASE CommitPayout
  <2>1. CASE UNCHANGED <<payout, funds>>
      BY <1>4, <1>7, <2>1 DEF CommitPayout
  <2>2. CASE ~UNCHANGED <<payout, funds>>
    <3>1. PICK p \in Payouts, a \in Asked :
            LET v == IF a = 0 THEN funds ELSE a IN
            /\ payout[p].at = "NONE" /\ Payable(v, asking)
            /\ payout' = [payout EXCEPT ![p] = [at |-> "OPEN", paid |-> v, digits |-> asking]]
            /\ funds' = funds - v
        BY <1>7, <2>2 DEF CommitPayout
    <3> DEFINE v == IF a = 0 THEN funds ELSE a
    <3>2. v \in Int /\ v <= funds
        BY <1>1, <3>1, SalesConstantsOK DEF Payable
    <3>3. /\ payout[p].at = "NONE" /\ payout'[p].at = "OPEN" /\ payout'[p].paid = v
          /\ \A r \in Payouts : r # p => payout'[r] = payout[r]
        BY <1>1, <3>1
    <3>4. funds' = funds - v /\ sold' = sold
        BY <1>7, <3>1 DEF CommitPayout
    <3> HIDE DEF v
    <3>5. PaidOut' = PaidOut + v
        BY <1>1, <3>3, PayoutAdded
    <3>6. Gross' = Gross /\ CommissionTaken' = CommissionTaken
        BY <1>1, <3>4, SalesKept
    <3> QED BY <1>1, <1>2, <1>3, <3>2, <3>4, <3>5, <3>6 DEF BooksBalance
  <2> QED BY <2>1, <2>2
<1>8. ASSUME NEW p \in Payouts, PayoutEnds(p) PROVE BooksBalance'
  <2>1. payout[p].at = "OPEN" /\ UNCHANGED sold
      BY <1>8 DEF PayoutEnds
  <2>2. Gross' = Gross /\ CommissionTaken' = CommissionTaken
      BY <1>1, <2>1, SalesKept
  <2>3. payout[p].paid \in Int /\ payout[p].paid > 0
      BY <1>1, <2>1 DEF PayoutFair, PayoutRecord
  <2>4. CASE payout' = [payout EXCEPT ![p].at = "PAID"] /\ UNCHANGED funds
    <3>1. PaidOut' = PaidOut
      <4>1. \A r \in Payouts : /\ payout'[r].paid = payout[r].paid
                               /\ payout'[r].at \in {"OPEN", "PAID"} <=> payout[r].at \in {"OPEN", "PAID"}
          BY <1>1, <2>1, <2>4 DEF PayoutRecord
      <4> QED BY <1>1, <4>1, PayoutsKept
    <3> QED BY <1>3, <2>2, <2>4, <3>1 DEF BooksBalance
  <2>5. CASE payout' = [payout EXCEPT ![p].at = "RETURNED"] /\ funds' = funds + payout[p].paid
    <3>1. payout'[p].at = "RETURNED" /\ \A r \in Payouts : r # p => payout'[r] = payout[r]
        BY <1>1, <2>5 DEF PayoutRecord
    <3>2. PaidOut = PaidOut' + payout[p].paid
        BY <1>1, <2>1, <3>1, PayoutTakenBack
    <3> QED BY <1>1, <1>2, <1>2a, <1>3, <2>2, <2>3, <2>5, <3>2 DEF BooksBalance
  <2> QED BY <1>8, <2>4, <2>5 DEF PayoutEnds
<1>9. CASE SetPrice \/ ChangeTicketCommission \/ SetAccount \/ AskPayout \/ UNCHANGED salesVars
    BY <1>4, <1>9 DEF SetPrice, ChangeTicketCommission, SetAccount, AskPayout, salesVars
<1> QED BY <1>5, <1>6, <1>7, <1>8, <1>9 DEF SalesNext

\* For any prices, rates, precisions and numbers of sales and payouts, and whatever order
\* they end in, what the buyers paid less the commission is in the balance or was paid
\* out, and the balance is never negative (organizationBalance, requestPayout).
THEOREM BooksStayBalanced == SalesBalanceSpec => []BooksBalance
<1>1. BooksIInv => BooksBalance
    BY DEF BooksIInv
<1> QED BY <1>1, BooksInit, BooksNext, PTL DEF SalesBalanceSpec

\* What the dashboard sums is right, and made of fair amounts.
THEOREM AmountsAlwaysHold == SalesBalanceSpec => []AmountsHold
BY AmountsStayFair, BooksStayBalanced, PTL DEF AmountsHold

-----------------------------------------------------------------------------
(* The refund of a ticket *)

LEMMA RefundsInitInvariant == RefundsInit => RefundsIInv
<1> SUFFICES ASSUME RefundsInit PROVE RefundsIInv  OBVIOUS
<1>1. \A r \in Runner : run[r] = NoRun \/ run[r] = [op |-> "DEPOSIT", answer |-> "IN_PROGRESS"]
  BY DEF RefundsInit, CheckoutRuns
<1>2. run \in [Runner -> Runs \cup {NoRun}]
  BY DEF RefundsInit, CheckoutRuns, Runs, Deposits
<1>3. RefundsTypeOK
  BY <1>2 DEF RefundsInit, RefundsTypeOK
<1>4. \A r \in Runner : RunTruthful(r)
  BY <1>1 DEF RunTruthful, OfRefund, Heard, InHand
<1>5. row.status = "NO_ROW" /\ row.id = NoAttempt /\ due = "OPEN" /\ ~ticket /\ \A a \in Attempt : pawa[a] = "UNUSED"
  BY DEF RefundsInit
<1>6. EarlierEnded /\ RefundedIsPaid /\ TicketFirst
  BY <1>5 DEF EarlierEnded, RefundedIsPaid, TicketFirst
<1> QED BY <1>3, <1>4, <1>5, <1>6 DEF RefundsIInv

\* What a runner has in hand.
LEMMA RunIs ==
  ASSUME RefundsTypeOK, NEW r \in Runner
  PROVE  /\ run[r] # NoRun => run[r] \in Runs
         /\ OfRefund(r) => run[r] # NoRun /\ run[r].id \in Attempt
<1>1. run[r] # NoRun => run[r] \in Runs
  BY DEF RefundsTypeOK
<1>2. run[r] \in Runs /\ run[r].op \in {"LISTED", "SEND", "CHECK"} => run[r].id \in Attempt
  BY DEF Runs
<1> QED BY <1>1, <1>2 DEF OfRefund, InHand

\* What is heard of a refund is heard by a runner that has a refund in hand.
LEMMA HeardOfRefund ==
  ASSUME NEW r \in Runner
  PROVE  \A a : Heard(r, "SEND", a) \/ Heard(r, "CHECK", a) => OfRefund(r)
BY DEF Heard, OfRefund

\* A step of one runner, at pawaPay or not, that leaves what was told true.
LEMMA OthersStayTruthful ==
  ASSUME RefundsIInv, NEW r \in Runner, RunTruthful(r)',
         \A q \in Runner \ {r} : run'[q] = run[q], row'.id = row.id, told' = told,
         \A a \in Attempt : pawa'[a] # "UNUSED" \/ pawa[a] = "UNUSED",
         \A a \in Attempt : pawa[a] \in {"REJECTED", "COMPLETED", "FAILED"} => pawa'[a] = pawa[a]
  PROVE  \A q \in Runner : RunTruthful(q)'
<1> SUFFICES ASSUME NEW q \in Runner \ {r} PROVE RunTruthful(q)'  OBVIOUS
<1>1. run'[q] = run[q] /\ (OfRefund(q) => run[q].id \in Attempt) /\ RunTruthful(q)
  BY RunIs DEF RefundsIInv
<1>2. OfRefund(q)' <=> OfRefund(q)
  BY <1>1 DEF OfRefund, InHand
<1>3. \A op, a : Heard(q, op, a)' <=> Heard(q, op, a)
  BY <1>1 DEF Heard, InHand
<1> QED BY <1>1, <1>2, <1>3, HeardOfRefund DEF RunTruthful

\* A step that neither asks pawaPay nor fails the refund, and leaves payment and attempt.
LEMMA RowWritten ==
  ASSUME RefundsIInv, NEW r \in Runner, UNCHANGED <<due, ticket, told, pawa, late>>,
         run' \in [Runner -> Runs \cup {NoRun}],
         row'.id = row.id, row' \in [id : Attempt \cup {NoAttempt}, sent : {"NO", "RECENT", "STALE"},
                                     status : {"NO_ROW", "COMPLETED", "FAILED"} \cup OpenRefund],
         row'.status = row.status \/ (row'.status \in OpenRefund /\ row.status # "NO_ROW"),
         \A q \in Runner \ {r} : run'[q] = run[q], RunTruthful(r)'
  PROVE  RefundsIInv'
<1>1. \A q \in Runner : RunTruthful(q)'
  BY OthersStayTruthful
<1>2. RefundsTypeOK'
  BY DEF RefundsIInv, RefundsTypeOK
<1>3. row'.status = "NO_ROW" <=> row.status = "NO_ROW"
  BY DEF OpenRefund
<1>4. (EarlierEnded => EarlierEnded') /\ (Misled' <=> Misled) /\ (RefundedIsPaid' <=> RefundedIsPaid)
  BY DEF EarlierEnded, Ended, RefundedIsPaid, Misled, OpenRefund
<1>5. TicketFirst'
  BY DEF RefundsIInv, TicketFirst, Reopened
<1> QED BY <1>1, <1>2, <1>3, <1>4, <1>5 DEF RefundsIInv

\* A runner that finishes was told nothing.
LEMMA Finished ==
  ASSUME RefundsIInv, NEW r \in Runner, Finish(r)
  PROVE  /\ run' \in [Runner -> Runs \cup {NoRun}] /\ RunTruthful(r)'
         /\ \A q \in Runner \ {r} : run'[q] = run[q]
<1>1. run' = [run EXCEPT ![r] = NoRun] /\ run \in [Runner -> Runs \cup {NoRun}]
  BY DEF Finish, Take, RefundsIInv, RefundsTypeOK
<1>2. run'[r] = NoRun
  BY <1>1
<1> QED BY <1>1, <1>2 DEF RunTruthful, OfRefund, Heard, InHand

\* The row with another status and submission is a row.
LEMMA RowSet ==
  ASSUME RefundsIInv, NEW s \in {"COMPLETED", "FAILED"} \cup OpenRefund, NEW t \in {"NO", "RECENT", "STALE"},
         SetRow(s, t)
  PROVE  /\ row' \in [id : Attempt \cup {NoAttempt}, sent : {"NO", "RECENT", "STALE"},
                      status : {"NO_ROW", "COMPLETED", "FAILED"} \cup OpenRefund]
         /\ row'.id = row.id /\ row'.status = s /\ row'.status # "NO_ROW"
BY DEF SetRow, RefundsIInv, RefundsTypeOK, OpenRefund

LEMMA RowIs ==
  ASSUME RefundsIInv
  PROVE  /\ row.sent \in {"NO", "RECENT", "STALE"}
         /\ row \in [id : Attempt \cup {NoAttempt}, sent : {"NO", "RECENT", "STALE"},
                     status : {"NO_ROW", "COMPLETED", "FAILED"} \cup OpenRefund]
BY DEF RefundsIInv, RefundsTypeOK

LEMMA RequestRefundKeeps == ASSUME RefundsIInv, NEW a \in Attempt, RequestRefund(a) PROVE RefundsIInv'
<1> USE RefundConstantsOK DEF RefundConstantsOK, depositVars
<1>1. RefundsTypeOK'
  BY DEF RequestRefund, RefundsIInv, RefundsTypeOK, OpenRefund
<1>2. pawa'[a] = "NONE" /\ pawa[a] = "UNUSED" /\ \A b \in Attempt \ {a} : pawa'[b] = pawa[b]
  BY DEF RequestRefund, RefundsIInv, RefundsTypeOK
<1>3. row'.id = a /\ row'.status = "PENDING" /\ due' = "REFUND_PENDING" /\ due = "REVIEW_REQUIRED"
      /\ UNCHANGED <<ticket, told, run, late>>
  BY DEF RequestRefund
<1>4. \A q \in Runner : RunTruthful(q)'
  <2> SUFFICES ASSUME NEW q \in Runner PROVE RunTruthful(q)'  OBVIOUS
  <2>1. RunTruthful(q) /\ run'[q] = run[q] /\ (OfRefund(q) => run[q].id \in Attempt \ {a})
    BY <1>2, <1>3, RunIs DEF RefundsIInv, RunTruthful
  <2>2. (OfRefund(q)' <=> OfRefund(q)) /\ \A op, o : Heard(q, op, o)' <=> Heard(q, op, o)
    BY <2>1 DEF OfRefund, Heard, InHand
  <2> QED BY <1>2, <1>3, <2>1, <2>2, HeardOfRefund DEF RunTruthful
<1>5. Misled' \/ EarlierEnded'
  <2> SUFFICES ASSUME ~Misled PROVE EarlierEnded'  BY <1>3 DEF Misled
  <2>1. \A b \in Attempt : pawa[b] = "UNUSED" \/ Ended(b)
    BY <1>3 DEF RefundsIInv, EarlierEnded
  <2> QED BY <1>2, <1>3, <2>1 DEF EarlierEnded, Ended
<1>6. TicketFirst'
  BY <1>3 DEF RefundsIInv, TicketFirst, Reopened, OpenRefund
<1> QED BY <1>1, <1>2, <1>3, <1>4, <1>5, <1>6 DEF RefundsIInv, RefundedIsPaid

LEMMA ListRefundKeeps == ASSUME RefundsIInv, NEW r \in Runner, ListRefund(r) PROVE RefundsIInv'
<1>1. row.id \in Attempt /\ row.id # NoAttempt /\ pawa[row.id] # "UNUSED"
  BY DEF ListRefund, RefundsIInv, RefundsTypeOK
<1>2. [op |-> "LISTED", id |-> row.id] \in Runs
  BY <1>1 DEF Runs
<1>3. /\ run' \in [Runner -> Runs \cup {NoRun}] /\ run'[r] = [op |-> "LISTED", id |-> row.id]
      /\ \A q \in Runner \ {r} : run'[q] = run[q]
  BY <1>2 DEF ListRefund, Take, RefundsIInv, RefundsTypeOK
<1>4. RunTruthful(r)'
  BY <1>1, <1>3 DEF RunTruthful, OfRefund, Heard, InHand, ListRefund
<1>5. UNCHANGED <<due, ticket, told, row, pawa, late>>
  BY DEF ListRefund, depositVars
<1> QED BY <1>3, <1>4, <1>5, RowIs, RowWritten

\* A refund that was claimed is sent, or the claim finds it taken.
LEMMA ClaimRefundKeeps == ASSUME RefundsIInv, NEW r \in Runner, ClaimRefund(r) PROVE RefundsIInv'
<1>1. run[r] # NoRun /\ run[r].id \in Attempt /\ pawa[run[r].id] # "UNUSED" /\ row.id # NoAttempt
  BY RunIs DEF ClaimRefund, OfRefund, InHand, RefundsIInv, RunTruthful
<1>2. CASE row.status = "PENDING" /\ row.sent = "NO"
  <2> DEFINE t == [op |-> "SEND", id |-> run[r].id, answer |-> "WAITING"]
  <2>1. t \in Runs
    BY <1>1 DEF Runs
  <2>2. /\ run' \in [Runner -> Runs \cup {NoRun}] /\ run'[r] = t
        /\ \A q \in Runner \ {r} : run'[q] = run[q]
    BY <1>2, <2>1 DEF ClaimRefund, Take, RefundsIInv, RefundsTypeOK
  <2>3. SetRow("PENDING", "RECENT") /\ UNCHANGED <<due, ticket, told, pawa, late>>
    BY <1>2 DEF ClaimRefund, depositVars
  <2>4. row'.id = row.id
    BY <2>3, RowSet DEF OpenRefund
  <2>5. RunTruthful(r)'
    BY <1>1, <2>2, <2>3, <2>4 DEF RunTruthful, OfRefund, Heard, InHand
  <2> QED BY <1>2, <2>2, <2>3, <2>5, RowSet, RowWritten DEF OpenRefund
<1>3. CASE ~(row.status = "PENDING" /\ row.sent = "NO")
  BY <1>3, Finished, RowIs, RowWritten DEF ClaimRefund, depositVars
<1> QED BY <1>2, <1>3

\* A write of the row, or none, by a runner that finishes.
LEMMA EndKeeps ==
  ASSUME RefundsIInv, NEW r \in Runner, Finish(r), UNCHANGED <<due, ticket, told, pawa, late>>,
         \/ UNCHANGED row
         \/ row.status # "NO_ROW" /\ \E s \in OpenRefund, t \in {"NO", "RECENT", "STALE"} : SetRow(s, t)
  PROVE  RefundsIInv'
<1>1. CASE UNCHANGED row
  BY <1>1, Finished, RowIs, RowWritten
<1>2. ASSUME row.status # "NO_ROW", NEW s \in OpenRefund, NEW t \in {"NO", "RECENT", "STALE"}, SetRow(s, t)
      PROVE  RefundsIInv'
  <2>1. row'.status = s /\ row'.id = row.id /\ row' \in [id : Attempt \cup {NoAttempt}, sent : {"NO", "RECENT", "STALE"},
                                status : {"NO_ROW", "COMPLETED", "FAILED"} \cup OpenRefund]
    BY <1>2, RowSet
  <2> QED BY <1>2, <2>1, Finished, RowWritten DEF OpenRefund
<1> QED BY <1>1, <1>2

LEMMA RowWritersKeep ==
  ASSUME RefundsIInv, NEW r \in Runner,
         RefundSent(r) \/ SendUncertain(r) \/ RefundNotFound(r) \/ RefundUnderWay(r) \/ RunStops(r)
  PROVE  RefundsIInv'
<1>1. Finish(r) /\ UNCHANGED <<due, ticket, told, pawa, late>>
  BY DEF RefundSent, SendUncertain, RefundNotFound, RefundUnderWay, RunStops, depositVars
<1>2. \/ UNCHANGED row
      \/ OfRefund(r) /\ (SetRow("PROCESSING", row.sent) \/ SetRow("PENDING", "NO"))
  <2>1. CASE RefundSent(r) \/ SendUncertain(r)
    BY <2>1 DEF RefundSent, SendUncertain, OfRefund, Heard
  <2>2. CASE RefundNotFound(r) \/ RefundUnderWay(r)
    BY <2>2 DEF RefundNotFound, RefundUnderWay, OfRefund, Heard
  <2>3. CASE RunStops(r)
    BY <2>3 DEF RunStops
  <2> QED BY <2>1, <2>2, <2>3
<1>3. OfRefund(r) => row.status # "NO_ROW"
  BY DEF RefundsIInv, RunTruthful
<1>4. \/ UNCHANGED row
      \/ row.status # "NO_ROW" /\ \E s \in OpenRefund, t \in {"NO", "RECENT", "STALE"} : SetRow(s, t)
  BY <1>2, <1>3, RowIs DEF OpenRefund
<1> QED BY <1>1, <1>4, EndKeeps

\* pawaPay's answer to a request or a check, noted.
LEMMA Answered ==
  ASSUME RefundsIInv, NEW r \in Runner, NEW op \in {"SEND", "CHECK"}, Heard(r, op, "WAITING"),
         NEW a \in {"ACCEPTED", "REJECTED", "NOT_FOUND"} \cup Accepted,
         op = "SEND" => a \in {"ACCEPTED", "REJECTED"}, op = "CHECK" => a \in {"NOT_FOUND"} \cup Accepted,
         Answer(r, a)
  PROVE  /\ run' \in [Runner -> Runs \cup {NoRun}] /\ \A q \in Runner \ {r} : run'[q] = run[q]
         /\ run'[r] # NoRun /\ run'[r].op = op /\ run'[r].answer = a /\ run'[r].id = run[r].id /\ run[r].id \in Attempt
<1>1. run[r] \in Runs /\ run[r].id \in Attempt /\ run[r].op = op
  BY RunIs, HeardOfRefund DEF RefundsIInv, Heard, InHand
<1>2. [run[r] EXCEPT !.answer = a] \in Runs
  <2>1. CASE op = "SEND"
    <3>1. run[r] \in [op : {"SEND"}, id : Attempt, answer : {"WAITING", "ACCEPTED", "REJECTED"}]
      BY <1>1, <2>1 DEF Runs
    <3> QED BY <2>1, <3>1 DEF Runs
  <2>2. CASE op = "CHECK"
    <3>1. run[r] \in [op : {"CHECK"}, id : Attempt, seen : OpenRefund, stale : BOOLEAN,
                      answer : {"WAITING", "NOT_FOUND"} \cup Accepted]
      BY <1>1, <2>2 DEF Runs
    <3> QED BY <2>2, <3>1 DEF Runs
  <2> QED BY <2>1, <2>2
<1>3. /\ run' = [run EXCEPT ![r] = [run[r] EXCEPT !.answer = a]]
      /\ run \in [Runner -> Runs \cup {NoRun}]
  BY DEF Answer, RefundsIInv, RefundsTypeOK
<1>4. run'[r] = [run[r] EXCEPT !.answer = a] /\ "answer" \in DOMAIN run[r] /\ "id" \in DOMAIN run[r] /\ "op" \in DOMAIN run[r]
  <2>1. CASE op = "SEND"
    <3>1. run[r] \in [op : {"SEND"}, id : Attempt, answer : {"WAITING", "ACCEPTED", "REJECTED"}]
      BY <1>1, <2>1 DEF Runs
    <3> QED BY <1>3, <3>1
  <2>2. CASE op = "CHECK"
    <3>1. run[r] \in [op : {"CHECK"}, id : Attempt, seen : OpenRefund, stale : BOOLEAN,
                      answer : {"WAITING", "NOT_FOUND"} \cup Accepted]
      BY <1>1, <2>2 DEF Runs
    <3> QED BY <1>3, <3>1
  <2> QED BY <2>1, <2>2
<1>5. run'[r].answer = a /\ run'[r].id = run[r].id /\ run'[r].op = op
  BY <1>1, <1>4
<1>6. run'[r] # NoRun
  BY <1>2, <1>4, RefundConstantsOK DEF RefundConstantsOK
<1> QED BY <1>1, <1>2, <1>3, <1>5, <1>6

LEMMA SendRefundKeeps == ASSUME RefundsIInv, NEW r \in Runner, SendRefund(r) PROVE RefundsIInv'
<1> DEFINE a == run[r].id
<1>1. a \in Attempt /\ pawa[a] # "UNUSED" /\ row.id # NoAttempt
  BY RunIs, HeardOfRefund DEF SendRefund, RefundsIInv, RunTruthful
<1>2. PICK o \in {"ACCEPTED", "REJECTED"} :
        /\ Answer(r, o)
        /\ \/ o = "ACCEPTED" /\ pawa[a] \in Accepted /\ UNCHANGED pawa
           \/ o = "ACCEPTED" /\ pawa[a] = "NONE" /\ pawa' = [pawa EXCEPT ![a] = "IN_PROGRESS"]
           \/ o = "REJECTED" /\ pawa[a] \notin Accepted /\ pawa' = [pawa EXCEPT ![a] = "REJECTED"]
  BY DEF SendRefund
<1>3. Heard(r, "SEND", "WAITING") /\ UNCHANGED <<due, ticket, told, row, late>>
  BY DEF SendRefund, depositVars
<1> HIDE DEF a
<1>4. /\ run' \in [Runner -> Runs \cup {NoRun}] /\ \A q \in Runner \ {r} : run'[q] = run[q]
      /\ run'[r] # NoRun /\ run'[r].op = "SEND" /\ run'[r].answer = o /\ run'[r].id = a
  BY <1>2, <1>3, Answered DEF a
<1>5. /\ pawa' \in [Attempt -> {"UNUSED", "NONE", "REJECTED"} \cup Accepted]
      /\ \A b \in Attempt \ {a} : pawa'[b] = pawa[b]
  BY <1>1, <1>2 DEF RefundsIInv, RefundsTypeOK, Accepted
<1>6. /\ pawa'[a] # "UNUSED" /\ (Ended(a) \/ pawa[a] = "COMPLETED" => pawa'[a] = pawa[a])
      /\ o = "REJECTED" => pawa'[a] = "REJECTED"
  BY <1>1, <1>2 DEF RefundsIInv, RefundsTypeOK, Accepted, Ended
<1>7. RunTruthful(r)'
  BY <1>1, <1>3, <1>4, <1>6 DEF RunTruthful, OfRefund, Heard, InHand
<1>8. \A b \in Attempt : pawa'[b] # "UNUSED" \/ pawa[b] = "UNUSED"
  BY <1>5, <1>6
<1>9. \A b \in Attempt : pawa[b] \in {"REJECTED", "COMPLETED", "FAILED"} => pawa'[b] = pawa[b]
  BY <1>5, <1>6 DEF Ended
<1>10. \A q \in Runner : RunTruthful(q)'
  BY <1>3, <1>4, <1>7, <1>8, <1>9, OthersStayTruthful
<1>11. Misled' \/ EarlierEnded'
  BY <1>1, <1>3, <1>5, <1>6 DEF RefundsIInv, RefundsTypeOK, EarlierEnded, Ended, Misled
<1>12. RefundedIsPaid'
  BY <1>3, <1>9 DEF RefundsIInv, RefundedIsPaid
<1>13. RefundsTypeOK'
  BY <1>3, <1>4, <1>5 DEF RefundsIInv, RefundsTypeOK
<1>14. (row.id # NoAttempt => pawa[row.id] # "UNUSED")'
  BY <1>3, <1>8 DEF RefundsIInv, RefundsTypeOK
<1>15. TicketFirst'
  BY <1>1, <1>3 DEF RefundsIInv, TicketFirst, Reopened
<1> QED BY <1>3, <1>10, <1>11, <1>12, <1>13, <1>14, <1>15 DEF RefundsIInv

LEMMA AskRefundKeeps == ASSUME RefundsIInv, NEW r \in Runner, AskRefund(r) PROVE RefundsIInv'
<1> DEFINE o == IF pawa[run[r].id] \in Accepted THEN pawa[run[r].id] ELSE "NOT_FOUND"
<1>1. Answer(r, o) /\ Heard(r, "CHECK", "WAITING") /\ UNCHANGED <<due, ticket, told, row, pawa, late>>
  BY DEF AskRefund, depositVars
<1>2. o \in {"NOT_FOUND"} \cup Accepted /\ (o # "NOT_FOUND" => pawa[run[r].id] = o)
  OBVIOUS
<1>3. pawa[run[r].id] # "UNUSED" /\ row.id # NoAttempt
  BY <1>1, HeardOfRefund DEF RefundsIInv, RunTruthful
<1> HIDE DEF o
<1>4. /\ run' \in [Runner -> Runs \cup {NoRun}] /\ \A q \in Runner \ {r} : run'[q] = run[q]
      /\ run'[r] # NoRun /\ run'[r].op = "CHECK" /\ run'[r].answer = o /\ run'[r].id = run[r].id
  BY <1>1, <1>2, Answered
<1>5. RunTruthful(r)'
  BY <1>1, <1>2, <1>3, <1>4 DEF RunTruthful, OfRefund, Heard, InHand
<1> QED BY <1>1, <1>4, <1>5, RowIs, RowWritten

LEMMA BeginRefundCheckKeeps == ASSUME RefundsIInv, NEW r \in Runner, BeginRefundCheck(r) PROVE RefundsIInv'
<1> DEFINE t == [op |-> "CHECK", id |-> row.id, seen |-> row.status, stale |-> row.sent = "STALE", answer |-> "WAITING"]
<1>1. row.id \in Attempt /\ pawa[row.id] # "UNUSED" /\ row.id # NoAttempt
  BY RefundConstantsOK DEF BeginRefundCheck, RefundsIInv, RefundsTypeOK, OpenRefund, RefundConstantsOK
<1>2. t \in Runs
  BY <1>1 DEF Runs, BeginRefundCheck
<1>3. Take(r, t) /\ UNCHANGED <<due, ticket, told, row, pawa, late>>
  BY DEF BeginRefundCheck, depositVars
<1>4. t.id = row.id /\ t.op = "CHECK" /\ t.answer = "WAITING"
  OBVIOUS
<1> HIDE DEF t
<1>5. run' \in [Runner -> Runs \cup {NoRun}] /\ run'[r] = t /\ \A q \in Runner \ {r} : run'[q] = run[q]
  BY <1>2, <1>3 DEF Take, RefundsIInv, RefundsTypeOK
<1>6. RunTruthful(r)'
  BY <1>1, <1>3, <1>4, <1>5 DEF RunTruthful, OfRefund, Heard, InHand
<1> QED BY <1>3, <1>5, <1>6, RowIs, RowWritten

\* What is failed has ended at pawaPay: without crossing it is the attempt of the row.
LEMMA FailRefundKeeps ==
  ASSUME RefundsIInv, NEW r \in Runner, OfRefund(r), Ended(run[r].id), FailRefund(run[r].id), Finish(r),
         UNCHANGED <<ticket, told, pawa>>
  PROVE  RefundsIInv'
<1>1. run[r].id \in Attempt /\ row.id # NoAttempt /\ row.status # "NO_ROW"
  BY RunIs DEF RefundsIInv, RunTruthful
<1>2. CASE row.status \notin OpenRefund
  <2>1. UNCHANGED <<row, due, late>>
    BY <1>2 DEF FailRefund
  <2> QED BY <2>1, EndKeeps
<1>3. CASE row.status \in OpenRefund
  <2>1. /\ SetRow("FAILED", row.sent) /\ due' = "REVIEW_REQUIRED"
        /\ late \subseteq late' /\ late' \subseteq Late /\ (row.id = run[r].id \/ Misled')
    BY <1>3 DEF FailRefund, Crosses, Misled, Late, RefundsIInv, RefundsTypeOK
  <2>2. /\ row' \in [id : Attempt \cup {NoAttempt}, sent : {"NO", "RECENT", "STALE"},
                     status : {"NO_ROW", "COMPLETED", "FAILED"} \cup OpenRefund]
        /\ row'.id = row.id /\ row'.status # "NO_ROW"
    BY <2>1, RowSet, RowIs
  <2>3. run' \in [Runner -> Runs \cup {NoRun}] /\ RunTruthful(r)' /\ \A q \in Runner \ {r} : run'[q] = run[q]
    BY Finished
  <2>4. \A q \in Runner : RunTruthful(q)'
    BY <2>2, <2>3, OthersStayTruthful
  <2>5. RefundsTypeOK'
    BY <2>1, <2>2, <2>3 DEF RefundsIInv, RefundsTypeOK, FinalDue
  <2>6. Misled' \/ EarlierEnded'
    BY <2>1, <2>2 DEF RefundsIInv, EarlierEnded, Ended, Misled
  <2>7. RefundedIsPaid' /\ TicketFirst'
    BY <1>1, <2>1, <2>2 DEF RefundsIInv, RefundedIsPaid, TicketFirst, Reopened
  <2> QED BY <1>1, <2>2, <2>4, <2>5, <2>6, <2>7 DEF RefundsIInv
<1> QED BY <1>2, <1>3

LEMMA RefundFailuresKeep ==
  ASSUME RefundsIInv, NEW r \in Runner, RefundRejected(r) \/ RefundFailed(r)
  PROVE  RefundsIInv'
<1>1. OfRefund(r) /\ FailRefund(run[r].id) /\ Finish(r) /\ UNCHANGED <<ticket, told, pawa>>
  BY HeardOfRefund DEF RefundRejected, RefundFailed, depositVars
<1>2. Ended(run[r].id)
  BY DEF RefundRejected, RefundFailed, RefundsIInv, RunTruthful, Ended
<1> QED BY <1>1, <1>2, FailRefundKeeps

LEMMA RefundCompletedKeeps == ASSUME RefundsIInv, NEW r \in Runner, RefundCompleted(r) PROVE RefundsIInv'
<1>1. /\ Finish(r) /\ UNCHANGED <<ticket, told, pawa, late>>
      /\ run[r].id \in Attempt /\ row.id # NoAttempt /\ row.status # "NO_ROW" /\ pawa[run[r].id] = "COMPLETED"
  BY RunIs, HeardOfRefund DEF RefundCompleted, RefundsIInv, RunTruthful, depositVars
<1>2. CASE row.status \notin OpenRefund
  <2>1. UNCHANGED <<row, due>>
    BY <1>2 DEF RefundCompleted
  <2> QED BY <1>1, <2>1, EndKeeps
<1>3. CASE row.status \in OpenRefund
  <2>1. SetRow("COMPLETED", row.sent) /\ due' = "REFUNDED"
    BY <1>3 DEF RefundCompleted
  <2>2. /\ row' \in [id : Attempt \cup {NoAttempt}, sent : {"NO", "RECENT", "STALE"},
                     status : {"NO_ROW", "COMPLETED", "FAILED"} \cup OpenRefund]
        /\ row'.id = row.id /\ row'.status # "NO_ROW"
    BY <2>1, RowSet, RowIs
  <2>3. run' \in [Runner -> Runs \cup {NoRun}] /\ RunTruthful(r)' /\ \A q \in Runner \ {r} : run'[q] = run[q]
    BY <1>1, Finished
  <2>4. \A q \in Runner : RunTruthful(q)'
    BY <1>1, <2>2, <2>3, OthersStayTruthful
  <2>5. RefundsTypeOK'
    BY <1>1, <2>1, <2>2, <2>3 DEF RefundsIInv, RefundsTypeOK, FinalDue
  <2>6. (Misled \/ EarlierEnded)' /\ RefundedIsPaid' /\ TicketFirst'
    BY <1>1, <2>1, <2>2, RowSet, RowIs DEF RefundsIInv, EarlierEnded, Ended, Misled, RefundedIsPaid, TicketFirst, Reopened
  <2> QED BY <1>1, <2>2, <2>4, <2>5, <2>6 DEF RefundsIInv
<1> QED BY <1>2, <1>3

\* The payment is written, by a check of its deposit or the worker.
LEMMA DueWritten ==
  ASSUME RefundsIInv, NEW r \in Runner, UNCHANGED <<told, row, pawa>>,
         run' \in [Runner -> Runs \cup {NoRun}], RunTruthful(r)', \A q \in Runner \ {r} : run'[q] = run[q],
         due' \in {"OPEN", "EXPIRED", "REVIEW_REQUIRED", "COMPLETED"},
         ticket' \in BOOLEAN, ticket' => told = "COMPLETED", late \subseteq late', late' \subseteq Late,
         due' = "REVIEW_REQUIRED" => ~Refunding \/ Misled',
         ~Reopened' => /\ due' = "OPEN" => row.id = NoAttempt
                       /\ ticket' => row.id = NoAttempt /\ due' \in {"COMPLETED", "EXPIRED"}
  PROVE  RefundsIInv'
<1>1. \A q \in Runner : RunTruthful(q)'
  BY OthersStayTruthful
<1>2. RefundsTypeOK'
  BY DEF RefundsIInv, RefundsTypeOK, FinalDue
<1>3. RefundedIsPaid' /\ TicketFirst'
  BY DEF RefundsIInv, RefundedIsPaid, TicketFirst
<1>4. Misled' \/ EarlierEnded'
  <2> SUFFICES ASSUME ~Misled' PROVE EarlierEnded'  OBVIOUS
  <2>1. EarlierEnded
    BY DEF RefundsIInv, Misled
  <2>2. due' = "REVIEW_REQUIRED" => row.id = NoAttempt \/ row.status = "FAILED"
    BY DEF RefundsIInv, RefundsTypeOK, Refunding, OpenRefund
  <2> QED BY <2>1, <2>2 DEF EarlierEnded, Ended
<1> QED BY <1>1, <1>2, <1>3, <1>4 DEF RefundsIInv

\* What a step adds to the history is one kind, under its condition.
LEMMA CrossesAdds ==
  ASSUME RefundsIInv, NEW k \in Late, NEW c \in BOOLEAN, Crosses(k, c)
  PROVE  late \subseteq late' /\ late' \subseteq Late /\ (c => k \in late') /\ (~c => late' = late)
BY DEF Crosses, RefundsIInv, RefundsTypeOK

LEMMA BeginDepositCheckKeeps == ASSUME RefundsIInv, NEW r \in Runner, BeginDepositCheck(r) PROVE RefundsIInv'
<1> DEFINE t == [op |-> "DEPOSIT", answer |-> told]
<1>1. t \in Runs /\ t.op = "DEPOSIT" /\ t.answer = told
  BY DEF RefundsIInv, RefundsTypeOK, Runs
<1>2. Take(r, t) /\ UNCHANGED <<due, ticket, told, row, pawa, late>>
  BY DEF BeginDepositCheck, depositVars
<1> HIDE DEF t
<1>3. run' \in [Runner -> Runs \cup {NoRun}] /\ run'[r] = t /\ \A q \in Runner \ {r} : run'[q] = run[q]
  BY <1>1, <1>2 DEF Take, RefundsIInv, RefundsTypeOK
<1>4. RunTruthful(r)'
  BY <1>1, <1>2, <1>3 DEF RunTruthful, OfRefund, Heard, InHand
<1> QED BY <1>2, <1>3, <1>4, RowIs, RowWritten

LEMMA DepositUnderWayKeeps == ASSUME RefundsIInv, NEW r \in Runner, DepositUnderWay(r) PROVE RefundsIInv'
<1>1. due' = "OPEN" /\ Crosses("OPENED", due # "OPEN") /\ UNCHANGED <<ticket, told, row, pawa>>
  BY DEF DepositUnderWay, depositVars
<1>2. late \subseteq late' /\ late' \subseteq Late /\ (due = "OPEN" \/ Reopened') /\ (Reopened => Reopened')
  BY <1>1, CrossesAdds DEF Late, Reopened
<1>3. run' \in [Runner -> Runs \cup {NoRun}] /\ RunTruthful(r)' /\ \A q \in Runner \ {r} : run'[q] = run[q]
  <2>1. CASE Finish(r)
    BY <2>1, Finished
  <2>2. CASE Take(r, [op |-> "EXPIRE"])
    <3>1. /\ run' \in [Runner -> Runs \cup {NoRun}] /\ run'[r] = [op |-> "EXPIRE"]
          /\ \A q \in Runner \ {r} : run'[q] = run[q]
      BY <2>2 DEF Take, Runs, RefundsIInv, RefundsTypeOK
    <3> QED BY <3>1 DEF RunTruthful, OfRefund, Heard, InHand
  <2> QED BY <2>1, <2>2 DEF DepositUnderWay
<1>4. ~Reopened' => row.id = NoAttempt /\ ~ticket
  BY <1>2 DEF RefundsIInv, TicketFirst
<1>5. ticket \in BOOLEAN /\ (ticket => told = "COMPLETED")
  BY DEF RefundsIInv, RefundsTypeOK, TicketFirst
<1> QED BY <1>1, <1>2, <1>3, <1>4, <1>5, DueWritten

LEMMA ExpirePaymentKeeps == ASSUME RefundsIInv, NEW r \in Runner, ExpirePayment(r) PROVE RefundsIInv'
<1>1. due' = "EXPIRED" /\ Finish(r) /\ UNCHANGED <<ticket, told, row, pawa, late>>
  BY DEF ExpirePayment, depositVars
<1>2. ticket \in BOOLEAN /\ (ticket => told = "COMPLETED") /\ late \subseteq Late
      /\ (~Reopened /\ ticket => row.id = NoAttempt) /\ (Reopened' <=> Reopened)
  BY <1>1 DEF RefundsIInv, RefundsTypeOK, TicketFirst, Reopened
<1> QED BY <1>1, <1>2, Finished, DueWritten

\* A payment is put to review when it has no ticket, unless it was opened again.
LEMMA PutToReviewKeeps ==
  ASSUME RefundsIInv, NEW r \in Runner, PutToReview, Finish(r), UNCHANGED <<told, row, pawa>>,
         told = "MISMATCH" \/ due \notin FinalDue
  PROVE  RefundsIInv'
<1>1. due' = "REVIEW_REQUIRED" /\ Crosses("REVIEWED", Refunding) /\ UNCHANGED ticket
  BY DEF PutToReview
<1>2. Refunding \in BOOLEAN
  BY DEF Refunding
<1>3. late \subseteq late' /\ late' \subseteq Late /\ (~Refunding \/ Misled') /\ (Reopened => Reopened')
  BY <1>1, <1>2, CrossesAdds DEF Late, Misled, Reopened
<1>4. ticket \in BOOLEAN /\ (ticket => told = "COMPLETED") /\ (ticket => Reopened)
  BY DEF RefundsIInv, RefundsTypeOK, TicketFirst, FinalDue
<1> QED BY <1>1, <1>3, <1>4, Finished, DueWritten

LEMMA DepositMismatchKeeps == ASSUME RefundsIInv, NEW r \in Runner, DepositMismatch(r) PROVE RefundsIInv'
<1>1. told = "MISMATCH"
  BY DEF DepositMismatch, RefundsIInv, RunTruthful
<1> QED BY <1>1, PutToReviewKeeps DEF DepositMismatch

LEMMA FulfilDepositKeeps == ASSUME RefundsIInv, NEW r \in Runner, FulfilDeposit(r) PROVE RefundsIInv'
<1>1. told = "COMPLETED" /\ Finish(r) /\ UNCHANGED <<told, row, pawa>>
  BY DEF FulfilDeposit, RefundsIInv, RunTruthful
<1>2. CASE UNCHANGED <<due, ticket, late>>
  BY <1>1, <1>2, EndKeeps
<1>3. CASE due \notin FinalDue /\ PutToReview
  BY <1>1, <1>3, PutToReviewKeeps
<1>4. CASE due \notin FinalDue /\ GiveTicket
  <2>1. ticket' = TRUE /\ due' = "COMPLETED" /\ Crosses("TICKETED", Refunding) /\ Refunding \in BOOLEAN
    BY <1>4 DEF GiveTicket, Refunding
  <2>2. late \subseteq late' /\ late' \subseteq Late /\ (~Refunding \/ Reopened') /\ (Reopened => Reopened')
    BY <2>1, CrossesAdds DEF Late, Reopened
  <2>3. due \in {"OPEN", "REFUND_PENDING"}
    BY <1>4 DEF RefundsIInv, RefundsTypeOK
  <2>4. ~Reopened' => row.id = NoAttempt
    BY <2>2, <2>3 DEF RefundsIInv, TicketFirst, Refunding, OpenRefund
  <2> QED BY <1>1, <2>1, <2>2, <2>4, Finished, DueWritten
<1> QED BY <1>2, <1>3, <1>4 DEF FulfilDeposit

LEMMA RefundSettlesKeeps == ASSUME RefundsIInv, NEW a \in Attempt, RefundSettles(a) PROVE RefundsIInv'
<1>1. PICK s \in {"COMPLETED", "FAILED"} : pawa' = [pawa EXCEPT ![a] = s]
  BY DEF RefundSettles
<1>2. pawa[a] = "IN_PROGRESS" /\ UNCHANGED <<due, ticket, told, row, run, late>>
  BY DEF RefundSettles, depositVars
<1>3. pawa'[a] = s /\ \A b \in Attempt \ {a} : pawa'[b] = pawa[b]
  BY <1>1 DEF RefundsIInv, RefundsTypeOK
<1>4. RefundsTypeOK'
  BY <1>1, <1>2 DEF RefundsIInv, RefundsTypeOK, Accepted
<1>5. \A q \in Runner : RunTruthful(q)'
  <2> SUFFICES ASSUME NEW q \in Runner PROVE RunTruthful(q)'  OBVIOUS
  <2>1. RunTruthful(q) /\ (OfRefund(q) => run[q].id \in Attempt)
    BY RunIs DEF RefundsIInv
  <2>2. (OfRefund(q)' <=> OfRefund(q)) /\ \A op, o : Heard(q, op, o)' <=> Heard(q, op, o)
    BY <1>2 DEF OfRefund, Heard, InHand
  <2> QED BY <1>2, <1>3, <2>1, <2>2, HeardOfRefund DEF RunTruthful
<1>6. (Misled \/ EarlierEnded)' /\ RefundedIsPaid'
  BY <1>2, <1>3 DEF RefundsIInv, RefundsTypeOK, EarlierEnded, Ended, RefundedIsPaid, Misled
<1>7. (row.id # NoAttempt => pawa[row.id] # "UNUSED")' /\ TicketFirst'
  BY <1>2, <1>3 DEF RefundsIInv, RefundsTypeOK, TicketFirst, Reopened
<1> QED BY <1>2, <1>4, <1>5, <1>6, <1>7 DEF RefundsIInv

\* The deposit is confirmed, a submission gets older, or nothing changes.
LEMMA RestKeeps ==
  ASSUME RefundsIInv, DepositConfirmed \/ RefundAges \/ UNCHANGED refundVars
  PROVE  RefundsIInv'
<1>1. /\ UNCHANGED <<due, ticket, pawa, run, late>> /\ (UNCHANGED row \/ SetRow(row.status, "STALE"))
      /\ told' = told \/ (told = "IN_PROGRESS" /\ told' = "COMPLETED")
  BY DEF DepositConfirmed, RefundAges, refundVars, depositVars
<1>2. row'.id = row.id /\ row'.status = row.status /\ row' \in [id : Attempt \cup {NoAttempt},
        sent : {"NO", "RECENT", "STALE"}, status : {"NO_ROW", "COMPLETED", "FAILED"} \cup OpenRefund]
  BY <1>1, RowIs DEF SetRow
<1>3. \A q \in Runner : RunTruthful(q)'
  <2> SUFFICES ASSUME NEW q \in Runner PROVE RunTruthful(q)'  OBVIOUS
  <2>1. RunTruthful(q)
    BY DEF RefundsIInv
  <2>2. (OfRefund(q)' <=> OfRefund(q)) /\ \A op, o : Heard(q, op, o)' <=> Heard(q, op, o)
    BY <1>1 DEF OfRefund, Heard, InHand
  <2> QED BY <1>1, <1>2, <2>1, <2>2 DEF RunTruthful
<1>4. RefundsTypeOK' /\ EarlierEnded' = EarlierEnded /\ RefundedIsPaid' = RefundedIsPaid /\ Misled' = Misled
  BY <1>1, <1>2 DEF RefundsIInv, RefundsTypeOK, EarlierEnded, Ended, RefundedIsPaid, Misled, Deposits
<1>5. TicketFirst'
  BY <1>1, <1>2 DEF RefundsIInv, TicketFirst, Reopened
<1> QED BY <1>1, <1>2, <1>3, <1>4, <1>5 DEF RefundsIInv

LEMMA RefundsNextInvariant == RefundsIInv /\ [RefundsNext]_refundVars => RefundsIInv'
<1> SUFFICES ASSUME RefundsIInv, [RefundsNext]_refundVars PROVE RefundsIInv'  OBVIOUS
<1>1. ASSUME NEW a \in Attempt, RequestRefund(a) \/ RefundSettles(a) PROVE RefundsIInv'
  BY <1>1, RequestRefundKeeps, RefundSettlesKeeps
<1>2. ASSUME NEW r \in Runner, SendNext(r) PROVE RefundsIInv'
  BY <1>2, ListRefundKeeps, ClaimRefundKeeps, SendRefundKeeps, RowWritersKeep, RefundFailuresKeep DEF SendNext
<1>3. ASSUME NEW r \in Runner, DepositNext(r) PROVE RefundsIInv'
  BY <1>3, BeginDepositCheckKeeps, DepositUnderWayKeeps, ExpirePaymentKeeps, DepositMismatchKeeps,
     FulfilDepositKeeps DEF DepositNext
<1>4. ASSUME NEW r \in Runner, CheckNext(r) \/ RunStops(r) PROVE RefundsIInv'
  BY <1>4, BeginRefundCheckKeeps, AskRefundKeeps, RowWritersKeep, RefundCompletedKeeps, RefundFailuresKeep DEF CheckNext
<1> QED BY <1>1, <1>2, <1>3, <1>4, RestKeeps DEF RefundsNext

\* For any number of attempts, overlapping passes, callbacks and checks of the deposit: the payer
\* is paid back once and the console offers a refund only while nothing is on its way, unless a
\* failure was written over a later attempt or the deposit's check put the payment to review over
\* its refund; a payment shown refunded was paid back; and nobody gets the ticket and the money
\* unless the deposit's check gave the ticket over a refund or opened the payment again
\* (submitRefund, reconcileTicketRefund, failRefund, refundTicketPayment, reconcile, fulfil).
THEOREM RefundsAlwaysHold == RefundsSpec => []RefundsHold
<1>1. ASSUME RefundsIInv PROVE RefundsHold
  <2>1. Misled \/ \A a \in Attempt : a # row.id => ~PaysBack(a)
    BY <1>1 DEF RefundsIInv, EarlierEnded, Ended, PaysBack
  <2>2. PaidBackOnce
    BY <2>1 DEF PaidBackOnce
  <2>3. ReviewIsSafe
    BY <1>1, <2>1 DEF ReviewIsSafe, RefundsIInv, EarlierEnded, Ended, PaysBack, TicketFirst
  <2>4. TicketOrMoney
    BY <1>1 DEF TicketOrMoney, RefundsIInv, TicketFirst, PaysBack
  <2> QED BY <1>1, <2>2, <2>3, <2>4 DEF RefundsHold, RefundsIInv
<1> QED BY <1>1, RefundsInitInvariant, RefundsNextInvariant, PTL DEF RefundsSpec

=============================================================================
