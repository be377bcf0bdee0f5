---------------------- MODULE RegistrationJobs_proofs ----------------------
(***************************************************************************)
(* Proofs about RegistrationJobs, for any registrations, capacity, quota   *)
(* and number of attempts, and any number of workers whose leases may run  *)
(* out at any time. The inductive invariant IInv is stated in the module.  *)
(***************************************************************************)
EXTENDS RegistrationJobs, FiniteSetTheorems, TLAPS

-----------------------------------------------------------------------------
(* Types *)

\* enqueue keeps the queue well formed, and no job that was active is lost.
LEMMA EnqueueKeeps ==
    ASSUME TypeOK, NEW r \in Registration, NEW t \in Types, Enqueue(r, t)
    PROVE  /\ job' \in [Registration -> [Types -> Rows]]
           /\ \A q \in Registration, u \in Types :
                <<q, u>> # <<r, t>> => job'[q][u] = job[q][u]
<1>1. NewJob \in Rows
  <2>1. 0 \in 0 .. MaxAttempts
      BY JobConstantsOK
  <2>2. NoJob \in Rows
      BY <2>1 DEF NoJob, Rows
  <2> QED BY <2>2 DEF NewJob, Rows
<1> QED BY <1>1 DEF TypeOK, Enqueue

\* A worker at work has a task, of a registration and a type.
LEMMA TaskOfWorker ==
    ASSUME TypeOK, NEW w \in Worker, task[w] # NoTask
    PROVE  /\ task[w] \in Tasks
           /\ task[w].reg \in Registration
           /\ task[w].type \in Types
           /\ task[w].attempts \in 0 .. MaxAttempts
BY DEF TypeOK, Tasks

\* Moving a worker to another step keeps its task well formed.
LEMMA GotoKeeps ==
    ASSUME TypeOK, NEW w \in Worker, task[w] # NoTask, NEW s \in Steps, Goto(w, s)
    PROVE  /\ task' \in [Worker -> Tasks \cup {NoTask}]
           /\ \A v \in Worker : v # w => task'[v] = task[v]
           /\ task'[w] # NoTask
           /\ task'[w].reg = task[w].reg
           /\ task'[w].type = task[w].type
           /\ task'[w].step = s
<1>1. task[w] \in Tasks
    BY TaskOfWorker
<1>2. task'[w] = [task[w] EXCEPT !.step = s]
    BY DEF TypeOK, Goto
<1>3. task'[w] \in Tasks
    BY <1>1, <1>2 DEF Tasks
<1> QED BY <1>1, <1>2, <1>3, JobConstantsOK DEF TypeOK, Goto, Tasks

LEMMA GiveUpKeeps ==
    ASSUME TypeOK, NEW w \in Worker, task[w] # NoTask, NEW b \in BOOLEAN, GiveUp(w, b)
    PROVE  /\ task' \in [Worker -> Tasks \cup {NoTask}]
           /\ \A v \in Worker : v # w => task'[v] = task[v]
           /\ task'[w] # NoTask
           /\ task'[w].reg = task[w].reg
           /\ task'[w].type = task[w].type
           /\ task'[w].step = "FAILING"
<1>1. task[w] \in Tasks
    BY TaskOfWorker
<1>2. task'[w] = [task[w] EXCEPT !.step = "FAILING", !.terminal = b]
    BY DEF TypeOK, GiveUp
<1>3. task'[w] \in Tasks
    BY <1>1, <1>2 DEF Tasks, Steps
<1> QED BY <1>1, <1>2, <1>3, JobConstantsOK DEF TypeOK, GiveUp, Tasks

\* The rows that claimNext, complete and fail write are well formed.
LEMMA RowsKept ==
    ASSUME TypeOK, NEW r \in Registration, NEW t \in Types, NEW row \in Rows
    PROVE  [job EXCEPT ![r][t] = row] \in [Registration -> [Types -> Rows]]
BY DEF TypeOK

LEMMA NewRows ==
    ASSUME NEW n \in 0 .. MaxAttempts
    PROVE  NoJob \in Rows /\ [NewJob EXCEPT !.attempts = n] \in Rows
<1>1. 0 \in 0 .. MaxAttempts
    BY JobConstantsOK
<1> QED BY <1>1 DEF NoJob, NewJob, Rows

\* Every step keeps the types.
LEMMA TypeInductive == TypeOK /\ [Next]_vars => TypeOK'
<1> SUFFICES ASSUME TypeOK, [Next]_vars
             PROVE  TypeOK'
    OBVIOUS
<1>1. ASSUME NEW r \in Registration, Submit(r) \/ Retry(r) \/ QueueRecovery(r)
      PROVE  TypeOK'
  <2>1. job' \in [Registration -> [Types -> Rows]]
      BY <1>1, EnqueueKeeps DEF Submit, Retry, RetryIssuance, RetryEmail, QueueRecovery, Types
  <2> QED BY <1>1, <2>1 DEF TypeOK, Submit, Retry, RetryIssuance, RetryEmail, QueueRecovery,
                            Statuses, IssuanceStatuses
<1>2. ASSUME NEW r \in Registration, NEW t \in Types, LeaseExpires(r, t)
      PROVE  TypeOK'
  <2>0. job[r][t] \in Rows
      BY DEF TypeOK
  <2>1. [job[r][t] EXCEPT !.expired = TRUE] \in Rows
      BY <2>0 DEF Rows
  <2>2. job' = [job EXCEPT ![r][t] = [job[r][t] EXCEPT !.expired = TRUE]]
      BY <1>2 DEF LeaseExpires
  <2> QED BY <1>2, <2>1, <2>2, RowsKept DEF TypeOK, LeaseExpires
<1>3. ASSUME NEW w \in Worker, NEW r \in Registration, NEW t \in Types, ClaimNext(w, r, t)
      PROVE  TypeOK'
  <2> DEFINE n == IF job[r][t].attempts < MaxAttempts THEN job[r][t].attempts + 1 ELSE MaxAttempts
             row == [status |-> "PROCESSING", attempts |-> n, by |-> w, expired |-> FALSE]
             tsk == [reg |-> r, type |-> t, attempts |-> n, step |-> "CLAIMED", terminal |-> FALSE]
  <2>1. job[r][t].attempts \in 0 .. MaxAttempts
      BY DEF TypeOK, Rows
  <2>2. n \in 0 .. MaxAttempts
      BY <2>1, JobConstantsOK
  <2>3. row \in Rows /\ tsk \in Tasks
      BY <2>2 DEF Rows, Tasks, Steps
  <2>4. job' = [job EXCEPT ![r][t] = row] /\ task' = [task EXCEPT ![w] = tsk]
      BY <1>3 DEF ClaimNext
  <2>5. job' \in [Registration -> [Types -> Rows]]
      BY <2>3, <2>4, RowsKept
  <2>6. task' \in [Worker -> Tasks \cup {NoTask}]
      BY <2>3, <2>4 DEF TypeOK
  <2> QED BY <1>3, <2>5, <2>6 DEF TypeOK, ClaimNext
<1>4. ASSUME NEW w \in Worker, Progress(w) \/ TaskErrors(w) \/ TaskStops(w)
      PROVE  TypeOK'
  <2>1. CASE Complete(w) \/ Fail(w) \/ TaskStops(w)
    <3>1. task[w].reg \in Registration /\ task[w].type \in Types
        BY <2>1, TaskOfWorker DEF Complete, Fail, TaskStops
    <3>2. job[task[w].reg][task[w].type].attempts \in 0 .. MaxAttempts
        BY <3>1 DEF TypeOK, Rows
    <3>3. ASSUME NEW row \in Rows,
                 job' = job \/ job' = [job EXCEPT ![task[w].reg][task[w].type] = row]
          PROVE  job' \in [Registration -> [Types -> Rows]]
      <4>1. [job EXCEPT ![task[w].reg][task[w].type] = row] \in [Registration -> [Types -> Rows]]
          BY <3>1, RowsKept
      <4> QED BY <3>3, <4>1 DEF TypeOK
    <3>6. NoJob \in Rows
          /\ [NewJob EXCEPT !.attempts = job[task[w].reg][task[w].type].attempts] \in Rows
        BY <3>2, NewRows
    <3>7. ASSUME Complete(w) \/ TaskStops(w)
          PROVE  job' \in [Registration -> [Types -> Rows]]
      <4>1. job' = job \/ job' = [job EXCEPT ![task[w].reg][task[w].type] = NoJob]
          BY <3>7 DEF Complete, TaskStops
      <4> QED BY <3>3, <3>6, <4>1
    <3>8. ASSUME Fail(w)
          PROVE  job' \in [Registration -> [Types -> Rows]]
      <4>1. \/ job' = job
            \/ job' = [job EXCEPT ![task[w].reg][task[w].type] = NoJob]
            \/ job' = [job EXCEPT ![task[w].reg][task[w].type] =
                        [NewJob EXCEPT !.attempts = job[task[w].reg][task[w].type].attempts]]
          BY <3>8 DEF Fail
      <4> QED BY <3>3, <3>6, <4>1
    <3>9. job' \in [Registration -> [Types -> Rows]]
        BY <2>1, <3>7, <3>8
    <3>4. task' = [task EXCEPT ![w] = NoTask]
        BY <2>1 DEF Complete, Fail, TaskStops
    <3>5. UNCHANGED <<status, issuance, held, linked, email, passes>>
        BY <2>1 DEF Complete, Fail, TaskStops
    <3> QED BY <3>4, <3>5, <3>9 DEF TypeOK
  <2>2. CASE TaskErrors(w)
      BY <2>2, GotoKeeps DEF TaskErrors, TypeOK, Steps
  <2>3. CASE ProcessIssuePass(w)
    <3>1. task[w] # NoTask
        BY <2>3 DEF ProcessIssuePass, LoadRegistration, EnsureEmail, StartIssuance, IssuePass,
                    IssueBlocked, RecordPass, ReleaseBlocked, HandleIssueError, At
    <3>2. task[w].reg \in Registration
        BY <3>1, TaskOfWorker
    <3>3. CASE LoadRegistration(w) \/ IssueBlocked(w)
        BY <3>1, <3>3, GotoKeeps DEF LoadRegistration, IssueBlocked, TypeOK, Steps
    <3>4. CASE EnsureEmail(w)
        BY <3>1, <3>2, <3>4, GotoKeeps, EnqueueKeeps DEF EnsureEmail, TypeOK, Steps, Types
    <3>5. CASE StartIssuance(w)
        BY <3>1, <3>2, <3>5, GotoKeeps DEF StartIssuance, TypeOK, Steps, IssuanceStatuses
    <3>6. CASE IssuePass(w)
      <4>1. passes' \in [Registration -> Nat]
          BY <3>2, <3>6 DEF IssuePass, TypeOK
      <4> QED BY <3>1, <3>6, <4>1, GotoKeeps DEF IssuePass, TypeOK, Steps
    <3>7. CASE RecordPass(w)
      <4>1. job' \in [Registration -> [Types -> Rows]]
          BY <3>2, <3>7, EnqueueKeeps DEF RecordPass, Types
      <4>2. task' \in [Worker -> Tasks \cup {NoTask}]
          BY <3>1, <3>7, GotoKeeps DEF RecordPass, Steps
      <4> QED BY <3>2, <3>7, <4>1, <4>2 DEF RecordPass, TypeOK, Statuses, IssuanceStatuses
    <3>8. CASE ReleaseBlocked(w) \/ HandleIssueError(w)
      <4>0. Terminal(w) \in BOOLEAN
          BY DEF Terminal
      <4>1. task' \in [Worker -> Tasks \cup {NoTask}]
          BY <3>1, <3>8, <4>0, GiveUpKeeps DEF ReleaseBlocked, HandleIssueError
      <4> QED BY <3>2, <3>8, <4>1 DEF ReleaseBlocked, HandleIssueError, ReleaseFailedRegistration,
                                      TypeOK, Statuses, IssuanceStatuses
    <3> QED BY <2>3, <3>3, <3>4, <3>5, <3>6, <3>7, <3>8 DEF ProcessIssuePass
  <2>4. CASE ProcessEmail(w)
    <3>1. task[w] # NoTask
        BY <2>4 DEF ProcessEmail, SendEmail, RecordEmail, HandleEmailError, At
    <3>0. Terminal(w) \in BOOLEAN
        BY DEF Terminal
    <3>2. task' \in [Worker -> Tasks \cup {NoTask}]
      <4> DEFINE Kept == task' \in [Worker -> Tasks \cup {NoTask}]
      <4>1. ASSUME SendEmail(w) PROVE Kept
          BY <3>1, <4>1, GotoKeeps, GiveUpKeeps DEF SendEmail, Steps
      <4>2. ASSUME RecordEmail(w) PROVE Kept
          BY <3>1, <4>2, GotoKeeps DEF RecordEmail, Steps
      <4>3. ASSUME HandleEmailError(w) PROVE Kept
          BY <3>0, <3>1, <4>3, GiveUpKeeps DEF HandleEmailError
      <4> QED BY <2>4, <4>1, <4>2, <4>3 DEF ProcessEmail
    <3>3. email' \in [Registration -> {"PENDING", "ACCEPTED", "FAILED"}]
        BY <2>4 DEF ProcessEmail, SendEmail, RecordEmail, HandleEmailError, TypeOK
    <3> QED BY <2>4, <3>2, <3>3 DEF ProcessEmail, SendEmail, RecordEmail, HandleEmailError, TypeOK
  <2> QED BY <1>4, <2>1, <2>2, <2>3, <2>4 DEF Progress
<1>5. CASE UNCHANGED vars
    BY <1>5 DEF vars, TypeOK
<1> QED BY <1>1, <1>2, <1>3, <1>4, <1>5 DEF Next

\* The first states are well formed.
LEMMA TypeInit == Init => TypeOK
<1>1. 0 \in 0 .. MaxAttempts
    BY JobConstantsOK
<1>2. NoJob \in Rows
    BY <1>1 DEF NoJob, Rows
<1> QED BY <1>2 DEF Init, TypeOK, Statuses, IssuanceStatuses

\* The specification keeps its types, whatever the leases do.
THEOREM TypeCorrect == Spec => []TypeOK
<1> QED BY TypeInit, TypeInductive, PTL DEF Spec

-----------------------------------------------------------------------------
(* Places and passes *)

\* A registration that has a place, or takes one that is left, keeps the bound.
LEMMA TakePlace ==
    ASSUME TypeOK, PlacesFit, NEW r \in Registration, held[r] \/ ~SoldOut,
           held' = [held EXCEPT ![r] = TRUE]
    PROVE  PlacesFit'
<1>1. IsFiniteSet(Holders)
    BY FS_Subset, JobConstantsOK DEF Holders
<1>2. Holders' = Holders \cup {r}
    BY DEF TypeOK, Holders
<1>3. Cardinality(Holders) \in Nat
    BY <1>1, FS_CardinalityType
<1>4. Cardinality(Holders \cup {r}) =
        IF r \in Holders THEN Cardinality(Holders) ELSE Cardinality(Holders) + 1
    BY <1>1, FS_AddElement
<1>5. CASE held[r]
    BY <1>2, <1>4, <1>5 DEF Holders, PlacesFit
<1>6. CASE ~SoldOut
    BY <1>2, <1>3, <1>4, <1>6, JobConstantsOK DEF SoldOut, PlacesFit
<1> QED BY <1>5, <1>6

\* A place given back leaves no more holders than before.
LEMMA ReleasePlace ==
    ASSUME TypeOK, PlacesFit, NEW r \in Registration, held' = [held EXCEPT ![r] = FALSE]
    PROVE  PlacesFit'
<1>1. IsFiniteSet(Holders)
    BY FS_Subset, JobConstantsOK DEF Holders
<1>2. Holders' \subseteq Holders
    BY DEF TypeOK, Holders
<1>3. /\ Cardinality(Holders) \in Nat
      /\ Cardinality(Holders') \in Nat
      /\ Cardinality(Holders') <= Cardinality(Holders)
    BY <1>1, <1>2, FS_Subset, FS_CardinalityType
<1> QED BY <1>3, JobConstantsOK DEF PlacesFit

LEMMA PlacesInductive == TypeOK /\ PlacesFit /\ [Next]_vars => PlacesFit'
<1> SUFFICES ASSUME TypeOK, PlacesFit, [Next]_vars
             PROVE  PlacesFit'
    OBVIOUS
<1>1. CASE held' = held
    BY <1>1 DEF PlacesFit, Holders
<1>2. ASSUME NEW r \in Registration, Submit(r) \/ RetryIssuance(r), held' # held
      PROVE  PlacesFit'
  <2>1. (held[r] \/ ~SoldOut) /\ held' = [held EXCEPT ![r] = TRUE]
      BY <1>2 DEF Submit, RetryIssuance
  <2> QED BY <2>1, TakePlace
<1>3. ASSUME NEW w \in Worker, ProcessIssuePass(w), held' # held
      PROVE  PlacesFit'
  <2>1. task[w] # NoTask /\ held' = [held EXCEPT ![task[w].reg] = FALSE]
      BY <1>3 DEF ProcessIssuePass, LoadRegistration, EnsureEmail, StartIssuance, IssuePass,
                  IssueBlocked, RecordPass, ReleaseBlocked, HandleIssueError,
                  ReleaseFailedRegistration, At
  <2> QED BY <2>1, TaskOfWorker, ReleasePlace
<1>4. ASSUME held' # held
      PROVE  \/ \E r \in Registration : Submit(r) \/ RetryIssuance(r)
             \/ \E w \in Worker : ProcessIssuePass(w)
    BY <1>4 DEF Next, vars, Retry, RetryEmail, QueueRecovery, LeaseExpires, ClaimNext,
                Progress, ProcessEmail, SendEmail, RecordEmail, HandleEmailError,
                Complete, Fail, TaskErrors, TaskStops
<1> QED BY <1>1, <1>2, <1>3, <1>4

LEMMA PassesInductive == TypeOK /\ PassesSound /\ [Next]_vars => PassesSound'
<1> SUFFICES ASSUME TypeOK, PassesSound, [Next]_vars
             PROVE  PassesSound'
    OBVIOUS
<1>1. CASE passes' = passes
    BY <1>1 DEF PassesSound, Issued
<1>2. ASSUME NEW w \in Worker, IssuePass(w), passes' # passes
      PROVE  PassesSound'
  <2> DEFINE r == task[w].reg
  <2>1. r \in Registration
      BY <1>2, TaskOfWorker DEF IssuePass, At
  <2>2. ~AlreadyIssued(r) /\ ~QuotaReached /\ passes' = [passes EXCEPT ![r] = @ + 1]
      BY <1>2 DEF IssuePass
  <2>3. passes[r] = 0
      BY <2>1, <2>2 DEF AlreadyIssued, TypeOK
  <2>4. \A q \in Registration : passes'[q] <= 1
      BY <2>1, <2>2, <2>3 DEF TypeOK, PassesSound
  <2>5. IsFiniteSet(Issued)
      BY FS_Subset, JobConstantsOK DEF Issued
  <2>6. Issued' = Issued \cup {r} /\ r \notin Issued
      BY <2>1, <2>2, <2>3 DEF TypeOK, Issued
  <2>7. Cardinality(Issued') = Cardinality(Issued) + 1
      BY <2>5, <2>6, FS_AddElement
  <2>8. Cardinality(Issued) \in Nat
      BY <2>5, FS_CardinalityType
  <2>9. Cardinality(Issued') <= QrLimit
      BY <2>2, <2>7, <2>8, JobConstantsOK DEF QuotaReached
  <2> QED BY <2>4, <2>9 DEF PassesSound
<1>3. ASSUME passes' # passes
      PROVE  \E w \in Worker : IssuePass(w)
    BY <1>3 DEF Next, vars, Submit, Retry, RetryIssuance, RetryEmail, QueueRecovery,
                LeaseExpires, ClaimNext, Progress, ProcessIssuePass, LoadRegistration,
                EnsureEmail, StartIssuance, IssueBlocked, RecordPass, ReleaseBlocked,
                HandleIssueError, ProcessEmail, SendEmail, RecordEmail, HandleEmailError,
                Complete, Fail, TaskErrors, TaskStops
<1> QED BY <1>1, <1>2, <1>3

-----------------------------------------------------------------------------
(* Rows, jobs and tasks *)

\* What a worker may have read of a registration stays true: it exists, its pass is
\* recorded, its pass is created.
LEMMA RegistrationsGrow ==
    ASSUME TypeOK, PassesSound, [Next]_vars, NEW r \in Registration
    PROVE  /\ status[r] # "NO_ROW" => status'[r] # "NO_ROW"
           /\ linked[r] => linked'[r]
           /\ passes[r] = 1 => passes'[r] = 1
<1>1. ASSUME NEW q \in Registration, Submit(q) \/ Retry(q) \/ QueueRecovery(q)
      PROVE  /\ status[r] # "NO_ROW" => status'[r] # "NO_ROW"
             /\ linked' = linked /\ passes' = passes
    BY <1>1 DEF TypeOK, Submit, Retry, RetryIssuance, RetryEmail, QueueRecovery
<1>2. ASSUME NEW w \in Worker, ProcessIssuePass(w)
      PROVE  /\ status[r] # "NO_ROW" => status'[r] # "NO_ROW"
             /\ linked[r] => linked'[r]
             /\ passes[r] = 1 => passes'[r] = 1
  <2>1. ASSUME RecordPass(w) \/ ReleaseBlocked(w) \/ HandleIssueError(w)
        PROVE  /\ status[r] # "NO_ROW" => status'[r] # "NO_ROW"
               /\ linked[r] => linked'[r]
               /\ passes' = passes
      BY <2>1 DEF TypeOK, RecordPass, ReleaseBlocked, HandleIssueError, ReleaseFailedRegistration
  <2>2. ASSUME IssuePass(w)
        PROVE  /\ status' = status /\ linked' = linked
               /\ passes[r] = 1 => passes'[r] = 1
      BY <2>2 DEF TypeOK, IssuePass, AlreadyIssued
  <2>3. ASSUME LoadRegistration(w) \/ EnsureEmail(w) \/ StartIssuance(w) \/ IssueBlocked(w)
        PROVE  UNCHANGED <<status, linked, passes>>
      BY <2>3 DEF LoadRegistration, EnsureEmail, StartIssuance, IssueBlocked
  <2> QED BY <1>2, <2>1, <2>2, <2>3 DEF ProcessIssuePass
<1>3. CASE UNCHANGED <<status, linked, passes>>
    BY <1>3
<1>4. ASSUME ~UNCHANGED <<status, linked, passes>>
      PROVE  \/ \E q \in Registration : Submit(q) \/ Retry(q) \/ QueueRecovery(q)
             \/ \E w \in Worker : ProcessIssuePass(w)
    BY <1>4 DEF Next, vars, LeaseExpires, ClaimNext, Progress, ProcessEmail, SendEmail,
                RecordEmail, HandleEmailError, Complete, Fail, TaskErrors, TaskStops
<1> QED BY <1>1, <1>2, <1>3, <1>4

\* Only enqueue makes a job active.
LEMMA NoOtherJobs ==
    ASSUME TypeOK, NEW w \in Worker, NEW r \in Registration, NEW t \in Types,
           \/ LeaseExpires(r, t) \/ ClaimNext(w, r, t)
           \/ Complete(w) \/ Fail(w) \/ TaskStops(w)
    PROVE  \A q \in Registration, u \in Types : Active(q, u)' => Active(q, u)
<1> SUFFICES ASSUME NEW q \in Registration, NEW u \in Types, Active(q, u)'
             PROVE  Active(q, u)
    OBVIOUS
<1>1. CASE LeaseExpires(r, t)
    BY <1>1 DEF LeaseExpires, Active, TypeOK, Rows
<1>2. CASE ClaimNext(w, r, t)
    BY <1>2 DEF ClaimNext, Active, TypeOK, Rows
<1>3. CASE Complete(w)
  <2>1. \/ job' = job
        \/ job' = [job EXCEPT ![task[w].reg][task[w].type] = NoJob]
      BY <1>3 DEF Complete
  <2>2. NoJob.status = "NONE"
      BY DEF NoJob
  <2> QED BY <2>1, <2>2 DEF Active, TypeOK
<1>5. CASE TaskStops(w)
    BY <1>5 DEF TaskStops, Active
<1>4. CASE Fail(w)
    BY <1>4, TaskOfWorker DEF Fail, Locked, Active, TypeOK, Rows
<1> QED BY <1>1, <1>2, <1>3, <1>4, <1>5

\* A job that enqueue made active is the one it was asked for.
LEMMA EnqueuedOnly ==
    ASSUME TypeOK, NEW r \in Registration, NEW t \in Types, Enqueue(r, t),
           NEW q \in Registration, NEW u \in Types, Active(q, u)'
    PROVE  Active(q, u) \/ (q = r /\ u = t)
BY EnqueueKeeps DEF Active

\* Each worker's task stays one it may have.
LEMMA TasksInductive ==
    ASSUME IInv, [Next]_vars, NEW w \in Worker
    PROVE  TaskConsistent(w)'
<1> USE DEF IInv
<1>1. CASE task'[w] = task[w]
  <2>1. task[w] # NoTask => task[w].reg \in Registration
      BY TaskOfWorker
  <2> QED BY <1>1, <2>1, RegistrationsGrow DEF TaskConsistent, At
<1>2. ASSUME NEW r \in Registration, NEW t \in Types, ClaimNext(w, r, t)
      PROVE  TaskConsistent(w)'
  <2>1. Active(r, t)
      BY <1>2 DEF ClaimNext, Active
  <2>2. /\ task'[w].reg = r /\ task'[w].type = t /\ task'[w].step = "CLAIMED"
        /\ UNCHANGED <<status, linked, passes>>
      BY <1>2 DEF ClaimNext, TypeOK
  <2>3. status[r] # "NO_ROW" /\ (t = "SEND_PASS_EMAIL" => linked[r])
      BY <2>1 DEF RowConsistent
  <2> QED BY <2>2, <2>3 DEF TaskConsistent, At
<1>3. ASSUME Complete(w) \/ Fail(w) \/ TaskStops(w)
      PROVE  TaskConsistent(w)'
    BY <1>3 DEF Complete, Fail, TaskStops, TaskConsistent, TypeOK
<1>4. ASSUME NEW s \in Steps, task[w] # NoTask, Goto(w, s),
             s = "REPLAYED" => linked[task[w].reg],
             s = "ISSUED" => passes'[task[w].reg] = 1
      PROVE  TaskConsistent(w)'
    BY <1>4, GotoKeeps, TaskOfWorker, RegistrationsGrow DEF TaskConsistent, At
<1>5. ASSUME task[w] # NoTask, NEW b \in BOOLEAN, GiveUp(w, b)
      PROVE  TaskConsistent(w)'
    BY <1>5, GiveUpKeeps, TaskOfWorker, RegistrationsGrow DEF TaskConsistent, At
<1>6. ASSUME ProcessIssuePass(w)
      PROVE  TaskConsistent(w)'
  <2>1. CASE LoadRegistration(w)
      BY <1>4, <2>1 DEF LoadRegistration, At, Steps
  <2>2. CASE EnsureEmail(w) \/ StartIssuance(w) \/ IssueBlocked(w) \/ RecordPass(w)
      BY <1>4, <2>2 DEF EnsureEmail, StartIssuance, IssueBlocked, RecordPass, At, Steps
  <2>3. CASE IssuePass(w)
    <3>1. task[w] # NoTask /\ task[w].reg \in Registration
        BY <2>3, TaskOfWorker DEF IssuePass, At
    <3>2. passes'[task[w].reg] = 1
        BY <2>3, <3>1 DEF IssuePass, AlreadyIssued, PassesSound, TypeOK
    <3> QED BY <1>4, <2>3, <3>1, <3>2 DEF IssuePass, Steps
  <2>4. CASE ReleaseBlocked(w) \/ HandleIssueError(w)
    <3>1. Terminal(w) \in BOOLEAN
        BY DEF Terminal
    <3> QED BY <1>5, <2>4, <3>1 DEF ReleaseBlocked, HandleIssueError, At
  <2> QED BY <1>6, <2>1, <2>2, <2>3, <2>4 DEF ProcessIssuePass
<1>7. ASSUME ProcessEmail(w)
      PROVE  TaskConsistent(w)'
  <2>1. CASE SendEmail(w) \/ RecordEmail(w)
      BY <1>4, <1>5, <2>1 DEF SendEmail, RecordEmail, At, Steps
  <2>2. CASE HandleEmailError(w)
    <3>1. Terminal(w) \in BOOLEAN
        BY DEF Terminal
    <3> QED BY <1>5, <2>2, <3>1 DEF HandleEmailError, At
  <2> QED BY <1>7, <2>1, <2>2 DEF ProcessEmail
<1>8. ASSUME TaskErrors(w)
      PROVE  TaskConsistent(w)'
    BY <1>4, <1>8 DEF TaskErrors, Steps
<1>9. ASSUME task'[w] # task[w]
      PROVE  \/ \E r \in Registration, t \in Types : ClaimNext(w, r, t)
             \/ Progress(w) \/ TaskErrors(w) \/ TaskStops(w)
  <2>1. ASSUME NEW v \in Worker, v # w,
               \/ \E r \in Registration, t \in Types : ClaimNext(v, r, t)
               \/ Progress(v) \/ TaskErrors(v) \/ TaskStops(v)
        PROVE  task'[w] = task[w]
      BY <2>1 DEF TypeOK, ClaimNext, Progress, ProcessIssuePass, LoadRegistration, EnsureEmail,
                  StartIssuance, IssuePass, IssueBlocked, RecordPass, ReleaseBlocked,
                  HandleIssueError, ProcessEmail, SendEmail, RecordEmail, HandleEmailError,
                  Complete, Fail, TaskErrors, TaskStops, Goto, GiveUp
  <2>2. ASSUME NEW r \in Registration,
               \/ Submit(r) \/ Retry(r) \/ QueueRecovery(r)
               \/ \E t \in Types : LeaseExpires(r, t)
        PROVE  task' = task
      BY <2>2 DEF Submit, Retry, RetryIssuance, RetryEmail, QueueRecovery, LeaseExpires
  <2>3. ~UNCHANGED vars
      BY <1>9 DEF vars
  <2> QED BY <1>9, <2>1, <2>2, <2>3 DEF Next
<1> QED BY <1>1, <1>2, <1>3, <1>6, <1>7, <1>8, <1>9 DEF Progress

\* What the participant is shown stays real.
LEMMA ShownInductive ==
    ASSUME IInv, [Next]_vars
    PROVE  ShownIsReal'
<1> USE DEF IInv
<1> SUFFICES ASSUME NEW r \in Registration
             PROVE  /\ issuance'[r] = "SUCCEEDED" => linked'[r]
                    /\ email'[r] = "ACCEPTED" => linked'[r]
                    /\ linked'[r] => passes'[r] = 1
    BY DEF ShownIsReal
<1>1. ASSUME issuance'[r] = "SUCCEEDED", issuance[r] # "SUCCEEDED"
      PROVE  \E w \in Worker : RecordPass(w) /\ task[w].reg = r
    BY <1>1 DEF TypeOK, Next, vars, Submit, Retry, RetryIssuance, RetryEmail, QueueRecovery,
                LeaseExpires, ClaimNext, Progress, ProcessIssuePass, LoadRegistration,
                EnsureEmail, StartIssuance, IssuePass, IssueBlocked, RecordPass,
                ReleaseBlocked, HandleIssueError, ReleaseFailedRegistration, ProcessEmail,
                SendEmail, RecordEmail, HandleEmailError, Complete, Fail, TaskErrors, TaskStops
<1>2. ASSUME email'[r] = "ACCEPTED", email[r] # "ACCEPTED"
      PROVE  \E w \in Worker : RecordEmail(w) /\ task[w].reg = r
    BY <1>2 DEF TypeOK, Next, vars, Submit, Retry, RetryIssuance, RetryEmail, QueueRecovery,
                LeaseExpires, ClaimNext, Progress, ProcessIssuePass, LoadRegistration,
                EnsureEmail, StartIssuance, IssuePass, IssueBlocked, RecordPass,
                ReleaseBlocked, HandleIssueError, ReleaseFailedRegistration, ProcessEmail,
                SendEmail, RecordEmail, HandleEmailError, Complete, Fail, TaskErrors, TaskStops
<1>3. ASSUME linked'[r], ~linked[r]
      PROVE  \E w \in Worker : RecordPass(w) /\ task[w].reg = r
    BY <1>3 DEF TypeOK, Next, vars, Submit, Retry, RetryIssuance, RetryEmail, QueueRecovery,
                LeaseExpires, ClaimNext, Progress, ProcessIssuePass, LoadRegistration,
                EnsureEmail, StartIssuance, IssuePass, IssueBlocked, RecordPass,
                ReleaseBlocked, HandleIssueError, ReleaseFailedRegistration, ProcessEmail,
                SendEmail, RecordEmail, HandleEmailError, Complete, Fail, TaskErrors, TaskStops
<1>4. ASSUME NEW w \in Worker, RecordPass(w), task[w].reg = r
      PROVE  linked'[r] /\ passes'[r] = 1
  <2>1. passes[r] = 1
      BY <1>4 DEF TaskConsistent, RecordPass, At
  <2> QED BY <1>4, <2>1 DEF RecordPass, TypeOK
<1>5. ASSUME NEW w \in Worker, RecordEmail(w), task[w].reg = r
      PROVE  linked'[r]
    BY <1>5 DEF TaskConsistent, RecordEmail, At
<1>6. /\ issuance[r] = "SUCCEEDED" => linked[r]
      /\ email[r] = "ACCEPTED" => linked[r]
      /\ linked[r] => passes[r] = 1
    BY DEF ShownIsReal
<1>7. /\ linked[r] => linked'[r]
      /\ passes[r] = 1 => passes'[r] = 1
    BY RegistrationsGrow
<1>8. issuance'[r] = "SUCCEEDED" => linked'[r]
    BY <1>1, <1>4, <1>6, <1>7
<1>9. email'[r] = "ACCEPTED" => linked'[r]
    BY <1>2, <1>5, <1>6, <1>7
<1>10. linked'[r] => passes'[r] = 1
    BY <1>3, <1>4, <1>6, <1>7
<1> QED BY <1>8, <1>9, <1>10

\* A registration that does not exist has nothing, and an email job its pass.
LEMMA RowsInductive ==
    ASSUME IInv, [Next]_vars, NEW r \in Registration
    PROVE  RowConsistent(r)'
<1> USE DEF IInv
<1>1. /\ status[r] # "NO_ROW" => status'[r] # "NO_ROW"
      /\ linked[r] => linked'[r]
    BY RegistrationsGrow
<1>2. ASSUME held'[r], ~held[r]
      PROVE  status'[r] # "NO_ROW"
    BY <1>2 DEF TypeOK, Next, vars, Submit, Retry, RetryIssuance, RetryEmail, QueueRecovery,
                LeaseExpires, ClaimNext, Progress, ProcessIssuePass, LoadRegistration,
                EnsureEmail, StartIssuance, IssuePass, IssueBlocked, RecordPass,
                ReleaseBlocked, HandleIssueError, ReleaseFailedRegistration, ProcessEmail,
                SendEmail, RecordEmail, HandleEmailError, Complete, Fail, TaskErrors, TaskStops
<1>3. ASSUME linked'[r], ~linked[r]
      PROVE  status'[r] # "NO_ROW"
    BY <1>3 DEF TypeOK, Next, vars, Submit, Retry, RetryIssuance, RetryEmail, QueueRecovery,
                LeaseExpires, ClaimNext, Progress, ProcessIssuePass, LoadRegistration,
                EnsureEmail, StartIssuance, IssuePass, IssueBlocked, RecordPass,
                ReleaseBlocked, HandleIssueError, ReleaseFailedRegistration, ProcessEmail,
                SendEmail, RecordEmail, HandleEmailError, Complete, Fail, TaskErrors, TaskStops
<1> DEFINE JobSound(t) == /\ status'[r] # "NO_ROW"
                          /\ t = "SEND_PASS_EMAIL" => linked'[r]
<1>4. ASSUME NEW t \in Types, Active(r, t)
      PROVE  JobSound(t)
    BY <1>1, <1>4 DEF RowConsistent
<1>5. ASSUME NEW q \in Registration, NEW u \in Types, Enqueue(q, u),
             status'[q] # "NO_ROW", u = "SEND_PASS_EMAIL" => linked'[q],
             NEW t \in Types, Active(r, t)'
      PROVE  JobSound(t)
    BY <1>4, <1>5, EnqueuedOnly
<1>6. ASSUME NEW t \in Types, Active(r, t)'
      PROVE  JobSound(t)
  <2>1. ASSUME NEW q \in Registration, Submit(q)
        PROVE  JobSound(t)
      BY <1>5, <1>6, <2>1 DEF Submit, TypeOK, Types
  <2>2. ASSUME NEW q \in Registration, RetryIssuance(q)
        PROVE  JobSound(t)
    <3>1. status'[q] # "NO_ROW" /\ Enqueue(q, "ISSUE_PASS")
        BY <2>2 DEF RetryIssuance, TypeOK
    <3> QED BY <1>5, <1>6, <3>1 DEF Types
  <2>3. ASSUME NEW q \in Registration, RetryEmail(q) \/ QueueRecovery(q)
        PROVE  JobSound(t)
    <3>1. /\ status'[q] # "NO_ROW" /\ Enqueue(q, "SEND_PASS_EMAIL")
          /\ linked'[q]
        BY <2>3 DEF RetryEmail, QueueRecovery, ShownIsReal
    <3> QED BY <1>5, <1>6, <3>1 DEF Types
  <2>4. ASSUME NEW w \in Worker, EnsureEmail(w) \/ RecordPass(w)
        PROVE  JobSound(t)
    <3> DEFINE q == task[w].reg
    <3>1. task[w] # NoTask /\ q \in Registration
        BY <2>4, TaskOfWorker DEF EnsureEmail, RecordPass, At
    <3>2. /\ status'[q] # "NO_ROW" /\ Enqueue(q, "SEND_PASS_EMAIL")
          /\ linked'[q]
        BY <2>4, <3>1 DEF EnsureEmail, RecordPass, TaskConsistent, TypeOK
    <3> QED BY <1>5, <1>6, <3>1, <3>2 DEF Types
  <2>5. ASSUME NEW w \in Worker, NEW q \in Registration, NEW u \in Types,
               \/ LeaseExpires(q, u) \/ ClaimNext(w, q, u)
               \/ Complete(w) \/ Fail(w) \/ TaskStops(w)
        PROVE  JobSound(t)
      BY <1>4, <1>6, <2>5, NoOtherJobs
  <2>6. ASSUME job' = job
        PROVE  JobSound(t)
      BY <1>4, <1>6, <2>6 DEF Active
  <2>7. ASSUME NEW q \in Registration, NEW u \in Types, LeaseExpires(q, u)
        PROVE  JobSound(t)
    <3>1. Active(r, t)
        BY <1>6, <2>7 DEF LeaseExpires, Active, TypeOK, Rows
    <3> QED BY <1>4, <3>1
  <2>8. ASSUME NEW w \in Worker,
               \/ LoadRegistration(w) \/ StartIssuance(w) \/ IssuePass(w) \/ IssueBlocked(w)
               \/ ReleaseBlocked(w) \/ HandleIssueError(w) \/ ProcessEmail(w) \/ TaskErrors(w)
        PROVE  job' = job
      BY <2>8 DEF LoadRegistration, StartIssuance, IssuePass, IssueBlocked, ReleaseBlocked,
                  HandleIssueError, ProcessEmail, SendEmail, RecordEmail, HandleEmailError,
                  TaskErrors
  <2>9. CASE UNCHANGED vars
      BY <2>6, <2>9 DEF vars
  <2> QED BY <2>1, <2>2, <2>3, <2>4, <2>5, <2>6, <2>7, <2>8, <2>9
          DEF Next, Retry, Progress, ProcessIssuePass, Types
<1>7. held'[r] => status'[r] # "NO_ROW"
    BY <1>1, <1>2 DEF RowConsistent
<1>8. linked'[r] => status'[r] # "NO_ROW"
    BY <1>1, <1>3 DEF RowConsistent
<1>9. \A t \in Types : Active(r, t)' => JobSound(t)
    BY <1>6
<1>10. Active(r, "SEND_PASS_EMAIL")' => linked'[r]
    BY <1>9 DEF Types
<1> QED BY <1>7, <1>8, <1>9, <1>10 DEF RowConsistent

-----------------------------------------------------------------------------
(* The theorems *)

LEMMA IInvInit == Init => IInv
<1> SUFFICES ASSUME Init
             PROVE  IInv
    OBVIOUS
<1>1. Holders = {} /\ Issued = {}
    BY DEF Init, Holders, Issued
<1>2. PlacesFit /\ PassesSound
    BY <1>1, FS_EmptySet, JobConstantsOK DEF Init, PlacesFit, PassesSound
<1>3. ShownIsReal
    BY DEF Init, ShownIsReal
<1>4. \A r \in Registration : RowConsistent(r)
    BY DEF Init, RowConsistent, Active, NoJob, Types
<1>5. \A w \in Worker : TaskConsistent(w)
    BY DEF Init, TaskConsistent
<1> QED BY <1>2, <1>3, <1>4, <1>5, TypeInit DEF IInv

LEMMA IInvInductive == IInv /\ [Next]_vars => IInv'
<1> SUFFICES ASSUME IInv, [Next]_vars
             PROVE  IInv'
    OBVIOUS
<1>1. TypeOK' /\ PlacesFit' /\ PassesSound'
    BY TypeInductive, PlacesInductive, PassesInductive DEF IInv
<1>2. ShownIsReal'
    BY ShownInductive
<1>3. \A r \in Registration : RowConsistent(r)'
    BY RowsInductive
<1>4. \A w \in Worker : TaskConsistent(w)'
    BY TasksInductive
<1> QED BY <1>1, <1>2, <1>3, <1>4 DEF IInv

\* The invariant of rows, jobs and tasks holds in every reachable state.
THEOREM InvariantHolds == Spec => []IInv
<1> QED BY IInvInit, IInvInductive, PTL DEF Spec

\* No offer has more registrations that hold a place than places, whatever workers,
\* retries and expired leases do (reacquireCapacity, releaseFailedRegistration).
THEOREM PlacesAreBounded == Spec => []PlacesFit
<1>1. IInv => PlacesFit
    BY DEF IInv
<1> QED BY <1>1, InvariantHolds, PTL

\* No event has more passes than its quota and no registration more than one,
\* although the worker that lost its lease issues again (issuePass).
THEOREM PassesAreSound == Spec => []PassesSound
<1>1. IInv => PassesSound
    BY DEF IInv
<1> QED BY <1>1, InvariantHolds, PTL

\* A pass that is announced, or whose email was accepted, exists and is recorded.
THEOREM ShownPassesAreReal == Spec => []ShownIsReal
<1>1. IInv => ShownIsReal
    BY DEF IInv
<1> QED BY <1>1, InvariantHolds, PTL
=============================================================================
