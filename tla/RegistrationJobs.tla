-------------------------- MODULE RegistrationJobs --------------------------
(***************************************************************************)
(* Free registrations and their jobs: registration.service.js,             *)
(* registration_job.service.js, workers/registration.worker.js and         *)
(* issuePass, for the registrations of one offer. A registration takes a   *)
(* place and queues a job that issues its pass; a pass queues a job that   *)
(* sends an email. Workers claim jobs for the time of a lease. Between a   *)
(* claim and its end a worker makes several separate writes, which do not  *)
(* ask whether the lease still runs: another worker may have taken over.   *)
(* Only complete and fail look at the lock.                                *)
(***************************************************************************)
EXTENDS Naturals, FiniteSets

CONSTANTS
    Registration,   \* the registrations, one per Idempotency-Key
    Capacity,       \* the places of the offer
    QrLimit,        \* the passes the plan allows the event
    MaxAttempts,    \* registration_jobs.max_attempts
    Worker,         \* worker processes
    Nobody,         \* locked_by of a job that is not claimed
    NoTask          \* a worker that processes no job

Types == {"ISSUE_PASS", "SEND_PASS_EMAIL"}

Statuses == {"NO_ROW", "PROCESSING", "COMPLETED", "FAILED"}

IssuanceStatuses == {"PENDING", "PROCESSING", "SUCCEEDED", "BLOCKED_QUOTA", "FAILED"}

\* The active row of a registration and type: the partial unique index allows one.
\* A row that ends, COMPLETED or FAILED, is never read again. Beyond MaxAttempts
\* the attempts are not told apart.
Rows == [status   : {"NONE", "PENDING", "PROCESSING"},
         attempts : 0 .. MaxAttempts,
         by       : Worker \cup {Nobody},
         expired  : BOOLEAN]

NoJob == [status |-> "NONE", attempts |-> 0, by |-> Nobody, expired |-> FALSE]
NewJob == [NoJob EXCEPT !.status = "PENDING"]

\* Where a worker is: what it has done of its job.
Steps == {"CLAIMED", "REPLAYED", "REQUEUED", "STARTING", "ISSUING", "ISSUED", "BLOCKED",
          "SENT", "RECORDED", "ERRORED", "FAILING"}

\* "attempts" is the row's when it was claimed.
Tasks == [reg : Registration, type : Types, attempts : 0 .. MaxAttempts,
          step : Steps, terminal : BOOLEAN]

ASSUME JobConstantsOK ==
    /\ IsFiniteSet(Registration)
    /\ Capacity \in Nat
    /\ QrLimit \in Nat
    /\ MaxAttempts \in Nat \ {0}
    /\ Nobody \notin Worker
    /\ NoTask \notin Tasks

VARIABLES
    status,     \* registrations.status
    issuance,   \* registrations.issuance_status
    held,       \* registrations.capacity_held
    linked,     \* registrations.qr_id is set
    email,      \* registrations.email_status
    passes,     \* QR codes created under the idempotency key of the registration
    job,        \* the active jobs
    task        \* what each worker is doing

vars == <<status, issuance, held, linked, email, passes, job, task>>

Init ==
    /\ status = [r \in Registration |-> "NO_ROW"]
    /\ issuance = [r \in Registration |-> "PENDING"]
    /\ held = [r \in Registration |-> FALSE]
    /\ linked = [r \in Registration |-> FALSE]
    /\ email = [r \in Registration |-> "PENDING"]
    /\ passes = [r \in Registration |-> 0]
    /\ job = [r \in Registration |-> [t \in Types |-> NoJob]]
    /\ task = [w \in Worker |-> NoTask]

-----------------------------------------------------------------------------
(* Places, passes and the queue *)

Holders == {r \in Registration : held[r]}

SoldOut == Cardinality(Holders) >= Capacity

Issued == {r \in Registration : passes[r] > 0}

\* Mutant of QuotaReached: one pass too many.
QuotaOffByOne == Cardinality(Issued) > QrLimit

\* The quota counts the passes of the event; no registration has two (PassesSound).
QuotaReached == Cardinality(Issued) >= QrLimit

Active(r, t) == job[r][t].status # "NONE"

\* enqueue returns an active job rather than create a second one.
Enqueue(r, t) ==
    job' = IF Active(r, t) THEN job ELSE [job EXCEPT ![r][t] = NewJob]

-----------------------------------------------------------------------------
(* The participant and the organizer *)

\* A serializable transaction that locks the form and the offer.
Submit(r) ==
    /\ status[r] = "NO_ROW"
    /\ ~SoldOut
    /\ status' = [status EXCEPT ![r] = "PROCESSING"]
    /\ held' = [held EXCEPT ![r] = TRUE]
    /\ Enqueue(r, "ISSUE_PASS")
    /\ UNCHANGED <<issuance, linked, email, passes, task>>

\* Mutant of RetryIssuance: a place is taken again without counting them.
RetryUncounted(r) ==
    /\ status[r] # "NO_ROW"
    /\ issuance[r] # "SUCCEEDED"
    /\ status' = [status EXCEPT ![r] = "PROCESSING"]
    /\ issuance' = [issuance EXCEPT ![r] = "PENDING"]
    /\ held' = [held EXCEPT ![r] = TRUE]
    /\ Enqueue(r, "ISSUE_PASS")
    /\ UNCHANGED <<linked, email, passes, task>>

\* reacquireCapacityAndEnqueue for ISSUE_PASS. It does not ask whether the issuance
\* failed: any registration can be retried, even one a worker has in hand.
RetryIssuance(r) ==
    /\ status[r] # "NO_ROW"
    /\ IF issuance[r] = "SUCCEEDED"
         THEN UNCHANGED <<status, issuance, held>>
         ELSE /\ held[r] \/ ~SoldOut
              /\ status' = [status EXCEPT ![r] = "PROCESSING"]
              /\ issuance' = [issuance EXCEPT ![r] = "PENDING"]
              /\ held' = [held EXCEPT ![r] = TRUE]
    /\ Enqueue(r, "ISSUE_PASS")
    /\ UNCHANGED <<linked, email, passes, task>>

\* reacquireCapacityAndEnqueue for SEND_PASS_EMAIL.
RetryEmail(r) ==
    /\ status[r] # "NO_ROW"
    /\ issuance[r] = "SUCCEEDED"
    /\ email' = [email EXCEPT ![r] = "PENDING"]
    /\ Enqueue(r, "SEND_PASS_EMAIL")
    /\ UNCHANGED <<status, issuance, held, linked, passes, task>>

\* The participant asks for the link again; registrations without an owner only.
QueueRecovery(r) ==
    /\ status[r] # "NO_ROW"
    /\ issuance[r] = "SUCCEEDED"
    /\ Enqueue(r, "SEND_PASS_EMAIL")
    /\ UNCHANGED <<status, issuance, held, linked, email, passes, task>>

-----------------------------------------------------------------------------
(* claimNext, complete, fail *)

\* One statement claims a job that waits, or whose lease has run out. Nothing
\* looks at max_attempts here.
ClaimNext(w, r, t) ==
    LET j == job[r][t]
        n == IF j.attempts < MaxAttempts THEN j.attempts + 1 ELSE MaxAttempts
    IN  /\ task[w] = NoTask
        /\ j.status = "PENDING" \/ (j.status = "PROCESSING" /\ j.expired)
        /\ job' = [job EXCEPT ![r][t] = [status |-> "PROCESSING", attempts |-> n,
                                         by |-> w, expired |-> FALSE]]
        /\ task' = [task EXCEPT ![w] = [reg |-> r, type |-> t, attempts |-> n,
                                        step |-> "CLAIMED", terminal |-> FALSE]]
        /\ UNCHANGED <<status, issuance, held, linked, email, passes>>

LeaseExpires(r, t) ==
    /\ job[r][t].status = "PROCESSING"
    /\ ~job[r][t].expired
    /\ job' = [job EXCEPT ![r][t].expired = TRUE]
    /\ UNCHANGED <<status, issuance, held, linked, email, passes, task>>

\* The worker still has the lock of its job. A worker has one job at a time, so a
\* later row of the same registration and type is never locked by it.
Locked(w) ==
    LET j == job[task[w].reg][task[w].type] IN j.status = "PROCESSING" /\ j.by = w

At(w, t, s) == task[w] # NoTask /\ task[w].type = t /\ task[w].step = s

Goto(w, s) == task' = [task EXCEPT ![w].step = s]

\* fail is about to be called.
GiveUp(w, terminal) ==
    task' = [task EXCEPT ![w].step = "FAILING", ![w].terminal = terminal]

Terminal(w) == task[w].attempts >= MaxAttempts

Complete(w) ==
    /\ task[w] # NoTask
    /\ task[w].step \in {"RECORDED", "REQUEUED"}
    /\ job' = IF Locked(w) THEN [job EXCEPT ![task[w].reg][task[w].type] = NoJob] ELSE job
    /\ task' = [task EXCEPT ![w] = NoTask]
    /\ UNCHANGED <<status, issuance, held, linked, email, passes>>

\* Mutant of Fail: the job is never put back.
FailForGood(w) ==
    /\ task[w] # NoTask
    /\ task[w].step = "FAILING"
    /\ job' = IF Locked(w) THEN [job EXCEPT ![task[w].reg][task[w].type] = NoJob] ELSE job
    /\ task' = [task EXCEPT ![w] = NoTask]
    /\ UNCHANGED <<status, issuance, held, linked, email, passes>>

Fail(w) ==
    LET r == task[w].reg
        t == task[w].type
        next == IF task[w].terminal \/ Terminal(w)
                  THEN NoJob
                  ELSE [NewJob EXCEPT !.attempts = job[r][t].attempts]
    IN  /\ task[w] # NoTask
        /\ task[w].step = "FAILING"
        /\ job' = IF Locked(w) THEN [job EXCEPT ![r][t] = next] ELSE job
        /\ task' = [task EXCEPT ![w] = NoTask]
        /\ UNCHANGED <<status, issuance, held, linked, email, passes>>

\* A crash and a restart, or an exception that ends the iteration: the job stays
\* locked until its lease runs out.
TaskStops(w) ==
    /\ task[w] # NoTask
    /\ task' = [task EXCEPT ![w] = NoTask]
    /\ UNCHANGED <<status, issuance, held, linked, email, passes, job>>

\* An error inside the try block of processIssuePass or processEmail.
TaskErrors(w) ==
    /\ task[w] # NoTask
    /\ task[w].step \in {"ISSUING", "ISSUED", "SENT", "RECORDED"}
    /\ Goto(w, "ERRORED")
    /\ UNCHANGED <<status, issuance, held, linked, email, passes, job>>

-----------------------------------------------------------------------------
(* processIssuePass *)

LoadRegistration(w) ==
    LET r == task[w].reg IN
    /\ At(w, "ISSUE_PASS", "CLAIMED")
    /\ Goto(w, IF linked[r] /\ issuance[r] = "SUCCEEDED" THEN "REPLAYED" ELSE "STARTING")
    /\ UNCHANGED <<status, issuance, held, linked, email, passes, job>>

\* The pass was issued by an earlier attempt: only its email is still to be queued.
EnsureEmail(w) ==
    /\ At(w, "ISSUE_PASS", "REPLAYED")
    /\ Enqueue(task[w].reg, "SEND_PASS_EMAIL")
    /\ Goto(w, "REQUEUED")
    /\ UNCHANGED <<status, issuance, held, linked, email, passes>>

StartIssuance(w) ==
    /\ At(w, "ISSUE_PASS", "STARTING")
    /\ issuance' = [issuance EXCEPT ![task[w].reg] = "PROCESSING"]
    /\ Goto(w, "ISSUING")
    /\ UNCHANGED <<status, held, linked, email, passes, job>>

\* There is an issuance request of the registration's key.
AlreadyIssued(r) == passes[r] > 0

\* issuePass: a serializable transaction that locks the organization and the event.
\* It finds the pass of an earlier attempt, or creates one.
IssuePass(w) ==
    LET r == task[w].reg IN
    /\ At(w, "ISSUE_PASS", "ISSUING")
    /\ \/ AlreadyIssued(r) /\ UNCHANGED passes
       \/ /\ ~AlreadyIssued(r)
          /\ ~QuotaReached
          /\ passes' = [passes EXCEPT ![r] = @ + 1]
    /\ Goto(w, "ISSUED")
    /\ UNCHANGED <<status, issuance, held, linked, email, job>>

\* Mutant of IssueBlocked: the refusal is not told apart from an issued pass.
BlockedIgnored(w) ==
    /\ At(w, "ISSUE_PASS", "ISSUING")
    /\ ~AlreadyIssued(task[w].reg)
    /\ Goto(w, "ISSUED")
    /\ UNCHANGED <<status, issuance, held, linked, email, passes, job>>

\* PLAN_QUOTA_EXCEEDED, or EVENT_PASS_EXPIRED whatever the quota is.
IssueBlocked(w) ==
    /\ At(w, "ISSUE_PASS", "ISSUING")
    /\ ~AlreadyIssued(task[w].reg)
    /\ Goto(w, "BLOCKED")
    /\ UNCHANGED <<status, issuance, held, linked, email, passes, job>>

\* One transaction records the pass and queues its email.
RecordPass(w) ==
    LET r == task[w].reg IN
    /\ At(w, "ISSUE_PASS", "ISSUED")
    /\ linked' = [linked EXCEPT ![r] = TRUE]
    /\ status' = [status EXCEPT ![r] = "COMPLETED"]
    /\ issuance' = [issuance EXCEPT ![r] = "SUCCEEDED"]
    /\ Enqueue(r, "SEND_PASS_EMAIL")
    /\ Goto(w, "RECORDED")
    /\ UNCHANGED <<held, email, passes>>

\* Gives the place back, whatever the registration has become.
ReleaseFailedRegistration(r, s) ==
    /\ status' = [status EXCEPT ![r] = "FAILED"]
    /\ issuance' = [issuance EXCEPT ![r] = s]
    /\ held' = [held EXCEPT ![r] = FALSE]

ReleaseBlocked(w) ==
    /\ At(w, "ISSUE_PASS", "BLOCKED")
    /\ ReleaseFailedRegistration(task[w].reg, "BLOCKED_QUOTA")
    /\ GiveUp(w, TRUE)
    /\ UNCHANGED <<linked, email, passes, job>>

HandleIssueError(w) ==
    LET r == task[w].reg IN
    /\ At(w, "ISSUE_PASS", "ERRORED")
    /\ IF Terminal(w)
         THEN ReleaseFailedRegistration(r, "FAILED")
         ELSE /\ issuance' = [issuance EXCEPT ![r] = "PENDING"]
              /\ UNCHANGED <<status, held>>
    /\ GiveUp(w, Terminal(w))
    /\ UNCHANGED <<linked, email, passes, job>>

-----------------------------------------------------------------------------
(* processEmail *)

\* The registration is read; Brevo is asked to send the email if the pass is there.
SendEmail(w) ==
    /\ At(w, "SEND_PASS_EMAIL", "CLAIMED")
    /\ IF issuance[task[w].reg] = "SUCCEEDED" THEN Goto(w, "SENT") ELSE GiveUp(w, TRUE)
    /\ UNCHANGED <<status, issuance, held, linked, email, passes, job>>

RecordEmail(w) ==
    /\ At(w, "SEND_PASS_EMAIL", "SENT")
    /\ email' = [email EXCEPT ![task[w].reg] = "ACCEPTED"]
    /\ Goto(w, "RECORDED")
    /\ UNCHANGED <<status, issuance, held, linked, passes, job>>

HandleEmailError(w) ==
    /\ At(w, "SEND_PASS_EMAIL", "ERRORED")
    /\ email' = [email EXCEPT ![task[w].reg] = IF Terminal(w) THEN "FAILED" ELSE "PENDING"]
    /\ GiveUp(w, Terminal(w))
    /\ UNCHANGED <<status, issuance, held, linked, passes, job>>

-----------------------------------------------------------------------------
Retry(r) == RetryIssuance(r) \/ RetryEmail(r)

ProcessIssuePass(w) ==
    \/ LoadRegistration(w) \/ EnsureEmail(w) \/ StartIssuance(w) \/ IssuePass(w)
    \/ IssueBlocked(w) \/ RecordPass(w) \/ ReleaseBlocked(w) \/ HandleIssueError(w)

ProcessEmail(w) ==
    \/ SendEmail(w) \/ RecordEmail(w) \/ HandleEmailError(w)

Progress(w) == ProcessIssuePass(w) \/ ProcessEmail(w) \/ Complete(w) \/ Fail(w)

Next ==
    \/ \E r \in Registration : Submit(r) \/ Retry(r) \/ QueueRecovery(r)
    \/ \E r \in Registration, t \in Types : LeaseExpires(r, t)
    \/ \E w \in Worker, r \in Registration, t \in Types : ClaimNext(w, r, t)
    \/ \E w \in Worker : Progress(w) \/ TaskErrors(w) \/ TaskStops(w)

Spec == Init /\ [][Next]_vars

(***************************************************************************)
(* Workers poll every 2 s and take the oldest job that is due, leases run  *)
(* out, and a worker that does not crash goes on with its job.             *)
(***************************************************************************)
Fairness ==
    /\ \A w \in Worker : WF_vars(Progress(w))
    /\ \A r \in Registration, t \in Types :
         /\ WF_vars(LeaseExpires(r, t))
         /\ \A w \in Worker : SF_vars(ClaimNext(w, r, t))

\* The organizer retries what has come to its end: no job of it is active.
RetriesAreIdle ==
    \A r \in Registration : Retry(r) => \A t \in Types : ~Active(r, t)

IdleRetriesSpec == Init /\ [][Next /\ RetriesAreIdle]_vars /\ Fairness

-----------------------------------------------------------------------------
(* Properties *)

\* The rows, the active jobs and the workers' tasks are well formed.
TypeOK ==
    /\ status \in [Registration -> Statuses]
    /\ issuance \in [Registration -> IssuanceStatuses]
    /\ held \in [Registration -> BOOLEAN]
    /\ linked \in [Registration -> BOOLEAN]
    /\ email \in [Registration -> {"PENDING", "ACCEPTED", "FAILED"}]
    /\ passes \in [Registration -> Nat]
    /\ job \in [Registration -> [Types -> Rows]]
    /\ task \in [Worker -> Tasks \cup {NoTask}]

\* Places are never promised twice, however often workers release them late and
\* organizers take them again (submit, reacquireCapacityAndEnqueue, releaseFailed).
PlacesFit == Cardinality(Holders) <= Capacity

\* However often a job is taken over or retried, a registration gets one pass, and
\* the passes stay within the quota of the event (issuePass, withEventQrQuota).
PassesSound ==
    /\ \A r \in Registration : passes[r] <= 1
    /\ Cardinality(Issued) <= QrLimit

\* A participant who is told that the pass is there, or is sent an email, has one:
\* it is recorded and exists, even after the writes of a worker whose lease ran out
\* (processIssuePass, processEmail).
ShownIsReal ==
    \A r \in Registration :
        /\ issuance[r] = "SUCCEEDED" => linked[r]
        /\ email[r] = "ACCEPTED" => linked[r]
        /\ linked[r] => passes[r] = 1

CrashesEnd == <>[][\A w \in Worker : ~TaskStops(w)]_vars

Waiting(r) == status[r] # "NO_ROW" /\ issuance[r] \in {"PENDING", "PROCESSING"}

EmailOwed(r) == issuance[r] = "SUCCEEDED" /\ email[r] = "PENDING"

\* A registration gets its pass or is told that it failed, and a pass gets its email
\* or the email is told to have failed (run, claimNext, fail): the crashes of a
\* worker, in whatever step, lose no job.
JobsSettle ==
    CrashesEnd =>
        \A r \in Registration : /\ Waiting(r) ~> ~Waiting(r)
                                /\ EmailOwed(r) ~> ~EmailOwed(r)

-----------------------------------------------------------------------------
(* The inductive invariant behind the safety properties *)

RowConsistent(r) ==
    /\ status[r] = "NO_ROW" =>
         /\ ~held[r] /\ ~linked[r]
         /\ \A t \in Types : ~Active(r, t)
    /\ Active(r, "SEND_PASS_EMAIL") => linked[r]

TaskConsistent(w) ==
    task[w] # NoTask =>
        LET r == task[w].reg IN
        /\ status[r] # "NO_ROW"
        /\ task[w].type = "SEND_PASS_EMAIL" => linked[r]
        /\ At(w, "ISSUE_PASS", "REPLAYED") => linked[r]
        /\ At(w, "ISSUE_PASS", "ISSUED") => passes[r] = 1

IInv ==
    /\ TypeOK
    /\ PlacesFit
    /\ PassesSound
    /\ ShownIsReal
    /\ \A r \in Registration : RowConsistent(r)
    /\ \A w \in Worker : TaskConsistent(w)

=============================================================================
