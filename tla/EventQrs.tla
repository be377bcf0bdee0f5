------------------------------- MODULE EventQrs -------------------------------
(***************************************************************************)
(* The QR codes of one event (organization_quota.withEventQrQuota,         *)
(* pass_issuance.service.js, api.qr.controller.js, the event's page): the  *)
(* dashboard issues them singly or from a CSV file and downloads their     *)
(* badges in parts, registration workers issue one under the idempotency   *)
(* key of a job that two of them may hold, and the event may be deleted    *)
(* and what entitles it to QR codes run out meanwhile.                     *)
(*                                                                         *)
(* The quota transaction is serializable, locks the organization and the   *)
(* event, and is one step; what is read before it is a step of its own. A  *)
(* QR code is its rank in the event, in the order of qr_id.                *)
(***************************************************************************)
EXTENDS Naturals

CONSTANTS
    Page,           \* browsers of the organization at the event's page
    Issuer,         \* registration workers
    QrLimits,       \* maxQrCodesPerEvent of the plans the organization takes
    PassQrLimit,    \* QR codes of an event under a pass, 200 in the code
    PartSize,       \* MAX_EVENT_PDF_PAGES
    MaxRows,        \* bound: rows of a CSV file
    MaxAttempts     \* attempts of the registration job

ASSUME ConstantsOK ==
    /\ QrLimits \subseteq Nat
    /\ {PartSize, MaxRows} \subseteq Nat \ {0}
    /\ {PassQrLimit, MaxAttempts} \subseteq Nat

VARIABLES
    pass,       \* the event is under an event pass, else under the plan
    over,       \* entitlement_expires_at of that pass is reached
    planLimit,  \* maxQrCodesPerEvent of the plan in force
    eventDeleted, \* events.deleted_at is set
    issued,     \* rows of qr_codes of the event
    live,       \* those whose deleted_at is not set
    page,       \* what each browser shows and has asked for
    job,        \* the job of one accepted registration, and QR codes of its key
    attempt     \* what each registration worker is doing for the job

rightVars == <<pass, over, planLimit>>
qrVars == <<issued, live>>
jobVars == <<job, attempt>>
eventQrVars == <<rightVars, eventDeleted, qrVars, page, jobVars>>

Blank == [at |-> "AWAY", total |-> 0, filtered |-> FALSE, left |-> 0, got |-> {}]
NoJob == [accepted |-> FALSE, tries |-> 0, keyed |-> 0, outcome |-> "NONE"]

QrsInit ==
    /\ pass \in BOOLEAN /\ over = FALSE /\ planLimit \in QrLimits
    /\ eventDeleted = FALSE /\ issued = 0 /\ live = 0
    /\ page = [p \in Page |-> Blank]
    /\ job = NoJob
    /\ attempt = [w \in Issuer |-> "IDLE"]

-----------------------------------------------------------------------------
(* What entitles the event.                                                *)

\* The thirty days of the pass end.
PassRunsOut ==
    /\ pass /\ ~over
    /\ over' = TRUE
    /\ UNCHANGED <<pass, planLimit, eventDeleted, qrVars, page, jobVars>>

\* Another plan comes into force.
PlanChanges ==
    /\ planLimit' \in QrLimits
    /\ UNCHANGED <<pass, over, eventDeleted, qrVars, page, jobVars>>

\* What withEventQrQuota asks of the event under its locks.
Usable == ~eventDeleted /\ ~over

\* Mutant of Quota: the plan counts under a pass too.
QuotaOfPlan == planLimit

\* A pass keeps its own limit; the plan counts as it is now.
Quota == IF pass THEN PassQrLimit ELSE planLimit

Room == issued < Quota

Issuable == Usable /\ Room
AddQr == issued' = issued + 1 /\ live' = live + 1

-----------------------------------------------------------------------------
(* The page of the event.                                                  *)

Show(p, fields) == page' = [page EXCEPT ![p] = fields]

\* The QR codes that a search and a status filter let through.
Listed(filtered) == IF filtered THEN 0..live ELSE {live}

\* fetchAll shows the event and its list.
OpenEvent(p) ==
    /\ page[p].at \in {"AWAY", "EVENT"} /\ ~eventDeleted
    /\ \E filtered \in BOOLEAN : \E total \in Listed(filtered) :
         Show(p, [Blank EXCEPT !.at = "EVENT", !.total = total, !.filtered = filtered])
    /\ UNCHANGED <<rightVars, eventDeleted, qrVars, jobVars>>

Leave(p) ==
    /\ page[p].at = "EVENT"
    /\ Show(p, Blank)
    /\ UNCHANGED <<rightVars, eventDeleted, qrVars, jobVars>>

\* What the page showed is fetched again after each of its requests.
Asks(p, at, rows) == Show(p, [Blank EXCEPT !.at = at, !.left = rows])

AskDelete(p) ==
    /\ page[p].at = "EVENT"
    /\ Asks(p, "DELETING", 0)
    /\ UNCHANGED <<rightVars, eventDeleted, qrVars, jobVars>>

\* The QR codes are deleted with the event, in one transaction.
RemoveEvent(p) ==
    /\ page[p].at = "DELETING"
    /\ eventDeleted' = TRUE /\ live' = 0
    /\ Show(p, Blank)
    /\ UNCHANGED <<rightVars, issued, jobVars>>

\* The form: one QR code.
AskQr(p) ==
    /\ page[p].at = "EVENT"
    /\ Asks(p, "FORM", 1)
    /\ UNCHANGED <<rightVars, eventDeleted, qrVars, jobVars>>

GenerateQr(p) ==
    /\ page[p].at = "FORM"
    /\ Asks(p, IF eventDeleted THEN "EVENT" ELSE "ISSUING", IF eventDeleted THEN 0 ELSE 1)
    /\ UNCHANGED <<rightVars, eventDeleted, qrVars, jobVars>>

\* A CSV file.
AskImport(p) ==
    /\ page[p].at = "EVENT"
    /\ \E rows \in 1..MaxRows : Asks(p, "ADDING", rows)
    /\ UNCHANGED <<rightVars, eventDeleted, qrVars, jobVars>>

\* The event is looked for before the transaction of each row.
ImportRow(p) ==
    /\ page[p].at = "ADDING" /\ page[p].left > 0
    /\ page' = IF eventDeleted THEN [page EXCEPT ![p].left = @ - 1]
                          ELSE [page EXCEPT ![p].at = "ISSUING"]
    /\ UNCHANGED <<rightVars, eventDeleted, qrVars, jobVars>>

\* A row that is refused is reported, and the next one is taken.
IssueRow(p) ==
    /\ page[p].at = "ISSUING"
    /\ IF Issuable THEN AddQr ELSE UNCHANGED qrVars
    /\ page' = [page EXCEPT ![p].at = "ADDING", ![p].left = @ - 1]
    /\ UNCHANGED <<rightVars, eventDeleted, jobVars>>

\* The report of the rows, or a server that stops before it: the rows done stay,
\* and a file sent again issues them again.
IssueEnds(p) ==
    /\ page[p].at \in {"ADDING", "ISSUING"}
    /\ Asks(p, "EVENT", 0)
    /\ UNCHANGED <<rightVars, eventDeleted, qrVars, jobVars>>

Parts(n) == (n + PartSize - 1) \div PartSize

\* As many requests as the total that the page shows needs, one after the other.
AskDownload(p) ==
    /\ page[p].at = "EVENT" /\ page[p].total > 0
    /\ page' = [page EXCEPT ![p].at = "PRINTING", ![p].left = Parts(page[p].total)]
    /\ UNCHANGED <<rightVars, eventDeleted, qrVars, jobVars>>

\* Mutant of Part: the newest first, as the page lists them.
PartNewestFirst(file) ==
    {q \in 1..live : q + (file - 1) * PartSize <= live /\ q + file * PartSize > live}

\* The badges of a part, by skip and take in the order of qr_id.
Part(file) == {q \in 1..live : (file - 1) * PartSize < q /\ q <= file * PartSize}

\* The server finds the event, counts and reads again for each part.
DownloadPart(p) ==
    LET badges == Part(Parts(page[p].total) - page[p].left + 1) IN
    /\ page[p].at = "PRINTING" /\ page[p].left > 0 /\ badges # {}
    /\ page' = [page EXCEPT ![p].left = @ - 1, ![p].got = @ \cup badges]
    /\ UNCHANGED <<rightVars, eventDeleted, qrVars, jobVars>>

\* After the last part, or at a part that is missing or fails.
DownloadEnds(p) ==
    /\ page[p].at = "PRINTING"
    /\ Asks(p, "EVENT", 0)
    /\ UNCHANGED <<rightVars, eventDeleted, qrVars, jobVars>>

-----------------------------------------------------------------------------
(* The registration worker issues one QR code under the key of its job.    *)

AcceptRegistration ==
    /\ ~job.accepted /\ ~eventDeleted
    /\ job' = [job EXCEPT !.accepted = TRUE]
    /\ UNCHANGED <<rightVars, eventDeleted, qrVars, page, attempt>>

\* A job whose lock went stale is taken by another worker while the first still
\* runs. The event is looked for, then the record of the key.
FindForJob(w) ==
    /\ job.accepted /\ job.outcome # "ISSUED"
    /\ attempt[w] = "IDLE" /\ job.tries < MaxAttempts
    /\ attempt' = [attempt EXCEPT
         ![w] = IF eventDeleted \/ job.keyed > 0 THEN @ ELSE "FOUND"]
    /\ job' = [job EXCEPT !.tries = @ + 1,
                          !.outcome = IF eventDeleted THEN "REFUSED"
                                      ELSE IF job.keyed > 0 THEN "ISSUED" ELSE @]
    /\ UNCHANGED <<rightVars, eventDeleted, qrVars, page>>

\* Under the locks the record of the key comes before expiry and quota.
Replays == job.keyed > 0 /\ ~eventDeleted

\* The outcome is recorded, or lost with the worker.
IssueForJob(w) ==
    LET issues == ~Replays /\ Issuable IN
    /\ attempt[w] = "FOUND"
    /\ IF issues THEN AddQr ELSE UNCHANGED qrVars
    /\ attempt' = [attempt EXCEPT ![w] = "IDLE"]
    /\ \E outcome \in {job.outcome, IF issues \/ Replays THEN "ISSUED" ELSE "REFUSED"} :
         job' = [job EXCEPT !.keyed = IF issues THEN @ + 1 ELSE @, !.outcome = outcome]
    /\ UNCHANGED <<rightVars, eventDeleted, page>>

-----------------------------------------------------------------------------

Browse(p) ==
    \/ OpenEvent(p) \/ Leave(p) \/ AskDelete(p) \/ RemoveEvent(p)
    \/ AskQr(p) \/ GenerateQr(p) \/ AskImport(p) \/ ImportRow(p)
    \/ IssueRow(p) \/ IssueEnds(p)
    \/ AskDownload(p) \/ DownloadPart(p) \/ DownloadEnds(p)

QrsNext ==
    \/ PassRunsOut \/ PlanChanges
    \/ \E p \in Page : Browse(p)
    \/ AcceptRegistration
    \/ \E w \in Issuer : FindForJob(w) \/ IssueForJob(w)

QrsSpec == QrsInit /\ [][QrsNext]_eventQrVars

-----------------------------------------------------------------------------
(* Properties.                                                             *)

\* Every variable has its type: rows, requests under way, the bounds.
QrsTypeOK ==
    /\ {pass, over, eventDeleted} \subseteq BOOLEAN
    /\ planLimit \in QrLimits /\ \E n \in QrLimits \cup {PassQrLimit} : issued \in 0..n
    /\ live \in 0..issued
    /\ \A p \in Page :
         /\ page[p].at \in {"AWAY", "EVENT", "DELETING", "FORM", "ADDING",
                           "ISSUING", "PRINTING"}
         /\ page[p].left \in Nat /\ page[p].got \subseteq 1..issued
    /\ job.tries \in 0..MaxAttempts
    /\ job.outcome \in {"NONE", "ISSUED", "REFUSED"}
    /\ attempt \in [Issuer -> {"IDLE", "FOUND"}]

\* An event that is deleted keeps no QR code, not even of a row whose event was
\* found before or of a registration accepted before.
DeletedEventHasNoQr == eventDeleted => live = 0

\* A download of the unfiltered list, its parts asked one by one while others
\* issue, has every badge that the page listed when it was asked for.
DownloadIsComplete ==
    \A p \in Page :
      page[p].at = "PRINTING" /\ page[p].left = 0 /\ ~page[p].filtered =>
        1..page[p].total \subseteq page[p].got

\* A QR code is issued within the quota in force, and none once the pass of the
\* event ran out, whoever issues.
IssuedWithinQuota ==
    [][issued' > issued =>
         /\ issued' <= (IF pass THEN PassQrLimit ELSE planLimit)
         /\ ~over]_eventQrVars

\* The QR code of a registration is issued once, and no attempt that comes later
\* reports as refused, for quota or expiry, what is issued already.
KeyAnsweredOnce ==
    [][/\ job'.keyed <= 1
       /\ job'.outcome = "REFUSED" /\ job.outcome # "REFUSED" =>
            job.keyed = 0 \/ eventDeleted]_eventQrVars

\* Pages, imports and workers that issue at once stay within what the event is entitled
\* to, and leave nothing behind in a deleted event (withEventQrQuota, issuePass).
IssuanceSound ==
    /\ [](QrsTypeOK /\ DeletedEventHasNoQr)
    /\ IssuedWithinQuota /\ KeyAnsweredOnce

-----------------------------------------------------------------------------
(* The inductive invariant behind them.                                    *)

QrsTyped ==
    /\ QrsTypeOK
    /\ issued \in Nat /\ live \in Nat
    /\ page \in [Page -> [at : {"AWAY", "EVENT", "DELETING", "FORM", "ADDING",
                                "ISSUING", "PRINTING"},
                         total : Nat, filtered : BOOLEAN, left : Nat, got : SUBSET Nat]]
    /\ job \in [accepted : BOOLEAN, tries : Nat, keyed : 0..1,
                outcome : {"NONE", "ISSUED", "REFUSED"}]

\* A page that issues has a row to issue, and one that prints has all the badges of
\* the parts it has asked for, of the list that it shows.
PageConsistent(p) ==
    LET x == page[p] IN
    /\ x.at = "ISSUING" => x.left > 0
    /\ ~x.filtered /\ ~eventDeleted => x.total <= live
    /\ x.at = "PRINTING" =>
         /\ x.left <= Parts(x.total)
         /\ ~x.filtered =>
              \A q \in 1..x.total : q <= (Parts(x.total) - x.left) * PartSize => q \in x.got

QrsIInv ==
    /\ QrsTyped /\ DeletedEventHasNoQr
    /\ \A p \in Page : PageConsistent(p)

=============================================================================
