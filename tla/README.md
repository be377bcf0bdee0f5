# AccessQSI in TLA+

This directory holds TLA+ models of AccessQSI: the server (`BackendAccessQ`), the operations of the
administration console (`AdministrationAccess`) that change the same rows, and the pages of `frontendAccessQ`
whose requests race. TLC checks them on small instances; TLAPS checks proofs of their main
properties for every value of the constants. Paths below are relative to `BackendAccessQ/src/` unless they
say otherwise.

The models are about what happens between the statements of the code: a Node process serves many requests
at once, two timers work in the background, several processes may run, browsers send requests that are answered late, out of
order or never, and pawaPay answers late, twice or not at all. PostgreSQL transactions are atomic steps where they are
serializable or lock the row they decide on; where they are not, their statements are steps of their own. Everything awaited
between two transactions is a point where others may step in.

## Inventory

| Component | State | Operations | What is hard | Module |
|---|---|---|---|---|
| Paid tickets (`services/ticket_payment.service.js`) | `ticket_payments`, a registration, a ledger entry | `initiate`, callback, polling, `reconcilePending`, `fulfil`, expiry | read – ask pawaPay – write, by callers that overlap; holds that lapse; uncertain answers | `TicketPayments` |
| The buyer's page (`register/[slug]/page.jsx`) | the key of an attempt, the payment shown | pay, poll, retry, change operator | lost answers, reloads, a price that changes | `Checkout` |
| Price split and balance (`config/ticketing.js`) | amounts of payments, entries of the ledger | split, credit, request of a payout | rounding, precisions that differ, rates that change | `SalesBalance` |
| Organizer payouts (`organizer_payout.service.js`, console `finance.controller.js`) | `organizer_payouts`, `organizer_ledger_entries` | request, cancel, approve, reject, submit, check, fail | money sent or given back, never both; interrupted submissions | `OrganizerPayouts` |
| Ticket refunds (same files) | `ticket_refunds` | request, submit, check, end | as payouts; a failed refund is asked again under a new identifier in the same row | `TicketRefunds`; how a payment comes to be reviewed in `TicketPayments` |
| Registrations and jobs (`registration.service.js`, `registration_job.service.js`, `workers/registration.worker.js`) | `registrations`, `registration_jobs` | submit, claim, issue, e-mail, complete, fail, retry | leases that expire under a worker, crashes, retries meanwhile | `RegistrationJobs` |
| Registration forms (same, `register/[slug]/page.jsx`) | forms, free offers, keys | create, update, open, close, submit | offers that go while visitors submit; submissions repeated | `RegistrationForms` |
| Pass issuance and the event's quota (`pass_issuance.service.js`, `organization_quota.service.js`) | `qr_codes`, `pass_issuance_requests` | issue by hand, from a file, from a job; download | the last one of the quota, idempotency, a deleted event | `EventQrs` |
| Scanning and administration of a pass (`qr_verify.service.js`, `qr_policy`, `qr_status`, `qr_period`, `api.qr.controller.js`) | `qr_codes`, `scan_logs` | scan, revoke, restore, recharge | the last use, several gates, the end of a period, decisions on a row read before | `QrScans` |
| Gates and the box page (`scan/page.jsx`, `box/tickets/[id]/page.jsx`, `box_qr.service.js`) | what a phone shows, the rotating code | read, ask, show; load, reload, capture | lost answers, screenshots | `GateScans` |
| Holder photos (`qr_photo.service.js`, `HolderPhotoModal.jsx`) | one photo, what browsers show | load, save, delete | late answers | `HolderPhotos` |
| Areas of an event (`event.service.js`) | `event_schedules` | create, update | READ COMMITTED | `EventSchedules` |
| Scan log, figures, reports (`scan_log.service.js`, `api.dashboard.controller.js`, `api.export.controller.js`, `dashboard/page.jsx`) | `scan_logs`, pages, files | list, count, export, purge | a log that grows while it is read | `ScanHistory` |
| Plan changes (`services/payment/*`, console `organization.controller.js`) | `payments`, `subscription_changes`, `refunds`, `subscriptions` | checkout, reconcile, apply, cancel, refund, trial, override | the plan may change under a change already paid for; a refund races a second reconciliation | `Subscriptions` |
| The page that sells plans (`dashboard/upgrade/page.jsx`, `policy.js`, `catalog.js`) | quotes, prices, terms | quote, pay, poll | answers out of order; prorated prices | `Billing` |
| Agents and areas against the plan (`organization_quota.service.js`, `policy.js`, `subscription.js`) | `user_q`, `areas`, the plan | create, revoke, restore, delete, enforce, override | stale lists and toggles | `PlanLimits` |
| Event passes and creation of events (`organization_quota.service.js`, `reconciliation.js`) | `event_passes`, `events` | buy, grant, consume, create | one pass chosen by two pages; late writes | `EventPasses` |
| Organizer accounts (`api.auth.controller.js`, `authMiddleware.js`, `utils/account.js`) | `user_q`, `session_version`, links | sign up, verify, log in, refresh, change, reset, suspend | hashing between read and write | `Accounts` |
| The participant's box (`attendee_auth.service.js`, `data_retention.service.js`) | codes, `attendees`, sessions | ask, verify, set a password, close | bounded attempts, one consumption, an address that changes hands | `Attendee` |
| Card templates and images (`custom_card_template.service.js`, `organization_asset.service.js`, `storage.service.js`) | templates, files, the default | create, edit, publish, delete, choose, upload | files outside the transaction; snapshots in cards | `CardTemplates` |
| Cards of QR codes (`card_template.service.js`, `api.qr.controller.js`, `registration_card.service.js`) | the copy of a template in `qr_codes` | draw, redraw, print | the template is modified, archived or deleted between resolving, keeping and printing | `Badges` |
| pawaPay (outside) | deposits, payouts, refunds | accept, reject, settle, call back | duplicated, late, lost | in each module that asks it |
| E-mail, drawing of cards, middleware, landing pages, console accounts, migrations, scripts | records, files | edition, reading | no protocol between processes | – |

How they interact: a paid deposit makes `fulfil` create a registration (its `ISSUE_PASS` job is queued in the
same transaction) and credit the organizer's ledger; free submissions create registrations directly; both share the
places of an offer (`heldPlaces`). The worker issues a pass under the event's quota and queues an e-mail job. The gates read and
count the pass, the dashboard reads the log they write. The ledger is the balance from which payouts are taken. The console approves
payouts and refunds payments. A plan, bought on the upgrade page, limits agents, areas, events and QR codes. One minute timer
(`workers/subscription.worker.js`) drives everything that waits for pawaPay and enforces plans that ran out; a 2 s loop drives the jobs.

What makes each correct: a ticket only for money received, one per payment, never more than the places; an organizer's money paid or
given back once, and amounts that add up; a registration gets one pass or is told that it failed, and what it is told is so; a pass opens
the gate as often as it allows and what screens show is so; a plan change takes effect once, paid for, on the plan it was quoted for, and
never after its refund; nothing is added beyond the plan; a session ends with the password it was opened with; a code opens a box once.

## Modules

| Module | Role |
|---|---|
| `TicketSales`, `PayoutFunds`, `Plans` | what ticketing, payouts and plan changes promise |
| `TicketPayments`, `OrganizerPayouts`, `Subscriptions` | implement them |
| `RegistrationJobs`, `QrScans`, `Accounts`, `PlanLimits`, `CardTemplates`, `EventPasses`, `Attendee`, `Billing`, `SalesBalance` | a component each |
| `GateScans` | extends `QrScans` by the screens around it |
| `EventQrs`, `EventSchedules`, `HolderPhotos`, `RegistrationForms`, `Checkout`, `ScanHistory`, `TicketRefunds`, `Badges` | components explored in the run of another, with which they share no variable |
| `MC*` | names for the model values, scenes and symmetry |
| `*_proofs` | theorems and proofs |

Where an `MC` module hosts several components it has a variable `scene`: in each initial state one component moves
and the others rest, since components that share no variable gain nothing from being interleaved. TLC could not combine liveness
properties of several specifications in one graph, so each liveness property is in a run whose specification has its fairness.

### TicketPayments

`status` and `held` are columns, `sales` and `refund` tell of rows; `tickets` counts registrations of a payment; `deposit` and `matches`
are pawaPay's side; `age` is the payment's age in the four steps the code distinguishes (5 min grace, hold, 24 h). `call` is what each
caller of `reconcile` remembers between its awaits: a caller reads (`BeginReconcile`), asks (`CheckDeposit`) and writes
(`Apply`). The code's `now` is fixed at the start of a call, so `graced` and `overdue` are kept in the call.
Only `fulfil` reads the payment again under a lock; the other writes are by identifier, and that is how they are modelled.
`usable` tells whether `snapshotOffer` can copy the offer's card template, which may be archived, deleted or published again, or be lost
and regained with the plan, at any time (`TemplateChanges`): while it cannot, every check of a completed deposit throws
(`SnapshotThrows`), and the worker's catch leaps over the expiry at 24 hours.

Abstractions: a deposit that does not match its payment is taken to be completed from its arrival, since the code never
looks at its status; a refund's row, once there, may end at any time and again, since stale writes of a submission or check open it again, which allows more than the code does
(the row itself is in `TicketRefunds`);
`ReleaseFailedRegistration` and `ReacquireCapacity` stand for all that `RegistrationJobs` may do with a sold ticket's place;
a request refused by a closed form is a request that does not happen; amounts and commission are in `SalesBalance`.
pawaPay receives a deposit request within the 5 min grace or never: the client gives up after 15 s.

### Checkout

One buyer's tab and its requests. `key` is kept until an answer ends the attempt (`EndsAttempt`); a payment is found by its key, refused if
the operator differs, created under the price that the same request read. Answers may be lost, the page closed and opened
again. Left out: the 404 of another account's payment, sign-out, the list of operators. What ends a payment is in `TicketPayments`.

### SalesBalance

One currency, in hundredths. A payment freezes price, rate, commission and share in the transaction that compares the price (`Reserve`); the
share is credited when it completes. A payout is requested against the account read before its transaction. `HalfUp` is
Decimal's rounding, `Whole` is `roundForProvider`. The last steps of payments and payouts are in `TicketPayments` and
`OrganizerPayouts`; in particular a payment that a stale write opens again (below, 1) is not here. With an operator without
decimals, rounding may take more than half of an amount of one or two units, and never more than the amount.

### OrganizerPayouts

One organization and one currency. `amount` and `reversed` are the payout and its reversal entry; `balance` is the sum
of the ledger. A worker claims (`ClaimPayout`), pawaPay answers (`SendPayout`), the worker writes (`SubmitAccepted`,
`SubmitRejected`, `SubmitUncertain`). Checks are a read, a question and a write as in `TicketPayments`. `CallStops` is a crash or an error.
Submissions under way end before the five minutes after which they count as interrupted (`SubmissionAges`).

Whether pawaPay may accept an identifier it once rejected is not said by the code; `RejectionsAreFinal` is a
constant for it. Were a rejection not final, two submissions of one payout (after `NOT_FOUND` put the claim back) could
have one rejected, the amount given back, and the other accepted; the theorem about `PayoutFunds` states the assumption, the
other theorems and the liveness property do not use it.

### TicketRefunds

One payment that is to be reviewed, its one row in `ticket_refunds`, pawaPay's refund under each identifier the console asked with (`Attempt`), and what each pass
of the worker or callback (`Runner`) has in hand. `submitRefund` is `ListRefund`, `ClaimRefund`, `SendRefund` and a write; `reconcileTicketRefund` is `BeginRefundCheck`,
`AskRefund` and a write. Writes claim the row by its key and status, whatever identifier it has by then, and two of them do not look at it at
all (`RefundSent`, `RefundUnderWay`). So the failure of an attempt may be written over a later attempt
(`finance.controller.js:136`, `organizer_payout.service.js`), and a check of the deposit may put the payment to review again over its refund
(`ticket_payment.service.js:18`, `:246`, `:295`): the payer may then be paid twice. `PaidBackOnce` and `ReviewIsSafe` state that there is no third way. What pawaPay rejected or ended is taken to be final; `RunStops` is a crash or an error of a check.
The deposit is still checked meanwhile, by callbacks that pawaPay repeats, polls and checks begun before the payment moved on: `BeginDepositCheck` reads a payment
that is not final, and `REFUND_PENDING` is not; what it writes is `DepositUnderWay`, `ExpirePayment`, `DepositMismatch` or `FulfilDeposit`. A mismatch is put to review
whatever the payment's status has become. `late` names each kind of write that crossed a refund, and `TicketOrMoney` says which of them it takes for the payer to have both.

### RegistrationJobs

A job row per registration and type, as the partial unique index says; `task` is the worker's position in the code with what it read. Every
write of `processIssuePass` and `processEmail` is a step; none of them asks whether the lease still runs. `LeaseExpires` may come at any
time, so a worker may be overtaken anywhere; `TaskStops` is a crash; `TaskErrors` an exception in the `try`.
Back-off, order of claims, contents of messages and the delivery rows are left out; attempts are counted up to `MaxAttempts`. A refusal by
the event (quota reached or event pass expired) is `IssueBlocked`, which may also come with quota left.

### RegistrationForms

A form with its free offers, an organizer who edits it, visitors and their requests. `BeginUpdate` – `CommitUpdate` is `updateForm` with the
read before its transaction; `FindExisting` – `RunSubmit` is `submit`. Places are counted in `RegistrationJobs`: here an offer may
be full at any time. As the code has it: an offer that was removed and is sent back without `isActive` is active again
(`api.registration.controller.js:37-50`, `registration.service.js:80`); closed and full are tested before a duplicate (`:274-290`); the key is kept after a 409.

### EventQrs

`issued` and `live` count the QR codes of an event by rank. Pages issue one, or a file row by row, or download badges in parts
(`DownloadPart` asks for those after the last rank it has); workers issue for the job of a registration under its key, two at
once. `Issuable` is the transaction of `withEventQrQuota`. With a filter a page downloads only some parts
(`events/[id]/page.jsx:590`, `:796`), so completeness is about the unfiltered list. The dashboard sends no idempotency key (`:378`).

### QrScans

One pass. `scan` is the period of the `now` a request took at its start; `log` counts the entries of `scan_logs` by the period of their
insertion, `granted` is a history variable: the scans let through, by the period they were judged in. `ScanGranted` is the
transaction under the row's lock. `restore` and `recharge` read in one step and write in another. Area, level, validity, rotating code and
event are one refusal that may always happen. A scan that waits for the lock does so for seconds, so it is no older than the previous period.
`scanned_at` is taken as the time of the insertion; the purge of old entries keeps far more than a period. `deleteQr` has no
caller; `DeleteEvent` stands for the deletion of the event with its passes.

### GateScans

Extends `QrScans`: a request of `QrScans` is read by a phone here (`ReadQr`), sent (`Ask`), answered (`Answer`), shown or lost. The box page of a "box only" pass
loads a code with each step; a code is its age in steps, of which those beyond `TooOld` are not told apart. `flash`, `camera` and `timers` are what a phone shows, whether it reads,
and its greens whose 2.5 seconds run; `asker` is the phone that waits for each request. Nothing keeps the camera off while a request is under way, and any answer is
shown over what the screen has by then: a phone at rest is `Calm`, and `OneAtATime` states that only an agent who starts the camera during a check gets out of it. `green` and
`unseen` count what was shown and lost; `loaded` is the age of the last code handed out. The page of the phone is taken to stay open, at one event and area:
the timers of a page that was left, and the choice made anew, are not followed.

### EventSchedules and HolderPhotos

`EventSchedules`: the statements of two `updateEvent`s and of deletions of areas, each seeing what is committed before it.
`HolderPhotos`: a photo is the rank of its save; browsers load, save, delete and close the window, answers come late or never. Seen and not stated as properties: the
window may show that it loads for ever (`HolderPhotoModal.jsx:25`, `:49`), a photo may be saved after its event was deleted.

### ScanHistory

The log is a sequence whose oldest days are purged; a report is a sequence of parts, each a set of lines (the order within a query is the database's). A list is a count and a page of rows, two reads; the page, its filters and refreshes
are the dashboard's. The seven counts of the curve each read the clock. A CSV report is one query, then
one temporary file named after the millisecond. As the code has it: two reports of one millisecond share a file (the property
exempts them); `loadScanLogs` has no sequence guard (`dashboard/page.jsx:80`), so the late answer of an earlier filter stays shown; midnight between two
counts leaves a day out; a failed report leaves its file.

### Subscriptions

One organization. `version` is `subscriptions.version`, `source` the version a change was opened on; `change`, `payment` and `refund` are the statuses
of the three rows (a payment belongs to one change, so they share an index), `periods` counts the rows of `subscription_periods` of a change. `deposit`
and `payback` are pawaPay's side. `call` is what a caller of `reconcilePayment` or `reconcileRefund` remembers between its awaits, as in
`TicketPayments`; `request` and `refunding` are the positions of the requests that ask pawaPay for the deposit and for the refund. The
transactions that lock the organization are `OpenChange`, `Complete*`, `RefundCompleted`, `ApplyScheduled`, `RequestCancellation`, `Cancel*Change`
and `OverridePlan`; all others write by identifier, whatever the rows have become. `RefundFailed` and `RestoreChange` may be refused by the
unique index on open changes (`IndexFree`). `startProTrial` reads in two steps and writes in a third.

Abstractions: `kind` keeps of the type whether the change applies at once, at the end of the term, or is the cancellation; prices,
proration and the length of terms are in `Billing`, and `EndTerm` may come at any time. `due` and `old` tell that a date has passed and
advance only while some code looks at them. Which of two open changes `cancelOpenChange` finds first is left open. The organization has its row in
`subscriptions` from the start (`ensureSubscription` creates it before any change refers to it). Event passes have their own module; old payments without a
change are not modelled. `withdrawn` is a history variable: the changes cancelled with no refund.

### Billing

The page's form, the quotes under way with whether the page still listens to them (`ListenedTo`), the payment it polls; on the server the
quote, the price at the click, the terms given. Time is in ticks and money in hundredths. Left out: offers of event passes, cancellation of a renewal, lists shown, the
retained selection (in `PlanLimits`), ENTERPRISE. A deposit settles after its initiation was answered.

### PlanLimits

Agents and areas in the order of their creation, the plan, what the worker listed as expired, the requests between their read and their lock. A plan in trial
counts as any paid one. Left out: the edition of an area, the page's own test of the quota. An enterprise contract is one more member of `Plan`.
A downgrade keeps what the customer selected (`Selections`, compared with the plan when it was asked for), then the oldest, up to what the new plan carries
(`Retained`). After a late downgrade more agents than the plan carries may stay active (`reconciliation.js:287`), which is why `FreePlanFits` speaks of plans given up or marked expired.

### EventPasses

The payment of a pass with its callers, as in `TicketPayments`; passes and events as sequences; pages that chose a pass or the plan before they create an event.
As the code has it: `updateEvent` does not ask again whether the event's pass is valid (`event.service.js:148`); a stale PROCESSING or a late
answer to the initiation opens a finished payment again (`reconciliation.js:372`, `checkout.js:224`); an Enterprise contract is in force when the console
writes it, whenever it starts (`ActivateEnterprise`), and until then its cycle begins with each request, so that no event counts (`BeforeContract`).

### Accounts

One member, several browsers, a request each. A request is a sequence of steps: it reads the row, hashes, and writes. `cookie` is what a browser
carries; `InForce` is what `authMiddleware` accepts. `changed` counts what a reset link did. Left out: the cooldown of verification mails, the
update that fails after a mail left, profile fields. As the code has it: `updatePassword` writes over a reset that came in between (`api.user.controller.js:177`); a
reset mail that fails erases a newer link (`api.auth.controller.js:431`); a resent verification stores its link before the mail leaves (`:383`).

### Attendee

The rows that one address has had, its codes, the browsers' pages and sessions. `Countable` and `Unused` are the conditions of the two guarded
updates of a code; retention closes a row and frees its address. `opened` and `guessed` are history. A request for a code goes on when its page is loaded
again or left: `mails` has those under way, `Mail` bounds how many at a time, and a code that a browser types may be any live one, since those that are live together were stored by requests
that overlapped. The other requests of a page are waited for. Renewing a session signs again the version
it carries. Refusals for a name or terms leave the code live. The deletion of old codes is left out.

### CardTemplates

Templates, images in the library and on disk, the default in its two records, cards with the template frozen in them, and each page's request between its
steps. A template shows at most one image, as its `background` or elsewhere: the deletion of an image looks for both, that of a template for backgrounds only
(`Referenced`). The address of an image is not checked, so an editor may name any that something knows (`Known`). Left out: the images of other organizations, plan capabilities, names and kinds of images, previews. `setDefault` and the deletion are atomic because their
`updateMany` locks the live rows. A default that was archived makes issuance by hand fail with `INVALID_CARD_TEMPLATE`.

### Badges

The QR codes with the template and the copy of the card they were drawn with; the organization's templates as status and revision; the requests that issue, redraw or
print, each with what it has read. A drawing reads the plan (`AskIssue`, `AskRedraw`), resolves a template or keeps the row's copy, and
writes both columns; a print reads rows and draws them one step later; the holder's print asks no plan. A card is its template and the revision of its
content: what is drawn follows from them. A badge that has a copy is never resolved again, which is what `SameCardUntilRedrawn` is
about. Left out: images (in `CardTemplates`), the drawing itself, the holder's name and photo.

## Runs

| Run | Instance | Distinct states | Shows |
|---|---|---|---|
| `ticket_payments` | capacity 1; two payments and a worker, or one payment with worker, callback and polling, or with worker and callback under a template that comes and goes | 162 445 | `TicketOnlyIfPaid`, `NeverOversold`, `SalesSpec`; the liveness property `PaidIsServed` |
| `organizer_payouts` | balance up to 1; two payouts and a worker, or one payout with worker and callback | 6 682 | `StatusTruthful`, `FundsSpec`; the liveness property `ApprovedIsSettled` |
| `registration_jobs` | 2 registrations, 1 place, quota 1, 2 workers, 1 attempt per job | 1 959 983 | `PlacesFit`, `PassesSound`, `ShownIsReal` |
| `registration_jobs_live` | 1 registration, 1 worker, 3 attempts | 3 581 | the liveness property `JobsSettle` |
| `qr_scans` | scenes: a pass with 2 scanners, a phone, an administrator, limits of 1 that recharges raise up to 3, 2 periods, or 2 administrators without recharges and screenshots, or an agent in a hurry without revocations, screenshots and loads that fail; an event with 2 pages, 2 workers, quotas 1 to 3; its areas with 2 editors, 2 areas, 3 updates; a photo with 2 browsers, 2 saves | 1 415 399 | `UsageKept`, `OverrunBounded`, `ShownIsAccounted`, `OldCodesAreDead`; `IssuanceSound`, `DownloadIsComplete`; `SchedulesWhole`; `PhotoIsNotOlder` |
| `subscriptions` | scenes: 1 change, callback, worker, trial offered, overrides up to version 2; an account with 2 browsers, 2 passwords, 2 links | 1 624 706 | `RefundedNotGranted`, `PlansSpec`; `SessionsFollowPassword`, `AccountsIInv` (with `ResetOnce`) |
| `plan_limits` | the free plan and paid ones, 1 page, 1 worker | 326 228 | `FreePlanFits`, `GrowsWithinPlan`; the liveness property `LapsedPlanSuspends` |
| `card_templates` | scenes: 2 templates with 1 image drawn, 1 template with 2 images; 1 card, 2 pages, a library of 1; a QR code whose badge is drawn twice and printed by 2 requests, a template of 2 revisions | 1 759 043 | `LibrarySound`, `TemplatesSound`; `BadgesHold` |
| `event_passes` | 1 deposit, callback, worker, 2 pages, 2 events, 1 month | 596 688 | `EventsArePaidFor`; the liveness property `PaidPassIsGranted` |
| `attendee` | scenes: an address with 2 browsers, 2 requests for a code at a time, 2 codes, 2 tries, 2 accounts, or 3 codes in ten minutes while nobody secures the box; a form with 1 visitor, 2 requests, 2 offers; a buyer with 2 keys, 2 prices, 2 operators; a log of 3 scans over 2 days, pages of 1 row | 1 699 921 | `BoxIsKept`; `SubmissionsHold`; `AttemptBuysOnce`; `PagesLeaveNoGap`, `FiguresHold` |
| `billing` | scenes: 1 payment, 2 quotes, monthly offers of two plans, accounts in currencies with 2 and 0 decimals; 2 sales at 100 or 105 and 1 payout; a refund asked for once or twice, 2 runners that check it and the deposit | 2 951 290 | `PageSound`, `GrantsWhatIsPaid`; `AmountsHold` (`AmountsFair`, `BooksBalance`); `RefundsHold` (`PaidBackOnce`, `ReviewIsSafe`, `RefundedIsPaid`, `TicketOrMoney`) |
| `no_second_purchase` | the buyer of `attendee` alone | | the disagreement below |

Each passing run ends, without symmetry but where the `MC` module defines it: over members that no definition tells apart, and
never in a run that checks liveness.

Bounds. Two callers suffice for each stale write and each race for the last place, code, quota or use; a third adds no kind of
step, and the theorems hold for any number. Counters that grow (saves, updates, versions, quotes, tries, stamps) stop at a bound in a guard, named
`Max…`, `Last…` or `End…`, large enough for a value to be read, replaced, and replaced again. `MaxBalance` stops sales once the balance is full;
`MaxLimit` stops recharges, `LastPeriod`, `LastDay` and `MaxNow` stop time. The safety run of the jobs has one attempt per job, since with two it does
not end in minutes; the liveness run has three and the theorems any number. The list of scans is loaded once in its run (`MaxLoads`), so that overlapping loads are the theorem's (`PagesSkipNothing`). One plan change is enough for the races about its own payment, refund
and version, since the trial and the administrator (`MaxVersion`) replace the plan from outside. `CHECK_DEADLOCK FALSE` stands where
everything may come to its end: payments, plans, pages that hold their last request.

Fairness. Each worker's steps are fair: the minute timer lists what is open again and again, so that a check that fails is
repeated, and pawaPay does not fail every one of them for ever (strong fairness of `Reconcile`, `CheckDeposit` and what follows; weak
fairness where the step stays enabled, as in `PlanLimits`). Nothing is assumed of callbacks, buyers, organizers or
administrators. In `TicketPayments` this takes the 50 payments of a pass never to be filled by payments that cannot be reconciled. Nothing is assumed of
the card template there: a snapshot that throws is one of the outcomes of a fair check, and `PaidIsServed` promises service only where the template stays usable from some moment on.
`ApprovedIsSettled` supposes that in the end callbacks come only for settled payouts (`CallbacksAreFinal`) and is checked with one worker;
`JobsSettle` supposes that crashes end and that the organizer retries only what no job has in hand (`IdleRetriesSpec`) – without
the latter it is false (below, 3) – and is checked with one worker, since the stale writes of an overtaken worker can undo an outcome.

## Where the code and what it says differ

`no_second_purchase` shows one. A comment of the registration page says that a double click or a reload makes no second purchase
(`register/[slug]/page.jsx:13`). If the answer to a click is lost and the payment completes, the next click, under the same key, is answered with that completed
payment; the page drops the key (`:115`), shows the payment without following it (`:117`), and offers to try again: the retry has a new key, and a second
payment is taken. (`AttemptBuysOnce` says what does hold.)

Others came up and have no run of their own; modelling each as the code has it, the properties above hold nevertheless.

1. A late unconditional write sets a fulfilled payment back to an open status; after its hold, with the offer full, it goes to
   review and can be refunded although its ticket stays (`ticket_payment.service.js:214`, `:316`).
2. `initiate` says that the price may have changed since it was displayed (`ticket_payment.service.js:148`), but it compares the price with
   the one that the same request has just read; the page sends none.
3. A retry between the release of a registration and the end of its job leaves it waiting without a job (`registration_job.service.js:15`).
4. If completing a job fails in its last attempt, after the pass is recorded, the place is released although the pass is valid
   (`workers/registration.worker.js:76`).
5. A recharge that read the row before a revocation makes the pass active again (`api.qr.controller.js:551`).
6. Scans that wait for the lock over the end of a period exceed its limit (`qr_verify.service.js:82`); `OverrunBounded` says how far.
7. The status shown and the status filtered on differ for a restored pass at its limit and for used-up ones that expire
   (`utils/qr.service.js:9-30`, `utils/qr_status.service.js:8-16`).
8. Reconciling the deposit of a change that is being refunded puts the change to review, which is not an open status: another change may be
   opened while the refund runs (`payment/reconciliation.js:123`).
9. An upgrade quoted at a prorated price and paid after the term ended is given a whole new term (`payment/reconciliation.js:281`), where the guide keeps
   the date of the end (`scripts/generate-subscription-guide.js:270-271`); `GrantsWhatIsPaid` leaves this case out.
10. The button that revokes an agent may restore one: it is a toggle over a row that another page changed (`dashboard/agents/page.jsx:191`).
11. The image of a template may be deleted between the test that nothing uses it and the deletion (`organization_asset.service.js:93`).
12. The sign-in stores the address as it was typed, the other paths its normal form (`api.auth.controller.js:278`).
13. The failure of a refund is written to the row by its key, not by the identifier that failed (`organizer_payout.service.js:279`): written late, after the
   console asked again, it fails the newer attempt, which may still pay, and the console may ask once more; `RefundsHold` excepts this.
14. `REFUND_PENDING` is not among the final statuses of `reconcile` (`ticket_payment.service.js:18`): a deposit's callback repeated while the refund is under way puts the payment to review
   (`:246`, `:295`), where the console offers a second refund under a fresh identifier (`finance.controller.js:124-136`), or, if a place is free by then, gives the ticket (`:248`). A mismatch found
   by an older check does so even over `REFUNDED`. `RefundsHold` excepts these too.
15. A paid purchase whose card template was archived or deleted, or whose plan lost the capability, is neither served nor put to review while that lasts: `snapshotOffer` throws on every pass
   (`ticket_payment.service.js:233`, `pass_issuance.service.js:28-42`), and the catch at `:356` leaps over the expiry of `:353`. Fifty such payments fill every pass (`:348`).
16. An Enterprise contract that starts later is in force at once (`organization.controller.js:226-228`), and until it starts the month's quota of events binds nothing (`config/subscription.js:190`);
   `EventsArePaidFor` excepts this.
17. The agent's page offers the camera while a check is under way (`scan/page.jsx:282`, `:351`): the later answer replaces the first on the screen, and the timer of a green (`:175`) clears whatever is shown by then.
18. The deletion of a template removes the file of its background unless another template has it as background, a card was made from it or the library lists it (`custom_card_template.service.js:264-283`): one that shows it as its logo or in its scene keeps a dead address.
19. A request for a code outlives the page that made it (`attendee_auth.service.js:56-72`): one browser that reloads may leave several codes live, each with its own tries.

## Proofs

All theorems are for every value of the constants that satisfies the modules' `ASSUME`s. Each safety theorem is proved from an inductive
invariant, which TLC checked on the instance of its run first: it holds initially, every action preserves it (one step
per action, one lemma per action where it is long) and it implies the property.

- `TicketPayments_proofs` – `TypeCorrect`, `InvariantHolds`, `OnlyPaidTickets`, `OfferNotOversold`, `ImplementsSales`. The difficulty is
  that open holds themselves may exceed the capacity, since a late write may reopen a failed payment. What never exceeds it is
  the seats with the payments that may still be paid within their hold (`PlacesSuffice`): no stale write closes such a payment (`LiveIsOpen`),
  because what a caller carries stays true of the deposit (`CallTruthful`).
- `OrganizerPayouts_proofs` – `TypeCorrect`, `InvariantHolds`, `StatusesAreTruthful`, `ImplementsFunds` (the last one assumes `RejectionsAreFinal`). Answers that
  callers carry stay true of pawaPay; what has been given back was never accepted, or failed, there (`MoneyBackStays`). Of the amounts:
  `SalesInvariantHolds`, `AmountsStayFair`; what is frozen in a payment needs no more than the prices and rates of that moment. `BooksStayBalanced`,
  `AmountsAlwaysHold`: sums over any finite sets of sales and payouts are characterized by what one more member adds to them (`SetInduction`: induction stated of a set of numbers,
  not of an operator), then each step changes one term of the sums and the ledger alike. Of the refunds: `RefundsAlwaysHold`; as long as no failure has
  crossed and no check put the payment to review over its refund, every attempt but the row's has ended at pawaPay, and so has the row's when the payment is to be reviewed (`EarlierEnded`); unless
  a check wrote over a refund, none is asked for before or after a ticket (`TicketFirst`).
- `RegistrationJobs_proofs` – `TypeCorrect`, `InvariantHolds`, `PlacesAreBounded`, `PassesAreSound`, `ShownPassesAreReal`. What a worker is about to
  record was issued, and an e-mail job is only ever that of a recorded pass, whoever holds the lease.
- `QrScans_proofs` – of the pass: `InvariantHolds`, `PassesNotOverused`, `OverrunIsBounded`; a past period was full when it ended, or
  has room but for the scans that began in it and still wait (`PeriodConsistent`). Of the screens around it: `GateInvariantHolds`,
  `ScreensAreAccounted`, whose `OneAtATime` is one more induction, over a calm phone's steps; `OldCodesStayDead`, since every code on its way came from the server and is no newer than the last one
  handed out (`NotNewer`). Of issuance: `QrsInvariantHolds`, `IssuanceIsSound`, `DownloadsAreComplete`; ranks are given in order, so
  that the parts downloaded are a prefix. Of the areas: `SchedulesStayWhole`, whose invariant says that what an update has seen and will delete is
  whole too (`UpdateConsistent`). Of the photo: `PhotosStayNew`; a window waits for one photo at most, and that one is no
  older than what it has had to do with (`WindowConsistent`).
- `Subscriptions_proofs` – `TypeCorrect`, `InvariantHolds`, `RefundedNeverGranted`, `ImplementsPlans`. Statuses alone prove little here, for a late
  write may put any of them back. What does not go back is the version: a period of a change came from a version older than the present
  one (`GrantedBefore`), so the version test refuses a second. A refund that may still complete keeps its change out of the two statuses from
  which it could take effect (`Refundable`), and a withdrawn change has no refund that could fail and schedule it again (`WithdrawnStays`).
  Of the accounts: `AccountsTypeCorrect`, `AccountsInvariantHolds`, `SessionsFollow`, `LinksServeOnce`; whatever claims to be of a version was opened
  with that version's password, and what a request read before it hashed is of a version that was the account's.
- `PlanLimits_proofs` – `TypeCorrect`, `InvariantHolds`, `FreePlanIsKept`, `GrowthIsBounded`: only a paid plan can run out, so that what the worker
  has listed is never the free plan. Of the page that sells plans (`Billing`): `PageInvariantHolds`, `PageStaysSound`; a request that is still listened
  to asked for what the form shows now (`AnswersSettle`), and no step of the server changes what the page was told of an opened payment (`RowsKept`).
  `WorthInvariantHolds`, `PaymentsAreWorth`: what a payment costs was computed at some earlier time from the organization as it was then
  (`Priced`), and the rest is arithmetic, in lemmas about prices, rounding and terms that the SMT solver is given one product at a time. The assumption
  `PricesOK` says that prices are whole multiples of a unit, that a year is a whole number of terms, and that organizations start in a state the code
  leaves them in (`OrgSound`): a trial ends no later than the term it belongs to (`subscription.js:94`).
- `CardTemplates_proofs` – `InvariantHolds`, `LibraryIsSound`, `TemplatesStaySound`: what requests hold between their read and their write is a
  template that was published and stays so or is gone. Of event passes: `PassesInvariantHolds`, `EventsStayPaidFor`; an answer about a deposit, however
  late, is still true of it (`AnswerTruthful`), a pass is inserted only for a payment without one, and has one event at most (`PassesAssigned`).
  Of badges: `BadgesAlwaysHold`; two copies of a row read at any times and of one drawing are of one card, and what was printed is what any copy of
  that drawing shows (`PrintSound`).
- `Attendee_proofs` – of the sign-in: `BoxInvariantHolds`, `BoxStaysKept`. The bound on the codes that are live is not a count that a step
  could keep: each live code was stored by a request in one of the places `Mail`, no two in the same (`Authored`), for who is about to replace the codes it saw has seen that of its own place.
  Of the registration forms: `FormsInvariantHolds`, `SubmissionsStayOnce`; what a visitor waits for was sent under the key it holds
  (`WaitsForItsOwn`), and requests that found nothing can only meet at the unique key. Of the checkout: `CheckoutInvariantHolds`,
  `AttemptsStayOne`; a tab has made one key more than it has had ends, at most (`AttemptsEnded`).
  Of the log: `HistoryInvariantHolds`, `PagesSkipNothing`; while scans are logged ranks only grow, so what the first pages reached stays
  reached (`Reaches`), whichever page comes next and however late. `FiguresAlwaysHold`, by a second invariant (`FiguresIInv`): what each of the counts has found
  is of one day, earlier than those counted before (`ChartDated`), and a report that is alone in its millisecond has the file to itself (`ReportKept`).

Only model-checked: liveness (`PaidIsServed`, `ApprovedIsSettled`, `JobsSettle`, `LapsedPlanSuspends`, `PaidPassIsGranted`), since fairness and
`ENABLED` are beyond the prover. Every other property that a passing run checks, invariant, action property or refinement, is a theorem.

## Not modelled

E-mail contents, the drawing itself of cards and badges, landing pages, console accounts, middleware other than sessions, migrations and scripts have no protocol
between processes. Old payments without a change, areas' own
edition, levels, and the deletion of old codes are left out; the notes of `PROJECT.json` say what else of each component is.
