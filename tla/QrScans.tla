------------------------------- MODULE QrScans -------------------------------
(***************************************************************************)
(* One QR code at the gates: services/qr_verify.service.js with the policy *)
(* it applies, and the administrator's revocation, restoration and         *)
(* recharge (controllers/api.qr.controller.js). A scan takes the time when *)
(* its request begins and may then wait for the lock of the row; from there*)
(* on it is one transaction. Restoring and recharging read the row, decide *)
(* and then write it: two steps with anything in between.                  *)
(***************************************************************************)
EXTENDS Naturals, FiniteSets

CONSTANTS
    Scanner,     \* scan requests that may be under way at the same time
    Admin,       \* administration requests that may be under way
    UsageLimit,  \* usage_limit at creation; 0 is unlimited
    PeriodLimit, \* period_limit
    LastValid,   \* the period in which valid_until ends
    Credit,      \* passages that a recharge adds
    MaxLimit,    \* bound: no recharge takes usage_limit beyond it
    LastPeriod,  \* bound: the last period of the model
    NoScan       \* a scanner that waits for a pass

\* Calendar periods of the organization (day, week or month).
Periods == 0 .. LastPeriod

ASSUME QrConstantsOK ==
    /\ IsFiniteSet(Scanner)
    /\ Scanner # {}
    /\ UsageLimit \in Nat
    /\ PeriodLimit \in Nat \ {0}
    /\ LastValid \in Nat
    /\ Credit \subseteq Nat \ {0}
    /\ MaxLimit \in Nat
    /\ LastPeriod \in Nat
    /\ NoScan \notin Periods

VARIABLES
    status,     \* qr_codes.status
    limit,      \* qr_codes.usage_limit
    count,      \* qr_codes.scans_count
    deleted,    \* qr_codes.deleted_at is set
    period,     \* the current period
    scan,       \* for each scanner, the period of "now" of its request
    admin,      \* what each administration request is about to write
    log,        \* authorized entries of scan_logs, by the period of scanned_at
    granted     \* history: scans authorized, by the period they were judged in

rowVars == <<status, limit, count, deleted>>
logVars == <<log, granted>>
vars == <<rowVars, period, scan, admin, logVars>>

Init ==
    /\ status = "active"
    /\ limit = UsageLimit
    /\ count = 0
    /\ deleted = FALSE
    /\ period = 0
    /\ scan = [s \in Scanner |-> NoScan]
    /\ admin = [a \in Admin |-> "NONE"]
    /\ log = [d \in Periods |-> 0]
    /\ granted = [d \in Periods |-> 0]

Valid(d) == d <= LastValid

UsedUp == limit > 0 /\ count >= limit

-----------------------------------------------------------------------------
(* verifyAndRecordScan *)

BeginScan(s) ==
    /\ scan[s] = NoScan
    /\ scan' = [scan EXCEPT ![s] = period]
    /\ UNCHANGED <<rowVars, period, admin, logVars>>

\* Mutant of Admissible: the status is believed, the counts are not compared.
AdmissibleByStatus(now) == status = "active" /\ Valid(now)

\* getEffectiveQrStatus is active.
Admissible(now) == status = "active" /\ Valid(now) /\ ~UsedUp

\* Mutant of WithinPeriod: one passage too many.
PeriodOffByOne(now) == log[now] <= PeriodLimit

\* The entries of the period are counted under the lock, but it is the period of
\* the request's time, and an entry is recorded with the time of its insertion.
WithinPeriod(now) == log[now] < PeriodLimit

ScanGranted(s) ==
    /\ scan[s] # NoScan
    /\ ~deleted
    /\ Admissible(scan[s])
    /\ WithinPeriod(scan[s])
    /\ count' = count + 1
    /\ status' = IF limit > 0 /\ count + 1 >= limit THEN "used_up" ELSE status
    /\ log' = [log EXCEPT ![period] = @ + 1]
    /\ granted' = [granted EXCEPT ![scan[s]] = @ + 1]
    /\ scan' = [scan EXCEPT ![s] = NoScan]
    /\ UNCHANGED <<limit, deleted, period, admin>>

\* Refused, by the row or by what the row does not tell: another event, the area,
\* the level, the rotating code. Or the transaction fails. The row stays.
ScanRefused(s) ==
    /\ scan[s] # NoScan
    /\ scan' = [scan EXCEPT ![s] = NoScan]
    /\ UNCHANGED <<rowVars, period, admin, logVars>>

-----------------------------------------------------------------------------
(* The administrator *)

\* It reads the row only to find the organization, and writes in any case.
RevokeQr ==
    /\ status' = "revoked"
    /\ UNCHANGED <<limit, count, deleted, period, scan, admin, logVars>>

BeginRestore(a) ==
    /\ admin[a] = "NONE"
    /\ ~deleted
    /\ status = "revoked"
    /\ Valid(period)
    /\ ~UsedUp
    /\ admin' = [admin EXCEPT ![a] = "RESTORE"]
    /\ UNCHANGED <<rowVars, period, scan, logVars>>

RestoreQr(a) ==
    /\ admin[a] = "RESTORE"
    /\ status' = "active"
    /\ admin' = [admin EXCEPT ![a] = "NONE"]
    /\ UNCHANGED <<limit, count, deleted, period, scan, logVars>>

BeginRecharge(a) ==
    /\ admin[a] = "NONE"
    /\ ~deleted
    /\ status # "revoked"
    /\ Valid(period)
    /\ limit # 0
    /\ admin' = [admin EXCEPT ![a] = "RECHARGE"]
    /\ UNCHANGED <<rowVars, period, scan, logVars>>

\* One statement adds the passages and sets the status.
RechargeQr(a) ==
    /\ admin[a] = "RECHARGE"
    /\ \E c \in Credit : limit + c <= MaxLimit /\ limit' = limit + c
    /\ status' = "active"
    /\ admin' = [admin EXCEPT ![a] = "NONE"]
    /\ UNCHANGED <<count, deleted, period, scan, logVars>>

\* An error or a crash before the row is written.
RequestStops(a) ==
    /\ admin[a] # "NONE"
    /\ admin' = [admin EXCEPT ![a] = "NONE"]
    /\ UNCHANGED <<rowVars, period, scan, logVars>>

\* Deleting the event revokes and deletes its QR codes.
DeleteEvent ==
    /\ ~deleted
    /\ status' = "revoked"
    /\ deleted' = TRUE
    /\ UNCHANGED <<limit, count, period, scan, admin, logVars>>

\* A transaction ends within seconds: no scan is older than the previous period.
PeriodEnds ==
    /\ period < LastPeriod
    /\ \A s \in Scanner : scan[s] \in {NoScan, period}
    /\ period' = period + 1
    /\ UNCHANGED <<rowVars, scan, admin, logVars>>

-----------------------------------------------------------------------------
Scan(s) == BeginScan(s) \/ ScanGranted(s) \/ ScanRefused(s)

Request(a) == \/ BeginRestore(a) \/ RestoreQr(a) \/ BeginRecharge(a)
              \/ RechargeQr(a) \/ RequestStops(a)

Next == \/ \E s \in Scanner : Scan(s)
        \/ \E a \in Admin : Request(a)
        \/ RevokeQr \/ DeleteEvent \/ PeriodEnds

Spec == Init /\ [][Next]_vars

-----------------------------------------------------------------------------
(* Properties *)

\* The row, the requests under way and the journal are well formed.
TypeOK ==
    /\ status \in {"active", "revoked", "used_up"}
    /\ limit \in Nat
    /\ count \in Nat
    /\ deleted \in BOOLEAN
    /\ period \in Periods
    /\ scan \in [Scanner -> Periods \cup {NoScan}]
    /\ admin \in [Admin -> {"NONE", "RESTORE", "RECHARGE"}]
    /\ log \in [Periods -> Nat]
    /\ granted \in [Periods -> Nat]

\* A limited pass never opens more often than it was paid for, and one that says
\* it is used up is, however scans, recharges and restorations that read an older
\* row interleave (verifyAndRecordScan, rechargeQr, restoreQr).
UsageKept ==
    /\ limit > 0 => count <= limit
    /\ status = "used_up" => UsedUp

\* Around a change of period the scans that wait for the lock may exceed the limit
\* of the period that ends, by at most one less than there are of them; without
\* overlapping scans the limit is kept (verifyAndRecordScan, applyPeriodLimit).
OverrunBounded ==
    \A d \in Periods : granted[d] <= PeriodLimit - 1 + Cardinality(Scanner)

-----------------------------------------------------------------------------
(* The inductive invariant behind the safety properties *)

\* The scans still under way that will be judged in period d.
Late(d) == {s \in Scanner : scan[s] = d}

\* Nothing happens in a period to come. What is granted in the current period is in
\* its journal, so the limit holds; a past period either was full when it ended or
\* has room but for the scans that are late.
PeriodConsistent(d) ==
    /\ d > period => granted[d] = 0 /\ Late(d) = {}
    /\ d = period => granted[d] <= log[d] /\ granted[d] <= PeriodLimit
    /\ d < period =>
         \/ /\ log[d] >= PeriodLimit
            /\ granted[d] <= PeriodLimit - 1 + Cardinality(Scanner)
         \/ granted[d] + Cardinality(Late(d)) <= PeriodLimit - 1 + Cardinality(Scanner)

\* A recharge under way is that of a limited pass.
RechargesLimited == \A a \in Admin : admin[a] = "RECHARGE" => limit # 0

IInv ==
    /\ TypeOK
    /\ UsageKept
    /\ RechargesLimited
    /\ \A d \in Periods : PeriodConsistent(d)

=====
