----------------------------- MODULE ScanHistory -----------------------------
(***************************************************************************)
(* The scan log as the dashboard reads it while the gates write it: the    *)
(* paged list (scan_log.service.js, dashboard/page.jsx loadScanLogs), the  *)
(* count of each day (api.dashboard.controller.js getOverviewStats) and    *)
(* the reports (api.export.controller.js). Each reads in several steps;    *)
(* scans are logged, midnight passes and old scans are purged in between.  *)
(*                                                                         *)
(* A scan is named by its place in the log. One event, one page of the     *)
(* dashboard; the reports come from several tabs.                          *)
(***************************************************************************)
EXTENDS Integers, Sequences, FiniteSets

CONSTANTS
    Badge,      \* the QR codes of the event
    NoBadge,
    Tab,        \* tabs that ask for a CSV report
    PageSize,
    PdfMaxRows,
    Days,       \* the days the dashboard counts
    KeptDays,   \* the purge spares younger scans
    LastDay,    \* bound on the days
    MaxScans,   \* bound on the scans
    MaxLoads,   \* bound on the requests of the list under way
    MaxStamps   \* bound on the milliseconds that reports begin in

ASSUME HistoryConstantsOK ==
    /\ PageSize \in Nat \ {0} /\ PdfMaxRows \in Nat /\ Days \in Nat /\ MaxStamps \in Nat
    /\ NoBadge \notin Badge

VARIABLES
    day,
    logged,     \* the scans: their day and badge, whether authorized
    purged,
    view,       \* the list: what is asked for, what is shown
    loads,      \* its requests under way
    walk,       \* history: pages shown one after the other, from the first
    chart,      \* the count of each day
    stamp,      \* the millisecond of the last report
    begun,      \* history: reports begun in each millisecond, 2 for several
    file,       \* the temporary files
    report,     \* each tab's CSV report
    pdf         \* the last PDF report

scanLogVars == <<day, logged, purged>>
listVars == <<view, loads, walk>>
reportVars == <<stamp, begun, file, report, pdf>>
historyVars == <<scanLogVars, listVars, chart, reportVars>>

Filters == [status : {"ANY", "DENIED"}, sort : {"NEWEST", "OLDEST"}]
FirstFilter == [status |-> "ANY", sort |-> "NEWEST"]

NoWalk == [pages |-> 0, filter |-> FirstFilter, seen |-> {}, there |-> {}, gone |-> {}]
NoChart == [next |-> Days, counted |-> <<>>, there |-> {}, today |-> 0]
NoReport == [at |-> "NONE", ofEvent |-> FALSE, ms |-> 0, lines |-> <<>>, asked |-> {}]
NoPdf == [rows |-> {}, notice |-> FALSE, log |-> {}]
NoFile == <<>>

HistoryInit ==
    /\ day = 0 /\ logged = <<>> /\ purged = {}
    /\ view = [filter |-> FirstFilter, page |-> 1, due |-> TRUE, loading |-> TRUE,
               shown |-> 1, pages |-> 1]
    /\ loads = {} /\ walk = NoWalk /\ chart = NoChart
    /\ stamp = 0 /\ begun = [s \in 1 .. MaxStamps |-> 0]
    /\ file = [s \in 1 .. MaxStamps |-> NoFile]
    /\ report = [t \in Tab |-> NoReport]
    /\ pdf = NoPdf

Kept == DOMAIN logged \ purged

-----------------------------------------------------------------------------
(* The gates, time and the purge.                                          *)

Midnight ==
    /\ day < LastDay /\ day' = day + 1
    /\ UNCHANGED <<logged, purged, listVars, chart, reportVars>>

LogScan ==
    /\ Len(logged) < MaxScans
    /\ \E b \in Badge, ok \in BOOLEAN :
         logged' = Append(logged, [day |-> day, badge |-> b, ok |-> ok])
    /\ UNCHANGED <<day, purged, listVars, chart, reportVars>>

\* Of the old scans, those of events that ended long ago too.
PurgeLog ==
    /\ \E old \in SUBSET {i \in Kept : logged[i].day <= day - KeptDays} :
         old # {} /\ purged' = purged \cup old
    /\ UNCHANGED <<day, logged, listVars, chart, reportVars>>

-----------------------------------------------------------------------------
(* The list. Its count and its rows are two reads, in any order.           *)

Matching(f) == {i \in Kept : f.status = "DENIED" => ~logged[i].ok}

Before(i, j, f) == IF f.sort = "NEWEST" THEN i > j ELSE i < j

Rank(i, f) == Cardinality({j \in Matching(f) : Before(j, i, f)})

\* Mutant of PageRows: the pages are numbered from zero.
PageRowsNext(f, page) ==
    {i \in Matching(f) : Rank(i, f) \in page * PageSize .. page * PageSize + PageSize - 1}

PageRows(f, page) ==
    {i \in Matching(f) : Rank(i, f) \in (page - 1) * PageSize .. page * PageSize - 1}

PagesFor(total) == IF total = 0 THEN 1 ELSE (total + PageSize - 1) \div PageSize

NotRead == {0}

\* A change of filter or of page is loaded 250 ms later; a later change replaces it.
ChangeFilter ==
    /\ \E f \in Filters \ {view.filter} :
         view' = [view EXCEPT !.filter = f, !.page = 1, !.due = TRUE]
    /\ UNCHANGED <<scanLogVars, loads, walk, chart, reportVars>>

TurnPage ==
    /\ ~view.loading
    /\ \E p \in {1, view.page - 1, view.page + 1, view.pages} \ {view.page} :
         /\ IF p < view.page THEN view.shown > 1 ELSE view.shown < view.pages
         /\ p >= 1 /\ (p > view.page => p <= view.pages)
         /\ view' = [view EXCEPT !.page = p, !.due = TRUE]
    /\ UNCHANGED <<scanLogVars, loads, walk, chart, reportVars>>

Ask ==
    LET q == [filter |-> view.filter, page |-> view.page, total |-> -1,
              rows |-> NotRead, there |-> {}, gone |-> {}] IN
    /\ Cardinality(loads) < MaxLoads
    /\ q \notin loads /\ loads' = loads \cup {q}
    /\ UNCHANGED <<scanLogVars, walk, chart, reportVars>>

LoadList ==
    /\ view.due /\ Ask
    /\ view' = [view EXCEPT !.due = FALSE, !.loading = TRUE]

Refresh ==
    /\ ~view.loading /\ Ask
    /\ view' = [view EXCEPT !.loading = TRUE]

ReadCount(q) ==
    /\ q.total = -1
    /\ loads' = (loads \ {q}) \cup {[q EXCEPT !.total = Cardinality(Matching(q.filter))]}
    /\ UNCHANGED <<scanLogVars, view, walk, chart, reportVars>>

ReadRows(q) ==
    /\ q.rows = NotRead
    /\ loads' = (loads \ {q}) \cup {[q EXCEPT !.rows = PageRows(q.filter, q.page),
                                              !.there = Matching(q.filter),
                                              !.gone = purged]}
    /\ UNCHANGED <<scanLogVars, view, walk, chart, reportVars>>

\* The pages shown one after the other, each asked for after the last was shown.
Walked(q) ==
    IF loads # {q} THEN NoWalk
    ELSE IF q.page = 1
           THEN [pages |-> 1, filter |-> q.filter, seen |-> q.rows, there |-> q.there,
                 gone |-> q.gone]
    ELSE IF q.page = walk.pages + 1 /\ q.filter = walk.filter
           THEN [walk EXCEPT !.pages = @ + 1, !.seen = @ \cup q.rows]
    ELSE NoWalk

\* Whatever was asked for since, the answer is shown.
ShowList(q) ==
    /\ q.total # -1 /\ q.rows # NotRead
    /\ view' = [view EXCEPT !.loading = FALSE, !.shown = q.page,
                            !.pages = PagesFor(q.total)]
    /\ walk' = Walked(q)
    /\ loads' = loads \ {q}
    /\ UNCHANGED <<scanLogVars, chart, reportVars>>

LoadFails(q) ==
    /\ view' = [view EXCEPT !.loading = FALSE]
    /\ walk' = NoWalk
    /\ loads' = loads \ {q}
    /\ UNCHANGED <<scanLogVars, chart, reportVars>>

-----------------------------------------------------------------------------
(* The days: one count after the other, the oldest first, each from a new  *)
(* reading of the clock.                                                   *)

InDay(i, d) == logged[i].day = d

OpenDashboard ==
    /\ chart' = [next |-> Days - 1, counted |-> <<>>, there |-> Kept,
                 today |-> day]
    /\ UNCHANGED <<scanLogVars, listVars, reportVars>>

CountDay ==
    /\ chart.next \in 0 .. Days - 1
    /\ chart' = [chart EXCEPT !.next = @ - 1,
         !.counted = Append(@, {i \in Kept : InDay(i, day - chart.next)})]
    /\ UNCHANGED <<scanLogVars, listVars, reportVars>>

-----------------------------------------------------------------------------
(* The reports. A CSV report is a temporary file that is named after the   *)
(* millisecond, written in two parts, sent and removed. A part is the set  *)
(* of its lines: a line names a badge, and one of its scans or none (0).   *)

Header == [badge |-> NoBadge, scan |-> 0]

LinesOf(scans) == {[badge |-> logged[i].badge, scan |-> i] : i \in scans}

\* Of an event, every badge is listed; one without a scan has a line all the same.
BadgeLines(b) ==
    LET scans == {i \in Kept : logged[i].badge = b} IN
    IF scans = {} THEN {[badge |-> b, scan |-> 0]} ELSE LinesOf(scans)

EventLines == UNION {BadgeLines(b) : b \in Badge}

\* Mutant of FileOf: one file for the reports of all.
FileOfAll(ms) == 1

FileOf(ms) == ms

\* Two reports may begin in one millisecond; the second empties the file.
BeginReport(t) ==
    /\ report[t].at \in {"NONE", "DONE"}
    /\ \E ms \in {stamp, stamp + 1} \cap 1 .. MaxStamps, ofEvent \in BOOLEAN :
         /\ stamp' = ms
         /\ begun' = [begun EXCEPT ![ms] = IF @ = 0 THEN 1 ELSE 2]
         /\ file' = [file EXCEPT ![FileOf(ms)] = <<{Header}>>]
         /\ report' = [report EXCEPT ![t] =
              [at |-> "BEGUN", ofEvent |-> ofEvent, ms |-> ms, lines |-> <<>>, asked |-> Kept]]
    /\ UNCHANGED <<scanLogVars, listVars, chart, pdf>>

ReadReport(t) ==
    /\ report[t].at = "BEGUN"
    /\ report' = [report EXCEPT ![t].at = "READ",
         ![t].lines = <<IF report[t].ofEvent THEN EventLines ELSE LinesOf(Kept)>>]
    /\ UNCHANGED <<scanLogVars, listVars, chart, stamp, begun, file, pdf>>

WriteReport(t) ==
    /\ report[t].at = "READ"
    /\ file' = [file EXCEPT ![FileOf(report[t].ms)] = @ \o report[t].lines]
    /\ report' = [report EXCEPT ![t].at = "WRITTEN"]
    /\ UNCHANGED <<scanLogVars, listVars, chart, stamp, begun, pdf>>

SendReport(t) ==
    /\ report[t].at = "WRITTEN"
    /\ report' = [report EXCEPT ![t].at = "SENT", ![t].lines = file[FileOf(report[t].ms)]]
    /\ UNCHANGED <<scanLogVars, listVars, chart, stamp, begun, file, pdf>>

RemoveFile(t) ==
    /\ report[t].at = "SENT"
    /\ file' = [file EXCEPT ![FileOf(report[t].ms)] = NoFile]
    /\ report' = [report EXCEPT ![t].at = "DONE"]
    /\ UNCHANGED <<scanLogVars, listVars, chart, stamp, begun, pdf>>

\* The file stays.
ReportFails(t) ==
    /\ report[t].at \in {"BEGUN", "READ"}
    /\ report' = [report EXCEPT ![t] = NoReport]
    /\ UNCHANGED <<scanLogVars, listVars, chart, stamp, begun, file, pdf>>

NewestScans(n) == {i \in Kept : Cardinality({j \in Kept : j > i}) < n}

Taken == NewestScans(PdfMaxRows + 1)

PrintPdf ==
    /\ pdf' = [rows |-> NewestScans(PdfMaxRows), notice |-> Cardinality(Taken) > PdfMaxRows,
               log |-> Kept]
    /\ UNCHANGED <<scanLogVars, listVars, chart, stamp, begun, file, report>>

ListNext ==
    \/ ChangeFilter \/ TurnPage \/ LoadList \/ Refresh
    \/ \E q \in loads : ReadCount(q) \/ ReadRows(q) \/ ShowList(q) \/ LoadFails(q)

ChartNext == OpenDashboard \/ CountDay

CsvNext(t) ==
    \/ BeginReport(t) \/ ReadReport(t) \/ WriteReport(t)
    \/ SendReport(t) \/ RemoveFile(t) \/ ReportFails(t)

LogNext == Midnight \/ LogScan \/ PurgeLog

HistoryNext == LogNext \/ ListNext \/ ChartNext \/ PrintPdf \/ \E t \in Tab : CsvNext(t)

HistorySpec == HistoryInit /\ [][HistoryNext]_historyVars

-----------------------------------------------------------------------------
(* Properties.                                                             *)

\* Whoever turns the pages one by one skips no scan, although scans are logged in
\* between: what comes before a scan that was shown was shown too (listForOrg reads
\* each page anew, by its number). A purge in between may hide some.
PagesLeaveNoGap ==
    purged = walk.gone =>
      \A i \in walk.there \ walk.seen, j \in walk.there \cap walk.seen :
        ~Before(i, j, walk.filter)

\* The curve of the last days counts no scan twice, whether scans are logged, purged
\* or midnight passes between the seven counts; if it does not pass, each scan of
\* these days that was there from the start to now is counted (getOverviewStats).
DaysCountOnce ==
    /\ \A d, e \in DOMAIN chart.counted :
         d # e => chart.counted[d] \cap chart.counted[e] = {}
    /\ chart.next = -1 /\ chart.today = day =>
         {i \in chart.there \ purged : logged[i].day > chart.today - Days}
           \subseteq UNION {chart.counted[d] : d \in DOMAIN chart.counted}

\* The rows of report r: its scans are the log's, those of when it was asked for are
\* all there, and of an event every badge is.
Whole(r, rows) ==
    /\ Header \notin rows
    /\ \A l \in rows : l.scan # 0 => l.scan \in DOMAIN logged /\ l.badge = logged[l.scan].badge
    /\ \A i \in r.asked \ purged : \E l \in rows : l.scan = i
    /\ r.ofEvent => \A b \in Badge : \E l \in rows : l.badge = b

WholeFile(r, parts) == Len(parts) = 2 /\ parts[1] = {Header} /\ Whole(r, parts[2])

\* A CSV report that alone began in its millisecond has its header first and once,
\* then the scans of the log it was asked of once each, and of an event every badge,
\* whatever other reports are written meanwhile (exportScansCSV).
ReportIsWhole ==
    \A t \in Tab :
      report[t].at \in {"SENT", "DONE"} /\ begun[report[t].ms] = 1 =>
        WholeFile(report[t], report[t].lines)

\* A PDF report that leaves scans out says so, and leaves out the oldest
\* (PDF_MAX_ROWS, exportScansPDF).
PdfTellsItsLimit ==
    /\ pdf.rows # pdf.log => pdf.notice
    /\ \A i \in pdf.log \ pdf.rows, j \in pdf.rows : i < j

\* The figures of the dashboard and the reports are those of the log.
FiguresHold == DaysCountOnce /\ ReportIsWhole /\ PdfTellsItsLimit

-----------------------------------------------------------------------------
(* The inductive invariant behind PagesLeaveNoGap.                         *)

HistoryTypeOK ==
    /\ logged \in Seq([day : Int, badge : Badge, ok : BOOLEAN])
    /\ day \in Int /\ purged \subseteq DOMAIN logged
    /\ view \in [filter : Filters, page : Int, due : BOOLEAN, loading : BOOLEAN,
                 shown : Int, pages : Int]
    /\ loads \subseteq [filter : Filters, page : Int, total : Int, rows : SUBSET Int,
                        there : SUBSET Int, gone : SUBSET Int]
    /\ walk \in [pages : Nat, filter : Filters, seen : SUBSET Int, there : SUBSET Int,
                 gone : SUBSET Int]

\* Of the scans that were there, the first pages have been seen, and none after one
\* that was not. Scans logged since only push them back.
Reaches(there, seen, f, pages) ==
    /\ there \subseteq Matching(f)
    /\ \A i \in there : Rank(i, f) < pages * PageSize => i \in seen
    /\ \A i \in there \ seen, j \in there \cap seen : ~Before(i, j, f)

\* So it is with what was shown,
WalkReaches ==
    /\ walk.gone \subseteq purged
    /\ purged = walk.gone => Reaches(walk.there, walk.seen, walk.filter, walk.pages)

\* and with rows that were read: as a first page, and as the next one.
LoadReaches(q) ==
    q.rows # NotRead =>
      /\ q.gone \subseteq purged
      /\ q.page = 1 /\ purged = q.gone => Reaches(q.there, q.rows, q.filter, 1)
      /\ q.page = walk.pages + 1 /\ q.filter = walk.filter /\ purged = walk.gone =>
           Reaches(walk.there, walk.seen \cup q.rows, walk.filter, q.page)

HistoryIInv == HistoryTypeOK /\ WalkReaches /\ \A q \in loads : LoadReaches(q)

-----------------------------------------------------------------------------
(* The inductive invariant behind FiguresHold.                             *)

\* What was logged, and of which day.
LogDated ==
    /\ logged \in Seq([day : Int, badge : Badge, ok : BOOLEAN])
    /\ day \in Int /\ purged \subseteq DOMAIN logged
    /\ \A i \in DOMAIN logged : logged[i].day <= day

\* The scans counted together are of one day, each time of a later one; those of the
\* days before the next one to count are counted, if midnight did not pass.
ChartDated ==
    LET counted == chart.counted
        next == chart.next
    IN  /\ chart \in [next : Int, counted : Seq(SUBSET DOMAIN logged),
                      there : SUBSET DOMAIN logged, today : Int]
        /\ chart.today <= day
        /\ \A d \in DOMAIN counted : \A i \in counted[d] : logged[i].day < day - next
        /\ \A d, e \in DOMAIN counted : \A i \in counted[d], j \in counted[e] :
             d < e => logged[i].day < logged[j].day
        /\ chart.today = day =>
             {i \in chart.there \ purged :
                chart.today - Days < logged[i].day /\ logged[i].day < chart.today - next}
               \subseteq UNION {counted[d] : d \in DOMAIN counted}

Line == [badge : Badge \cup {NoBadge}, scan : Nat]

ReportsTypeOK ==
    /\ stamp \in 0 .. MaxStamps /\ begun \in [1 .. MaxStamps -> 0 .. 2]
    /\ file \in [1 .. MaxStamps -> Seq(SUBSET Line)]
    /\ report \in [Tab -> [at : {"NONE", "BEGUN", "READ", "WRITTEN", "SENT", "DONE"},
                           ofEvent : BOOLEAN, ms : 0 .. MaxStamps, lines : Seq(SUBSET Line),
                           asked : SUBSET DOMAIN logged]]

\* A report that is alone in its millisecond has the file to itself.
ReportKept(t) ==
    LET r == report[t] IN
    r.at # "NONE" =>
      /\ r.ms # 0 /\ begun[r.ms] # 0
      /\ r.at = "READ" => Len(r.lines) = 1 /\ Whole(r, r.lines[1])
      /\ begun[r.ms] = 1 =>
           /\ r.at \in {"BEGUN", "READ"} => file[r.ms] = <<{Header}>>
           /\ r.at = "WRITTEN" => WholeFile(r, file[r.ms])
           /\ r.at \in {"SENT", "DONE"} => WholeFile(r, r.lines)

AloneInMs ==
    \A t, u \in Tab :
      report[t].at # "NONE" /\ report[u].at # "NONE" /\ report[t].ms = report[u].ms /\ t # u
        => begun[report[t].ms] = 2

ReportsKept == ReportsTypeOK /\ AloneInMs /\ \A t \in Tab : ReportKept(t)

FiguresIInv == LogDated /\ ChartDated /\ ReportsKept /\ PdfTellsItsLimit

=============================================================================
