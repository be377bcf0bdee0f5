------------------------------ MODULE MCAttendee ------------------------------
(*************************************************************************)
(* The pages of the public and the dashboard's log. CODES: two browsers  *)
(* of one participant, two accounts of the address in turn and two       *)
(* codes. MAILS: three codes, while nobody secures the box or leaves it. *)
(* FORM: a visitor at a form with two free offers. CHECKOUT: the buyer   *)
(* of a paid offer. LIST, CHART and REPORTS: what an organizer reads of  *)
(* the scans. They share no variable, but for the log that the last      *)
(* three read: each is explored while the others rest.                   *)
(*************************************************************************)
EXTENDS Attendee, Checkout, ScanHistory, TLC

CONSTANTS b1, b2, m1, m2, v1, o1, o2

VARIABLE scene

\* The same names stand for browsers and tabs, and for requests of all kinds and badges.
Interchangeable == Permutations({b1, b2}) \cup Permutations({m1, m2})

\* Those that rest have one initial state.
MCInit ==
    /\ Init /\ FormsInit /\ CheckoutInit /\ HistoryInit
    /\ scene \in {"CODES", "MAILS", "FORM", "CHECKOUT", "LIST", "CHART", "REPORTS"}
    /\ scene # "FORM" => offers[o1] = "ACTIVE"
    /\ scene # "CHECKOUT" => price = 1

\* The badges of the scans matter to the CSV reports only, their outcome to the
\* list, the days to the chart. Two scans suffice for the CSV reports.
LogOf ==
    /\ scene # "CHART" => day' = 0
    /\ scene = "REPORTS" => Len(logged') < MaxScans
    /\ \A i \in DOMAIN logged' :
         /\ scene # "REPORTS" => logged'[i].badge = m1
         /\ scene # "LIST" => logged'[i].ok

ScansNext ==
    /\ \/ LogNext
       \/ scene = "LIST" /\ ListNext
       \/ scene = "CHART" /\ (ChartNext \/ PrintPdf)
       \/ scene = "REPORTS" /\ \E t \in Tab : CsvNext(t)
    /\ LogOf

\* The third code is sent while nobody secures the box or leaves it, in ten minutes.
BoxNext ==
    /\ Next
    /\ scene = "CODES" => Len(codes') < MaxCodes
    /\ scene = "MAILS" =>
        /\ lapsed' = 0
        /\ \A b \in Browser : page'[b].at # "HASHING"
        /\ \A r \in DOMAIN rows' : ~rows'[r].dormant

MCNext ==
    /\ UNCHANGED scene
    /\ \/ scene \in {"CODES", "MAILS"} /\ BoxNext /\ UNCHANGED <<registrationVars, checkoutVars, historyVars>>
       \/ scene = "FORM" /\ RegistrationsNext /\ UNCHANGED <<vars, checkoutVars, historyVars>>
       \/ scene = "CHECKOUT" /\ CheckoutNext /\ UNCHANGED <<vars, registrationVars, historyVars>>
       \/ scene \in {"LIST", "CHART", "REPORTS"} /\ ScansNext
            /\ UNCHANGED <<vars, registrationVars, checkoutVars>>

MCSpec == MCInit /\ [][MCNext]_<<scene, vars, registrationVars, checkoutVars, historyVars>>

=============================================================================
