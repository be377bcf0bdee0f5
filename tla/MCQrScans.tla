----------------------------- MODULE MCQrScans -----------------------------
(*************************************************************************)
(* The QR codes of one event. SCANS: two requests of a phone that does   *)
(* one thing at a time, an administrator and the page of the box at one  *)
(* QR code. RESTORES: with two administrators at once, but no recharge   *)
(* and no screenshot. HURRIES: with an agent who starts the camera while *)
(* an answer is awaited, but no revocation, screenshot or load that      *)
(* fails. QRS: two pages and two registration workers that issue the     *)
(* codes, parts of one badge. AREAS: two editors of the event's areas.   *)
(* PHOTOS: two browsers at the photo of one holder. But for the first    *)
(* three they share no variable, and what one does leaves the others     *)
(* where they are: each is explored while the others rest.               *)
(*************************************************************************)
EXTENDS GateScans, EventQrs, EventSchedules, HolderPhotos, TLC

CONSTANTS s1, s2, a1, a2, p1

VARIABLE scene

\* The same names stand for scanners, pages, editors and browsers.
ScanSymmetry == Permutations({s1, s2})

gates == <<vars, gateVars>>
others == <<eventQrVars, scheduleVars, photoVars>>

\* Those that rest have one initial state.
MCInit ==
    /\ GateInit /\ QrsInit /\ SchedulesInit /\ PhotosInit
    /\ scene \in {"SCANS", "RESTORES", "HURRIES", "QRS", "AREAS", "PHOTOS"}
    /\ scene # "QRS" => ~pass /\ planLimit = 1
    /\ scene # "AREAS" => schedules = RowsOf(Area, 0)
    /\ scene # "PHOTOS" => saves = 0

AllCalm == \A p \in Phone : Calm(p)

OneAdmin == admin[a2] = "NONE"

MCNext ==
    /\ UNCHANGED scene
    /\ \/ scene = "SCANS" /\ GateNext /\ UNCHANGED others
            /\ AllCalm' /\ OneAdmin'
       \/ scene = "RESTORES" /\ GateNext /\ AllCalm' /\ UNCHANGED <<limit, capture, others>>
       \/ scene = "HURRIES" /\ GateNext /\ UNCHANGED <<deleted, capture, others>>
            /\ status' # "revoked" /\ OneAdmin' /\ box' # "STOPPED"
       \/ scene = "QRS" /\ QrsNext /\ UNCHANGED <<gates, scheduleVars, photoVars>>
       \/ scene = "AREAS" /\ SchedulesNext /\ UNCHANGED <<gates, eventQrVars, photoVars>>
       \/ scene = "PHOTOS" /\ PhotosNext /\ UNCHANGED <<gates, eventQrVars, scheduleVars>>

MCSpec == MCInit /\ [][MCNext]_<<scene, gates, others>>

=============================================================================
