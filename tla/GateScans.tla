------------------------------ MODULE GateScans ------------------------------
(***************************************************************************)
(* The two screens around QrScans: the agents' phones (scan/page.jsx) and  *)
(* the participant's page of a "box only" pass (box/tickets/[id]/page.jsx),*)
(* whose QR changes with every step of 30 seconds (box_qr.service.js). A   *)
(* phone reads a code, asks the server and shows its answer over whatever  *)
(* it shows by then; the answer may be lost although the passage was       *)
(* counted, and the agent then scans again, maybe while the first request  *)
(* still waits for the row. The button that starts the camera is there     *)
(* while a request is under way: a phone may have several.                 *)
(***************************************************************************)
EXTENDS QrScans

CONSTANTS
    Phone,      \* the agents' phones
    NoPhone,    \* a request that nobody waits for
    NoCode      \* no QR on a screen, or none to ask about

\* How many steps ago the server made a code; from TooOld on they are all alike.
AcceptedPastSteps == 1
TooOld == AcceptedPastSteps + 1
Ages == 0 .. TooOld

ASSUME GateConstantsOK ==
    /\ IsFiniteSet(Phone)
    /\ NoPhone \notin Phone
    /\ NoCode \notin Ages

VARIABLES
    flash,      \* the result that each phone shows; PHOTO is one granted, with a photo
    camera,     \* the camera of each phone is on
    timers,     \* the greens of each phone whose 2.5 seconds run
    asker,      \* the phone that waits for the answer of each request
    read,       \* the age of the code that a request is about, until it is made
    fresh,      \* the code of a request was accepted at its "now"
    answer,     \* the answer of a request that is on its way to the phone
    box,        \* the participant's page
    shown,      \* the age of the QR it shows
    capture,    \* the age of the QR on a screenshot of that page
    loaded,     \* history: the age of the last code that the server made
    green,      \* history: screens that said AUTORISE
    unseen      \* history: passages counted whose answer no phone showed

screenVars == <<flash, camera, timers>>
phoneVars == <<screenVars, asker, read, green>>
codeVars == <<box, shown, capture, loaded>>
serverVars == <<fresh, answer, unseen>>
gateVars == <<phoneVars, codeVars, serverVars>>

GateInit ==
    /\ Init
    /\ flash = [p \in Phone |-> "NONE"]
    /\ camera = [p \in Phone |-> FALSE]
    /\ timers = [p \in Phone |-> 0]
    /\ asker = [s \in Scanner |-> NoPhone]
    /\ read = [s \in Scanner |-> NoCode]
    /\ fresh = [s \in Scanner |-> FALSE]
    /\ answer = [s \in Scanner |-> "NONE"]
    /\ box = "HIDDEN"
    /\ shown = NoCode
    /\ capture = NoCode
    /\ loaded = NoCode
    /\ green = 0
    /\ unseen = 0

-----------------------------------------------------------------------------
(* The codes and the participant's page *)

Older(c) == IF c \in Ages /\ c < TooOld THEN c + 1 ELSE c

Age ==
    /\ shown' = Older(shown)
    /\ capture' = Older(capture)
    /\ loaded' = Older(loaded)
    /\ read' = [s \in Scanner |-> Older(read[s])]
    /\ UNCHANGED <<box, screenVars, asker, green, serverVars>>

StepEnds == Age /\ UNCHANGED vars

\* A period ends with a step.
DayEnds == PeriodEnds /\ Age

\* renderTicketQr makes a code for the current step.
RenderTicketQr == ~deleted /\ shown' = 0 /\ loaded' = 0

\* The image arrives with the time at which it ends. A failed load schedules no other:
\* an old QR stays on the screen until the page is hidden and shown again.
Load ==
    /\ \/ RenderTicketQr /\ box' = "SHOWN"
       \/ box' = "STOPPED" /\ UNCHANGED <<shown, loaded>>
    /\ UNCHANGED <<vars, capture, phoneVars, serverVars>>

ShowPage == box = "HIDDEN" /\ Load

ReloadQr == box = "SHOWN" /\ shown > 0 /\ Load

\* The page loses the focus.
ConcealQr ==
    /\ box # "HIDDEN"
    /\ box' = "HIDDEN"
    /\ shown' = NoCode
    /\ UNCHANGED <<vars, capture, loaded, phoneVars, serverVars>>

CaptureQr ==
    /\ shown # NoCode
    /\ capture' = shown
    /\ UNCHANGED <<vars, box, shown, loaded, phoneVars, serverVars>>

-----------------------------------------------------------------------------
(* The agent's phone *)

\* The requests of a phone that are under way.
Waiting(p) == {s \in Scanner : asker[s] = p}

\* "Demarrer la Camera": shown when nothing else is, a request under way or not.
StartScanner(p) ==
    /\ flash[p] = "NONE" /\ ~camera[p]
    /\ camera' = [camera EXCEPT ![p] = TRUE]
    /\ UNCHANGED <<vars, flash, timers, asker, read, green, codeVars, serverVars>>

\* The result goes, whichever it is, and the camera starts, if it was not on.
Restart(p) ==
    /\ flash' = [flash EXCEPT ![p] = "NONE"]
    /\ camera' = [camera EXCEPT ![p] = TRUE]
    /\ UNCHANGED <<vars, asker, read, green, codeVars, serverVars>>

\* "Reessayer" under what was refused, "Suivant" under a photo.
Dismiss(p) == flash[p] \in {"RED", "PHOTO"} /\ Restart(p) /\ UNCHANGED timers

TimerFires(p) ==
    /\ timers[p] > 0
    /\ timers' = [timers EXCEPT ![p] = @ - 1]
    /\ Restart(p)

\* "Annuler le scan", or the camera cannot be had.
StopScanner(p) ==
    /\ camera[p]
    /\ camera' = [camera EXCEPT ![p] = FALSE]
    /\ UNCHANGED <<vars, flash, timers, asker, read, green, codeVars, serverVars>>

Free(s) == asker[s] = NoPhone /\ scan[s] = NoScan

\* The camera, even under a result, reads a code and is stopped; the phone asks for its
\* position.
ReadQr(p, s) ==
    /\ camera[p] /\ Free(s)
    /\ camera' = [camera EXCEPT ![p] = FALSE]
    /\ asker' = [asker EXCEPT ![s] = p]
    /\ \E c \in {shown, capture} \ {NoCode} : read' = [read EXCEPT ![s] = c]
    /\ UNCHANGED <<vars, flash, timers, green, codeVars, serverVars>>

\* Mutant of Accepted: the step of the code is not compared.
AcceptedAnyStep(c) == c \in Ages

\* verifyDynamicCode, at the time of the request.
Accepted(c) == c <= AcceptedPastSteps

\* The request arrives: its "now" is taken.
Ask(s) ==
    /\ read[s] # NoCode
    /\ BeginScan(s)
    /\ fresh' = [fresh EXCEPT ![s] = Accepted(read[s])]
    /\ read' = [read EXCEPT ![s] = NoCode]
    /\ UNCHANGED <<screenVars, asker, green, answer, unseen, codeVars>>

Awaited(s) == asker[s] # NoPhone

\* A result is shown over what the phone shows, and nobody waits for the request.
ShowResult(s, f) ==
    /\ flash' = [flash EXCEPT ![asker[s]] = f]
    /\ asker' = [asker EXCEPT ![s] = NoPhone]
    /\ UNCHANGED <<vars, camera, fresh, codeVars>>

\* The token, the event or the area is refused, or there is no network.
AskFails(s) ==
    /\ Awaited(s) /\ read[s] # NoCode
    /\ ShowResult(s, "RED")
    /\ read' = [read EXCEPT ![s] = NoCode]
    /\ UNCHANGED <<timers, green, answer, unseen>>

\* Mutant of Answer: what was refused is answered like what was granted, with 200.
AnswerOk(s, a) ==
    /\ answer' = [answer EXCEPT ![s] = IF Awaited(s) THEN "GRANTED" ELSE "NONE"]
    /\ unseen' = unseen + (IF Awaited(s) \/ a = "REFUSED" THEN 0 ELSE 1)

\* The answer leaves, if a phone still waits for it.
Answer(s, a) ==
    /\ answer' = [answer EXCEPT ![s] = IF Awaited(s) THEN a ELSE "NONE"]
    /\ unseen' = unseen + (IF Awaited(s) \/ a = "REFUSED" THEN 0 ELSE 1)

Verify(s) ==
    /\ \/ fresh[s] /\ ScanGranted(s) /\ Answer(s, "GRANTED")
       \/ ScanRefused(s) /\ Answer(s, "REFUSED")
    /\ fresh' = [fresh EXCEPT ![s] = FALSE]
    /\ UNCHANGED <<phoneVars, codeVars>>

\* Mutant of Timed: the timer is set with a photo as well.
TimedAlways(f) == f # "RED"

\* Without a photo the screen frees itself.
Timed(f) == f = "GREEN"

ShowAnswer(s) ==
    /\ answer[s] # "NONE"
    /\ \E f \in IF answer[s] = "GRANTED" THEN {"GREEN", "PHOTO"} ELSE {"RED"} :
          /\ ShowResult(s, f)
          /\ timers' = [timers EXCEPT ![asker[s]] = @ + (IF Timed(f) THEN 1 ELSE 0)]
    /\ green' = green + (IF answer[s] = "GRANTED" THEN 1 ELSE 0)
    /\ answer' = [answer EXCEPT ![s] = "NONE"]
    /\ UNCHANGED <<read, unseen>>

\* "Erreur de connexion serveur", before or after the server has decided.
LoseAnswer(s) ==
    /\ Awaited(s) /\ read[s] = NoCode
    /\ ShowResult(s, "RED")
    /\ answer' = [answer EXCEPT ![s] = "NONE"]
    /\ unseen' = unseen + (IF answer[s] = "GRANTED" THEN 1 ELSE 0)
    /\ UNCHANGED <<timers, read, green>>

-----------------------------------------------------------------------------
Phones(p) ==
    \/ StartScanner(p) \/ Dismiss(p) \/ TimerFires(p) \/ StopScanner(p)
    \/ \E s \in Scanner : ReadQr(p, s)

Requests(s) == Ask(s) \/ AskFails(s) \/ Verify(s) \/ ShowAnswer(s) \/ LoseAnswer(s)

BoxPage == ShowPage \/ ReloadQr \/ ConcealQr \/ CaptureQr

Administration ==
    /\ RevokeQr \/ DeleteEvent \/ \E a \in Admin : Request(a)
    /\ UNCHANGED gateVars

GateNext ==
    \/ \E p \in Phone : Phones(p)
    \/ \E s \in Scanner : Requests(s)
    \/ BoxPage \/ StepEnds \/ DayEnds \/ Administration

GateSpec == GateInit /\ [][GateNext]_<<vars, gateVars>>

-----------------------------------------------------------------------------
(* Properties *)

\* Every AUTORISE on a phone is one passage counted on the pass, and every passage
\* counted was shown, is about to be shown, or is one whose answer was lost: with
\* lost answers and second scans no passage is shown twice or shown and not counted
\* (verifyToken, verifyScan).
ScreensAccounted ==
    count = green + unseen + Cardinality({s \in Scanner : answer[s] = "GRANTED"})

\* A screenshot opens nothing once the box has handed out no code for more than a
\* step, neither at a second phone nor on a page whose reload failed, however long the
\* phone takes between reading the code and asking (verifyDynamicCode).
OldCodesAreDead ==
    [][\A s \in Scanner : fresh'[s] /\ ~fresh[s] => loaded \in 0 .. AcceptedPastSteps]_gateVars

\* A phone does one thing at a time: a result on its screen is that of the last code it
\* has read, with no camera behind it, and no timer runs but that of a green.
Calm(p) ==
    /\ flash[p] # "NONE" => Waiting(p) = {} /\ ~camera[p]
    /\ camera[p] => Waiting(p) = {}
    /\ timers[p] = IF flash[p] = "GREEN" THEN 1 ELSE 0
    /\ \A s, t \in Waiting(p) : s = t

\* The agent starts the camera while an answer is awaited.
Hurries(p) == StartScanner(p) /\ Waiting(p) # {}

\* Only an agent in a hurry has results that replace each other, or that go with the timer
\* of another: the cameras and timers that start by themselves, the answers that come
\* late and those that are lost mix nothing up (startScanner, verifyToken).
OneAtATime ==
    /\ \A p \in Phone : Calm(p)
    /\ [][\A p \in Phone : Calm(p) => Calm(p)' \/ Hurries(p)]_gateVars

\* What agents read on a phone at the gate is so, and is of the pass that they have scanned.
ShownIsAccounted == []ScreensAccounted /\ OneAtATime

-----------------------------------------------------------------------------
(* The inductive invariant behind them, with IInv. *)

Codes == Ages \cup {NoCode}

GateTypeOK ==
    /\ flash \in [Phone -> {"NONE", "GREEN", "PHOTO", "RED"}]
    /\ camera \in [Phone -> BOOLEAN]
    /\ timers \in [Phone -> Nat]
    /\ asker \in [Scanner -> Phone \cup {NoPhone}]
    /\ read \in [Scanner -> Codes]
    /\ fresh \in [Scanner -> BOOLEAN]
    /\ answer \in [Scanner -> {"NONE", "GRANTED", "REFUSED"}]
    /\ {shown, capture, loaded} \subseteq Codes
    /\ {green, unseen} \subseteq Nat

\* A request is made, waits for the row and is answered in this order, and a phone waits
\* for what it has read and for what is answered.
AnsweredOnce ==
    \A s \in Scanner :
        /\ answer[s] # "NONE" => scan[s] = NoScan /\ Awaited(s)
        /\ read[s] # NoCode => scan[s] = NoScan /\ answer[s] = "NONE" /\ Awaited(s)

\* No code is about that is newer than the last one the server made.
NotNewer(c) == c # NoCode => loaded # NoCode /\ loaded <= c
CodesComeFromServer ==
    NotNewer(shown) /\ NotNewer(capture) /\ \A s \in Scanner : NotNewer(read[s])

GateIInv ==
    /\ IInv /\ GateTypeOK
    /\ AnsweredOnce /\ CodesComeFromServer /\ ScreensAccounted

=============================================================================
