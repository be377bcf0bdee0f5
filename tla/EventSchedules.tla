---------------------------- MODULE EventSchedules ----------------------------
(***************************************************************************)
(* The areas of one event (event.service.js updateEvent, the form of the   *)
(* event's page): two administrators save it at once while areas are       *)
(* deleted or suspended by the plan. An update is one transaction at READ  *)
(* COMMITTED, whose statements see what others committed before each.      *)
(*                                                                         *)
(* A row of event_schedules is its area and the rank of the update that    *)
(* wrote it, which stands for the dates; rank 0 is the event's creation.   *)
(***************************************************************************)
EXTENDS Naturals

CONSTANTS
    Editor,         \* browsers at the event's page
    Area,           \* areas of the organization
    MaxUpdates      \* bound: updates sent

ASSUME MaxUpdatesOK == MaxUpdates \in Nat

VARIABLES
    usable,     \* areas neither deleted nor suspended
    schedules,  \* rows of event_schedules of the event
    sent,       \* the areas each update carries, the creation first
    update      \* the update each editor waits for

scheduleVars == <<usable, schedules, sent, update>>

NoUpdate == [at |-> "NONE", rank |-> 0, seen |-> {}]

\* One row for each area, however often the request names it.
RowsOf(areas, rank) == {[area |-> a, rank |-> rank] : a \in areas}

\* createEvent asks for one usable area at least.
SchedulesInit ==
    /\ usable = Area
    /\ \E areas \in (SUBSET Area) \ {{}} :
         sent = [r \in {0} |-> areas] /\ schedules = RowsOf(areas, 0)
    /\ update = [e \in Editor |-> NoUpdate]

\* An area is deleted or suspended, or active again; the rows stay.
AreaChanges(a) ==
    /\ usable' = IF a \in usable THEN usable \ {a} ELSE usable \cup {a}
    /\ UNCHANGED <<schedules, sent, update>>

Ranks == 0..MaxUpdates
Last == CHOOSE r \in DOMAIN sent : r + 1 \notin DOMAIN sent

\* handleAreaChange toggles the areas that the event had when the form was loaded,
\* among those the organization had then.
FormAreas == SUBSET Area

\* handleUpdateEvent sends the whole form.
SendUpdate(e) ==
    /\ update[e] = NoUpdate /\ Last < MaxUpdates
    /\ \E areas \in FormAreas :
         sent' = [r \in 0..(Last + 1) |-> IF r \in DOMAIN sent THEN sent[r] ELSE areas]
    /\ update' = [update EXCEPT ![e] = [NoUpdate EXCEPT !.at = "SENT", !.rank = Last + 1]]
    /\ UNCHANGED <<usable, schedules>>

\* Mutant of AreasValid: none of the areas is unusable, and there may be none.
AreasValidOrNone(areas) == areas \subseteq usable

\* assertAreasBelongToOrg
AreasValid(areas) == areas # {} /\ areas \subseteq usable

CheckAreas(e) ==
    /\ update[e].at = "SENT" /\ AreasValid(sent[update[e].rank])
    /\ update' = [update EXCEPT ![e].at = "CHECKED"]
    /\ UNCHANGED <<usable, schedules, sent>>

\* Mutant of Swept: the areas that the event keeps are left alone.
SweptButKept(areas) == {s \in schedules : s.area \notin areas}

\* The rows that deleteMany meets, whatever their area.
Swept(areas) == schedules

\* A row that another update deletes and has not committed yet is waited for,
\* and is gone then: the rows that one inserts are not met.
SweepRows(e) ==
    /\ update[e].at = "CHECKED"
    /\ update' = [update EXCEPT ![e].at = "SWEPT", ![e].seen = Swept(sent[update[e].rank])]
    /\ UNCHANGED <<usable, schedules, sent>>

CommitUpdate(e) ==
    /\ update[e].at = "SWEPT"
    /\ schedules' = (schedules \ update[e].seen)
                      \cup RowsOf(sent[update[e].rank], update[e].rank)
    /\ update' = [update EXCEPT ![e] = NoUpdate]
    /\ UNCHANGED <<usable, sent>>

\* The areas are refused, the event is not found, or the transaction fails.
UpdateFails(e) ==
    /\ update[e] # NoUpdate
    /\ update' = [update EXCEPT ![e] = NoUpdate]
    /\ UNCHANGED <<usable, schedules, sent>>

SchedulesNext ==
    \/ \E a \in Area : AreaChanges(a)
    \/ \E e \in Editor :
         SendUpdate(e) \/ CheckAreas(e) \/ SweepRows(e) \/ CommitUpdate(e) \/ UpdateFails(e)

SchedulesSpec == SchedulesInit /\ [][SchedulesNext]_scheduleVars

-----------------------------------------------------------------------------
(* Property.                                                               *)

\* However updates overlap or fail, the event keeps an area, and the rows of a
\* saved form stand or go together: no area is left with the dates of a form
\* whose other areas were replaced.
SchedulesWhole ==
    /\ schedules # {}
    /\ \A r \in Ranks :
         LET rows == {s \in schedules : s.rank = r} IN
         rows # {} => r \in DOMAIN sent /\ rows = RowsOf(sent[r], r)

-----------------------------------------------------------------------------
(* The inductive invariant behind it.                                      *)

SchedulesTypeOK ==
    /\ usable \subseteq Area
    /\ \E n \in Ranks : sent \in [0..n -> SUBSET Area]
    /\ update \in [Editor -> [at : {"NONE", "SENT", "CHECKED", "SWEPT"}, rank : Ranks,
                              seen : SUBSET [area : Area, rank : Ranks]]]
    /\ schedules \subseteq [area : Area, rank : Ranks]

\* The rows of an update are all there or none.
OfRank(rows, r) == {s \in rows : s.rank = r}
Entire(rows) ==
    \A r \in Ranks : OfRank(rows, r) # {} =>
        r \in DOMAIN sent /\ OfRank(rows, r) = RowsOf(sent[r], r)

\* What an update has met is rows of whole forms, and what it carries has an area.
UpdateConsistent(e) ==
    LET u == update[e] IN
    /\ u.at # "NONE" => u.rank \in DOMAIN sent
    /\ u.at \in {"CHECKED", "SWEPT"} => sent[u.rank] # {}
    /\ Entire(u.seen)

SchedulesIInv ==
    /\ SchedulesTypeOK /\ schedules # {} /\ Entire(schedules)
    /\ \A e \in Editor : UpdateConsistent(e)

=============================================================================
