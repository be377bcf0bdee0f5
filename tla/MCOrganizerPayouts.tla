------------------------- MODULE MCOrganizerPayouts -------------------------
(***************************************************************************)
(* Small instances of OrganizerPayouts for TLC: two payouts and one        *)
(* worker, or one payout that a worker and a callback handle at once. Only *)
(* the worker is fair.                                                     *)
(***************************************************************************)
EXTENDS OrganizerPayouts

CONSTANTS p1, p2, callback, worker

VARIABLE scene

MCInit == Init /\ scene \in {"TWO_PAYOUTS", "TWO_CALLERS"}

MCNext ==
    /\ Next
    /\ UNCHANGED scene
    /\ scene = "TWO_PAYOUTS" => call'[callback] = NoCall
    /\ scene = "TWO_CALLERS" => status'[p2] = "NO_ROW"

MCSpec == MCInit /\ [][MCNext]_<<vars, scene>> /\ Fairness

=============================================================================
