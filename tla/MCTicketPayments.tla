-------------------------- MODULE MCTicketPayments --------------------------
(***************************************************************************)
(* Small instances of TicketPayments for TLC: two payments for one place   *)
(* and one worker, one payment that a worker, a callback and the poll of   *)
(* the buyer reconcile at once, or one payment that a worker and a         *)
(* callback reconcile under a card template that comes and goes. Only the  *)
(* worker is fair.                                                         *)
(***************************************************************************)
EXTENDS TicketPayments

CONSTANTS p1, p2, callback, polling, worker

VARIABLE scene

MCInit == Init /\ scene \in {"TWO_PAYMENTS", "THREE_CALLERS", "TEMPLATE"}

MCNext ==
    /\ Next
    /\ UNCHANGED scene
    /\ scene # "THREE_CALLERS" => call'[polling] = NoCall
    /\ scene # "TWO_PAYMENTS" => status'[p2] = "NO_ROW"
    /\ scene = "TWO_PAYMENTS" => call'[callback] = NoCall
    /\ scene # "TEMPLATE" => usable'

MCSpec == MCInit /\ [][MCNext]_<<vars, scene>> /\ Fairness

=============================================================================
