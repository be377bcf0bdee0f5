----------------------------- MODULE TicketSales -----------------------------
(***************************************************************************)
(* What the paid ticketing of AccessQ promises, with no process, no time   *)
(* and no database: money is received for a purchase, a paid purchase may  *)
(* become a ticket, a ticket occupies a place of the offer until its place *)
(* is given back, and each ticket sold is credited once to the organizer.  *)
(* TicketPayments is shown to implement this specification.                *)
(***************************************************************************)
EXTENDS Naturals, FiniteSets

CONSTANTS
    Payment,    \* the purchases
    Capacity    \* the places of the offer

VARIABLES
    paid,       \* the purchases whose money was received
    sold,       \* the purchases that became a ticket
    seated,     \* the tickets that occupy a place
    credits     \* how many times each purchase was credited to the organizer

vars == <<paid, sold, seated, credits>>

Init ==
    /\ paid = {}
    /\ sold = {}
    /\ seated = {}
    /\ credits = [p \in Payment |-> 0]

\* Mobile Money collects the price of p.
Collect(p) ==
    /\ paid' = paid \cup {p}
    /\ UNCHANGED <<sold, seated, credits>>

\* A ticket is sold: only to a purchase that is paid and has no ticket yet,
\* only while a place is left, and with its credit in the same step.
Sell(p) ==
    /\ p \in paid \ sold
    /\ Cardinality(seated) < Capacity
    /\ sold' = sold \cup {p}
    /\ seated' = seated \cup {p}
    /\ credits' = [credits EXCEPT ![p] = @ + 1]
    /\ UNCHANGED paid

\* The place of a ticket that could not be issued is given back.
Release(p) ==
    /\ seated' = seated \ {p}
    /\ UNCHANGED <<paid, sold, credits>>

\* A ticket whose place was given back takes one again, if one is left.
Reseat(p) ==
    /\ p \in sold \ seated
    /\ Cardinality(seated) < Capacity
    /\ seated' = seated \cup {p}
    /\ UNCHANGED <<paid, sold, credits>>

Next == \E p \in Payment : Collect(p) \/ Sell(p) \/ Release(p) \/ Reseat(p)

Spec == Init /\ [][Next]_vars
==============================================================================
