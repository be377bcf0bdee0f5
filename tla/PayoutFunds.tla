----------------------------- MODULE PayoutFunds -----------------------------
(***************************************************************************)
(* What the payouts of AccessQ promise about an organizer's money, with no *)
(* process and no operator: the proceeds of the sales are available; a     *)
(* payout sets part of them aside; what is set aside is either sent to the *)
(* organizer or returned to what is available, once and never both.        *)
(* OrganizerPayouts is shown to implement this specification.              *)
(***************************************************************************)
EXTENDS Integers

CONSTANTS
    Payout,     \* the payouts of one organization in one currency
    Credit      \* the amounts a sale may credit

VARIABLES
    available,  \* what the organizer may still ask for
    amount,     \* what each payout set aside
    fund        \* where that money is

vars == <<available, amount, fund>>

Init ==
    /\ available = 0
    /\ amount = [p \in Payout |-> 0]
    /\ fund = [p \in Payout |-> "unused"]

\* A sale adds its net amount.
Earn(a) ==
    /\ available' = available + a
    /\ UNCHANGED <<amount, fund>>

\* A payout takes any part of what is available.
SetAside(p) ==
    /\ fund[p] = "unused"
    /\ \E a \in 1 .. available :
         /\ available' = available - a
         /\ amount' = [amount EXCEPT ![p] = a]
    /\ fund' = [fund EXCEPT ![p] = "aside"]

\* The money reaches the organizer's Mobile Money account.
Send(p) ==
    /\ fund[p] = "aside"
    /\ fund' = [fund EXCEPT ![p] = "sent"]
    /\ UNCHANGED <<available, amount>>

\* A payout that will not be sent gives its amount back.
Return(p) ==
    /\ fund[p] = "aside"
    /\ available' = available + amount[p]
    /\ fund' = [fund EXCEPT ![p] = "returned"]
    /\ UNCHANGED amount

Next == \/ \E a \in Credit : Earn(a)
        \/ \E p \in Payout : SetAside(p) \/ Send(p) \/ Return(p)

Spec == Init /\ [][Next]_vars
==============================================================================
