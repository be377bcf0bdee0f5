-------------------------------- MODULE Plans --------------------------------
(***************************************************************************)
(* What the plan changes of an organization promise, with no process, no   *)
(* time and no database. A change is asked for on one version of the plan, *)
(* paid if it costs something, and takes effect at most once: only while   *)
(* the plan is still at that version, and never after its money was given  *)
(* back or the customer has withdrawn it. Subscriptions implements this    *)
(* specification.                                                          *)
(***************************************************************************)
EXTENDS Naturals

CONSTANT Change     \* the plan changes an organization asks for

VARIABLES
    version,    \* the version of the plan
    base,       \* the version each change was asked for, 0 if it was not
    free,       \* the changes that cost nothing
    paid,       \* the changes whose price was received
    granted,    \* how many times each change took effect
    returned,   \* the changes whose price was given back
    withdrawn   \* the changes the customer has withdrawn

vars == <<version, base, free, paid, granted, returned, withdrawn>>

Init ==
    /\ version = 1
    /\ base = [c \in Change |-> 0]
    /\ free = {}
    /\ paid = {}
    /\ granted = [c \in Change |-> 0]
    /\ returned = {}
    /\ withdrawn = {}

Ask(c) ==
    /\ base[c] = 0
    /\ base' = [base EXCEPT ![c] = version]
    /\ free' \in {free, free \cup {c}}
    /\ UNCHANGED <<version, paid, granted, returned, withdrawn>>

Collect(c) ==
    /\ paid' = paid \cup {c}
    /\ UNCHANGED <<version, base, free, granted, returned, withdrawn>>

\* The change takes effect, on the plan it was asked for.
Grant(c) ==
    /\ c \in (free \cup paid) \ (returned \cup withdrawn)
    /\ base[c] = version
    /\ granted[c] = 0
    /\ granted' = [granted EXCEPT ![c] = 1]
    /\ version' = version + 1
    /\ UNCHANGED <<base, free, paid, returned, withdrawn>>

\* Money is given back only for a change that never took effect.
GiveBack(c) ==
    /\ c \in paid
    /\ granted[c] = 0
    /\ returned' = returned \cup {c}
    /\ UNCHANGED <<version, base, free, paid, granted, withdrawn>>

Withdraw(c) ==
    /\ granted[c] = 0
    /\ withdrawn' = withdrawn \cup {c}
    /\ UNCHANGED <<version, base, free, paid, granted, returned>>

\* The plan is replaced by something else: a trial, an administrator.
Replace ==
    /\ version' = version + 1
    /\ UNCHANGED <<base, free, paid, granted, returned, withdrawn>>

Next ==
    \/ Replace
    \/ \E c \in Change : Ask(c) \/ Collect(c) \/ Grant(c) \/ GiveBack(c) \/ Withdraw(c)

Spec == Init /\ [][Next]_vars
==============================================================================
