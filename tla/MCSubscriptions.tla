--------------------------- MODULE MCSubscriptions ---------------------------
(***************************************************************************)
(* One organization: its plan (Subscriptions), with a callback and the     *)
(* worker; its users' accounts and sessions (Accounts), with two browsers. *)
(* The two share no variable: each is explored while the other rests.      *)
(***************************************************************************)
EXTENDS Subscriptions, Accounts, TLC

CONSTANTS c1, callback, worker, b1, b2, p1, p2, l1, l2

VARIABLE scene

UserSymmetry ==
    Permutations({b1, b2}) \cup Permutations({p1, p2}) \cup Permutations({l1, l2})

MCInit == Init /\ AccountsInit /\ scene \in {"PLAN", "USERS"}

MCNext ==
    /\ UNCHANGED scene
    /\ \/ scene = "PLAN" /\ Next /\ UNCHANGED accountVars
       \/ scene = "USERS" /\ AccountsNext /\ UNCHANGED vars

MCSpec == MCInit /\ [][MCNext]_<<scene, vars, accountVars>>

==============================================================================
