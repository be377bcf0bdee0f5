------------------------------ MODULE MCBilling ------------------------------
(***************************************************************************)
(* Money. PLAN: one page that buys a plan (Billing). TICKETS: two paid     *)
(* tickets and a payout (SalesBalance). REFUND: the refund of one ticket,  *)
(* asked for once or twice, with two runners that check the refund and     *)
(* the deposit (TicketRefunds). They share no variable: each is explored   *)
(* while the others rest.                                                  *)
(***************************************************************************)
EXTENDS Billing, SalesBalance, TicketRefunds, TLC

CONSTANTS t1, t2, r1, r2, a1, a2

VARIABLE scene

Plan(plan, interval) == [plan |-> plan, interval |-> interval]
EM == Plan("ESSENTIAL", "MONTHLY")
PM == Plan("PRO", "MONTHLY")
EA == Plan("ESSENTIAL", "ANNUAL")
PA == Plan("PRO", "ANNUAL")

Currency(currency, decimals, deposit) ==
    [currency |-> currency, decimals |-> decimals, deposit |-> deposit]

\* Two accounts can be used: the dollars of one operator, the francs of another.
MCConfiguration == {
    [provider |-> "VODACOM", currencies |-> {Currency("USD", 2, TRUE), Currency("CDF", 2, FALSE)}],
    [provider |-> "ORANGE", currencies |-> {Currency("XOF", 0, TRUE), Currency("GNF", 0, TRUE)}]}

MCOffer == {EM, PM}
MCFirst == CHOOSE a \in Account : a.currency = "USD"
MCBase == [USD |-> 10, XOF |-> 5800]
MCFactor == (EM :> 15) @@ (EA :> 144) @@ (PM :> 25) @@ (PA :> 240)
MCLength == [MONTHLY |-> 3, ANNUAL |-> 36]

Org(o, expires, trial) ==
    [plan |-> o.plan, interval |-> o.interval, expires |-> expires, trial |-> trial]
MCStart == {Org(EM, 5, 0), Org(EA, 2, 0), Org(PM, 2, 2)}

\* What rests has one initial state, and the checkout is the first runner.
MCInit ==
    /\ BillingInit /\ SalesInit /\ RefundsInit
    /\ scene \in {"PLAN", "TICKETS", "REFUND"}
    /\ scene # "TICKETS" => ticketPrice = 100 /\ account = 0
    /\ scene # "PLAN" => org = Org(PM, 2, 2)
    /\ run[r2] = NoRun
    /\ scene # "REFUND" => told = "COMPLETED" /\ run[r1] = NoRun

\* No definition tells the two attempts apart.
FirstFirst == pawa'[a2] # "UNUSED" => pawa'[a1] # "UNUSED"

MCNext ==
    /\ UNCHANGED scene
    /\ \/ scene = "PLAN" /\ BillingNext /\ UNCHANGED <<salesVars, refundVars>>
       \/ scene = "TICKETS" /\ SalesNext /\ UNCHANGED <<billingVars, refundVars>>
       \/ scene = "REFUND" /\ RefundsNext /\ FirstFirst /\ UNCHANGED <<billingVars, salesVars>>

MCSpec == MCInit /\ [][MCNext]_<<scene, billingVars, salesVars, refundVars>>

==============================================================================
