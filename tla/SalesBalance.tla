----------------------------- MODULE SalesBalance -----------------------------
(***************************************************************************)
(* The amounts of paid tickets (config/ticketing.js, the price and the     *)
(* provider that ticket_payment.service.js initiate freezes in a payment,  *)
(* the entries of organizer_ledger_entries, organizationBalance) and of    *)
(* payouts (organizer_payout.service.js setAccount, requestPayout), in one *)
(* currency. Money is counted in hundredths; a provider takes amounts with *)
(* 0 to 2 decimals. The organizer changes prices and accounts, the console *)
(* the commission, while sales and payouts are on their way.               *)
(*                                                                         *)
(* What ends a payment or a payout is modelled in TicketPayments and       *)
(* OrganizerPayouts; here each just ends, well or not.                     *)
(***************************************************************************)
EXTENDS Integers, FiniteSets, Functions

CONSTANTS
    Sale,
    Prices,       \* the prices that the organizer sets
    Rates,        \* the commissions that the console sets, in hundredths of a percent
    NoRate,       \* the organization has none of its own
    DefaultRate,
    Payouts,      \* the payouts, 1 .. n
    Asked         \* the amounts asked for; 0 stands for the whole balance

MaxCommissionBps == 5000

ASSUME SalesConstantsOK ==
    /\ Prices \subseteq Nat \ {0} /\ Asked \subseteq Nat
    /\ Rates \subseteq 0 .. MaxCommissionBps /\ DefaultRate \in 0 .. MaxCommissionBps
    /\ NoRate \notin Rates
    /\ IsFiniteSet(Sale) /\ IsFiniteSet(Payouts)

VARIABLES
    ticketPrice,
    rate,         \* the organization's commission, or NoRate
    sold,         \* the payments
    funds,        \* the sum of the ledger
    account,      \* the decimals of the provider the organizer is paid through
    asking,       \* the decimals that a request for a payout has read
    payout

salesVars == <<ticketPrice, rate, sold, funds, account, asking, payout>>

Digits == 0 .. 2
Unit(d) == CASE d = 0 -> 100 [] d = 1 -> 10 [] d = 2 -> 1

HalfUp(n, m) == (2 * n + m) \div (2 * m)

Whole(v, d) == HalfUp(v, Unit(d)) * Unit(d) = v

Commission(v, bps, d) == HalfUp(v * bps, 10000 * Unit(d)) * Unit(d)

RateOf == IF rate = NoRate THEN DefaultRate ELSE rate

NoSale == [at |-> "NONE", price |-> 0, digits |-> 0, bps |-> 0, commission |-> 0, share |-> 0]
NoPayout == [at |-> "NONE", paid |-> 0, digits |-> 0]
NotAsking == -1

SalesInit ==
    /\ ticketPrice \in Prices /\ rate = NoRate
    /\ sold = [s \in Sale |-> NoSale]
    /\ funds = 0 /\ account \in Digits /\ asking = NotAsking
    /\ payout = [p \in Payouts |-> NoPayout]

-----------------------------------------------------------------------------

SetPrice ==
    /\ ticketPrice' \in Prices
    /\ UNCHANGED <<rate, sold, funds, account, asking, payout>>

ChangeTicketCommission ==
    /\ rate' \in Rates \cup {NoRate}
    /\ UNCHANGED <<ticketPrice, sold, funds, account, asking, payout>>

\* A provider is offered only if the price can be paid with its decimals.
Initiate(s) ==
    /\ sold[s].at = "NONE"
    /\ \E d \in {e \in Digits : Whole(ticketPrice, e)} :
         sold' = [sold EXCEPT ![s].at = "READ", ![s].price = ticketPrice, ![s].digits = d]
    /\ UNCHANGED <<ticketPrice, rate, funds, account, asking, payout>>

\* Mutant of PriceStands: the price is not compared under the lock.
PriceMayMove(s) == TRUE

PriceStands(s) == ticketPrice = sold[s].price

Reserve(s) ==
    LET commission == Commission(ticketPrice, RateOf, sold[s].digits) IN
    /\ sold[s].at = "READ"
    /\ sold' = [sold EXCEPT ![s] =
         IF PriceStands(s)
           THEN [@ EXCEPT !.at = "OPEN", !.price = ticketPrice, !.bps = RateOf,
                          !.commission = commission, !.share = ticketPrice - commission]
           ELSE NoSale]
    /\ UNCHANGED <<ticketPrice, rate, funds, account, asking, payout>>

\* Mutant of ShareDue: the commission of the day of the payment.
ShareNow(s) == sold[s].price - Commission(sold[s].price, RateOf, sold[s].digits)

ShareDue(s) == sold[s].share

FulfilSale(s) ==
    /\ sold[s].at = "OPEN"
    /\ sold' = [sold EXCEPT ![s].at = "COMPLETED"]
    /\ funds' = funds + ShareDue(s)
    /\ UNCHANGED <<ticketPrice, rate, account, asking, payout>>

SaleEnds(s) ==
    /\ sold[s].at = "OPEN"
    /\ sold' = [sold EXCEPT ![s].at = "ENDED"]
    /\ UNCHANGED <<ticketPrice, rate, funds, account, asking, payout>>

SetAccount ==
    /\ account' \in Digits
    /\ UNCHANGED <<ticketPrice, rate, sold, funds, asking, payout>>

\* The account is read before the transaction.
AskPayout ==
    /\ asking = NotAsking /\ asking' = account
    /\ UNCHANGED <<ticketPrice, rate, sold, funds, account, payout>>

Payable(v, d) == v > 0 /\ v <= funds /\ Whole(v, d)

\* Refused: it leaves no row.
CommitPayout ==
    /\ asking # NotAsking /\ asking' = NotAsking
    /\ \/ /\ \A p \in Payouts : payout[p].at # "OPEN"
          /\ \E p \in Payouts, a \in Asked :
               LET v == IF a = 0 THEN funds ELSE a IN
               /\ payout[p].at = "NONE" /\ Payable(v, asking)
               /\ payout' = [payout EXCEPT ![p] = [at |-> "OPEN", paid |-> v, digits |-> asking]]
               /\ funds' = funds - v
       \/ UNCHANGED <<payout, funds>>
    /\ UNCHANGED <<ticketPrice, rate, sold, account>>

PayoutEnds(p) ==
    /\ payout[p].at = "OPEN"
    /\ \/ payout' = [payout EXCEPT ![p].at = "PAID"] /\ UNCHANGED funds
       \/ payout' = [payout EXCEPT ![p].at = "RETURNED"] /\ funds' = funds + payout[p].paid
    /\ UNCHANGED <<ticketPrice, rate, sold, account, asking>>

SalesNext ==
    \/ SetPrice \/ ChangeTicketCommission \/ SetAccount \/ AskPayout \/ CommitPayout
    \/ \E s \in Sale : Initiate(s) \/ Reserve(s) \/ FulfilSale(s) \/ SaleEnds(s)
    \/ \E p \in Payouts : PayoutEnds(p)

SalesBalanceSpec == SalesInit /\ [][SalesNext]_salesVars

-----------------------------------------------------------------------------
(* Properties.                                                             *)

Completed == {s \in Sale : sold[s].at = "COMPLETED"}
Gross == FoldFunctionOnSet(+, 0, [s \in Sale |-> sold[s].price], Completed)
CommissionTaken == FoldFunctionOnSet(+, 0, [s \in Sale |-> sold[s].commission], Completed)
PaidOut ==
    FoldFunctionOnSet(+, 0, [p \in Payouts |-> payout[p].paid],
                      {p \in Payouts : payout[p].at \in {"OPEN", "PAID"}})

\* The parts of a payment are never negative, add up to what the buyer is asked for,
\* and are amounts that its provider can carry; the commission is the rate's, to half
\* a unit of the provider (initiate, splitAmount), whatever prices and rates became.
SplitIsFair ==
    \A s \in Sale : sold[s].at \notin {"NONE", "READ"} =>
      LET x == sold[s] IN
      /\ x.commission + x.share = x.price
      /\ x.commission >= 0 /\ x.share >= 0
      /\ Whole(x.price, x.digits) /\ Whole(x.commission, x.digits) /\ Whole(x.share, x.digits)
      /\ 2 * (x.commission * 10000 - x.price * x.bps) <= 10000 * Unit(x.digits)
      /\ 2 * (x.price * x.bps - x.commission * 10000) <= 10000 * Unit(x.digits)

\* What the dashboard shows adds up: of what the buyers paid, what is not commission is
\* in the balance or was paid out (organizationBalance), at the rate of each sale.
BooksBalance == Gross - CommissionTaken = funds + PaidOut /\ funds >= 0

\* A payout is an amount that the provider it goes through can carry, although the
\* account changes and the balance comes from sales of other precisions (requestPayout).
PayoutsPayable ==
    \A p \in Payouts : payout[p].at # "NONE" => payout[p].paid > 0 /\ Whole(payout[p].paid, payout[p].digits)

\* Every amount that is asked for, shared out or paid is one that its provider can carry.
AmountsFair == SplitIsFair /\ PayoutsPayable

\* What is split, sold and paid out is fair and adds up.
AmountsHold == AmountsFair /\ BooksBalance

=============================================================================
