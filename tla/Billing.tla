------------------------------- MODULE Billing -------------------------------
(***************************************************************************)
(* What an organizer is shown, charged and given on the page that sells    *)
(* plans: dashboard/upgrade/page.jsx with the quotes, prices and terms of  *)
(* services/payment/{policy,catalog,checkout,reconciliation}.js. The page  *)
(* asks for a quote each time its form changes and polls the payment it    *)
(* opened; the server computes the price again at the click, from the      *)
(* organization as it reads it then, and the deposit completes later.      *)
(*                                                                         *)
(* Time is counted in ticks and money in hundredths. The interleavings     *)
(* inside a reconciliation and the ends of a plan by other means are those *)
(* of Subscriptions; payments of event passes are in EventPasses.          *)
(***************************************************************************)
EXTENDS Integers, FiniteSets, Sequences

CONSTANTS
    Offer,      \* [plan, interval]: what the page sells
    Configuration, \* pawaPay's: [provider, currencies: {[currency, decimals, deposit]}]
    First,      \* the account pawaPay lists first
    Base,       \* scalePrices: the price of the unit plan in each currency
    Factor,     \* scalePrices: tenths of that price for each offer
    Length,     \* ticks of a MONTHLY and of an ANNUAL term
    Start,      \* organizations at the beginning
    Payment,    \* payments, 1 .. n
    NoAccount, NoQuote,
    MaxOverrides, \* bound: no override after this version
    MaxQuotes,  \* bound: quote requests under way
    MaxPolls,   \* bound: refreshes of a payment under way
    EndOfTime   \* bound of the clock

VARIABLES
    clock,
    org,        \* subscription_plan, _interval and _expires_at, trial_expires_at; 0: null
    version,    \* subscriptions.version
    pay,        \* per payment: its request, its row and that of its change
    \* The page
    sel,        \* the offer chosen
    accounts,   \* the accounts loaded
    acct,       \* the account chosen
    quote,      \* the offer and the account of the quote shown
    quoting,    \* quote requests under way
    submit,     \* the payment whose answer the page waits for, or 0
    active,     \* activeDepositId, or 0
    polls,      \* refreshes under way
    loading     \* loadBilling is under way

serverVars == <<clock, org, version, pay>>
formVars == <<sel, accounts, acct>>
quoteVars == <<quote, quoting>>
payVars == <<submit, active, polls>>
billingVars == <<serverVars, formVars, quoteVars, payVars, loading>>

-----------------------------------------------------------------------------
(* Prices, terms and quotes *)

RoundHalfUp(n, d) == n \div d + (IF 2 * (n % d) >= d THEN 1 ELSE 0)

\* In hundredths; every currency but the dollar has whole prices.
ScalePrices(currency, factor) ==
    IF currency = "USD" THEN RoundHalfUp(Base[currency] * factor * 100, 10)
    ELSE 100 * RoundHalfUp(Base[currency] * factor, 10)

GetFixedPlanPrice(o, currency) == ScalePrices(currency, Factor[o])

\* The accounts one can pay from: one per provider and currency.
ExtractProviders ==
    UNION {{[provider |-> p.provider, currency |-> c.currency,
             decimals |-> c.decimals, deposit |-> c.deposit] : c \in p.currencies}
             : p \in Configuration}

Account == {a \in ExtractProviders : a.deposit /\ a.currency \in DOMAIN Base}

\* What the page chooses by itself can be chosen.
ASSUME BillingConstantsOK ==
    /\ First \in Account
    /\ [plan |-> "ESSENTIAL", interval |-> "MONTHLY"] \in Offer
    /\ EndOfTime \in Nat \ {0}

\* n/d hundredths, at the precision of the provider.
RoundForProvider(n, d, decimals) ==
    LET unit == IF decimals = 0 THEN 100 ELSE IF decimals = 1 THEN 10 ELSE 1
    IN  unit * RoundHalfUp(n, d * unit)

PlanRank == [DISCOVERY |-> 0, ESSENTIAL |-> 1, PRO |-> 2]

IsSubscriptionExpired(o, t) == o.expires # 0 /\ o.expires <= t

PlanOf(o, t) == IF IsSubscriptionExpired(o, t) THEN "DISCOVERY" ELSE o.plan

HasActiveTerm(o, t) == PlanOf(o, t) # "DISCOVERY" /\ o.expires > t

ClassifyChange(o, target, t) ==
    IF ~HasActiveTerm(o, t) THEN "PURCHASE"
    ELSE IF o.trial > t THEN (IF o.plan = target.plan THEN "RENEWAL" ELSE "DOWNGRADE")
    ELSE IF o.interval # target.interval THEN "INTERVAL_CHANGE"
    ELSE IF o.plan = target.plan THEN "RENEWAL"
    ELSE IF PlanRank[target.plan] > PlanRank[o.plan] THEN "UPGRADE"
    ELSE "DOWNGRADE"

EffectiveAt(o, type, t) == IF type \in {"PURCHASE", "UPGRADE"} THEN t ELSE o.expires

Remaining(o, t) == IF o.expires > t THEN o.expires - t ELSE 0

\* Mutant of ProratedPrice: an upgrade counts its remaining time in years.
YearlyPrice(o, target, a, t) ==
    RoundForProvider((GetFixedPlanPrice(target, a.currency)
                        - GetFixedPlanPrice([plan |-> o.plan, interval |-> o.interval], a.currency))
                       * Remaining(o, t), Length["ANNUAL"], a.decimals)

\* The difference between the two plans for the time that remains.
ProratedPrice(o, target, a, t) ==
    RoundForProvider((GetFixedPlanPrice(target, a.currency)
                        - GetFixedPlanPrice([plan |-> o.plan, interval |-> o.interval], a.currency))
                       * Remaining(o, t), Length[target.interval], a.decimals)

CalculatePaymentQuote(o, target, a, t) ==
    IF ClassifyChange(o, target, t) = "UPGRADE" THEN ProratedPrice(o, target, a, t)
    ELSE GetFixedPlanPrice(target, a.currency)

\* NO_UPGRADE_PAYMENT_DUE
IsDue(amount) == amount > 0

-----------------------------------------------------------------------------
NewPayment == [phase |-> "NONE"]

\* What an organization can have: a plan that has a price, with no trial that ends after
\* the plan does or lasts longer than a term; or the free plan, without a trial.
OrgSound(o) ==
    /\ o.expires \in Nat /\ o.trial \in Nat /\ o.trial <= o.expires
    /\ IF o.plan = "DISCOVERY" THEN o.trial = 0
       ELSE [plan |-> o.plan, interval |-> o.interval] \in DOMAIN Factor
    /\ \A i \in DOMAIN Length : o.trial <= Length[i] + 1

\* Prices are whole numbers, a year is so many months, and paid plans are sold.
ASSUME PricesOK ==
    /\ "ANNUAL" \in DOMAIN Length
    /\ \A i \in DOMAIN Length : Length[i] \in Nat \ {0} /\ Length["ANNUAL"] % Length[i] = 0
    /\ \A c \in DOMAIN Base : Base[c] \in Nat
    /\ \A o \in DOMAIN Factor : Factor[o] \in Nat
    /\ Offer \subseteq [plan : {"ESSENTIAL", "PRO"}, interval : DOMAIN Length] \cap DOMAIN Factor
    /\ \A o \in Start : OrgSound(o)

BillingInit ==
    /\ clock = 1
    /\ org \in Start
    /\ version = 1
    /\ pay = [p \in Payment |-> NewPayment]
    /\ \E plan \in {"ESSENTIAL"} : sel = [plan |-> plan, interval |-> "MONTHLY"]
    /\ accounts = {}
    /\ acct = NoAccount
    /\ quote = NoQuote
    /\ quoting = {}
    /\ submit = 0
    /\ active = 0
    /\ polls = {}
    /\ loading = TRUE

-----------------------------------------------------------------------------
(* The form and its quote *)

\* getPaymentQuote, which may refuse.
GetPaymentQuote(o, a) ==
    IF IsDue(CalculatePaymentQuote(org, o, a, clock)) THEN [offer |-> o, acct |-> a]
    ELSE NoQuote

\* The effect that runs when the form changes: the request before is not listened
\* to any more, and the quote shown stays until the new answer. The server answers
\* at once, and its answer takes any time to come.
AskQuote(o, a) ==
    LET ignored == {[q EXCEPT !.live = FALSE] : q \in quoting} IN
    IF a = NoAccount
    THEN quoting' = ignored /\ quote' = NoQuote
    ELSE /\ quoting' = ignored \cup {[live |-> TRUE, answer |-> GetPaymentQuote(o, a)]}
         /\ UNCHANGED quote

MayAskQuote == Cardinality(quoting) < MaxQuotes

SelectPlan(o) ==
    /\ MayAskQuote
    /\ sel # o
    /\ sel' = o
    /\ AskQuote(o, acct)
    /\ UNCHANGED <<serverVars, accounts, acct, payVars, loading>>

SelectAccount(a) ==
    /\ MayAskQuote
    /\ acct # a
    /\ acct' = a
    /\ AskQuote(sel, a)
    /\ UNCHANGED <<serverVars, sel, accounts, payVars, loading>>

\* Mutant of ListenedTo: the page shows whichever answer comes.
ListenedToAll(q) == TRUE

ListenedTo(q) == q.live

\* The answer arrives, or the request fails.
ShowQuote(q) ==
    /\ quoting' = quoting \ {q}
    /\ \/ UNCHANGED quote /\ ~ListenedTo(q)
       \/ quote' = NoQuote /\ ListenedTo(q)
       \/ quote' = q.answer /\ ListenedTo(q)
    /\ UNCHANGED <<serverVars, formVars, payVars, loading>>

\* loadBilling: without the operators, pawaPay being out of reach, the form loses
\* its account; with them it keeps its own or takes the first.
LoadBilling(up) ==
    /\ loading
    /\ MayAskQuote
    /\ loading' = FALSE
    /\ accounts' = IF up THEN Account ELSE {}
    /\ acct' = IF ~up THEN NoAccount ELSE IF acct = NoAccount THEN First ELSE acct
    /\ IF acct' = acct THEN UNCHANGED quoteVars ELSE AskQuote(sel, acct')
    /\ UNCHANGED <<serverVars, sel, payVars>>

LoadFails ==
    /\ loading
    /\ loading' = FALSE
    /\ UNCHANGED <<serverVars, formVars, quoteVars, payVars>>

\* What was asked for goes on at the server.
Reload ==
    /\ sel' = [plan |-> "ESSENTIAL", interval |-> "MONTHLY"]
    /\ accounts' = {}
    /\ acct' = NoAccount
    /\ quote' = NoQuote
    /\ quoting' = {}
    /\ submit' = 0
    /\ active' = 0
    /\ polls' = {}
    /\ loading' = TRUE
    /\ UNCHANGED serverVars

-----------------------------------------------------------------------------
(* Paying *)

CanPay == acct \in accounts /\ active = 0 /\ submit = 0

SubmitPayment(p) ==
    /\ CanPay
    /\ pay[p].phase = "NONE"
    /\ \A d \in Payment : d < p => pay[d].phase # "NONE"
    /\ submit' = p
    /\ pay' = [pay EXCEPT ![p] = [phase |-> "SENT", offer |-> sel, acct |-> acct]]
    /\ UNCHANGED <<clock, org, version, formVars, quoteVars, active, polls, loading>>

\* initiatePayment reads the organization and computes its price before any lock.
ReadOrganization(p) ==
    /\ pay[p].phase = "SENT"
    /\ LET type == ClassifyChange(org, pay[p].offer, clock)
           amount == CalculatePaymentQuote(org, pay[p].offer, pay[p].acct, clock)
       IN  pay' = [pay EXCEPT ![p] =
              IF ~IsDue(amount) THEN [phase |-> "REFUSED"]
              ELSE [phase |-> "READ", offer |-> @.offer, acct |-> @.acct,
                    type |-> type, effective |-> EffectiveAt(org, type, clock),
                    amount |-> amount, basis |-> org]]
    /\ UNCHANGED <<clock, org, version, formVars, quoteVars, payVars, loading>>

\* The operator is not offered any more, the number is not one of its country, or
\* pawaPay is out of reach: nothing is written.
RefuseCheckout(p) ==
    /\ pay[p].phase = "SENT"
    /\ pay' = [pay EXCEPT ![p] = [phase |-> "REFUSED"]]
    /\ UNCHANGED <<clock, org, version, formVars, quoteVars, payVars, loading>>

Opened == {p \in Payment : pay[p].phase = "OPENED"}

NoOpenChange ==
    \A p \in Opened : pay[p].change \notin {"AWAITING_PAYMENT", "SCHEDULED", "REFUND_PENDING"}

\* What the page is told: pawaPay has accepted the deposit or refused it, or has not
\* answered, which is an error although the deposit may exist.
Told == {"PENDING", "FAILED", "ERROR"}

\* The transaction, and pawaPay's answer.
OpenChange(p) ==
    /\ pay[p].phase = "READ"
    /\ IF ~NoOpenChange THEN pay' = [pay EXCEPT ![p] = [phase |-> "REFUSED"]]
       ELSE \E told \in Told :
              pay' = [pay EXCEPT ![p] =
                 [phase |-> "OPENED", offer |-> @.offer, acct |-> @.acct,
                  type |-> @.type, effective |-> @.effective, amount |-> @.amount,
                  basis |-> @.basis, told |-> told, source |-> version,
                  status |-> IF told = "FAILED" THEN "FAILED" ELSE "PENDING",
                  change |-> IF told = "FAILED" THEN "FAILED" ELSE "AWAITING_PAYMENT"]]
    /\ UNCHANGED <<clock, org, version, formVars, quoteVars, payVars, loading>>

\* The page polls only a payment it was told about.
SubmitAnswered ==
    /\ submit # 0
    /\ pay[submit].phase \in {"OPENED", "REFUSED"}
    /\ active' = IF submit \in Opened /\ pay[submit].told = "PENDING" THEN submit ELSE active
    /\ submit' = 0
    /\ UNCHANGED <<serverVars, formVars, quoteVars, polls, loading>>

SubmitLost ==
    /\ submit # 0
    /\ submit' = 0
    /\ UNCHANGED <<serverVars, formVars, quoteVars, active, polls, loading>>

\* refreshStatus, at the server.
RefreshStatus(p) == [payment |-> p, status |-> pay[p].status]

\* Every five seconds, whether or not the answer before has come.
PollPayment ==
    /\ active # 0
    /\ Cardinality(polls) < MaxPolls
    /\ polls' = polls \cup {RefreshStatus(active)}
    /\ UNCHANGED <<serverVars, formVars, quoteVars, submit, active, loading>>

\* The answer clears whatever payment is being polled.
ShowStatus(r) ==
    /\ polls' = polls \ {r}
    /\ active' = IF r.status \in {"COMPLETED", "FAILED"} THEN 0 ELSE active
    /\ loading' = (loading \/ r.status = "COMPLETED")
    /\ UNCHANGED <<serverVars, formVars, quoteVars, submit>>

PollFails(r) ==
    /\ polls' = polls \ {r}
    /\ UNCHANGED <<serverVars, formVars, quoteVars, submit, active, loading>>

-----------------------------------------------------------------------------
(* Deposits, changes and terms *)

AddTerm(t, interval) == t + Length[interval]

OnItsVersion(p) == pay[p].source = version

\* Where the period a payment buys begins, and the organization after it.
StartsAt(p) ==
    IF pay[p].change = "SCHEDULED" THEN pay[p].effective
    ELSE IF pay[p].type = "RENEWAL" /\ org.expires > clock THEN org.expires
    ELSE clock

ExpiresAt(p) ==
    IF pay[p].type = "UPGRADE" /\ org.expires > clock THEN org.expires
    ELSE AddTerm(StartsAt(p), pay[p].offer.interval)

Grant(p) ==
    /\ org' = [plan |-> pay[p].offer.plan, interval |-> pay[p].offer.interval,
               expires |-> ExpiresAt(p),
               trial |-> IF pay[p].change # "SCHEDULED" /\ org.trial > clock THEN org.trial ELSE 0]
    /\ version' = version + 1
    /\ pay' = [pay EXCEPT ![p].status = "COMPLETED", ![p].change = "APPLIED"]

Scheduled(p) ==
    pay[p].type \in {"DOWNGRADE", "INTERVAL_CHANGE"} /\ pay[p].effective > clock

\* reconcilePayment on a deposit that pawaPay has completed.
DepositCompletes(p) ==
    /\ p \in Opened
    /\ pay[p].status \in {"PENDING", "EXPIRED"}
    /\ \/ /\ pay[p].change # "AWAITING_PAYMENT" \/ ~OnItsVersion(p)
          /\ pay' = [pay EXCEPT ![p].status = "REVIEW_REQUIRED", ![p].change = "REVIEW_REQUIRED"]
          /\ UNCHANGED <<org, version>>
       \/ /\ pay[p].change = "AWAITING_PAYMENT" /\ OnItsVersion(p) /\ Scheduled(p)
          /\ pay' = [pay EXCEPT ![p].status = "COMPLETED", ![p].change = "SCHEDULED"]
          /\ UNCHANGED <<org, version>>
       \/ /\ pay[p].change = "AWAITING_PAYMENT" /\ OnItsVersion(p) /\ ~Scheduled(p)
          /\ Grant(p)
    /\ UNCHANGED <<clock, formVars, quoteVars, payVars, loading>>

\* It fails, or stays open for a day.
DepositEnds(p) ==
    /\ p \in Opened
    /\ pay[p].status = "PENDING"
    /\ \E s \in {"FAILED", "EXPIRED"} : pay' = [pay EXCEPT ![p].status = s, ![p].change = s]
    /\ UNCHANGED <<clock, org, version, formVars, quoteVars, payVars, loading>>

\* applyScheduledChange, by the worker or by a page that loads.
ApplyScheduledChange(p) ==
    /\ p \in Opened
    /\ pay[p].change = "SCHEDULED"
    /\ pay[p].effective <= clock
    /\ IF OnItsVersion(p) THEN Grant(p)
       ELSE /\ pay' = [pay EXCEPT ![p].change = "REVIEW_REQUIRED"]
            /\ UNCHANGED <<org, version>>
    /\ UNCHANGED <<clock, formVars, quoteVars, payVars, loading>>

\* updateSubscription("undo") and cancelOpenChange.
UndoChange(p) ==
    /\ p \in Opened
    /\ \/ /\ pay[p].change = "AWAITING_PAYMENT"
          /\ pay' = [pay EXCEPT ![p].change = "CANCELED"]
       \/ /\ pay[p].change = "SCHEDULED"
          /\ pay' = [pay EXCEPT ![p].change = "REFUND_PENDING", ![p].status = "REFUND_PENDING"]
    /\ loading' = TRUE
    /\ UNCHANGED <<clock, org, version, formVars, quoteVars, payVars>>

RefundEnds(p) ==
    /\ p \in Opened
    /\ pay[p].change = "REFUND_PENDING"
    /\ \/ pay' = [pay EXCEPT ![p].change = "CANCELED", ![p].status = "REFUNDED"]
       \/ pay' = [pay EXCEPT ![p].change = "SCHEDULED", ![p].status = "COMPLETED"]
    /\ UNCHANGED <<clock, org, version, formVars, quoteVars, payVars, loading>>

\* An administrator gives the organization another plan.
OverridePlan ==
    /\ version <= MaxOverrides
    /\ NoOpenChange
    /\ org' \in {o \in Start : o.expires = 0 \/ o.expires > clock} \ {org}
    /\ version' = version + 1
    /\ UNCHANGED <<clock, pay, formVars, quoteVars, payVars, loading>>

Tick ==
    /\ clock < EndOfTime
    /\ clock' = clock + 1
    /\ UNCHANGED <<org, version, pay, formVars, quoteVars, payVars, loading>>

-----------------------------------------------------------------------------
Page ==
    \/ \E o \in Offer : SelectPlan(o)
    \/ \E a \in accounts : SelectAccount(a)
    \/ \E q \in quoting : ShowQuote(q)
    \/ \E up \in BOOLEAN : LoadBilling(up)
    \/ LoadFails \/ Reload
    \/ \E p \in Payment : SubmitPayment(p)
    \/ SubmitAnswered \/ SubmitLost \/ PollPayment
    \/ \E r \in polls : ShowStatus(r) \/ PollFails(r)

Server ==
    \E p \in Payment :
          \/ ReadOrganization(p) \/ RefuseCheckout(p) \/ OpenChange(p)
          \/ DepositCompletes(p) \/ DepositEnds(p)
          \/ ApplyScheduledChange(p) \/ UndoChange(p) \/ RefundEnds(p)

BillingNext == Page \/ Server \/ OverridePlan \/ Tick

BillingSpec == BillingInit /\ [][BillingNext]_billingVars

-----------------------------------------------------------------------------
(* Properties *)

BillingTypeOK ==
    /\ clock \in 1 .. EndOfTime
    /\ version \in Nat \ {0}
    /\ sel \in Offer
    /\ accounts \in {{}, Account}
    /\ acct \in accounts \cup {NoAccount}
    /\ submit \in Payment \cup {0}
    /\ active # 0 => active \in Opened /\ pay[active].told = "PENDING"
    /\ loading \in BOOLEAN

\* Once the form has rested, the quote the page shows is for the plan, the period
\* and the account it shows, however late the answers for earlier choices come.
QuoteSettles ==
    quote # NoQuote /\ (\A q \in quoting : ~q.live)
        => quote.offer = sel /\ quote.acct = acct

\* The page holds what a page can hold, and shows the price of what it shows.
PageSound == BillingTypeOK /\ QuoteSettles

\* What an organization's plan is worth at t in a currency, in hundredths times the
\* ticks of a year: its price for the time left.
Worth(o, currency, t) ==
    IF ~HasActiveTerm(o, t) \/ o.trial > t THEN 0
    ELSE GetFixedPlanPrice([plan |-> o.plan, interval |-> o.interval], currency)
           * (o.expires - t) * (Length["ANNUAL"] \div Length[o.interval])

\* When a payment takes effect on the plan it was quoted on, the organization gets
\* what it paid for: a whole term at its price, or for an upgrade in time the
\* difference for what is left of the term, and never more.
PaidIsWorth(p) ==
    LET currency == pay[p].acct.currency
        t == StartsAt(p)
        gained == Worth(org', currency, t) - Worth(org, currency, t)
        paid == pay[p].amount * Length["ANNUAL"]
    IN  IF pay[p].type = "UPGRADE"
        THEN gained <= paid + 50 * Length["ANNUAL"]
        ELSE gained = paid

GrantsWhatIsPaid ==
    [][\A p \in Opened :
          /\ pay[p].change # "APPLIED" /\ pay'[p].change = "APPLIED"
          /\ org = pay[p].basis
          /\ ~(pay[p].type = "UPGRADE" /\ org.expires <= clock)
          => PaidIsWorth(p)]_billingVars

-----------------------------------------------------------------------------
(* The inductive invariant behind PageSound.                               *)

RowFields == {"phase", "offer", "acct", "type", "effective", "amount", "basis",
              "told", "source", "status", "change"}

\* An opened payment has its row and that of its change.
RowsWritten == \A p \in Opened : pay[p] = [f \in RowFields |-> pay[p][f]]

\* A request that is still listened to asked for what the form shows now.
AnswersSettle ==
    \A q \in quoting :
        /\ "live" \in DOMAIN q /\ q.live \in BOOLEAN
        /\ q.live => q.answer \in {NoQuote, [offer |-> sel, acct |-> acct]}

PageIInv ==
    /\ PageSound
    /\ pay = [p \in Payment |-> pay[p]]
    /\ RowsWritten
    /\ AnswersSettle

(* And the one behind GrantsWhatIsPaid. *)

\* What a row holds was computed at t, from the organization as it was.
QuotedAt(r, t) ==
    /\ r.type = ClassifyChange(r.basis, r.offer, t)
    /\ r.effective = EffectiveAt(r.basis, r.type, t)
    /\ r.amount = CalculatePaymentQuote(r.basis, r.offer, r.acct, t) /\ IsDue(r.amount)

Priced(r, now) ==
    /\ r.phase \in {"SENT", "READ", "OPENED"} => r.offer \in Offer /\ r.acct \in Account
    /\ r.phase \in {"READ", "OPENED"} => OrgSound(r.basis) /\ \E t \in 1 .. now : QuotedAt(r, t)
    /\ r.phase = "OPENED" /\ r.change \in {"SCHEDULED", "REFUND_PENDING"}
         => r.type \in {"DOWNGRADE", "INTERVAL_CHANGE"}

WorthIInv == PageIInv /\ OrgSound(org) /\ \A p \in Payment : Priced(pay[p], clock)

==============================================================================
