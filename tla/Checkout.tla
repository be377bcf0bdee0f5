------------------------------- MODULE Checkout -------------------------------
(***************************************************************************)
(* A paid offer on the public registration page (register/[slug]/page.jsx  *)
(* pay, the poll of the payment, retryPayment) and the part of the server  *)
(* that answers it (ticket_payment.service.js initiate, getForAttendee):   *)
(* buyers pay under a key their browser keeps, lose answers, reload, change *)
(* their operator and start again, while the organizer changes the price.  *)
(*                                                                         *)
(* A payment is named by its key, which is unique. What ends a payment is  *)
(* modelled in TicketPayments; here a payment just ends, well or not.      *)
(***************************************************************************)
EXTENDS RegistrationForms

CONSTANTS
    Price,      \* prices the offer may have
    Operator    \* Mobile Money operators; with the phone, the rest of the request

VARIABLES
    price,      \* the price of the offer
    payments,   \* the payments: key, operator and status
    tab,        \* each visitor's tab: page, keys, status shown, the request it waits for
    checkout,   \* the requests under way
    attempts,   \* keys that each tab made
    ended,      \* history: attempts of each tab that an answer ended
    served      \* history: times that each tab went to a ticket

buyerVars == <<tab, attempts, ended, served>>
checkoutVars == <<price, payments, buyerVars, checkout>>

NoCheckout == [at |-> "NONE"]
ClosedTab == [page |-> "AWAY", key |-> NoKey, pending |-> NoKey, follows |-> NoKey,
              status |-> "NONE", waits |-> NoRequest]

CheckoutInit ==
    /\ price \in Price
    /\ payments = {}
    /\ tab = [b \in Visitor |-> ClosedTab]
    /\ checkout = [q \in Request |-> NoCheckout]
    /\ attempts = [b \in Visitor |-> 0]
    /\ ended = [b \in Visitor |-> 0]
    /\ served = [b \in Visitor |-> 0]

-----------------------------------------------------------------------------
(* The server.                                                             *)

ChangePrice ==
    /\ price' \in Price \ {price}
    /\ UNCHANGED <<payments, buyerVars, checkout>>

Open == "PENDING"

OfAttempt(q) == {p \in payments : p.key = checkout[q].key}

\* The answer, if somebody waits for it. A payment that failed is answered with 422.
Tell(q, told) ==
    checkout' = [checkout EXCEPT
      ![q] = IF \E b \in Visitor : tab[b].waits = q
               THEN [@ EXCEPT !.at = "ANSWERED", !.told = told] ELSE NoCheckout]

AnswerOf(q, p) ==
    IF p.operator # checkout[q].operator \/ p.status = "FAILED" THEN "REFUSED" ELSE p.status

\* initiate looks for the key, then reads the offer. Anything else that is amiss in
\* the request, or in the form, refuses it: 401, 409, 422, 5xx.
ReadOffer(q) ==
    /\ checkout[q].at = "SENT"
    /\ \/ \E p \in OfAttempt(q) : Tell(q, AnswerOf(q, p))
       \/ /\ OfAttempt(q) = {}
          /\ checkout' = [checkout EXCEPT ![q].at = "READ", ![q].amount = price]
       \/ OfAttempt(q) = {} /\ \E told \in {"REFUSED", "FAULT"} : Tell(q, told)
    /\ UNCHANGED <<price, payments, buyerVars>>

\* The transaction compares the price with the one this request read, and refuses a
\* form that is closed or an offer that is full, before the key's index is asked.
Reserve(q) ==
    LET c == checkout[q] IN
    /\ c.at = "READ"
    /\ \/ \E told \in {"REFUSED", "FAULT"} : Tell(q, told) /\ UNCHANGED payments
       \/ /\ price = c.amount
          /\ IF \E p \in payments : p.key = c.key
               THEN /\ \E p \in OfAttempt(q) : Tell(q, AnswerOf(q, p))
                    /\ UNCHANGED payments
               ELSE \E status \in {Open, "FAILED"} :
                      LET p == [key |-> c.key, operator |-> c.operator, status |-> status] IN
                      /\ payments' = payments \cup {p}
                      /\ Tell(q, AnswerOf(q, p))
    /\ UNCHANGED <<price, buyerVars>>

\* TicketPayments: a ticket, or no payment, or one to be looked at.
PaymentEnds ==
    /\ \E p \in payments : \E status \in {"COMPLETED", "FAILED", "REVIEW_REQUIRED"} :
         /\ p.status = Open
         /\ payments' = (payments \ {p}) \cup {[p EXCEPT !.status = status]}
    /\ UNCHANGED <<price, buyerVars, checkout>>

-----------------------------------------------------------------------------
(* The buyer's tab.                                                        *)

LeaveRequest(b) ==
    checkout' = IF tab[b].waits = NoRequest THEN checkout
                ELSE [checkout EXCEPT
                  ![tab[b].waits] = IF @.at = "ANSWERED" THEN NoCheckout ELSE @]

\* The page is loaded, or loaded again, and the recap reached. A payment that is
\* stored is followed at once.
OpenSummary(b) ==
    /\ tab' = [tab EXCEPT ![b] = [@ EXCEPT
         !.page = IF tab[b].pending = NoKey THEN "SUMMARY" ELSE "PAYMENT",
         !.waits = NoRequest, !.follows = tab[b].pending,
         !.status = IF tab[b].pending = NoKey THEN "NONE" ELSE Open]]
    /\ LeaveRequest(b)
    /\ UNCHANGED <<price, payments, attempts, ended, served>>

\* The price on the button is not in the request.
Pay(b, q) ==
    LET fresh == tab[b].key = NoKey
        key == IF fresh THEN attempts[b] + 1 ELSE tab[b].key IN
    /\ tab[b].page = "SUMMARY" /\ tab[b].waits = NoRequest
    /\ checkout[q] = NoCheckout /\ key <= MaxKeys
    /\ attempts' = [attempts EXCEPT ![b] = IF fresh THEN @ + 1 ELSE @]
    /\ tab' = [tab EXCEPT ![b].key = key, ![b].waits = q]
    /\ \E o \in Operator :
         checkout' = [checkout EXCEPT
           ![q] = [at |-> "SENT", key |-> <<b, key>>, operator |-> o, amount |-> 0,
                   told |-> "NONE"]]
    /\ UNCHANGED <<price, payments, ended, served>>

\* Mutant of EndsAttempt: an answer that never came ends the attempt too.
EndsAttemptAny(told) == TRUE

\* Accepted, or refused for good; not a session that expired nor a fault.
EndsAttempt(told) == told \notin {"FAULT", "NONE"}

\* A payment that the server knows is stored and followed.
PayAnswered(b) ==
    LET q == tab[b].waits
        told == checkout[q].told
        ends == EndsAttempt(told)
        follows == told \notin {"REFUSED", "FAULT"} IN
    /\ q # NoRequest /\ checkout[q].at = "ANSWERED"
    /\ tab' = [tab EXCEPT
         ![b].key = IF ends THEN NoKey ELSE @, ![b].waits = NoRequest,
         ![b].page = IF follows THEN "PAYMENT" ELSE @,
         ![b].pending = IF follows THEN checkout[q].key[2] ELSE @,
         ![b].follows = IF follows THEN checkout[q].key[2] ELSE @,
         ![b].status = IF follows THEN told ELSE @]
    /\ ended' = [ended EXCEPT ![b] = IF told = "FAULT" THEN @ ELSE @ + 1]
    /\ checkout' = [checkout EXCEPT ![q] = NoCheckout]
    /\ UNCHANGED <<price, payments, attempts, served>>

PayLost(b) ==
    /\ tab[b].waits # NoRequest
    /\ tab' = [tab EXCEPT ![b].waits = NoRequest,
                          ![b].key = IF EndsAttempt("NONE") THEN NoKey ELSE @]
    /\ LeaveRequest(b)
    /\ UNCHANGED <<price, payments, attempts, ended, served>>

Followed(b) == {p \in payments : p.key = <<b, tab[b].follows>>}

\* Every three seconds while the payment is open; what fails is tried again.
Poll(b) ==
    /\ tab[b].page = "PAYMENT" /\ tab[b].status = Open
    /\ \E p \in Followed(b) :
         /\ p.status # Open
         /\ tab' = [tab EXCEPT ![b].status = p.status, ![b].pending = NoKey,
                      ![b].page = IF p.status = "COMPLETED" THEN "TICKET" ELSE @]
         /\ served' = [served EXCEPT ![b] = IF p.status = "COMPLETED" THEN @ + 1 ELSE @]
    /\ UNCHANGED <<price, payments, attempts, ended, checkout>>

\* The button is there once the payment is over, unless it is to be looked at.
RetryOffered(b) ==
    tab[b].page = "PAYMENT" /\ tab[b].status \notin {Open, "REVIEW_REQUIRED"}

RetryPayment(b) ==
    /\ RetryOffered(b)
    /\ tab' = [tab EXCEPT ![b].page = "SUMMARY", ![b].pending = NoKey,
                          ![b].follows = NoKey, ![b].status = "NONE"]
    /\ UNCHANGED <<price, payments, attempts, ended, served, checkout>>

CheckoutNext ==
    \/ ChangePrice \/ PaymentEnds
    \/ \E q \in Request : ReadOffer(q) \/ Reserve(q)
    \/ \E b \in Visitor :
         \/ OpenSummary(b) \/ PayAnswered(b) \/ PayLost(b) \/ Poll(b) \/ RetryPayment(b)
         \/ \E q \in Request : Pay(b, q)

CheckoutSpec == CheckoutInit /\ [][CheckoutNext]_checkoutVars

-----------------------------------------------------------------------------
(* Properties.                                                             *)

PaymentsOf(b) == {p \in payments : p.key[1] = b}

\* Until a tab is answered, its clicks are one payment at most, although the answers
\* of earlier clicks are lost, the page is loaded again and the price changes.
AttemptBuysOnce ==
    \A b \in Visitor : Cardinality(PaymentsOf(b)) <= ended[b] + 1

\* A second click, or a reload, makes no second purchase: until a tab goes to its
\* ticket, one payment at most is open or collected (the comment of attemptKey).
NoSecondPurchase ==
    \A b \in Visitor :
      Cardinality({p \in PaymentsOf(b) : p.status \in {Open, "COMPLETED"}}) <= served[b] + 1

-----------------------------------------------------------------------------
(* The inductive invariant behind AttemptBuysOnce.                         *)

PaymentStatuses == {Open, "COMPLETED", "FAILED", "REVIEW_REQUIRED"}

CheckoutTypeOK ==
    /\ price \in Price
    /\ attempts \in [Visitor -> Nat] /\ ended \in [Visitor -> Nat]
    /\ tab \in [Visitor ->
         [page : {"AWAY", "SUMMARY", "PAYMENT", "TICKET"}, key : Nat, pending : Nat,
          follows : Nat, status : PaymentStatuses \cup {"NONE"},
          waits : Request \cup {NoRequest}]]
    /\ checkout \in [Request ->
         [at : {"SENT", "READ", "ANSWERED"}, key : Visitor \X Nat, operator : Operator,
          amount : Price \cup {0}, told : PaymentStatuses \cup {"NONE", "REFUSED", "FAULT"}]
           \cup {NoCheckout}]
    /\ payments \subseteq
         [key : Visitor \X Nat, operator : Operator, status : PaymentStatuses]

\* A payment is named by its key, which its tab made,
PaymentsKeyed ==
    /\ \A p, o \in payments : p.key = o.key => p = o
    /\ \A p \in payments : p.key[2] \in 1 .. attempts[p.key[1]]

\* so did a request's,
CheckoutKeyed(q) ==
    checkout[q] # NoCheckout => checkout[q].key[2] \in 1 .. attempts[checkout[q].key[1]]

\* and a tab that made another key was answered under the last.
AttemptsEnded(b) ==
    /\ tab[b].key <= attempts[b]
    /\ attempts[b] <= ended[b] + (IF tab[b].key = NoKey THEN 0 ELSE 1)

CheckoutIInv ==
    /\ CheckoutTypeOK
    /\ PaymentsKeyed
    /\ \A q \in Request : CheckoutKeyed(q)
    /\ \A b \in Visitor : AttemptsEnded(b)

=============================================================================
