--------------------------- MODULE RegistrationForms ---------------------------
(***************************************************************************)
(* A public registration form and its free offers (registration.service.js *)
(* submit, updateForm, setFormStatus; register/[slug]/page.jsx):           *)
(* participants register under an idempotency key that their browser keeps *)
(* until it is told of a ticket, lose answers, reload and choose again,    *)
(* while the organizer changes, removes, closes and publishes.             *)
(*                                                                         *)
(* updateForm and submit both begin with a lock on the form's row. A       *)
(* request's data is the offer it names. Places are counted elsewhere      *)
(* (RegistrationJobs): here an offer may be full at any time, and an       *)
(* update refused because it leaves fewer places than are held.            *)
(***************************************************************************)
EXTENDS Naturals, FiniteSets

CONSTANTS
    Visitor,        \* browsers of participants who are signed in
    Request,        \* requests to submit that may be under way at once
    NoRequest,      \* a browser that waits for no answer
    Offer,          \* offers the form may have
    MaxKeys         \* bound: keys a browser makes

ASSUME FormConstantsOK ==
    /\ NoRequest \notin Request
    /\ MaxKeys \in Nat

VARIABLES
    accepting,  \* the form is PUBLISHED, and between opens_at and closes_at
    offers,     \* the offers: not made, active, not active, with a price, or deleted
    edit,       \* the organizer's updateForm under way, which holds the form's lock
    registered, \* registrations: the key and the offer
    visit,      \* each browser: the page, its offers, its key, the request it waits for
    submission, \* the requests under way
    keys,       \* keys that each browser made
    tickets     \* history: what each browser was told it is registered for

formVars == <<accepting, offers, edit>>
visitVars == <<visit, keys, tickets>>
registrationVars == <<formVars, registered, visitVars, submission>>

NoKey == 0
NoEdit == [at |-> "NONE"]
Away == [page |-> "AWAY", listed |-> {}, key |-> NoKey, waits |-> NoRequest]
NoSubmission == [at |-> "NONE"]

\* createForm asks for one offer at least.
FormsInit ==
    /\ accepting = TRUE
    /\ \E first \in Offer :
         offers = [o \in Offer |-> IF o = first THEN "ACTIVE" ELSE "NONE"]
    /\ edit = NoEdit
    /\ registered = {}
    /\ visit = [b \in Visitor |-> Away]
    /\ submission = [q \in Request |-> NoSubmission]
    /\ keys = [b \in Visitor |-> 0]
    /\ tickets = {}

-----------------------------------------------------------------------------
(* The organizer.                                                          *)

\* Those with a price are paid for at the checkout.
Active == {o \in Offer : offers[o] = "ACTIVE"}
Used == {o \in Offer : \E r \in registered : r.offer = o}

FormFree == edit.at = "NONE"

\* The editor's whole list of offers, each with or without a price: one that was
\* left out before is in the list and becomes active again. The first statement
\* locks the form, and the offers that are left out now are looked up.
BeginUpdate ==
    /\ FormFree
    /\ \E offered \in [Offer -> {"NONE", "ACTIVE", "PAID"}] :
         /\ \E o \in Offer : offered[o] # "NONE"
         /\ \A o \in Offer : offers[o] = "DELETED" => offered[o] = "NONE"
         /\ edit' = [at |-> "COUNTED", offers |-> offered, used |-> Used]
    /\ UNCHANGED <<accepting, offers, registered, visitVars, submission>>

\* An offer with registrations is not deleted: it is no longer active.
CommitUpdate ==
    /\ edit.at = "COUNTED"
    /\ offers' = [o \in Offer |->
                    IF edit.offers[o] # "NONE" THEN edit.offers[o]
                    ELSE IF o \in edit.used THEN "INACTIVE"
                    ELSE IF offers[o] = "NONE" THEN "NONE" ELSE "DELETED"]
    /\ edit' = NoEdit
    /\ UNCHANGED <<accepting, registered, visitVars, submission>>

\* The transaction fails.
UpdateAborts ==
    /\ ~FormFree
    /\ edit' = NoEdit
    /\ UNCHANGED <<accepting, offers, registered, visitVars, submission>>

\* setFormStatus, or the clock at opens_at and closes_at. An active offer was seen
\* before the form is published, and may be none any more: it registers nobody.
SetFormStatus ==
    /\ accepting' = ~accepting
    /\ UNCHANGED <<offers, edit, registered, visitVars, submission>>

-----------------------------------------------------------------------------
(* The server: submit.                                                     *)

Answer(q, outcome) ==
    submission' = [submission EXCEPT
      ![q] = IF \E b \in Visitor : visit[b].waits = q
               THEN [@ EXCEPT !.at = "ANSWERED", !.outcome = outcome] ELSE NoSubmission]

OfKey(q) == {r \in registered : r.key = submission[q].key}

\* Mutant of SameRequest: request_hash is not compared.
SameRequestOfKey(r, q) == r.key = submission[q].key

\* The registration of this key was asked for with the same data.
SameRequest(r, q) == r.key = submission[q].key /\ r.offer = submission[q].offer

\* What is registered under the key answers for it, if the data are the same.
Replay(q) ==
    \E r \in OfKey(q) :
      Answer(q, IF SameRequest(r, q) THEN "REGISTERED" ELSE "IDEMPOTENCY_KEY_CONFLICT")

\* Before the transaction.
FindExisting(q) ==
    /\ submission[q].at = "SENT"
    /\ IF OfKey(q) # {} THEN Replay(q)
       ELSE submission' = [submission EXCEPT ![q].at = "LOOKED"]
    /\ UNCHANGED <<formVars, registered, visitVars>>

\* The form and the offer are locked. A form that is closed, or an offer that is gone,
\* not active, has a price or is full, refuses before the key is looked for again;
\* so do three serialization failures, and a server that stops.
RunSubmit(q) ==
    /\ submission[q].at = "LOOKED" /\ FormFree
    /\ \/ Answer(q, "REFUSED") /\ UNCHANGED registered
       \/ /\ accepting /\ offers[submission[q].offer] = "ACTIVE"
          /\ IF OfKey(q) # {} THEN Replay(q) /\ UNCHANGED registered
             ELSE /\ registered' = registered \cup {[key |-> submission[q].key,
                                         offer |-> submission[q].offer]}
                  /\ Answer(q, "REGISTERED")
    /\ UNCHANGED <<formVars, visitVars>>

-----------------------------------------------------------------------------
(* The participant's page.                                                 *)

\* A request that nobody waits for goes on, and its answer is for nobody.
Forgotten(b) ==
    [submission EXCEPT ![visit[b].waits] = IF @.at = "ANSWERED" THEN NoSubmission ELSE @]

Abandon(b) ==
    submission' = IF visit[b].waits = NoRequest THEN submission ELSE Forgotten(b)

\* The page is loaded, or loaded again; the key stays in the session's storage. The
\* form is read once.
LoadForm(b) ==
    /\ accepting
    /\ visit' = [visit EXCEPT ![b] = [@ EXCEPT !.page = "FORM", !.listed = Active,
                                              !.waits = NoRequest]]
    /\ Abandon(b)
    /\ UNCHANGED <<formVars, registered, keys, tickets>>

\* attemptKey makes a key where there is none.
Submit(b, q) ==
    LET fresh == visit[b].key = NoKey
        key == IF fresh THEN keys[b] + 1 ELSE visit[b].key IN
    /\ visit[b].page = "FORM" /\ visit[b].waits = NoRequest
    /\ submission[q] = NoSubmission /\ key <= MaxKeys
    /\ keys' = [keys EXCEPT ![b] = IF fresh THEN @ + 1 ELSE @]
    /\ visit' = [visit EXCEPT ![b].key = key, ![b].waits = q]
    /\ \E o \in visit[b].listed :
         submission' = [submission EXCEPT
           ![q] = [at |-> "SENT", key |-> <<b, key>>, offer |-> o, outcome |-> "NONE"]]
    /\ UNCHANGED <<formVars, registered, tickets>>

\* Only a success does away with the key.
KeyAfter(b, told) == IF told THEN NoKey ELSE visit[b].key

\* The page goes to the ticket, or says what is wrong.
SubmitAnswered(b) ==
    LET q == visit[b].waits
        told == submission[q].outcome = "REGISTERED" IN
    /\ q # NoRequest /\ submission[q].at = "ANSWERED"
    /\ visit' = [visit EXCEPT ![b].key = KeyAfter(b, told), ![b].waits = NoRequest,
                              ![b].page = IF told THEN "TICKET" ELSE @]
    /\ tickets' = tickets \cup
         (IF told THEN {[key |-> submission[q].key, offer |-> submission[q].offer]}
          ELSE {})
    /\ submission' = [submission EXCEPT ![q] = NoSubmission]
    /\ UNCHANGED <<formVars, registered, keys>>

SubmitLost(b) ==
    /\ visit[b].waits # NoRequest
    /\ visit' = [visit EXCEPT ![b].key = KeyAfter(b, FALSE), ![b].waits = NoRequest]
    /\ Abandon(b)
    /\ UNCHANGED <<formVars, registered, keys, tickets>>

-----------------------------------------------------------------------------

Organize == BeginUpdate \/ CommitUpdate \/ UpdateAborts \/ SetFormStatus

RegistrationsNext ==
    \/ Organize
    \/ \E q \in Request : FindExisting(q) \/ RunSubmit(q)
    \/ \E b \in Visitor :
         \/ LoadForm(b) \/ SubmitAnswered(b) \/ SubmitLost(b)
         \/ \E q \in Request : Submit(b, q)

FormsSpec == FormsInit /\ [][RegistrationsNext]_registrationVars

-----------------------------------------------------------------------------
(* Properties.                                                             *)

\* Whoever is told of a ticket is registered for the offer chosen with that click,
\* although a first click's answer was lost and another offer chosen since.
ToldWhatIsRegistered ==
    \A t \in tickets : \E r \in registered : r.key = t.key /\ r.offer = t.offer

\* Until a browser is told of a ticket, its clicks, reloads and changes of mind are
\* one registration at most, however many of its requests are under way.
OneRegistrationPerAttempt ==
    \A b \in Visitor :
      Cardinality({r \in registered : r.key[1] = b})
        <= Cardinality({t \in tickets : t.key[1] = b}) + 1

\* One attempt registers its visitor once, and tells of what is registered (submit, and
\* the key that the page keeps).
SubmissionsHold == ToldWhatIsRegistered /\ OneRegistrationPerAttempt

-----------------------------------------------------------------------------
(* The inductive invariant behind them.                                    *)

Registration == [key : Visitor \X Nat, offer : Offer]

FormsTypeOK ==
    /\ visit \in [Visitor -> [page : {"AWAY", "FORM", "TICKET"}, listed : SUBSET Offer,
                              key : Nat, waits : Request \cup {NoRequest}]]
    /\ keys \in [Visitor -> Nat]
    /\ submission \in [Request ->
         [at : {"SENT", "LOOKED", "ANSWERED"}, key : Visitor \X Nat, offer : Offer,
          outcome : {"NONE", "REFUSED", "REGISTERED", "IDEMPOTENCY_KEY_CONFLICT"}]
           \cup {NoSubmission}]
    /\ registered \subseteq Registration /\ tickets \subseteq registered
    /\ IsFiniteSet(registered)

\* A key is registered under once, and a browser that made another key was told of a
\* ticket for the last.
KeysConsistent ==
    /\ \A r, s \in registered : r.key = s.key => r = s
    /\ \A r \in registered : r.key[2] \in 1 .. keys[r.key[1]]
    /\ \A b \in Visitor :
         /\ visit[b].key \in 0 .. keys[b]
         /\ \A k \in 1 .. keys[b] : k # visit[b].key => \E t \in tickets : t.key = <<b, k>>

\* A request carries a key that was made, and what it is told of is registered.
SubmissionConsistent(q) ==
    submission[q] # NoSubmission =>
      /\ submission[q].key[2] \in 1 .. keys[submission[q].key[1]]
      /\ submission[q].at = "ANSWERED" /\ submission[q].outcome = "REGISTERED" =>
           [key |-> submission[q].key, offer |-> submission[q].offer] \in registered

\* A browser waits for a request of its own, under the key that it has.
WaitsForItsOwn(b) ==
    visit[b].waits # NoRequest =>
      /\ submission[visit[b].waits] # NoSubmission
      /\ submission[visit[b].waits].key = <<b, visit[b].key>>

FormsIInv ==
    /\ FormsTypeOK /\ KeysConsistent
    /\ \A q \in Request : SubmissionConsistent(q)
    /\ \A b \in Visitor : WaitsForItsOwn(b)

=============================================================================
