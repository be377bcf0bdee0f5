------------------------------- MODULE Attendee -------------------------------
(***************************************************************************)
(* The box of one participant (attendee_auth.service.js, the box's pages,  *)
(* data_retention.service.js): codes by e-mail that open or create it, an  *)
(* optional password, sessions that carry the version of the account, and  *)
(* the retention that closes a box unused for three years and frees its    *)
(* address. The accounts that the address has had are rows, the last of    *)
(* them possibly its owner.                                                *)
(*                                                                         *)
(* The account is read, then written, in steps of their own, so that the   *)
(* requests of several browsers overlap. A request for a code goes on when *)
(* its page is left or loaded again, so that one browser alone can have    *)
(* several; the other requests of a page are waited for. Renewing a session*)
(* signs again the version it carries and changes nothing.                 *)
(***************************************************************************)
EXTENDS Naturals, Sequences, FiniteSets

CONSTANTS
    Browser,        \* browsers of the participant
    NoBrowser,
    Mail,           \* bound: requests for a code under way at a time
    MaxTries,       \* CODE_MAX_ATTEMPTS
    MaxCodes,       \* bound: codes sent
    MaxAccounts,    \* bound: accounts of the address
    MaxVersion      \* bound: session_version

ASSUME ConstantsOK ==
    /\ IsFiniteSet(Mail)
    /\ NoBrowser \notin Browser
    /\ {MaxTries, MaxCodes, MaxAccounts, MaxVersion} \subseteq Nat

VARIABLES
    codes,      \* attendee_login_codes in the order they were stored
    cooling,    \* the last one was created less than a minute ago
    lapsed,     \* how many, from the first, have reached expires_at
    rows,       \* attendees
    owner,      \* the row that has the address, 0 for none
    mails,      \* the requests for a code under way, and the page that waits for each
    page,       \* what each browser shows and has asked for
    sess        \* the session in the cookies of each browser

codeVars == <<codes, cooling, lapsed>>
rowVars == <<rows, owner>>
vars == <<codeVars, rowVars, mails, page, sess>>

NewRow == [active |-> TRUE, secured |-> FALSE, version |-> 0, dormant |-> FALSE]

\* The form that asks for the address.
SignIn == [step |-> "EMAIL", at |-> "IDLE", code |-> 0, right |-> FALSE, row |-> 0, secured |-> FALSE]

NoMail == [at |-> "NONE", seen |-> {}, by |-> NoBrowser]

NoSession == [row |-> 0, version |-> 0]

Init ==
    /\ codes = <<>> /\ cooling = FALSE /\ lapsed = 0
    /\ rows = <<>> /\ owner = 0
    /\ mails = [m \in Mail |-> NoMail]
    /\ page = [b \in Browser |-> SignIn]
    /\ sess = [b \in Browser |-> NoSession]

Shows(b, step) == page' = [page EXCEPT ![b] = [SignIn EXCEPT !.step = step]]
Back(b) == Shows(b, page[b].step)
Continues(b, at) == page' = [page EXCEPT ![b].at = at]
Idle(b, step) == page[b].at = "IDLE" /\ page[b].step = step

-----------------------------------------------------------------------------
(* Codes by e-mail.                                                        *)

Live == {c \in DOMAIN codes : codes[c].live}

\* The first code, or another one a minute after the last.
AskCode(b) ==
    /\ Idle(b, "EMAIL") \/ Idle(b, "CODE")
    /\ ~cooling
    /\ \E m \in Mail :
        /\ mails[m].at = "NONE"
        /\ mails' = [mails EXCEPT ![m] = [NoMail EXCEPT !.at = "ASKING", !.by = b]]
    /\ Continues(b, "ASKING")
    /\ UNCHANGED <<codeVars, rowVars, sess>>

\* The page is loaded again, or left and opened later: nothing waits for its request.
Reload(b) ==
    /\ page[b].at = "ASKING"
    /\ mails' = [m \in Mail |-> [mails[m] EXCEPT !.by = IF @ = b THEN NoBrowser ELSE @]]
    /\ Shows(b, "EMAIL")
    /\ UNCHANGED <<codeVars, rowVars, sess>>

\* What the update of the transaction finds: not the code of another request whose
\* transaction has not ended.
Superseded == Live

Supersede(m) ==
    /\ mails[m].at = "ASKING"
    /\ mails' = [mails EXCEPT ![m].at = "REPLACING", ![m].seen = Superseded]
    /\ UNCHANGED <<codeVars, rowVars, page, sess>>

\* The request ends, and the page that waits for it, if any, takes one of these steps.
Answered(m, steps) ==
    /\ mails' = [mails EXCEPT ![m] = NoMail]
    /\ IF mails[m].by = NoBrowser
       THEN UNCHANGED page
       ELSE \E step \in steps \cup {page[mails[m].by].step} : Shows(mails[m].by, step)

\* The transaction ends; then the mail is sent, or that fails and the page stays where
\* it was. Opened and guessed are history.
SendCode(m) ==
    LET kept == [c \in DOMAIN codes |->
                   [codes[c] EXCEPT !.live = @ /\ c \notin mails[m].seen]]
        sent == [live |-> TRUE, tries |-> 0, guessed |-> 0, opened |-> 0] IN
    /\ mails[m].at = "REPLACING" /\ Len(codes) < MaxCodes
    /\ codes' = Append(kept, sent)
    /\ cooling' = TRUE
    /\ Answered(m, {"CODE"})
    /\ UNCHANGED <<lapsed, rowVars, sess>>

\* The request fails before its transaction ends.
AskFails(m) ==
    /\ mails[m].at \in {"ASKING", "REPLACING"}
    /\ Answered(m, {})
    /\ UNCHANGED <<codeVars, rowVars, sess>>

MinutePasses ==
    /\ cooling
    /\ cooling' = FALSE
    /\ UNCHANGED <<codes, lapsed, rowVars, mails, page, sess>>

\* Ten minutes pass.
CodesLapse ==
    /\ ~cooling /\ lapsed < Len(codes)
    /\ lapsed' = Len(codes)
    /\ UNCHANGED <<codes, cooling, rowVars, mails, page, sess>>

\* The last code that is neither consumed nor expired is compared, whichever mail
\* arrived and was copied. Those that are live together were asked for by requests that
\* overlapped, in any order of created_at: each may be the last.
TypeCode(b) ==
    /\ Idle(b, "CODE")
    /\ \E c \in Live, right \in BOOLEAN :
        /\ c > lapsed
        /\ page' = [page EXCEPT ![b].at = "FOUND", ![b].code = c, ![b].right = right]
    /\ UNCHANGED <<codeVars, rowVars, mails, sess>>

\* The condition of the update that counts the attempt.
Countable(c) == codes[c].live /\ codes[c].tries < MaxTries

CountTry(b) ==
    LET c == page[b].code IN
    /\ page[b].at = "FOUND"
    /\ IF Countable(c)
       THEN /\ codes' = [codes EXCEPT ![c].tries = @ + 1, ![c].guessed = @ + 1]
            /\ IF page[b].right THEN Continues(b, "KNOWN") ELSE Back(b)
       ELSE Back(b) /\ UNCHANGED codes
    /\ UNCHANGED <<cooling, lapsed, rowVars, mails, sess>>

\* The account, if there is one. Without the name of a new one or the terms the code
\* stays, and is typed again with them.
FindAccount(b) ==
    /\ page[b].at = "KNOWN"
    /\ Continues(b, "ADMITTED") \/ Back(b)
    /\ UNCHANGED <<codeVars, rowVars, mails, sess>>

SessionOf(b, row, version) ==
    sess' = [sess EXCEPT ![b] = [row |-> row, version |-> version]]

\* Mutant of Unused: the code was live when it was found.
UnusedAsFound(c) == TRUE

\* The condition of the update that consumes the code.
Unused(c) == codes[c].live

\* One transaction consumes the code and opens or creates the account.
OpenByCode(b) ==
    LET c == page[b].code IN
    /\ page[b].at = "ADMITTED" /\ Unused(c)
    /\ codes' = [codes EXCEPT ![c].live = FALSE, ![c].opened = @ + 1]
    /\ IF owner = 0
       THEN /\ Len(rows) < MaxAccounts
            /\ rows' = Append(rows, NewRow) /\ owner' = Len(rows) + 1
       ELSE rows' = [rows EXCEPT ![owner].dormant = FALSE] /\ owner' = owner
    /\ SessionOf(b, owner', rows'[owner'].version)
    /\ Shows(b, "BOX")
    /\ UNCHANGED <<cooling, lapsed, mails>>

\* The code is used already, or the transaction fails.
CodeRefused(b) ==
    /\ page[b].at = "ADMITTED"
    /\ Back(b)
    /\ UNCHANGED <<codeVars, rowVars, mails, sess>>

-----------------------------------------------------------------------------
(* The password and the sessions.                                          *)

\* The password is compared with the row read.
LogIn(b) ==
    /\ Idle(b, "EMAIL") /\ owner # 0 /\ rows[owner].secured
    /\ page' = [page EXCEPT ![b].at = "COMPARED", ![b].row = owner]
    /\ UNCHANGED <<codeVars, rowVars, mails, sess>>

\* The update gives the row as it is now, and the session its version.
LogInWrites(b) ==
    LET row == page[b].row IN
    /\ page[b].at = "COMPARED"
    /\ rows' = [rows EXCEPT ![row].dormant = FALSE]
    /\ SessionOf(b, row, rows[row].version)
    /\ Shows(b, "BOX")
    /\ UNCHANGED <<codeVars, owner, mails>>

\* resolveSessionAttendee.
Accepted(b) ==
    LET row == sess[b].row IN
    row # 0 /\ rows[row].active /\ rows[row].version = sess[b].version

\* A box without a password is secured; a password is changed by who knows it.
AskPassword(b) ==
    /\ Idle(b, "BOX") /\ Accepted(b)
    /\ page' = [page EXCEPT ![b].at = "HASHING", ![b].row = sess[b].row,
                            ![b].secured = rows[sess[b].row].secured]
    /\ UNCHANGED <<codeVars, rowVars, mails, sess>>

\* Securing leaves the sessions as they are, a change closes the others.
SetPassword(b) ==
    LET row == page[b].row
        version == rows[row].version + IF page[b].secured THEN 1 ELSE 0 IN
    /\ page[b].at = "HASHING" /\ version <= MaxVersion
    /\ rows' = [rows EXCEPT ![row].secured = TRUE, ![row].version = version]
    /\ SessionOf(b, row, version)
    /\ Shows(b, "BOX")
    /\ UNCHANGED <<codeVars, owner, mails>>

\* The other requests of the page, and the renewal, are refused as well.
Denied(b) ==
    /\ Idle(b, "BOX") /\ ~Accepted(b)
    /\ sess' = [sess EXCEPT ![b] = NoSession]
    /\ Shows(b, "EMAIL")
    /\ UNCHANGED <<codeVars, rowVars, mails>>

\* The participant leaves, or thirty days pass without a renewal.
LogOut(b) ==
    /\ Idle(b, "BOX")
    /\ sess' = [sess EXCEPT ![b] = NoSession]
    /\ Shows(b, "EMAIL")
    /\ UNCHANGED <<codeVars, rowVars, mails>>

-----------------------------------------------------------------------------
(* Retention.                                                              *)

\* Three years since the last log-in, registration and payment.
GoesDormant ==
    /\ owner # 0 /\ ~rows[owner].dormant
    /\ rows' = [rows EXCEPT ![owner].dormant = TRUE]
    /\ UNCHANGED <<codeVars, owner, mails, page, sess>>

Closed(row) == [row EXCEPT !.active = FALSE, !.secured = FALSE, !.version = @ + 1]

\* One statement takes the address and the password away and closes the sessions.
Retire ==
    /\ owner # 0 /\ rows[owner].dormant
    /\ rows' = [rows EXCEPT ![owner] = Closed(@)]
    /\ owner' = 0
    /\ UNCHANGED <<codeVars, mails, page, sess>>

-----------------------------------------------------------------------------

Browse(b) ==
    \/ AskCode(b) \/ Reload(b)
    \/ TypeCode(b) \/ CountTry(b) \/ FindAccount(b) \/ OpenByCode(b) \/ CodeRefused(b)
    \/ LogIn(b) \/ LogInWrites(b) \/ AskPassword(b) \/ SetPassword(b)
    \/ Denied(b) \/ LogOut(b)

Next ==
    \/ \E b \in Browser : Browse(b)
    \/ \E m \in Mail : Supersede(m) \/ SendCode(m) \/ AskFails(m)
    \/ MinutePasses \/ CodesLapse \/ GoesDormant \/ Retire

Spec == Init /\ [][Next]_vars

-----------------------------------------------------------------------------
(* Properties.                                                             *)

\* Codes, accounts, pages and sessions are well formed, and the address belongs to an
\* account that is open.
TypeOK ==
    /\ cooling \in BOOLEAN /\ lapsed \in 0..Len(codes)
    /\ \A c \in DOMAIN codes : codes[c].live \in BOOLEAN /\ codes[c].tries \in 0..MaxTries
    /\ owner \in 0..Len(rows) /\ (owner # 0 => rows[owner].active)
    /\ \A r \in DOMAIN rows : rows[r].secured \in BOOLEAN
    /\ \A b \in Browser : sess[b].row \in 0..Len(rows) /\ page[b].code \in 0..Len(codes)

\* A code opens one session at most, in whatever order the requests that typed it run.
CodeOpensOnce == \A c \in DOMAIN codes : codes[c].opened <= 1

\* No code is compared more often than CODE_MAX_ATTEMPTS, overlapping requests
\* included.
GuessesBounded == \A c \in DOMAIN codes : codes[c].guessed <= MaxTries

\* A code that was used or replaced is not compared again, though it was found before.
UsedIsNotCompared ==
    [][\A c \in DOMAIN codes : ~codes[c].live => codes'[c].guessed = codes[c].guessed]_vars

\* Requests that overlap leave no more codes live than there are of them, however many
\* were sent before.
LiveCodesBounded == Cardinality(Live) <= Cardinality(Mail)

\* A session that is accepted is one of the account that has the address: a box that
\* retention closed stays closed to sessions and log-ins begun before, and to whoever
\* opens a new one with the address.
BoxOfAddress == \A b \in Browser : Accepted(b) => sess[b].row = owner

\* A box opens to who has its address, by a code that serves once and can be guessed at
\* a few times, whichever requests overlap (requestCode, verifyCode, data_retention).
BoxIsKept ==
    /\ [](/\ TypeOK /\ BoxOfAddress
         /\ CodeOpensOnce /\ GuessesBounded /\ LiveCodesBounded)
    /\ UsedIsNotCompared

-----------------------------------------------------------------------------
(* The inductive invariant behind BoxIsKept.                               *)

BoxTypeOK ==
    /\ codes \in Seq([live : BOOLEAN, tries : 0..MaxTries, guessed : Nat, opened : Nat])
    /\ cooling \in BOOLEAN /\ lapsed \in 0..Len(codes)
    /\ rows \in Seq([active : BOOLEAN, secured : BOOLEAN, version : Nat, dormant : BOOLEAN])
    /\ owner \in 0..Len(rows)
    /\ mails \in [Mail -> [at : {"NONE", "ASKING", "REPLACING"}, seen : SUBSET Nat,
                          by : Browser \cup {NoBrowser}]]
    /\ page \in [Browser ->
         [step : {"EMAIL", "CODE", "BOX"},
          at : {"IDLE", "ASKING", "FOUND", "KNOWN", "ADMITTED", "COMPARED", "HASHING"},
          code : Nat, right : BOOLEAN, row : Nat, secured : BOOLEAN]]
    /\ sess \in [Browser -> [row : Nat, version : Nat]]

\* A live code has opened nothing, and every comparison of it was counted.
CodesConsistent ==
    \A c \in 1..Len(codes) :
      /\ codes[c].guessed = codes[c].tries
      /\ codes[c].opened <= 1 /\ (codes[c].live => codes[c].opened = 0)

\* The account that is open has the address.
OwnerConsistent ==
    /\ owner # 0 => rows[owner].active
    /\ \A r \in 1..Len(rows) : rows[r].active => r = owner

\* A request names a code and an account that exist, a session an account.
PagePoints(b) ==
    /\ page[b].code \in 0..Len(codes)
    /\ page[b].at \in {"FOUND", "KNOWN", "ADMITTED"} => page[b].code # 0
    /\ page[b].at \in {"COMPARED", "HASHING"} => page[b].row \in 1..Len(rows)
    /\ sess[b].row \in 0..Len(rows)

\* Each live code was stored by a request, no two of them by requests in the same place,
\* and one about to replace the codes it saw has seen the one of its own place.
AskedBy(f) ==
    /\ \A c, d \in Live : f[c] = f[d] => c = d
    /\ \A m \in Mail : mails[m].at = "REPLACING" =>
         \A c \in Live : f[c] = m => c \in mails[m].seen

Authored == \E f \in [1..Len(codes) -> Mail] : AskedBy(f)

BoxIInv ==
    /\ BoxTypeOK /\ CodesConsistent /\ OwnerConsistent
    /\ \A b \in Browser : PagePoints(b)
    /\ Authored

=============================================================================
