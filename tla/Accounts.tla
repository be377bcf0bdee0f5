------------------------------ MODULE Accounts ------------------------------
(***************************************************************************)
(* The account of one member of an organization and the browsers that use  *)
(* it: controllers/api.auth.controller.js, api.user.controller.js,         *)
(* middleware/authMiddleware.js, utils/account.js and the console's        *)
(* suspensions. A session is a pair of signed tokens that nobody can take  *)
(* back; it ends because every request compares the session_version it     *)
(* carries with the row. Hashing a password takes long, and every handler  *)
(* reads the row, waits and then writes it: requests are sequences of      *)
(* steps here, with those of other browsers in between.                    *)
(***************************************************************************)
EXTENDS Naturals

CONSTANTS
    Client,     \* browsers; each has at most one request under way
    Password,
    Link,       \* random tokens of the links sent by e-mail
    None,       \* null: no password, no link
    MaxSessionVersion  \* bound: session_version never grows beyond it

ASSUME AccountConstantsOK == None \notin Password \cup Link /\ MaxSessionVersion \in Nat

VARIABLES
    account,      \* the row of usersQ
    organization, \* state of its organization
    verification, \* verification_token and whether it has not expired
    reset,        \* password_reset_token_hash and whether it has not expired
    cooling,      \* password_reset_email_sent_at is less than a minute old
    drawn,        \* the random tokens that were drawn so far
    mail,         \* those that reached the mailbox
    cookie,       \* the session each browser holds
    asked,        \* the request of each browser: where it is and what it read
    changed       \* history: how often each link has changed the password

accountRowVars == <<account, organization>>
linkVars == <<verification, reset, cooling, drawn, mail, changed>>
accountVars == <<accountRowVars, linkVars, cookie, asked>>

Versions == 0 .. MaxSessionVersion
Links == Link \cup {None}
Passwords == Password \cup {None}

\* The claims of a session; password is that with which it was opened, renewals
\* included, and access tells that the access token has not expired yet.
Sessions == [held: BOOLEAN, version: Versions, password: Passwords, access: BOOLEAN]

NoSession == [held |-> FALSE, version |-> 0, password |-> None, access |-> FALSE]

Steps == {"NONE", "SIGNUP", "SEND_VERIFICATION", "RESEND", "VERIFY", "LOGIN",
          "UNVERIFIED", "ALLOWED", "ASKED", "REFUSED", "RETRIED", "AUTHORIZED", "CHANGE",
          "FORGOT", "SEND_RESET", "RESET"}

\* What a request remembers between its steps.
Requests == [step: Steps, version: Versions, password: Passwords, link: Links]

NoRequest == [step |-> "NONE", version |-> 0, password |-> None, link |-> None]

AccountsTypeOK ==
    /\ account \in [known: BOOLEAN, password: Passwords, version: Versions,
                    verified: BOOLEAN, active: BOOLEAN, archived: BOOLEAN]
    /\ organization \in {"ACTIVE", "INACTIVE", "ARCHIVED"}
    /\ verification \in [link: Links, live: BOOLEAN]
    /\ reset \in [link: Links, live: BOOLEAN]
    /\ cooling \in BOOLEAN
    /\ drawn \subseteq Link
    /\ mail \subseteq drawn
    /\ cookie \in [Client -> Sessions]
    /\ asked \in [Client -> Requests]
    /\ changed \in [Link -> Nat]

AccountsInit ==
    /\ account = [known |-> FALSE, password |-> None, version |-> 0,
                  verified |-> FALSE, active |-> TRUE, archived |-> FALSE]
    /\ cookie = [c \in Client |-> NoSession]
    /\ asked = [c \in Client |-> NoRequest]
    /\ organization = "ACTIVE"
    /\ verification = [link |-> None, live |-> FALSE]
    /\ reset = [link |-> None, live |-> FALSE]
    /\ cooling = FALSE
    /\ drawn = {}
    /\ mail = {}
    /\ changed = [l \in Link |-> 0]

-----------------------------------------------------------------------------
(* What the handlers share *)

\* evaluateAccess without claims: the account and its organization are in use.
Allowed ==
    /\ account.known
    /\ account.active
    /\ ~account.archived
    /\ organization = "ACTIVE"

\* evaluateAccess with the claims of a session.
InForce(s) == s.held /\ Allowed /\ s.version = account.version

Idle(c) == asked[c].step = "NONE"

\* Request c goes on to a step and keeps the rest of what it carries.
Goes(c, step) == asked' = [asked EXCEPT ![c].step = step]

Ends(c) == asked' = [asked EXCEPT ![c] = NoRequest]

\* Request c goes on to a step with what it has just read or drawn.
Carries(c, step, version, password, link) ==
    asked' = [asked EXCEPT ![c] = [step |-> step, version |-> version,
                                       password |-> password, link |-> link]]

\* issueSession: both tokens, with the version of the row that was read.
Issue(c, version, password) ==
    cookie' = [cookie EXCEPT ![c] = [held |-> TRUE, version |-> version,
                                     password |-> password, access |-> TRUE]]

ClearSession(c) == cookie' = [cookie EXCEPT ![c] = NoSession]

\* The version may still be raised (the bound).
Room == account.version < MaxSessionVersion

-----------------------------------------------------------------------------
(* Sign-up and verification of the address *)

\* signin: no account has the address yet; the password is hashed meanwhile.
SignUp(c, p) ==
    /\ Idle(c)
    /\ ~account.known
    /\ Carries(c, "SIGNUP", 0, p, None)
    /\ UNCHANGED <<accountRowVars, linkVars, cookie>>

\* The unique address lets only one of several requests create the account.
SignUpCreates(c, l) ==
    /\ asked[c].step = "SIGNUP"
    /\ IF account.known
       THEN Ends(c) /\ UNCHANGED <<accountRowVars, linkVars, cookie>>
       ELSE /\ l \notin drawn
            /\ account' = [account EXCEPT !.known = TRUE, !.password = asked[c].password]
            /\ verification' = [link |-> l, live |-> TRUE]
            /\ drawn' = drawn \cup {l}
            /\ Carries(c, "SEND_VERIFICATION", 0, None, l)
            /\ UNCHANGED <<organization, reset, cooling, mail, changed, cookie>>

\* The verification e-mail leaves, or does not.
VerificationSent(c) ==
    /\ asked[c].step = "SEND_VERIFICATION"
    /\ mail' \in {mail, mail \cup {asked[c].link}}
    /\ Ends(c)
    /\ UNCHANGED <<accountRowVars, verification, reset, cooling, drawn, changed, cookie>>

\* resendVerificationEmail: the row is read, then a new link replaces the old one.
Resend(c) ==
    /\ Idle(c)
    /\ account.known
    /\ ~account.verified
    /\ Goes(c, "RESEND")
    /\ UNCHANGED <<accountRowVars, linkVars, cookie>>

ResendStores(c, l) ==
    /\ asked[c].step = "RESEND"
    /\ l \notin drawn
    /\ verification' = [link |-> l, live |-> TRUE]
    /\ drawn' = drawn \cup {l}
    /\ Carries(c, "SEND_VERIFICATION", 0, None, l)
    /\ UNCHANGED <<accountRowVars, reset, cooling, mail, changed, cookie>>

\* verifyEmail: the link finds the account, which is then verified by identifier.
Verify(c, l) ==
    /\ Idle(c)
    /\ account.known
    /\ l \in mail
    /\ verification = [link |-> l, live |-> TRUE]
    /\ ~account.verified
    /\ Goes(c, "VERIFY")
    /\ UNCHANGED <<accountRowVars, linkVars, cookie>>

VerifyWrites(c) ==
    /\ asked[c].step = "VERIFY"
    /\ account' = [account EXCEPT !.verified = TRUE]
    /\ verification' = [link |-> None, live |-> FALSE]
    /\ Ends(c)
    /\ UNCHANGED <<organization, reset, cooling, drawn, mail, changed, cookie>>

-----------------------------------------------------------------------------
(* Opening a session *)

\* login: the row is read once, hash and version together, and the password compared.
Login(c) ==
    /\ Idle(c)
    /\ account.known
    /\ Carries(c, IF account.verified THEN "LOGIN" ELSE "UNVERIFIED",
               account.version, account.password, None)
    /\ UNCHANGED <<accountRowVars, linkVars, cookie>>

\* The state of the account is read again; a refusal clears the cookies.
LoginAllowed(c) ==
    /\ asked[c].step \in {"LOGIN", "UNVERIFIED"}
    /\ IF Allowed
       THEN /\ IF asked[c].step = "LOGIN" THEN Goes(c, "ALLOWED") ELSE Ends(c)
            /\ UNCHANGED cookie
       ELSE Ends(c) /\ ClearSession(c)
    /\ UNCHANGED <<accountRowVars, linkVars>>

\* Mutant of LoginIssues: the session is issued for the row of the second read.
LoginIssuesLate(c) ==
    /\ asked[c].step = "ALLOWED"
    /\ Issue(c, account.version, asked[c].password)
    /\ Ends(c)
    /\ UNCHANGED <<accountRowVars, linkVars>>

\* last_login is written, and the session issued for the row read first.
LoginIssues(c) ==
    /\ asked[c].step = "ALLOWED"
    /\ Issue(c, asked[c].version, asked[c].password)
    /\ Ends(c)
    /\ UNCHANGED <<accountRowVars, linkVars>>

-----------------------------------------------------------------------------
(* Using and renewing a session *)

\* apiFetch sends a request.
Ask(c) ==
    /\ Idle(c)
    /\ cookie[c].held
    /\ Goes(c, "ASKED")
    /\ UNCHANGED <<accountRowVars, linkVars, cookie>>

\* authenticateToken: the claims are compared with the row as it is now. An expired
\* access token is refused without a message, and the browser tries to renew; a
\* session no longer in force clears the cookies and ends the request.
Authenticate(c) ==
    /\ asked[c].step \in {"ASKED", "RETRIED"}
    /\ CASE ~cookie[c].access ->
              /\ IF asked[c].step = "ASKED" THEN Goes(c, "REFUSED") ELSE Ends(c)
              /\ UNCHANGED cookie
         [] cookie[c].access /\ InForce(cookie[c]) ->
              Goes(c, "AUTHORIZED") /\ UNCHANGED cookie
         [] OTHER -> Ends(c) /\ ClearSession(c)
    /\ UNCHANGED <<accountRowVars, linkVars>>

\* refreshSession, asked for by apiFetch after a refusal: once, then the request again.
Refresh(c) ==
    /\ asked[c].step = "REFUSED"
    /\ IF InForce(cookie[c])
       THEN /\ Issue(c, account.version, cookie[c].password)
            /\ Goes(c, "RETRIED")
       ELSE Ends(c) /\ ClearSession(c)
    /\ UNCHANGED <<accountRowVars, linkVars>>

\* Any other handler does its work and answers.
Answer(c) ==
    /\ asked[c].step = "AUTHORIZED"
    /\ Ends(c)
    /\ UNCHANGED <<accountRowVars, linkVars, cookie>>

\* logout closes all sessions of the account.
Logout(c) ==
    /\ asked[c].step = "AUTHORIZED"
    /\ Room
    /\ account' = [account EXCEPT !.version = @ + 1]
    /\ ClearSession(c)
    /\ Ends(c)
    /\ UNCHANGED <<organization, linkVars>>

\* updatePassword: the current password is compared, the new one hashed, ...
ChangePassword(c, p) ==
    /\ asked[c].step = "AUTHORIZED"
    /\ Carries(c, "CHANGE", 0, p, None)
    /\ UNCHANGED <<accountRowVars, linkVars, cookie>>

\* ... and the row written, whatever it has become.
ChangeWrites(c) ==
    /\ asked[c].step = "CHANGE"
    /\ Room
    /\ account' = [account EXCEPT !.password = asked[c].password, !.version = @ + 1]
    /\ ClearSession(c)
    /\ Ends(c)
    /\ UNCHANGED <<organization, linkVars>>

\* deleteOrganization archives the organization and its members.
DeleteOrganization(c) ==
    /\ asked[c].step = "AUTHORIZED"
    /\ organization' = "ARCHIVED"
    /\ account' = [account EXCEPT !.archived = TRUE]
    /\ cookie' = [cookie EXCEPT ![c].access = FALSE]
    /\ Ends(c)
    /\ UNCHANGED linkVars

-----------------------------------------------------------------------------
(* A forgotten password *)

\* forgotPassword
Forgot(c) ==
    /\ Idle(c)
    /\ account.known
    /\ account.active
    /\ ~account.archived
    /\ ~cooling
    /\ Goes(c, "FORGOT")
    /\ UNCHANGED <<accountRowVars, linkVars, cookie>>

ForgotStores(c, l) ==
    /\ asked[c].step = "FORGOT"
    /\ l \notin drawn
    /\ reset' = [link |-> l, live |-> TRUE]
    /\ drawn' = drawn \cup {l}
    /\ Carries(c, "SEND_RESET", 0, None, l)
    /\ UNCHANGED <<accountRowVars, verification, cooling, mail, changed, cookie>>

\* A link that could not be sent is withdrawn, along with any that replaced it.
ResetSent(c) ==
    /\ asked[c].step = "SEND_RESET"
    /\ \/ /\ mail' = mail \cup {asked[c].link}
          /\ cooling' = TRUE
          /\ UNCHANGED reset
       \/ /\ reset' = [link |-> None, live |-> FALSE]
          /\ UNCHANGED <<mail, cooling>>
    /\ Ends(c)
    /\ UNCHANGED <<accountRowVars, verification, drawn, changed, cookie>>

\* resetPassword: the link finds the account, the new password is hashed, ...
Reset(c, l, p) ==
    /\ Idle(c)
    /\ account.known
    /\ l \in mail
    /\ reset = [link |-> l, live |-> TRUE]
    /\ account.active
    /\ ~account.archived
    /\ Carries(c, "RESET", 0, p, l)
    /\ UNCHANGED <<accountRowVars, linkVars, cookie>>

\* Mutant of ResetStands: the row is found by identifier.
ResetStandsById(c) == account.known

\* The write applies only while the row still has this link.
ResetStands(c) == reset = [link |-> asked[c].link, live |-> TRUE]

\* ... and the password, the link and the sessions replaced together.
ResetWrites(c) ==
    /\ asked[c].step = "RESET"
    /\ IF ResetStands(c)
       THEN /\ Room
            /\ account' = [account EXCEPT !.password = asked[c].password,
                                          !.version = @ + 1]
            /\ reset' = [link |-> None, live |-> FALSE]
            /\ cooling' = FALSE
            /\ changed' = [changed EXCEPT ![asked[c].link] = @ + 1]
            /\ ClearSession(c)
       ELSE UNCHANGED <<account, reset, cooling, changed, cookie>>
    /\ Ends(c)
    /\ UNCHANGED <<organization, verification, drawn, mail>>

-----------------------------------------------------------------------------
(* Time and the administrators *)

VerificationExpires ==
    /\ verification.live
    /\ verification' = [verification EXCEPT !.live = FALSE]
    /\ UNCHANGED <<accountRowVars, reset, cooling, drawn, mail, changed, cookie, asked>>

ResetExpires ==
    /\ reset.live
    /\ reset' = [reset EXCEPT !.live = FALSE]
    /\ UNCHANGED <<accountRowVars, verification, cooling, drawn, mail, changed, cookie, asked>>

CoolingEnds ==
    /\ cooling
    /\ cooling' = FALSE
    /\ UNCHANGED <<accountRowVars, verification, reset, drawn, mail, changed, cookie, asked>>

AccessExpires(c) ==
    /\ cookie[c].access
    /\ cookie' = [cookie EXCEPT ![c].access = FALSE]
    /\ UNCHANGED <<accountRowVars, linkVars, asked>>

SessionExpires(c) ==
    /\ cookie[c].held
    /\ ClearSession(c)
    /\ UNCHANGED <<accountRowVars, linkVars, asked>>

\* setAgentActive, in the console: not for an archived account, nor back into an
\* organization that is not active.
SetAgentActive(active) ==
    /\ account.known
    /\ ~account.archived
    /\ organization # "ARCHIVED"
    /\ active => organization = "ACTIVE"
    /\ account' = [account EXCEPT !.active = active]
    /\ UNCHANGED <<organization, linkVars, cookie, asked>>

\* updateAgentStatus, for the administrator of the organization.
UpdateAgentStatus(deleted) ==
    /\ account.known
    /\ account' = [account EXCEPT !.active = ~deleted, !.archived = deleted]
    /\ UNCHANGED <<organization, linkVars, cookie, asked>>

\* deactivateOrganization and activateOrganization leave the members alone.
SetOrganizationActive(active) ==
    /\ organization # "ARCHIVED"
    /\ organization' = IF active THEN "ACTIVE" ELSE "INACTIVE"
    /\ UNCHANGED <<account, linkVars, cookie, asked>>

\* archiveOrganization
ArchiveOrganization ==
    /\ account.known
    /\ organization' = "ARCHIVED"
    /\ account' = [account EXCEPT !.active = FALSE, !.archived = TRUE]
    /\ UNCHANGED <<linkVars, cookie, asked>>

-----------------------------------------------------------------------------
(* Specification *)

\* What the server does by itself with the request of a browser.
ServerStep(c) ==
    \/ \E l \in Link : SignUpCreates(c, l) \/ ResendStores(c, l) \/ ForgotStores(c, l)
    \/ VerificationSent(c) \/ VerifyWrites(c)
    \/ LoginAllowed(c) \/ LoginIssues(c)
    \/ Authenticate(c) \/ Refresh(c) \/ Answer(c)
    \/ ChangeWrites(c) \/ ResetSent(c) \/ ResetWrites(c)

\* What users decide.
UserStep(c) ==
    \/ \E p \in Password : SignUp(c, p) \/ ChangePassword(c, p)
    \/ \E l \in Link : Verify(c, l) \/ \E p \in Password : Reset(c, l, p)
    \/ Resend(c) \/ Login(c) \/ Ask(c) \/ Logout(c) \/ DeleteOrganization(c) \/ Forgot(c)

TimeStep ==
    \/ VerificationExpires \/ ResetExpires \/ CoolingEnds
    \/ \E c \in Client : AccessExpires(c) \/ SessionExpires(c)

AdminStep ==
    \/ \E b \in BOOLEAN : SetAgentActive(b) \/ UpdateAgentStatus(b) \/ SetOrganizationActive(b)
    \/ ArchiveOrganization

AccountsNext ==
    \/ \E c \in Client : ServerStep(c) \/ UserStep(c)
    \/ TimeStep
    \/ AdminStep

AccountsSpec == AccountsInit /\ [][AccountsNext]_accountVars

-----------------------------------------------------------------------------
(* Properties *)

\* A session that is accepted now was opened with the password of now: whoever
\* changes or resets the password closes all other sessions, those of a login that
\* compared the old password included, and those renewed meanwhile.
SessionsFollowPassword ==
    \A c \in Client : InForce(cookie[c]) => cookie[c].password = account.password

\* A reset link changes the password once, however many requests hold it.
ResetOnce == \A l \in Link : changed[l] <= 1

-----------------------------------------------------------------------------
(* Inductive invariant *)

\* What claims to be of a version was opened with the password of that version.
Truthful(s) ==
    /\ s.version <= account.version
    /\ s.version = account.version => s.password = account.password

SessionsTruthful == \A c \in Client : cookie[c].held => Truthful(cookie[c])

LoginsTruthful ==
    \A c \in Client : asked[c].step \in {"LOGIN", "ALLOWED"} => Truthful(asked[c])

\* Nothing but the account's creation comes before the first session.
NobodyBefore ==
    ~account.known => \A c \in Client :
                        /\ ~cookie[c].held
                        /\ asked[c].step \in {"NONE", "SIGNUP"}

\* A link in the row has not been used; one that was never drawn neither.
LinksUnused ==
    /\ \A l \in Link : l \notin drawn => changed[l] = 0
    /\ reset.link # None => changed[reset.link] = 0

\* A request that sends or follows a link carries one that was drawn.
LinksCarried ==
    \A c \in Client : asked[c].step \in {"SEND_VERIFICATION", "SEND_RESET", "RESET"} =>
        asked[c].link \in drawn

AccountsIInv ==
    /\ AccountsTypeOK
    /\ SessionsTruthful
    /\ LoginsTruthful
    /\ NobodyBefore
    /\ LinksUnused
    /\ ResetOnce
    /\ LinksCarried
=============================================================================
