-------------------------- MODULE Attendee_proofs --------------------------
(***************************************************************************)
(* Proofs about what a participant does: the box (Attendee), the           *)
(* registration form (RegistrationForms) and the checkout of a paid offer  *)
(* (Checkout), for any number of browsers, codes, accounts, requests,      *)
(* offers, prices and operators; and about the list, the days and the      *)
(* reports of the scans that an organizer reads (ScanHistory), for any      *)
(* number of scans, requests and tabs.                                     *)
(***************************************************************************)
EXTENDS Attendee, Checkout, ScanHistory, FiniteSetTheorems, SequenceTheorems, WellFoundedInduction, TLAPS
-----------------------------------------------------------------------------
(* The box *)

CodeRow == [live : BOOLEAN, tries : 0..MaxTries, guessed : Nat, opened : Nat]
BoxRow == [active : BOOLEAN, secured : BOOLEAN, version : Nat, dormant : BOOLEAN]
PageState == [step : {"EMAIL", "CODE", "BOX"},
              at : {"IDLE", "ASKING", "FOUND", "KNOWN", "ADMITTED", "COMPARED", "HASHING"},
              code : Nat, right : BOOLEAN, row : Nat, secured : BOOLEAN]
MailState == [at : {"NONE", "ASKING", "REPLACING"}, seen : SUBSET Nat, by : Browser \cup {NoBrowser}]
Session == [row : Nat, version : Nat]

LEMMA BoxTypes ==
    BoxTypeOK <=> /\ codes \in Seq(CodeRow)
                  /\ cooling \in BOOLEAN /\ lapsed \in 0..Len(codes)
                  /\ rows \in Seq(BoxRow) /\ owner \in 0..Len(rows)
                  /\ mails \in [Mail -> MailState]
                  /\ page \in [Browser -> PageState] /\ sess \in [Browser -> Session]
BY DEF BoxTypeOK, CodeRow, BoxRow, PageState, MailState, Session

\* No request for a code has read the codes anew.
MailsKept ==
    /\ mails' \in [Mail -> MailState]
    /\ \A m \in Mail : mails'[m].at = "REPLACING" => mails[m].at = "REPLACING" /\ mails'[m].seen = mails[m].seen

LEMMA MailsRest == ASSUME BoxIInv, UNCHANGED mails PROVE MailsKept
BY BoxTypes DEF BoxIInv, MailsKept

LEMMA BoxInitInvariant == Init => BoxIInv
<1> SUFFICES ASSUME Init PROVE BoxIInv
    OBVIOUS
<1>1. SignIn \in PageState /\ SignIn.at = "IDLE" /\ SignIn.code = 0
      /\ NoSession \in Session /\ NoSession.row = 0
      /\ NoMail \in MailState /\ NoMail.at = "NONE"
    BY DEF SignIn, PageState, NoSession, Session, NoMail, MailState
<1>2. codes = <<>> /\ rows = <<>> /\ Len(codes) = 0 /\ Len(rows) = 0 /\ owner = 0
      /\ codes \in Seq(CodeRow) /\ rows \in Seq(BoxRow) /\ Live = {}
    BY DEF Init, Live
<1>3. BoxTypeOK
  <2>1. /\ page \in [Browser -> PageState] /\ sess \in [Browser -> Session]
        /\ mails \in [Mail -> MailState]
      BY <1>1 DEF Init
  <2>2. cooling \in BOOLEAN
      BY Zenon DEF Init
  <2>3. lapsed = 0
      BY DEF Init
  <2>4. lapsed \in 0..Len(codes) /\ owner \in 0..Len(rows)
      BY <1>2, <2>3
  <2> QED BY <1>2, <2>1, <2>2, <2>4, BoxTypes
<1>4. CodesConsistent /\ OwnerConsistent /\ \A b \in Browser : PagePoints(b)
    BY <1>1, <1>2 DEF Init, CodesConsistent, OwnerConsistent, PagePoints
<1>5. Authored
  <2> DEFINE f == [c \in 1..Len(codes) |-> CHOOSE m \in Mail : TRUE]
  <2>1. f \in [1..Len(codes) -> Mail]
      BY <1>2
  <2>2. AskedBy(f)
      BY <1>2 DEF AskedBy
  <2> HIDE DEF f
  <2> QED BY <2>1, <2>2 DEF Authored
<1> QED BY <1>3, <1>4, <1>5 DEF BoxIInv

\* No code is added or comes alive, and a request that replaces has seen what was live.
LEMMA AuthorsStay ==
    ASSUME BoxIInv, codes' \in Seq(CodeRow), Len(codes') = Len(codes),
           \A c \in 1..Len(codes) : codes'[c].live => codes[c].live,
           \A m \in Mail : mails'[m].at = "REPLACING" =>
             (mails[m].at = "REPLACING" /\ mails'[m].seen = mails[m].seen) \/ Live \subseteq mails'[m].seen
    PROVE  Authored'
<1>1. codes \in Seq(CodeRow) /\ DOMAIN codes = 1..Len(codes) /\ DOMAIN codes' = 1..Len(codes)
    BY BoxTypes DEF BoxIInv
<1>2. PICK f \in [1..Len(codes) -> Mail] : AskedBy(f)
    BY DEF BoxIInv, Authored
<1>3. Live' \subseteq Live
    BY <1>1 DEF Live
<1>4. f \in [1..Len(codes') -> Mail]
    OBVIOUS
<1>5. AskedBy(f)'
    BY <1>2, <1>3 DEF AskedBy
<1> QED BY <1>4, <1>5 DEF Authored

\* A step of one browser.
LEMMA BrowserStep ==
    ASSUME BoxIInv, NEW b \in Browser, NEW p \in PageState, NEW s \in Session,
           page' = [page EXCEPT ![b] = p], sess' = [sess EXCEPT ![b] = s],
           codes' \in Seq(CodeRow), Len(codes') >= Len(codes),
           rows' \in Seq(BoxRow), Len(rows') >= Len(rows), owner' \in 0..Len(rows'),
           cooling' \in BOOLEAN, lapsed' \in 0..Len(codes'), MailsKept,
           p.code \in 0..Len(codes'), p.at \in {"FOUND", "KNOWN", "ADMITTED"} => p.code # 0,
           p.at \in {"COMPARED", "HASHING"} => p.row \in 1..Len(rows'),
           s.row \in 0..Len(rows'),
           CodesConsistent', OwnerConsistent', Authored'
    PROVE  BoxIInv'
<1>1. /\ page \in [Browser -> PageState] /\ sess \in [Browser -> Session]
      /\ codes \in Seq(CodeRow) /\ rows \in Seq(BoxRow)
      /\ Len(codes) \in Nat /\ Len(rows) \in Nat /\ Len(codes') \in Nat /\ Len(rows') \in Nat
    BY BoxTypes DEF BoxIInv
<1>2. BoxTypeOK'
  <2>1. /\ page' \in [Browser -> PageState] /\ sess' \in [Browser -> Session]
        /\ mails' \in [Mail -> MailState]
      BY <1>1 DEF MailsKept
  <2> QED BY <2>1 DEF BoxTypeOK, CodeRow, BoxRow, PageState, MailState, Session
<1>3. ASSUME NEW a \in Browser PROVE PagePoints(a)'
  <2>1. PagePoints(a) /\ page[a] \in PageState /\ sess[a] \in Session
      BY <1>1 DEF BoxIInv
  <2>2. CASE a = b
    <3>1. page'[a] = p /\ sess'[a] = s
        BY <1>1, <2>2
    <3> QED BY <3>1 DEF PagePoints
  <2>3. CASE a # b
    <3>1. page'[a] = page[a] /\ sess'[a] = sess[a]
        BY <1>1, <2>3
    <3> QED BY <1>1, <2>1, <3>1 DEF PagePoints
  <2> QED BY <2>2, <2>3
<1> QED BY <1>2, <1>3 DEF BoxIInv

\* A step of one browser's page and session alone.
LEMMA PageStep ==
    ASSUME BoxIInv, NEW b \in Browser, NEW p \in PageState, NEW s \in Session,
           page' = [page EXCEPT ![b] = p], sess' = [sess EXCEPT ![b] = s],
           UNCHANGED <<codes, cooling, lapsed, rows, owner>>, MailsKept,
           p.code \in 0..Len(codes), p.at \in {"FOUND", "KNOWN", "ADMITTED"} => p.code # 0,
           p.at \in {"COMPARED", "HASHING"} => p.row \in 1..Len(rows),
           s.row \in 0..Len(rows)
    PROVE  BoxIInv'
<1>1. /\ page \in [Browser -> PageState] /\ codes \in Seq(CodeRow) /\ rows \in Seq(BoxRow)
      /\ owner \in 0..Len(rows) /\ cooling \in BOOLEAN /\ lapsed \in 0..Len(codes)
      /\ Len(codes) \in Nat /\ Len(rows) \in Nat
    BY BoxTypes DEF BoxIInv
<1>2. Authored'
    BY <1>1, AuthorsStay DEF MailsKept
<1>3. CodesConsistent' /\ OwnerConsistent'
    BY DEF BoxIInv, CodesConsistent, OwnerConsistent
<1>4. /\ codes' \in Seq(CodeRow) /\ Len(codes') >= Len(codes)
      /\ rows' \in Seq(BoxRow) /\ Len(rows') >= Len(rows) /\ owner' \in 0..Len(rows')
      /\ cooling' \in BOOLEAN /\ lapsed' \in 0..Len(codes')
      /\ p.code \in 0..Len(codes') /\ s.row \in 0..Len(rows')
      /\ p.at \in {"COMPARED", "HASHING"} => p.row \in 1..Len(rows')
    BY <1>1
<1> QED BY <1>2, <1>3, <1>4, BrowserStep

\* A page that asks for nothing.
LEMMA ShowsIdle ==
    ASSUME BoxTypeOK, NEW b \in Browser, NEW step \in {"EMAIL", "CODE", "BOX"}, Shows(b, step)
    PROVE  \E p \in PageState : /\ page' = [page EXCEPT ![b] = p]
                                /\ p.at = "IDLE" /\ p.code = 0
<1> DEFINE p == [SignIn EXCEPT !.step = step]
<1>1. p \in PageState /\ p.at = "IDLE" /\ p.code = 0 /\ page' = [page EXCEPT ![b] = p]
    BY DEF SignIn, PageState, Shows
<1> HIDE DEF p
<1> QED BY <1>1

\* The steps that read.
LEMMA ReadingSteps ==
    ASSUME BoxIInv, NEW b \in Browser,
           \/ AskCode(b) \/ Reload(b) \/ TypeCode(b) \/ FindAccount(b)
           \/ CodeRefused(b) \/ LogIn(b) \/ AskPassword(b) \/ Denied(b) \/ LogOut(b)
    PROVE  BoxIInv'
<1>1. /\ page \in [Browser -> PageState] /\ sess \in [Browser -> Session]
      /\ page[b] \in PageState /\ sess[b] \in Session
      /\ sess = [sess EXCEPT ![b] = sess[b]]
      /\ codes \in Seq(CodeRow) /\ rows \in Seq(BoxRow) /\ owner \in 0..Len(rows)
      /\ Len(codes) \in Nat /\ Len(rows) \in Nat /\ BoxTypeOK
    BY BoxTypes DEF BoxIInv
<1>2. page[b].code \in 0..Len(codes) /\ sess[b].row \in 0..Len(rows) /\ PagePoints(b)
    BY DEF BoxIInv, PagePoints
<1>3. UNCHANGED <<codes, cooling, lapsed, rows, owner>>
    BY DEF AskCode, Reload, TypeCode, FindAccount, CodeRefused, LogIn, AskPassword, Denied, LogOut,
           codeVars, rowVars
<1>0. MailsKept
  <2>1. CASE UNCHANGED mails
      BY <2>1, MailsRest
  <2>2. CASE AskCode(b)
    <3>1. PICK m \in Mail : mails' = [mails EXCEPT ![m] = [NoMail EXCEPT !.at = "ASKING", !.by = b]]
        BY <2>2 DEF AskCode
    <3>2. mails \in [Mail -> MailState]
        BY BoxTypes DEF BoxIInv
    <3> DEFINE x == [NoMail EXCEPT !.at = "ASKING", !.by = b]
    <3>3. x \in MailState /\ x.at = "ASKING" /\ mails' = [mails EXCEPT ![m] = x]
        BY <3>1 DEF NoMail, MailState
    <3> HIDE DEF x
    <3> QED BY <3>2, <3>3 DEF MailsKept
  <2>3. CASE Reload(b)
    <3>1. mails' = [m \in Mail |-> [mails[m] EXCEPT !.by = IF @ = b THEN NoBrowser ELSE @]]
        BY <2>3 DEF Reload
    <3>2. \A m \in Mail : mails[m] \in MailState
        BY BoxTypes DEF BoxIInv
    <3> QED BY <3>1, <3>2 DEF MailsKept, MailState
  <2> QED BY <2>1, <2>2, <2>3 DEF TypeCode, FindAccount, CodeRefused, LogIn, AskPassword, Denied, LogOut
<1>4. ASSUME sess' = sess \/ sess' = [sess EXCEPT ![b] = NoSession],
             NEW step \in {"EMAIL", "CODE", "BOX"}, Shows(b, step)
      PROVE  BoxIInv'
  <2>1. PICK p \in PageState : page' = [page EXCEPT ![b] = p] /\ p.at = "IDLE" /\ p.code = 0
      BY <1>1, <1>4, ShowsIdle
  <2>2. PICK s \in Session : sess' = [sess EXCEPT ![b] = s] /\ s.row \in 0..Len(rows)
    <3>1. NoSession \in Session /\ NoSession.row = 0
        BY DEF NoSession, Session
    <3> QED BY <1>1, <1>2, <1>4, <3>1
  <2>3. /\ p.code \in 0..Len(codes) /\ p.at \notin {"FOUND", "KNOWN", "ADMITTED"}
        /\ p.at \notin {"COMPARED", "HASHING"}
      BY <1>1, <2>1
  <2> QED BY <1>0, <1>3, <2>1, <2>2, <2>3, PageStep
<1>5. ASSUME sess' = sess, NEW p \in PageState, page' = [page EXCEPT ![b] = p],
             p.code \in 0..Len(codes), p.at \in {"FOUND", "KNOWN", "ADMITTED"} => p.code # 0,
             p.at \in {"COMPARED", "HASHING"} => p.row \in 1..Len(rows)
      PROVE  BoxIInv'
    BY <1>0, <1>1, <1>2, <1>3, <1>5, PageStep
<1>6. CASE AskCode(b)
  <2> DEFINE p == [page[b] EXCEPT !.at = "ASKING"]
  <2>1. p \in PageState /\ p.at = "ASKING" /\ p.code = page[b].code
      BY <1>1 DEF PageState
  <2>2. page' = [page EXCEPT ![b] = p] /\ sess' = sess
      BY <1>1, <1>6 DEF AskCode, Continues
  <2> HIDE DEF p
  <2> QED BY <1>2, <1>5, <2>1, <2>2
<1>7. CASE Reload(b)
  <2>1. Shows(b, "EMAIL") /\ sess' = sess
      BY <1>7 DEF Reload
  <2> QED BY <1>4, <2>1
<1>8. CASE CodeRefused(b)
  <2>1. Shows(b, page[b].step) /\ sess' = sess /\ page[b].step \in {"EMAIL", "CODE", "BOX"}
      BY <1>1, <1>8 DEF CodeRefused, Back, PageState
  <2> QED BY <1>4, <2>1
<1>9. CASE TypeCode(b)
  <2>1. PICK c \in Live, right \in BOOLEAN :
          page' = [page EXCEPT ![b].at = "FOUND", ![b].code = c, ![b].right = right]
      BY <1>9 DEF TypeCode
  <2>2. c \in 1..Len(codes) /\ c \in Nat
      BY <1>1 DEF Live
  <2> DEFINE p == [page[b] EXCEPT !.at = "FOUND", !.code = c, !.right = right]
  <2>3. p \in PageState /\ p.at = "FOUND" /\ p.code = c
      BY <1>1, <2>2 DEF PageState
  <2>4. page' = [page EXCEPT ![b] = p] /\ sess' = sess
      BY <1>1, <1>9, <2>1 DEF TypeCode
  <2> HIDE DEF p
  <2>5. p.code \in 0..Len(codes) /\ p.code # 0 /\ p.at \notin {"COMPARED", "HASHING"}
      BY <1>1, <2>2, <2>3
  <2> QED BY <1>5, <2>3, <2>4, <2>5
<1>10. CASE FindAccount(b)
  <2>1. CASE Back(b)
    <3>1. Shows(b, page[b].step) /\ sess' = sess /\ page[b].step \in {"EMAIL", "CODE", "BOX"}
        BY <1>1, <1>10, <2>1 DEF FindAccount, Back, PageState
    <3> QED BY <1>4, <3>1
  <2>2. CASE Continues(b, "ADMITTED")
    <3> DEFINE p == [page[b] EXCEPT !.at = "ADMITTED"]
    <3>1. p \in PageState /\ p.at = "ADMITTED" /\ p.code = page[b].code /\ page[b].code # 0
        BY <1>1, <1>2, <1>10 DEF PageState, FindAccount, PagePoints
    <3>2. page' = [page EXCEPT ![b] = p] /\ sess' = sess
        BY <1>1, <1>10, <2>2 DEF FindAccount, Continues
    <3> HIDE DEF p
    <3> QED BY <1>2, <1>5, <3>1, <3>2
  <2> QED BY <1>10, <2>1, <2>2 DEF FindAccount
<1>11. CASE LogIn(b)
  <2> DEFINE p == [page[b] EXCEPT !.at = "COMPARED", !.row = owner]
  <2>1. p \in PageState /\ p.at = "COMPARED" /\ p.code = page[b].code /\ p.row = owner
        /\ owner \in 1..Len(rows)
    <3>1. owner \in 1..Len(rows) /\ owner \in Nat
        BY <1>1, <1>11 DEF LogIn
    <3> QED BY <1>1, <3>1 DEF PageState
  <2>2. page' = [page EXCEPT ![b] = p] /\ sess' = sess
      BY <1>1, <1>11 DEF LogIn
  <2> HIDE DEF p
  <2> QED BY <1>2, <1>5, <2>1, <2>2
<1>12. CASE AskPassword(b)
  <2> DEFINE r == sess[b].row
             p == [page[b] EXCEPT !.at = "HASHING", !.row = r, !.secured = rows[r].secured]
  <2>1. r \in 1..Len(rows) /\ rows[r] \in BoxRow /\ rows[r].secured \in BOOLEAN /\ r \in Nat
    <3>1. r \in 1..Len(rows) /\ r \in Nat
        BY <1>1, <1>2, <1>12 DEF AskPassword, Accepted
    <3>2. rows[r] \in BoxRow
        BY <1>1, <3>1
    <3> QED BY <3>1, <3>2 DEF BoxRow
  <2>2. p \in PageState /\ p.at = "HASHING" /\ p.code = page[b].code /\ p.row = r
      BY <1>1, <2>1 DEF PageState
  <2>3. page' = [page EXCEPT ![b] = p] /\ sess' = sess
      BY <1>1, <1>12 DEF AskPassword
  <2> HIDE DEF p
  <2> QED BY <1>2, <1>5, <2>1, <2>2, <2>3
<1>13. CASE Denied(b) \/ LogOut(b)
  <2>1. Shows(b, "EMAIL") /\ sess' = [sess EXCEPT ![b] = NoSession]
      BY <1>13 DEF Denied, LogOut
  <2> QED BY <1>4, <2>1
<1> QED BY <1>6, <1>7, <1>8, <1>9, <1>10, <1>11, <1>12, <1>13

\* An attempt is counted on a live code only.
LEMMA CountTryKeeps ==
    ASSUME BoxIInv, NEW b \in Browser, CountTry(b) PROVE BoxIInv'
<1> DEFINE c == page[b].code
<1>1. /\ page \in [Browser -> PageState] /\ sess \in [Browser -> Session]
      /\ page[b] \in PageState /\ sess[b] \in Session
      /\ sess' = [sess EXCEPT ![b] = sess[b]]
      /\ codes \in Seq(CodeRow) /\ rows \in Seq(BoxRow) /\ owner \in 0..Len(rows)
      /\ cooling \in BOOLEAN /\ lapsed \in 0..Len(codes)
      /\ Len(codes) \in Nat /\ Len(rows) \in Nat /\ BoxTypeOK
      /\ UNCHANGED <<cooling, lapsed, rows, owner>> /\ MailsKept
    BY BoxTypes, MailsRest DEF BoxIInv, CountTry, rowVars
<1>2. /\ c \in 1..Len(codes) /\ sess[b].row \in 0..Len(rows) /\ page[b].step \in {"EMAIL", "CODE", "BOX"}
      /\ codes[c] \in CodeRow /\ CodesConsistent
    BY <1>1 DEF CountTry, BoxIInv, PagePoints, PageState
<1>3. PICK p \in PageState : /\ page' = [page EXCEPT ![b] = p]
                             /\ \/ p.at = "IDLE" /\ p.code = 0
                                \/ p.at = "KNOWN" /\ p.code = c
  <2>1. CASE Back(b)
      BY <1>1, <1>2, <2>1, ShowsIdle DEF Back
  <2>2. CASE Continues(b, "KNOWN")
    <3> DEFINE p == [page[b] EXCEPT !.at = "KNOWN"]
    <3>1. p \in PageState /\ p.at = "KNOWN" /\ p.code = c
        BY <1>1 DEF PageState
    <3>2. page' = [page EXCEPT ![b] = p]
        BY <1>1, <2>2 DEF Continues
    <3> HIDE DEF p, c
    <3> QED BY <3>1, <3>2
  <2> QED BY <2>1, <2>2 DEF CountTry
<1>4. p.code \in 0..Len(codes) /\ (p.at \in {"FOUND", "KNOWN", "ADMITTED"} => p.code # 0)
      /\ p.at \notin {"COMPARED", "HASHING"}
    BY <1>1, <1>2, <1>3
<1> HIDE DEF c
<1>5. CASE codes' = codes
    BY <1>1, <1>2, <1>3, <1>4, <1>5, PageStep
<1>6. CASE /\ Countable(c)
           /\ codes' = [codes EXCEPT ![c].tries = @ + 1, ![c].guessed = @ + 1]
  <2> DEFINE d == [codes[c] EXCEPT !.tries = @ + 1, !.guessed = @ + 1]
  <2>1. codes[c].tries + 1 \in 0..MaxTries /\ codes[c].guessed + 1 \in Nat
      BY <1>2, <1>6, ConstantsOK DEF Countable, CodeRow
  <2>2. /\ d \in CodeRow /\ d.live = codes[c].live /\ d.opened = codes[c].opened
        /\ d.tries = codes[c].tries + 1 /\ d.guessed = codes[c].guessed + 1
      BY <1>2, <2>1 DEF CodeRow
  <2>3. codes' = [codes EXCEPT ![c] = d]
      BY <1>1, <1>2, <1>6
  <2> HIDE DEF d
  <2>4. /\ codes' \in Seq(CodeRow) /\ Len(codes') = Len(codes)
        /\ \A k \in 1..Len(codes) : codes'[k] = IF k = c THEN d ELSE codes[k]
      BY <1>1, <1>2, <2>2, <2>3
  <2>5. CodesConsistent'
      BY <1>2, <2>2, <2>4 DEF CodesConsistent, CodeRow
  <2>6. OwnerConsistent'
      BY <1>1 DEF BoxIInv, OwnerConsistent
  <2>7. Authored'
      BY <1>1, <2>2, <2>4, AuthorsStay DEF MailsKept
  <2>8. /\ Len(codes') >= Len(codes) /\ rows' \in Seq(BoxRow) /\ Len(rows') >= Len(rows)
        /\ owner' \in 0..Len(rows') /\ cooling' \in BOOLEAN /\ lapsed' \in 0..Len(codes')
        /\ p.code \in 0..Len(codes') /\ sess[b].row \in 0..Len(rows')
      BY <1>1, <1>2, <1>4, <2>4
  <2> QED BY <1>1, <1>3, <1>4, <2>4, <2>5, <2>6, <2>7, <2>8, BrowserStep
<1> QED BY <1>5, <1>6 DEF CountTry, c

\* The codes after a new one was sent: those that were seen are dead.
LEMMA SendCodeRows ==
    ASSUME BoxIInv, NEW m \in Mail, SendCode(m)
    PROVE  /\ codes' \in Seq(CodeRow) /\ Len(codes') = Len(codes) + 1
           /\ \A c \in 1..Len(codes) :
                /\ codes'[c].live <=> codes[c].live /\ c \notin mails[m].seen
                /\ codes'[c].tries = codes[c].tries /\ codes'[c].guessed = codes[c].guessed
                /\ codes'[c].opened = codes[c].opened
           /\ codes'[Len(codes) + 1] = [live |-> TRUE, tries |-> 0, guessed |-> 0, opened |-> 0]
<1> DEFINE kept == [c \in DOMAIN codes |->
                      [codes[c] EXCEPT !.live = @ /\ c \notin mails[m].seen]]
           sent == [live |-> TRUE, tries |-> 0, guessed |-> 0, opened |-> 0]
           n == Len(codes)
<1>1. codes \in Seq(CodeRow) /\ n \in Nat /\ DOMAIN codes = 1..n
    BY BoxTypes DEF BoxIInv
<1>2. sent \in CodeRow
    BY ConstantsOK DEF CodeRow
<1>3. ASSUME NEW c \in 1..n
      PROVE  /\ kept[c] \in CodeRow
             /\ kept[c].live <=> codes[c].live /\ c \notin mails[m].seen
             /\ kept[c].tries = codes[c].tries /\ kept[c].guessed = codes[c].guessed
             /\ kept[c].opened = codes[c].opened
  <2>1. codes[c] \in CodeRow /\ kept[c] = [codes[c] EXCEPT !.live = codes[c].live /\ c \notin mails[m].seen]
      BY <1>1
  <2> HIDE DEF kept
  <2>2. (codes[c].live /\ c \notin mails[m].seen) \in BOOLEAN
      OBVIOUS
  <2> QED BY <2>1 DEF CodeRow
<1>4. DOMAIN kept = 1..n /\ kept \in [1..n -> CodeRow]
    BY <1>1, <1>3
<1>5. codes' = Append(kept, sent)
    BY DEF SendCode
<1> HIDE DEF kept, sent
<1>6. kept \in Seq(CodeRow) /\ Len(kept) = n
    BY <1>1, <1>4, SeqDef, LenProperties
<1>7. /\ codes' \in Seq(CodeRow) /\ Len(codes') = n + 1 /\ codes'[n + 1] = sent
      /\ \A c \in 1..n : codes'[c] = kept[c]
    BY <1>1, <1>2, <1>5, <1>6
<1> QED BY <1>3, <1>7 DEF sent

\* A request ends: no page waits for it, or one that asks for nothing from then on.
LEMMA MailAnswered ==
    ASSUME BoxIInv, NEW m \in Mail, NEW steps \in SUBSET {"CODE"}, Answered(m, steps)
    PROVE  /\ MailsKept /\ mails' = [mails EXCEPT ![m] = NoMail]
           /\ page' \in [Browser -> PageState]
           /\ \A a \in Browser : page'[a] = page[a] \/ (page'[a].at = "IDLE" /\ page'[a].code = 0)
<1>1. mails \in [Mail -> MailState] /\ page \in [Browser -> PageState] /\ BoxTypeOK
    BY BoxTypes DEF BoxIInv
<1>2. mails' = [mails EXCEPT ![m] = NoMail] /\ NoMail \in MailState /\ NoMail.at = "NONE"
    BY DEF Answered, NoMail, MailState
<1>3. MailsKept
  <2> HIDE DEF NoMail
  <2> QED BY <1>1, <1>2 DEF MailsKept
<1>4. CASE mails[m].by = NoBrowser
    BY <1>1, <1>2, <1>3, <1>4 DEF Answered
<1>5. CASE mails[m].by # NoBrowser
  <2>1. PICK b \in Browser : b = mails[m].by
      BY <1>1, <1>5 DEF MailState
  <2>2. PICK step \in steps \cup {page[b].step} : Shows(b, step)
      BY <1>5, <2>1 DEF Answered
  <2>3. step \in {"EMAIL", "CODE", "BOX"}
      BY <1>1, <2>2 DEF PageState
  <2>4. PICK p \in PageState : page' = [page EXCEPT ![b] = p] /\ p.at = "IDLE" /\ p.code = 0
      BY <1>1, <2>2, <2>3, ShowsIdle
  <2> QED BY <1>1, <1>2, <1>3, <2>4
<1> QED BY <1>4, <1>5

\* A request that does not end with a code leaves the codes as they are.
LEMMA MailKeeps ==
    ASSUME BoxIInv, NEW m \in Mail, Supersede(m) \/ AskFails(m) PROVE BoxIInv'
<1>1. /\ mails \in [Mail -> MailState] /\ page \in [Browser -> PageState]
      /\ sess \in [Browser -> Session]
      /\ codes \in Seq(CodeRow) /\ rows \in Seq(BoxRow) /\ owner \in 0..Len(rows)
      /\ cooling \in BOOLEAN /\ lapsed \in 0..Len(codes)
      /\ Len(codes) \in Nat /\ Len(rows) \in Nat
    BY BoxTypes DEF BoxIInv
<1>2. UNCHANGED <<codes, cooling, lapsed, rows, owner, sess>>
    BY DEF Supersede, AskFails, codeVars, rowVars
<1>3. /\ mails' \in [Mail -> MailState] /\ page' \in [Browser -> PageState]
      /\ \A k \in Mail : mails'[k].at = "REPLACING" =>
           (mails[k].at = "REPLACING" /\ mails'[k].seen = mails[k].seen) \/ Live \subseteq mails'[k].seen
      /\ \A a \in Browser : page'[a] = page[a] \/ (page'[a].at = "IDLE" /\ page'[a].code = 0)
  <2>1. CASE AskFails(m)
    <3>1. Answered(m, {})
        BY <2>1 DEF AskFails
    <3> QED BY <3>1, MailAnswered DEF MailsKept
  <2>2. CASE Supersede(m)
    <3> DEFINE x == [mails[m] EXCEPT !.at = "REPLACING", !.seen = Superseded]
    <3>1. Live \subseteq Nat /\ Superseded = Live /\ mails[m] \in MailState
        BY <1>1 DEF Live, Superseded
    <3>2. x \in MailState /\ x.seen = Live
        BY <3>1 DEF MailState
    <3>3. mails' = [mails EXCEPT ![m] = x] /\ page' = page
        BY <1>1, <2>2 DEF Supersede
    <3> HIDE DEF x
    <3> QED BY <1>1, <3>2, <3>3
  <2> QED BY <2>1, <2>2
<1>4. Authored'
    BY <1>1, <1>2, <1>3, AuthorsStay
<1>5. CodesConsistent' /\ OwnerConsistent'
    BY <1>2 DEF BoxIInv, CodesConsistent, OwnerConsistent
<1>6. BoxTypeOK'
  <2>1. codes' \in Seq(CodeRow) /\ rows' \in Seq(BoxRow) /\ sess' \in [Browser -> Session]
      BY <1>1, <1>2
  <2>2. cooling' \in BOOLEAN
      BY <1>1, <1>2, Zenon
  <2>3. lapsed' \in 0..Len(codes') /\ owner' \in 0..Len(rows')
      BY <1>1, <1>2
  <2> QED BY <1>3, <2>1, <2>2, <2>3 DEF BoxTypeOK, CodeRow, BoxRow, PageState, MailState, Session
<1>7. ASSUME NEW a \in Browser PROVE PagePoints(a)'
    BY <1>1, <1>2, <1>3 DEF BoxIInv, PagePoints
<1> QED BY <1>4, <1>5, <1>6, <1>7 DEF BoxIInv

\* The request that stores a new code had seen the one stored in its place before.
LEMMA SendCodeKeeps ==
    ASSUME BoxIInv, NEW m \in Mail, SendCode(m) PROVE BoxIInv'
<1> DEFINE n == Len(codes)
<1>1. /\ page \in [Browser -> PageState] /\ sess \in [Browser -> Session]
      /\ mails \in [Mail -> MailState]
      /\ codes \in Seq(CodeRow) /\ DOMAIN codes = 1..n
      /\ rows \in Seq(BoxRow) /\ owner \in 0..Len(rows)
      /\ cooling' \in BOOLEAN /\ lapsed \in 0..n
      /\ n \in Nat /\ Len(rows) \in Nat /\ BoxTypeOK
      /\ UNCHANGED <<lapsed, rows, owner, sess>> /\ mails[m].at = "REPLACING"
    BY BoxTypes DEF BoxIInv, SendCode, rowVars
<1>2. /\ codes' \in Seq(CodeRow) /\ Len(codes') = n + 1 /\ DOMAIN codes' = 1..(n + 1)
      /\ \A c \in 1..n : codes'[c].live => codes[c].live /\ c \notin mails[m].seen
      /\ \A c \in 1..n : /\ codes'[c].tries = codes[c].tries /\ codes'[c].guessed = codes[c].guessed
                         /\ codes'[c].opened = codes[c].opened
      /\ codes'[n + 1].live = TRUE /\ codes'[n + 1].tries = 0 /\ codes'[n + 1].guessed = 0
      /\ codes'[n + 1].opened = 0
    BY SendCodeRows
<1>3. /\ mails' = [mails EXCEPT ![m] = NoMail] /\ NoMail.at = "NONE"
      /\ mails' \in [Mail -> MailState] /\ page' \in [Browser -> PageState]
      /\ \A a \in Browser : page'[a] = page[a] \/ (page'[a].at = "IDLE" /\ page'[a].code = 0)
  <2>1. Answered(m, {"CODE"})
      BY DEF SendCode
  <2> QED BY <2>1, MailAnswered DEF MailsKept, NoMail
<1> HIDE DEF n
<1>4. CodesConsistent'
  <2>1. CodesConsistent
      BY DEF BoxIInv
  <2> QED BY <1>1, <1>2, <2>1 DEF CodesConsistent, n
<1>5. OwnerConsistent'
    BY <1>1 DEF BoxIInv, OwnerConsistent
<1>6. Authored'
  <2>1. PICK f \in [1..n -> Mail] : AskedBy(f)
      BY DEF BoxIInv, Authored, n
  <2> DEFINE g == [c \in 1..(n + 1) |-> IF c = n + 1 THEN m ELSE f[c]]
  <2>2. /\ g \in [1..(n + 1) -> Mail] /\ g[n + 1] = m
        /\ \A c \in 1..n : g[c] = f[c]
      BY <1>1, <2>1
  <2> HIDE DEF g
  <2>3. ASSUME NEW c \in Live', c # n + 1
        PROVE  c \in Live /\ c \notin mails[m].seen /\ c \in 1..n /\ f[c] # m
    <3>1. c \in 1..n /\ c \in Live /\ c \notin mails[m].seen
        BY <1>1, <1>2, <2>3 DEF Live
    <3> QED BY <1>1, <2>1, <3>1 DEF AskedBy
  <2>4. \A k \in Mail : k # m => mails'[k] = mails[k]
      BY <1>1, <1>3
  <2>5. ASSUME NEW c \in Live', NEW d \in Live', g[c] = g[d] PROVE c = d
      BY <2>1, <2>2, <2>3, <2>5 DEF AskedBy
  <2>6. ASSUME NEW k \in Mail, mails'[k].at = "REPLACING", NEW c \in Live', g[c] = k
        PROVE  c \in mails'[k].seen
    <3>1. k # m /\ mails'[k] = mails[k]
      <4>1. mails'[m].at = "NONE"
          BY <1>1, <1>3
      <4> QED BY <2>4, <2>6, <4>1
    <3>2. c # n + 1
        BY <2>2, <2>6, <3>1
    <3> QED BY <2>1, <2>2, <2>3, <2>6, <3>1, <3>2 DEF AskedBy
  <2>7. /\ \A c, d \in Live' : g[c] = g[d] => c = d
        /\ \A k \in Mail : mails'[k].at = "REPLACING" =>
             \A c \in Live' : g[c] = k => c \in mails'[k].seen
      BY <2>5, <2>6
  <2>8. g \in [1..Len(codes') -> Mail]
      BY <1>2, <2>2
  <2> QED BY <2>7, <2>8 DEF Authored, AskedBy
<1>7. BoxTypeOK'
  <2>1. lapsed' \in 0..Len(codes') /\ rows' \in Seq(BoxRow) /\ owner' \in 0..Len(rows')
        /\ sess' \in [Browser -> Session]
      BY <1>1, <1>2 DEF n
  <2> QED BY <1>1, <1>2, <1>3, <2>1 DEF BoxTypeOK, CodeRow, BoxRow, PageState, MailState, Session
<1>8. ASSUME NEW a \in Browser PROVE PagePoints(a)'
    BY <1>1, <1>2, <1>3 DEF BoxIInv, PagePoints, n
<1> QED BY <1>4, <1>5, <1>6, <1>7, <1>8 DEF BoxIInv

\* A row that is written with the codes as they are: it stays open or closed.
LEMMA RowStep ==
    ASSUME BoxIInv, NEW b \in Browser, NEW r \in 1..Len(rows), NEW x \in BoxRow,
           NEW version \in Nat, rows' = [rows EXCEPT ![r] = x], x.active = rows[r].active,
           SessionOf(b, r, version), Shows(b, "BOX"), UNCHANGED <<codeVars, owner, mails>>
    PROVE  BoxIInv'
<1> DEFINE s == [row |-> r, version |-> version]
<1>1. /\ page \in [Browser -> PageState] /\ BoxTypeOK
      /\ codes \in Seq(CodeRow) /\ rows \in Seq(BoxRow) /\ owner \in 0..Len(rows)
      /\ cooling \in BOOLEAN /\ lapsed \in 0..Len(codes)
      /\ Len(codes) \in Nat /\ Len(rows) \in Nat
      /\ UNCHANGED <<codes, cooling, lapsed, owner>> /\ MailsKept
    BY BoxTypes, MailsRest DEF BoxIInv, codeVars
<1>2. PICK p \in PageState : page' = [page EXCEPT ![b] = p] /\ p.at = "IDLE" /\ p.code = 0
    BY <1>1, ShowsIdle
<1>3. s \in Session /\ s.row = r /\ sess' = [sess EXCEPT ![b] = s]
    BY <1>1 DEF Session, SessionOf
<1> HIDE DEF s
<1>4. /\ rows' \in Seq(BoxRow) /\ Len(rows') = Len(rows)
      /\ \A k \in 1..Len(rows) : rows'[k] = IF k = r THEN x ELSE rows[k]
    BY <1>1
<1>5. OwnerConsistent'
    BY <1>1, <1>4 DEF BoxIInv, OwnerConsistent
<1>6. CodesConsistent'
    BY <1>1 DEF BoxIInv, CodesConsistent
<1>7. Authored'
    BY <1>1, AuthorsStay DEF MailsKept
<1>8. /\ codes' \in Seq(CodeRow) /\ Len(codes') >= Len(codes) /\ Len(rows') >= Len(rows)
      /\ owner' \in 0..Len(rows') /\ cooling' \in BOOLEAN /\ lapsed' \in 0..Len(codes')
      /\ p.code \in 0..Len(codes') /\ s.row \in 0..Len(rows')
      /\ p.at \notin {"FOUND", "KNOWN", "ADMITTED"} /\ p.at \notin {"COMPARED", "HASHING"}
    BY <1>1, <1>2, <1>3, <1>4
<1> QED BY <1>1, <1>2, <1>3, <1>4, <1>5, <1>6, <1>7, <1>8, BrowserStep

\* Log-ins and passwords write the row that was read.
LEMMA PasswordKeeps ==
    ASSUME BoxIInv, NEW b \in Browser, LogInWrites(b) \/ SetPassword(b) PROVE BoxIInv'
<1> DEFINE r == page[b].row
<1>1. /\ rows \in Seq(BoxRow) /\ r \in 1..Len(rows) /\ rows[r] \in BoxRow
    BY BoxTypes DEF BoxIInv, PagePoints, LogInWrites, SetPassword
<1>2. CASE LogInWrites(b)
  <2> DEFINE x == [rows[r] EXCEPT !.dormant = FALSE]
  <2>1. x \in BoxRow /\ x.active = rows[r].active /\ rows[r].version \in Nat
      BY <1>1 DEF BoxRow
  <2>2. rows' = [rows EXCEPT ![r] = x] /\ SessionOf(b, r, rows[r].version) /\ Shows(b, "BOX")
        /\ UNCHANGED <<codeVars, owner, mails>>
      BY <1>1, <1>2 DEF LogInWrites
  <2> HIDE DEF x, r
  <2> QED BY <1>1, <2>1, <2>2, RowStep
<1>3. CASE SetPassword(b)
  <2> DEFINE v == rows[r].version + IF page[b].secured THEN 1 ELSE 0
             x == [rows[r] EXCEPT !.secured = TRUE, !.version = v]
  <2>1. v \in Nat
      BY <1>1 DEF BoxRow
  <2>2. rows' = [rows EXCEPT ![r] = x] /\ SessionOf(b, r, v) /\ Shows(b, "BOX")
        /\ UNCHANGED <<codeVars, owner, mails>>
      BY <1>1, <1>3 DEF SetPassword
  <2> HIDE DEF v
  <2>3. x \in BoxRow /\ x.active = rows[r].active
      BY <1>1, <2>1 DEF BoxRow
  <2> HIDE DEF x, r
  <2> QED BY <1>1, <2>1, <2>2, <2>3, RowStep
<1> QED BY <1>2, <1>3

\* A code opens the box of the address, or makes one.
LEMMA OpenByCodeKeeps ==
    ASSUME BoxIInv, NEW b \in Browser, OpenByCode(b) PROVE BoxIInv'
<1> DEFINE c == page[b].code
           d == [codes[c] EXCEPT !.live = FALSE, !.opened = @ + 1]
<1>1. /\ page \in [Browser -> PageState] /\ BoxTypeOK
      /\ codes \in Seq(CodeRow) /\ rows \in Seq(BoxRow) /\ owner \in 0..Len(rows)
      /\ cooling \in BOOLEAN /\ lapsed \in 0..Len(codes)
      /\ Len(codes) \in Nat /\ Len(rows) \in Nat
      /\ UNCHANGED <<cooling, lapsed>> /\ MailsKept
    BY BoxTypes, MailsRest DEF BoxIInv, OpenByCode
<1>2. c \in 1..Len(codes) /\ codes[c] \in CodeRow /\ codes[c].live /\ CodesConsistent
    BY <1>1 DEF OpenByCode, BoxIInv, PagePoints, Unused
<1>3. /\ d \in CodeRow /\ d.live = FALSE /\ d.opened = codes[c].opened + 1
      /\ d.tries = codes[c].tries /\ d.guessed = codes[c].guessed
  <2>1. codes[c].opened + 1 \in Nat
      BY <1>2 DEF CodeRow
  <2> QED BY <1>2, <2>1 DEF CodeRow
<1>4. codes' = [codes EXCEPT ![c] = d]
    BY <1>1, <1>2 DEF OpenByCode
<1> HIDE DEF d, c
<1>5. /\ codes' \in Seq(CodeRow) /\ Len(codes') = Len(codes)
      /\ \A k \in 1..Len(codes) : codes'[k] = IF k = c THEN d ELSE codes[k]
    BY <1>1, <1>2, <1>3, <1>4
<1>6. CodesConsistent'
    BY <1>2, <1>3, <1>5 DEF CodesConsistent
<1>7. /\ rows' \in Seq(BoxRow) /\ Len(rows') >= Len(rows) /\ OwnerConsistent'
      /\ owner' \in 1..Len(rows')
  <2>1. OwnerConsistent
      BY DEF BoxIInv
  <2>2. CASE owner = 0
    <3>1. rows' = Append(rows, NewRow) /\ owner' = Len(rows) + 1
        BY <2>2 DEF OpenByCode
    <3>2. NewRow \in BoxRow /\ NewRow.active = TRUE
        BY DEF NewRow, BoxRow
    <3>3. /\ rows' \in Seq(BoxRow) /\ Len(rows') = Len(rows) + 1 /\ rows'[Len(rows) + 1] = NewRow
          /\ \A k \in 1..Len(rows) : rows'[k] = rows[k]
        BY <1>1, <3>1, <3>2
    <3>4. ASSUME NEW r \in 1..Len(rows'), rows'[r].active PROVE r = owner'
        BY <1>1, <2>1, <2>2, <3>1, <3>3, <3>4 DEF OwnerConsistent
    <3>5. rows'[owner'].active
        BY <3>1, <3>2, <3>3
    <3>6. OwnerConsistent'
        BY <3>4, <3>5 DEF OwnerConsistent
    <3> QED BY <1>1, <3>1, <3>3, <3>6
  <2>3. CASE owner # 0
    <3> DEFINE x == [rows[owner] EXCEPT !.dormant = FALSE]
    <3>1. rows[owner] \in BoxRow /\ owner \in 1..Len(rows)
        BY <1>1, <2>3
    <3>2. x \in BoxRow /\ x.active = rows[owner].active
        BY <3>1 DEF BoxRow
    <3>3. rows' = [rows EXCEPT ![owner] = x] /\ owner' = owner
        BY <1>1, <2>3, <3>1 DEF OpenByCode
    <3> HIDE DEF x
    <3>4. /\ rows' \in Seq(BoxRow) /\ Len(rows') = Len(rows)
          /\ \A k \in 1..Len(rows) : rows'[k] = IF k = owner THEN x ELSE rows[k]
        BY <1>1, <3>1, <3>2, <3>3
    <3> QED BY <1>1, <2>1, <3>1, <3>2, <3>3, <3>4 DEF OwnerConsistent
  <2> QED BY <2>2, <2>3
<1>8. PICK p \in PageState : page' = [page EXCEPT ![b] = p] /\ p.at = "IDLE" /\ p.code = 0
    BY <1>1, ShowsIdle DEF OpenByCode
<1> DEFINE version == rows'[owner'].version
           s == [row |-> owner', version |-> version]
<1>9. s \in Session /\ s.row = owner' /\ sess' = [sess EXCEPT ![b] = s]
  <2>1. version \in Nat /\ owner' \in Nat
    <3>1. owner' \in 1..Len(rows') /\ rows' \in Seq(BoxRow) /\ Len(rows') \in Nat
        BY <1>7
    <3>2. rows'[owner'] \in BoxRow
        BY <3>1
    <3> QED BY <3>1, <3>2 DEF BoxRow
  <2>2. sess' = [sess EXCEPT ![b] = s]
      BY DEF OpenByCode, SessionOf
  <2> HIDE DEF version
  <2> QED BY <2>1, <2>2 DEF Session
<1> HIDE DEF s
<1>10. Authored'
    BY <1>1, <1>3, <1>5, AuthorsStay DEF MailsKept
<1>11. /\ Len(codes') >= Len(codes) /\ owner' \in 0..Len(rows') /\ cooling' \in BOOLEAN
       /\ lapsed' \in 0..Len(codes') /\ p.code \in 0..Len(codes') /\ s.row \in 0..Len(rows')
       /\ p.at \notin {"FOUND", "KNOWN", "ADMITTED"} /\ p.at \notin {"COMPARED", "HASHING"}
  <2>1. Len(rows') \in Nat
      BY <1>7
  <2> QED BY <1>1, <1>5, <1>7, <1>8, <1>9, <2>1
<1> QED BY <1>1, <1>5, <1>6, <1>7, <1>8, <1>9, <1>10, <1>11, BrowserStep

\* Time and retention.
LEMMA ClockKeeps ==
    ASSUME BoxIInv, MinutePasses \/ CodesLapse \/ GoesDormant \/ Retire \/ UNCHANGED vars
    PROVE  BoxIInv'
<1>1. /\ page \in [Browser -> PageState] /\ sess \in [Browser -> Session]
      /\ codes \in Seq(CodeRow) /\ rows \in Seq(BoxRow) /\ owner \in 0..Len(rows)
      /\ cooling \in BOOLEAN /\ lapsed \in 0..Len(codes)
      /\ Len(codes) \in Nat /\ Len(rows) \in Nat /\ mails \in [Mail -> MailState]
    BY BoxTypes DEF BoxIInv
<1>2. UNCHANGED <<codes, mails, page, sess>>
    BY DEF MinutePasses, CodesLapse, GoesDormant, Retire, vars, codeVars, rowVars
<1>3. cooling' \in BOOLEAN /\ lapsed' \in 0..Len(codes)
  <2>1. cooling' = cooling \/ cooling' = FALSE
      BY DEF MinutePasses, CodesLapse, GoesDormant, Retire, vars, codeVars, rowVars
  <2>2. lapsed' = lapsed \/ lapsed' = Len(codes)
      BY DEF MinutePasses, CodesLapse, GoesDormant, Retire, vars, codeVars, rowVars
  <2>3. cooling' \in BOOLEAN
      BY <1>1, <2>1, Zenon
  <2>4. lapsed' \in 0..Len(codes)
      BY <1>1, <2>2
  <2> QED BY <2>3, <2>4
<1>4. /\ rows' \in Seq(BoxRow) /\ Len(rows') = Len(rows) /\ OwnerConsistent'
      /\ owner' \in 0..Len(rows)
  <2>1. OwnerConsistent
      BY DEF BoxIInv
  <2>2. CASE UNCHANGED <<rows, owner>>
      BY <1>1, <2>1, <2>2 DEF OwnerConsistent
  <2>3. ASSUME owner # 0, NEW x \in BoxRow, rows' = [rows EXCEPT ![owner] = x],
               \/ owner' = owner /\ x.active = rows[owner].active
               \/ owner' = 0 /\ x.active = FALSE
        PROVE  /\ rows' \in Seq(BoxRow) /\ Len(rows') = Len(rows) /\ OwnerConsistent'
               /\ owner' \in 0..Len(rows)
    <3>1. owner \in 1..Len(rows)
        BY <1>1, <2>3
    <3>2. /\ rows' \in Seq(BoxRow) /\ Len(rows') = Len(rows)
          /\ \A k \in 1..Len(rows) : rows'[k] = IF k = owner THEN x ELSE rows[k]
        BY <1>1, <2>3, <3>1
    <3> QED BY <1>1, <2>1, <2>3, <3>1, <3>2 DEF OwnerConsistent
  <2>4. CASE GoesDormant
    <3> DEFINE x == [rows[owner] EXCEPT !.dormant = TRUE]
    <3>1. owner # 0 /\ rows[owner] \in BoxRow /\ owner' = owner
        BY <1>1, <2>4 DEF GoesDormant
    <3>2. x \in BoxRow /\ x.active = rows[owner].active
        BY <3>1 DEF BoxRow
    <3>3. rows' = [rows EXCEPT ![owner] = x]
        BY <1>1, <2>4, <3>1 DEF GoesDormant
    <3> HIDE DEF x
    <3> QED BY <2>3, <3>1, <3>2, <3>3
  <2>5. CASE Retire
    <3> DEFINE x == Closed(rows[owner])
    <3>1. owner # 0 /\ rows[owner] \in BoxRow /\ owner' = 0
        BY <1>1, <2>5 DEF Retire
    <3>2. x \in BoxRow /\ x.active = FALSE
      <4>1. rows[owner].version + 1 \in Nat
          BY <3>1 DEF BoxRow
      <4> QED BY <3>1, <4>1 DEF BoxRow, Closed
    <3>3. rows' = [rows EXCEPT ![owner] = x]
        BY <2>5 DEF Retire
    <3> HIDE DEF x
    <3> QED BY <2>3, <3>1, <3>2, <3>3
  <2> QED BY <2>2, <2>4, <2>5 DEF MinutePasses, CodesLapse, vars, rowVars
<1>5. CodesConsistent' /\ Authored'
  <2>1. Authored'
      BY <1>1, <1>2, AuthorsStay
  <2> QED BY <1>2, <2>1 DEF BoxIInv, CodesConsistent
<1>6. BoxTypeOK'
    BY <1>1, <1>2, <1>3, <1>4 DEF BoxTypeOK, CodeRow, BoxRow, PageState, MailState, Session
<1>7. ASSUME NEW a \in Browser PROVE PagePoints(a)'
    BY <1>2, <1>4 DEF BoxIInv, PagePoints
<1> QED BY <1>4, <1>5, <1>6, <1>7 DEF BoxIInv

LEMMA BoxNextInvariant == BoxIInv /\ [Next]_vars => BoxIInv'
BY ReadingSteps, CountTryKeeps, SendCodeKeeps, MailKeeps, PasswordKeeps, OpenByCodeKeeps, ClockKeeps
   DEF Next, Browse

\* The inductive invariant of the codes, the accounts and the sessions of one address.
THEOREM BoxInvariantHolds == Spec => []BoxIInv
BY BoxInitInvariant, BoxNextInvariant, PTL DEF Spec

\* What the invariant says of the live codes: there are no more than requests that overlap.
LEMMA LiveCodesFew == BoxIInv => LiveCodesBounded
<1> SUFFICES ASSUME BoxIInv PROVE LiveCodesBounded
    OBVIOUS
<1>1. PICK f \in [1..Len(codes) -> Mail] : AskedBy(f)
    BY DEF BoxIInv, Authored
<1>2. Live \subseteq 1..Len(codes)
    BY BoxTypes DEF BoxIInv, Live
<1> DEFINE g == [c \in Live |-> f[c]]
<1>3. g \in [Live -> Mail]
    BY <1>1, <1>2
<1>4. \A c, d \in Live : g[c] = g[d] => c = d
    BY <1>1 DEF AskedBy
<1> HIDE DEF g
<1>5. g \in Injection(Live, Mail)
    BY <1>3, <1>4 DEF Injection, IsInjective
<1>6. IsFiniteSet(Mail)
    BY ConstantsOK
<1> QED BY <1>5, <1>6, FS_Injection DEF LiveCodesBounded

\* A code that is dead is not compared.
LEMMA DeadIsNotCompared ==
    ASSUME BoxIInv, [Next]_vars
    PROVE  \A c \in DOMAIN codes : ~codes[c].live => codes'[c].guessed = codes[c].guessed
<1>1. codes \in Seq(CodeRow) /\ DOMAIN codes = 1..Len(codes)
    BY BoxTypes DEF BoxIInv
<1> SUFFICES ASSUME NEW c \in 1..Len(codes), ~codes[c].live
             PROVE  codes'[c].guessed = codes[c].guessed
    BY <1>1
<1>2. CASE codes' = codes
    BY <1>2
<1>3. ASSUME NEW m \in Mail, SendCode(m) PROVE codes'[c].guessed = codes[c].guessed
    BY <1>3, SendCodeRows
<1>4. ASSUME NEW b \in Browser, CountTry(b) PROVE codes'[c].guessed = codes[c].guessed
  <2>1. codes[c] \in CodeRow /\ codes[page[b].code] \in CodeRow /\ page[b].code \in 1..Len(codes)
      BY <1>1, <1>4 DEF BoxIInv, PagePoints, CountTry
  <2> QED BY <1>1, <1>2, <1>4, <2>1 DEF CountTry, Countable
<1>5. ASSUME NEW b \in Browser, OpenByCode(b) PROVE codes'[c].guessed = codes[c].guessed
  <2>1. codes[c] \in CodeRow /\ codes[page[b].code] \in CodeRow /\ page[b].code \in 1..Len(codes)
      BY <1>1, <1>5 DEF BoxIInv, PagePoints, OpenByCode
  <2> QED BY <1>1, <1>5, <2>1 DEF OpenByCode, CodeRow
<1> QED BY <1>2, <1>3, <1>4, <1>5
        DEF Next, Browse, AskCode, Reload, Supersede, AskFails, TypeCode, FindAccount, CodeRefused, LogIn,
            LogInWrites, AskPassword, SetPassword, Denied, LogOut, MinutePasses, CodesLapse,
            GoesDormant, Retire, vars, codeVars

\* For any number of browsers, requests for a code, tries and accounts: a code opens one session at most and is
\* compared no more often than allowed, never once it was used or replaced; no more codes are
\* live than requests that overlap; and a session that is accepted is of the account that has the address
\* (requestCode, verifyCode, resolveSessionAttendee, data_retention).
THEOREM BoxStaysKept == Spec => BoxIsKept
<1>1. BoxIInv => TypeOK /\ BoxOfAddress /\ CodeOpensOnce /\ GuessesBounded
  <2> SUFFICES ASSUME BoxIInv PROVE TypeOK /\ BoxOfAddress /\ CodeOpensOnce /\ GuessesBounded
      OBVIOUS
  <2>1. /\ codes \in Seq(CodeRow) /\ rows \in Seq(BoxRow)
        /\ cooling \in BOOLEAN /\ lapsed \in 0..Len(codes) /\ owner \in 0..Len(rows)
        /\ sess \in [Browser -> Session]
        /\ DOMAIN codes = 1..Len(codes) /\ DOMAIN rows = 1..Len(rows)
        /\ \A c \in 1..Len(codes) : codes[c] \in CodeRow
        /\ \A r \in 1..Len(rows) : rows[r] \in BoxRow
      BY BoxTypes DEF BoxIInv
  <2>2. CodesConsistent /\ OwnerConsistent /\ \A b \in Browser : PagePoints(b)
      BY DEF BoxIInv
  <2>3. TypeOK
      BY <2>1, <2>2 DEF TypeOK, CodeRow, BoxRow, OwnerConsistent, PagePoints
  <2>4. BoxOfAddress
      BY <2>1, <2>2 DEF BoxOfAddress, Accepted, OwnerConsistent, PagePoints
  <2>5. CodeOpensOnce /\ GuessesBounded
      BY <2>1, <2>2 DEF CodeOpensOnce, GuessesBounded, CodesConsistent, CodeRow
  <2> QED BY <2>3, <2>4, <2>5
<1>2. BoxIInv /\ [Next]_vars =>
        [\A c \in DOMAIN codes : ~codes[c].live => codes'[c].guessed = codes[c].guessed]_vars
    BY DeadIsNotCompared
<1> QED BY <1>1, <1>2, LiveCodesFew, BoxInvariantHolds, PTL DEF Spec, BoxIsKept, UsedIsNotCompared

-----------------------------------------------------------------------------
(* The registration form *)

Submission == [at : {"SENT", "LOOKED", "ANSWERED"}, key : Visitor \X Nat, offer : Offer,
               outcome : {"NONE", "REFUSED", "REGISTERED", "IDEMPOTENCY_KEY_CONFLICT"}]
Visit == [page : {"AWAY", "FORM", "TICKET"}, listed : SUBSET Offer, key : Nat,
          waits : Request \cup {NoRequest}]

LEMMA FormsTypes ==
    FormsTypeOK <=> /\ visit \in [Visitor -> Visit] /\ keys \in [Visitor -> Nat]
                    /\ submission \in [Request -> Submission \cup {NoSubmission}]
                    /\ registered \subseteq Registration /\ tickets \subseteq registered
                    /\ IsFiniteSet(registered)
BY DEF FormsTypeOK, Submission, Visit

LEMMA SubmissionsExist == ASSUME NEW s \in Submission PROVE s # NoSubmission
BY DEF Submission, NoSubmission

LEMMA FormsInitInvariant == FormsInit => FormsIInv
<1> SUFFICES ASSUME FormsInit PROVE FormsIInv
    OBVIOUS
<1>1. Away \in Visit /\ Away.key = 0 /\ Away.waits = NoRequest
    BY DEF Away, Visit, NoKey
<1>2. FormsTypeOK
    BY <1>1, FS_EmptySet, FormsTypes DEF FormsInit
<1>3. KeysConsistent
    BY <1>1 DEF FormsInit, KeysConsistent
<1>4. ASSUME NEW q \in Request PROVE SubmissionConsistent(q)
    BY DEF FormsInit, SubmissionConsistent
<1>5. ASSUME NEW b \in Visitor PROVE WaitsForItsOwn(b)
    BY <1>1 DEF FormsInit, WaitsForItsOwn
<1> QED BY <1>2, <1>3, <1>4, <1>5 DEF FormsIInv

\* The server goes on with a request, or forgets one that nobody waits for; what it
\* registers is new under the request's key.
LEMMA ServerStep ==
    ASSUME FormsIInv, NEW q \in Request, NEW s \in Submission \cup {NoSubmission},
           submission[q] # NoSubmission,
           submission' = [submission EXCEPT ![q] = s],
           UNCHANGED <<visit, keys, tickets>>,
           s = NoSubmission => \A b \in Visitor : visit[b].waits # q,
           s # NoSubmission => s.key = submission[q].key,
           s # NoSubmission /\ s.at = "ANSWERED" /\ s.outcome = "REGISTERED" =>
             [key |-> s.key, offer |-> s.offer] \in registered',
           \/ registered' = registered
           \/ /\ OfKey(q) = {}
              /\ registered' = registered \cup {[key |-> submission[q].key,
                                                 offer |-> submission[q].offer]}
    PROVE  FormsIInv'
<1> DEFINE r == [key |-> submission[q].key, offer |-> submission[q].offer]
<1>1. /\ visit \in [Visitor -> Visit] /\ keys \in [Visitor -> Nat]
      /\ submission \in [Request -> Submission \cup {NoSubmission}]
      /\ registered \subseteq Registration /\ tickets \subseteq registered
      /\ IsFiniteSet(registered)
    BY FormsTypes DEF FormsIInv
<1>2. submission[q] \in Submission /\ submission[q].key[2] \in 1 .. keys[submission[q].key[1]]
    BY <1>1 DEF FormsIInv, SubmissionConsistent
<1>3. r \in Registration /\ r.key = submission[q].key
    BY <1>2 DEF Registration, Submission
<1>4. registered \subseteq registered' /\ registered' \subseteq Registration
      /\ IsFiniteSet(registered') /\ registered' \subseteq registered \cup {r}
  <2>1. IsFiniteSet(registered \cup {r})
      BY <1>1, FS_AddElement
  <2>2. registered' = registered \/ registered' = registered \cup {r}
      OBVIOUS
  <2> HIDE DEF r
  <2> QED BY <1>1, <1>3, <2>1, <2>2
<1>5. submission' \in [Request -> Submission \cup {NoSubmission}]
    BY <1>1
<1>6. FormsTypeOK'
    BY <1>1, <1>4, <1>5 DEF FormsTypeOK, Submission, Visit
<1>7. KeysConsistent'
  <2>1. KeysConsistent
      BY DEF FormsIInv
  <2>2. \A x, y \in registered' : x.key = y.key => x = y
    <3>1. CASE registered' = registered
        BY <2>1, <3>1 DEF KeysConsistent
    <3>2. CASE OfKey(q) = {} /\ registered' = registered \cup {r}
        BY <1>3, <2>1, <3>2 DEF KeysConsistent, OfKey
    <3> QED BY <3>1, <3>2
  <2>3. \A x \in registered' : x.key[2] \in 1 .. keys'[x.key[1]]
      BY <1>2, <1>3, <1>4, <2>1 DEF KeysConsistent
  <2> QED BY <2>1, <2>2, <2>3 DEF KeysConsistent
<1>8. ASSUME NEW p \in Request PROVE SubmissionConsistent(p)'
  <2>1. SubmissionConsistent(p)
      BY DEF FormsIInv
  <2>2. CASE p = q
      BY <1>1, <1>2, <2>2 DEF SubmissionConsistent
  <2>3. CASE p # q
    <3>1. submission'[p] = submission[p]
        BY <1>1, <2>3
    <3> QED BY <1>4, <2>1, <3>1 DEF SubmissionConsistent
  <2> QED BY <2>2, <2>3
<1>9. ASSUME NEW b \in Visitor PROVE WaitsForItsOwn(b)'
  <2>1. WaitsForItsOwn(b) /\ visit[b].waits \in Request \cup {NoRequest}
      BY <1>1 DEF FormsIInv, Visit
  <2>2. CASE visit[b].waits = q
    <3>1. submission'[q] = s /\ s # NoSubmission /\ s.key = submission[q].key
        BY <1>1, <2>2
    <3> QED BY <2>1, <2>2, <3>1 DEF WaitsForItsOwn
  <2>3. CASE visit[b].waits # q
      BY <1>1, <2>1, <2>3 DEF WaitsForItsOwn
  <2> QED BY <2>2, <2>3
<1> QED BY <1>6, <1>7, <1>8, <1>9 DEF FormsIInv

\* Answer tells whoever waits, or forgets.
LEMMA AnswerTells ==
    ASSUME FormsTypeOK, NEW q \in Request, submission[q] # NoSubmission,
           NEW outcome \in {"REFUSED", "REGISTERED", "IDEMPOTENCY_KEY_CONFLICT"},
           Answer(q, outcome)
    PROVE  \E s \in Submission \cup {NoSubmission} :
             /\ submission' = [submission EXCEPT ![q] = s]
             /\ s = NoSubmission => \A b \in Visitor : visit[b].waits # q
             /\ s # NoSubmission => /\ s.key = submission[q].key
                                    /\ s.offer = submission[q].offer
                                    /\ s.outcome = outcome
<1>1. submission[q] \in Submission
    BY FormsTypes
<1> DEFINE s == [submission[q] EXCEPT !.at = "ANSWERED", !.outcome = outcome]
<1>2. /\ s \in Submission /\ s.key = submission[q].key /\ s.offer = submission[q].offer
      /\ s.outcome = outcome
    BY <1>1 DEF Submission
<1>3. CASE \E b \in Visitor : visit[b].waits = q
  <2>1. submission' = [submission EXCEPT ![q] = s]
      BY <1>3, FormsTypes DEF Answer
  <2> HIDE DEF s
  <2> QED BY <1>2, <2>1, SubmissionsExist
<1>4. CASE ~\E b \in Visitor : visit[b].waits = q
  <2>1. submission' = [submission EXCEPT ![q] = NoSubmission]
      BY <1>4 DEF Answer
  <2> QED BY <1>4, <2>1
<1> QED BY <1>3, <1>4

\* What is registered under a request's key answers for it.
LEMMA ReplayKeeps ==
    ASSUME FormsIInv, NEW q \in Request, submission[q] # NoSubmission, Replay(q),
           UNCHANGED <<visit, keys, tickets, registered>>
    PROVE  FormsIInv'
<1>1. FormsTypeOK
    BY DEF FormsIInv
<1>2. PICK r \in OfKey(q) :
        Answer(q, IF SameRequest(r, q) THEN "REGISTERED" ELSE "IDEMPOTENCY_KEY_CONFLICT")
    BY DEF Replay
<1> DEFINE outcome == IF SameRequest(r, q) THEN "REGISTERED" ELSE "IDEMPOTENCY_KEY_CONFLICT"
<1>3. outcome \in {"REFUSED", "REGISTERED", "IDEMPOTENCY_KEY_CONFLICT"}
    OBVIOUS
<1>4. outcome = "REGISTERED" =>
        [key |-> submission[q].key, offer |-> submission[q].offer] \in registered
  <2>1. r \in registered /\ r \in Registration
      BY <1>1, <1>2 DEF OfKey, FormsTypeOK
  <2>2. CASE SameRequest(r, q)
    <3>1. r = [key |-> submission[q].key, offer |-> submission[q].offer]
        BY <2>1, <2>2 DEF SameRequest, Registration
    <3> QED BY <2>1, <3>1
  <2> QED BY <2>2
<1> HIDE DEF outcome
<1>5. Answer(q, outcome)
    BY <1>2 DEF outcome
<1>6. PICK s \in Submission \cup {NoSubmission} :
        /\ submission' = [submission EXCEPT ![q] = s]
        /\ s = NoSubmission => \A b \in Visitor : visit[b].waits # q
        /\ s # NoSubmission => /\ s.key = submission[q].key
                               /\ s.offer = submission[q].offer
                               /\ s.outcome = outcome
    BY <1>1, <1>3, <1>5, AnswerTells
<1> QED BY <1>4, <1>6, ServerStep

\* A browser waits no longer: its request goes on without it, or its answer is lost.
LEMMA AbandonKeeps ==
    ASSUME FormsIInv, NEW b \in Visitor, NEW v \in Visit, Abandon(b),
           visit' = [visit EXCEPT ![b] = v], v.waits = NoRequest, v.key = visit[b].key,
           UNCHANGED <<registered, keys, tickets>>
    PROVE  FormsIInv'
<1>1. /\ visit \in [Visitor -> Visit] /\ keys \in [Visitor -> Nat]
      /\ submission \in [Request -> Submission \cup {NoSubmission}]
      /\ visit[b].waits \in Request \cup {NoRequest}
    BY FormsTypes DEF FormsIInv, Visit
<1>2. \A q \in Request : /\ submission'[q] \in {submission[q], NoSubmission}
                         /\ q # visit[b].waits => submission'[q] = submission[q]
    BY <1>1 DEF Abandon, Forgotten
<1>3. submission' \in [Request -> Submission \cup {NoSubmission}]
    BY <1>1 DEF Abandon, Forgotten
<1>4. FormsTypeOK'
    BY <1>1, <1>3 DEF FormsIInv, FormsTypeOK, Submission, Visit
<1>5. KeysConsistent'
  <2>1. KeysConsistent
      BY DEF FormsIInv
  <2>2. \A c \in Visitor : visit'[c].key = visit[c].key
      BY <1>1
  <2> QED BY <2>1, <2>2 DEF KeysConsistent
<1>6. ASSUME NEW q \in Request PROVE SubmissionConsistent(q)'
    BY <1>2 DEF FormsIInv, SubmissionConsistent
<1>7. ASSUME NEW c \in Visitor PROVE WaitsForItsOwn(c)'
  <2>1. CASE c = b
      BY <1>1, <2>1 DEF WaitsForItsOwn
  <2>2. CASE c # b
    <3>1. visit'[c] = visit[c] /\ visit[c].waits \in Request \cup {NoRequest}
        BY <1>1, <2>2 DEF Visit
    <3>2. WaitsForItsOwn(c) /\ WaitsForItsOwn(b)
        BY DEF FormsIInv
    <3>3. visit[c].waits # NoRequest => visit[c].waits # visit[b].waits
        BY <2>2, <3>2 DEF WaitsForItsOwn
    <3> QED BY <1>2, <3>1, <3>2, <3>3 DEF WaitsForItsOwn
  <2> QED BY <2>1, <2>2
<1> QED BY <1>4, <1>5, <1>6, <1>7 DEF FormsIInv

\* A click makes a key where there is none, and a request under it.
LEMMA SubmitKeeps ==
    ASSUME FormsIInv, NEW b \in Visitor, NEW q \in Request, Submit(b, q)
    PROVE  FormsIInv'
<1> DEFINE fresh == visit[b].key = NoKey
           key == IF fresh THEN keys[b] + 1 ELSE visit[b].key
           v == [visit[b] EXCEPT !.key = key, !.waits = q]
<1>1. /\ visit \in [Visitor -> Visit] /\ keys \in [Visitor -> Nat]
      /\ submission \in [Request -> Submission \cup {NoSubmission}]
      /\ visit[b] \in Visit /\ keys[b] \in Nat /\ KeysConsistent
      /\ registered \subseteq Registration /\ tickets \subseteq registered
      /\ IsFiniteSet(registered)
    BY FormsTypes DEF FormsIInv
<1>2. PICK o \in visit[b].listed :
        submission' = [submission EXCEPT ![q] = [at |-> "SENT", key |-> <<b, key>>, offer |-> o,
                                                 outcome |-> "NONE"]]
    BY DEF Submit
<1> DEFINE s == [at |-> "SENT", key |-> <<b, key>>, offer |-> o, outcome |-> "NONE"]
<1>3. /\ submission[q] = NoSubmission /\ visit[b].waits = NoRequest
      /\ keys' = [keys EXCEPT ![b] = IF fresh THEN @ + 1 ELSE @]
      /\ visit' = [visit EXCEPT ![b] = v]
      /\ UNCHANGED <<registered, tickets>>
    BY <1>1 DEF Submit
<1>4. /\ key \in Nat /\ key # 0 /\ key <= keys'[b] /\ keys'[b] \in Nat /\ keys[b] <= keys'[b]
      /\ keys'[b] = IF fresh THEN keys[b] + 1 ELSE keys[b]
    BY <1>1, <1>3 DEF KeysConsistent, Visit, NoKey
<1>5. visit[b].listed \subseteq Offer
    BY <1>1 DEF Visit
<1> HIDE DEF key
<1>6. /\ s \in Submission /\ s.key = <<b, key>> /\ s.at = "SENT"
      /\ v \in Visit /\ v.key = key /\ v.waits = q
    BY <1>1, <1>4, <1>5 DEF Submission, Visit
<1> HIDE DEF s, v
<1>7. /\ visit' \in [Visitor -> Visit] /\ keys' \in [Visitor -> Nat]
      /\ submission' \in [Request -> Submission \cup {NoSubmission}]
      /\ submission' = [submission EXCEPT ![q] = s]
    BY <1>1, <1>2, <1>3, <1>4, <1>6 DEF s
<1>8. FormsTypeOK'
    BY <1>1, <1>3, <1>7 DEF FormsTypeOK, Submission, Visit
<1>9. \A c \in Visitor : c # b => visit'[c] = visit[c] /\ keys'[c] = keys[c]
    BY <1>1, <1>3
<1>10. visit'[b] = v
    BY <1>1, <1>3
<1>11. \A c \in Visitor : keys[c] <= keys'[c]
    BY <1>1, <1>4, <1>9
<1>12. KeysConsistent'
  <2>1. \A r \in registered : r.key[1] \in Visitor
      BY <1>1 DEF Registration
  <2>2. \A r \in registered' : r.key[2] \in 1 .. keys'[r.key[1]]
      BY <1>1, <1>3, <1>7, <1>11, <2>1 DEF KeysConsistent
  <2>3. ASSUME NEW c \in Visitor
        PROVE  /\ visit'[c].key \in 0 .. keys'[c]
               /\ \A k \in 1 .. keys'[c] : k # visit'[c].key => \E t \in tickets' : t.key = <<c, k>>
    <3>1. CASE c # b
        BY <1>1, <1>3, <1>9, <3>1 DEF KeysConsistent
    <3>2. CASE c = b
      <4>1. \A k \in 1 .. keys[b] : k # visit[b].key => \E t \in tickets : t.key = <<b, k>>
          BY <1>1 DEF KeysConsistent
      <4>2. \A k \in 1 .. keys'[b] : k # key => k \in 1 .. keys[b] /\ k # visit[b].key
          BY <1>1, <1>4 DEF key, NoKey
      <4>3. visit'[b].key = key /\ key \in 0 .. keys'[b] /\ tickets' = tickets
          BY <1>3, <1>4, <1>6, <1>10
      <4>4. \A k \in 1 .. keys'[b] : k # visit'[b].key => \E t \in tickets' : t.key = <<b, k>>
          BY <4>1, <4>2, <4>3
      <4> QED BY <3>2, <4>3, <4>4
    <3> QED BY <3>1, <3>2
  <2> QED BY <1>1, <1>3, <2>2, <2>3 DEF KeysConsistent
<1>13. ASSUME NEW p \in Request PROVE SubmissionConsistent(p)'
  <2>1. CASE p = q
      BY <1>1, <1>4, <1>6, <1>7, <2>1 DEF SubmissionConsistent
  <2>2. CASE p # q
    <3>1. submission'[p] = submission[p] /\ SubmissionConsistent(p)
        BY <1>1, <1>7, <2>2 DEF FormsIInv
    <3>2. CASE submission[p] # NoSubmission
      <4>1. /\ submission[p].key[1] \in Visitor /\ submission[p].key[2] \in Nat
            /\ submission[p].key[2] \in 1 .. keys[submission[p].key[1]]
          BY <1>1, <3>1, <3>2 DEF SubmissionConsistent, Submission
      <4> DEFINE c == submission[p].key[1]
      <4>2. keys[c] \in Nat /\ keys'[c] \in Nat /\ keys[c] <= keys'[c]
          BY <1>1, <1>7, <1>11, <4>1
      <4> QED BY <1>3, <3>1, <4>1, <4>2 DEF SubmissionConsistent
    <3> QED BY <3>1, <3>2 DEF SubmissionConsistent
  <2> QED BY <2>1, <2>2
<1>14. ASSUME NEW c \in Visitor PROVE WaitsForItsOwn(c)'
  <2>1. CASE c = b
      BY <1>1, <1>6, <1>7, <1>10, <2>1, SubmissionsExist DEF WaitsForItsOwn
  <2>2. CASE c # b
    <3>1. WaitsForItsOwn(c) /\ visit[c].waits \in Request \cup {NoRequest}
        BY <1>1 DEF FormsIInv, Visit
    <3>2. visit[c].waits # NoRequest => submission'[visit[c].waits] = submission[visit[c].waits]
        BY <1>1, <1>3, <1>7, <3>1 DEF WaitsForItsOwn
    <3> QED BY <1>9, <2>2, <3>1, <3>2 DEF WaitsForItsOwn
  <2> QED BY <2>1, <2>2
<1> QED BY <1>8, <1>12, <1>13, <1>14 DEF FormsIInv

\* A browser that is told of a ticket does away with its key.
LEMMA AnsweredKeeps ==
    ASSUME FormsIInv, NEW b \in Visitor, SubmitAnswered(b)
    PROVE  FormsIInv'
<1> DEFINE q == visit[b].waits
           told == submission[q].outcome = "REGISTERED"
           t == [key |-> submission[q].key, offer |-> submission[q].offer]
           v == [visit[b] EXCEPT !.key = KeyAfter(b, told), !.waits = NoRequest,
                                 !.page = IF told THEN "TICKET" ELSE @]
<1>1. /\ visit \in [Visitor -> Visit] /\ keys \in [Visitor -> Nat]
      /\ submission \in [Request -> Submission \cup {NoSubmission}]
      /\ visit[b] \in Visit /\ keys[b] \in Nat /\ KeysConsistent
      /\ registered \subseteq Registration /\ tickets \subseteq registered
      /\ IsFiniteSet(registered) /\ q \in Request \cup {NoRequest}
    BY FormsTypes DEF FormsIInv, Visit
<1>2. /\ q # NoRequest /\ submission[q].at = "ANSWERED"
      /\ visit' = [visit EXCEPT ![b] = v]
      /\ tickets' = tickets \cup (IF told THEN {t} ELSE {})
      /\ submission' = [submission EXCEPT ![q] = NoSubmission]
      /\ UNCHANGED <<registered, keys>>
    BY <1>1 DEF SubmitAnswered
<1>3. /\ submission[q].key = <<b, visit[b].key>> /\ submission[q] # NoSubmission
      /\ told => t \in registered
    BY <1>1, <1>2 DEF FormsIInv, WaitsForItsOwn, SubmissionConsistent
<1>4. /\ v \in Visit /\ v.waits = NoRequest
      /\ v.key = IF told THEN NoKey ELSE visit[b].key
    BY <1>1 DEF Visit, KeyAfter, NoKey
<1>5. told => t.key = <<b, visit[b].key>>
    BY <1>3
<1> HIDE DEF v, t, told, q
<1>6. /\ visit' \in [Visitor -> Visit] /\ visit'[b] = v
      /\ \A c \in Visitor : c # b => visit'[c] = visit[c]
      /\ submission' \in [Request -> Submission \cup {NoSubmission}]
      /\ tickets \subseteq tickets' /\ tickets' \subseteq registered'
    BY <1>1, <1>2, <1>3, <1>4
<1>7. FormsTypeOK'
    BY <1>1, <1>2, <1>6 DEF FormsTypeOK, Submission, Visit
<1>8. KeysConsistent'
  <2>1. ASSUME NEW c \in Visitor
        PROVE  /\ visit'[c].key \in 0 .. keys'[c]
               /\ \A k \in 1 .. keys'[c] : k # visit'[c].key => \E z \in tickets' : z.key = <<c, k>>
    <3>1. CASE c # b
        BY <1>1, <1>2, <1>6, <3>1 DEF KeysConsistent
    <3>2. CASE c = b
      <4>1. /\ visit[b].key \in 0 .. keys[b]
            /\ \A k \in 1 .. keys[b] : k # visit[b].key => \E z \in tickets : z.key = <<b, k>>
          BY <1>1 DEF KeysConsistent
      <4>2. CASE told
        <5>1. visit'[b].key = 0 /\ keys'[b] = keys[b] /\ 0 \in 0 .. keys[b]
            BY <1>1, <1>2, <1>4, <1>6, <4>2 DEF NoKey
        <5>2. t \in tickets' /\ t.key = <<b, visit[b].key>>
            BY <1>2, <1>5, <4>2
        <5>3. \A k \in 1 .. keys[b] : \E z \in tickets' : z.key = <<b, k>>
            BY <1>6, <4>1, <5>2
        <5> QED BY <3>2, <5>1, <5>3
      <4>3. CASE ~told
          BY <1>1, <1>2, <1>4, <1>6, <3>2, <4>1, <4>3
      <4> QED BY <4>2, <4>3
    <3> QED BY <3>1, <3>2
  <2> QED BY <1>1, <1>2, <2>1 DEF KeysConsistent
<1>9. ASSUME NEW p \in Request PROVE SubmissionConsistent(p)'
    BY <1>1, <1>2 DEF FormsIInv, SubmissionConsistent
<1>10. ASSUME NEW c \in Visitor PROVE WaitsForItsOwn(c)'
  <2>1. CASE c = b
      BY <1>4, <1>6, <2>1 DEF WaitsForItsOwn
  <2>2. CASE c # b
    <3>1. WaitsForItsOwn(c) /\ visit[c].waits \in Request \cup {NoRequest} /\ visit'[c] = visit[c]
        BY <1>1, <1>6, <2>2 DEF FormsIInv, Visit
    <3>2. visit[c].waits # NoRequest => visit[c].waits # q
        BY <1>3, <2>2, <3>1 DEF WaitsForItsOwn
    <3> QED BY <1>1, <1>2, <3>1, <3>2 DEF WaitsForItsOwn
  <2> QED BY <2>1, <2>2
<1> QED BY <1>7, <1>8, <1>9, <1>10 DEF FormsIInv

LEMMA FormsNextInvariant == FormsIInv /\ [RegistrationsNext]_registrationVars => FormsIInv'
<1> SUFFICES ASSUME FormsIInv, [RegistrationsNext]_registrationVars PROVE FormsIInv'
    OBVIOUS
<1>1. FormsTypeOK
    BY DEF FormsIInv
<1>2. CASE Organize \/ UNCHANGED registrationVars
  <2>1. UNCHANGED <<visit, keys, tickets, registered, submission>>
      BY <1>2 DEF Organize, BeginUpdate, CommitUpdate, UpdateAborts, SetFormStatus,
                  registrationVars, visitVars
  <2> QED BY <2>1 DEF FormsIInv, FormsTypeOK, KeysConsistent, SubmissionConsistent, WaitsForItsOwn
<1>3. ASSUME NEW q \in Request, FindExisting(q) PROVE FormsIInv'
  <2>1. /\ submission[q] # NoSubmission /\ UNCHANGED <<visit, keys, tickets, registered>>
      BY <1>3 DEF FindExisting, NoSubmission, visitVars
  <2>2. CASE OfKey(q) # {}
      BY <1>3, <2>1, <2>2, ReplayKeeps DEF FindExisting
  <2>3. CASE OfKey(q) = {}
    <3> DEFINE s == [submission[q] EXCEPT !.at = "LOOKED"]
    <3>1. submission[q] \in Submission
        BY <1>1, <2>1, FormsTypes
    <3>2. /\ s \in Submission /\ s.key = submission[q].key /\ s.at = "LOOKED"
          /\ submission' = [submission EXCEPT ![q] = s]
        BY <1>1, <1>3, <2>3, <3>1, FormsTypes DEF FindExisting, Submission
    <3> HIDE DEF s
    <3> QED BY <2>1, <3>2, ServerStep, SubmissionsExist
  <2> QED BY <2>2, <2>3
<1>4. ASSUME NEW q \in Request, RunSubmit(q) PROVE FormsIInv'
  <2>1. /\ submission[q] # NoSubmission /\ UNCHANGED <<visit, keys, tickets>>
      BY <1>4 DEF RunSubmit, NoSubmission, visitVars
  <2>2. CASE Answer(q, "REFUSED") /\ UNCHANGED registered
    <3>1. PICK s \in Submission \cup {NoSubmission} :
            /\ submission' = [submission EXCEPT ![q] = s]
            /\ s = NoSubmission => \A b \in Visitor : visit[b].waits # q
            /\ s # NoSubmission => /\ s.key = submission[q].key
                                   /\ s.offer = submission[q].offer
                                   /\ s.outcome = "REFUSED"
        BY <1>1, <2>1, <2>2, AnswerTells
    <3> QED BY <2>1, <2>2, <3>1, ServerStep
  <2>3. CASE Replay(q) /\ UNCHANGED registered
      BY <2>1, <2>3, ReplayKeeps
  <2>4. CASE /\ OfKey(q) = {} /\ Answer(q, "REGISTERED")
             /\ registered' = registered \cup {[key |-> submission[q].key,
                                                offer |-> submission[q].offer]}
    <3>1. PICK s \in Submission \cup {NoSubmission} :
            /\ submission' = [submission EXCEPT ![q] = s]
            /\ s = NoSubmission => \A b \in Visitor : visit[b].waits # q
            /\ s # NoSubmission => /\ s.key = submission[q].key
                                   /\ s.offer = submission[q].offer
                                   /\ s.outcome = "REGISTERED"
        BY <1>1, <2>1, <2>4, AnswerTells
    <3> QED BY <2>1, <2>4, <3>1, ServerStep
  <2> QED BY <1>4, <2>2, <2>3, <2>4 DEF RunSubmit
<1>5. ASSUME NEW b \in Visitor, LoadForm(b) PROVE FormsIInv'
  <2> DEFINE v == [visit[b] EXCEPT !.page = "FORM", !.listed = Active, !.waits = NoRequest]
  <2>1. /\ visit' = [visit EXCEPT ![b] = v] /\ Abandon(b)
        /\ UNCHANGED <<registered, keys, tickets>>
      BY <1>5 DEF LoadForm
  <2>2. v \in Visit /\ v.waits = NoRequest /\ v.key = visit[b].key
      BY <1>1, FormsTypes DEF Visit, Active
  <2> HIDE DEF v
  <2> QED BY <2>1, <2>2, AbandonKeeps
<1>6. ASSUME NEW b \in Visitor, SubmitLost(b) PROVE FormsIInv'
  <2> DEFINE v == [visit[b] EXCEPT !.key = KeyAfter(b, FALSE), !.waits = NoRequest]
  <2>1. /\ visit' = [visit EXCEPT ![b] = v] /\ Abandon(b)
        /\ UNCHANGED <<registered, keys, tickets>>
      BY <1>1, <1>6, FormsTypes DEF SubmitLost
  <2>2. v \in Visit /\ v.waits = NoRequest /\ v.key = visit[b].key
      BY <1>1, FormsTypes DEF Visit, KeyAfter
  <2> HIDE DEF v
  <2> QED BY <2>1, <2>2, AbandonKeeps
<1> QED BY <1>2, <1>3, <1>4, <1>5, <1>6, SubmitKeeps, AnsweredKeeps DEF RegistrationsNext

\* The inductive invariant of the form, its visitors' keys and their requests.
THEOREM FormsInvariantHolds == FormsSpec => []FormsIInv
BY FormsInitInvariant, FormsNextInvariant, PTL DEF FormsSpec

\* For any number of visitors, requests and offers, whoever is told of a ticket is registered
\* for what that click chose, and an attempt registers its visitor once (submit).
THEOREM SubmissionsStayOnce == FormsSpec => []SubmissionsHold
<1>1. FormsIInv => SubmissionsHold
  <2> SUFFICES ASSUME FormsIInv PROVE SubmissionsHold
      OBVIOUS
  <2>1. /\ FormsTypeOK /\ KeysConsistent /\ tickets \subseteq registered
        /\ registered \subseteq Registration /\ IsFiniteSet(registered)
      BY DEF FormsIInv, FormsTypeOK
  <2>2. ToldWhatIsRegistered
      BY <2>1 DEF ToldWhatIsRegistered
  <2>3. ASSUME NEW b \in Visitor
        PROVE  Cardinality({r \in registered : r.key[1] = b})
                 <= Cardinality({t \in tickets : t.key[1] = b}) + 1
    <3> DEFINE R == {r \in registered : r.key[1] = b}
               T == {t \in tickets : t.key[1] = b}
               now == {r \in R : r.key = <<b, visit[b].key>>}
    <3> SUFFICES Cardinality(R) <= Cardinality(T) + 1
        OBVIOUS
    <3>1. IsFiniteSet(R) /\ IsFiniteSet(T) /\ T \subseteq R
        BY <2>1, FS_Subset
    <3>2. ASSUME NEW r \in R, r \notin now PROVE r \in T
      <4>1. r \in registered /\ r.key[1] = b /\ r.key = <<b, r.key[2]>>
          BY <2>1 DEF Registration
      <4>2. r.key[2] \in 1 .. keys[b] /\ r.key[2] # visit[b].key
          BY <2>1, <3>2, <4>1 DEF KeysConsistent
      <4>3. PICK t \in tickets : t.key = <<b, r.key[2]>>
          BY <2>1, <4>2 DEF KeysConsistent
      <4>4. t = r
          BY <2>1, <4>1, <4>3 DEF KeysConsistent
      <4> QED BY <4>1, <4>3, <4>4
    <3>3. CASE now = {}
      <4>1. R = T
          BY <3>1, <3>2, <3>3
      <4>2. Cardinality(T) \in Nat
          BY <3>1, FS_CardinalityType
      <4> HIDE DEF R, T
      <4> QED BY <4>1, <4>2
    <3>4. CASE now # {}
      <4>1. PICK x \in now : TRUE
          BY <3>4
      <4>2. now = {x}
          BY <2>1, <4>1 DEF KeysConsistent
      <4>3. R \subseteq T \cup {x}
          BY <3>2, <4>2
      <4> HIDE DEF R, T
      <4>4. /\ IsFiniteSet(T \cup {x}) /\ Cardinality(T) \in Nat /\ Cardinality(R) \in Nat
            /\ Cardinality(T \cup {x}) <= Cardinality(T) + 1
        <5>1. Cardinality(T) \in Nat /\ Cardinality(R) \in Nat
            BY <3>1, FS_CardinalityType
        <5>2. /\ IsFiniteSet(T \cup {x})
              /\ Cardinality(T \cup {x}) = IF x \in T THEN Cardinality(T) ELSE Cardinality(T) + 1
            BY <3>1, FS_AddElement
        <5> QED BY <5>1, <5>2
      <4>5. Cardinality(R) <= Cardinality(T \cup {x}) /\ Cardinality(T \cup {x}) \in Nat
          BY <4>3, <4>4, FS_Subset, FS_CardinalityType
      <4> QED BY <4>4, <4>5
    <3> QED BY <3>3, <3>4
  <2> QED BY <2>2, <2>3 DEF SubmissionsHold, OneRegistrationPerAttempt
<1> QED BY <1>1, FormsInvariantHolds, PTL

-----------------------------------------------------------------------------
(* The checkout *)

TabState == [page : {"AWAY", "SUMMARY", "PAYMENT", "TICKET"}, key : Nat, pending : Nat,
             follows : Nat, status : PaymentStatuses \cup {"NONE"},
             waits : Request \cup {NoRequest}]
Checkouts == [at : {"SENT", "READ", "ANSWERED"}, key : Visitor \X Nat, operator : Operator,
              amount : Price \cup {0},
              told : PaymentStatuses \cup {"NONE", "REFUSED", "FAULT"}]
Payment == [key : Visitor \X Nat, operator : Operator, status : PaymentStatuses]

LEMMA CheckoutTypes ==
    CheckoutTypeOK <=> /\ price \in Price
                       /\ attempts \in [Visitor -> Nat] /\ ended \in [Visitor -> Nat]
                       /\ tab \in [Visitor -> TabState]
                       /\ checkout \in [Request -> Checkouts \cup {NoCheckout}]
                       /\ payments \subseteq Payment
BY DEF CheckoutTypeOK, TabState, Checkouts, Payment

LEMMA CheckoutInitInvariant == CheckoutInit => CheckoutIInv
<1> SUFFICES ASSUME CheckoutInit PROVE CheckoutIInv
    OBVIOUS
<1>1. ClosedTab \in TabState /\ ClosedTab.key = 0
    BY DEF ClosedTab, TabState, NoKey
<1>2. CheckoutTypeOK
    BY <1>1, CheckoutTypes DEF CheckoutInit
<1>3. PaymentsKeyed /\ \A q \in Request : CheckoutKeyed(q)
    BY DEF CheckoutInit, PaymentsKeyed, CheckoutKeyed
<1>4. \A b \in Visitor : AttemptsEnded(b)
    BY <1>1 DEF CheckoutInit, AttemptsEnded, NoKey
<1> QED BY <1>2, <1>3, <1>4 DEF CheckoutIInv

\* A tab's step: it keeps its key, or an answer ended the attempt; requests may be forgotten.
LEMMA TabStep ==
    ASSUME CheckoutIInv, NEW b \in Visitor, NEW v \in TabState, NEW n \in Nat,
           tab' = [tab EXCEPT ![b] = v], ended' = [ended EXCEPT ![b] = n], n >= ended[b],
           v.key = tab[b].key \/ (v.key = NoKey /\ n = ended[b] + 1),
           checkout' \in [Request -> Checkouts \cup {NoCheckout}],
           \A q \in Request : checkout'[q] \in {checkout[q], NoCheckout},
           UNCHANGED <<price, payments, attempts>>
    PROVE  CheckoutIInv'
<1>1. /\ price \in Price /\ payments \subseteq Payment
      /\ attempts \in [Visitor -> Nat] /\ ended \in [Visitor -> Nat]
      /\ tab \in [Visitor -> TabState]
    BY CheckoutTypes DEF CheckoutIInv
<1>2. CheckoutTypeOK'
    BY <1>1 DEF CheckoutTypeOK, TabState, Checkouts, Payment
<1>3. PaymentsKeyed'
    BY DEF CheckoutIInv, PaymentsKeyed
<1>4. ASSUME NEW q \in Request PROVE CheckoutKeyed(q)'
    BY DEF CheckoutIInv, CheckoutKeyed
<1>5. ASSUME NEW c \in Visitor PROVE AttemptsEnded(c)'
  <2>1. AttemptsEnded(c) /\ AttemptsEnded(b)
      BY DEF CheckoutIInv
  <2>2. CASE c # b
      BY <1>1, <2>1, <2>2 DEF AttemptsEnded
  <2>3. CASE c = b
    <3>1. tab'[b] = v /\ ended'[b] = n /\ attempts[b] \in Nat /\ ended[b] \in Nat
        BY <1>1
    <3> QED BY <2>1, <2>3, <3>1 DEF AttemptsEnded, NoKey
  <2> QED BY <2>2, <2>3
<1> QED BY <1>2, <1>3, <1>4, <1>5 DEF CheckoutIInv

\* A server's step keeps the key of a request, or forgets it; a payment that it makes is
\* the first of its key.
LEMMA RequestStep ==
    ASSUME CheckoutIInv, NEW q \in Request, NEW c \in Checkouts \cup {NoCheckout},
           NEW p \in Payment,
           checkout[q] # NoCheckout, checkout' = [checkout EXCEPT ![q] = c],
           c # NoCheckout => c.key = checkout[q].key,
           \/ payments' = payments
           \/ /\ payments' = payments \cup {p} /\ p.key = checkout[q].key
              /\ \A o \in payments : o.key # p.key,
           UNCHANGED <<price, buyerVars>>
    PROVE  CheckoutIInv'
<1>1. /\ price \in Price /\ payments \subseteq Payment
      /\ attempts \in [Visitor -> Nat] /\ ended \in [Visitor -> Nat]
      /\ tab \in [Visitor -> TabState]
      /\ checkout \in [Request -> Checkouts \cup {NoCheckout}]
    BY CheckoutTypes DEF CheckoutIInv
<1>2. UNCHANGED <<price, tab, attempts, ended>>
    BY DEF buyerVars
<1>3. CheckoutTypeOK'
  <2>1. checkout' \in [Request -> Checkouts \cup {NoCheckout}] /\ payments' \subseteq Payment
      BY <1>1
  <2> QED BY <1>1, <1>2, <2>1 DEF CheckoutTypeOK, TabState, Checkouts, Payment
<1>4. PaymentsKeyed'
  <2>1. PaymentsKeyed /\ CheckoutKeyed(q)
      BY DEF CheckoutIInv
  <2> QED BY <1>2, <2>1 DEF PaymentsKeyed, CheckoutKeyed
<1>5. ASSUME NEW r \in Request PROVE CheckoutKeyed(r)'
  <2>1. CheckoutKeyed(r) /\ CheckoutKeyed(q)
      BY DEF CheckoutIInv
  <2>2. CASE r = q
      BY <1>1, <1>2, <2>1, <2>2 DEF CheckoutKeyed
  <2>3. CASE r # q
      BY <1>1, <1>2, <2>1, <2>3 DEF CheckoutKeyed
  <2> QED BY <2>2, <2>3
<1>6. ASSUME NEW b \in Visitor PROVE AttemptsEnded(b)'
    BY <1>2 DEF CheckoutIInv, AttemptsEnded
<1> QED BY <1>3, <1>4, <1>5, <1>6 DEF CheckoutIInv

\* Tell answers the request, or forgets it.
LEMMA TellKeeps ==
    ASSUME CheckoutTypeOK, NEW q \in Request, checkout[q] # NoCheckout,
           NEW told \in PaymentStatuses \cup {"REFUSED", "FAULT"}, Tell(q, told)
    PROVE  \E c \in Checkouts \cup {NoCheckout} :
             /\ checkout' = [checkout EXCEPT ![q] = c]
             /\ c # NoCheckout => c.key = checkout[q].key
<1>1. checkout \in [Request -> Checkouts \cup {NoCheckout}] /\ checkout[q] \in Checkouts
    BY CheckoutTypes
<1>2. CASE \E b \in Visitor : tab[b].waits = q
  <2> DEFINE c == [checkout[q] EXCEPT !.at = "ANSWERED", !.told = told]
  <2>1. c \in Checkouts /\ c.key = checkout[q].key
      BY <1>1 DEF Checkouts
  <2>2. checkout' = [checkout EXCEPT ![q] = c]
      BY <1>1, <1>2 DEF Tell
  <2> HIDE DEF c
  <2> QED BY <2>1, <2>2
<1>3. CASE ~\E b \in Visitor : tab[b].waits = q
  <2>1. checkout' = [checkout EXCEPT ![q] = NoCheckout]
      BY <1>3 DEF Tell
  <2> QED BY <2>1
<1> QED BY <1>2, <1>3

\* An answer about a payment.
LEMMA AnswerOfType ==
    ASSUME NEW q \in Request, NEW p \in Payment
    PROVE  AnswerOf(q, p) \in PaymentStatuses \cup {"REFUSED", "FAULT"}
BY DEF AnswerOf, Payment

\* A request that was read goes on.
LEMMA ReadOfferKeeps ==
    ASSUME CheckoutIInv, NEW q \in Request, ReadOffer(q) PROVE CheckoutIInv'
<1>1. /\ CheckoutTypeOK /\ checkout \in [Request -> Checkouts \cup {NoCheckout}]
      /\ payments \subseteq Payment /\ price \in Price
    BY CheckoutTypes DEF CheckoutIInv
<1>2. /\ checkout[q] # NoCheckout /\ checkout[q] \in Checkouts
      /\ UNCHANGED <<price, payments, buyerVars>>
    BY <1>1 DEF ReadOffer, NoCheckout
<1>3. \E c \in Checkouts \cup {NoCheckout} :
         /\ checkout' = [checkout EXCEPT ![q] = c]
         /\ c # NoCheckout => c.key = checkout[q].key
  <2>1. CASE \E p \in OfAttempt(q) : Tell(q, AnswerOf(q, p))
    <3>1. PICK p \in OfAttempt(q) : Tell(q, AnswerOf(q, p))
        BY <2>1
    <3>2. AnswerOf(q, p) \in PaymentStatuses \cup {"REFUSED", "FAULT"}
        BY <1>1, AnswerOfType DEF OfAttempt
    <3> QED BY <1>1, <1>2, <3>1, <3>2, TellKeeps
  <2>2. CASE \E told \in {"REFUSED", "FAULT"} : Tell(q, told)
      BY <1>1, <1>2, <2>2, TellKeeps
  <2>3. CASE checkout' = [checkout EXCEPT ![q].at = "READ", ![q].amount = price]
    <3> DEFINE c == [checkout[q] EXCEPT !.at = "READ", !.amount = price]
    <3>1. c \in Checkouts /\ c.key = checkout[q].key
        BY <1>1, <1>2 DEF Checkouts
    <3>2. checkout' = [checkout EXCEPT ![q] = c]
        BY <1>1, <2>3
    <3> HIDE DEF c
    <3> QED BY <3>1, <3>2
  <2> QED BY <2>1, <2>2, <2>3 DEF ReadOffer
<1>4. CheckoutIInv'
  <2>1. PICK c \in Checkouts \cup {NoCheckout} :
           /\ checkout' = [checkout EXCEPT ![q] = c]
           /\ c # NoCheckout => c.key = checkout[q].key
      BY <1>3
  <2>2. [key |-> checkout[q].key, operator |-> checkout[q].operator, status |-> Open] \in Payment
      BY <1>2 DEF Payment, Checkouts, PaymentStatuses
  <2> QED BY <1>2, <2>1, <2>2, RequestStep
<1> QED BY <1>4

\* Under the locks a payment is made where the key has none.
LEMMA ReserveKeeps ==
    ASSUME CheckoutIInv, NEW q \in Request, Reserve(q) PROVE CheckoutIInv'
<1>1. /\ CheckoutTypeOK /\ checkout \in [Request -> Checkouts \cup {NoCheckout}]
      /\ payments \subseteq Payment
    BY CheckoutTypes DEF CheckoutIInv
<1>2. /\ checkout[q] # NoCheckout /\ checkout[q] \in Checkouts
      /\ UNCHANGED <<price, buyerVars>>
    BY <1>1 DEF Reserve, NoCheckout
<1>3. ASSUME payments' = payments,
             NEW told \in PaymentStatuses \cup {"REFUSED", "FAULT"}, Tell(q, told)
      PROVE  CheckoutIInv'
  <2>1. PICK c \in Checkouts \cup {NoCheckout} :
           /\ checkout' = [checkout EXCEPT ![q] = c]
           /\ c # NoCheckout => c.key = checkout[q].key
      BY <1>1, <1>2, <1>3, TellKeeps
  <2>2. [key |-> checkout[q].key, operator |-> checkout[q].operator, status |-> Open] \in Payment
      BY <1>2 DEF Payment, Checkouts, PaymentStatuses
  <2> QED BY <1>2, <1>3, <2>1, <2>2, RequestStep
<1>4. CASE \E told \in {"REFUSED", "FAULT"} : Tell(q, told) /\ UNCHANGED payments
    BY <1>3, <1>4
<1>5. CASE /\ \E p \in OfAttempt(q) : Tell(q, AnswerOf(q, p))
           /\ UNCHANGED payments
  <2>1. PICK p \in OfAttempt(q) : Tell(q, AnswerOf(q, p))
      BY <1>5
  <2>2. AnswerOf(q, p) \in PaymentStatuses \cup {"REFUSED", "FAULT"}
      BY <1>1, AnswerOfType DEF OfAttempt
  <2> QED BY <1>3, <1>5, <2>1, <2>2
<1>6. ASSUME ~\E p \in payments : p.key = checkout[q].key, NEW status \in {Open, "FAILED"},
             NEW p, p = [key |-> checkout[q].key, operator |-> checkout[q].operator,
                         status |-> status],
             payments' = payments \cup {p}, Tell(q, AnswerOf(q, p))
      PROVE  CheckoutIInv'
  <2>1. p \in Payment /\ p.key = checkout[q].key
      BY <1>2, <1>6 DEF Payment, Checkouts, PaymentStatuses
  <2>2. AnswerOf(q, p) \in PaymentStatuses \cup {"REFUSED", "FAULT"}
      BY <2>1, AnswerOfType
  <2>3. PICK c \in Checkouts \cup {NoCheckout} :
           /\ checkout' = [checkout EXCEPT ![q] = c]
           /\ c # NoCheckout => c.key = checkout[q].key
      BY <1>1, <1>2, <1>6, <2>2, TellKeeps
  <2> QED BY <1>2, <1>6, <2>1, <2>3, RequestStep
<1> QED BY <1>4, <1>5, <1>6 DEF Reserve

\* Leaving a request forgets it at most.
LEMMA LeaveForgets ==
    ASSUME CheckoutTypeOK, NEW b \in Visitor, LeaveRequest(b)
    PROVE  /\ checkout' \in [Request -> Checkouts \cup {NoCheckout}]
           /\ \A q \in Request : checkout'[q] \in {checkout[q], NoCheckout}
BY CheckoutTypes DEF LeaveRequest

\* The steps of a tab that neither make a key nor end an attempt.
LEMMA TabSteps ==
    ASSUME CheckoutIInv, NEW b \in Visitor,
           OpenSummary(b) \/ PayLost(b) \/ Poll(b) \/ RetryPayment(b)
    PROVE  CheckoutIInv'
<1>1. /\ CheckoutTypeOK /\ tab \in [Visitor -> TabState] /\ tab[b] \in TabState
      /\ checkout \in [Request -> Checkouts \cup {NoCheckout}]
      /\ payments \subseteq Payment
      /\ ended \in [Visitor -> Nat] /\ ended[b] \in Nat /\ ended[b] >= ended[b]
    BY CheckoutTypes DEF CheckoutIInv
<1>2. UNCHANGED <<price, payments, attempts>> /\ ended' = [ended EXCEPT ![b] = ended[b]]
    BY <1>1 DEF OpenSummary, PayLost, Poll, RetryPayment
<1>3. ASSUME NEW v \in TabState, tab' = [tab EXCEPT ![b] = v], v.key = tab[b].key,
             checkout' \in [Request -> Checkouts \cup {NoCheckout}],
             \A q \in Request : checkout'[q] \in {checkout[q], NoCheckout}
      PROVE  CheckoutIInv'
    BY <1>1, <1>2, <1>3, TabStep
<1>4. CASE OpenSummary(b)
  <2> DEFINE v == [tab[b] EXCEPT
                     !.page = IF tab[b].pending = NoKey THEN "SUMMARY" ELSE "PAYMENT",
                     !.waits = NoRequest, !.follows = tab[b].pending,
                     !.status = IF tab[b].pending = NoKey THEN "NONE" ELSE Open]
  <2>1. v \in TabState /\ v.key = tab[b].key
      BY <1>1 DEF TabState, PaymentStatuses
  <2>2. tab' = [tab EXCEPT ![b] = v] /\ LeaveRequest(b)
      BY <1>1, <1>4 DEF OpenSummary
  <2> HIDE DEF v
  <2> QED BY <1>1, <1>3, <2>1, <2>2, LeaveForgets
<1>5. CASE PayLost(b)
  <2> DEFINE v == [tab[b] EXCEPT !.waits = NoRequest]
  <2>1. v \in TabState /\ v.key = tab[b].key
      BY <1>1 DEF TabState
  <2>2. tab' = [tab EXCEPT ![b] = v] /\ LeaveRequest(b)
    <3>1. tab' = [tab EXCEPT ![b].waits = NoRequest, ![b].key = tab[b].key] /\ LeaveRequest(b)
        BY <1>1, <1>5 DEF PayLost, EndsAttempt
    <3>2. v = [tab[b] EXCEPT !.waits = NoRequest, !.key = tab[b].key]
        BY <1>1 DEF TabState
    <3> QED BY <1>1, <3>1, <3>2
  <2> HIDE DEF v
  <2> QED BY <1>1, <1>3, <2>1, <2>2, LeaveForgets
<1>6. CASE Poll(b)
  <2>1. PICK p \in Followed(b) :
          tab' = [tab EXCEPT ![b].status = p.status, ![b].pending = NoKey,
                    ![b].page = IF p.status = "COMPLETED" THEN "TICKET" ELSE @]
      BY <1>6 DEF Poll
  <2>2. p.status \in PaymentStatuses
      BY <1>1, <2>1 DEF Followed, Payment
  <2> DEFINE v == [tab[b] EXCEPT !.status = p.status, !.pending = NoKey,
                     !.page = IF p.status = "COMPLETED" THEN "TICKET" ELSE @]
  <2>3. v \in TabState /\ v.key = tab[b].key
      BY <1>1, <2>2 DEF TabState, NoKey
  <2>4. tab' = [tab EXCEPT ![b] = v] /\ checkout' = checkout
      BY <1>1, <1>6, <2>1 DEF Poll
  <2> HIDE DEF v
  <2> QED BY <1>1, <1>3, <2>3, <2>4
<1>7. CASE RetryPayment(b)
  <2> DEFINE v == [tab[b] EXCEPT !.page = "SUMMARY", !.pending = NoKey, !.follows = NoKey,
                                 !.status = "NONE"]
  <2>1. v \in TabState /\ v.key = tab[b].key
      BY <1>1 DEF TabState, NoKey
  <2>2. tab' = [tab EXCEPT ![b] = v] /\ checkout' = checkout
      BY <1>1, <1>7 DEF RetryPayment
  <2> HIDE DEF v
  <2> QED BY <1>1, <1>3, <2>1, <2>2
<1> QED BY <1>4, <1>5, <1>6, <1>7

\* An answer ends the attempt, unless it is a fault.
LEMMA PayAnsweredKeeps ==
    ASSUME CheckoutIInv, NEW b \in Visitor, PayAnswered(b) PROVE CheckoutIInv'
<1> DEFINE q == tab[b].waits
           told == checkout[q].told
           ends == EndsAttempt(told)
           follows == told \notin {"REFUSED", "FAULT"}
           v == [tab[b] EXCEPT
                   !.key = IF ends THEN NoKey ELSE @, !.waits = NoRequest,
                   !.page = IF follows THEN "PAYMENT" ELSE @,
                   !.pending = IF follows THEN checkout[q].key[2] ELSE @,
                   !.follows = IF follows THEN checkout[q].key[2] ELSE @,
                   !.status = IF follows THEN told ELSE @]
           n == IF told = "FAULT" THEN ended[b] ELSE ended[b] + 1
<1>1. /\ CheckoutTypeOK /\ tab \in [Visitor -> TabState] /\ tab[b] \in TabState
      /\ checkout \in [Request -> Checkouts \cup {NoCheckout}]
      /\ ended \in [Visitor -> Nat] /\ ended[b] \in Nat
    BY CheckoutTypes DEF CheckoutIInv
<1>2. q \in Request /\ checkout[q] \in Checkouts
  <2>1. q # NoRequest /\ checkout[q].at = "ANSWERED"
      BY DEF PayAnswered
  <2>2. q \in Request
      BY <1>1, <2>1 DEF TabState
  <2> QED BY <1>1, <2>1, <2>2 DEF NoCheckout
<1>3. /\ tab' = [tab EXCEPT ![b] = v] /\ ended' = [ended EXCEPT ![b] = n]
      /\ checkout' = [checkout EXCEPT ![q] = NoCheckout]
      /\ UNCHANGED <<price, payments, attempts>>
  <2>1. checkout' = [checkout EXCEPT ![q] = NoCheckout] /\ UNCHANGED <<price, payments, attempts>>
      BY DEF PayAnswered
  <2>2. tab' = [tab EXCEPT ![b] = v]
      BY <1>1 DEF PayAnswered
  <2>3. ended' = [ended EXCEPT ![b] = n]
      BY <1>1 DEF PayAnswered
  <2> QED BY <2>1, <2>2, <2>3
<1>4. told \in PaymentStatuses \cup {"NONE", "REFUSED", "FAULT"} /\ checkout[q].key[2] \in Nat
    BY <1>2 DEF Checkouts
<1>5. v \in TabState /\ v.key = IF ends THEN NoKey ELSE tab[b].key
    BY <1>1, <1>4 DEF TabState, NoKey
<1>6. n \in Nat /\ n >= ended[b] /\ (ends => n = ended[b] + 1)
    BY <1>1 DEF EndsAttempt
<1>7. /\ checkout' \in [Request -> Checkouts \cup {NoCheckout}]
      /\ \A r \in Request : checkout'[r] \in {checkout[r], NoCheckout}
    BY <1>1, <1>3
<1> HIDE DEF v, n, ends, q
<1> QED BY <1>3, <1>5, <1>6, <1>7, TabStep

\* A click makes a key where there is none, and a request under it.
LEMMA PayKeeps ==
    ASSUME CheckoutIInv, NEW b \in Visitor, NEW q \in Request, Pay(b, q)
    PROVE  CheckoutIInv'
<1> DEFINE fresh == tab[b].key = NoKey
           key == IF fresh THEN attempts[b] + 1 ELSE tab[b].key
           v == [tab[b] EXCEPT !.key = key, !.waits = q]
<1>1. /\ CheckoutTypeOK /\ tab \in [Visitor -> TabState] /\ tab[b] \in TabState
      /\ checkout \in [Request -> Checkouts \cup {NoCheckout}]
      /\ payments \subseteq Payment /\ price \in Price
      /\ attempts \in [Visitor -> Nat] /\ attempts[b] \in Nat
      /\ ended \in [Visitor -> Nat] /\ ended[b] \in Nat
      /\ AttemptsEnded(b)
    BY CheckoutTypes DEF CheckoutIInv
<1>2. PICK o \in Operator :
        checkout' = [checkout EXCEPT ![q] = [at |-> "SENT", key |-> <<b, key>>, operator |-> o,
                                             amount |-> 0, told |-> "NONE"]]
    BY DEF Pay
<1> DEFINE c == [at |-> "SENT", key |-> <<b, key>>, operator |-> o, amount |-> 0, told |-> "NONE"]
<1>3. /\ attempts' = [attempts EXCEPT ![b] = IF fresh THEN @ + 1 ELSE @]
      /\ tab' = [tab EXCEPT ![b] = v]
      /\ UNCHANGED <<price, payments, ended>>
    BY <1>1 DEF Pay
<1>4. /\ attempts'[b] = IF fresh THEN attempts[b] + 1 ELSE attempts[b]
      /\ key \in Nat /\ key # 0 /\ key <= attempts'[b] /\ attempts'[b] \in Nat
      /\ attempts' \in [Visitor -> Nat]
      /\ attempts'[b] <= ended[b] + 1
    BY <1>1, <1>3 DEF AttemptsEnded, TabState, NoKey
<1>5. \A a \in Visitor : attempts[a] <= attempts'[a] /\ (a # b => attempts'[a] = attempts[a])
    BY <1>1, <1>3, <1>4
<1> HIDE DEF key
<1>6. c \in Checkouts /\ c.key = <<b, key>> /\ v \in TabState /\ v.key = key
    BY <1>1, <1>4 DEF Checkouts, TabState
<1> HIDE DEF c, v
<1>7. checkout' = [checkout EXCEPT ![q] = c] /\ tab'[b] = v
      /\ \A a \in Visitor : a # b => tab'[a] = tab[a]
    BY <1>1, <1>2, <1>3 DEF c
<1>8. CheckoutTypeOK'
  <2>1. tab' \in [Visitor -> TabState] /\ checkout' \in [Request -> Checkouts \cup {NoCheckout}]
      BY <1>1, <1>3, <1>6, <1>7
  <2> QED BY <1>1, <1>3, <1>4, <2>1 DEF CheckoutTypeOK, TabState, Checkouts, Payment
<1>9. PaymentsKeyed'
  <2>1. PaymentsKeyed
      BY DEF CheckoutIInv
  <2>2. ASSUME NEW p \in payments PROVE p.key[2] \in 1 .. attempts'[p.key[1]]
    <3>1. p.key[1] \in Visitor /\ p.key[2] \in Nat
        BY <1>1 DEF Payment
    <3>2. p.key[2] \in 1 .. attempts[p.key[1]]
        BY <2>1 DEF PaymentsKeyed
    <3>3. attempts[p.key[1]] \in Nat /\ attempts'[p.key[1]] \in Nat
          /\ attempts[p.key[1]] <= attempts'[p.key[1]]
        BY <1>1, <1>4, <1>5, <3>1
    <3> QED BY <3>1, <3>2, <3>3
  <2> QED BY <1>3, <2>1, <2>2 DEF PaymentsKeyed
<1>10. ASSUME NEW r \in Request PROVE CheckoutKeyed(r)'
  <2>1. CASE r = q
    <3>1. checkout'[r] = c /\ c.key[1] = b /\ c.key[2] = key
        BY <1>1, <1>6, <1>7, <2>1
    <3> QED BY <1>4, <3>1 DEF CheckoutKeyed
  <2>2. CASE r # q /\ checkout[r] # NoCheckout
    <3>1. checkout'[r] = checkout[r] /\ CheckoutKeyed(r) /\ checkout[r] \in Checkouts
        BY <1>1, <1>7, <2>2 DEF CheckoutIInv
    <3>2. checkout[r].key[1] \in Visitor /\ checkout[r].key[2] \in 1 .. attempts[checkout[r].key[1]]
        BY <2>2, <3>1 DEF CheckoutKeyed, Checkouts
    <3>3. /\ attempts[checkout[r].key[1]] \in Nat /\ attempts'[checkout[r].key[1]] \in Nat
          /\ attempts[checkout[r].key[1]] <= attempts'[checkout[r].key[1]]
        BY <1>1, <1>4, <1>5, <3>2
    <3>4. checkout[r].key[2] \in 1 .. attempts'[checkout[r].key[1]]
        BY <3>2, <3>3
    <3> QED BY <3>1, <3>4 DEF CheckoutKeyed
  <2>3. CASE r # q /\ checkout[r] = NoCheckout
      BY <1>1, <1>7, <2>3 DEF CheckoutKeyed
  <2> QED BY <2>1, <2>2, <2>3
<1>11. ASSUME NEW a \in Visitor PROVE AttemptsEnded(a)'
  <2>1. CASE a = b
      BY <1>1, <1>3, <1>4, <1>6, <1>7, <2>1 DEF AttemptsEnded, NoKey
  <2>2. CASE a # b
    <3>1. AttemptsEnded(a) /\ tab'[a] = tab[a] /\ attempts'[a] = attempts[a] /\ ended'[a] = ended[a]
        BY <1>3, <1>5, <1>7, <2>2 DEF CheckoutIInv
    <3> QED BY <3>1 DEF AttemptsEnded
  <2> QED BY <2>1, <2>2
<1> QED BY <1>8, <1>9, <1>10, <1>11 DEF CheckoutIInv

LEMMA CheckoutNextInvariant ==
    CheckoutIInv /\ [CheckoutNext]_checkoutVars => CheckoutIInv'
<1> SUFFICES ASSUME CheckoutIInv, [CheckoutNext]_checkoutVars PROVE CheckoutIInv'
    OBVIOUS
<1>1. CheckoutTypeOK /\ payments \subseteq Payment
    BY CheckoutTypes DEF CheckoutIInv
<1>2. CASE UNCHANGED checkoutVars
    BY <1>2 DEF checkoutVars, buyerVars, CheckoutIInv, CheckoutTypeOK, PaymentsKeyed,
                CheckoutKeyed, AttemptsEnded
<1>3. CASE ChangePrice
    BY <1>3 DEF ChangePrice, buyerVars, CheckoutIInv, CheckoutTypeOK, PaymentsKeyed,
                CheckoutKeyed, AttemptsEnded
<1>4. CASE PaymentEnds
  <2>1. PICK p \in payments, status \in {"COMPLETED", "FAILED", "REVIEW_REQUIRED"} :
          payments' = (payments \ {p}) \cup {[p EXCEPT !.status = status]}
      BY <1>4 DEF PaymentEnds
  <2> DEFINE o == [p EXCEPT !.status = status]
  <2>2. o \in Payment /\ o.key = p.key /\ payments' = (payments \ {p}) \cup {o}
      BY <1>1, <2>1 DEF Payment, PaymentStatuses
  <2> HIDE DEF o
  <2>3. UNCHANGED <<price, tab, attempts, ended, checkout>>
      BY <1>4 DEF PaymentEnds, buyerVars
  <2>4. payments' \subseteq Payment
      BY <1>1, <2>2
  <2>5. PaymentsKeyed'
      BY <2>2, <2>3 DEF CheckoutIInv, PaymentsKeyed
  <2> QED BY <2>3, <2>4, <2>5 DEF CheckoutIInv, CheckoutTypeOK, Payment, CheckoutKeyed,
                                  AttemptsEnded
<1> QED BY <1>2, <1>3, <1>4, ReadOfferKeeps, ReserveKeeps, TabSteps, PayAnsweredKeeps, PayKeeps
        DEF CheckoutNext

\* The inductive invariant of the checkout, its keys and attempts.
THEOREM CheckoutInvariantHolds == CheckoutSpec => []CheckoutIInv
BY CheckoutInitInvariant, CheckoutNextInvariant, PTL DEF CheckoutSpec

\* For any number of buyers, requests, prices and operators, until a tab is answered its
\* clicks are one payment at most (attemptKey, initiate).
THEOREM AttemptsStayOne == CheckoutSpec => []AttemptBuysOnce
<1>1. ASSUME CheckoutIInv, NEW b \in Visitor
      PROVE  Cardinality(PaymentsOf(b)) <= ended[b] + 1
  <2>1. /\ attempts[b] \in Nat /\ ended[b] \in Nat /\ payments \subseteq Payment
        /\ PaymentsKeyed /\ AttemptsEnded(b)
      BY <1>1, CheckoutTypes DEF CheckoutIInv
  <2> DEFINE S == PaymentsOf(b)
             T == 1 .. attempts[b]
             f == [p \in S |-> p.key[2]]
  <2>2. IsFiniteSet(T) /\ Cardinality(T) = attempts[b]
    <3>1. 1 \in Int /\ attempts[b] \in Int /\ attempts[b] >= 0
        BY <2>1
    <3>2. /\ IsFiniteSet(1 .. attempts[b])
          /\ Cardinality(1 .. attempts[b]) = IF 1 > attempts[b] THEN 0 ELSE attempts[b] - 1 + 1
        BY <3>1, FS_Interval
    <3> QED BY <3>1, <3>2
  <2>3. \A p \in S : p.key = <<b, p.key[2]>> /\ p.key[2] \in T
      BY <2>1 DEF PaymentsOf, Payment, PaymentsKeyed
  <2>4. f \in Injection(S, T)
    <3>1. f \in [S -> T]
        BY <2>3
    <3>2. ASSUME NEW p \in S, NEW o \in S, f[p] = f[o] PROVE p = o
      <4>1. p \in payments /\ o \in payments /\ p.key = o.key
          BY <2>3, <3>2 DEF PaymentsOf
      <4> QED BY <2>1, <4>1 DEF PaymentsKeyed
    <3> HIDE DEF f, S, T
    <3> QED BY <3>1, <3>2 DEF Injection, IsInjective
  <2> HIDE DEF f, S, T
  <2>5. IsFiniteSet(S) /\ Cardinality(S) <= Cardinality(T)
      BY <2>2, <2>4, FS_Injection
  <2>6. Cardinality(S) \in Nat
      BY <2>5, FS_CardinalityType
  <2> QED BY <2>1, <2>2, <2>5, <2>6 DEF S, AttemptsEnded
<1>2. CheckoutIInv => AttemptBuysOnce
    BY <1>1 DEF AttemptBuysOnce
<1> QED BY <1>2, CheckoutInvariantHolds, PTL

-----------------------------------------------------------------------------
(* The scan log *)

Scan == [day : Int, badge : Badge, ok : BOOLEAN]
View == [filter : Filters, page : Int, due : BOOLEAN, loading : BOOLEAN, shown : Int, pages : Int]
Load == [filter : Filters, page : Int, total : Int, rows : SUBSET Int, there : SUBSET Int,
         gone : SUBSET Int]
Walk == [pages : Nat, filter : Filters, seen : SUBSET Int, there : SUBSET Int, gone : SUBSET Int]

\* Matching, Rank and Reaches with the log as arguments.
MatchIn(f, L, G) == {i \in DOMAIN L \ G : f.status = "DENIED" => ~L[i].ok}
RankIn(i, f, L, G) == Cardinality({j \in MatchIn(f, L, G) : Before(j, i, f)})
ReachIn(there, seen, f, pages, L, G) ==
    /\ there \subseteq MatchIn(f, L, G)
    /\ \A i \in there : RankIn(i, f, L, G) < pages * PageSize => i \in seen
    /\ \A i \in there \ seen, j \in there \cap seen : ~Before(i, j, f)

\* What LoadReaches says of a request q, its arguments apart.
LoadIn(q, w, L, G) ==
    q.rows # NotRead =>
      /\ q.gone \subseteq G
      /\ q.page = 1 /\ G = q.gone => ReachIn(q.there, q.rows, q.filter, 1, L, G)
      /\ q.page = w.pages + 1 /\ q.filter = w.filter /\ G = w.gone =>
           ReachIn(w.there, w.seen \cup q.rows, w.filter, q.page, L, G)

WalkIn(w, L, G) ==
    /\ w.gone \subseteq G
    /\ G = w.gone => ReachIn(w.there, w.seen, w.filter, w.pages, L, G)

LEMMA HistoryExplicit ==
    HistoryIInv <=>
      /\ logged \in Seq(Scan) /\ day \in Int /\ purged \subseteq DOMAIN logged
      /\ view \in View /\ loads \subseteq Load /\ walk \in Walk
      /\ WalkIn(walk, logged, purged)
      /\ \A q \in loads : LoadIn(q, walk, logged, purged)
BY DEF HistoryIInv, HistoryTypeOK, WalkReaches, LoadReaches, Reaches, Rank, Matching, Kept,
       Scan, View, Load, Walk, MatchIn, RankIn, ReachIn, LoadIn, WalkIn

LEMMA HistoryExplicitNext ==
    HistoryIInv' <=>
      /\ logged' \in Seq(Scan) /\ day' \in Int /\ purged' \subseteq DOMAIN logged'
      /\ view' \in View /\ loads' \subseteq Load /\ walk' \in Walk
      /\ WalkIn(walk', logged', purged')
      /\ \A q \in loads' : LoadIn(q, walk', logged', purged')
BY DEF HistoryIInv, HistoryTypeOK, WalkReaches, LoadReaches, Reaches, Rank, Matching, Kept,
       Scan, View, Load, Walk, MatchIn, RankIn, ReachIn, LoadIn, WalkIn

\* Ranks are numbers and respect the order of the list.
LEMMA RankIsOrder ==
    ASSUME NEW f \in Filters, NEW L \in Seq(Scan), NEW G
    PROVE  /\ MatchIn(f, L, G) \subseteq 1..Len(L)
           /\ \A i : IsFiniteSet({j \in MatchIn(f, L, G) : Before(j, i, f)}) /\ RankIn(i, f, L, G) \in Nat
           /\ \A i, j \in MatchIn(f, L, G) :
                Before(i, j, f) => RankIn(i, f, L, G) < RankIn(j, f, L, G)
<1> DEFINE M == MatchIn(f, L, G)
<1>1. M \subseteq 1..Len(L) /\ Len(L) \in Nat
    BY DEF MatchIn
<1> HIDE DEF M
<1>2. IsFiniteSet(M)
  <2>1. IsFiniteSet(1..Len(L))
      BY <1>1, FS_Interval
  <2> QED BY <1>1, <2>1, FS_Subset
<1>3. ASSUME NEW i PROVE IsFiniteSet({j \in M : Before(j, i, f)})
                          /\ Cardinality({j \in M : Before(j, i, f)}) \in Nat
  <2>1. {j \in M : Before(j, i, f)} \subseteq M
      OBVIOUS
  <2> QED BY <1>2, <2>1, FS_Subset, FS_CardinalityType
<1>4. ASSUME NEW i \in M, NEW j \in M, Before(i, j, f)
      PROVE  Cardinality({k \in M : Before(k, i, f)}) < Cardinality({k \in M : Before(k, j, f)})
  <2> DEFINE A == {k \in M : Before(k, i, f)}
             B == {k \in M : Before(k, j, f)}
  <2>5. i \in Int /\ j \in Int /\ ~Before(i, i, f)
      BY <1>1 DEF Before
  <2>6. ASSUME NEW k \in M, Before(k, i, f) PROVE Before(k, j, f)
    <3>1. k \in Int
        BY <1>1
    <3> QED BY <1>4, <2>5, <2>6, <3>1 DEF Before
  <2>1. A \cup {i} \subseteq B /\ i \notin A
      BY <1>4, <2>5, <2>6
  <2>2. IsFiniteSet(A) /\ Cardinality(A) \in Nat /\ IsFiniteSet(B) /\ Cardinality(B) \in Nat
      BY <1>3
  <2> HIDE DEF A, B
  <2>3. Cardinality(A \cup {i}) = Cardinality(A) + 1 /\ IsFiniteSet(A \cup {i})
      BY <2>1, <2>2, FS_AddElement
  <2>4. Cardinality(A \cup {i}) <= Cardinality(B)
      BY <2>1, <2>2, FS_Subset
  <2>7. Cardinality(A) < Cardinality(B)
      BY <2>2, <2>3, <2>4
  <2> QED BY <2>7 DEF A, B
<1> QED BY <1>1, <1>3, <1>4 DEF RankIn, M

\* A scan that is logged pushes the others back or leaves them where they are.
LEMMA LoggedPushesBack ==
    ASSUME NEW f \in Filters, NEW L \in Seq(Scan), NEW x \in Scan, NEW G
    PROVE  /\ MatchIn(f, L, G) \subseteq MatchIn(f, Append(L, x), G)
           /\ \A i : RankIn(i, f, L, G) <= RankIn(i, f, Append(L, x), G)
<1> DEFINE N == Append(L, x)
<1>1. /\ N \in Seq(Scan) /\ DOMAIN L = 1..Len(L) /\ DOMAIN N = 1..(Len(L) + 1)
      /\ Len(L) \in Nat /\ \A i \in 1..Len(L) : N[i] = L[i]
    OBVIOUS
<1> HIDE DEF N
<1>2. MatchIn(f, L, G) \subseteq MatchIn(f, N, G)
    BY <1>1 DEF MatchIn
<1>3. ASSUME NEW i PROVE RankIn(i, f, L, G) <= RankIn(i, f, N, G)
  <2>1. IsFiniteSet({j \in MatchIn(f, N, G) : Before(j, i, f)})
      BY <1>1, RankIsOrder
  <2>2. {j \in MatchIn(f, L, G) : Before(j, i, f)} \subseteq {j \in MatchIn(f, N, G) : Before(j, i, f)}
      BY <1>2
  <2> QED BY <2>1, <2>2, FS_Subset DEF RankIn
<1> QED BY <1>2, <1>3 DEF N

\* What was reached stays so.
LEMMA ReachKept ==
    ASSUME NEW f \in Filters, NEW L \in Seq(Scan), NEW x \in Scan, NEW G, NEW there, NEW seen,
           NEW pages \in Int, ReachIn(there, seen, f, pages, L, G)
    PROVE  ReachIn(there, seen, f, pages, Append(L, x), G)
<1> DEFINE N == Append(L, x)
           k == pages * PageSize
<1>1. k \in Int
    BY HistoryConstantsOK DEF HistoryConstantsOK
<1>2. MatchIn(f, L, G) \subseteq MatchIn(f, N, G) /\ \A i : RankIn(i, f, L, G) <= RankIn(i, f, N, G)
    BY LoggedPushesBack
<1>3. \A i : RankIn(i, f, L, G) \in Nat
    BY RankIsOrder
<1>4. N \in Seq(Scan)
    OBVIOUS
<1> HIDE DEF N
<1>5. \A i : RankIn(i, f, N, G) \in Nat
    BY <1>4, RankIsOrder
<1>6. \A i \in there : RankIn(i, f, L, G) < k => i \in seen
    BY DEF ReachIn
<1> HIDE DEF k
<1>7. \A i \in there : RankIn(i, f, N, G) < k => i \in seen
    BY <1>1, <1>2, <1>3, <1>5, <1>6
<1>8. there \subseteq MatchIn(f, N, G) /\ \A i \in there \ seen, j \in there \cap seen : ~Before(i, j, f)
    BY <1>2 DEF ReachIn
<1> QED BY <1>7, <1>8 DEF ReachIn, k, N

\* The rows of a page after those that were seen.
LEMMA PageReaches ==
    ASSUME NEW f \in Filters, NEW L \in Seq(Scan), NEW G, NEW there, NEW seen, NEW n \in Int,
           ReachIn(there, seen, f, n - 1, L, G)
    PROVE  ReachIn(there, seen \cup {i \in MatchIn(f, L, G) :
                     RankIn(i, f, L, G) \in (n - 1) * PageSize .. n * PageSize - 1},
                   f, n, L, G)
<1> DEFINE a == (n - 1) * PageSize
           b == n * PageSize
           found == {i \in MatchIn(f, L, G) : RankIn(i, f, L, G) \in a .. b - 1}
<1>1. a \in Int /\ b \in Int
    BY HistoryConstantsOK DEF HistoryConstantsOK
<1>2. /\ there \subseteq MatchIn(f, L, G)
      /\ \A i \in there : RankIn(i, f, L, G) < a => i \in seen
      /\ \A i \in there \ seen, j \in there \cap seen : ~Before(i, j, f)
    BY DEF ReachIn
<1>3. /\ \A i : RankIn(i, f, L, G) \in Nat
      /\ \A i, j \in MatchIn(f, L, G) : Before(i, j, f) => RankIn(i, f, L, G) < RankIn(j, f, L, G)
    BY RankIsOrder
<1> HIDE DEF a, b
<1>4. ASSUME NEW i \in there, RankIn(i, f, L, G) < b PROVE i \in seen \cup found
    BY <1>1, <1>2, <1>3, <1>4
<1>5. ASSUME NEW i \in there \ (seen \cup found), NEW j \in there \cap (seen \cup found)
      PROVE  ~Before(i, j, f)
  <2>1. CASE j \in seen
      BY <1>2, <1>5, <2>1
  <2>2. CASE j \in found
    <3>1. RankIn(j, f, L, G) < b /\ i \in MatchIn(f, L, G) /\ j \in MatchIn(f, L, G)
        BY <1>1, <1>2, <1>3, <2>2
    <3>2. ~(RankIn(i, f, L, G) < b)
        BY <1>4
    <3> QED BY <1>1, <1>3, <3>1, <3>2
  <2> QED BY <2>1, <2>2
<1>6. \A i \in there : RankIn(i, f, L, G) < b => i \in seen \cup found
    BY <1>4
<1>7. \A i \in there \ (seen \cup found), j \in there \cap (seen \cup found) : ~Before(i, j, f)
    BY <1>5
<1> HIDE DEF found
<1>8. ReachIn(there, seen \cup found, f, n, L, G)
    BY <1>2, <1>6, <1>7 DEF ReachIn, b
<1> QED BY <1>8 DEF found, a, b

LEMMA NobodyWalks ==
    ASSUME NEW L, NEW G
    PROVE  /\ NoWalk \in Walk /\ WalkIn(NoWalk, L, G)
           /\ \A q, w : LoadIn(q, w, L, G) => LoadIn(q, NoWalk, L, G)
<1>1. NoWalk \in Walk /\ NoWalk.there = {} /\ NoWalk.gone = {}
    BY DEF NoWalk, Walk, FirstFilter, Filters
<1>2. \A seen, f, pages : ReachIn({}, seen, f, pages, L, G)
    BY DEF ReachIn
<1> QED BY <1>1, <1>2 DEF WalkIn, LoadIn

LEMMA HistoryInitInvariant == HistoryInit => HistoryIInv
<1> SUFFICES ASSUME HistoryInit PROVE HistoryIInv
    OBVIOUS
<1>1. /\ logged = <<>> /\ purged = {} /\ loads = {} /\ walk = NoWalk /\ day = 0
      /\ view = [filter |-> FirstFilter, page |-> 1, due |-> TRUE, loading |-> TRUE,
                 shown |-> 1, pages |-> 1]
    BY DEF HistoryInit
<1>2. view \in View
    BY <1>1 DEF View, Filters, FirstFilter
<1>3. logged \in Seq(Scan)
    BY <1>1
<1> QED BY <1>1, <1>2, <1>3, NobodyWalks, HistoryExplicit

\* The scans, the purge and time.
LEMMA LogKeeps ==
    ASSUME HistoryIInv, LogNext
    PROVE  HistoryIInv'
<1>1. /\ logged \in Seq(Scan) /\ day \in Int /\ purged \subseteq DOMAIN logged
      /\ view \in View /\ loads \subseteq Load /\ walk \in Walk
      /\ WalkIn(walk, logged, purged)
      /\ \A q \in loads : LoadIn(q, walk, logged, purged)
    BY HistoryExplicit
<1>2. UNCHANGED <<view, loads, walk>>
    BY DEF LogNext, Midnight, LogScan, PurgeLog, listVars
<1>3. walk.filter \in Filters /\ walk.pages \in Int
    BY <1>1 DEF Walk
<1>4. \A q \in loads : q.filter \in Filters /\ q.page \in Int
    BY <1>1 DEF Load
<1>5. CASE Midnight
  <2>1. UNCHANGED <<logged, purged>> /\ day' \in Int
      BY <1>1, <1>5 DEF Midnight
  <2> QED BY <1>1, <1>2, <2>1, HistoryExplicitNext
<1>6. CASE LogScan
  <2>1. PICK x \in Scan : logged' = Append(logged, x)
    <3>1. PICK b \in Badge, ok \in BOOLEAN :
            logged' = Append(logged, [day |-> day, badge |-> b, ok |-> ok])
        BY <1>6 DEF LogScan
    <3> DEFINE z == [day |-> day, badge |-> b, ok |-> ok]
    <3>2. z \in Scan
        BY <1>1 DEF Scan
    <3> HIDE DEF z
    <3>3. logged' = Append(logged, z)
        BY <3>1 DEF z
    <3> QED BY <3>2, <3>3
  <2>2. UNCHANGED <<day, purged>>
      BY <1>6 DEF LogScan
  <2>3. logged' \in Seq(Scan) /\ DOMAIN logged \subseteq DOMAIN logged'
      BY <1>1, <2>1
  <2>4. WalkIn(walk, logged', purged)
    <3>1. ReachIn(walk.there, walk.seen, walk.filter, walk.pages, logged, purged) =>
            ReachIn(walk.there, walk.seen, walk.filter, walk.pages, Append(logged, x), purged)
        BY <1>1, <1>3, ReachKept
    <3> QED BY <1>1, <2>1, <3>1 DEF WalkIn
  <2>5. ASSUME NEW q \in loads PROVE LoadIn(q, walk, logged', purged)
    <3>1. q.filter \in Filters /\ q.page \in Int /\ 1 \in Int
        BY <1>4
    <3>2. ReachIn(q.there, q.rows, q.filter, 1, logged, purged) =>
            ReachIn(q.there, q.rows, q.filter, 1, Append(logged, x), purged)
        BY <1>1, <3>1, ReachKept
    <3>3. ReachIn(walk.there, walk.seen \cup q.rows, walk.filter, q.page, logged, purged) =>
            ReachIn(walk.there, walk.seen \cup q.rows, walk.filter, q.page, Append(logged, x), purged)
        BY <1>1, <1>3, <3>1, ReachKept
    <3> QED BY <1>1, <2>1, <3>2, <3>3 DEF LoadIn
  <2> QED BY <1>1, <1>2, <2>2, <2>3, <2>4, <2>5, HistoryExplicitNext
<1>7. CASE PurgeLog
  <2>1. UNCHANGED <<day, logged>>
      BY <1>7 DEF PurgeLog
  <2>2. purged' \subseteq DOMAIN logged /\ purged \subseteq purged' /\ purged' # purged
      BY <1>1, <1>7 DEF PurgeLog, Kept
  <2>3. \A gone : gone \subseteq purged => gone \subseteq purged' /\ purged' # gone
      BY <2>2
  <2>4. WalkIn(walk, logged, purged')
      BY <1>1, <2>3 DEF WalkIn
  <2>5. ASSUME NEW q \in loads PROVE LoadIn(q, walk, logged, purged')
    <3>1. walk.gone \subseteq purged
        BY <1>1 DEF WalkIn
    <3> QED BY <1>1, <2>3, <3>1 DEF LoadIn
  <2> QED BY <1>1, <1>2, <2>1, <2>2, <2>4, <2>5, HistoryExplicitNext
<1> QED BY <1>5, <1>6, <1>7 DEF LogNext

\* A request that is replaced or withdrawn, and the walk that its answer makes.
LEMMA LoadsStep ==
    ASSUME HistoryIInv, UNCHANGED scanLogVars, view' \in View, NEW r \in Load,
           \/ loads' \subseteq loads \cup {r} /\ LoadIn(r, walk, logged, purged) /\ walk' = walk
           \/ loads' \subseteq loads /\ walk' \in {walk, NoWalk}
    PROVE  HistoryIInv'
<1>1. /\ logged \in Seq(Scan) /\ day \in Int /\ purged \subseteq DOMAIN logged
      /\ loads \subseteq Load /\ walk \in Walk
      /\ WalkIn(walk, logged, purged)
      /\ \A p \in loads : LoadIn(p, walk, logged, purged)
    BY HistoryExplicit
<1>2. UNCHANGED <<logged, day, purged>>
    BY DEF scanLogVars
<1>3. NoWalk \in Walk /\ WalkIn(NoWalk, logged, purged)
      /\ \A p \in loads : LoadIn(p, NoWalk, logged, purged)
    BY <1>1, NobodyWalks
<1>4. loads' \subseteq Load /\ walk' \in Walk /\ WalkIn(walk', logged, purged)
    BY <1>1, <1>3
<1>5. ASSUME NEW p \in loads' PROVE LoadIn(p, walk', logged, purged)
    BY <1>1, <1>3, <1>5
<1> QED BY <1>1, <1>2, <1>4, <1>5, HistoryExplicitNext

\* What is asked for, and the count.
LEMMA AskKeeps ==
    ASSUME HistoryIInv,
           \/ ChangeFilter \/ TurnPage \/ LoadList \/ Refresh
           \/ \E q \in loads : ReadCount(q) \/ LoadFails(q)
    PROVE  HistoryIInv'
<1>1. /\ view \in View /\ loads \subseteq Load /\ logged \in Seq(Scan) /\ purged \subseteq DOMAIN logged
      /\ \A p \in loads : LoadIn(p, walk, logged, purged)
    BY HistoryExplicit
<1>2. UNCHANGED scanLogVars
    BY DEF ChangeFilter, TurnPage, LoadList, Refresh, Ask, ReadCount, LoadFails
<1>3. view' \in View
  <2>1. CASE ChangeFilter
    <3>1. PICK f \in Filters : view' = [view EXCEPT !.filter = f, !.page = 1, !.due = TRUE]
        BY <2>1 DEF ChangeFilter
    <3> DEFINE v == [view EXCEPT !.filter = f]
    <3>2. v \in View
        BY <1>1 DEF View
    <3> DEFINE u == [v EXCEPT !.page = 1]
    <3> HIDE DEF v
    <3>3. u \in View
        BY <3>2 DEF View
    <3> HIDE DEF u
    <3>4. [u EXCEPT !.due = TRUE] \in View
        BY <3>3 DEF View
    <3>5. view' = [u EXCEPT !.due = TRUE]
        BY <3>1, <1>1 DEF u, v, View
    <3> QED BY <3>4, <3>5
  <2>2. CASE TurnPage
    <3>1. PICK p \in {1, view.page - 1, view.page + 1, view.pages} :
            view' = [view EXCEPT !.page = p, !.due = TRUE]
        BY <2>2 DEF TurnPage
    <3>2. p \in Int
        BY <1>1, <3>1 DEF View
    <3> QED BY <1>1, <3>1, <3>2 DEF View
  <2>3. CASE LoadList
      BY <1>1, <2>3 DEF LoadList, View
  <2>4. CASE Refresh
      BY <1>1, <2>4 DEF Refresh, View
  <2>5. ASSUME NEW q \in loads, ReadCount(q) \/ LoadFails(q) PROVE view' \in View
      BY <1>1, <2>5 DEF ReadCount, LoadFails, View
  <2> QED BY <2>1, <2>2, <2>3, <2>4, <2>5
<1>4. CASE ChangeFilter \/ TurnPage
  <2>1. UNCHANGED <<loads, walk>>
      BY <1>4 DEF ChangeFilter, TurnPage
  <2>2. HistoryIInv
      OBVIOUS
  <2> QED BY <1>1, <1>2, <1>3, <2>1, HistoryExplicit, HistoryExplicitNext DEF scanLogVars
<1>5. CASE LoadList \/ Refresh
  <2> DEFINE r == [filter |-> view.filter, page |-> view.page, total |-> -1,
                   rows |-> NotRead, there |-> {}, gone |-> {}]
  <2>1. r \in Load /\ LoadIn(r, walk, logged, purged)
      BY <1>1 DEF Load, View, NotRead, LoadIn
  <2>2. loads' = loads \cup {r} /\ walk' = walk
      BY <1>5 DEF LoadList, Refresh, Ask
  <2> HIDE DEF r
  <2> QED BY <1>2, <1>3, <2>1, <2>2, LoadsStep
<1>6. ASSUME NEW q \in loads, ReadCount(q) PROVE HistoryIInv'
  <2> DEFINE r == [q EXCEPT !.total = Cardinality(Matching(q.filter))]
  <2>1. Cardinality(Matching(q.filter)) \in Int
    <3>1. Matching(q.filter) \subseteq 1..Len(logged) /\ Len(logged) \in Nat
        BY <1>1 DEF Matching, Kept
    <3>2. IsFiniteSet(1..Len(logged))
        BY <3>1, FS_Interval
    <3>3. IsFiniteSet(Matching(q.filter))
        BY <3>1, <3>2, FS_Subset
    <3> QED BY <3>3, FS_CardinalityType
  <2>2. q \in Load /\ LoadIn(q, walk, logged, purged)
      BY <1>1
  <2>3. /\ r \in Load /\ r.rows = q.rows /\ r.there = q.there /\ r.gone = q.gone
        /\ r.page = q.page /\ r.filter = q.filter
      BY <2>1, <2>2 DEF Load
  <2>4. loads' = (loads \ {q}) \cup {r} /\ walk' = walk
      BY <1>6 DEF ReadCount
  <2> HIDE DEF r
  <2>5. LoadIn(r, walk, logged, purged)
      BY <2>2, <2>3 DEF LoadIn
  <2> QED BY <1>2, <1>3, <2>3, <2>4, <2>5, LoadsStep
<1>7. ASSUME NEW q \in loads, LoadFails(q) PROVE HistoryIInv'
  <2>1. loads' \subseteq loads /\ walk' = NoWalk /\ q \in Load
      BY <1>1, <1>7 DEF LoadFails
  <2> QED BY <1>2, <1>3, <2>1, LoadsStep
<1> QED BY <1>4, <1>5, <1>6, <1>7

\* The rows are read.
LEMMA ReadRowsKeeps ==
    ASSUME HistoryIInv, NEW q \in loads, ReadRows(q)
    PROVE  HistoryIInv'
<1> DEFINE M == MatchIn(q.filter, logged, purged)
           found == {i \in M : RankIn(i, q.filter, logged, purged) \in
                      (q.page - 1) * PageSize .. q.page * PageSize - 1}
           r == [q EXCEPT !.rows = found, !.there = M, !.gone = purged]
<1>1. /\ view \in View /\ loads \subseteq Load /\ logged \in Seq(Scan) /\ purged \subseteq DOMAIN logged
      /\ WalkIn(walk, logged, purged) /\ walk \in Walk
    BY HistoryExplicit
<1>2. q.filter \in Filters /\ q.page \in Int /\ walk.filter \in Filters /\ walk.pages \in Nat
      /\ q \in Load
    BY <1>1 DEF Load, Walk
<1>3. UNCHANGED <<scanLogVars, view, walk>> /\ loads' = (loads \ {q}) \cup {r}
    BY DEF ReadRows, PageRows, Matching, Rank, Kept, MatchIn, RankIn
<1>4. M \subseteq Int /\ found \subseteq Int /\ purged \subseteq Int
  <2>1. M \subseteq 1..Len(logged)
      BY <1>1, <1>2, RankIsOrder
  <2> QED BY <1>1, <2>1
<1>5. q.page = 1 => ReachIn(M, found, q.filter, 1, logged, purged)
  <2> SUFFICES ASSUME q.page = 1 PROVE ReachIn(M, found, q.filter, 1, logged, purged)
      OBVIOUS
  <2>1. ReachIn(M, {}, q.filter, 1 - 1, logged, purged)
    <3>1. \A i : RankIn(i, q.filter, logged, purged) \in Nat
        BY <1>1, <1>2, RankIsOrder
    <3>2. (1 - 1) * PageSize = 0
        BY HistoryConstantsOK DEF HistoryConstantsOK
    <3> QED BY <3>1, <3>2 DEF ReachIn
  <2>2. 1 \in Int /\ q.filter \in Filters /\ logged \in Seq(Scan)
      BY <1>1, <1>2
  <2>3. ReachIn(M, {} \cup {i \in MatchIn(q.filter, logged, purged) :
                     RankIn(i, q.filter, logged, purged) \in (1 - 1) * PageSize .. 1 * PageSize - 1},
                q.filter, 1, logged, purged)
      BY <2>1, <2>2, PageReaches
  <2>4. {} \cup {i \in MatchIn(q.filter, logged, purged) :
                     RankIn(i, q.filter, logged, purged) \in (1 - 1) * PageSize .. 1 * PageSize - 1}
          = found
      OBVIOUS
  <2> QED BY <2>3, <2>4
<1>6. q.page = walk.pages + 1 /\ q.filter = walk.filter /\ purged = walk.gone =>
        ReachIn(walk.there, walk.seen \cup found, walk.filter, q.page, logged, purged)
  <2> SUFFICES ASSUME q.page = walk.pages + 1, q.filter = walk.filter, purged = walk.gone
               PROVE  ReachIn(walk.there, walk.seen \cup found, q.filter, q.page, logged, purged)
      OBVIOUS
  <2>1. q.page - 1 = walk.pages
      BY <1>2
  <2>2. ReachIn(walk.there, walk.seen, q.filter, q.page - 1, logged, purged)
      BY <1>1, <2>1 DEF WalkIn
  <2> QED BY <1>1, <1>2, <2>2, PageReaches
<1>7. /\ r \in Load /\ r.rows = found /\ r.there = M /\ r.gone = purged
      /\ r.page = q.page /\ r.filter = q.filter
  <2> HIDE DEF M, found
  <2> QED BY <1>2, <1>4 DEF Load
<1> HIDE DEF M, found, r
<1>8. LoadIn(r, walk, logged, purged)
    BY <1>5, <1>6, <1>7 DEF LoadIn
<1>9. view' \in View /\ walk' = walk /\ UNCHANGED scanLogVars
    BY <1>1, <1>3
<1> QED BY <1>3, <1>7, <1>8, <1>9, LoadsStep

\* An answer is shown: it goes on with the walk, begins one, or ends it.
LEMMA ShowListKeeps ==
    ASSUME HistoryIInv, NEW q \in loads, ShowList(q)
    PROVE  HistoryIInv'
<1>1. /\ view \in View /\ loads \subseteq Load /\ logged \in Seq(Scan) /\ purged \subseteq DOMAIN logged
      /\ WalkIn(walk, logged, purged) /\ walk \in Walk /\ LoadIn(q, walk, logged, purged)
      /\ day \in Int
    BY HistoryExplicit
<1>2. UNCHANGED scanLogVars /\ loads' = loads \ {q} /\ walk' = Walked(q) /\ q.rows # NotRead
      /\ view' = [view EXCEPT !.loading = FALSE, !.shown = q.page, !.pages = PagesFor(q.total)]
    BY DEF ShowList
<1>3. q \in Load /\ q.total \in Int /\ q.page \in Int
    BY <1>1 DEF Load
<1>4. view' \in View
  <2>1. PagesFor(q.total) \in Int
      BY <1>3, HistoryConstantsOK DEF PagesFor, HistoryConstantsOK
  <2> QED BY <1>1, <1>2, <1>3, <2>1 DEF View
<1>5. CASE walk' = NoWalk
    BY <1>2, <1>3, <1>4, <1>5, LoadsStep
<1>6. CASE loads = {q} /\ walk' \in Walk /\ WalkIn(walk', logged, purged)
  <2>1. loads' = {}
      BY <1>2, <1>6
  <2>2. UNCHANGED <<logged, purged, day>>
      BY <1>2 DEF scanLogVars
  <2> QED BY <1>1, <1>4, <1>6, <2>1, <2>2, HistoryExplicitNext
<1>7. CASE loads = {q} /\ q.page = 1
  <2> DEFINE w == [pages |-> 1, filter |-> q.filter, seen |-> q.rows, there |-> q.there,
                   gone |-> q.gone]
  <2>1. walk' = w
      BY <1>2, <1>7 DEF Walked
  <2>2. w \in Walk
      BY <1>3 DEF Load, Walk
  <2>3. WalkIn(w, logged, purged)
      BY <1>1, <1>2, <1>7 DEF LoadIn, WalkIn
  <2> HIDE DEF w
  <2> QED BY <1>6, <1>7, <2>1, <2>2, <2>3
<1>8. CASE loads = {q} /\ q.page # 1 /\ q.page = walk.pages + 1 /\ q.filter = walk.filter
  <2> DEFINE w == [walk EXCEPT !.pages = @ + 1, !.seen = @ \cup q.rows]
  <2>1. walk' = w
      BY <1>2, <1>8 DEF Walked
  <2>2. /\ w \in Walk /\ w.pages = q.page /\ w.seen = walk.seen \cup q.rows
        /\ w.there = walk.there /\ w.gone = walk.gone /\ w.filter = walk.filter
    <3>1. q.rows \in SUBSET Int /\ walk.seen \cup q.rows \in SUBSET Int
        BY <1>1, <1>3 DEF Load, Walk
    <3>2. walk.pages + 1 = q.page /\ q.page \in Nat
        BY <1>1, <1>8 DEF Walk
    <3>3. w = [walk EXCEPT !.pages = q.page, !.seen = walk.seen \cup q.rows]
        BY <1>1, <3>2 DEF Walk
    <3> HIDE DEF w
    <3> QED BY <1>1, <3>1, <3>2, <3>3 DEF Walk
  <2> HIDE DEF w
  <2>3. WalkIn(w, logged, purged)
      BY <1>1, <1>2, <1>8, <2>2 DEF LoadIn, WalkIn
  <2> QED BY <1>6, <1>8, <2>1, <2>2, <2>3
<1> QED BY <1>2, <1>5, <1>7, <1>8 DEF Walked

LEMMA HistoryNextInvariant == HistoryIInv /\ [HistoryNext]_historyVars => HistoryIInv'
<1> SUFFICES ASSUME HistoryIInv, [HistoryNext]_historyVars PROVE HistoryIInv'
    OBVIOUS
<1>1. CASE UNCHANGED <<scanLogVars, listVars>>
  <2>1. UNCHANGED <<logged, day, purged, view, loads, walk>>
      BY <1>1 DEF scanLogVars, listVars
  <2> QED BY <2>1, HistoryExplicit, HistoryExplicitNext
<1>2. CASE ChartNext \/ PrintPdf \/ UNCHANGED historyVars
    BY <1>1, <1>2 DEF ChartNext, OpenDashboard, CountDay, PrintPdf, historyVars
<1>3. ASSUME NEW t \in Tab, CsvNext(t) PROVE HistoryIInv'
    BY <1>1, <1>3 DEF CsvNext, BeginReport, ReadReport, WriteReport, SendReport, RemoveFile, ReportFails
<1> QED BY <1>2, <1>3, LogKeeps, AskKeeps, ReadRowsKeeps, ShowListKeeps DEF HistoryNext, ListNext

\* The inductive invariant of the list and its requests.
THEOREM HistoryInvariantHolds == HistorySpec => []HistoryIInv
BY HistoryInitInvariant, HistoryNextInvariant, PTL DEF HistorySpec

\* For any size of the pages and any number of scans and of requests under way, whoever turns the
\* pages one by one skips no scan that was there when the first was read (listForOrg, loadScanLogs).
THEOREM PagesSkipNothing == HistorySpec => []PagesLeaveNoGap
<1>1. HistoryIInv => PagesLeaveNoGap
    BY DEF HistoryIInv, WalkReaches, Reaches, PagesLeaveNoGap
<1> QED BY <1>1, HistoryInvariantHolds, PTL

-----------------------------------------------------------------------------
(* The figures of the dashboard and the reports *)

\* A set of scans has a latest one.
LEMMA LatestScan ==
    ASSUME NEW n \in Nat, NEW S, S \subseteq 1 .. n, S # {}
    PROVE  \E i \in S : \A j \in S : j <= i
<1> DEFINE D == {n - i : i \in S}
<1>1. D \subseteq Nat /\ D # {}
  <2>1. \A i \in S : n - i \in Nat
      OBVIOUS
  <2> QED BY <2>1
<1> DEFINE R == OpToRel(<, Nat)
<1>2. \A e, d \in Nat : <<e, d>> \in R <=> e < d
    BY DEF OpToRel
<1>3. IsWellFoundedOn(R, Nat)
    BY NatLessThanWellFounded
<1>4. PICK d \in D : \A e \in D : ~(<<e, d>> \in R)
  <2> HIDE DEF D, R
  <2> QED BY <1>1, <1>3, WFMin
<1>5. \A e \in D : d <= e
  <2> HIDE DEF D, R
  <2>1. ASSUME NEW e \in D PROVE d <= e
    <3>1. e \in Nat /\ d \in Nat
        BY <1>1
    <3>2. ~(e < d)
        BY <1>2, <1>4, <3>1
    <3> QED BY <3>1, <3>2
  <2> QED BY <2>1
<1>6. PICK i \in S : d = n - i
    OBVIOUS
<1>7. ASSUME NEW j \in S PROVE j <= i
  <2>1. d <= n - j
      BY <1>5
  <2> QED BY <1>6, <2>1
<1> QED BY <1>7

\* The newest scans of a log: the others are older, and if there are others they are n.
After(i, L, G) == {j \in DOMAIN L \ G : j > i}
NewestIn(n, L, G) == {i \in DOMAIN L \ G : Cardinality(After(i, L, G)) < n}

LEMMA AfterCounts ==
    ASSUME NEW L \in Seq(Scan), NEW G
    PROVE  /\ DOMAIN L \ G \subseteq 1 .. Len(L) /\ Len(L) \in Nat /\ IsFiniteSet(DOMAIN L \ G)
           /\ \A i : IsFiniteSet(After(i, L, G)) /\ Cardinality(After(i, L, G)) \in Nat
<1>1. DOMAIN L \ G \subseteq 1 .. Len(L) /\ Len(L) \in Nat
    OBVIOUS
<1>2. IsFiniteSet(DOMAIN L \ G)
    BY <1>1, FS_Interval, FS_Subset
<1>3. \A i : After(i, L, G) \subseteq DOMAIN L \ G
    BY DEF After
<1> QED BY <1>1, <1>2, <1>3, FS_Subset, FS_CardinalityType

LEMMA NewestAreLast ==
    ASSUME NEW L \in Seq(Scan), NEW G, NEW n \in Nat
    PROVE  \A i \in (DOMAIN L \ G) \ NewestIn(n, L, G), j \in NewestIn(n, L, G) : i < j
<1> SUFFICES ASSUME NEW i \in (DOMAIN L \ G) \ NewestIn(n, L, G), NEW j \in NewestIn(n, L, G), ~(i < j)
             PROVE  FALSE
    OBVIOUS
<1>1. i \in Int /\ j \in Int /\ i # j /\ j \in DOMAIN L \ G
    BY AfterCounts DEF NewestIn
<1>2. After(i, L, G) \subseteq After(j, L, G)
    BY <1>1, AfterCounts DEF After
<1>3. Cardinality(After(i, L, G)) <= Cardinality(After(j, L, G))
    BY <1>2, AfterCounts, FS_Subset
<1>4. Cardinality(After(j, L, G)) < n /\ ~(Cardinality(After(i, L, G)) < n)
    BY DEF NewestIn
<1>5. Cardinality(After(i, L, G)) \in Nat /\ Cardinality(After(j, L, G)) \in Nat
    BY AfterCounts
<1> QED BY <1>3, <1>4, <1>5

LEMMA NewestAreMany ==
    ASSUME NEW L \in Seq(Scan), NEW G, NEW n \in Nat, NewestIn(n, L, G) # DOMAIN L \ G
    PROVE  Cardinality(NewestIn(n + 1, L, G)) > n
<1> DEFINE K == DOMAIN L \ G
           T == NewestIn(n + 1, L, G)
<1>1. T \subseteq K /\ IsFiniteSet(T) /\ Cardinality(T) \in Nat
  <2>1. T \subseteq K
      BY DEF NewestIn
  <2> QED BY <2>1, AfterCounts, FS_Subset, FS_CardinalityType
<1> SUFFICES ASSUME Cardinality(T) <= n PROVE FALSE
    BY <1>1
<1>2. T = K
  <2> SUFFICES ASSUME K \ T # {} PROVE FALSE
      BY <1>1
  <2>1. K \ T \subseteq 1 .. Len(L) /\ Len(L) \in Nat
      BY AfterCounts
  <2> HIDE DEF K, T
  <2>2. PICK i \in K \ T : \A j \in K \ T : j <= i
      BY <2>1, LatestScan
  <2>3. After(i, L, G) \subseteq T
    <3>1. \A j \in After(i, L, G) : j \in K /\ j \in Int /\ j > i
        BY AfterCounts DEF After, K
    <3> QED BY <2>1, <2>2, <3>1
  <2>4. Cardinality(After(i, L, G)) <= Cardinality(T)
      BY <1>1, <2>3, FS_Subset
  <2>5. ~(Cardinality(After(i, L, G)) < n + 1)
      BY <2>2 DEF NewestIn, K, T
  <2>6. Cardinality(After(i, L, G)) \in Nat
      BY AfterCounts
  <2> QED BY <1>1, <2>4, <2>5, <2>6
<1> HIDE DEF T
<1>3. ASSUME NEW i \in K PROVE Cardinality(After(i, L, G)) < n
  <2> DEFINE A == After(i, L, G)
  <2>1. A \cup {i} \subseteq K /\ i \notin A
      BY AfterCounts DEF After
  <2>2. IsFiniteSet(A) /\ Cardinality(A) \in Nat /\ IsFiniteSet(K)
      BY AfterCounts
  <2> HIDE DEF A, K
  <2>3. Cardinality(A \cup {i}) = Cardinality(A) + 1
      BY <2>1, <2>2, FS_AddElement
  <2>4. Cardinality(A \cup {i}) <= Cardinality(K)
      BY <2>1, <2>2, FS_Subset
  <2>5. Cardinality(A) < n
      BY <1>1, <1>2, <2>2, <2>3, <2>4
  <2> QED BY <2>5 DEF A
<1> QED BY <1>3 DEF NewestIn

LEMMA PdfInvariant ==
    ASSUME LogDated, PrintPdf
    PROVE  PdfTellsItsLimit'
<1>1. logged \in Seq(Scan) /\ PdfMaxRows \in Nat
    BY HistoryConstantsOK DEF LogDated, Scan, HistoryConstantsOK
<1>2. \A n : NewestScans(n) = NewestIn(n, logged, purged)
    BY DEF NewestScans, NewestIn, After, Kept
<1>3. /\ pdf'.rows = NewestIn(PdfMaxRows, logged, purged)
      /\ pdf'.notice <=> Cardinality(NewestIn(PdfMaxRows + 1, logged, purged)) > PdfMaxRows
      /\ pdf'.log = DOMAIN logged \ purged
    BY <1>2 DEF PrintPdf, Taken, Kept
<1>4. pdf'.rows # pdf'.log => pdf'.notice
    BY <1>1, <1>3, NewestAreMany
<1>5. \A i \in pdf'.log \ pdf'.rows, j \in pdf'.rows : i < j
    BY <1>1, <1>3, NewestAreLast
<1> QED BY <1>4, <1>5 DEF PdfTellsItsLimit

-----------------------------------------------------------------------------
\* LogDated, ChartDated with the log as arguments.
DatedIn(L, G, d) ==
    /\ L \in Seq(Scan) /\ d \in Int /\ G \subseteq DOMAIN L
    /\ \A i \in DOMAIN L : L[i].day <= d

CountedIn(c, L, G, d) ==
    /\ c \in [next : Int, counted : Seq(SUBSET DOMAIN L), there : SUBSET DOMAIN L, today : Int]
    /\ c.today <= d
    /\ \A n \in DOMAIN c.counted : \A i \in c.counted[n] : L[i].day < d - c.next
    /\ \A n, m \in DOMAIN c.counted : \A i \in c.counted[n], j \in c.counted[m] :
         n < m => L[i].day < L[j].day
    /\ c.today = d =>
         \A i \in c.there \ G :
           c.today - Days < L[i].day /\ L[i].day < c.today - c.next =>
             \E n \in DOMAIN c.counted : i \in c.counted[n]

LEMMA DatedExplicit ==
    /\ LogDated <=> DatedIn(logged, purged, day)
    /\ ChartDated <=> CountedIn(chart, logged, purged, day)
<1>1. LogDated <=> DatedIn(logged, purged, day)
    BY DEF LogDated, DatedIn, Scan
<1>2. ChartDated <=> CountedIn(chart, logged, purged, day)
    BY DEF ChartDated, CountedIn
<1> QED BY <1>1, <1>2

LEMMA DatedExplicitNext ==
    /\ LogDated' <=> DatedIn(logged', purged', day')
    /\ ChartDated' <=> CountedIn(chart', logged', purged', day')
<1>1. LogDated' <=> DatedIn(logged', purged', day')
    BY DEF LogDated, DatedIn, Scan
<1>2. ChartDated' <=> CountedIn(chart', logged', purged', day')
    BY DEF ChartDated, CountedIn
<1> QED BY <1>1, <1>2

\* A log that grows, is purged, or sees midnight: what was counted stays dated.
LEMMA LogGrows ==
    ASSUME NEW L, NEW G, NEW d, DatedIn(L, G, d), NEW M, NEW H, NEW e, DatedIn(M, H, e),
           DOMAIN L \subseteq DOMAIN M, \A i \in DOMAIN L : M[i] = L[i],
           G \subseteq H, d <= e
    PROVE  \A c : CountedIn(c, L, G, d) => CountedIn(c, M, H, e)
<1> SUFFICES ASSUME NEW c, CountedIn(c, L, G, d) PROVE CountedIn(c, M, H, e)
    OBVIOUS
<1>1. d \in Int /\ e \in Int /\ \A i \in DOMAIN L : L[i].day \in Int /\ M[i].day = L[i].day
  <2>1. \A i \in DOMAIN L : L[i] \in Scan
      BY DEF DatedIn
  <2> QED BY <2>1 DEF DatedIn, Scan
<1>2. c.counted \in Seq(SUBSET DOMAIN L) /\ c.next \in Int /\ c.today \in Int /\ c.today <= d
      /\ c.there \subseteq DOMAIN L
    BY DEF CountedIn
<1>3. \A n \in DOMAIN c.counted : c.counted[n] \subseteq DOMAIN L
    BY <1>2
<1>4. c.counted \in Seq(SUBSET DOMAIN M)
    BY <1>2
<1>5. \A n \in DOMAIN c.counted : \A i \in c.counted[n] : M[i].day < e - c.next
  <2> SUFFICES ASSUME NEW n \in DOMAIN c.counted, NEW i \in c.counted[n] PROVE M[i].day < e - c.next
      OBVIOUS
  <2>1. L[i].day < d - c.next /\ i \in DOMAIN L
      BY <1>3 DEF CountedIn
  <2> QED BY <1>1, <1>2, <2>1
<1>6. \A n, m \in DOMAIN c.counted : \A i \in c.counted[n], j \in c.counted[m] :
        n < m => M[i].day < M[j].day
    BY <1>1, <1>3 DEF CountedIn
<1>7. c.today = e =>
        \A i \in c.there \ H :
          c.today - Days < M[i].day /\ M[i].day < c.today - c.next =>
            \E n \in DOMAIN c.counted : i \in c.counted[n]
  <2> SUFFICES ASSUME c.today = e, NEW i \in c.there \ H,
                      c.today - Days < M[i].day, M[i].day < c.today - c.next
               PROVE  \E n \in DOMAIN c.counted : i \in c.counted[n]
      OBVIOUS
  <2>1. c.today = d
      BY <1>1, <1>2
  <2>2. i \in c.there \ G /\ M[i].day = L[i].day
      BY <1>1, <1>2
  <2> QED BY <2>1, <2>2 DEF CountedIn
<1>8. c \in [next : Int, counted : Seq(SUBSET DOMAIN M), there : SUBSET DOMAIN M, today : Int] /\ c.today <= e
  <2>1. c.there \in SUBSET DOMAIN M /\ c.today <= e
      BY <1>1, <1>2
  <2> QED BY <1>2, <1>4, <2>1 DEF CountedIn
<1> QED BY <1>2, <1>4, <1>5, <1>6, <1>7, <1>8 DEF CountedIn

\* Opened, the dashboard has counted nothing; a day that is counted is later than those before.
LEMMA ChartKeeps ==
    ASSUME LogDated, ChartDated, ChartNext
    PROVE  LogDated' /\ ChartDated'
<1>1. DatedIn(logged, purged, day) /\ CountedIn(chart, logged, purged, day) /\ UNCHANGED <<logged, purged, day>>
    BY DatedExplicit DEF ChartNext, OpenDashboard, CountDay, scanLogVars
<1>2. day \in Int /\ Days \in Nat /\ \A i \in DOMAIN logged : logged[i].day \in Int
  <2>1. \A i \in DOMAIN logged : logged[i] \in Scan
      BY <1>1 DEF DatedIn
  <2> QED BY <1>1, <2>1, HistoryConstantsOK DEF DatedIn, Scan, HistoryConstantsOK
<1>3. CASE OpenDashboard
  <2>1. /\ chart'.counted = <<>> /\ chart'.next = Days - 1 /\ chart'.there = Kept
        /\ chart'.today = day
      BY <1>3 DEF OpenDashboard
  <2>2. \A i \in DOMAIN logged : ~(day - Days < logged[i].day /\ logged[i].day < day - (Days - 1))
      BY <1>2
  <2>3. CountedIn(chart', logged, purged, day)
    <3>1. chart' \in [next : Int, counted : Seq(SUBSET DOMAIN logged), there : SUBSET DOMAIN logged, today : Int]
        BY <1>2, <1>3 DEF OpenDashboard, Kept
    <3> QED BY <1>2, <2>1, <2>2, <3>1 DEF CountedIn, Kept
  <2> QED BY <1>1, <2>3, DatedExplicitNext
<1>4. CASE CountDay
  <2> DEFINE n == chart.next
             counted == chart.counted
             new == {i \in DOMAIN logged \ purged : logged[i].day = day - n}
  <2>1. /\ n \in Int /\ counted \in Seq(SUBSET DOMAIN logged) /\ new \in SUBSET DOMAIN logged
        /\ chart.today \in Int /\ chart.there \subseteq DOMAIN logged /\ chart.today <= day
        /\ chart \in [next : Int, counted : Seq(SUBSET DOMAIN logged), there : SUBSET DOMAIN logged, today : Int]
      BY <1>1 DEF CountedIn
  <2>2. chart' = [chart EXCEPT !.next = n - 1, !.counted = Append(counted, new)]
    <3>1. chart' = [chart EXCEPT !.next = chart.next - 1,
                      !.counted = Append(chart.counted, {i \in Kept : InDay(i, day - chart.next)})]
        BY <1>4, <2>1 DEF CountDay
    <3> QED BY <3>1 DEF InDay, Kept
  <2>3. /\ chart'.next = n - 1 /\ chart'.counted = Append(counted, new)
        /\ chart'.there = chart.there /\ chart'.today = chart.today
      BY <2>1, <2>2
  <2>4. /\ DOMAIN chart'.counted = DOMAIN counted \cup {Len(counted) + 1}
        /\ \A m \in DOMAIN counted : m < Len(counted) + 1 /\ chart'.counted[m] = counted[m]
        /\ chart'.counted[Len(counted) + 1] = new
        /\ Len(counted) \in Nat /\ \A m \in DOMAIN counted : m \in Nat /\ counted[m] \subseteq DOMAIN logged
    <3> HIDE DEF new, n
    <3> QED BY <2>1, <2>3
  <2>5. chart' \in [next : Int, counted : Seq(SUBSET DOMAIN logged), there : SUBSET DOMAIN logged, today : Int]
    <3> DEFINE c == Append(counted, new)
    <3> HIDE DEF new, counted, n
    <3>1. c \in Seq(SUBSET DOMAIN logged) /\ n - 1 \in Int /\ chart' = [chart EXCEPT !.next = n - 1, !.counted = c]
        BY <2>1, <2>2
    <3> HIDE DEF c
    <3> QED BY <2>1, <3>1
  <2>6. /\ \A m \in DOMAIN counted : \A i \in counted[m] : logged[i].day < day - n
        /\ \A k, m \in DOMAIN counted : \A i \in counted[k], j \in counted[m] :
             k < m => logged[i].day < logged[j].day
        /\ chart.today = day =>
             \A i \in chart.there \ purged :
               chart.today - Days < logged[i].day /\ logged[i].day < chart.today - n =>
                 \E m \in DOMAIN counted : i \in counted[m]
      BY <1>1 DEF CountedIn
  <2>7. \A i \in new : logged[i].day = day - n /\ i \in DOMAIN logged
      OBVIOUS
  <2>8. \A i \in chart.there \ purged : logged[i].day = day - n => i \in new
      BY <2>1
  <2> HIDE DEF new, n, counted
  <2>9. ASSUME NEW m \in DOMAIN chart'.counted, NEW i \in chart'.counted[m]
        PROVE  logged[i].day < day - (n - 1)
    <3>1. CASE m \in DOMAIN counted
      <4>1. logged[i].day < day - n /\ i \in DOMAIN logged
          BY <2>4, <2>6, <2>9, <3>1
      <4> QED BY <1>2, <2>1, <4>1
    <3>2. CASE m = Len(counted) + 1
        BY <1>2, <2>1, <2>4, <2>7, <2>9, <3>2
    <3> QED BY <2>4, <3>1, <3>2
  <2>10. ASSUME NEW k \in DOMAIN chart'.counted, NEW m \in DOMAIN chart'.counted,
                NEW i \in chart'.counted[k], NEW j \in chart'.counted[m], k < m
         PROVE  logged[i].day < logged[j].day
    <3>1. k \in DOMAIN counted
        BY <2>4, <2>10
    <3>2. CASE m \in DOMAIN counted
        BY <2>4, <2>6, <2>10, <3>1, <3>2
    <3>3. CASE m = Len(counted) + 1
        BY <2>4, <2>6, <2>7, <2>10, <3>1, <3>3
    <3> QED BY <2>4, <3>2, <3>3
  <2>11. ASSUME chart.today = day, NEW i \in chart.there \ purged,
                chart.today - Days < logged[i].day, logged[i].day < chart.today - (n - 1)
         PROVE  \E m \in DOMAIN chart'.counted : i \in chart'.counted[m]
    <3>1. logged[i].day \in Int
        BY <1>2, <2>1
    <3>2. CASE logged[i].day = day - n
        BY <2>4, <2>8, <3>2
    <3>3. CASE logged[i].day < day - n
      <4>1. PICK m \in DOMAIN counted : i \in counted[m]
          BY <2>6, <2>11, <3>3
      <4> QED BY <2>4, <4>1
    <3>4. n \in Int /\ day \in Int
        BY <1>2, <2>1
    <3>5. logged[i].day < day - (n - 1)
        BY <2>11
    <3>6. logged[i].day = day - n \/ logged[i].day < day - n
      <4> HIDE DEF n
      <4> QED BY <3>1, <3>4, <3>5
    <3> QED BY <3>2, <3>3, <3>6
  <2>12. CountedIn(chart', logged, purged, day)
      BY <2>1, <2>3, <2>5, <2>9, <2>10, <2>11 DEF CountedIn
  <2> QED BY <1>1, <2>12, DatedExplicitNext
<1> QED BY <1>3, <1>4 DEF ChartNext

\* Scans and the purge keep what a report was written of.
LEMMA WholeKept ==
    ASSUME LogDated, NEW r, NEW body, Whole(r, body), purged \subseteq purged',
           DOMAIN logged \subseteq DOMAIN logged', \A i \in DOMAIN logged : logged'[i] = logged[i]
    PROVE  Whole(r, body)'
BY DEF Whole

LEMMA LogStep ==
    ASSUME LogDated, LogNext
    PROVE  /\ LogDated' /\ day <= day' /\ purged \subseteq purged'
           /\ DOMAIN logged \subseteq DOMAIN logged' /\ \A i \in DOMAIN logged : logged'[i] = logged[i]
           /\ UNCHANGED <<chart, stamp, begun, file, report, pdf>>
<1>1. DatedIn(logged, purged, day)
    BY DatedExplicit
<1>2. UNCHANGED <<chart, stamp, begun, file, report, pdf>>
    BY DEF LogNext, Midnight, LogScan, PurgeLog, reportVars
<1>3. \A i \in DOMAIN logged : logged[i].day \in Int
  <2>1. \A i \in DOMAIN logged : logged[i] \in Scan
      BY <1>1 DEF DatedIn
  <2> QED BY <2>1 DEF Scan
<1>4. CASE Midnight
  <2>1. UNCHANGED <<logged, purged>> /\ day' = day + 1
      BY <1>4 DEF Midnight
  <2>2. DatedIn(logged, purged, day + 1)
      BY <1>1, <1>3 DEF DatedIn
  <2> QED BY <1>1, <1>2, <2>1, <2>2, DatedExplicitNext DEF DatedIn
<1>5. CASE LogScan
  <2>1. PICK b \in Badge, ok \in BOOLEAN :
          logged' = Append(logged, [day |-> day, badge |-> b, ok |-> ok])
      BY <1>5 DEF LogScan
  <2> DEFINE x == [day |-> day, badge |-> b, ok |-> ok]
  <2>2. x \in Scan /\ x.day = day
      BY <1>1 DEF Scan, DatedIn
  <2>3. UNCHANGED <<day, purged>> /\ logged' = Append(logged, x)
      BY <1>5, <2>1 DEF LogScan
  <2> HIDE DEF x
  <2>4. /\ logged' \in Seq(Scan) /\ DOMAIN logged' = DOMAIN logged \cup {Len(logged) + 1}
        /\ logged'[Len(logged) + 1] = x /\ \A i \in DOMAIN logged : logged'[i] = logged[i]
      BY <1>1, <2>2, <2>3 DEF DatedIn
  <2>5. DatedIn(logged', purged, day)
      BY <1>1, <2>2, <2>4 DEF DatedIn
  <2> QED BY <1>1, <1>2, <2>3, <2>4, <2>5, DatedExplicitNext DEF DatedIn
<1>6. CASE PurgeLog
  <2>1. UNCHANGED <<logged, day>> /\ purged' \subseteq DOMAIN logged /\ purged \subseteq purged'
      BY <1>1, <1>6 DEF PurgeLog, DatedIn, Kept
  <2>2. DatedIn(logged, purged', day)
      BY <1>1, <2>1 DEF DatedIn
  <2> QED BY <1>1, <1>2, <2>1, <2>2, DatedExplicitNext DEF DatedIn
<1> QED BY <1>4, <1>5, <1>6 DEF LogNext

LEMMA LogKeepsFigures ==
    ASSUME FiguresIInv, LogNext
    PROVE  FiguresIInv'
<1>1. LogDated /\ ChartDated /\ ReportsKept /\ PdfTellsItsLimit
    BY DEF FiguresIInv
<1>2. /\ LogDated' /\ day <= day' /\ purged \subseteq purged'
      /\ DOMAIN logged \subseteq DOMAIN logged' /\ \A i \in DOMAIN logged : logged'[i] = logged[i]
      /\ UNCHANGED <<chart, stamp, begun, file, report, pdf>>
    BY <1>1, LogStep
<1>3. ChartDated'
  <2>1. DatedIn(logged, purged, day) /\ DatedIn(logged', purged', day')
      BY <1>1, <1>2, DatedExplicit, DatedExplicitNext
  <2>2. CountedIn(chart, logged, purged, day)
      BY <1>1, DatedExplicit
  <2>3. CountedIn(chart, logged', purged', day')
      BY <1>2, <2>1, <2>2, LogGrows
  <2> QED BY <1>2, <2>3, DatedExplicitNext
<1>4. \A r, body : Whole(r, body) => Whole(r, body)'
    BY <1>1, <1>2, WholeKept
<1>5. ASSUME NEW t \in Tab PROVE ReportKept(t)'
  <2>1. ReportKept(t)
      BY <1>1 DEF ReportsKept
  <2> QED BY <1>2, <1>4, <2>1 DEF ReportKept, WholeFile
<1>6. ReportsTypeOK' /\ AloneInMs'
    BY <1>1, <1>2 DEF ReportsKept, ReportsTypeOK, AloneInMs
<1>7. PdfTellsItsLimit'
    BY <1>1, <1>2 DEF PdfTellsItsLimit
<1> QED BY <1>2, <1>3, <1>5, <1>6, <1>7 DEF FiguresIInv, ReportsKept

\* The body that are read.
LEMMA RowsAreWhole ==
    ASSUME LogDated, NEW r, r.asked \subseteq DOMAIN logged,
           NEW body, body = IF r.ofEvent THEN EventLines ELSE LinesOf(Kept)
    PROVE  body \in SUBSET Line /\ Whole(r, body)
<1>1. /\ Kept \subseteq 1 .. Len(logged) /\ Len(logged) \in Nat /\ DOMAIN logged = 1 .. Len(logged)
      /\ \A i \in DOMAIN logged : logged[i].badge \in Badge
  <2>1. logged \in Seq(Scan)
      BY DEF LogDated, Scan
  <2>2. DOMAIN logged = 1 .. Len(logged) /\ Len(logged) \in Nat /\ \A i \in DOMAIN logged : logged[i] \in Scan
      BY <2>1
  <2> QED BY <2>2 DEF Scan, Kept
<1>2. NoBadge \notin Badge
    BY HistoryConstantsOK DEF HistoryConstantsOK
<1>3. ASSUME NEW l \in LinesOf(Kept)
      PROVE  l \in Line /\ l # Header /\ l.scan \in Kept /\ l.badge = logged[l.scan].badge
  <2>1. PICK i \in Kept : l = [badge |-> logged[i].badge, scan |-> i]
      BY DEF LinesOf
  <2>2. i \in Nat /\ logged[i].badge \in Badge
      BY <1>1
  <2> QED BY <1>2, <2>1, <2>2 DEF Line, Header
<1>4. ASSUME NEW i \in Kept PROVE \E l \in LinesOf(Kept) : l.scan = i /\ l.badge = logged[i].badge
  <2>1. [badge |-> logged[i].badge, scan |-> i] \in LinesOf(Kept)
      BY DEF LinesOf
  <2> QED BY <2>1
<1>5. r.asked \ purged \subseteq Kept
    BY DEF Kept
<1>6. CASE ~r.ofEvent
    BY <1>1, <1>3, <1>4, <1>5, <1>6 DEF Whole, Kept
<1>7. CASE r.ofEvent
  <2>1. body = UNION {BadgeLines(b) : b \in Badge}
      BY <1>7 DEF EventLines
  <2>2. ASSUME NEW b \in Badge
        PROVE  \/ /\ BadgeLines(b) = {[badge |-> b, scan |-> 0]}
                  /\ ~\E i \in Kept : logged[i].badge = b
               \/ /\ BadgeLines(b) = LinesOf({i \in Kept : logged[i].badge = b})
                  /\ \E i \in Kept : logged[i].badge = b
      BY DEF BadgeLines
  <2>3. ASSUME NEW b \in Badge, NEW l \in LinesOf({i \in Kept : logged[i].badge = b})
        PROVE  l \in LinesOf(Kept) /\ l.badge = b
      BY DEF LinesOf
  <2>4. ASSUME NEW l \in body
        PROVE  l \in Line /\ l # Header
               /\ (l.scan # 0 => l.scan \in DOMAIN logged /\ l.badge = logged[l.scan].badge)
    <3>1. PICK b \in Badge : l \in BadgeLines(b)
        BY <2>1
    <3>2. CASE l = [badge |-> b, scan |-> 0]
        BY <1>2, <3>2 DEF Line, Header
    <3>3. CASE l \in LinesOf(Kept)
        BY <1>1, <1>3, <3>3 DEF Kept
    <3>4. CASE BadgeLines(b) = {[badge |-> b, scan |-> 0]}
        BY <3>1, <3>2, <3>4
    <3>5. CASE BadgeLines(b) = LinesOf({i \in Kept : logged[i].badge = b})
        BY <2>3, <3>1, <3>3, <3>5
    <3> QED BY <2>2, <3>4, <3>5
  <2>5. ASSUME NEW i \in Kept PROVE \E l \in body : l.scan = i
    <3> DEFINE b == logged[i].badge
    <3>1. b \in Badge
        BY <1>1 DEF Kept
    <3>2. BadgeLines(b) = LinesOf({j \in Kept : logged[j].badge = b})
        BY <2>2, <3>1
    <3>3. [badge |-> b, scan |-> i] \in BadgeLines(b)
        BY <3>2 DEF LinesOf
    <3> QED BY <2>1, <3>1, <3>3
  <2>6. ASSUME NEW b \in Badge PROVE \E l \in body : l.badge = b
    <3>1. CASE BadgeLines(b) = {[badge |-> b, scan |-> 0]}
      <4>1. [badge |-> b, scan |-> 0] \in body
          BY <2>1, <3>1
      <4> QED BY <4>1
    <3>2. CASE BadgeLines(b) = LinesOf({i \in Kept : logged[i].badge = b}) /\ \E i \in Kept : logged[i].badge = b
      <4>1. PICK i \in Kept : logged[i].badge = b
          BY <3>2
      <4>2. [badge |-> b, scan |-> i] \in BadgeLines(b)
          BY <3>2, <4>1 DEF LinesOf
      <4>3. [badge |-> b, scan |-> i] \in body
          BY <2>1, <4>2
      <4> QED BY <4>3
    <3> QED BY <2>2, <3>1, <3>2
  <2>7. body \in SUBSET Line /\ Header \notin body
      BY <2>4
  <2> QED BY <1>5, <2>4, <2>5, <2>6, <2>7 DEF Whole
<1> QED BY <1>6, <1>7

\* The report of another tab stays as it is, if it is no longer alone or its file is not touched.
LEMMA OtherReportKept ==
    ASSUME NEW u \in Tab, ReportKept(u), report'[u] = report[u], UNCHANGED scanLogVars,
           report[u].at # "NONE" =>
             \/ begun'[report[u].ms] = 2
             \/ begun'[report[u].ms] = begun[report[u].ms] /\ file'[report[u].ms] = file[report[u].ms]
    PROVE  ReportKept(u)'
<1>1. \A r, body : Whole(r, body)' = Whole(r, body)
    BY DEF Whole, scanLogVars
<1> QED BY <1>1 DEF ReportKept, WholeFile

LEMMA CsvOthers ==
    ASSUME ReportsTypeOK, AloneInMs, NEW t \in Tab, UNCHANGED <<scanLogVars, begun>>,
           \A u \in Tab : ReportKept(u), \A u \in Tab \ {t} : report'[u] = report[u],
           report[t].at # "NONE",
           \A s \in 1 .. MaxStamps : s # report[t].ms => file'[s] = file[s],
           report'[t].at # "NONE" => report'[t].ms = report[t].ms,
           ReportsTypeOK', ReportKept(t)'
    PROVE  ReportsKept'
<1>1. ASSUME NEW u \in Tab PROVE ReportKept(u)'
  <2>1. CASE u # t /\ report[u].at # "NONE"
    <3>1. report[u].ms \in 1 .. MaxStamps
        BY <2>1 DEF ReportsTypeOK, ReportKept
    <3>2. begun[report[u].ms] = 2 \/ file'[report[u].ms] = file[report[u].ms]
        BY <2>1, <3>1 DEF AloneInMs
    <3> QED BY <2>1, <3>2, OtherReportKept
  <2>2. CASE u # t /\ report[u].at = "NONE"
      BY <2>2 DEF ReportKept
  <2> QED BY <2>1, <2>2
<1>2. AloneInMs'
  <2> SUFFICES ASSUME NEW u \in Tab, NEW v \in Tab, u # v, report'[u].at # "NONE", report'[v].at # "NONE",
                      report'[u].ms = report'[v].ms
               PROVE  begun'[report'[u].ms] = 2
      BY DEF AloneInMs
  <2>1. /\ report[u].at # "NONE" /\ report[v].at # "NONE"
        /\ report'[u].ms = report[u].ms /\ report'[v].ms = report[v].ms
      OBVIOUS
  <2> QED BY <2>1 DEF AloneInMs
<1> QED BY <1>1, <1>2 DEF ReportsKept

Reports == [at : {"NONE", "BEGUN", "READ", "WRITTEN", "SENT", "DONE"}, ofEvent : BOOLEAN,
            ms : 0 .. MaxStamps, lines : Seq(SUBSET Line), asked : SUBSET DOMAIN logged]
Put(r, at, lines) == [r EXCEPT !.at = at, !.lines = lines]

LEMMA ReportTyped ==
    ASSUME ReportsTypeOK, NEW t \in Tab
    PROVE  /\ report[t].at \in {"NONE", "BEGUN", "READ", "WRITTEN", "SENT", "DONE"}
           /\ report[t].ofEvent \in BOOLEAN /\ report[t].ms \in 0 .. MaxStamps
           /\ report[t].lines \in Seq(SUBSET Line) /\ report[t].asked \subseteq DOMAIN logged
           /\ report[t] \in Reports
BY DEF ReportsTypeOK, Reports

LEMMA BeginKeeps ==
    ASSUME LogDated, ReportsKept, NEW t \in Tab, BeginReport(t)
    PROVE  ReportsKept'
<1>1. PICK ms \in {stamp, stamp + 1} \cap 1 .. MaxStamps, ofEvent \in BOOLEAN :
         /\ stamp' = ms
         /\ begun' = [begun EXCEPT ![ms] = IF begun[ms] = 0 THEN 1 ELSE 2]
         /\ file' = [file EXCEPT ![ms] = <<{Header}>>]
         /\ report' = [report EXCEPT ![t] =
              [at |-> "BEGUN", ofEvent |-> ofEvent, ms |-> ms, lines |-> <<>>, asked |-> Kept]]
    BY DEF BeginReport, FileOf
<1>2. UNCHANGED scanLogVars
    BY DEF BeginReport
<1>3. ReportsTypeOK /\ AloneInMs /\ \A u \in Tab : ReportKept(u)
    BY DEF ReportsKept
<1> DEFINE x == [at |-> "BEGUN", ofEvent |-> ofEvent, ms |-> ms, lines |-> <<>>, asked |-> Kept]
<1>4. /\ report'[t] = x /\ \A u \in Tab \ {t} : report'[u] = report[u]
      /\ begun'[ms] = (IF begun[ms] = 0 THEN 1 ELSE 2)
      /\ \A s \in 1 .. MaxStamps \ {ms} : begun'[s] = begun[s] /\ file'[s] = file[s]
      /\ file'[ms] = <<{Header}>> /\ ms \in 1 .. MaxStamps
    BY <1>1, <1>3 DEF ReportsTypeOK
<1>5. ReportsTypeOK'
  <2>1. {Header} \in SUBSET Line
      BY DEF Header, Line
  <2>2. <<{Header}>> \in Seq(SUBSET Line) /\ ms \in 0 .. MaxStamps
      BY <1>1, <2>1
  <2>3. file' \in [1 .. MaxStamps -> Seq(SUBSET Line)]
      BY <1>1, <1>3, <2>2 DEF ReportsTypeOK
  <2>4. begun' \in [1 .. MaxStamps -> 0 .. 2]
      BY <1>1, <1>3 DEF ReportsTypeOK
  <2>5. x \in Reports
    <3>1. <<>> \in Seq(SUBSET Line) /\ Kept \subseteq DOMAIN logged
        BY DEF Kept
    <3> QED BY <2>2, <3>1 DEF Reports
  <2> HIDE DEF x
  <2> QED BY <1>1, <1>2, <1>3, <2>2, <2>3, <2>4, <2>5 DEF ReportsTypeOK, scanLogVars, x, Reports
<1>6. ReportKept(t)'
  <2>1. ms # 0 /\ begun'[ms] # 0
      BY <1>1, <1>4
  <2> QED BY <1>4, <2>1 DEF ReportKept
<1>7. ASSUME NEW u \in Tab \ {t}, report[u].at # "NONE"
      PROVE  /\ report[u].ms \in 1 .. MaxStamps /\ begun[report[u].ms] # 0
             /\ report[u].ms = ms => begun'[ms] = 2
  <2>1. report[u].ms \in 1 .. MaxStamps /\ begun[report[u].ms] # 0
      BY <1>3, <1>7 DEF ReportsTypeOK, ReportKept
  <2> QED BY <1>4, <2>1
<1>8. ASSUME NEW u \in Tab \ {t} PROVE ReportKept(u)'
  <2>1. report[u].at # "NONE" =>
             \/ begun'[report[u].ms] = 2
             \/ begun'[report[u].ms] = begun[report[u].ms] /\ file'[report[u].ms] = file[report[u].ms]
      BY <1>4, <1>7
  <2> QED BY <1>2, <1>3, <1>4, <2>1, OtherReportKept
<1>9. AloneInMs'
  <2> SUFFICES ASSUME NEW u \in Tab, NEW v \in Tab, u # v, report'[u].at # "NONE", report'[v].at # "NONE",
                      report'[u].ms = report'[v].ms
               PROVE  begun'[report'[u].ms] = 2
      BY DEF AloneInMs
  <2>1. CASE u = t
    <3>1. report[v].at # "NONE" /\ report[v].ms = ms /\ report'[u].ms = ms
        BY <1>4, <2>1
    <3> QED BY <1>7, <2>1, <3>1
  <2>2. CASE v = t
    <3>1. report[u].at # "NONE" /\ report[u].ms = ms /\ report'[u].ms = ms
        BY <1>4, <2>2
    <3> QED BY <1>7, <2>2, <3>1
  <2>3. CASE u # t /\ v # t
    <3>1. report'[u] = report[u] /\ report'[v] = report[v] /\ begun[report[u].ms] = 2
        BY <1>3, <1>4, <2>3 DEF AloneInMs
    <3>2. report[u].ms \in 1 .. MaxStamps /\ (report[u].ms = ms => begun'[ms] = 2)
        BY <1>7, <2>3, <3>1
    <3> QED BY <1>4, <3>1, <3>2
  <2> QED BY <2>1, <2>2, <2>3
<1> QED BY <1>5, <1>6, <1>8, <1>9 DEF ReportsKept

\* The record of a report with another stage and other lines.
LEMMA PutIs ==
    ASSUME NEW r \in Reports, NEW at \in {"READ", "WRITTEN", "SENT", "DONE"}, NEW lines \in Seq(SUBSET Line)
    PROVE  /\ Put(r, at, lines) \in Reports
           /\ Put(r, at, lines).at = at /\ Put(r, at, lines).lines = lines
           /\ Put(r, at, lines).ms = r.ms /\ Put(r, at, lines).asked = r.asked
           /\ Put(r, at, lines).ofEvent = r.ofEvent
BY DEF Put, Reports

\* A step of a report under way: what holds of its own record, its file and the others.
LEMMA CsvStep ==
    ASSUME LogDated, ReportsKept, NEW t \in Tab, UNCHANGED <<scanLogVars, stamp, begun>>, report[t].at # "NONE",
           file' \in [1 .. MaxStamps -> Seq(SUBSET Line)],
           \A s \in 1 .. MaxStamps : s # report[t].ms => file'[s] = file[s],
           NEW at \in {"READ", "WRITTEN", "SENT", "DONE"}, NEW lines \in Seq(SUBSET Line),
           report' = [report EXCEPT ![t] = Put(report[t], at, lines)],
           at = "READ" => Len(lines) = 1 /\ Whole(report[t], lines[1]),
           begun[report[t].ms] = 1 =>
             /\ at = "READ" => file'[report[t].ms] = <<{Header}>>
             /\ at = "WRITTEN" => WholeFile(report[t], file'[report[t].ms])
             /\ at \in {"SENT", "DONE"} => WholeFile(report[t], lines)
    PROVE  ReportsKept'
<1>1. ReportsTypeOK /\ AloneInMs /\ \A u \in Tab : ReportKept(u)
    BY DEF ReportsKept
<1>2. PICK x : x = Put(report[t], at, lines)
    OBVIOUS
<1>3. /\ report' = [report EXCEPT ![t] = x] /\ x \in Reports
      /\ x.at = at /\ x.lines = lines /\ x.ms = report[t].ms /\ x.asked = report[t].asked
      /\ x.ofEvent = report[t].ofEvent
    BY <1>1, <1>2, ReportTyped, PutIs
<1>4. report'[t] = x /\ \A u \in Tab \ {t} : report'[u] = report[u]
    BY <1>1, <1>3 DEF ReportsTypeOK
<1>5. ReportsTypeOK'
    BY <1>1, <1>3 DEF ReportsTypeOK, scanLogVars, Reports
<1>6. \A body : Whole(report[t], body) => Whole(x, body)'
    BY <1>3 DEF Whole, scanLogVars
<1>7. \A parts : WholeFile(report[t], parts) => WholeFile(x, parts)'
    BY <1>6 DEF WholeFile
<1>8. x.ms # 0 /\ begun'[x.ms] # 0
    BY <1>1, <1>3 DEF ReportKept
<1>9. ReportKept(t)'
  <2>1. at = "READ" => Len(x.lines) = 1 /\ Whole(x, x.lines[1])'
      BY <1>3, <1>6
  <2>2. begun'[x.ms] = 1 =>
             /\ at = "READ" => file'[x.ms] = <<{Header}>>
             /\ at = "WRITTEN" => WholeFile(x, file[x.ms])'
             /\ at \in {"SENT", "DONE"} => WholeFile(x, x.lines)'
      BY <1>3, <1>7
  <2>3. at \in {"READ", "WRITTEN", "SENT", "DONE"} /\ at # "BEGUN" /\ x.at = at
      BY <1>3
  <2> QED BY <1>4, <1>8, <2>1, <2>2, <2>3 DEF ReportKept
<1> QED BY <1>1, <1>3, <1>4, <1>5, <1>9, CsvOthers

LEMMA ReadReportKeeps ==
    ASSUME LogDated, ReportsKept, NEW t \in Tab, ReadReport(t)
    PROVE  ReportsKept'
<1>1. PICK body : body = IF report[t].ofEvent THEN EventLines ELSE LinesOf(Kept)
    OBVIOUS
<1>2. /\ report[t].at = "BEGUN" /\ UNCHANGED <<scanLogVars, stamp, begun, file>>
      /\ report' = [report EXCEPT ![t] = Put(report[t], "READ", <<body>>)]
    BY <1>1 DEF ReadReport, Put
<1>3. ReportsTypeOK /\ ReportKept(t)
    BY DEF ReportsKept
<1>4. body \in SUBSET Line /\ Whole(report[t], body)
    BY <1>1, <1>3, ReportTyped, RowsAreWhole
<1>5. <<body>> \in Seq(SUBSET Line) /\ Len(<<body>>) = 1 /\ <<body>>[1] = body
    BY <1>4
<1>6. begun[report[t].ms] = 1 => file[report[t].ms] = <<{Header}>>
    BY <1>2, <1>3 DEF ReportKept
<1>7. file' \in [1 .. MaxStamps -> Seq(SUBSET Line)]
    BY <1>2, <1>3 DEF ReportsTypeOK
<1> QED BY <1>2, <1>4, <1>5, <1>6, <1>7, CsvStep

LEMMA PartsOfTwo ==
    ASSUME NEW S, NEW h \in Seq(S), NEW l \in Seq(S), Len(h) = 1, Len(l) = 1
    PROVE  Len(h \o l) = 2 /\ (h \o l)[1] = h[1] /\ (h \o l)[2] = l[1]
<1>1. Len(h \o l) = Len(h) + Len(l)
    BY ConcatProperties
<1>2. \A i \in 1 .. Len(h) + Len(l) : (h \o l)[i] = IF i <= Len(h) THEN h[i] ELSE l[i - Len(h)]
    BY ConcatProperties
<1>3. 1 \in 1 .. Len(h) + Len(l) /\ 2 \in 1 .. Len(h) + Len(l)
    OBVIOUS
<1> QED BY <1>1, <1>2, <1>3

LEMMA WriteReportKeeps ==
    ASSUME LogDated, ReportsKept, NEW t \in Tab, WriteReport(t)
    PROVE  ReportsKept'
<1> DEFINE ms == report[t].ms
           lines == report[t].lines
<1>1. ReportsTypeOK /\ ReportKept(t)
    BY DEF ReportsKept
<1>2. /\ report[t].at = "READ" /\ UNCHANGED <<scanLogVars, stamp, begun>>
      /\ file' = [file EXCEPT ![ms] = file[ms] \o lines]
      /\ report' = [report EXCEPT ![t] = [report[t] EXCEPT !.at = "WRITTEN"]]
    BY DEF WriteReport, FileOf
<1>3. lines \in Seq(SUBSET Line) /\ ms \in 1 .. MaxStamps /\ file[ms] \in Seq(SUBSET Line)
      /\ report[t] \in Reports
    BY <1>1, <1>2, ReportTyped DEF ReportsTypeOK, ReportKept
<1>4. report' = [report EXCEPT ![t] = Put(report[t], "WRITTEN", lines)]
  <2>1. [report[t] EXCEPT !.at = "WRITTEN"] = Put(report[t], "WRITTEN", lines)
      BY <1>3 DEF Put, Reports
  <2> QED BY <1>2, <2>1
<1>5. Len(lines) = 1 /\ Whole(report[t], lines[1])
    BY <1>1, <1>2 DEF ReportKept
<1>6. file' \in [1 .. MaxStamps -> Seq(SUBSET Line)] /\ file'[ms] = file[ms] \o lines
      /\ \A s \in 1 .. MaxStamps : s # ms => file'[s] = file[s]
  <2>1. file[ms] \o lines \in Seq(SUBSET Line)
      BY <1>3
  <2> HIDE DEF ms, lines
  <2> QED BY <1>1, <1>2, <1>3, <2>1 DEF ReportsTypeOK
<1>7. begun[ms] = 1 => WholeFile(report[t], file'[ms])
  <2> SUFFICES ASSUME begun[ms] = 1 PROVE WholeFile(report[t], file'[ms])
      OBVIOUS
  <2>1. file[ms] = <<{Header}>>
      BY <1>1, <1>2 DEF ReportKept
  <2>2. Len(<<{Header}>> \o lines) = 2 /\ (<<{Header}>> \o lines)[1] = {Header}
        /\ (<<{Header}>> \o lines)[2] = lines[1]
    <3>1. PICK h : h = <<{Header}>>
        OBVIOUS
    <3>2. h \in Seq(SUBSET Line) /\ Len(h) = 1 /\ h[1] = {Header}
      <4>1. {Header} \in SUBSET Line
          BY DEF Header, Line
      <4> QED BY <3>1, <4>1
    <3> HIDE DEF lines
    <3>3. Len(h \o lines) = 2 /\ (h \o lines)[1] = h[1] /\ (h \o lines)[2] = lines[1]
        BY <1>3, <1>5, <3>2, PartsOfTwo
    <3> QED BY <3>1, <3>2, <3>3
  <2> HIDE DEF ms, lines
  <2> QED BY <1>5, <1>6, <2>1, <2>2 DEF WholeFile
<1>8. report[t].at # "NONE"
    BY <1>2
<1> HIDE DEF lines
<1>9. "WRITTEN" \in {"READ", "WRITTEN", "SENT", "DONE"}
    OBVIOUS
<1> QED BY <1>2, <1>3, <1>4, <1>6, <1>7, <1>8, <1>9, CsvStep

LEMMA SendReportKeeps ==
    ASSUME LogDated, ReportsKept, NEW t \in Tab, SendReport(t)
    PROVE  ReportsKept'
<1> DEFINE sent == file[report[t].ms]
<1>1. ReportsTypeOK /\ ReportKept(t)
    BY DEF ReportsKept
<1>2. /\ report[t].at = "WRITTEN" /\ UNCHANGED <<scanLogVars, stamp, begun, file>>
      /\ report' = [report EXCEPT ![t] = Put(report[t], "SENT", sent)]
    BY DEF SendReport, FileOf, Put
<1>3. sent \in Seq(SUBSET Line) /\ file' \in [1 .. MaxStamps -> Seq(SUBSET Line)]
    BY <1>1, <1>2, ReportTyped DEF ReportsTypeOK, ReportKept
<1>4. begun[report[t].ms] = 1 => WholeFile(report[t], sent)
    BY <1>1, <1>2 DEF ReportKept
<1> HIDE DEF sent
<1>5. "SENT" \in {"READ", "WRITTEN", "SENT", "DONE"}
    OBVIOUS
<1> QED BY <1>2, <1>3, <1>4, <1>5, CsvStep

LEMMA RemoveFileKeeps ==
    ASSUME LogDated, ReportsKept, NEW t \in Tab, RemoveFile(t)
    PROVE  ReportsKept'
<1> DEFINE ms == report[t].ms
           lines == report[t].lines
<1>1. ReportsTypeOK /\ ReportKept(t)
    BY DEF ReportsKept
<1>2. /\ report[t].at = "SENT" /\ UNCHANGED <<scanLogVars, stamp, begun>>
      /\ file' = [file EXCEPT ![ms] = NoFile]
      /\ report' = [report EXCEPT ![t] = [report[t] EXCEPT !.at = "DONE"]]
    BY DEF RemoveFile, FileOf
<1>3. lines \in Seq(SUBSET Line) /\ report[t] \in Reports
    BY <1>1, ReportTyped
<1>4. report' = [report EXCEPT ![t] = Put(report[t], "DONE", lines)]
  <2>1. [report[t] EXCEPT !.at = "DONE"] = Put(report[t], "DONE", lines)
      BY <1>3 DEF Put, Reports
  <2> QED BY <1>2, <2>1
<1>5. begun[ms] = 1 => WholeFile(report[t], lines)
    BY <1>1, <1>2 DEF ReportKept
<1>6. file' \in [1 .. MaxStamps -> Seq(SUBSET Line)] /\ \A s \in 1 .. MaxStamps : s # ms => file'[s] = file[s]
  <2>1. NoFile \in Seq(SUBSET Line)
      BY DEF NoFile
  <2> HIDE DEF ms
  <2> QED BY <1>1, <1>2, <2>1 DEF ReportsTypeOK
<1> HIDE DEF lines
<1>7. "DONE" \in {"READ", "WRITTEN", "SENT", "DONE"}
    OBVIOUS
<1> QED BY <1>2, <1>3, <1>4, <1>5, <1>6, <1>7, CsvStep

LEMMA ReportFailsKeeps ==
    ASSUME LogDated, ReportsKept, NEW t \in Tab, ReportFails(t)
    PROVE  ReportsKept'
<1>1. ReportsTypeOK /\ AloneInMs /\ \A u \in Tab : ReportKept(u)
    BY DEF ReportsKept
<1>2. /\ report[t].at # "NONE" /\ UNCHANGED <<scanLogVars, stamp, begun, file>>
      /\ report' = [report EXCEPT ![t] = NoReport]
    BY DEF ReportFails
<1>3. NoReport \in Reports /\ NoReport.at = "NONE"
    BY HistoryConstantsOK DEF NoReport, Reports, HistoryConstantsOK
<1> HIDE DEF NoReport
<1>4. report'[t].at = "NONE" /\ \A u \in Tab \ {t} : report'[u] = report[u]
    BY <1>1, <1>2, <1>3 DEF ReportsTypeOK
<1>5. ReportsTypeOK'
    BY <1>1, <1>2, <1>3 DEF ReportsTypeOK, Reports, scanLogVars
<1>6. ReportKept(t)'
    BY <1>4 DEF ReportKept
<1> QED BY <1>1, <1>2, <1>4, <1>5, <1>6, CsvOthers

LEMMA ReportsRest ==
    ASSUME ReportsKept, UNCHANGED <<scanLogVars, stamp, begun, file, report>>
    PROVE  ReportsKept'
<1>1. \A r, body : Whole(r, body)' = Whole(r, body)
    BY DEF Whole, scanLogVars
<1>2. \A t \in Tab : ReportKept(t)' = ReportKept(t)
    BY <1>1 DEF ReportKept, WholeFile
<1>3. ReportsTypeOK' = ReportsTypeOK /\ AloneInMs' = AloneInMs
    BY DEF ReportsTypeOK, AloneInMs, scanLogVars
<1> QED BY <1>2, <1>3 DEF ReportsKept

LEMMA DatedRest ==
    ASSUME LogDated, ChartDated, UNCHANGED <<scanLogVars, chart>>
    PROVE  LogDated' /\ ChartDated'
<1>1. UNCHANGED <<logged, purged, day, chart>>
    BY DEF scanLogVars
<1> QED BY <1>1, DatedExplicit, DatedExplicitNext

LEMMA FiguresInitInvariant == HistoryInit => FiguresIInv
<1> SUFFICES ASSUME HistoryInit PROVE FiguresIInv
    OBVIOUS
<1>1. /\ day = 0 /\ logged = <<>> /\ purged = {} /\ chart = NoChart /\ stamp = 0
      /\ begun = [s \in 1 .. MaxStamps |-> 0] /\ file = [s \in 1 .. MaxStamps |-> NoFile]
      /\ report = [t \in Tab |-> NoReport] /\ pdf = NoPdf
    BY DEF HistoryInit
<1>2. Days \in Nat /\ MaxStamps \in Nat
    BY HistoryConstantsOK DEF HistoryConstantsOK
<1>3. LogDated
    BY <1>1 DEF LogDated
<1>4. ChartDated
  <2>1. chart = [next |-> Days, counted |-> <<>>, there |-> {}, today |-> 0]
      BY <1>1 DEF NoChart
  <2>2. CountedIn(chart, logged, purged, day)
      BY <1>1, <1>2, <2>1 DEF CountedIn
  <2> QED BY <2>2, DatedExplicit
<1>5. ReportsTypeOK
  <2>1. NoReport \in Reports /\ NoFile \in Seq(SUBSET Line)
      BY <1>2 DEF NoReport, Reports, NoFile
  <2> QED BY <1>1, <1>2, <2>1 DEF ReportsTypeOK, Reports
<1>6. \A t \in Tab : report[t].at = "NONE"
    BY <1>1 DEF NoReport
<1>7. PdfTellsItsLimit
    BY <1>1 DEF PdfTellsItsLimit, NoPdf
<1> QED BY <1>3, <1>4, <1>5, <1>6, <1>7 DEF FiguresIInv, ReportsKept, ReportKept, AloneInMs

LEMMA FiguresNextInvariant == FiguresIInv /\ [HistoryNext]_historyVars => FiguresIInv'
<1> SUFFICES ASSUME FiguresIInv, [HistoryNext]_historyVars PROVE FiguresIInv'
    OBVIOUS
<1>1. LogDated /\ ChartDated /\ ReportsKept /\ PdfTellsItsLimit
    BY DEF FiguresIInv
<1>2. UNCHANGED pdf => PdfTellsItsLimit'
    BY <1>1 DEF PdfTellsItsLimit
<1>3. CASE LogNext
    BY <1>3, LogKeepsFigures
<1>4. CASE ChartNext
  <2>1. UNCHANGED <<scanLogVars, stamp, begun, file, report, pdf>>
      BY <1>4 DEF ChartNext, OpenDashboard, CountDay, reportVars
  <2> QED BY <1>1, <1>2, <1>4, <2>1, ChartKeeps, ReportsRest DEF FiguresIInv
<1>5. CASE PrintPdf
  <2>1. UNCHANGED <<scanLogVars, chart, stamp, begun, file, report>>
      BY <1>5 DEF PrintPdf
  <2> QED BY <1>1, <1>5, <2>1, DatedRest, ReportsRest, PdfInvariant DEF FiguresIInv
<1>6. ASSUME NEW t \in Tab, CsvNext(t) PROVE FiguresIInv'
  <2>1. UNCHANGED <<scanLogVars, chart, pdf>>
      BY <1>6 DEF CsvNext, BeginReport, ReadReport, WriteReport, SendReport, RemoveFile, ReportFails
  <2>2. ReportsKept'
      BY <1>1, <1>6, BeginKeeps, ReadReportKeeps, WriteReportKeeps, SendReportKeeps, RemoveFileKeeps,
         ReportFailsKeeps DEF CsvNext
  <2> QED BY <1>1, <1>2, <2>1, <2>2, DatedRest DEF FiguresIInv
<1>7. CASE ListNext \/ UNCHANGED historyVars
  <2>1. UNCHANGED <<scanLogVars, chart, stamp, begun, file, report, pdf>>
      BY <1>7 DEF ListNext, ChangeFilter, TurnPage, LoadList, Refresh, Ask, ReadCount, ReadRows, ShowList,
         LoadFails, reportVars, historyVars
  <2> QED BY <1>1, <1>2, <2>1, DatedRest, ReportsRest DEF FiguresIInv
<1> QED BY <1>3, <1>4, <1>5, <1>6, <1>7 DEF HistoryNext

\* For any log, any days counted and any number of tabs that report at a time: the curve of the last
\* days counts no scan twice and, if midnight does not pass, each; a CSV report that is alone in its
\* millisecond has its header and every scan once; a PDF report says that it leaves scans out
\* (getOverviewStats, exportScansCSV, exportScansPDF).
THEOREM FiguresAlwaysHold == HistorySpec => []FiguresHold
<1>1. FiguresIInv => FiguresHold
  <2> SUFFICES ASSUME FiguresIInv PROVE FiguresHold
      OBVIOUS
  <2>1. LogDated /\ ChartDated /\ ReportsKept /\ PdfTellsItsLimit
      BY DEF FiguresIInv
  <2>2. DatedIn(logged, purged, day) /\ CountedIn(chart, logged, purged, day)
      BY <2>1, DatedExplicit
  <2>3. day \in Int /\ \A i \in DOMAIN logged : logged[i].day \in Int /\ logged[i].day <= day
    <3>1. \A i \in DOMAIN logged : logged[i] \in Scan
        BY <2>2 DEF DatedIn
    <3> QED BY <2>2, <3>1 DEF DatedIn, Scan
  <2>4. /\ DOMAIN chart.counted \subseteq Int /\ chart.next \in Int /\ chart.today \in Int
        /\ chart.there \subseteq DOMAIN logged
        /\ \A d \in DOMAIN chart.counted : chart.counted[d] \subseteq DOMAIN logged
    <3>1. chart.counted \in Seq(SUBSET DOMAIN logged) /\ chart.next \in Int /\ chart.today \in Int
          /\ chart.there \subseteq DOMAIN logged
        BY <2>2 DEF CountedIn
    <3> QED BY <3>1
  <2>5. ASSUME NEW d \in DOMAIN chart.counted, NEW e \in DOMAIN chart.counted, d # e,
               NEW i \in chart.counted[d] \cap chart.counted[e]
        PROVE  FALSE
    <3>1. (d < e \/ e < d) /\ logged[i].day \in Int
        BY <2>3, <2>4, <2>5
    <3>2. ~(logged[i].day < logged[i].day)
        BY <3>1
    <3> QED BY <2>2, <3>1, <3>2 DEF CountedIn
  <2>6. ASSUME chart.next = -1, chart.today = day, NEW i \in chart.there \ purged,
               logged[i].day > chart.today - Days
        PROVE  i \in UNION {chart.counted[d] : d \in DOMAIN chart.counted}
    <3>1. chart.today - Days < logged[i].day /\ logged[i].day < chart.today - chart.next
        BY <2>3, <2>4, <2>6, HistoryConstantsOK DEF HistoryConstantsOK
    <3> QED BY <2>2, <2>6, <3>1 DEF CountedIn
  <2>7. DaysCountOnce
      BY <2>5, <2>6 DEF DaysCountOnce
  <2>8. ReportIsWhole
      BY <2>1 DEF ReportsKept, ReportKept, ReportIsWhole
  <2> QED BY <2>1, <2>7, <2>8 DEF FiguresHold
<1> QED BY <1>1, FiguresInitInvariant, FiguresNextInvariant, PTL DEF HistorySpec

=============================================================================
