-------------------------------- MODULE Badges --------------------------------
(***************************************************************************)
(* The badges that are printed of the QR codes: api.qr.controller.js,      *)
(* pass_issuance.service.js, registration_card.service.js and              *)
(* card_template.service.js. A QR code keeps the card it was drawn with, a *)
(* copy (card_template_snapshot) of a built-in template or of one of the   *)
(* organization's own, which is modified in place, archived and deleted    *)
(* afterwards. Members of the staff and the holder print it, one badge or  *)
(* those of a whole event; the plan may stop carrying templates of one's   *)
(* own meanwhile.                                                          *)
(*                                                                         *)
(* A card is the template it was made from and the revision of its         *)
(* content: all that is drawn follows from it and from the QR code. The    *)
(* images it shows are in CardTemplates.                                   *)
(***************************************************************************)
EXTENDS Naturals, FiniteSets

CONSTANTS
    Badge,          \* QR codes
    Design,         \* the organization's own templates
    BuiltIn,        \* a built-in template
    NoCopy,         \* no template, no copy
    Staff,          \* requests of the dashboard and of registrations
    NoErrand,
    MaxRevisions,   \* bound on the revisions of a template
    MaxDrawings     \* bound on the times a badge is drawn

Own == [of : Design, revision : Nat]
PlainCard == [of |-> BuiltIn, revision |-> 0]
DesignCards == Own \cup {PlainCard}

\* A row of qr_codes, with the number of times its card was written.
Rows == [badge : Badge, template : Design \cup {BuiltIn, NoCopy},
         card : DesignCards \cup {NoCopy}, drawing : Nat]

\* A drawing asked for: whether the plan, read first, carries own templates, and
\* the card that was resolved. A print: the rows that were read.
Errands ==
    [op : {"ISSUE", "REDRAW"}, badge : Badge, allowed : BOOLEAN, card : DesignCards \cup {NoCopy}]
    \cup [op : {"PRINT"}, rows : SUBSET Rows]

ASSUME BadgeConstantsOK ==
    /\ BuiltIn \notin Design /\ NoCopy \notin Design \cup {BuiltIn} \cup DesignCards
    /\ NoErrand \notin Errands
    /\ MaxRevisions \in Nat /\ MaxDrawings \in Nat

VARIABLES
    design,     \* each template: its status and its revision
    capable,    \* the plan carries custom_card_templates
    row,        \* each QR code; drawing 0: not issued
    errand,     \* what each request has read
    printed,    \* history: the badges printed, each with the card it shows
    public      \* history: the contents that were published

designVars == <<design, capable, public>>
badgeVars == <<designVars, row, errand, printed>>

BlankRow(b) == [badge |-> b, template |-> NoCopy, card |-> NoCopy, drawing |-> 0]

BadgesInit ==
    /\ design = [d \in Design |-> [status |-> "DRAFT", revision |-> 1]]
    /\ capable = TRUE /\ public = {}
    /\ row = [b \in Badge |-> BlankRow(b)]
    /\ errand = [s \in Staff |-> NoErrand]
    /\ printed = {}

-----------------------------------------------------------------------------
(* Templates and the plan.                                                 *)

Content(d) == [of |-> d, revision |-> design[d].revision]

SetDesign(d, s, r) ==
    /\ design' = [design EXCEPT ![d] = [status |-> s, revision |-> r]]
    /\ public' = IF s = "PUBLISHED" THEN public \cup {[of |-> d, revision |-> r]} ELSE public
    /\ UNCHANGED <<capable, row, errand, printed>>

\* In place, whatever the status.
ModifyDesign(d) ==
    /\ design[d].status # "DELETED" /\ design[d].revision < MaxRevisions
    /\ SetDesign(d, design[d].status, design[d].revision + 1)

PublishDesign(d) ==
    /\ design[d].status \in {"DRAFT", "ARCHIVED"}
    /\ SetDesign(d, "PUBLISHED", design[d].revision)

ArchiveDesign(d) ==
    /\ design[d].status = "PUBLISHED"
    /\ SetDesign(d, "ARCHIVED", design[d].revision)

RemoveDesign(d) ==
    /\ design[d].status # "DELETED"
    /\ SetDesign(d, "DELETED", design[d].revision)

\* An upgrade, a downgrade, a subscription that runs out.
CapabilityChanges ==
    /\ capable' = ~capable
    /\ UNCHANGED <<design, public, row, errand, printed>>

-----------------------------------------------------------------------------
(* Cards.                                                                  *)

Send(s, e) == errand' = [errand EXCEPT ![s] = e]

\* resolveCustomForRender: a template of one's own, as it is, if it is published.
Resolvable(d) == design[d].status = "PUBLISHED"

\* Mutant of Stored: the card is looked up again by the template's identifier.
StoredById(r) ==
    IF r.template \in Design /\ Resolvable(r.template) THEN Content(r.template)
    ELSE IF r.template \in Design THEN NoCopy
    ELSE PlainCard

\* resolveStoredCardTemplate: the copy; without one, what the template is now, and
\* without a template a built-in one. NoCopy: CARD_TEMPLATE_NOT_FOUND.
Stored(r) ==
    IF r.card # NoCopy THEN r.card
    ELSE IF r.template \in Design
      THEN IF Resolvable(r.template) THEN Content(r.template) ELSE NoCopy
    ELSE PlainCard

OwnCard(c) == c # NoCopy /\ c.of \in Design

\* The form of the page, a line of a CSV file, a registration: the plan is read
\* before anything else.
AskIssue(s, b) ==
    /\ errand[s] = NoErrand /\ row[b].drawing = 0
    /\ Send(s, [op |-> "ISSUE", badge |-> b, allowed |-> capable, card |-> NoCopy])
    /\ UNCHANGED <<designVars, row, printed>>

AskRedraw(s, b) ==
    /\ errand[s] = NoErrand /\ row[b].drawing > 0
    /\ Send(s, [op |-> "REDRAW", badge |-> b, allowed |-> capable, card |-> NoCopy])
    /\ UNCHANGED <<designVars, row, printed>>

Draws(s) == errand[s] # NoErrand /\ errand[s].op \in {"ISSUE", "REDRAW"}

\* resolveCardTemplate, for the template asked for or the default one.
ResolveCard(s) ==
    /\ Draws(s) /\ errand[s].card = NoCopy
    /\ \E c \in {PlainCard} \cup {Content(d) : d \in {e \in Design : errand[s].allowed /\ Resolvable(e)}} :
         errand' = [errand EXCEPT ![s].card = c]
    /\ UNCHANGED <<designVars, row, printed>>

\* A drawing that asks for no template takes the copy of the row again.
KeepCard(s) ==
    /\ Draws(s) /\ errand[s].card = NoCopy /\ errand[s].op = "REDRAW"
    /\ LET c == row[errand[s].badge].card IN
         /\ c # NoCopy /\ (OwnCard(c) => errand[s].allowed)
         /\ errand' = [errand EXCEPT ![s].card = c]
    /\ UNCHANGED <<designVars, row, printed>>

\* createTemplateSnapshot: the identifier and the copy are written together.
Drawn(b, c) ==
    [badge |-> b, template |-> IF c = NoCopy THEN NoCopy ELSE c.of, card |-> c,
     drawing |-> row[b].drawing + 1]

\* A QR code may be issued without a template, once; and may have been drawn by
\* another request since it was read.
WriteCard(s) ==
    LET e == errand[s] IN
    /\ Draws(s) /\ row[e.badge].drawing < MaxDrawings
    /\ IF e.op = "ISSUE" THEN row[e.badge].drawing = 0 ELSE e.card # NoCopy
    /\ row' = [row EXCEPT ![e.badge] = Drawn(e.badge, e.card)]
    /\ Send(s, NoErrand)
    /\ UNCHANGED <<designVars, printed>>

-----------------------------------------------------------------------------
(* Prints.                                                                 *)

IssuedRows == {row[b] : b \in {c \in Badge : row[c].drawing > 0}}

\* One badge, or a part of those of the event: the rows, and then the plan.
ReadBadges(s) ==
    /\ errand[s] = NoErrand
    /\ \E rows \in SUBSET IssuedRows : rows # {} /\ Send(s, [op |-> "PRINT", rows |-> rows])
    /\ UNCHANGED <<designVars, row, printed>>

\* What a row prints, kept with the number of its drawing.
PrintOf(r) == [badge |-> r.badge, drawing |-> r.drawing, shows |-> Stored(r)]

\* One card that is refused or missing refuses them all.
Printable(rows) == \A r \in rows : Stored(r) # NoCopy /\ (OwnCard(Stored(r)) => capable)

PrintBadges(s) ==
    /\ errand[s] # NoErrand /\ errand[s].op = "PRINT"
    /\ Printable(errand[s].rows)
    /\ printed' = printed \cup {PrintOf(r) : r \in errand[s].rows}
    /\ Send(s, NoErrand)
    /\ UNCHANGED <<designVars, row>>

\* The holder of a registration asks no plan, and finds built-in templates only
\* where there is no copy.
HolderPrints(b) ==
    /\ row[b].drawing > 0 /\ (row[b].card = NoCopy => row[b].template \notin Design)
    /\ printed' = printed \cup {PrintOf(row[b])}
    /\ UNCHANGED <<designVars, row, errand>>

\* A refusal, an error or a restart.
ErrandStops(s) ==
    /\ errand[s] # NoErrand /\ Send(s, NoErrand)
    /\ UNCHANGED <<designVars, row, printed>>

DesignNext ==
    \/ \E d \in Design : ModifyDesign(d) \/ PublishDesign(d) \/ ArchiveDesign(d) \/ RemoveDesign(d)
    \/ CapabilityChanges

DrawNext(s) ==
    \/ \E b \in Badge : AskIssue(s, b) \/ AskRedraw(s, b)
    \/ ResolveCard(s) \/ KeepCard(s) \/ WriteCard(s)

PrintNext == \E s \in Staff : ReadBadges(s) \/ PrintBadges(s) \/ ErrandStops(s)

BadgesNext ==
    \/ DesignNext
    \/ PrintNext
    \/ \E s \in Staff : DrawNext(s)
    \/ \E b \in Badge : HolderPrints(b)

BadgesSpec == BadgesInit /\ [][BadgesNext]_badgeVars

-----------------------------------------------------------------------------
(* Properties.                                                             *)

\* Whoever prints a badge, and whenever, it shows the same card until it is drawn
\* again: its template may have been modified, archived or deleted meanwhile
\* (createTemplateSnapshot, resolveStoredCardTemplate, resolveSnapshot).
SameCardUntilRedrawn ==
    \A p, q \in printed : p.badge = q.badge /\ p.drawing = q.drawing => p.shows = q.shows

\* No badge shows a content that never was published, though it is resolved some
\* time before it is kept, and kept long before it is printed.
OnlyPublicCards == \A p \in printed : OwnCard(p.shows) => p.shows \in public

\* A badge that was issued never loses its card, whatever became of its template.
CardsAreKept == \A b \in Badge : row[b].drawing > 0 => Stored(row[b]) # NoCopy

\* The badges are those that the organization chose and published.
BadgesHold == SameCardUntilRedrawn /\ OnlyPublicCards /\ CardsAreKept

-----------------------------------------------------------------------------
(* The inductive invariant behind it.                                      *)

BadgesTypeOK ==
    /\ design \in [Design -> [status : {"DRAFT", "PUBLISHED", "ARCHIVED", "DELETED"}, revision : Nat]]
    /\ capable \in BOOLEAN /\ public \subseteq Own
    /\ row \in [Badge -> Rows] /\ \A b \in Badge : row[b].badge = b
    /\ errand \in [Staff -> Errands \cup {NoErrand}]
    /\ printed \subseteq [badge : Badge, drawing : Nat, shows : DesignCards]

\* Rows that were read, and those that are kept.
ReadRows(s) == IF errand[s] # NoErrand /\ errand[s].op = "PRINT" THEN errand[s].rows ELSE {}
Copies == {row[b] : b \in Badge} \cup UNION {ReadRows(s) : s \in Staff}

\* What a row shows, looking nothing up.
Kept(r) == IF r.card # NoCopy THEN r.card ELSE PlainCard

\* A row that has a template has its copy, of a published content, and is no newer
\* than the one that is kept.
CopySound(r) ==
    /\ r.card = NoCopy => r.template \notin Design
    /\ OwnCard(r.card) => r.card \in public
    /\ r.drawing <= row[r.badge].drawing

CardsInHandPublic ==
    \A s \in Staff : Draws(s) /\ OwnCard(errand[s].card) => errand[s].card \in public

PrintSound(p) ==
    /\ p.drawing <= row[p.badge].drawing
    /\ OwnCard(p.shows) => p.shows \in public
    /\ \A r \in Copies : p.badge = r.badge /\ p.drawing = r.drawing => p.shows = Kept(r)

BadgesIInv ==
    /\ BadgesTypeOK
    /\ \A d \in Design : Resolvable(d) => Content(d) \in public
    /\ \A r \in Copies : CopySound(r)
    /\ \A r, q \in Copies : r.badge = q.badge /\ r.drawing = q.drawing => Kept(r) = Kept(q)
    /\ CardsInHandPublic
    /\ \A p \in printed : PrintSound(p)
    /\ SameCardUntilRedrawn

=============================================================================
