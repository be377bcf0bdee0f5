--------------------------- MODULE CardTemplates ---------------------------
(***************************************************************************)
(* The card templates of one organization, its library of images and the   *)
(* cards that show them: services/custom_card_template.service.js,         *)
(* services/organization_asset.service.js, services/storage.service.js and *)
(* controllers/api.card_template.controller.js, the page of the dashboard  *)
(* that calls them, and the two places that freeze a template in a card:   *)
(* issuance by hand (with the new drawing of an existing card) and the     *)
(* offer of a registration, whose pass is issued later from its snapshot.  *)
(*                                                                         *)
(* Every operation reads first and writes later; only deleting a template  *)
(* and choosing the default one are transactions, and a stored file is     *)
(* removed after them. A template shows at most one image here, as its     *)
(* background or elsewhere, as its logo or in its scene: countUsages counts*)
(* these alike, the deletion of a template looks at backgrounds only. Name,*)
(* colours, fields and layout are left out, and so is the plan, without    *)
(* which every one of these requests is refused, and what a request names  *)
(* that is not of its organization.                                        *)
(***************************************************************************)
EXTENDS Naturals, FiniteSets

CONSTANTS
    Template,   \* rows of card_template_customs
    Image,      \* uploaded images; every upload gets a new name
    Card,       \* passes, with the card each of them shows
    Admin,      \* pages of the dashboard
    MaxAssets,  \* MAX_ASSETS_PER_ORG
    Standard,   \* no template of the organization's own: none or a built-in one
    NoImage,
    NoRequest

Statuses == {"DRAFT", "PUBLISHED", "ARCHIVED"}

\* HELD: the snapshot of a registration whose pass is not issued yet.
Cards == [state : {"NONE", "HELD", "ISSUED", "DELETED"},
          template : Template \cup {Standard}, image : Image \cup {NoImage}]
NoCard == [state |-> "NONE", template |-> Standard, image |-> NoImage]

\* EDIT: the editor is open, with the image chosen so far. The others are requests
\* between what they read and what they write next.
Requests ==
    [op : {"UPLOAD"}]
    \cup [op : {"REGISTER", "REMOVE", "UNLINK"}, image : Image]
    \cup [op : {"EDIT", "COPY"}, image : Image \cup {NoImage}, back : BOOLEAN]
    \cup [op : {"STATUS"}, template : Template, status : Statuses]
    \cup [op : {"DEFAULT"}, template : Template]
    \cup [op : {"DELETE"}, template : Template, image : Image \cup {NoImage}]
    \cup [op : {"ISSUE"}, snapshot : Cards]
    \cup [op : {"REDRAW"}, card : Card, snapshot : Cards]

ASSUME ConstantsOK ==
    /\ IsFiniteSet(Image) /\ IsFiniteSet(Admin) /\ Admin # {}
    /\ MaxAssets \in Nat
    /\ Standard \notin Template
    /\ NoImage \notin Image
    /\ NoRequest \notin Requests

VARIABLES
    status,     \* card_template_customs.status; NONE: no such row
    trash,      \* templates whose deleted_at is set
    image,      \* the image a template shows; none once it is deleted
    background, \* templates whose image is their background_image_url
    flagged,    \* templates whose is_default is set
    default,    \* organizations.default_card_template_id
    library,    \* organization_assets
    drawn,      \* images uploaded so far
    file,       \* files in the storage
    card,       \* card_template_id and card_template_snapshot of each pass
    request     \* what each page is waiting for

rowVars == <<status, trash, image, background>>
defaultVars == <<flagged, default>>
assetVars == <<library, drawn, file>>
vars == <<rowVars, defaultVars, assetVars, card, request>>

Init ==
    /\ status = [t \in Template |-> "NONE"]
    /\ trash = {}
    /\ image = [t \in Template |-> NoImage]
    /\ background = {}
    /\ flagged = {}
    /\ default = Standard
    /\ library = {}
    /\ drawn = {}
    /\ file = {}
    /\ card = [c \in Card |-> NoCard]
    /\ request = [a \in Admin |-> NoRequest]

Live(t) == status[t] # "NONE" /\ t \notin trash

\* Mutant: the status is not looked at.
PublishedOrNot(t) == Live(t)

\* What findByIdForOrg and the status make usable on a card.
Published(t) == Live(t) /\ status[t] = "PUBLISHED"

Idle(a) == request[a] = NoRequest
Waiting(a, op) == ~Idle(a) /\ request[a].op = op
Editing(a) == Waiting(a, "EDIT")
Wait(a, r) == request' = [request EXCEPT ![a] = r]
Answer(a) == Wait(a, NoRequest)

\* The editor with an image, as the background or elsewhere.
Edit(a, i) == \E b \in BOOLEAN : Wait(a, [op |-> "EDIT", image |-> i, back |-> b /\ i # NoImage])

-----------------------------------------------------------------------------
(* The library of images *)

\* assertCapacity counts the library before the file is stored.
Upload(a) ==
    /\ Idle(a) \/ Editing(a)
    /\ Cardinality(library) < MaxAssets
    /\ Wait(a, [op |-> "UPLOAD"])
    /\ UNCHANGED <<rowVars, defaultVars, assetVars, card>>

\* saveUploadedAsset, under a name that was never used.
StoreFile(a) ==
    /\ Waiting(a, "UPLOAD")
    /\ \E i \in Image \ drawn :
        /\ drawn' = drawn \cup {i}
        /\ file' = file \cup {i}
        /\ Wait(a, [op |-> "REGISTER", image |-> i])
    /\ UNCHANGED <<rowVars, defaultVars, library, card>>

\* registerForOrg; the editor takes the image, the library only lists it.
Register(a) ==
    /\ Waiting(a, "REGISTER")
    /\ library' = library \cup {request[a].image}
    /\ Answer(a) \/ Edit(a, request[a].image)
    /\ UNCHANGED <<rowVars, defaultVars, drawn, file, card>>

\* countUsages: live templates and passes that were not deleted.
Used(i) ==
    \/ \E t \in Template : Live(t) /\ image[t] = i
    \/ \E c \in Card : card[c].state = "ISSUED" /\ card[c].image = i

RemoveAsset(a, i) ==
    /\ Idle(a)
    /\ i \in library
    /\ ~Used(i)
    /\ Wait(a, [op |-> "REMOVE", image |-> i])
    /\ UNCHANGED <<rowVars, defaultVars, assetVars, card>>

\* The row goes first; a second request finds none, fails and removes no file.
RemoveRow(a) ==
    /\ Waiting(a, "REMOVE")
    /\ library' = library \ {request[a].image}
    /\ IF request[a].image \in library
       THEN Wait(a, [op |-> "UNLINK", image |-> request[a].image])
       ELSE Answer(a)
    /\ UNCHANGED <<rowVars, defaultVars, drawn, file, card>>

\* removeManagedPublicAsset, for an asset or the background of a template.
Unlink(a) ==
    /\ Waiting(a, "UNLINK")
    /\ file' = file \ {request[a].image}
    /\ Answer(a)
    /\ UNCHANGED <<rowVars, defaultVars, library, drawn, card>>

\* The image is known to something other than its own upload.
Known(i) ==
    \/ i \in library
    \/ \E t \in Template : image[t] = i
    \/ \E a \in Admin :
        /\ ~Idle(a)
        /\ request[a].op \in {"EDIT", "REMOVE", "UNLINK", "COPY", "DELETE"}
        /\ request[a].image = i

\* The address of an image is not checked: one of the library as the page listed it, or
\* any other that is known, and the image may be gone when it is used.
PickImage(a) ==
    /\ Idle(a) \/ Editing(a)
    /\ \E i \in {j \in Image : Known(j)} \cup {NoImage} : Edit(a, i)
    /\ UNCHANGED <<rowVars, defaultVars, assetVars, card>>

-----------------------------------------------------------------------------
(* Templates *)

OpenEdit(a, t) ==
    /\ Idle(a)
    /\ Live(t)
    /\ Wait(a, [op |-> "EDIT", image |-> image[t], back |-> t \in background])
    /\ UNCHANGED <<rowVars, defaultVars, assetVars, card>>

\* The row takes the image that a request holds, in its place.
SetImage(t, r) ==
    /\ image' = [image EXCEPT ![t] = r.image]
    /\ background' = IF r.back THEN background \cup {t} ELSE background \ {t}

NewRow(t, r) ==
    /\ status[t] = "NONE"
    /\ status' = [status EXCEPT ![t] = "DRAFT"]
    /\ SetImage(t, r)
    /\ UNCHANGED trash

Create(a, t) ==
    /\ Editing(a)
    /\ NewRow(t, request[a])
    /\ Answer(a)
    /\ UNCHANGED <<defaultVars, assetVars, card>>

\* A published template is modified in place.
Update(a, t) ==
    /\ Editing(a)
    /\ Live(t)
    /\ SetImage(t, request[a])
    /\ Answer(a)
    /\ UNCHANGED <<status, trash, defaultVars, assetVars, card>>

Transitions == {<<"DRAFT", "PUBLISHED">>, <<"PUBLISHED", "ARCHIVED">>, <<"ARCHIVED", "PUBLISHED">>}

SetStatus(a, t, s) ==
    /\ Idle(a)
    /\ Live(t)
    /\ <<status[t], s>> \in Transitions
    /\ Wait(a, [op |-> "STATUS", template |-> t, status |-> s])
    /\ UNCHANGED <<rowVars, defaultVars, assetVars, card>>

StatusWrites(a) ==
    /\ Waiting(a, "STATUS")
    /\ status' = [status EXCEPT ![request[a].template] = request[a].status]
    /\ Answer(a)
    /\ UNCHANGED <<trash, image, background, defaultVars, assetVars, card>>

\* Mutant: the library is not counted.
ReferencedByRows(t) ==
    \/ \E u \in background \ {t} : Live(u) /\ image[u] = image[t]
    \/ \E c \in Card : card[c].state = "ISSUED" /\ card[c].template = t

\* The background of other live templates, cards made from this one, the library; not the
\* logos and scenes, nor the cards that a template used to make.
Referenced(t) ==
    \/ \E u \in background \ {t} : Live(u) /\ image[u] = image[t]
    \/ \E c \in Card : card[c].state = "ISSUED" /\ card[c].template = t
    \/ image[t] \in library

\* The file to remove is decided here, by the rows as they are now.
DeleteTemplate(a, t) ==
    /\ Idle(a)
    /\ Live(t)
    /\ Wait(a, [op |-> "DELETE", template |-> t,
                image |-> IF t \notin background \/ Referenced(t) THEN NoImage ELSE image[t]])
    /\ UNCHANGED <<rowVars, defaultVars, assetVars, card>>

DeleteWrites(a) ==
    /\ Waiting(a, "DELETE")
    /\ trash' = trash \cup {request[a].template}
    /\ flagged' = flagged \ {request[a].template}
    /\ default' = IF default = request[a].template THEN Standard ELSE default
    /\ IF request[a].image # NoImage
       THEN Wait(a, [op |-> "UNLINK", image |-> request[a].image])
       ELSE Answer(a)
    /\ image' = [image EXCEPT ![request[a].template] = NoImage]
    /\ background' = background \ {request[a].template}
    /\ UNCHANGED <<status, assetVars, card>>

Duplicate(a, t) ==
    /\ Idle(a)
    /\ Live(t)
    /\ Wait(a, [op |-> "COPY", image |-> image[t], back |-> t \in background])
    /\ UNCHANGED <<rowVars, defaultVars, assetVars, card>>

DuplicateWrites(a, t) ==
    /\ Waiting(a, "COPY")
    /\ NewRow(t, request[a])
    /\ Answer(a)
    /\ UNCHANGED <<defaultVars, assetVars, card>>

-----------------------------------------------------------------------------
(* The default template *)

SetDefault(a, t) ==
    /\ Idle(a)
    /\ Published(t)
    /\ Wait(a, [op |-> "DEFAULT", template |-> t])
    /\ UNCHANGED <<rowVars, defaultVars, assetVars, card>>

\* The flags of live rows fall, this row is flagged by its id alone.
DefaultWrites(a) ==
    /\ Waiting(a, "DEFAULT")
    /\ flagged' = (flagged \cap trash) \cup {request[a].template}
    /\ default' = request[a].template
    /\ Answer(a)
    /\ UNCHANGED <<rowVars, assetVars, card>>

\* Mutant: the flag of the row is left.
ClearDefaultOnly(a) ==
    /\ Idle(a)
    /\ default' = Standard
    /\ UNCHANGED <<rowVars, flagged, assetVars, card, request>>

\* The default is cleared, or replaced by a built-in one.
ClearDefault(a) ==
    /\ Idle(a)
    /\ flagged' = flagged \cap trash
    /\ default' = Standard
    /\ UNCHANGED <<rowVars, assetVars, card, request>>

-----------------------------------------------------------------------------
(* Cards *)

\* resolveCardTemplate and createTemplateSnapshot; the default template is
\* resolved like one asked for, and refuses the pass when it is not published.
Snapshots ==
    {[state |-> "ISSUED", template |-> t, image |-> image[t]] : t \in {u \in Template : Published(u)}}
    \cup {[NoCard EXCEPT !.state = "ISSUED"]}

IssuePass(a) ==
    /\ Idle(a)
    /\ \E s \in Snapshots : Wait(a, [op |-> "ISSUE", snapshot |-> s])
    /\ UNCHANGED <<rowVars, defaultVars, assetVars, card>>

PassWrites(a, c) ==
    /\ Waiting(a, "ISSUE")
    /\ card[c].state = "NONE"
    /\ card' = [card EXCEPT ![c] = request[a].snapshot]
    /\ Answer(a)
    /\ UNCHANGED <<rowVars, defaultVars, assetVars>>

\* generateCardForExistingQr, with a template asked for.
RedrawCard(a, c) ==
    /\ Idle(a)
    /\ card[c].state = "ISSUED"
    /\ \E s \in Snapshots : Wait(a, [op |-> "REDRAW", card |-> c, snapshot |-> s])
    /\ UNCHANGED <<rowVars, defaultVars, assetVars, card>>

RedrawWrites(a) ==
    /\ Waiting(a, "REDRAW")
    /\ card' = [card EXCEPT ![request[a].card] = IF @.state = "DELETED" THEN @ ELSE request[a].snapshot]
    /\ Answer(a)
    /\ UNCHANGED <<rowVars, defaultVars, assetVars>>

\* snapshotOffer: the registration keeps the snapshot of its offer.
Submit(c) ==
    /\ card[c].state = "NONE"
    /\ \E s \in Snapshots : card' = [card EXCEPT ![c] = [s EXCEPT !.state = "HELD"]]
    /\ UNCHANGED <<rowVars, defaultVars, assetVars, request>>

\* The job issues the pass from that snapshot, trusted as it is.
IssueHeld(c) ==
    /\ card[c].state = "HELD"
    /\ card' = [card EXCEPT ![c].state = "ISSUED"]
    /\ UNCHANGED <<rowVars, defaultVars, assetVars, request>>

\* The event is deleted and its passes with it: what they show matters no more.
DeleteCard(c) ==
    /\ card[c].state = "ISSUED"
    /\ card' = [card EXCEPT ![c] = [NoCard EXCEPT !.state = "DELETED"]]
    /\ UNCHANGED <<rowVars, defaultVars, assetVars, request>>

-----------------------------------------------------------------------------

\* The editor is closed; or a request ends between two of its steps, on an error
\* or because the server restarts.
Stop(a) ==
    /\ ~Idle(a)
    /\ Answer(a)
    /\ UNCHANGED <<rowVars, defaultVars, assetVars, card>>

LibraryStep(a) ==
    \/ Upload(a) \/ StoreFile(a) \/ Register(a)
    \/ \E i \in Image : RemoveAsset(a, i)
    \/ RemoveRow(a) \/ Unlink(a) \/ PickImage(a)

TemplateStep(a) ==
    \/ \E t \in Template :
        \/ OpenEdit(a, t) \/ Create(a, t) \/ Update(a, t)
        \/ \E s \in Statuses : SetStatus(a, t, s)
        \/ DeleteTemplate(a, t) \/ Duplicate(a, t) \/ DuplicateWrites(a, t) \/ SetDefault(a, t)
    \/ StatusWrites(a) \/ DeleteWrites(a) \/ DefaultWrites(a) \/ ClearDefault(a)

CardStep(a) ==
    \/ IssuePass(a) \/ RedrawWrites(a)
    \/ \E c \in Card : PassWrites(a, c) \/ RedrawCard(a, c)

Next ==
    \/ \E a \in Admin : LibraryStep(a) \/ TemplateStep(a) \/ CardStep(a) \/ Stop(a)
    \/ \E c \in Card : Submit(c) \/ IssueHeld(c) \/ DeleteCard(c)

Spec == Init /\ [][Next]_vars

-----------------------------------------------------------------------------
(* Properties *)

TypeOK ==
    /\ status \in [Template -> Statuses \cup {"NONE"}]
    /\ trash \subseteq Template /\ flagged \subseteq Template
    /\ image \in [Template -> Image \cup {NoImage}] /\ background \subseteq Template
    /\ default \in Template \cup {Standard}
    /\ library \subseteq Image /\ drawn \subseteq Image /\ file \subseteq Image
    /\ card \in [Card -> Cards]
    /\ request \in [Admin -> Requests \cup {NoRequest}]

\* Every image the library offers has its file: neither an upload that stops
\* half way nor the deletion of a template, which removes a file it counted no
\* reference to some time before, leaves one that cannot be shown.
LibraryBacked == library \subseteq file

\* Requests that passed the test of the capacity and have not listed their image.
Uploading == {a \in Admin : ~Idle(a) /\ request[a].op \in {"UPLOAD", "REGISTER"}}

\* The capacity is tested before the file is stored and the row created, so
\* uploads that overlap exceed it, by no more than their number less one; those
\* on their way are counted here.
LibraryBounded == Cardinality(library) + Cardinality(Uploading) + 1 <= MaxAssets + Cardinality(Admin)

\* The library within its limit, and every image of it there.
LibrarySound == LibraryBacked /\ LibraryBounded

\* What is still a draft stays inside: no card, no registration and no default
\* ever names it, whatever was read before the status or the row changed.
DraftsStayInside ==
    /\ \A c \in Card : card[c].template \in Template => status[card[c].template] \in {"PUBLISHED", "ARCHIVED"}
    /\ default \in Template => status[default] \in {"PUBLISHED", "ARCHIVED"}

\* The two records of the default agree: among the rows the page lists, the one
\* flagged is the one organizations.default_card_template_id names.
FlagAgrees == \A t \in Template : Live(t) => (t \in flagged <=> default = t)

\* No draft is shown, and the organization has one default.
TemplatesSound == DraftsStayInside /\ FlagAgrees

\* Requests between two steps hold nothing that could break the above: the
\* image of an upload is known to nobody yet and has its file, the one whose
\* file goes is not listed, and a template once published never is a draft.
InFlight(r) ==
    /\ r.op = "REGISTER" => r.image \in file /\ r.image \in drawn
    /\ r.op = "UNLINK" => r.image \in drawn \ library
    /\ r.op = "DELETE" /\ r.image # NoImage => r.image \in drawn \ library
    /\ r.op \in {"EDIT", "COPY"} /\ r.image # NoImage => r.image \in drawn
    /\ r.op = "REMOVE" => r.image \in drawn
    /\ r.op = "STATUS" => status[r.template] # "NONE" /\ r.status # "DRAFT"
    /\ r.op = "DEFAULT" => status[r.template] \in {"PUBLISHED", "ARCHIVED"}
    /\ r.op = "DELETE" => status[r.template] # "NONE"
    /\ r.op \in {"ISSUE", "REDRAW"} /\ r.snapshot.template \in Template =>
        status[r.snapshot.template] \in {"PUBLISHED", "ARCHIVED"}

KnownDrawn == library \subseteq drawn /\ \A i \in Image : Known(i) => i \in drawn

PendingUnknown ==
    \A a, b \in Admin :
        Waiting(a, "REGISTER") =>
            /\ ~Known(request[a].image)
            /\ Waiting(b, "REGISTER") /\ a # b => request[a].image # request[b].image

StepsInFlight == \A a \in Admin : ~Idle(a) => InFlight(request[a])

NewUnflagged == \A t \in flagged : status[t] # "NONE"

\* The inductive invariant.
IInv ==
    /\ TypeOK
    /\ LibraryBacked
    /\ KnownDrawn
    /\ PendingUnknown
    /\ StepsInFlight
    /\ LibraryBounded
    /\ DraftsStayInside
    /\ NewUnflagged
    /\ FlagAgrees

=============================================================================
