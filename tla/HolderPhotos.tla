----------------------------- MODULE HolderPhotos -----------------------------
(***************************************************************************)
(* The photo of the holder of one QR code (qr_photo.service.js,            *)
(* api.qr_photo.controller.js, HolderPhotoModal.jsx and the list of the    *)
(* event's page it is opened from): several browsers save, delete and look *)
(* at it, and each of their requests is answered late or never.            *)
(*                                                                         *)
(* A photo is its updated_at: the rank of the save it comes from, and 0 is *)
(* no photo. A request for an event that is deleted fails like the others. *)
(* A browser has at most one save or deletion on its way, even when it     *)
(* closes the window that asked for it and opens another one.              *)
(***************************************************************************)
EXTENDS Naturals

CONSTANTS
    Viewer,         \* browsers of the organization at the event's page
    MaxSaves        \* bound: photos saved

ASSUME MaxSavesOK == MaxSaves \in Nat \ {0}

VARIABLES
    photo,      \* the row of qr_holder_photos of the QR code
    saves,      \* photos saved so far
    modal,      \* HolderPhotoModal of each browser
    request,    \* its save or its deletion under way
    told        \* history: the newest photo its window has had to do with

photoVars == <<photo, saves, modal, request, told>>

NoPhoto == 0
Asked == MaxSaves + 1   \* asked, and not read by the server yet

Closed == [open |-> FALSE, version |-> NoPhoto, url |-> NoPhoto, fetch |-> {}]
NoChange == [at |-> "NONE", saving |-> FALSE, version |-> NoPhoto, mounted |-> FALSE]

\* The QR code is there before its photo: the upload that follows its creation
\* may fail.
PhotosInit ==
    /\ saves \in {0, 1} /\ photo = saves
    /\ modal = [b \in Viewer |-> Closed]
    /\ request = [b \in Viewer |-> NoChange]
    /\ told = [b \in Viewer |-> NoPhoto]

Newest(v, w) == IF v > w THEN v ELSE w
Learns(b, v) == told' = [told EXCEPT ![b] = Newest(@, v)]

-----------------------------------------------------------------------------
(* The window.                                                             *)

\* Mutant of Cancelled: the answers on their way are shown all the same.
CancelledNever(fetches) == fetches

\* The effect's cleanup: an answer on its way to the window is ignored.
Cancelled(fetches) == {}

\* The effect: the photo is fetched anew when the QR code's version changes.
Fetches(fetches, old, new) ==
    IF new = old THEN fetches
    ELSE Cancelled(fetches) \cup (IF new = NoPhoto THEN {} ELSE {Asked})

\* The window copies the QR code of the list and does not follow it. The list may
\* be of any age: a late answer of fetchAll replaces what the page changed in it.
OpenPhoto(b) ==
    /\ ~modal[b].open
    /\ \E v \in 0..saves :
         /\ modal' = [modal EXCEPT ![b] = [Closed EXCEPT !.open = TRUE, !.version = v,
                                                         !.fetch = Fetches({}, NoPhoto, v)]]
         /\ Learns(b, v)
    /\ UNCHANGED <<photo, saves, request>>

\* Its request goes on without it.
ClosePhoto(b) ==
    /\ modal[b].open
    /\ modal' = [modal EXCEPT ![b] = Closed]
    /\ request' = [request EXCEPT ![b].mounted = FALSE]
    /\ UNCHANGED <<photo, saves, told>>

\* getHolderPhoto
ReadPhoto(b) ==
    /\ Asked \in modal[b].fetch
    /\ modal' = [modal EXCEPT ![b].fetch = (@ \ {Asked}) \cup {photo}]
    /\ UNCHANGED <<photo, saves, request, told>>

ShowPhoto(b) ==
    /\ \E v \in modal[b].fetch \ {Asked} :
         /\ modal' = [modal EXCEPT ![b].fetch = @ \ {v}, ![b].url = v]
         /\ Learns(b, v)
    /\ UNCHANGED <<photo, saves, request>>

\* The window says so, and what it shows stays.
FetchFails(b) ==
    /\ \E v \in modal[b].fetch : modal' = [modal EXCEPT ![b].fetch = @ \ {v}]
    /\ told' = [told EXCEPT ![b] = modal[b].url]
    /\ UNCHANGED <<photo, saves, request>>

-----------------------------------------------------------------------------
(* Saving and deleting.                                                    *)

Send(b, saving) ==
    /\ modal[b].open /\ request[b] = NoChange
    /\ request' = [request EXCEPT ![b] = [at |-> "SENT", saving |-> saving,
                                          version |-> NoPhoto, mounted |-> TRUE]]
    /\ UNCHANGED <<photo, saves, modal, told>>

AskSave(b) == Send(b, TRUE)

\* Only a photo that is shown has the button.
AskRemoval(b) == modal[b].url # NoPhoto /\ Send(b, FALSE)

\* uploadHolderPhoto: an upsert, and its updated_at is answered.
SavePhoto(b) ==
    /\ request[b].at = "SENT" /\ request[b].saving /\ saves < MaxSaves
    /\ saves' = saves + 1 /\ photo' = saves + 1
    /\ request' = [request EXCEPT ![b].at = "DONE", ![b].version = saves + 1]
    /\ UNCHANGED <<modal, told>>

DeletePhoto(b) ==
    /\ request[b].at = "SENT" /\ ~request[b].saving
    /\ photo' = NoPhoto
    /\ request' = [request EXCEPT ![b].at = "DONE"]
    /\ UNCHANGED <<saves, modal, told>>

\* The window that asked shows the file it sent, and the copy in the window that is
\* open now follows.
PhotoChanged(b) ==
    LET v == request[b].version IN
    /\ request[b].at = "DONE"
    /\ modal' = [modal EXCEPT
         ![b].url = IF request[b].mounted THEN v ELSE @,
         ![b].version = IF modal[b].open THEN v ELSE @,
         ![b].fetch = IF modal[b].open THEN Fetches(@, modal[b].version, v) ELSE @]
    /\ request' = [request EXCEPT ![b] = NoChange]
    /\ Learns(b, v)
    /\ UNCHANGED <<photo, saves>>

\* Refused, or the answer is lost, with the request or after it was served.
ChangeFails(b) ==
    /\ request[b].at \in {"SENT", "DONE"}
    /\ request' = [request EXCEPT ![b] = NoChange]
    /\ UNCHANGED <<photo, saves, modal, told>>

PhotosNext ==
    \E b \in Viewer :
      \/ OpenPhoto(b) \/ ClosePhoto(b)
      \/ ReadPhoto(b) \/ ShowPhoto(b) \/ FetchFails(b)
      \/ AskSave(b) \/ AskRemoval(b) \/ SavePhoto(b) \/ DeletePhoto(b)
      \/ PhotoChanged(b) \/ ChangeFails(b)

PhotosSpec == PhotosInit /\ [][PhotosNext]_photoVars

-----------------------------------------------------------------------------
(* Property.                                                               *)

\* A window that waits for no photo, and was not told that the last one could not
\* be fetched, shows none older than those its browser saved, or saw in such a
\* window before: an answer on its way when the photo is replaced does not bring
\* the old face back.
PhotoIsNotOlder ==
    \A b \in Viewer :
      modal[b].url # NoPhoto /\ modal[b].fetch = {} =>
        modal[b].url >= told[b]

-----------------------------------------------------------------------------
(* The inductive invariant behind it.                                      *)

PhotosTypeOK ==
    /\ saves \in Nat /\ saves <= MaxSaves /\ photo \in {NoPhoto, saves}
    /\ modal \in [Viewer -> [open : BOOLEAN, version : Nat, url : Nat, fetch : SUBSET Nat]]
    /\ request \in [Viewer -> [at : {"NONE", "SENT", "DONE"}, saving : BOOLEAN,
                               version : Nat, mounted : BOOLEAN]]
    /\ told \in [Viewer -> Nat]

\* A closed window knows nothing. One that waits waits for one photo at most, which is
\* none or no older than those it has had to do with.
WindowConsistent(b) ==
    LET m == modal[b] IN
    /\ ~m.open => m = Closed
    /\ told[b] <= saves /\ m.version <= saves /\ m.url <= saves
    /\ m.fetch \subseteq 0..saves \cup {Asked}
    /\ \A v, w \in m.fetch : v = w
    /\ \A v \in m.fetch : v \in {Asked, NoPhoto} \/ told[b] <= v

\* A save that the window of today asked for is newer than what the window shows of the
\* list; while one of an earlier window is on its way, the window still shows the
\* photo it opened with, or waits for it.
RequestConsistent(b) ==
    LET m == modal[b] q == request[b] IN
    /\ q.mounted => m.open /\ q.at # "NONE"
    /\ q.version <= saves
    /\ q.at = "DONE" /\ q.saving /\ q.mounted => q.version > m.version
    /\ q.at # "DONE" => q.version = NoPhoto
    /\ ~q.saving => q.version = NoPhoto
    /\ q.at # "NONE" /\ ~q.mounted =>
         /\ m.url # NoPhoto => m.fetch = {}
         /\ m.url # NoPhoto \/ m.fetch # {} => m.version <= told[b]

PhotosIInv ==
    /\ PhotosTypeOK
    /\ \A b \in Viewer : WindowConsistent(b) /\ RequestConsistent(b)
    /\ PhotoIsNotOlder

=============================================================================
